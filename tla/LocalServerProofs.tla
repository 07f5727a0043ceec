-------------------------- MODULE LocalServerProofs ---------------------------
(***************************************************************************)
(* Proofs about the two local servers: their requests and connections      *)
(* (HttpServers), and what the workbench server and its pages do with the  *)
(* requests (Workbench).                                                   *)
(*                                                                         *)
(* HttpServers, for any number of connections, any headers and any body    *)
(* limit. The three invariants about a request are not inductive one by    *)
(* one: that an answer covers the whole body needs to know that a request  *)
(* without an answer has status 0, that a body is still within the limit   *)
(* and wholly in the buffer while it is awaited, and that a request whose  *)
(* timer runs was not answered. ConnInv collects these facts.              *)
(*                                                                         *)
(* Workbench, for any number of tabs, any of the three sessions and any    *)
(* number of requests and restarts. None of its invariants is inductive.   *)
(* PagesInv says which request a page waits for and which it saw answered; *)
(* StoreInv that the stored history of a session and its projection say    *)
(* the same; KnowledgeInv that everything that a page, a request or an     *)
(* answer says of a session is the beginning of what is stored there. What *)
(* is kept of a history is defined by recursion, so the lemmas about it    *)
(* are proved by induction, from the least element of a set of places.     *)
(*                                                                         *)
(* A session's boundary asks the checks of PolicyChecks. What they answer  *)
(* about its one package and its reviewers' records is proved from their   *)
(* definitions (PackagePasses, AudienceMayRead, AssessmentBound,           *)
(* ReviewerMayRead, ReviewDecided), check by check.                        *)
(***************************************************************************)
EXTENDS HttpServers, Workbench, FiniteSetTheorems, WellFoundedInduction, SequenceTheorems, TLAPS

ConnState ==
  [phase : Phases, get : BOOLEAN, status : Nat, timer : BOOLEAN, size : Nat, buffered : Nat,
   ended : BOOLEAN, running : BOOLEAN]

(* The body received so far is in the buffer and within the limit.          *)
Whole(r) == r.size <= BodyLimit /\ r.buffered = r.size

(* The inductive invariant of one request.                                  *)
ConnInv(r) ==
  /\ r \in ConnState
  /\ r.timer <=> r.phase \in {"body", "evaluating"}
  /\ r.buffered <= BodyLimit
  /\ r.phase \in {"idle", "headers", "body", "evaluating"} => r.status = 0 /\ Whole(r)
  /\ r.phase = "evaluating" => r.ended
  /\ r.phase \in {"idle", "headers", "body"} => ~r.ended /\ ~r.running
  /\ r.status = 200 /\ ~r.get => r.ended /\ Whole(r)

HttpInv ==
  /\ listening \in BOOLEAN
  /\ conn \in [Connection -> ConnState]
  /\ \A c \in Connection : ConnInv(conn[c])

(* A step of a request that was answered or lost keeps its answer.          *)
Kept(r, s) ==
  r.phase \in {"answered", "closed"} =>
    s.status = r.status /\ s.phase \in {"answered", "closed"}
-----------------------------------------------------------------------------
(* finish on a request that waits: only the phase, the status and the timer *)
(* change.                                                                  *)
LEMMA FinishWaiting ==
  ASSUME NEW r \in ConnState, r.phase \notin {"answered", "closed"}, NEW status \in Nat
  PROVE  /\ Finish(r, status) \in ConnState
         /\ Finish(r, status).phase = "answered" /\ Finish(r, status).status = status
         /\ Finish(r, status).timer = FALSE /\ Finish(r, status).get = r.get
         /\ Finish(r, status).size = r.size /\ Finish(r, status).buffered = r.buffered
         /\ Finish(r, status).ended = r.ended /\ Finish(r, status).running = r.running
BY DEF Finish, ConnState, Phases

(* The invariant of a request that finish just answered.                    *)
LEMMA FinishInv ==
  ASSUME NEW r \in ConnState, r.phase \notin {"answered", "closed"}, NEW status \in Nat,
         r.buffered <= BodyLimit, status = 200 /\ ~r.get => r.ended /\ Whole(r)
  PROVE  ConnInv(Finish(r, status))
<1> DEFINE s == Finish(r, status)
<1>1. /\ s \in ConnState /\ s.phase = "answered" /\ s.status = status /\ ~s.timer
      /\ s.get = r.get /\ s.size = r.size /\ s.buffered = r.buffered
      /\ s.ended = r.ended /\ s.running = r.running
  BY FinishWaiting
<1> HIDE DEF s
<1>2. ConnInv(s)
  BY <1>1 DEF ConnInv, Whole
<1> QED BY <1>2 DEF s

(* Ending a request in any phase leaves its answer and its body alone.      *)
LEMMA ClosedRequest ==
  ASSUME NEW r, ConnInv(r)
  PROVE  ConnInv(Closed(r)) /\ Kept(r, Closed(r))
BY DEF Closed, ConnInv, ConnState, Kept, Phases, Whole

(* The statuses of the early returns.                                       *)
LEMMA HeaderStatusInNat ==
  ASSUME NEW c, NEW h
  PROVE  /\ HeaderStatus(c, h) \in Nat
         /\ HeaderStatus(c, h) = 200 => h.method = "GET"
BY DEF HeaderStatus, EvaluationStatus, WorkbenchStatus

LEMMA HeadersRequest ==
  ASSUME NEW r, ConnInv(r), r.phase = "headers", NEW get \in BOOLEAN, NEW status \in Nat,
         status = 200 => get
  PROVE  LET s == [r EXCEPT !.phase = "body", !.timer = TRUE, !.get = get]
         IN  ConnInv(IF status # 0 THEN Finish(s, status) ELSE s)
BY DEF Finish, ConnInv, ConnState, Phases, Whole

(* The data handler on a request whose body is awaited.                     *)
LEMMA ReceivedRequest ==
  ASSUME NEW r, ConnInv(r), r.phase = "body", NEW n \in Nat
  PROVE  ConnInv(Received(r, n))
<1> DEFINE over == [r EXCEPT !.size = @ + n, !.buffered = 0]
           taken == [r EXCEPT !.size = @ + n, !.buffered = @ + n]
<1>0. r \in ConnState /\ r.size + n \in Nat /\ r.buffered + n \in Nat
  BY DEF ConnInv, ConnState
<1>1. CASE r.size + n > BodyLimit
  <2>1. over \in ConnState /\ over.phase = "body" /\ over.buffered = 0
    BY <1>0 DEF ConnState
  <2>2. ConnInv(Finish(over, 413))
    <3> HIDE DEF over
    <3> QED BY <2>1, FinishInv, BodyLimitAssumption
  <2> QED BY <1>1, <2>2 DEF Received
<1>2. CASE ~(r.size + n > BodyLimit)
  <2>1. taken \in ConnState /\ taken.phase = r.phase /\ taken.timer = r.timer
        /\ taken.status = r.status /\ taken.size = r.size + n /\ taken.buffered = r.buffered + n
        /\ taken.ended = r.ended /\ taken.running = r.running
    BY <1>0 DEF ConnState
  <2>2. r.size \in Nat /\ BodyLimit \in Nat /\ r.buffered = r.size
    BY BodyLimitAssumption DEF ConnInv, ConnState, Whole
  <2>3. ConnInv(taken)
    <3> HIDE DEF taken
    <3> QED BY <1>2, <2>1, <2>2 DEF ConnInv, Whole
  <2> QED BY <1>2, <2>3 DEF Received
<1> QED BY <1>1, <1>2

(* The end handler: refused, answered at once, or evaluated.                *)
LEMMA EndRequest ==
  ASSUME NEW r, ConnInv(r), r.phase = "body", NEW status \in Nat
  PROVE  /\ ConnInv(Finish([r EXCEPT !.ended = TRUE], status))
         /\ ConnInv([[r EXCEPT !.ended = TRUE] EXCEPT !.phase = "evaluating", !.running = TRUE])
<1> DEFINE s == [r EXCEPT !.ended = TRUE]
<1>1. s \in ConnState /\ s.phase = "body" /\ s.ended /\ s.timer /\ s.status = 0 /\ Whole(s)
      /\ s.buffered <= BodyLimit
  BY DEF ConnInv, ConnState, Whole
<1> HIDE DEF s
<1>2. ConnInv(Finish(s, status))
  BY <1>1, FinishInv
<1>3. ConnInv([s EXCEPT !.phase = "evaluating", !.running = TRUE])
  BY <1>1 DEF ConnInv, ConnState, Phases, Whole
<1> QED BY <1>2, <1>3 DEF s

(* An evaluation that ends answers only a request that still waits.         *)
LEMMA EvaluatedRequest ==
  ASSUME NEW r, ConnInv(r), r.running, NEW status \in Nat
  PROVE  /\ ConnInv(Finish([r EXCEPT !.running = FALSE], status))
         /\ Kept(r, Finish([r EXCEPT !.running = FALSE], status))
BY DEF Finish, ConnInv, ConnState, Phases, Whole, Kept

LEMMA TimeoutRequest ==
  ASSUME NEW r, ConnInv(r), r.timer
  PROVE  ConnInv(Finish(r, 408)) /\ Kept(r, Finish(r, 408))
<1>1. r \in ConnState /\ r.phase \in {"body", "evaluating"} /\ r.buffered <= BodyLimit
  BY DEF ConnInv
<1> QED BY <1>1, FinishInv DEF Kept
-----------------------------------------------------------------------------
(* A step that moves one request within its invariant keeps the whole.      *)
LEMMA StepKeeps ==
  ASSUME HttpInv, NEW c \in Connection, NEW s, ConnInv(s), Step(c, s), Kept(conn[c], s),
         UNCHANGED listening
  PROVE  HttpInv' /\ \A d \in Connection : Kept(conn[d], conn'[d])
BY DEF HttpInv, Step, ConnInv, Kept

LEMMA Inductive ==
  ASSUME HttpInv, [HttpNext]_httpVars
  PROVE  HttpInv' /\ \A d \in Connection : Kept(conn[d], conn'[d])
<1> USE DEF HttpInv
<1>1. ASSUME NEW c \in Connection, Connect(c)
      PROVE  HttpInv' /\ \A d \in Connection : Kept(conn[d], conn'[d])
  <2>1. ConnInv([conn[c] EXCEPT !.phase = "headers"])
    BY <1>1 DEF Connect, ConnInv, ConnState, Phases, Whole
  <2>2. Kept(conn[c], [conn[c] EXCEPT !.phase = "headers"])
    BY <1>1 DEF Connect, Kept
  <2> QED BY <1>1, <2>1, <2>2, StepKeeps DEF Connect
<1>2. ASSUME NEW c \in Connection, Headers(c)
      PROVE  HttpInv' /\ \A d \in Connection : Kept(conn[d], conn'[d])
  <2>1. PICK h \in Header :
          Step(c, IF HeaderStatus(c, h) # 0
                  THEN Finish([conn[c] EXCEPT !.phase = "body", !.timer = TRUE,
                                              !.get = (h.method = "GET")], HeaderStatus(c, h))
                  ELSE [conn[c] EXCEPT !.phase = "body", !.timer = TRUE,
                                       !.get = (h.method = "GET")])
    BY <1>2 DEF Headers
  <2> DEFINE get == h.method = "GET"
             status == HeaderStatus(c, h)
             s == [conn[c] EXCEPT !.phase = "body", !.timer = TRUE, !.get = get]
             t == IF status # 0 THEN Finish(s, status) ELSE s
  <2>2. get \in BOOLEAN /\ status \in Nat /\ (status = 200 => get)
    BY HeaderStatusInNat
  <2>3. ConnInv(conn[c]) /\ conn[c].phase = "headers"
    BY <1>2 DEF Headers
  <2>4. Step(c, t)
    BY <2>1
  <2>5. ConnInv(t)
    <3> HIDE DEF get, status
    <3> QED BY <2>2, <2>3, HeadersRequest
  <2>6. Kept(conn[c], t)
    BY <2>3 DEF Kept
  <2> HIDE DEF t
  <2> QED BY <1>2, <2>4, <2>5, <2>6, StepKeeps DEF Headers
<1>3. ASSUME NEW c \in Connection, Data(c)
      PROVE  HttpInv' /\ \A d \in Connection : Kept(conn[d], conn'[d])
  <2>1. PICK n \in 1..MaxChunk : Step(c, Received(conn[c], n))
    BY <1>3 DEF Data
  <2>2. ConnInv(Received(conn[c], n))
    BY <1>3, <2>1, ReceivedRequest, BodyLimitAssumption DEF Data
  <2>3. Kept(conn[c], Received(conn[c], n))
    BY <1>3 DEF Data, Kept
  <2> QED BY <1>3, <2>1, <2>2, <2>3, StepKeeps DEF Data
<1>4. ASSUME NEW c \in Connection, End(c)
      PROVE  HttpInv' /\ \A d \in Connection : Kept(conn[d], conn'[d])
  <2> DEFINE s == [conn[c] EXCEPT !.ended = TRUE]
             t == [s EXCEPT !.phase = "evaluating", !.running = TRUE]
  <2>1. conn[c].phase = "body" /\ ConnInv(conn[c]) /\ UNCHANGED listening
    BY <1>4 DEF End
  <2>2. Step(c, t) \/ \E status \in {200, 400, 409, 422, 503} : Step(c, Finish(s, status))
    BY <1>4 DEF End
  <2>3. CASE Step(c, t)
    <3>1. ConnInv(t) /\ Kept(conn[c], t)
      BY <2>1, EndRequest DEF Kept
    <3> HIDE DEF t
    <3> QED BY <2>1, <2>3, <3>1, StepKeeps
  <2>4. ASSUME NEW status \in {200, 400, 409, 422, 503}, Step(c, Finish(s, status))
        PROVE  HttpInv' /\ \A d \in Connection : Kept(conn[d], conn'[d])
    <3>1. status \in Nat
      BY <2>4
    <3>2. ConnInv(Finish(s, status))
      <4>1. ASSUME NEW r, ConnInv(r), r.phase = "body"
            PROVE  ConnInv(Finish([r EXCEPT !.ended = TRUE], status))
        BY <3>1, <4>1, EndRequest
      <4> QED BY <2>1, <4>1
    <3>3. Kept(conn[c], Finish(s, status))
      BY <2>1 DEF Kept
    <3> HIDE DEF s
    <3> QED BY <2>1, <2>4, <3>2, <3>3, StepKeeps
  <2> QED BY <2>2, <2>3, <2>4
<1>5. ASSUME NEW c \in Connection, Evaluated(c)
      PROVE  HttpInv' /\ \A d \in Connection : Kept(conn[d], conn'[d])
  <2>1. PICK status \in {200, 400, 500} :
          Step(c, Finish([conn[c] EXCEPT !.running = FALSE], status))
    BY <1>5 DEF Evaluated
  <2>2. conn[c].running /\ ConnInv(conn[c])
    BY <1>5 DEF Evaluated
  <2> QED BY <1>5, <2>1, <2>2, EvaluatedRequest, StepKeeps DEF Evaluated
<1>6. ASSUME NEW c \in Connection, RequestTimeout(c)
      PROVE  HttpInv' /\ \A d \in Connection : Kept(conn[d], conn'[d])
  BY <1>6, TimeoutRequest, StepKeeps DEF RequestTimeout
<1>7. ASSUME NEW c \in Connection, HeadersTimeout(c) \/ Flushed(c) \/ SocketLost(c)
      PROVE  HttpInv' /\ \A d \in Connection : Kept(conn[d], conn'[d])
  BY <1>7, ClosedRequest, StepKeeps DEF HeadersTimeout, Flushed, SocketLost
<1>8. ASSUME Stop
      PROVE  HttpInv' /\ \A d \in Connection : Kept(conn[d], conn'[d])
  <2>1. \A d \in Connection : ConnInv(conn'[d]) /\ Kept(conn[d], conn'[d])
    BY <1>8, ClosedRequest DEF Stop, Kept
  <2> QED BY <1>8, <2>1 DEF Stop, ConnInv
<1>9. ASSUME UNCHANGED httpVars
      PROVE  HttpInv' /\ \A d \in Connection : Kept(conn[d], conn'[d])
  BY <1>9 DEF httpVars, Kept, ConnInv, ConnState
<1> QED BY <1>1, <1>2, <1>3, <1>4, <1>5, <1>6, <1>7, <1>8, <1>9 DEF HttpNext

LEMMA Initially == HttpInit => HttpInv
BY BodyLimitAssumption DEF HttpInit, Idle, HttpInv, ConnInv, ConnState, Phases, Whole

(* The inductive invariant holds in every reachable state.                  *)
THEOREM RequestsAreConsistent == HttpSpec => []HttpInv
<1>1. HttpInv /\ [HttpNext]_httpVars => HttpInv'
  BY Inductive
<1> QED BY Initially, <1>1, PTL DEF HttpSpec

(* A deadline runs exactly while a request waits for its answer.            *)
THEOREM DeadlinesMatchRequests == HttpSpec => []TimerIffPending
<1>1. HttpInv => TimerIffPending
  BY DEF HttpInv, ConnInv, TimerIffPending
<1> QED BY RequestsAreConsistent, <1>1, PTL

(* A positive answer to an upload is about the whole upload.                *)
THEOREM AnswersCoverTheBody == HttpSpec => []AnswersWholeBody
<1>1. HttpInv => AnswersWholeBody
  BY DEF HttpInv, ConnInv, Whole, AnswersWholeBody
<1> QED BY RequestsAreConsistent, <1>1, PTL

(* No request holds more of a body than the limit.                          *)
THEOREM BuffersAreBounded == HttpSpec => []BufferBounded
<1>1. HttpInv => BufferBounded
  BY DEF HttpInv, ConnInv, BufferBounded
<1> QED BY RequestsAreConsistent, <1>1, PTL

(* An answer, once written, is never written again or changed.              *)
THEOREM OneAnswerPerRequest == HttpSpec => AnsweredOnce
<1>1. HttpInv /\ [HttpNext]_httpVars =>
        [\A c \in Connection : conn[c].phase \in {"answered", "closed"} =>
           conn'[c].status = conn[c].status /\ conn'[c].phase \in {"answered", "closed"}]_httpVars
  BY Inductive DEF Kept
<1> QED BY RequestsAreConsistent, <1>1, PTL DEF HttpSpec, AnsweredOnce
-----------------------------------------------------------------------------
(* Induction on places of a sequence, from the least-element principle.     *)
LEMMA LeastElement ==
  ASSUME NEW T \in SUBSET Nat, T # {}
  PROVE  \E x \in T : \A y \in T : ~(y < x)
<1> DEFINE R == OpToRel(<, Nat)
<1>1. \A x, y \in Nat : y < x => <<y, x>> \in R BY DEF OpToRel
<1>2. IsWellFoundedOn(R, Nat) BY NatLessThanWellFounded
<1> HIDE DEF R
<1>3. \E x \in T : \A y \in T : ~(<<y, x>> \in R) BY <1>2, WFMin
<1>4. QED BY <1>1, <1>3

(* A set with 0 and with the successor of each of its numbers has them all. *)
LEMMA SetInduction ==
  ASSUME NEW S, 0 \in S, \A n \in Nat : n \in S => n + 1 \in S
  PROVE  Nat \subseteq S
<1> DEFINE T == Nat \ S
<1>1. SUFFICES ASSUME T # {} PROVE FALSE OBVIOUS
<1>2. PICK x \in T : \A y \in T : ~(y < x) BY <1>1, LeastElement
<1>3. x # 0 /\ x \in Nat OBVIOUS
<1>4. x - 1 \in Nat /\ x - 1 < x /\ (x - 1) + 1 = x BY <1>3
<1>5. x - 1 \in S BY <1>2, <1>4
<1>6. QED BY <1>3, <1>4, <1>5

(* f holds what is kept of the first 0, 1, ..., k elements.                 *)
Keeps(s, places, k, f) ==
  f = [n \in 0..k |-> IF n = 0 THEN <<>>
                      ELSE IF n \in places THEN Append(f[n - 1], s[n]) ELSE f[n - 1]]

(* There is one such function for each k.                                   *)
LEMMA KeepsExists ==
  ASSUME NEW s, NEW places
  PROVE  \A k \in Nat : \E f : Keeps(s, places, k, f)
<1> DEFINE S == {k \in Nat : \E f : Keeps(s, places, k, f)}
           Extended(b, n) == IF n \in places THEN Append(b, s[n]) ELSE b
<1>1. 0 \in S
  <2>1. Keeps(s, places, 0, [n \in 0..0 |-> <<>>]) BY DEF Keeps
  <2>2. QED BY <2>1
<1>2. ASSUME NEW k \in Nat, k \in S PROVE k + 1 \in S
  <2>1. PICK f : Keeps(s, places, k, f) BY <1>2
  <2> DEFINE g == [n \in 0..(k + 1) |-> IF n = k + 1 THEN Extended(f[k], k + 1) ELSE f[n]]
             h == [n \in 0..(k + 1) |-> IF n = 0 THEN <<>> ELSE Extended(g[n - 1], n)]
  <2>2. ASSUME NEW n \in 0..(k + 1) PROVE g[n] = h[n]
    <3>1. CASE n = k + 1 BY <3>1
    <3>2. CASE n # k + 1
      <4>1. n \in 0..k /\ (n # 0 => n - 1 \in 0..k /\ n - 1 # k + 1) BY <3>2
      <4>2. f[n] = IF n = 0 THEN <<>> ELSE Extended(f[n - 1], n)
        BY <2>1, <4>1 DEF Keeps
      <4>3. QED BY <4>1, <4>2, <3>2
    <3>3. QED BY <3>1, <3>2
  <2>3. g = h BY <2>2
  <2>4. Keeps(s, places, k + 1, g) BY <2>3 DEF Keeps
  <2>5. QED BY <2>4
<1> HIDE DEF S
<1>3. Nat \subseteq S BY <1>1, <1>2, SetInduction
<1>4. QED BY <1>3 DEF S

(* The recursion of Filtered has its solution, and what is kept of a        *)
(* sequence is what is kept of it up to its end.                            *)
LEMMA FilteredKeeps ==
  ASSUME NEW s, NEW places, Len(s) \in Nat
  PROVE  \E f : Keeps(s, places, Len(s), f) /\ Filtered(s, places) = f[Len(s)]
<1> DEFINE f == CHOOSE g : Keeps(s, places, Len(s), g)
<1>1. Keeps(s, places, Len(s), f) BY KeepsExists
<1>2. Filtered(s, places) = f[Len(s)] BY DEF Filtered, Keeps
<1>3. QED BY <1>1, <1>2

(* Nothing is kept of nothing.                                              *)
LEMMA FilteredEmpty ==
  ASSUME NEW places
  PROVE  Filtered(<<>>, places) = <<>>
<1>1. Len(<<>>) = 0 OBVIOUS
<1>2. PICK f : Keeps(<<>>, places, 0, f) /\ Filtered(<<>>, places) = f[0]
  BY <1>1, FilteredKeeps
<1>3. QED BY <1>2 DEF Keeps

(* What is kept is a sequence of the same elements.                         *)
LEMMA FilteredTyped ==
  ASSUME NEW E, NEW s \in Seq(E), NEW places
  PROVE  Filtered(s, places) \in Seq(E)
<1> DEFINE N == Len(s)
<1>1. N \in Nat /\ \A n \in 1..N : s[n] \in E OBVIOUS
<1>2. PICK f : Keeps(s, places, N, f) /\ Filtered(s, places) = f[N] BY <1>1, FilteredKeeps
<1> HIDE DEF N
<1> DEFINE S == {n \in Nat : n <= N => f[n] \in Seq(E)}
<1>3. \A n \in 0..N : f[n] = IF n = 0 THEN <<>>
                             ELSE IF n \in places THEN Append(f[n - 1], s[n]) ELSE f[n - 1]
  BY <1>2 DEF Keeps
<1>4. 0 \in S
  <2>1. 0 \in 0..N /\ f[0] = <<>> BY <1>1, <1>3
  <2>2. f[0] \in Seq(E) BY <2>1
  <2>3. QED BY <2>2
<1>5. ASSUME NEW n \in Nat, n \in S PROVE n + 1 \in S
  <2>1. SUFFICES ASSUME n + 1 <= N PROVE f[n + 1] \in Seq(E) OBVIOUS
  <2>2. n <= N /\ n + 1 \in 0..N /\ n + 1 \in 1..N /\ n + 1 # 0 /\ (n + 1) - 1 = n
    BY <1>1, <2>1
  <2>3. f[n] \in Seq(E) BY <1>5, <2>2
  <2>4. f[n + 1] = IF n + 1 \in places THEN Append(f[n], s[n + 1]) ELSE f[n] BY <1>3, <2>2
  <2>5. s[n + 1] \in E BY <1>1, <2>2
  <2>6. Append(f[n], s[n + 1]) \in Seq(E) BY <2>3, <2>5
  <2>7. QED BY <2>3, <2>4, <2>6
<1> HIDE DEF S
<1>6. Nat \subseteq S BY <1>4, <1>5, SetInduction
<1>7. QED BY <1>1, <1>2, <1>6 DEF S

(* One more element is kept or not, and nothing else changes.               *)
LEMMA FilteredAppend ==
  ASSUME NEW E, NEW s \in Seq(E), NEW e \in E, NEW p, NEW q,
         \A n \in 1..Len(s) : n \in p <=> n \in q
  PROVE  Filtered(Append(s, e), q)
           = IF Len(s) + 1 \in q THEN Append(Filtered(s, p), e) ELSE Filtered(s, p)
<1> DEFINE N == Len(s)
           t == Append(s, e)
<1>1. N \in Nat /\ Len(t) = N + 1 /\ t[N + 1] = e /\ \A n \in 1..N : t[n] = s[n]
  OBVIOUS
<1>2. PICK f : Keeps(s, p, N, f) /\ Filtered(s, p) = f[N] BY <1>1, FilteredKeeps
<1> HIDE DEF t
<1>3. PICK g : Keeps(t, q, Len(t), g) /\ Filtered(t, q) = g[Len(t)] BY <1>1, FilteredKeeps
<1> HIDE DEF N
<1>4. \A n \in 0..N : f[n] = IF n = 0 THEN <<>>
                             ELSE IF n \in p THEN Append(f[n - 1], s[n]) ELSE f[n - 1]
  BY <1>2 DEF Keeps
<1>5. \A n \in 0..(N + 1) : g[n] = IF n = 0 THEN <<>>
                                   ELSE IF n \in q THEN Append(g[n - 1], t[n]) ELSE g[n - 1]
  BY <1>1, <1>3 DEF Keeps
<1> DEFINE S == {n \in Nat : n <= N => f[n] = g[n]}
<1>6. 0 \in S BY <1>1, <1>4, <1>5
<1>7. ASSUME NEW n \in Nat, n \in S PROVE n + 1 \in S
  <2>1. SUFFICES ASSUME n + 1 <= N PROVE f[n + 1] = g[n + 1] OBVIOUS
  <2>2. n <= N /\ n + 1 \in 0..N /\ n + 1 \in 0..(N + 1) /\ n + 1 \in 1..N /\ n + 1 # 0
        /\ (n + 1) - 1 = n
    BY <1>1, <2>1
  <2>3. f[n] = g[n] /\ t[n + 1] = s[n + 1] BY <1>1, <1>7, <2>2
  <2>4. f[n + 1] = IF n + 1 \in p THEN Append(f[n], s[n + 1]) ELSE f[n] BY <1>4, <2>2
  <2>5. g[n + 1] = IF n + 1 \in q THEN Append(g[n], t[n + 1]) ELSE g[n] BY <1>5, <2>2
  <2>6. n + 1 \in p <=> n + 1 \in q BY <2>2 DEF N
  <2>7. QED BY <2>3, <2>4, <2>5, <2>6
<1> HIDE DEF S
<1>8. Nat \subseteq S BY <1>6, <1>7, SetInduction
<1>9. f[N] = g[N] BY <1>1, <1>8 DEF S
<1>10. g[N + 1] = IF N + 1 \in q THEN Append(g[N], t[N + 1]) ELSE g[N]
  <2>1. N + 1 \in 0..(N + 1) /\ N + 1 # 0 /\ (N + 1) - 1 = N BY <1>1
  <2>2. QED BY <1>5, <2>1
<1>11. Filtered(t, q) = IF N + 1 \in q THEN Append(Filtered(s, p), e) ELSE Filtered(s, p)
  BY <1>1, <1>2, <1>3, <1>9, <1>10
<1>12. QED BY <1>11 DEF t, N
-----------------------------------------------------------------------------
(* An empty history has no assessments, and an event adds one if it is one. *)
LEMMA RecordsEmpty == RecordsOf(<<>>) = <<>>
<1>1. Filtered(<<>>, {n \in DOMAIN <<>> : IsReview(<<>>[n])}) = <<>> BY FilteredEmpty
<1>2. RecordsOf(<<>>) = [n \in 1..0 |-> RecordFor(<<>>[n])] BY <1>1 DEF RecordsOf
<1>3. QED BY <1>2

LEMMA RecordsAppend ==
  ASSUME NEW E, NEW log \in Seq(E), NEW ev \in E
  PROVE  /\ RecordsOf(log) \in Seq({RecordFor(e) : e \in E})
         /\ RecordsOf(Append(log, ev))
              = IF IsReview(ev) THEN Append(RecordsOf(log), RecordFor(ev)) ELSE RecordsOf(log)
<1> DEFINE N == Len(log)
           t == Append(log, ev)
           p == {n \in DOMAIN log : IsReview(log[n])}
           q == {n \in DOMAIN t : IsReview(t[n])}
           old == Filtered(log, p)
           new == Filtered(t, q)
           R == {RecordFor(e) : e \in E}
<1>1. /\ N \in Nat /\ DOMAIN log = 1..N /\ DOMAIN t = 1..(N + 1) /\ t[N + 1] = ev
      /\ \A n \in 1..N : t[n] = log[n]
  OBVIOUS
<1>2. \A n \in 1..N : n \in p <=> n \in q BY <1>1
<1>3. N + 1 \in q <=> IsReview(ev) BY <1>1
<1> HIDE DEF p, q, R
<1>4. new = IF N + 1 \in q THEN Append(old, ev) ELSE old BY <1>2, FilteredAppend
<1>5. old \in Seq(E) BY FilteredTyped
<1> HIDE DEF old, t
<1>6. /\ RecordsOf(log) = [n \in DOMAIN old |-> RecordFor(old[n])]
      /\ RecordsOf(t) = [n \in DOMAIN new |-> RecordFor(new[n])]
  BY DEF RecordsOf, old, p, q
<1> HIDE DEF new, N
<1>7. DOMAIN old = 1..Len(old) /\ Len(old) \in Nat /\ \A n \in 1..Len(old) : old[n] \in E
  BY <1>5
<1>8. \A e \in E : RecordFor(e) \in R BY DEF R
<1>9. RecordsOf(log) \in Seq(R) BY <1>6, <1>7, <1>8
<1>10. CASE ~IsReview(ev) BY <1>3, <1>4, <1>6, <1>9, <1>10 DEF t, R
<1>11. CASE IsReview(ev)
  <2>1. new = Append(old, ev) BY <1>3, <1>4, <1>11
  <2>2. /\ DOMAIN new = 1..(Len(old) + 1) /\ new[Len(old) + 1] = ev
        /\ \A n \in 1..Len(old) : new[n] = old[n]
    BY <1>5, <2>1
  <2>3. RecordsOf(t) = [n \in 1..(Len(old) + 1) |-> RecordFor(new[n])] BY <1>6, <2>2
  <2>4. RecordsOf(log) = [n \in 1..Len(old) |-> RecordFor(old[n])] BY <1>6, <1>7
  <2>5. Len(RecordsOf(log)) = Len(old) BY <1>7, <2>4
  <2> DEFINE a == Append(RecordsOf(log), RecordFor(ev))
             b == RecordsOf(t)
  <2>6. /\ a \in Seq(R) /\ Len(a) = Len(old) + 1 /\ a[Len(old) + 1] = RecordFor(ev)
        /\ \A n \in 1..Len(old) : a[n] = RecordsOf(log)[n]
    BY <1>8, <1>9, <2>5, AppendProperties
  <2>7. b \in Seq(R) /\ Len(b) = Len(old) + 1
    <3>1. \A n \in 1..(Len(old) + 1) : new[n] \in E BY <1>7, <2>2
    <3>2. Len(old) + 1 \in Nat BY <1>7
    <3>3. \A n \in 1..(Len(old) + 1) : RecordFor(new[n]) \in R BY <1>8, <3>1
    <3>4. QED BY <2>3, <3>2, <3>3
  <2>8. \A n \in 1..(Len(old) + 1) : a[n] = b[n]
    <3>1. ASSUME NEW n \in 1..Len(old) PROVE a[n] = b[n]
      <4>1. new[n] = old[n] /\ RecordsOf(log)[n] = RecordFor(old[n]) BY <2>2, <2>4
      <4>2. n \in 1..(Len(old) + 1) BY <1>7
      <4>3. b[n] = RecordFor(new[n]) BY <2>3, <4>2
      <4>4. QED BY <2>6, <4>1, <4>3
    <3>2. b[Len(old) + 1] = RecordFor(ev) BY <1>7, <2>2, <2>3
    <3>3. QED BY <1>7, <2>6, <3>1, <3>2
  <2> HIDE DEF a, b
  <2>9. a = b BY <2>6, <2>7, <2>8, SeqEqual
  <2>10. QED BY <1>9, <1>11, <2>9 DEF a, b, t, R
<1>12. QED BY <1>10, <1>11

LEMMA ByReviewerEmpty == \A who : ByReviewer(<<>>, who) = <<>>
  BY FilteredEmpty DEF ByReviewer

LEMMA ByReviewerAppend ==
  ASSUME NEW R, NEW records \in Seq(R), NEW item \in R, NEW who
  PROVE  /\ ByReviewer(records, who) \in Seq(R)
         /\ ByReviewer(Append(records, item), who)
              = IF item.record.reviewer = who THEN Append(ByReviewer(records, who), item)
                ELSE ByReviewer(records, who)
<1> DEFINE N == Len(records)
           t == Append(records, item)
           p == {n \in DOMAIN records : records[n].record.reviewer = who}
           q == {n \in DOMAIN t : t[n].record.reviewer = who}
<1>1. /\ N \in Nat /\ DOMAIN records = 1..N /\ DOMAIN t = 1..(N + 1) /\ t[N + 1] = item
      /\ \A n \in 1..N : t[n] = records[n]
  OBVIOUS
<1>2. \A n \in 1..N : n \in p <=> n \in q BY <1>1
<1>3. N + 1 \in q <=> item.record.reviewer = who BY <1>1
<1>4. ByReviewer(records, who) = Filtered(records, p) /\ ByReviewer(t, who) = Filtered(t, q)
  BY DEF ByReviewer
<1> HIDE DEF p, q
<1>5. Filtered(t, q) = IF N + 1 \in q THEN Append(Filtered(records, p), item)
                       ELSE Filtered(records, p)
  BY <1>2, FilteredAppend
<1>6. Filtered(records, p) \in Seq(R) BY FilteredTyped
<1>7. QED BY <1>3, <1>4, <1>5, <1>6
-----------------------------------------------------------------------------
(* The events of a session, and the entries they leave on a page.           *)
ReviewEvent(mode, who, revision, form) ==
  ArtifactEvent(ReviewFrom(mode, who, revision, form), SessionNow, SessionSubject(mode))

SnapshotEvent(mode) == ArtifactEvent(SignedSnapshot(mode), SessionNow, None)

SessionEvent(mode) ==
  {SnapshotEvent(mode)}
    \cup {ReviewEvent(mode, who, revision, form) :
            who \in RequiredReviewers(mode), revision \in 1..MaxRequests, form \in Forms}

Item(mode) == {RecordFor(ev) : ev \in SessionEvent(mode)}

(* What is stored of a reviewer.                                            *)
Theirs(s, who) == ByReviewer(RecordsOf(s.log), who)

(* The last assessment of a reviewer is the one that the projection has.    *)
LastIs(mode, s, who, form) ==
  LET theirs == Theirs(s, who)
      a      == ReviewFrom(mode, who, Len(theirs), form)
  IN  /\ theirs[Len(theirs)].record = Payload(mode, who, form)
      /\ s.proj.reviews[RecordIdOf(who)] = a
      /\ s.proj.verifier.latest[<<"review", RecordIdOf(who)>>] = a
      /\ a \in Artifact

(* A reviewer's assessments are numbered without gaps, and the projection   *)
(* has the last of them.                                                    *)
Represented(mode, s, who) ==
  LET theirs == Theirs(s, who)
      id     == RecordIdOf(who)
      stream == <<"review", RecordIdOf(who)>>
  IN  /\ \A n \in 1..Len(theirs) : theirs[n].revision = n
      /\ theirs = <<>> =>
           /\ id \in ReviewId => s.proj.reviews[id] = None
           /\ stream \in Streams => s.proj.verifier.latest[stream] = None
      /\ theirs # <<>> =>
           id \in ReviewId /\ stream \in Streams /\ \E form \in Forms : LastIs(mode, s, who, form)

(* A verifier whose clock is right and that has seen no revocation, and the *)
(* projection of a session that has seen no snapshot but its own.           *)
Unrevoked(v) ==
  /\ v.lastTime <= SessionNow /\ v.revokedKeys = {} /\ v.revokedArtifacts = {}

Fresh(mode, p) ==
  /\ p \in Projection
  /\ p.now <= SessionNow
  /\ Unrevoked(p.verifier)
  /\ p.verifier.latest[Stream(SignedSnapshot(mode))] \in {None, SignedSnapshot(mode)}

(* What the stored history of a session and its projection say together.    *)
SessionInv(mode, s) ==
  /\ s.log \in Seq(SessionEvent(mode))
  /\ Fresh(mode, s.proj)
  /\ \A who \in RequiredReviewers(mode) : Represented(mode, s, who)
  /\ \A id \in ReviewId :
       (\A who \in RequiredReviewers(mode) : id # RecordIdOf(who)) => s.proj.reviews[id] = None
  /\ SessionSubject(mode) \in s.proj.rejected <=> Rejected(RecordsOf(s.log))
  /\ \A o \in s.proj.owners : \E who \in RequiredReviewers(mode) :
       o = [reviewer |-> who, subjectHash |-> SessionSubject(mode), id |-> RecordIdOf(who)]
  /\ \A i \in DOMAIN s.log :
       IsReview(s.log[i]) =>
         s.log[i].artifact.revision <= Len(Theirs(s, s.log[i].artifact.payload.reviewer))

(* What a page saw of a reviewer is the beginning of what is stored.        *)
Begins(short, long) ==
  Len(short) <= Len(long) /\ \A n \in 1..Len(short) : long[n] = short[n]

Seen(store, seen, mode, who) ==
  seen \in Seq(Item(mode)) /\ Begins(seen, Theirs(store[mode], who))

LastQualifies(records, who) ==
  LET theirs == ByReviewer(records, who)
  IN  theirs # <<>> /\ Qualified(theirs[Len(theirs)].record)

Agrees(mode, records, reason, complete) ==
  /\ (reason = "REVIEW_REJECTED") <=> Rejected(records)
  /\ complete <=>
       ~Rejected(records) /\ \A who \in RequiredReviewers(mode) : LastQualifies(records, who)

Shown(store, current, view) ==
  /\ view.mode \in SessionMode
  /\ view.csrf_token \in 0..current
  /\ Agrees(view.mode, view.records, view.reason, view.review_complete)
  /\ view.csrf_token = current =>
       \A who \in RequiredReviewers(view.mode) :
         Seen(store, ByReviewer(view.records, who), view.mode, who)

Known ==
  {"WORKBENCH_REQUEST_REQUIRED", "REVIEW_CHANGED_REFRESH_REQUIRED",
   "STORE_UNAVAILABLE_OR_CORRUPT"}

Sendable(store, current, body) ==
  \/ body.ok = TRUE /\ Shown(store, current, body.view)
  \/ body.ok = FALSE /\ body.code \in Known

IsPage(page) ==
  page \in [view : {page.view}, waiting : Nat, loading : BOOLEAN, refresh : BOOLEAN,
            fields : BOOLEAN, retry : BOOLEAN, answered : Nat]

PagesInv ==
  /\ sent \in Nat /\ token \in Nat
  /\ sent + token <= MaxRequests
  /\ DOMAIN tab = Tab /\ tab = [t \in Tab |-> tab[t]]
  /\ \A t \in Tab : IsPage(tab[t]) /\ tab[t].waiting <= sent /\ tab[t].answered <= sent
  /\ \A t, u \in Tab : tab[t].waiting = tab[u].waiting /\ tab[t].waiting # 0 => t = u
  /\ \A req \in requests :
       /\ req.id \in 1..sent /\ req.tab \in Tab
       /\ \A t \in Tab : tab[t].waiting = req.id => t = req.tab
       /\ tab[req.tab].waiting = 0 \/ tab[req.tab].waiting >= req.id
  /\ \A answer \in answers : 
       answer = [id |-> answer.id, body |-> answer.body] /\ answer.id \in 1..sent
  /\ \A req \in requests :
       req.kind = "submit" /\ tab[req.tab].fields => tab[req.tab].answered >= req.id

StoreInv ==
  /\ session = [mode \in SessionMode |-> session[mode]]
  /\ \A mode \in SessionMode : SessionInv(mode, session[mode])
  /\ \A mode \in SessionMode : \A who \in RequiredReviewers(mode) :
       Len(Theirs(session[mode], who)) <= sent

RequestInv(store, current, req) ==
  /\ req.kind \in {"load", "submit"}
  /\ req.mode \in SessionMode
  /\ req.kind = "submit" /\ req.csrf_token = current =>
       /\ req.reviewer \in RequiredReviewers(req.mode)
       /\ req.form \in Forms
       /\ Seen(store, req.seen, req.mode, req.reviewer)
       /\ req.expected_revision = Len(req.seen)
       /\ req.expected_revision < req.id

Noted(store, w) ==
  /\ w.mode \in SessionMode /\ w.reviewer \in RequiredReviewers(w.mode)
  /\ Seen(store, w.seen, w.mode, w.reviewer)
  /\ w.revision = Len(w.seen) + 1

KnowledgeInv ==
  /\ \A t \in Tab :
       /\ tab[t].view = None \/ Shown(session, token, tab[t].view)
       /\ tab[t].fields => Shown(session, token, tab[t].view)
  /\ \A req \in requests : RequestInv(session, token, req)
  /\ \A answer \in answers :
       /\ answer.body = None \/ Sendable(session, token, answer.body)
       /\ \A t \in Tab : tab[t].waiting = answer.id => Sendable(session, token, answer.body)
  /\ \E S : written \in Seq(S)
  /\ \A n \in DOMAIN written : Noted(session, written[n])
-----------------------------------------------------------------------------
(* busy(true): the page waits for the request that is sent with it.         *)
LEMMA BusyPage ==
  ASSUME NEW page, IsPage(page), NEW load \in BOOLEAN, sent \in Nat
  PROVE  LET next == Busy(page, load)
         IN  /\ IsPage(next) /\ next.view = page.view /\ next.waiting = sent + 1
             /\ next.fields = FALSE /\ next.answered = page.answered
<1> DEFINE view == page.view
           Pages == [view : {view}, waiting : Nat, loading : BOOLEAN, refresh : BOOLEAN,
                     fields : BOOLEAN, retry : BOOLEAN, answered : Nat]
           next == Busy(page, load)
           w == sent + 1
<1>1. page \in Pages /\ w \in Nat BY DEF IsPage
<1>2. next = [page EXCEPT !.waiting = w, !.loading = load, !.refresh = FALSE, !.fields = FALSE,
                          !.retry = FALSE]
  BY DEF Busy
<1> HIDE DEF view, w, next
<1>3. /\ next \in Pages /\ next.waiting = w /\ next.fields = FALSE
      /\ next.answered = page.answered
  BY <1>1, <1>2
<1>4. next.view = view BY <1>3
<1>5. IsPage(next) BY <1>3, <1>4 DEF IsPage
<1>6. QED BY <1>3, <1>4, <1>5 DEF next, view, w

(* render: the page shows the view and can be used.                         *)
LEMMA RenderedPage ==
  ASSUME NEW page, IsPage(page), NEW view
  PROVE  LET next == Rendered(page, view)
         IN  /\ IsPage(next) /\ next.view = view /\ next.waiting = 0
             /\ next.fields = TRUE /\ next.answered = page.waiting
<1> DEFINE old == page.view
           Pages(v) == [view : {v}, waiting : Nat, loading : BOOLEAN, refresh : BOOLEAN,
                        fields : BOOLEAN, retry : BOOLEAN, answered : Nat]
           next == Rendered(page, view)
<1>1. page \in Pages(old) BY DEF IsPage
<1> HIDE DEF old
<1>2. /\ next \in Pages(view) /\ next.waiting = 0 /\ next.fields = TRUE
      /\ next.answered = page.waiting
  BY <1>1 DEF Rendered
<1> HIDE DEF next
<1>3. next.view = view BY <1>2
<1>4. IsPage(next) BY <1>2, <1>3 DEF IsPage
<1>5. QED BY <1>2, <1>3, <1>4 DEF next

(* Without a confirmed answer a page keeps what it shows.                   *)
LEMMA UnconfirmedPage ==
  ASSUME NEW page, IsPage(page)
  PROVE  LET next == Unconfirmed(page)
         IN  /\ IsPage(next) /\ next.view = page.view /\ next.waiting = 0
             /\ next.fields = page.fields /\ next.answered = page.answered
<1> DEFINE view == page.view
           Pages == [view : {view}, waiting : Nat, loading : BOOLEAN, refresh : BOOLEAN,
                     fields : BOOLEAN, retry : BOOLEAN, answered : Nat]
           next == Unconfirmed(page)
<1>1. page \in Pages BY DEF IsPage
<1> HIDE DEF view
<1>2. /\ next \in Pages /\ next.waiting = 0 /\ next.fields = page.fields
      /\ next.answered = page.answered
  BY <1>1 DEF Unconfirmed
<1> HIDE DEF next
<1>3. next.view = view BY <1>2
<1>4. IsPage(next) BY <1>2, <1>3 DEF IsPage
<1>5. QED BY <1>2, <1>3, <1>4 DEF next, view

(* An answer whose page stopped waiting loses its body.                     *)
LEMMA AbandonedAnswers ==
  ASSUME PagesInv, NEW t \in Tab, NEW a \in Abandoned(t)
  PROVE  \E b \in answers :
           /\ a.id = b.id /\ a = [id |-> a.id, body |-> a.body] /\ a.id \in 1..sent
           /\ a.body = IF b.id = tab[t].waiting THEN None ELSE b.body
<1>1. PICK b \in answers : a = IF b.id = tab[t].waiting THEN [b EXCEPT !.body = None] ELSE b
  BY DEF Abandoned
<1>2. b = [id |-> b.id, body |-> b.body] /\ b.id \in 1..sent BY DEF PagesInv
<1>3. [b EXCEPT !.body = None] = [id |-> b.id, body |-> None] BY <1>2
<1>4. CASE b.id = tab[t].waiting BY <1>1, <1>2, <1>3, <1>4
<1>5. CASE b.id # tab[t].waiting BY <1>1, <1>2, <1>5
<1>6. QED BY <1>4, <1>5

(* What stays true of the pages when one of them sends a request.           *)
LEMMA SendPages ==
  ASSUME PagesInv, NEW t \in Tab, NEW page, NEW req, Send(t, page, req),
         IsPage(page), page.waiting = sent + 1, page.fields = FALSE, page.answered <= sent,
         req.id = sent + 1, req.tab = t
  PROVE  PagesInv'
<1>1. /\ sent \in Nat /\ token \in Nat /\ MaxRequests \in Nat /\ sent + token < MaxRequests
      /\ sent' = sent + 1 /\ token' = token /\ requests' = requests \cup {req}
      /\ answers' = Abandoned(t) /\ tab' = [tab EXCEPT ![t] = page]
      /\ DOMAIN tab = Tab
  BY WorkbenchAssumption DEF PagesInv, Send
<1>2. /\ DOMAIN tab' = Tab /\ tab' = [u \in Tab |-> tab'[u]] /\ tab'[t] = page
      /\ \A u \in Tab : u # t => tab'[u] = tab[u]
  BY <1>1
<1>3. \A u \in Tab : /\ IsPage(tab[u]) /\ tab[u].waiting \in 0..sent
                     /\ tab[u].answered \in 0..sent
  BY DEF PagesInv, IsPage
<1>4. sent' \in Nat /\ token' \in Nat /\ sent' + token' <= MaxRequests BY <1>1
<1>5. ASSUME NEW u \in Tab
      PROVE  IsPage(tab'[u]) /\ tab'[u].waiting <= sent' /\ tab'[u].answered <= sent'
  <2>1. page.answered \in Nat BY DEF IsPage
  <2>2. CASE u = t BY <1>1, <1>2, <2>1, <2>2
  <2>3. CASE u # t BY <1>1, <1>2, <1>3, <2>3
  <2>4. QED BY <2>2, <2>3
<1>6. \A u \in Tab : IsPage(tab'[u])
  BY <1>5
<1>7. \A u, w \in Tab : tab'[u].waiting = tab'[w].waiting /\ tab'[u].waiting # 0 => u = w
  BY <1>1, <1>2, <1>3 DEF PagesInv
<1>8. ASSUME NEW r \in requests'
      PROVE  /\ r.id \in 1..sent' /\ r.tab \in Tab
             /\ \A u \in Tab : tab'[u].waiting = r.id => u = r.tab
             /\ tab'[r.tab].waiting = 0 \/ tab'[r.tab].waiting >= r.id
             /\ r.kind = "submit" /\ tab'[r.tab].fields => tab'[r.tab].answered >= r.id
  <2>1. CASE r = req BY <1>1, <1>2, <1>3, <2>1
  <2>2. CASE r \in requests
    <3>1. /\ r.id \in 1..sent /\ r.tab \in Tab
          /\ \A u \in Tab : tab[u].waiting = r.id => u = r.tab
          /\ tab[r.tab].waiting = 0 \/ tab[r.tab].waiting >= r.id
          /\ r.kind = "submit" /\ tab[r.tab].fields => tab[r.tab].answered >= r.id
      BY <2>2 DEF PagesInv
    <3>2. CASE r.tab = t BY <1>1, <1>2, <1>3, <3>1, <3>2
    <3>3. CASE r.tab # t BY <1>1, <1>2, <1>3, <3>1, <3>3
    <3>4. QED BY <3>2, <3>3
  <2>3. QED BY <1>1, <2>1, <2>2
<1>9. ASSUME NEW a \in answers'
      PROVE  a = [id |-> a.id, body |-> a.body] /\ a.id \in 1..sent'
  BY <1>1, <1>9, AbandonedAnswers
<1>10. QED BY <1>2, <1>4, <1>5, <1>7, <1>8, <1>9 DEF PagesInv, IsPage

(* What stays true of the pages when one of them stops waiting.             *)
LEMMA SettledPages ==
  ASSUME PagesInv, NEW t \in Tab, NEW page, tab' = [tab EXCEPT ![t] = page],
         IsPage(page), page.waiting = 0, page.answered <= sent,
         page.fields => \/ page.answered = tab[t].waiting /\ tab[t].waiting # 0
                        \/ page.answered = tab[t].answered /\ tab[t].fields,
         answers' = Abandoned(t), UNCHANGED <<session, token, sent, requests, written>>
  PROVE  PagesInv'
<1>1. sent \in Nat /\ token \in Nat /\ sent + token <= MaxRequests /\ DOMAIN tab = Tab
      /\ sent' = sent /\ token' = token /\ requests' = requests
  BY DEF PagesInv
<1>2. /\ DOMAIN tab' = Tab /\ tab' = [u \in Tab |-> tab'[u]] /\ tab'[t] = page
      /\ \A u \in Tab : u # t => tab'[u] = tab[u]
  BY <1>1
<1>3. \A u \in Tab : /\ IsPage(tab[u]) /\ tab[u].waiting \in 0..sent
                     /\ tab[u].answered \in 0..sent
  BY DEF PagesInv, IsPage
<1>4. ASSUME NEW u \in Tab
      PROVE  IsPage(tab'[u]) /\ tab'[u].waiting <= sent /\ tab'[u].answered <= sent
  <2>1. CASE u = t BY <1>1, <1>2, <2>1
  <2>2. CASE u # t BY <1>1, <1>2, <1>3, <2>2
  <2>3. QED BY <2>1, <2>2
<1>5. \A u, w \in Tab : tab'[u].waiting = tab'[w].waiting /\ tab'[u].waiting # 0 => u = w
  BY <1>1, <1>2, <1>3 DEF PagesInv
<1>6. ASSUME NEW r \in requests
      PROVE  /\ r.id \in 1..sent /\ r.tab \in Tab
             /\ \A u \in Tab : tab'[u].waiting = r.id => u = r.tab
             /\ tab'[r.tab].waiting = 0 \/ tab'[r.tab].waiting >= r.id
             /\ r.kind = "submit" /\ tab'[r.tab].fields => tab'[r.tab].answered >= r.id
  <2>1. /\ r.id \in 1..sent /\ r.tab \in Tab
        /\ \A u \in Tab : tab[u].waiting = r.id => u = r.tab
        /\ tab[r.tab].waiting = 0 \/ tab[r.tab].waiting >= r.id
        /\ r.kind = "submit" /\ tab[r.tab].fields => tab[r.tab].answered >= r.id
    BY DEF PagesInv
  <2>2. CASE r.tab = t BY <1>1, <1>2, <2>1, <2>2
  <2>3. CASE r.tab # t BY <1>1, <1>2, <2>1, <2>3
  <2>4. QED BY <2>2, <2>3
<1>7. ASSUME NEW a \in answers'
      PROVE  a = [id |-> a.id, body |-> a.body] /\ a.id \in 1..sent
  BY <1>7, AbandonedAnswers
<1>8. QED BY <1>1, <1>2, <1>4, <1>5, <1>6, <1>7 DEF PagesInv, IsPage

(* A page that hears from the server was waiting for it.                    *)
LEMMA Waiting ==
  ASSUME PagesInv, NEW t \in Tab, AnswerArrives(t)
  PROVE  \E answer \in answers :
           /\ answer.id = tab[t].waiting /\ tab[t].waiting # 0
           /\ tab' = [tab EXCEPT ![t] = IF answer.body.ok
                                        THEN Rendered(tab[t], answer.body.view)
                                        ELSE Unconfirmed(tab[t])]
<1>1. PICK answer \in answers :
        /\ answer.id = tab[t].waiting
        /\ tab' = [tab EXCEPT ![t] = IF answer.body.ok THEN Rendered(tab[t], answer.body.view)
                                                       ELSE Unconfirmed(tab[t])]
  BY DEF AnswerArrives
<1>2. answer.id \in 1..sent /\ sent \in Nat BY DEF PagesInv
<1>3. tab[t].waiting # 0 BY <1>1, <1>2
<1>4. QED BY <1>1, <1>3, Zenon

(* What a page sends, and what it looks like while it waits.                *)
SentWith(t, page, req) ==
  /\ Send(t, page, req) /\ IsPage(page) /\ page.waiting = sent + 1
  /\ page.fields = FALSE /\ page.answered <= sent
  /\ page.view \in {None, tab[t].view}
  /\ req.id = sent + 1 /\ req.tab = t
  /\ \/ req.kind = "load" /\ req.mode \in SessionMode
     \/ /\ tab[t].fields /\ req.kind = "submit" /\ req.mode = tab[t].view.mode
        /\ req.reviewer \in RequiredReviewers(req.mode) /\ req.form \in Forms
        /\ req.expected_revision = Latest(tab[t].view.records, req.reviewer)
        /\ req.csrf_token = tab[t].view.csrf_token
        /\ req.seen = ByReviewer(tab[t].view.records, req.reviewer)
        /\ req.after = tab[t].answered

(* What a request adds to the requests sent.                                *)
LEMMA SentRequest ==
  ASSUME PagesInv, NEW t \in Tab, Load(t) \/ Reload(t) \/ Submit(t)
  PROVE  \E page, req : SentWith(t, page, req)
<1>1. IsPage(tab[t]) /\ tab[t].answered <= sent /\ sent \in Nat BY DEF PagesInv
<1>2. IsPage(ClosedPage) /\ ClosedPage.answered = 0 /\ ClosedPage.view = None
  BY DEF IsPage, ClosedPage
<1>3. CASE Load(t)
  <2>1. PICK mode \in SessionMode : Send(t, Busy(tab[t], TRUE), LoadRequest(t, mode))
    BY <1>3 DEF Load
  <2>2. LET page == Busy(tab[t], TRUE)
        IN  /\ IsPage(page) /\ page.view = tab[t].view /\ page.waiting = sent + 1
            /\ page.fields = FALSE /\ page.answered = tab[t].answered
    BY <1>1, BusyPage
  <2>3. LET req == LoadRequest(t, mode)
        IN  req.id = sent + 1 /\ req.tab = t /\ req.kind = "load" /\ req.mode = mode
    BY DEF LoadRequest
  <2>4. QED BY <1>1, <2>1, <2>2, <2>3 DEF SentWith
<1>4. CASE Reload(t)
  <2>1. PICK mode \in SessionMode : Send(t, Busy(ClosedPage, TRUE), LoadRequest(t, mode))
    BY <1>4 DEF Reload
  <2>2. LET page == Busy(ClosedPage, TRUE)
        IN  /\ IsPage(page) /\ page.view = None /\ page.waiting = sent + 1
            /\ page.fields = FALSE /\ page.answered = 0
    BY <1>1, <1>2, BusyPage
  <2>3. LET req == LoadRequest(t, mode)
        IN  req.id = sent + 1 /\ req.tab = t /\ req.kind = "load" /\ req.mode = mode
    BY DEF LoadRequest
  <2>4. 0 <= sent BY <1>1
  <2>5. Busy(ClosedPage, TRUE).answered <= sent BY <2>2, <2>4
  <2>6. QED BY <2>1, <2>2, <2>3, <2>5 DEF SentWith
<1>5. CASE Submit(t)
  <2> DEFINE view == tab[t].view
             Req(who, form) ==
               [id |-> sent + 1, tab |-> t, kind |-> "submit", mode |-> view.mode,
                reviewer |-> who, expected_revision |-> Latest(view.records, who),
                form |-> form, csrf_token |-> view.csrf_token,
                seen |-> ByReviewer(view.records, who), after |-> tab[t].answered]
  <2>1. /\ tab[t].fields
        /\ \E who \in RequiredReviewers(view.mode), form \in Forms :
             Send(t, Busy(tab[t], FALSE), Req(who, form))
    BY <1>5 DEF Submit
  <2>2. PICK who \in RequiredReviewers(view.mode), form \in Forms :
          Send(t, Busy(tab[t], FALSE), Req(who, form))
    BY <2>1
  <2>3. LET page == Busy(tab[t], FALSE)
        IN  /\ IsPage(page) /\ page.view = tab[t].view /\ page.waiting = sent + 1
            /\ page.fields = FALSE /\ page.answered = tab[t].answered
    BY <1>1, BusyPage
  <2>4. LET req == Req(who, form)
        IN  /\ req.id = sent + 1 /\ req.tab = t /\ req.kind = "submit"
            /\ req.mode = view.mode /\ req.reviewer = who /\ req.form = form
            /\ req.expected_revision = Latest(view.records, who)
            /\ req.csrf_token = view.csrf_token /\ req.seen = ByReviewer(view.records, who)
            /\ req.after = tab[t].answered
    OBVIOUS
  <2> HIDE DEF Req
  <2>5. QED BY <1>1, <2>1, <2>2, <2>3, <2>4 DEF SentWith
<1>6. QED BY <1>3, <1>4, <1>5

(* The three ways the state of a page changes.                              *)
LEMMA PageSteps ==
  ASSUME PagesInv, [Next]_vars
  PROVE  \/ UNCHANGED vars
         \/ \E t \in Tab : Load(t) \/ Reload(t) \/ Submit(t)
         \/ \E t \in Tab :
              /\ AnswerArrives(t) \/ ConnectionLost(t)
              /\ \E page :
                   /\ tab' = [tab EXCEPT ![t] = page]
                   /\ IsPage(page) /\ page.waiting = 0 /\ page.answered <= sent
                   /\ \/ /\ page.fields = tab[t].fields /\ page.answered = tab[t].answered
                         /\ page.view = tab[t].view
                      \/ /\ page.fields = TRUE /\ page.answered = tab[t].waiting
                         /\ tab[t].waiting # 0
                         /\ \E answer \in answers :
                              /\ answer.id = tab[t].waiting /\ answer.body.ok
                              /\ page.view = answer.body.view
              /\ answers' = Abandoned(t) /\ UNCHANGED <<session, token, sent, requests, written>>
         \/ \E req \in Open : Handle(req)
         \/ Restart
<1>1. ASSUME NEW t \in Tab, AnswerArrives(t) \/ ConnectionLost(t)
      PROVE  /\ \E page :
                  /\ tab' = [tab EXCEPT ![t] = page]
                  /\ IsPage(page) /\ page.waiting = 0 /\ page.answered <= sent
                  /\ \/ /\ page.fields = tab[t].fields /\ page.answered = tab[t].answered
                        /\ page.view = tab[t].view
                     \/ /\ page.fields = TRUE /\ page.answered = tab[t].waiting
                        /\ tab[t].waiting # 0
                        /\ \E answer \in answers :
                             /\ answer.id = tab[t].waiting /\ answer.body.ok
                             /\ page.view = answer.body.view
             /\ answers' = Abandoned(t) /\ UNCHANGED <<session, token, sent, requests, written>>
  <2>1. answers' = Abandoned(t) /\ UNCHANGED <<session, token, sent, requests, written>>
    BY <1>1 DEF AnswerArrives, ConnectionLost
  <2>2. IsPage(tab[t]) /\ tab[t].waiting <= sent /\ tab[t].answered <= sent BY DEF PagesInv
  <2>3. LET next == Unconfirmed(tab[t])
        IN  /\ IsPage(next) /\ next.view = tab[t].view /\ next.waiting = 0
            /\ next.fields = tab[t].fields /\ next.answered = tab[t].answered
    BY <2>2, UnconfirmedPage
  <2>4. CASE tab' = [tab EXCEPT ![t] = Unconfirmed(tab[t])] BY <2>1, <2>2, <2>3, <2>4
  <2>5. CASE AnswerArrives(t)
    <3>1. PICK answer \in answers :
            /\ answer.id = tab[t].waiting /\ tab[t].waiting # 0
            /\ tab' = [tab EXCEPT ![t] = IF answer.body.ok
                                         THEN Rendered(tab[t], answer.body.view)
                                         ELSE Unconfirmed(tab[t])]
      BY <2>5, Waiting
    <3>2. CASE ~answer.body.ok BY <2>4, <3>1, <3>2
    <3>3. CASE answer.body.ok
      <4>1. tab' = [tab EXCEPT ![t] = Rendered(tab[t], answer.body.view)] BY <3>1, <3>3
      <4>2. LET next == Rendered(tab[t], answer.body.view)
            IN  /\ IsPage(next) /\ next.view = answer.body.view /\ next.waiting = 0
                /\ next.fields = TRUE /\ next.answered = tab[t].waiting
        BY <2>2, RenderedPage
      <4>3. QED BY <2>1, <2>2, <3>1, <3>3, <4>1, <4>2
    <3>4. QED BY <3>2, <3>3
  <2>6. CASE ConnectionLost(t)
    <3>1. tab' = [tab EXCEPT ![t] = Unconfirmed(tab[t])] BY <2>6 DEF ConnectionLost
    <3>2. QED BY <2>4, <3>1
  <2>7. QED BY <1>1, <2>5, <2>6
<1>2. QED BY <1>1 DEF Next

(* Handling a request adds its answer and leaves the pages alone.           *)
LEMMA HandledPages ==
  ASSUME PagesInv, NEW req \in Open, Handle(req)
  PROVE  PagesInv'
<1>1. PICK body : answers' = answers \cup {[id |-> req.id, body |-> body]}
  BY DEF Handle, HandleLoad, HandleSubmit, HandleRefused, HandleFailed, Reply
<1>2. UNCHANGED <<token, tab, sent, requests>> BY DEF Handle
<1>3. req.id \in 1..sent BY DEF Open, PagesInv
<1>4. \A a \in answers' : a = [id |-> a.id, body |-> a.body] /\ a.id \in 1..sent
  BY <1>1, <1>3 DEF PagesInv
<1>5. QED BY <1>2, <1>4 DEF PagesInv

LEMMA PagesStep == PagesInv /\ [Next]_vars => PagesInv'
<1> SUFFICES ASSUME PagesInv, [Next]_vars PROVE PagesInv' OBVIOUS
<1>1. CASE UNCHANGED vars BY <1>1 DEF vars, PagesInv
<1>2. ASSUME NEW t \in Tab, Load(t) \/ Reload(t) \/ Submit(t) PROVE PagesInv'
  BY <1>2, SentRequest, SendPages DEF SentWith
<1>3. ASSUME NEW t \in Tab, NEW page, tab' = [tab EXCEPT ![t] = page],
             IsPage(page), page.waiting = 0, page.answered <= sent,
             \/ page.fields = tab[t].fields /\ page.answered = tab[t].answered
             \/ page.answered = tab[t].waiting /\ tab[t].waiting # 0,
             answers' = Abandoned(t), UNCHANGED <<session, token, sent, requests, written>>
      PROVE  PagesInv'
  BY <1>3, SettledPages
<1>4. ASSUME NEW req \in Open, Handle(req) PROVE PagesInv' BY <1>4, HandledPages
<1>5. CASE Restart
  <2>1. /\ sent + token < MaxRequests /\ token' = token + 1 /\ requests' = {} /\ answers' = {}
        /\ tab' = tab /\ sent' = sent
    BY <1>5 DEF Restart
  <2>2. MaxRequests \in Nat BY WorkbenchAssumption
  <2>3. QED BY <2>1, <2>2 DEF PagesInv
<1>6. QED BY <1>1, <1>2, <1>3, <1>4, <1>5, PageSteps

LEMMA PagesInit == Init => PagesInv
<1> SUFFICES ASSUME Init PROVE PagesInv OBVIOUS
<1>1. IsPage(ClosedPage) /\ ClosedPage.waiting = 0 /\ ClosedPage.answered = 0
  BY DEF ClosedPage, IsPage
<1>2. /\ token = 0 /\ sent = 0 /\ requests = {} /\ answers = {}
      /\ tab = [t \in Tab |-> ClosedPage]
  BY DEF Init
<1>3. MaxRequests \in Nat BY WorkbenchAssumption
<1>4. QED BY <1>1, <1>2, <1>3 DEF PagesInv

(* What a page had seen when it sent its last assessment.                   *)
LEMMA RefreshStep == PagesInv /\ RefreshBeforeWrite /\ [Next]_vars => RefreshBeforeWrite'
<1> SUFFICES ASSUME PagesInv, RefreshBeforeWrite, [Next]_vars PROVE RefreshBeforeWrite' OBVIOUS
<1>1. CASE requests' = requests \/ requests' = {} BY <1>1 DEF RefreshBeforeWrite
<1>2. ASSUME NEW t \in Tab, Load(t) \/ Reload(t) \/ Submit(t) PROVE RefreshBeforeWrite'
  <2>0. PICK page, req : SentWith(t, page, req) BY <1>2, SentRequest
  <2>1. /\ Send(t, page, req) /\ req.id = sent + 1 /\ req.tab = t
        /\ \/ req.kind = "load"
           \/ tab[t].fields /\ req.after = tab[t].answered
    BY <2>0 DEF SentWith
  <2>2. requests' = requests \cup {req} BY <2>1 DEF Send
  <2>3. sent \in Nat /\ \A r \in requests : r.id \in 1..sent BY DEF PagesInv
  <2>4. \A r \in requests : r.kind = "submit" /\ r.tab = t /\ tab[t].fields
                            => tab[t].answered >= r.id
    BY DEF PagesInv
  <2>5. ASSUME NEW first \in requests', NEW second \in requests',
               first.kind = "submit", second.kind = "submit",
               first.tab = second.tab, first.id < second.id
        PROVE  second.after >= first.id
    <3>1. first # req BY <2>1, <2>2, <2>3, <2>5
    <3>2. CASE second = req BY <2>1, <2>2, <2>4, <2>5, <3>1, <3>2
    <3>3. CASE second # req BY <2>2, <2>5, <3>1, <3>3 DEF RefreshBeforeWrite
    <3>4. QED BY <3>2, <3>3
  <2>6. QED BY <2>5 DEF RefreshBeforeWrite
<1>3. CASE UNCHANGED vars BY <1>1, <1>3 DEF vars
<1>4. ASSUME NEW req \in Open, Handle(req) PROVE RefreshBeforeWrite' BY <1>1, <1>4 DEF Handle
<1>5. CASE Restart BY <1>1, <1>5 DEF Restart
<1>6. QED BY <1>1, <1>2, <1>3, <1>4, <1>5, PageSteps

(* app.js, the submit listener: for any number of tabs and requests, a page *)
(* that writes again has shown the answer to its last write or to a later   *)
(* load.                                                                    *)
THEOREM PagesRefreshFirst == Spec => []RefreshBeforeWrite
<1>1. Init => RefreshBeforeWrite BY DEF Init, RefreshBeforeWrite
<1>2. QED BY <1>1, PagesInit, PagesStep, RefreshStep, PTL DEF Spec
-----------------------------------------------------------------------------
(* The artifacts of a session, and what they say of themselves.             *)
LEMMA SessionArtifacts ==
  ASSUME NEW mode \in SessionMode
  PROVE  /\ SignedSnapshot(mode) \in Artifact
         /\ \A who \in RequiredReviewers(mode), revision \in 1..MaxRequests, form \in Forms :
              ReviewFrom(mode, who, revision, form) \in Artifact
  BY SessionAssumption DEF WorkbenchArtifact

LEMMA Reviewers ==
  ASSUME NEW mode \in SessionMode
  PROVE  mode \in AccessMode /\ RequiredReviewers(mode) \subseteq Holders
<1>1. mode \in AccessMode BY WorkbenchAssumption
<1>2. QED BY <1>1 DEF AccessMode, RequiredReviewers, Holders

LEMMA SnapshotShape ==
  ASSUME NEW mode
  PROVE  LET a == SignedSnapshot(mode)
         IN  /\ a.wellFormed = TRUE /\ a.signed = TRUE /\ a.kind = "snapshot"
             /\ a.key_id = "publisher" /\ a.organization = Organization
             /\ a.artifact_id = "snapshot-1" /\ a.revision = 1
             /\ a.issued_at = SessionNow - 5 /\ a.expires_at = SessionNow + 10
             /\ a.payload = SessionSnapshot(mode)
             /\ SnapshotPayloadOK(a)
<1>1. LET a == SignedSnapshot(mode)
      IN  /\ a.wellFormed = TRUE /\ a.signed = TRUE /\ a.kind = "snapshot"
          /\ a.key_id = "publisher" /\ a.organization = Organization
          /\ a.artifact_id = "snapshot-1" /\ a.revision = 1
          /\ a.issued_at = SessionNow - 5 /\ a.expires_at = SessionNow + 10
          /\ a.payload = SessionSnapshot(mode)
  BY DEF SignedSnapshot, Sealed
<1>2. LET p == SessionSnapshot(mode)
      IN  /\ p.wellFormed = TRUE /\ p.id = "snapshot-1" /\ p.organization = Organization
          /\ p.issued_at = SessionNow - 5 /\ p.expires_at = SessionNow + 10
  BY DEF SessionSnapshot
<1>3. QED BY <1>1, <1>2 DEF SnapshotPayloadOK

(* What the envelope and the record of an assessment say of themselves.     *)
ReviewBy(a, who, revision, payload) ==
  /\ a.wellFormed = TRUE /\ a.signed = TRUE /\ a.kind = "review"
  /\ a.key_id = who /\ a.organization = Organization
  /\ a.artifact_id = RecordIdOf(who) /\ a.revision = revision
  /\ a.issued_at = SessionNow /\ a.expires_at = SessionNow + 5
  /\ a.payload = payload

RecordBy(p, mode, who, decision) ==
  /\ p.wellFormed = TRUE /\ p.id = RecordIdOf(who) /\ p.reviewer = who
  /\ p.subjectHash = SessionSubject(mode) /\ p.decision = decision
  /\ p.reviewedAt = SessionNow /\ p.expiresAt = SessionNow + 5
  /\ p.revoked = FALSE

LEMMA ReviewShape ==
  ASSUME NEW mode, NEW who, NEW revision, NEW form
  PROVE  ReviewBy(ReviewFrom(mode, who, revision, form), who, revision, Payload(mode, who, form))
<1>1. \A d, e, c, o, x :
        ReviewBy(SignedReview(mode, who, revision, d, e, c, o, x), who, revision,
                 SignedReview(mode, who, 1, d, e, c, o, x).payload)
  BY DEF SignedReview, Sealed, ReviewBy
<1>2. QED BY <1>1 DEF ReviewFrom, Payload

LEMMA PayloadShape ==
  ASSUME NEW mode, NEW who, NEW form
  PROVE  RecordBy(Payload(mode, who, form), mode, who, form.decision)
<1>1. \A d, e, c, o, x :
        RecordBy(SignedReview(mode, who, 1, d, e, c, o, x).payload, mode, who, d)
  BY DEF SignedReview, Sealed, RecordBy
<1>2. QED BY <1>1 DEF ReviewFrom, Payload

(* The keys of a session and what the verifier looks up in them.            *)
LEMMA SessionKeyShape ==
  /\ "publisher" \in DOMAIN TrustedKey /\ "snapshot" \in TrustedKey["publisher"].purposes
  /\ TrustedKey["publisher"].notBefore = SessionNow - 10
  /\ TrustedKey["publisher"].expiresAt = SessionNow + 20
  /\ \A who \in Holders :
       /\ who \in DOMAIN TrustedKey /\ "review" \in TrustedKey[who].purposes
       /\ TrustedKey[who].principal = who
       /\ TrustedKey[who].notBefore = SessionNow - 10
       /\ TrustedKey[who].expiresAt = SessionNow + 20
  BY SessionAssumption DEF SessionKeys, Holders

LEMMA SnapshotVerifies ==
  ASSUME NEW mode, NEW v, Unrevoked(v), v.lastTime \in Int,
         v.latest[Stream(SignedSnapshot(mode))] \in {None, SignedSnapshot(mode)}
  PROVE  VerifyCode(v, SignedSnapshot(mode), "snapshot", SessionNow, None) = "OK"
<1> DEFINE a == SignedSnapshot(mode)
<1>1. /\ a.wellFormed = TRUE /\ a.signed = TRUE /\ a.kind = "snapshot"
      /\ a.key_id = "publisher" /\ a.organization = Organization
      /\ a.artifact_id = "snapshot-1" /\ a.revision = 1
      /\ a.issued_at = SessionNow - 5 /\ a.expires_at = SessionNow + 10
      /\ SnapshotPayloadOK(a)
  BY SnapshotShape
<1>2. RevisionCode(v, a) = "OK" BY <1>1 DEF RevisionCode
<1> HIDE DEF a
<1>3. PayloadCode(a, None) = "OK" BY <1>1 DEF PayloadCode
<1>4. InValidityWindow(a, SessionNow) BY <1>1, SessionKeyShape DEF InValidityWindow, SessionNow
<1>5. ~(SessionNow < 0 \/ SessionNow < v.lastTime)
  <2>1. v.lastTime <= SessionNow BY DEF Unrevoked
  <2>2. QED BY <2>1 DEF SessionNow
<1>6. QED BY <1>1, <1>2, <1>3, <1>4, <1>5, SessionKeyShape DEF VerifyCode, Unrevoked, a
LEMMA ReviewVerifies ==
  ASSUME NEW mode \in SessionMode, NEW who \in RequiredReviewers(mode),
         NEW revision \in Nat, NEW form,
         NEW v, Unrevoked(v), v.lastTime \in Int,
         RevisionCode(v, ReviewFrom(mode, who, revision, form)) = "OK"
  PROVE  VerifyCode(v, ReviewFrom(mode, who, revision, form), "review", SessionNow,
                    SessionSubject(mode)) = "OK"
<1> DEFINE a == ReviewFrom(mode, who, revision, form)
           h == SessionSubject(mode)
<1>1. /\ a.wellFormed = TRUE /\ a.signed = TRUE /\ a.kind = "review"
      /\ a.key_id = who /\ a.organization = Organization
      /\ a.artifact_id = RecordIdOf(who)
      /\ a.issued_at = SessionNow /\ a.expires_at = SessionNow + 5
      /\ a.payload = Payload(mode, who, form)
  <2>1. ReviewBy(a, who, revision, Payload(mode, who, form)) BY ReviewShape
  <2> HIDE DEF a
  <2>2. QED BY <2>1 DEF ReviewBy
<1>2. /\ a.payload.wellFormed = TRUE /\ a.payload.id = RecordIdOf(who)
      /\ a.payload.reviewer = who /\ a.payload.subjectHash = h
      /\ a.payload.reviewedAt = SessionNow /\ a.payload.expiresAt = SessionNow + 5
      /\ a.payload.revoked = FALSE
  <2>1. RecordBy(a.payload, mode, who, form.decision) BY <1>1, PayloadShape
  <2> HIDE DEF a, h
  <2>2. QED BY <2>1 DEF RecordBy, h
<1>3. RevisionCode(v, a) = "OK" OBVIOUS
<1> HIDE DEF a, h
<1>4. who \in Holders BY Reviewers
<1>5. ReviewPayloadOK(a, h) BY <1>1, <1>2, <1>4, SessionKeyShape DEF ReviewPayloadOK
<1>6. PayloadCode(a, h) = "OK" BY <1>1, <1>5 DEF PayloadCode
<1>7. InValidityWindow(a, SessionNow)
  BY <1>1, <1>4, SessionKeyShape DEF InValidityWindow, SessionNow
<1>8. ~(SessionNow < 0 \/ SessionNow < v.lastTime) BY DEF Unrevoked, SessionNow
<1>9. QED BY <1>1, <1>3, <1>4, <1>6, <1>7, <1>8, SessionKeyShape
          DEF VerifyCode, Unrevoked, a, h

(* The streams of a session are different ones.                             *)
LEMMA SessionStreams ==
  ASSUME NEW mode, NEW who, NEW revision, NEW form
  PROVE  /\ Stream(ReviewFrom(mode, who, revision, form)) = <<"review", RecordIdOf(who)>>
         /\ Stream(SignedSnapshot(mode)) = <<"snapshot", "organization-snapshot">>
         /\ Stream(SignedSnapshot(mode)) # <<"review", RecordIdOf(who)>>
<1>1. SignedSnapshot(mode).kind = "snapshot" BY SnapshotShape
<1>2. ReviewBy(ReviewFrom(mode, who, revision, form), who, revision, Payload(mode, who, form))
  BY ReviewShape
<1>3. QED BY <1>1, <1>2 DEF Stream, ReviewBy

LEMMA RecordIds == \A who, other : RecordIdOf(who) = RecordIdOf(other) => who = other
  BY DEF RecordIdOf

(* The events of a session.                                                 *)
LEMMA SnapshotEventShape ==
  ASSUME NEW mode \in SessionMode
  PROVE  LET ev == SnapshotEvent(mode)
         IN  /\ ev \in Event /\ ev \in SessionEvent(mode) /\ IsSnapshot(ev) /\ ~IsReview(ev)
             /\ ev.now = SessionNow /\ ev.artifact = SignedSnapshot(mode)
             /\ ev.subjectHash = None
<1>1. SignedSnapshot(mode).kind = "snapshot" BY SnapshotShape
<1>2. SignedSnapshot(mode) \in Artifact /\ SessionNow \in Time
  BY SessionArtifacts, SessionAssumption
<1>3. QED BY <1>1, <1>2 DEF SnapshotEvent, SessionEvent, ArtifactEvent, Event, IsSnapshot, IsReview

LEMMA ReviewEventShape ==
  ASSUME NEW mode \in SessionMode, NEW who \in RequiredReviewers(mode),
         NEW revision \in 1..MaxRequests, NEW form \in Forms
  PROVE  LET ev == ReviewEvent(mode, who, revision, form)
         IN  /\ ev \in Event /\ ev \in SessionEvent(mode) /\ IsReview(ev) /\ ~IsSnapshot(ev)
             /\ ev.now = SessionNow /\ ev.artifact = ReviewFrom(mode, who, revision, form)
             /\ ev.subjectHash = SessionSubject(mode)
             /\ RecordFor(ev) = [revision |-> revision, record |-> Payload(mode, who, form)]
<1> DEFINE a == ReviewFrom(mode, who, revision, form)
           h == SessionSubject(mode)
           ev == ReviewEvent(mode, who, revision, form)
<1>1. ReviewBy(a, who, revision, Payload(mode, who, form)) BY ReviewShape
<1>2. a \in Artifact BY SessionArtifacts
<1>3. SessionNow \in Time /\ h \in SubjectHash BY SessionAssumption
<1>4. ev = ArtifactEvent(a, SessionNow, h) BY DEF ReviewEvent
<1>5. ev \in SessionEvent(mode) BY DEF SessionEvent
<1> HIDE DEF a, h, ev
<1>6. ev \in Event BY <1>2, <1>3, <1>4 DEF Event
<1>7. /\ IsReview(ev) /\ ~IsSnapshot(ev) /\ ev.now = SessionNow /\ ev.artifact = a
      /\ ev.subjectHash = h
  BY <1>1, <1>4 DEF IsReview, IsSnapshot, ArtifactEvent, ReviewBy
<1>8. RecordFor(ev) = [revision |-> revision, record |-> Payload(mode, who, form)]
  BY <1>1, <1>7 DEF RecordFor, ReviewBy
<1>9. QED BY <1>5, <1>6, <1>7, <1>8 DEF ev, a, h

(* What is in a history of a session.                                       *)
LEMMA SessionEvents ==
  ASSUME NEW mode \in SessionMode, NEW ev \in SessionEvent(mode)
  PROVE  \/ ev = SnapshotEvent(mode) /\ ~IsReview(ev)
         \/ /\ IsReview(ev)
            /\ \E who \in RequiredReviewers(mode), revision \in 1..MaxRequests, form \in Forms :
                 ev = ReviewEvent(mode, who, revision, form)
<1>1. CASE ev = SnapshotEvent(mode) BY <1>1, SnapshotEventShape
<1>2. CASE ev # SnapshotEvent(mode)
  <2>1. PICK who \in RequiredReviewers(mode), revision \in 1..MaxRequests, form \in Forms :
          ev = ReviewEvent(mode, who, revision, form)
    BY <1>2 DEF SessionEvent
  <2>2. IsReview(ev) BY <2>1, ReviewEventShape
  <2>3. QED BY <2>1, <2>2
<1>3. QED BY <1>1, <1>2
-----------------------------------------------------------------------------
(* The subject of a session is its scope with the package.                  *)
LEMMA SubjectFields ==
  ASSUME NEW mode
  PROVE  LET h == SessionSubject(mode)
         IN  /\ h.wellFormed = TRUE /\ h.accessMode = mode /\ h.domain = "engineering"
             /\ h.resource = "answers/draft" /\ h.audience = {"alice"}
             /\ h.requester = "alice" /\ h.producer = "model"
             /\ h.policyVersion = PolicyVersion /\ h.policy_digest = PolicyDigest
             /\ h.purpose = "education" /\ h.environment = "development"
             /\ h.organization = Organization
             /\ h.candidate = [candidate |-> SessionCandidate, context |-> SessionContext,
                               sources |-> <<SessionSource>>, claims |-> SessionClaims]
<1> DEFINE h == SessionSubject(mode)
           scope == SessionScope(mode)
           pkg == [candidate |-> SessionCandidate, context |-> SessionContext,
                   sources |-> <<SessionSource>>, claims |-> SessionClaims]
<1>1. h = [x \in DOMAIN scope \cup {"candidate"} |-> IF x = "candidate" THEN pkg ELSE scope[x]]
  BY Zenon DEF SessionSubject, Package!Prepared
<1>2. /\ DOMAIN scope = {"wellFormed", "accessMode", "domain", "resource", "audience", "requester",
                         "producer", "policyVersion", "purpose", "environment", "organization",
                         "policy_digest"}
      /\ scope.wellFormed = TRUE /\ scope.accessMode = mode /\ scope.domain = "engineering"
      /\ scope.resource = "answers/draft" /\ scope.audience = {"alice"}
      /\ scope.requester = "alice" /\ scope.producer = "model"
      /\ scope.policyVersion = PolicyVersion /\ scope.policy_digest = PolicyDigest
      /\ scope.purpose = "education" /\ scope.environment = "development"
      /\ scope.organization = Organization
  BY DEF SessionScope
<1> HIDE DEF h, scope, pkg
<1>3. h.candidate = pkg BY <1>1
<1>4. \A x \in DOMAIN scope : x # "candidate" => h[x] = scope[x] BY <1>1
<1>5. QED BY <1>2, <1>3, <1>4 DEF h, pkg

(* The source of a session.                                                 *)
LEMMA SourceFields ==
  /\ SessionSource.source_id = "source-1" /\ SessionSource.text = SessionText
  /\ SessionSource.content = SessionText /\ SessionSource.resource = "sources/guide"
  /\ SessionSource.organization = Organization /\ SessionSource.domain = "engineering"
  /\ SessionSource.captured_at = SessionNow - 2
  /\ SessionReceipt.source_id = "source-1"
  /\ SessionText = <<TRUE, FALSE, TRUE>>
  BY DEF SessionSource, SessionReceipt, SessionText

LEMMA CandidateFields ==
  /\ SessionCandidate.wellFormed = TRUE /\ SessionCandidate.trace_id = "trace"
  /\ SessionCandidate.manifest = ManifestId
  /\ SessionCandidate.answer = SessionText
  /\ SessionCandidate.provenance.answer = SessionText
  /\ SessionCandidate.provenance.completed_at = SessionNow - 1
  /\ SessionCandidate.source_refs = <<[source_id |-> "source-1", content |-> SessionText]>>
  /\ SessionContext.evidenceReceipts = <<SessionReceipt>>
  /\ SessionContext.candidateContext.inputDecision
       = [allowed |-> TRUE, trace_id |-> "trace", manifest |-> ManifestId]
  /\ SessionContext.candidateContext.invocation = SessionCandidate.provenance
  /\ SessionContext.candidateContext.sourceReceipts = SessionCandidate.source_refs
<1>1. SessionSource.source_id = "source-1" BY SourceFields
<1>2. QED BY <1>1 DEF SessionCandidate, SessionContext

(* A list of one element has no element twice.                              *)
LEMMA OneItem ==
  ASSUME NEW x
  PROVE  /\ DOMAIN <<x>> = {1} /\ Len(<<x>>) = 1 /\ <<x>>[1] = x
         /\ Package!Range(<<x>>) = {x}
         /\ \A field : Package!IsInjective(Package!Column(<<x>>, field))
<1>1. DOMAIN <<x>> = {1} /\ Len(<<x>>) = 1 /\ <<x>>[1] = x OBVIOUS
<1>2. Package!Range(<<x>>) = {x} BY <1>1 DEF Package!Range
<1>3. ASSUME NEW field PROVE Package!IsInjective(Package!Column(<<x>>, field))
  <2>1. DOMAIN Package!Column(<<x>>, field) = {1} BY <1>1 DEF Package!Column
  <2> DEFINE c == Package!Column(<<x>>, field)
  <2> HIDE DEF c
  <2>2. Package!IsInjective(c) BY <2>1 DEF Package!IsInjective, c
  <2>3. QED BY <2>2 DEF c
<1>4. QED BY <1>1, <1>2, <1>3

LEMMA SessionClaimFields ==
  /\ DOMAIN SessionClaims = {1, 2} /\ Len(SessionClaims) = 2
  /\ \A n \in {1, 2} :
       /\ SessionClaims[n].id = n /\ SessionClaims[n].start = 2 * n - 2
       /\ SessionClaims[n].end = 2 * n - 1
       /\ SessionClaims[n].support
            = <<[source_id |-> "source-1", start |-> 2 * n - 2, end |-> 2 * n - 1]>>
  /\ SessionClaims # <<>>
<1>1. SessionSource.source_id = "source-1" BY SourceFields
<1>2. 1..2 = {1, 2} OBVIOUS
<1>3. /\ DOMAIN SessionClaims = {1, 2}
      /\ \A n \in {1, 2} :
           /\ SessionClaims[n].id = n /\ SessionClaims[n].start = 2 * n - 2
           /\ SessionClaims[n].end = 2 * n - 1
           /\ SessionClaims[n].support
                = <<[source_id |-> "source-1", start |-> 2 * n - 2, end |-> 2 * n - 1]>>
  BY <1>1, <1>2 DEF SessionClaims
<1>4. SessionClaims \in Seq(Range(SessionClaims)) /\ Len(SessionClaims) = 2
  BY <1>2 DEF SessionClaims, Range
<1>5. SessionClaims # <<>> BY <1>4
<1>6. QED BY <1>3, <1>4, <1>5

LEMMA NoRefusal ==
  ASSUME NEW codes, \A n \in DOMAIN codes : codes[n] = "OK"
  PROVE  Package!FirstRefusal(codes) = "OK"
BY DEF Package!FirstRefusal

(* The parts of the package of a session.                                   *)
LEMMA PackageFields ==
  ASSUME NEW mode
  PROVE  LET pkg == SessionSubject(mode).candidate
         IN  /\ pkg.candidate = SessionCandidate /\ pkg.context = SessionContext
             /\ pkg.sources = <<SessionSource>> /\ pkg.claims = SessionClaims
             /\ DOMAIN pkg = {"candidate", "context", "sources", "claims"}
<1> DEFINE pkg == SessionSubject(mode).candidate
<1>1. pkg = [candidate |-> SessionCandidate, context |-> SessionContext,
             sources |-> <<SessionSource>>, claims |-> SessionClaims]
  BY SubjectFields, Zenon
<1> HIDE DEF pkg
<1>2. /\ pkg.candidate = SessionCandidate /\ pkg.context = SessionContext
      /\ pkg.sources = <<SessionSource>> /\ pkg.claims = SessionClaims
      /\ DOMAIN pkg = {"candidate", "context", "sources", "claims"}
  BY <1>1
<1>3. QED BY <1>2, Zenon DEF pkg

(* validateAnswerCandidate: the candidate is of its context.                *)
LEMMA CandidatePasses ==
  Package!CandidateCode(SessionCandidate, SessionContext.candidateContext) = "OK"
<1> DEFINE c == SessionCandidate
           x == SessionContext.candidateContext
           ref == [source_id |-> "source-1", content |-> SessionText]
<1>1. /\ c.wellFormed = TRUE /\ c.trace_id = "trace" /\ c.manifest = ManifestId
      /\ c.answer = SessionText /\ c.provenance.answer = SessionText
      /\ c.source_refs = <<ref>>
      /\ x.inputDecision = [allowed |-> TRUE, trace_id |-> "trace", manifest |-> ManifestId]
      /\ x.invocation = c.provenance
      /\ x.sourceReceipts = c.source_refs
  BY CandidateFields
<1> HIDE DEF c, x, ref
<1>2. Package!IsInjective(Package!Column(<<ref>>, "source_id")) BY OneItem
<1> DEFINE refs == <<ref>>
<1> HIDE DEF refs
<1>3. /\ c.source_refs = refs /\ x.sourceReceipts = refs
      /\ Package!IsInjective(Package!Column(refs, "source_id"))
  BY <1>1, <1>2 DEF refs
<1>4. x.inputDecision.allowed = TRUE /\ x.inputDecision.trace_id = "trace"
      /\ x.inputDecision.manifest = ManifestId
  BY <1>1
<1>5. ~(\/ ~Package!IsInjective(Package!Column(x.sourceReceipts, "source_id"))
        \/ ~Package!IsInjective(Package!Column(c.source_refs, "source_id"))
        \/ ~(Package!Range(c.source_refs) \subseteq Package!Range(x.sourceReceipts)))
  BY <1>3, Zenon
<1> DEFINE strange == \/ ~Package!IsInjective(Package!Column(x.sourceReceipts, "source_id"))
                      \/ ~Package!IsInjective(Package!Column(c.source_refs, "source_id"))
                      \/ ~(Package!Range(c.source_refs) \subseteq Package!Range(x.sourceReceipts))
<1> HIDE DEF strange
<1>6. Package!CandidateCode(c, x)
        = IF ~c.wellFormed THEN "INVALID_CONTRACT"
          ELSE IF ~x.inputDecision.allowed THEN "INPUT_NOT_ALLOWED"
          ELSE IF \/ c.trace_id # x.inputDecision.trace_id
                  \/ c.manifest # x.inputDecision.manifest
                  \/ c.manifest # ManifestId
          THEN "BINDING_MISMATCH"
          ELSE IF c.provenance # x.invocation THEN "PROVENANCE_MISMATCH"
          ELSE IF c.provenance.answer # c.answer THEN "ANSWER_HASH_MISMATCH"
          ELSE IF strange THEN "EVIDENCE_MISMATCH"
          ELSE "OK"
  BY Zenon DEF Package!CandidateCode, strange
<1>8. ~strange BY <1>5, Zenon DEF strange
<1>9. Package!CandidateCode(c, x) = "OK" BY <1>1, <1>4, <1>6, <1>8
<1>7. QED BY <1>9, Zenon DEF c, x

(* The one source of a session is as its receipt says.                      *)
LEMMA SourcePasses ==
  ASSUME NEW mode
  PROVE  Package!SourcesCode(SessionSubject(mode), SessionContext, SessionNow) = "OK"
<1> DEFINE h == SessionSubject(mode)
           ref == [source_id |-> "source-1", content |-> SessionText]
<1>1. /\ h.candidate.sources = <<SessionSource>> /\ h.candidate.candidate = SessionCandidate
      /\ h.organization = Organization /\ h.domain = "engineering"
  BY SubjectFields, PackageFields, Zenon
<1>2. /\ SessionCandidate.source_refs = <<ref>>
      /\ SessionContext.evidenceReceipts = <<SessionReceipt>>
      /\ SessionContext.candidateContext.sourceReceipts = <<ref>>
  BY CandidateFields
<1>3. SessionNow = 10 BY DEF SessionNow
<1> HIDE DEF h, ref
<1>4. Package!SourceCode(SessionSource, h, SessionContext, SessionNow) = "OK"
  <2>1. Package!Receipted(SessionSource, <<SessionReceipt>>)
    <3>1. DOMAIN <<SessionReceipt>> = {1} /\ <<SessionReceipt>>[1] = SessionReceipt BY OneItem
    <3>2. SessionReceipt = [x \in DOMAIN SessionSource \ {"text"} |-> SessionSource[x]]
      BY DEF SessionReceipt
    <3>3. QED BY <3>1, <3>2 DEF Package!Receipted
  <2>2. [source_id |-> SessionSource.source_id, content |-> SessionSource.content] = ref
    BY SourceFields DEF ref
  <2>3. ref \in Package!Range(<<ref>>) BY OneItem
  <2>4. ~(SessionSource.captured_at > SessionNow) BY SourceFields, <1>3
  <2>5. /\ SessionSource.organization = Organization /\ SessionSource.domain = "engineering"
        /\ SessionSource.content = SessionSource.text
    BY SourceFields
  <2> DEFINE s == SessionSource
             receipted == Package!Receipted(s, SessionContext.evidenceReceipts)
             kept == [source_id |-> s.source_id, content |-> s.content]
                       \in Package!Range(h.candidate.candidate.source_refs)
  <2>6. receipted = TRUE BY <1>2, <2>1, Zenon
  <2>7. kept BY <1>1, <1>2, <2>2, <2>3, Zenon
  <2> HIDE DEF s, receipted, kept
  <2>8. Package!SourceCode(s, h, SessionContext, SessionNow)
          = IF ~receipted THEN "SOURCE_RECEIPT_MISMATCH"
            ELSE IF s.organization # h.organization \/ s.domain # h.domain
            THEN "SOURCE_SCOPE_MISMATCH"
            ELSE IF s.captured_at > SessionNow THEN "FUTURE_SOURCE"
            ELSE IF s.content # s.text \/ ~kept THEN "SOURCE_CONTENT_MISMATCH"
            ELSE "OK"
    BY Zenon DEF Package!SourceCode, receipted, kept
  <2>9. /\ ~(s.captured_at > SessionNow) /\ s.organization = Organization
        /\ s.domain = "engineering" /\ s.content = s.text
    BY <2>4, <2>5 DEF s
  <2>10. Package!SourceCode(s, h, SessionContext, SessionNow) = "OK"
    BY <1>1, <2>6, <2>7, <2>8, <2>9
  <2>11. QED BY <2>10 DEF s
<1>5. /\ Package!IsInjective(Package!Column(<<SessionReceipt>>, "source_id"))
      /\ Package!IsInjective(Package!Column(<<SessionSource>>, "source_id"))
  BY OneItem
<1>6. /\ Len(<<ref>>) = 1 /\ Len(<<SessionSource>>) = 1 /\ Len(<<SessionReceipt>>) = 1
      /\ DOMAIN <<SessionSource>> = {1} /\ <<SessionSource>>[1] = SessionSource
  BY OneItem
<1> DEFINE srcs == h.candidate.sources
           codes == [n \in DOMAIN srcs |->
                       Package!SourceCode(srcs[n], h, SessionContext, SessionNow)]
<1>7. \A n \in DOMAIN codes : codes[n] = "OK" BY <1>1, <1>4, <1>6
<1>8. Package!FirstRefusal(codes) = "OK"
  <2> HIDE DEF codes
  <2>1. QED BY <1>7, NoRefusal
<1> HIDE DEF codes
<1> DEFINE receipts == SessionContext.evidenceReceipts
           refs == h.candidate.candidate.source_refs
           captured == SessionContext.candidateContext.sourceReceipts
<1>9. Package!SourcesCode(h, SessionContext, SessionNow)
        = IF ~Package!IsInjective(Package!Column(receipts, "source_id"))
          THEN "INVALID_SOURCE_RECEIPTS"
          ELSE IF ~Package!IsInjective(Package!Column(srcs, "source_id")) THEN "DUPLICATE_SOURCE"
          ELSE IF \/ Len(refs) # Len(srcs) \/ Len(receipts) # Len(srcs)
                  \/ Len(captured) # Len(srcs)
          THEN "SOURCE_SET_MISMATCH"
          ELSE Package!FirstRefusal(codes)
  BY Zenon DEF Package!SourcesCode, codes
<1>10. /\ Len(refs) = 1 /\ Len(srcs) = 1 /\ Len(receipts) = 1 /\ Len(captured) = 1
       /\ Package!IsInjective(Package!Column(receipts, "source_id")) = TRUE
       /\ Package!IsInjective(Package!Column(srcs, "source_id")) = TRUE
  BY <1>1, <1>2, <1>5, <1>6, Zenon
<1> HIDE DEF srcs, receipts, refs, captured
<1>11. Package!SourcesCode(h, SessionContext, SessionNow) = "OK" BY <1>8, <1>9, <1>10
<1>12. QED BY <1>11 DEF h

(* Each claim of a session is one word of the answer, and quotes it.        *)
LEMMA ClaimPasses ==
  ASSUME NEW n \in {1, 2}
  PROVE  /\ Package!ClaimCode(n, SessionClaims, SessionText, <<SessionSource>>) = "OK"
         /\ Package!Span(SessionClaims[n]) = {2 * n - 2}
         /\ Package!Range(SessionClaims[n].support)
              = {[source_id |-> "source-1", start |-> 2 * n - 2, end |-> 2 * n - 1]}
<1> DEFINE c == SessionClaims[n]
           quote == [source_id |-> "source-1", start |-> 2 * n - 2, end |-> 2 * n - 1]
           srcs == <<SessionSource>>
<1>1. /\ c.start = 2 * n - 2 /\ c.end = 2 * n - 1 /\ c.support = <<quote>>
      /\ quote.source_id = "source-1" /\ quote.start = 2 * n - 2 /\ quote.end = 2 * n - 1
  BY SessionClaimFields
<1>2. DOMAIN srcs = {1} /\ srcs[1] = SessionSource BY OneItem
<1>3. /\ DOMAIN <<quote>> = {1} /\ <<quote>>[1] = quote /\ Package!Range(<<quote>>) = {quote}
      /\ Package!IsInjective(<<quote>>)
  BY OneItem DEF Package!IsInjective
<1>4. \A m \in {1, 2} : Package!Span(SessionClaims[m]) = {2 * m - 2}
  BY SessionClaimFields DEF Package!Span
<1>5. ASSUME NEW item, item.start = 2 * n - 2, item.end = 2 * n - 1
      PROVE  Package!ValidSpan(item, SessionText)
  <2>1. Package!Span(item) = {2 * n - 2} BY <1>5 DEF Package!Span
  <2>2. Len(SessionText) = 3 /\ SessionText[2 * n - 1] = TRUE
    <3>1. /\ Len(<<TRUE, FALSE, TRUE>>) = 3 /\ <<TRUE, FALSE, TRUE>>[1] = TRUE
          /\ <<TRUE, FALSE, TRUE>>[3] = TRUE
      OBVIOUS
    <3>2. 2 * n - 1 = 1 \/ 2 * n - 1 = 3 OBVIOUS
    <3>3. QED BY <3>1, <3>2, SourceFields
  <2>3. 2 * n - 2 + 1 = 2 * n - 1 OBVIOUS
  <2>4. SessionText[2 * n - 2 + 1] BY <2>2, <2>3
  <2>5. item.start < item.end /\ item.end <= Len(SessionText) BY <1>5, <2>2
  <2>6. QED BY <2>1, <2>4, <2>5 DEF Package!ValidSpan
<1> HIDE DEF c, quote, srcs
<1>6. Package!ValidSpan(c, SessionText) BY <1>1, <1>5
<1>7. Package!SupportCode(quote, srcs) = "OK"
  <2>1. Package!ValidSpan(quote, SessionText) BY <1>1, <1>5
  <2>2. {i \in DOMAIN srcs : srcs[i].source_id = quote.source_id} = {1}
    BY <1>1, <1>2, SourceFields
  <2>3. \A i \in {1} : Package!ValidSpan(quote, srcs[i].text)
    BY <1>2, <2>1, SourceFields
  <2>4. QED BY <2>2, <2>3 DEF Package!SupportCode
<1>8. \A m \in 1..(n - 1) : Package!Span(c) \cap Package!Span(SessionClaims[m]) = {}
  <2>1. \A m \in 1..(n - 1) : m \in {1, 2} /\ m # n OBVIOUS
  <2>2. QED BY <1>4, <2>1 DEF c
<1> DEFINE overlaps == \E m \in 1..(n - 1) : Package!Span(c) \cap Package!Span(SessionClaims[m]) # {}
           unsupported == \E i \in DOMAIN c.support :
                            Package!SupportCode(c.support[i], srcs) # "OK"
<1>9. ~overlaps BY <1>8, Zenon
<1>10. ~unsupported BY <1>1, <1>3, <1>7
<1>11. Package!IsInjective(c.support) BY <1>1, <1>3
<1> HIDE DEF overlaps, unsupported
<1>12. Package!ClaimCode(n, SessionClaims, SessionText, srcs)
         = IF ~Package!ValidSpan(c, SessionText) THEN "INVALID_CLAIM_SPAN"
           ELSE IF overlaps THEN "OVERLAPPING_CLAIMS"
           ELSE IF ~Package!IsInjective(c.support) THEN "DUPLICATE_SUPPORT"
           ELSE IF unsupported THEN "INVALID_SUPPORT"
           ELSE "OK"
  BY Zenon DEF Package!ClaimCode, overlaps, unsupported, c
<1>13. Package!ClaimCode(n, SessionClaims, SessionText, srcs) = "OK"
  BY <1>6, <1>9, <1>10, <1>11, <1>12
<1>14. Package!Span(c) = {2 * n - 2} /\ Package!Range(c.support) = {quote}
  BY <1>1, <1>3, <1>4 DEF c
<1>15. QED BY <1>13, <1>14 DEF c, quote, srcs

(* The claims of a session cover what is visible and use its source.        *)
LEMMA ClaimsPass ==
  ASSUME NEW mode
  PROVE  Package!ClaimsCode(SessionSubject(mode).candidate) = "OK"
<1> DEFINE pkg == SessionSubject(mode).candidate
           answer == pkg.candidate.answer
           claims == pkg.claims
           srcs == pkg.sources
<1>1. answer = SessionText /\ claims = SessionClaims /\ srcs = <<SessionSource>>
  BY PackageFields, CandidateFields, Zenon
<1>2. DOMAIN claims = {1, 2} BY <1>1, SessionClaimFields
<1> DEFINE codes == [n \in DOMAIN claims |-> Package!ClaimCode(n, claims, answer, srcs)]
           columns == Package!Column(claims, "id")
<1> HIDE DEF pkg, answer, claims, srcs
<1>3. Package!FirstRefusal(codes) = "OK"
  <2>1. \A n \in DOMAIN codes : codes[n] = "OK" BY <1>1, <1>2, ClaimPasses
  <2> HIDE DEF codes
  <2>2. QED BY <2>1, NoRefusal
<1>4. Package!IsInjective(columns)
  <2>1. DOMAIN columns = {1, 2} BY <1>2 DEF Package!Column
  <2>2. \A n \in {1, 2} : columns[n] = n
    <3>1. \A n \in {1, 2} : claims[n].id = n BY <1>1, SessionClaimFields
    <3>2. QED BY <1>2, <3>1 DEF Package!Column
  <2> HIDE DEF columns
  <2>3. QED BY <2>1, <2>2 DEF Package!IsInjective
<1> DEFINE uncovered == \E i \in DOMAIN answer : answer[i] /\ i - 1 \notin Package!Covered(claims)
<1>5. ~uncovered
  <2>1. Package!Span(claims[1]) = {0} /\ Package!Span(claims[2]) = {2}
    BY <1>1, ClaimPasses
  <2>2. 0 \in Package!Covered(claims) /\ 2 \in Package!Covered(claims)
    BY <1>2, <2>1 DEF Package!Covered
  <2>3. DOMAIN answer = 1..3 /\ answer[2] = FALSE BY <1>1, SourceFields
  <2>4. ASSUME NEW i \in DOMAIN answer, answer[i] PROVE i - 1 \in Package!Covered(claims)
    <3>1. i = 1 \/ i = 3 BY <2>3, <2>4
    <3>2. i - 1 = 0 \/ i - 1 = 2 BY <3>1
    <3>3. QED BY <2>2, <3>2
  <2>5. QED BY <2>4
<1>6. Package!Cardinality(Package!Used(claims)) = Len(srcs)
  <2>1. Package!Used(claims) = {"source-1"}
    <3>1. \A n \in DOMAIN claims :
            Package!Range(claims[n].support)
              = {[source_id |-> "source-1", start |-> 2 * n - 2, end |-> 2 * n - 1]}
      BY <1>1, <1>2, ClaimPasses
    <3>2. ASSUME NEW s \in UNION {Package!Range(claims[n].support) : n \in DOMAIN claims}
          PROVE  s.source_id = "source-1"
      BY <3>1
    <3>3. \E s \in UNION {Package!Range(claims[n].support) : n \in DOMAIN claims} : TRUE
      <4>1. 1 \in DOMAIN claims BY <1>2
      <4>2. \E s \in Package!Range(claims[1].support) : TRUE BY <3>1, <4>1
      <4>3. QED BY <4>1, <4>2, Zenon
    <3>4. QED BY <3>2, <3>3 DEF Package!Used
  <2>2. Package!Cardinality(Package!Used(claims)) = 1
    <3>1. Package!Cardinality({"source-1"}) = Cardinality({"source-1"})
      BY Zenon DEF Package!Cardinality, Cardinality
    <3>2. QED BY <2>1, <3>1, FS_Singleton
  <2>3. QED BY <1>1, <2>2, OneItem
<1> HIDE DEF uncovered, codes, columns
<1> DEFINE unused == Package!Cardinality(Package!Used(claims)) # Len(srcs)
<1>7. ~unused BY <1>6, Zenon
<1> HIDE DEF unused
<1>8. Package!ClaimsCode(pkg)
        = IF ~Package!IsInjective(columns) THEN "DUPLICATE_CLAIM"
          ELSE IF Package!FirstRefusal(codes) # "OK" THEN Package!FirstRefusal(codes)
          ELSE IF uncovered THEN "UNCOVERED_ANSWER_TEXT"
          ELSE IF unused THEN "UNUSED_SOURCE"
          ELSE "OK"
  BY Zenon DEF Package!ClaimsCode, columns, codes, uncovered, unused, claims, answer, srcs
<1>9. Package!ClaimsCode(pkg) = "OK" BY <1>3, <1>4, <1>5, <1>7, <1>8
<1>10. QED BY <1>9 DEF pkg

(* createSession: the package of a session is valid in its context.         *)
LEMMA PackagePasses ==
  ASSUME NEW mode
  PROVE  CheckedPackage(SessionSubject(mode), SessionContext, SessionNow) = "OK"
<1> DEFINE h == SessionSubject(mode)
           pkg == h.candidate
           x == SessionContext.candidateContext
           admissible == OutputAdmissible(x.inputDecision, pkg.candidate.answer)
           valid == Package!ValidPackage(pkg)
           inContext == Package!InContext(pkg, SessionContext)
           late == pkg.candidate.provenance.completed_at > SessionNow
           candidate == Package!CandidateCode(pkg.candidate, x)
           sources == Package!SourcesCode(h, SessionContext, SessionNow)
           claims == Package!ClaimsCode(pkg)
<1>1. /\ h.wellFormed = TRUE /\ h.policyVersion = PolicyVersion /\ h.policy_digest = PolicyDigest
  BY SubjectFields, Zenon
<1>2. /\ pkg.candidate = SessionCandidate /\ pkg.context = SessionContext
      /\ pkg.sources = <<SessionSource>> /\ pkg.claims = SessionClaims
      /\ DOMAIN pkg = {"candidate", "context", "sources", "claims"}
  BY PackageFields, Zenon
<1>3. candidate = "OK" BY <1>2, CandidatePasses, Zenon
<1>4. sources = "OK" BY SourcePasses, Zenon
<1>5. claims = "OK" BY ClaimsPass, Zenon
<1>6. ~(SessionNow < 0) BY DEF SessionNow
<1>7. ~late
  <2>1. pkg.candidate.provenance.completed_at = SessionNow - 1 BY <1>2, CandidateFields, Zenon
  <2>2. QED BY <2>1 DEF SessionNow
<1>8. admissible
  <2>1. pkg.candidate.answer = SessionText BY <1>2, CandidateFields, Zenon
  <2>2. QED BY <2>1, SessionAnswerAssumption, Zenon
<1>9. inContext BY <1>2, Zenon DEF Package!InContext
<1>10. valid
  <2> HIDE DEF pkg
  <2>1. {"candidate", "context", "sources", "claims"} \subseteq DOMAIN pkg BY <1>2
  <2>2. pkg.sources # <<>> /\ pkg.claims # <<>>
    <3>1. <<SessionSource>> # <<>> OBVIOUS
    <3>2. QED BY <1>2, <3>1, SessionClaimFields
  <2>3. \A n \in DOMAIN pkg.sources : TRUE \in Package!Range(pkg.sources[n].text)
    <3>1. TRUE \in Package!Range(<<TRUE, FALSE, TRUE>>)
      <4>1. 1 \in DOMAIN <<TRUE, FALSE, TRUE>> /\ <<TRUE, FALSE, TRUE>>[1] = TRUE OBVIOUS
      <4>2. QED BY <4>1, Zenon DEF Package!Range
    <3>2. DOMAIN pkg.sources = {1} /\ pkg.sources[1] = SessionSource BY <1>2, OneItem
    <3>3. pkg.sources[1].text = <<TRUE, FALSE, TRUE>> BY <3>2, SourceFields
    <3>4. QED BY <3>1, <3>2, <3>3
  <2>4. \A n \in DOMAIN pkg.claims : pkg.claims[n].support # <<>>
    <3>1. \A y : <<y>> # <<>> OBVIOUS
    <3>2. QED BY <1>2, <3>1, SessionClaimFields
  <2>5. QED BY <2>1, <2>2, <2>3, <2>4 DEF Package!ValidPackage
<1> HIDE DEF h, pkg, x, admissible, valid, inContext, late, candidate, sources, claims
<1>11. CheckedPackage(h, SessionContext, SessionNow)
         = IF SessionNow < 0 THEN "INVALID_REVIEW_TIME"
           ELSE IF ~h.wellFormed \/ ~valid THEN "INVALID_CANDIDATE_REVIEW_PACKAGE"
           ELSE IF h.policyVersion # PolicyVersion \/ h.policy_digest # PolicyDigest
           THEN "SCOPE_OR_POLICY_MISMATCH"
           ELSE IF candidate # "OK" THEN candidate
           ELSE IF ~inContext THEN "CANDIDATE_CONTEXT_MISMATCH"
           ELSE IF late THEN "FUTURE_CANDIDATE"
           ELSE IF ~admissible THEN "CANDIDATE_OUTPUT_REFUSED"
           ELSE IF sources # "OK" THEN sources
           ELSE claims
  BY Zenon DEF CheckedPackage, Package!PackageCode, valid, candidate, inContext, late, admissible,
               sources, claims, pkg, x
<1>12. CheckedPackage(h, SessionContext, SessionNow) = "OK"
  BY <1>1, <1>3, <1>4, <1>5, <1>6, <1>7, <1>8, <1>9, <1>10, <1>11
<1>13. QED BY <1>12 DEF h
-----------------------------------------------------------------------------
(* Who may do what in a session.                                            *)
SessionRole ==
  {"user", "domain_reviewer", "governance_officer", "engineering_maintainer"}

SessionResource == {"answers/draft", "sources/guide"}

ClassOf(mode) ==
  CASE mode = "GOVERNANCE" -> "domain_restricted"
    [] mode = "ARCHITECT"  -> "engineering_sandbox"
    [] mode = "DEFAULT"    -> "public"

HolderOf(mode, who) == [id |-> who, roles |-> {RoleOf(who, mode)}, domains |-> {"engineering"}]

Admin == [id |-> "admin", roles |-> {"access_administrator"}, domains |-> {"engineering"}]

ResourceOf(mode, id) ==
  [id |-> id, domain |-> "engineering", environment |-> "development",
   classification |-> ClassOf(mode)]

Mandate(mode) ==
  [issuer |-> "admin", domains |-> {"engineering"}, modes |-> {mode}, roles |-> SessionRole]

ClearanceOf(mode, who, resource) ==
  [id |-> <<who, resource>>, subject |-> who, role |-> RoleOf(who, mode), issuer |-> "admin",
   domain |-> "engineering", modes |-> {mode}, resources |-> {resource},
   operations |-> {"read", "review_release"}, issuedAt |-> SessionNow - 5,
   expiresAt |-> SessionNow + 10, revoked |-> FALSE, purposes |-> {"education"},
   environments |-> {"development"}]

PrincipalsOf(mode) == {HolderOf(mode, who) : who \in Holders} \cup {Admin}

ResourcesOf(mode) == {ResourceOf(mode, id) : id \in SessionResource}

ClearancesOf(mode) ==
  {ClearanceOf(mode, who, resource) : who \in Holders, resource \in SessionResource}

LEMMA SnapshotFields ==
  ASSUME NEW mode
  PROVE  LET s == SessionSnapshot(mode)
         IN  /\ s.wellFormed = TRUE /\ s.id = "snapshot-1" /\ s.organization = Organization
             /\ s.policy_digest = PolicyDigest /\ s.issued_at = SessionNow - 5
             /\ s.expires_at = SessionNow + 10
             /\ s.principals = PrincipalsOf(mode) /\ s.resources = ResourcesOf(mode)
             /\ s.issuerMandates = {Mandate(mode)} /\ s.clearances = ClearancesOf(mode)
             /\ s.denials = {}
<1> DEFINE s == SessionSnapshot(mode)
           principals == PrincipalsOf(mode)
           resources == ResourcesOf(mode)
           clearances == ClearancesOf(mode)
           mandate == Mandate(mode)
<1>1. s = [wellFormed |-> TRUE, id |-> "snapshot-1", organization |-> Organization,
           policy_digest |-> PolicyDigest, issued_at |-> SessionNow - 5,
           expires_at |-> SessionNow + 10, principals |-> principals, resources |-> resources,
           issuerMandates |-> {mandate}, clearances |-> clearances, denials |-> {}]
  BY DEF SessionSnapshot, PrincipalsOf, HolderOf, Admin, ResourcesOf, ResourceOf, ClassOf, Mandate,
         ClearancesOf, ClearanceOf, SessionResource, SessionRole
<1> HIDE DEF s, principals, resources, clearances, mandate
<1>2. /\ s.wellFormed = TRUE /\ s.id = "snapshot-1" /\ s.organization = Organization
      /\ s.policy_digest = PolicyDigest /\ s.issued_at = SessionNow - 5
      /\ s.expires_at = SessionNow + 10
      /\ s.principals = principals /\ s.resources = resources
      /\ s.issuerMandates = {mandate} /\ s.clearances = clearances /\ s.denials = {}
  BY <1>1
<1>3. QED BY <1>2, Zenon DEF s, principals, resources, clearances, mandate

(* Nothing in a snapshot has the name of another.                           *)
LEMMA SnapshotUnique ==
  ASSUME NEW mode
  PROVE  LET s == SessionSnapshot(mode)
         IN  /\ Scoped!UniqueIds(s.principals) /\ Scoped!UniqueIds(s.resources)
             /\ Scoped!UniqueIds(s.clearances) /\ Scoped!UniqueIds(s.denials)
<1> DEFINE s == SessionSnapshot(mode)
<1>1. /\ s.principals = PrincipalsOf(mode) /\ s.resources = ResourcesOf(mode)
      /\ s.clearances = ClearancesOf(mode) /\ s.denials = {}
  BY SnapshotFields, Zenon
<1> HIDE DEF s
<1>2. Scoped!UniqueIds(s.principals)
  <2>1. \A who : HolderOf(mode, who).id = who BY DEF HolderOf
  <2>2. Admin.id = "admin" /\ "admin" \notin Holders BY DEF Admin, Holders
  <2>3. QED BY <1>1, <2>1, <2>2 DEF Scoped!UniqueIds, PrincipalsOf
<1>3. Scoped!UniqueIds(s.resources)
  <2>1. \A id : ResourceOf(mode, id).id = id BY DEF ResourceOf
  <2>2. QED BY <1>1, <2>1 DEF Scoped!UniqueIds, ResourcesOf
<1>4. Scoped!UniqueIds(s.clearances)
  <2>1. \A who, resource : ClearanceOf(mode, who, resource).id = <<who, resource>>
    BY DEF ClearanceOf
  <2>2. \A a, b, c, d : <<a, b>> = <<c, d>> => a = c /\ b = d OBVIOUS
  <2>3. QED BY <1>1, <2>1, <2>2 DEF Scoped!UniqueIds, ClearancesOf
<1>5. Scoped!UniqueIds(s.denials) BY <1>1 DEF Scoped!UniqueIds
<1>6. QED BY <1>2, <1>3, <1>4, <1>5 DEF s

(* The snapshot of a session is valid with its own receipt.                 *)
LEMMA SnapshotValid ==
  ASSUME NEW mode
  PROVE  Scoped!CheckSnapshot(SessionSnapshot(mode), ReceiptFor(SessionSnapshot(mode), SessionNow))
<1> DEFINE s == SessionSnapshot(mode)
           receipt == ReceiptFor(s, SessionNow)
<1>1. /\ s.wellFormed = TRUE /\ s.id = "snapshot-1" /\ s.organization = Organization
      /\ s.policy_digest = PolicyDigest /\ s.issued_at = SessionNow - 5
      /\ s.expires_at = SessionNow + 10
  BY SnapshotFields, Zenon
<1>2. /\ Scoped!UniqueIds(s.principals) /\ Scoped!UniqueIds(s.resources)
      /\ Scoped!UniqueIds(s.clearances) /\ Scoped!UniqueIds(s.denials)
  BY SnapshotUnique, Zenon
<1> HIDE DEF s
<1>3. /\ receipt.snapshot_id = s.id /\ receipt.snapshot_digest = s
      /\ receipt.organization = Organization /\ receipt.now = SessionNow
  BY DEF ReceiptFor, Scoped!Receipt
<1>4. SessionNow = 10 BY DEF SessionNow
<1> HIDE DEF receipt
<1>5. Scoped!CheckSnapshot(s, receipt)
  BY <1>1, <1>2, <1>3, <1>4 DEF Scoped!CheckSnapshot
<1>6. QED BY <1>5 DEF s, receipt

(* The request of somebody in a session.                                    *)
InSession(r, mode, actor, resource, operation) ==
  /\ r.wellFormed = TRUE /\ r.actor = actor /\ r.mode = mode
  /\ r.domain = "engineering" /\ r.resource = resource /\ r.operation = operation
  /\ r.purpose = "education" /\ r.environment = "development"
  /\ r.organization = Organization /\ r.policy_digest = PolicyDigest

LEMMA SessionRequest ==
  ASSUME NEW mode, NEW actor, NEW resource, NEW operation
  PROVE  InSession(Scoped!RequestOf(SessionSubject(mode), actor, resource, operation),
                   mode, actor, resource, operation)
<1> DEFINE h == SessionSubject(mode)
<1>1. /\ h.accessMode = mode /\ h.domain = "engineering" /\ h.purpose = "education"
      /\ h.environment = "development" /\ h.organization = Organization
      /\ h.policy_digest = PolicyDigest
  BY SubjectFields, Zenon
<1> HIDE DEF h
<1>2. InSession(Scoped!RequestOf(h, actor, resource, operation), mode, actor, resource, operation)
  BY <1>1 DEF Scoped!RequestOf, InSession
<1>3. QED BY <1>2 DEF h

(* The policy context of a session: the snapshot at its time.               *)
SessionPolicy(mode) ==
  [principals |-> PrincipalsOf(mode), resources |-> ResourcesOf(mode),
   issuerMandates |-> {Mandate(mode)}, now |-> SessionNow, clearances |-> ClearancesOf(mode)]

LEMMA SessionContextFor ==
  ASSUME NEW mode, NEW r, r.purpose = "education", r.environment = "development"
  PROVE  Scoped!ContextFor(r, SessionSnapshot(mode), SessionNow) = SessionPolicy(mode)
<1> DEFINE s == SessionSnapshot(mode)
           all == ClearancesOf(mode)
           kept == {c \in s.clearances : r.purpose \in c.purposes /\ r.environment \in c.environments}
<1>1. /\ s.principals = PrincipalsOf(mode) /\ s.resources = ResourcesOf(mode)
      /\ s.issuerMandates = {Mandate(mode)} /\ s.clearances = all
  BY SnapshotFields, Zenon
<1>2. \A c \in all : "education" \in c.purposes /\ "development" \in c.environments
  BY DEF ClearancesOf, ClearanceOf
<1> HIDE DEF s, all
<1>3. kept = all BY <1>1, <1>2
<1> HIDE DEF kept
<1>4. Scoped!ContextFor(r, s, SessionNow)
        = [principals |-> s.principals, resources |-> s.resources,
           issuerMandates |-> s.issuerMandates, now |-> SessionNow, clearances |-> kept]
  BY Zenon DEF Scoped!ContextFor, kept
<1>5. QED BY <1>1, <1>3, <1>4 DEF SessionPolicy, s, all

LEMMA HolderRole ==
  ASSUME NEW mode \in AccessMode, NEW who \in Holders
  PROVE  RoleOf(who, mode) \in SessionRole
<1>1. AudienceRole(mode) \in SessionRole BY DEF AccessMode, AudienceRole, SessionRole
<1>2. QED BY <1>1 DEF RoleOf, Holders, SessionRole

(* Everybody in a session is cleared in their role.                         *)
LEMMA HolderCleared ==
  ASSUME NEW mode \in AccessMode, NEW who \in Holders, NEW resource \in SessionResource,
         NEW operation \in {"read", "review_release"}
  PROVE  Scoped!HasClearance(Scoped!RequestOf(SessionSubject(mode), who, resource, operation),
                             RoleOf(who, mode), SessionPolicy(mode))
<1> DEFINE r == Scoped!RequestOf(SessionSubject(mode), who, resource, operation)
           role == RoleOf(who, mode)
           context == SessionPolicy(mode)
           c == ClearanceOf(mode, who, resource)
<1>1. /\ r.actor = who /\ r.mode = mode /\ r.domain = "engineering" /\ r.resource = resource
      /\ r.operation = operation
  <2>1. InSession(r, mode, who, resource, operation) BY SessionRequest, Zenon
  <2> HIDE DEF r
  <2>2. QED BY <2>1 DEF InSession
<1>2. role \in SessionRole BY HolderRole
<1>3. /\ context.principals = PrincipalsOf(mode) /\ context.issuerMandates = {Mandate(mode)}
      /\ context.now = SessionNow /\ context.clearances = ClearancesOf(mode)
  BY DEF SessionPolicy
<1>4. /\ c.subject = who /\ c.role = role /\ c.issuer = "admin" /\ c.domain = "engineering"
      /\ c.modes = {mode} /\ c.resources = {resource}
      /\ c.operations = {"read", "review_release"} /\ c.issuedAt = SessionNow - 5
      /\ c.expiresAt = SessionNow + 10 /\ c.revoked = FALSE
  BY DEF ClearanceOf
<1>5. c \in ClearancesOf(mode) BY DEF ClearancesOf
<1>6. who # "admin" BY DEF Holders
<1> HIDE DEF r, role, context, c
<1>7. Scoped!MayIssue("admin", r, role, context)
  <2>1. /\ Admin \in context.principals /\ Admin.id = "admin"
        /\ "access_administrator" \in Admin.roles /\ "engineering" \in Admin.domains
    BY <1>3 DEF PrincipalsOf, Admin
  <2>2. /\ Mandate(mode) \in context.issuerMandates /\ Mandate(mode).issuer = "admin"
        /\ "engineering" \in Mandate(mode).domains /\ role \in Mandate(mode).roles
        /\ mode \in Mandate(mode).modes
    BY <1>2, <1>3 DEF Mandate
  <2>3. QED BY <1>1, <2>1, <2>2, Zenon DEF Scoped!MayIssue
<1>8. Scoped!Grants(c, r, role, context)
  <2>1. c.issuedAt <= context.now /\ context.now < c.expiresAt BY <1>3, <1>4 DEF SessionNow
  <2>2. Scoped!MayIssue(c.issuer, r, role, context) BY <1>4, <1>7
  <2>3. QED BY <1>1, <1>4, <1>6, <2>1, <2>2 DEF Scoped!Grants
<1>9. Scoped!HasClearance(r, role, context) BY <1>3, <1>5, <1>8 DEF Scoped!HasClearance
<1>10. QED BY <1>9 DEF r, role, context

(* Who has a name in a session, and what.                                   *)
LEMMA NamedInSession ==
  ASSUME NEW mode
  PROVE  /\ \A who \in Holders :
              {p \in PrincipalsOf(mode) : p.id = who} = {HolderOf(mode, who)}
         /\ \A id \in SessionResource :
              {x \in ResourcesOf(mode) : x.id = id} = {ResourceOf(mode, id)}
<1>1. \A who : HolderOf(mode, who).id = who BY DEF HolderOf
<1>2. Admin.id = "admin" /\ "admin" \notin Holders BY DEF Admin, Holders
<1>3. \A id : ResourceOf(mode, id).id = id BY DEF ResourceOf
<1>4. QED BY <1>1, <1>2, <1>3 DEF PrincipalsOf, ResourcesOf

(* A request of a session is in the scope of its snapshot, which denies     *)
(* nothing.                                                                 *)
LEMMA SessionInScope ==
  ASSUME NEW mode, NEW actor, NEW resource, NEW operation
  PROVE  LET r == Scoped!RequestOf(SessionSubject(mode), actor, resource, operation)
         IN  /\ resource \in SessionResource => Scoped!ScopeMatches(r, SessionSnapshot(mode))
             /\ ~Scoped!IsDenied(r, SessionSnapshot(mode))
<1> DEFINE r == Scoped!RequestOf(SessionSubject(mode), actor, resource, operation)
           s == SessionSnapshot(mode)
<1>1. /\ r.resource = resource /\ r.environment = "development"
      /\ r.organization = Organization /\ r.policy_digest = PolicyDigest
  <2>1. InSession(r, mode, actor, resource, operation) BY SessionRequest, Zenon
  <2> HIDE DEF r
  <2>2. QED BY <2>1 DEF InSession
<1>2. s.organization = Organization /\ s.resources = ResourcesOf(mode) /\ s.denials = {}
  BY SnapshotFields, Zenon
<1> HIDE DEF r, s
<1>3. ASSUME resource \in SessionResource PROVE Scoped!ScopeMatches(r, s)
  <2>1. /\ ResourceOf(mode, resource) \in s.resources
        /\ ResourceOf(mode, resource).id = resource
        /\ ResourceOf(mode, resource).environment = "development"
    BY <1>2, <1>3 DEF ResourcesOf, ResourceOf
  <2>2. QED BY <1>1, <1>2, <2>1 DEF Scoped!ScopeMatches
<1>4. ~Scoped!IsDenied(r, s) BY <1>2 DEF Scoped!IsDenied
<1>5. QED BY <1>3, <1>4, Zenon DEF r, s

(* The class of what a session is about is one its mode may see.            *)
LEMMA ClassInMode ==
  ASSUME NEW mode \in AccessMode
  PROVE  /\ mode \in DOMAIN Scoped!Modes
         /\ ClassOf(mode) \in Scoped!Modes[mode].classes /\ ClassOf(mode) # "protected"
         /\ "read" \in Scoped!Modes[mode].operations
         /\ AudienceRole(mode) \in Scoped!Modes[mode].roles
BY DEF AccessMode, Scoped!Modes, ClassOf, AudienceRole

(* The audience of a session may read its answer and its source.            *)
LEMMA AudienceMayRead ==
  ASSUME NEW mode \in AccessMode, NEW resource \in SessionResource
  PROVE  Scoped!AudienceReads(SessionSubject(mode), resource, SessionSnapshot(mode),
                              ReceiptFor(SessionSnapshot(mode), SessionNow))
<1> DEFINE h == SessionSubject(mode)
           s == SessionSnapshot(mode)
           receipt == ReceiptFor(s, SessionNow)
           r == Scoped!RequestOf(h, "alice", resource, "read")
           context == SessionPolicy(mode)
           m == Scoped!Modes[mode]
           alice == HolderOf(mode, "alice")
           x == ResourceOf(mode, resource)
           valid == Scoped!CheckSnapshot(s, receipt)
           scoped == Scoped!ScopeMatches(r, s)
           denied == Scoped!IsDenied(r, s)
<1>1. h.audience = {"alice"} BY SubjectFields, Zenon
<1>2. valid BY SnapshotValid
<1>3. scoped /\ ~denied BY SessionInScope
<1>4. /\ r.wellFormed = TRUE /\ r.actor = "alice" /\ r.mode = mode /\ r.domain = "engineering"
      /\ r.resource = resource /\ r.operation = "read"
      /\ r.purpose = "education" /\ r.environment = "development"
  <2>1. InSession(r, mode, "alice", resource, "read") BY SessionRequest, Zenon
  <2> HIDE DEF r
  <2>2. QED BY <2>1 DEF InSession
<1>5. receipt.now = SessionNow BY DEF ReceiptFor, Scoped!Receipt
<1>6. Scoped!ContextFor(r, s, SessionNow) = context BY <1>4, SessionContextFor
<1>7. /\ context.principals = PrincipalsOf(mode) /\ context.resources = ResourcesOf(mode)
      /\ context.clearances = ClearancesOf(mode)
  BY DEF SessionPolicy
<1>8. "alice" \in Holders /\ RoleOf("alice", mode) = AudienceRole(mode)
  BY DEF Holders, RoleOf
<1>9. /\ alice.roles = {AudienceRole(mode)} /\ alice.domains = {"engineering"}
  BY <1>8 DEF HolderOf
<1>10. /\ x.domain = "engineering" /\ x.classification = ClassOf(mode)
  BY DEF ResourceOf
<1>11. /\ Scoped!UniqueIds(PrincipalsOf(mode)) /\ Scoped!UniqueIds(ResourcesOf(mode))
       /\ Scoped!UniqueIds(ClearancesOf(mode))
  BY SnapshotUnique, SnapshotFields
<1>12. Scoped!HasClearance(r, AudienceRole(mode), context) BY <1>8, HolderCleared
<1>13. /\ mode \in DOMAIN Scoped!Modes /\ ClassOf(mode) \in m.classes
       /\ ClassOf(mode) # "protected" /\ "read" \in m.operations
       /\ AudienceRole(mode) \in m.roles
  BY ClassInMode
<1>14. /\ {p \in PrincipalsOf(mode) : p.id = "alice"} = {alice}
       /\ {y \in ResourcesOf(mode) : y.id = resource} = {x}
  BY <1>8, NamedInSession
<1> HIDE DEF h, s, receipt, r, context, m, alice, x, valid, scoped, denied
<1>15. Scoped!SimulateAccess(r, context) = "OK"
  <2> DEFINE actors == {p \in context.principals : p.id = r.actor}
             resources == {y \in context.resources : y.id = r.resource}
             mode_ == Scoped!Modes[r.mode]
             roles == (UNION {p.roles : p \in actors}) \cap mode_.roles
             twice == ~(/\ Scoped!UniqueIds(context.principals)
                        /\ Scoped!UniqueIds(context.resources)
                        /\ Scoped!UniqueIds(context.clearances))
             foreign == \/ \E y \in resources : y.domain # r.domain
                        \/ \E p \in actors : r.domain \notin p.domains
             outside == \/ \E y \in resources : y.classification \notin mode_.classes
                        \/ r.operation \notin mode_.operations
             protected == \E y \in resources : y.classification = "protected"
             uncleared == ~\E role \in roles : Scoped!HasClearance(r, role, context)
  <2>1. actors = {alice} /\ resources = {x} BY <1>4, <1>7, <1>14, Zenon
  <2>2. mode_ = m BY <1>4 DEF m
  <2> HIDE DEF actors, resources, mode_
  <2>3. ~twice BY <1>7, <1>11
  <2>4. ~foreign BY <2>1, <1>4, <1>9, <1>10
  <2>5. ~outside BY <2>1, <2>2, <1>4, <1>10, <1>13
  <2>6. ~protected BY <2>1, <1>10, <1>13
  <2>7. roles = {AudienceRole(mode)}
    <3> DEFINE held == UNION {p.roles : p \in actors}
    <3>1. held = {AudienceRole(mode)} BY <2>1, <1>9
    <3>2. roles = held \cap mode_.roles OBVIOUS
    <3> HIDE DEF held, roles
    <3>3. QED BY <3>1, <3>2, <2>2, <1>13
  <2>8. ~uncleared BY <2>7, <1>12
  <2>9. actors # {} /\ resources # {} /\ roles # {} BY <2>1, <2>7
  <2> HIDE DEF twice, foreign, outside, protected, uncleared, roles
  <2>10. Scoped!SimulateAccess(r, context)
           = IF twice THEN "INVALID_CONTEXT"
             ELSE IF r.mode \notin DOMAIN Scoped!Modes THEN "UNKNOWN_MODE"
             ELSE IF actors = {} \/ resources = {} THEN "UNKNOWN_PRINCIPAL_OR_RESOURCE"
             ELSE IF protected THEN "PROTECTED_RESOURCE"
             ELSE IF foreign THEN "DOMAIN_MISMATCH"
             ELSE IF outside THEN "MODE_SCOPE_DENIED"
             ELSE IF roles = {} THEN "ROLE_DENIED"
             ELSE IF uncleared THEN "CLEARANCE_REQUIRED"
             ELSE "OK"
    BY Zenon DEF Scoped!SimulateAccess, twice, actors, resources, protected, foreign, outside,
                 roles, uncleared, mode_
  <2>11. QED BY <2>3, <2>4, <2>5, <2>6, <2>8, <2>9, <2>10, <1>4, <1>13
<1>16. Scoped!CheckScopedAccess(r, s, receipt) = "OK"
  <2>1. Scoped!ContextFor(r, s, receipt.now) = context BY <1>5, <1>6
  <2>2. Scoped!CheckScopedAccess(r, s, receipt)
          = IF ~r.wellFormed THEN "INVALID_REQUEST"
            ELSE IF ~valid THEN "INVALID_OR_STALE_SNAPSHOT"
            ELSE IF ~scoped THEN "SCOPE_OR_POLICY_MISMATCH"
            ELSE IF denied THEN "EXPLICIT_DENIAL"
            ELSE Scoped!SimulateAccess(r, Scoped!ContextFor(r, s, receipt.now))
    BY Zenon DEF Scoped!CheckScopedAccess, valid, scoped, denied
  <2>3. QED BY <2>1, <2>2, <1>2, <1>3, <1>4, <1>15
<1>17. Scoped!AudienceReads(h, resource, s, receipt)
  BY <1>1, <1>16 DEF Scoped!AudienceReads, r
<1>18. QED BY <1>17 DEF h, s, receipt
-----------------------------------------------------------------------------
(* What the server makes of a form.                                         *)
Checks(finding) == [n \in 1..2 |-> [claim_id |-> n, finding |-> finding]]

IsAssessment(p, mode, who, decision, finding) ==
  /\ p.id = RecordIdOf(who) /\ p.reviewer = who /\ p.role = RoleOf(who, mode)
  /\ p.subjectHash = SessionSubject(mode) /\ p.decision = decision
  /\ p.evidence = (IF finding = "SUPPORTED" THEN "VERIFIED" ELSE "UNVERIFIED")
  /\ p.authorityClaims = "CLEARED" /\ p.outputChecks = "PASS" /\ p.revoked = FALSE
  /\ p.reviewedAt = SessionNow /\ p.expiresAt = SessionNow + 5
  /\ "candidateAssessment" \in DOMAIN p
  /\ p.candidateAssessment.package = SessionSubject(mode).candidate
  /\ p.candidateAssessment.answer = SessionText
  /\ p.candidateAssessment.coverage = "COMPLETE"
  /\ p.candidateAssessment.claim_checks = Checks(finding)
  /\ p.candidateAssessment.authority_claims = "CLEARED"
  /\ p.candidateAssessment.output_admissibility = "PASS"

LEMMA ChecksShape ==
  ASSUME NEW finding
  PROVE  /\ DOMAIN Checks(finding) = {1, 2} /\ Len(Checks(finding)) = 2
         /\ \A n \in {1, 2} :
              Checks(finding)[n].claim_id = n /\ Checks(finding)[n].finding = finding
         /\ \A check \in Range(Checks(finding)) : check.finding = finding
         /\ \E check \in Range(Checks(finding)) : check.finding = finding
<1> DEFINE c == Checks(finding)
<1>1. 1..2 = {1, 2} OBVIOUS
<1>2. /\ DOMAIN c = {1, 2} /\ Len(c) = 2
      /\ \A n \in {1, 2} : c[n].claim_id = n /\ c[n].finding = finding
  BY <1>1 DEF Checks
<1> HIDE DEF c
<1>3. Range(c) = {c[1], c[2]} BY <1>2 DEF Range
<1>4. QED BY <1>2, <1>3 DEF c

LEMMA FormShape ==
  ASSUME NEW form \in Forms
  PROVE  \E finding \in {"SUPPORTED", "UNCERTAIN"} :
           /\ form.decision \in {"APPROVE", "REJECT"}
           /\ form.authority_claims = "CLEARED" /\ form.output_admissibility = "PASS"
           /\ form.claim_checks = Checks(finding)
<1>1. ASSUME NEW d, NEW f
      PROVE  /\ Form(d, f).decision = d /\ Form(d, f).authority_claims = "CLEARED"
             /\ Form(d, f).output_admissibility = "PASS"
             /\ Form(d, f).claim_checks = Checks(f)
  <2> DEFINE checks == [n \in DOMAIN SessionClaims |->
                          [claim_id |-> SessionClaims[n].id, finding |-> f]]
  <2>1. checks = Checks(f)
    <3>1. DOMAIN SessionClaims = {1, 2} /\ \A n \in {1, 2} : SessionClaims[n].id = n
      BY SessionClaimFields
    <3>2. 1..2 = {1, 2} OBVIOUS
    <3>3. QED BY <3>1, <3>2 DEF Checks
  <2> HIDE DEF checks
  <2>2. Form(d, f) = [decision |-> d, authority_claims |-> "CLEARED",
                      output_admissibility |-> "PASS", claim_checks |-> checks]
    BY Zenon DEF Form, checks
  <2>3. QED BY <2>1, <2>2
<1>2. \E d \in {"APPROVE", "REJECT"}, f \in {"SUPPORTED", "UNCERTAIN"} : form = Form(d, f)
  BY DEF Forms
<1>3. QED BY <1>1, <1>2

LEMMA PayloadIsAssessment ==
  ASSUME NEW mode, NEW who, NEW form \in Forms
  PROVE  \E finding \in {"SUPPORTED", "UNCERTAIN"} :
           IsAssessment(Payload(mode, who, form), mode, who, form.decision, finding)
<1>1. PICK finding \in {"SUPPORTED", "UNCERTAIN"} :
        /\ form.authority_claims = "CLEARED" /\ form.output_admissibility = "PASS"
        /\ form.claim_checks = Checks(finding)
  BY FormShape
<1> DEFINE evidence == IF \A check \in Range(form.claim_checks) : check.finding = "SUPPORTED"
                       THEN "VERIFIED" ELSE "UNVERIFIED"
           claims == IF form.authority_claims = "CLEARED" THEN "CLEARED" ELSE "PENDING"
           output == IF form.output_admissibility = "PASS" THEN "PASS" ELSE "FAIL"
           a == [package |-> SessionSubject(mode).candidate, answer |-> SessionText,
                 coverage |-> "COMPLETE", claim_checks |-> form.claim_checks,
                 authority_claims |-> form.authority_claims,
                 output_admissibility |-> form.output_admissibility]
<1>2. evidence = IF finding = "SUPPORTED" THEN "VERIFIED" ELSE "UNVERIFIED"
  BY <1>1, ChecksShape
<1>3. claims = "CLEARED" /\ output = "PASS" BY <1>1
<1>4. /\ a.package = SessionSubject(mode).candidate /\ a.answer = SessionText
      /\ a.coverage = "COMPLETE" /\ a.claim_checks = Checks(finding)
      /\ a.authority_claims = "CLEARED" /\ a.output_admissibility = "PASS"
  BY <1>1
<1> HIDE DEF evidence, claims, output, a
<1>5. Payload(mode, who, form)
        = SignedReview(mode, who, 1, form.decision, evidence, claims, output, a).payload
  BY Zenon DEF Payload, ReviewFrom, evidence, claims, output, a
<1>6. SignedReview(mode, who, 1, form.decision, evidence, claims, output, a).payload
        = [wellFormed |-> TRUE, id |-> RecordIdOf(who), reviewer |-> who,
           role |-> RoleOf(who, mode), subjectHash |-> SessionSubject(mode),
           decision |-> form.decision, evidence |-> evidence, authorityClaims |-> claims,
           outputChecks |-> output, reviewedAt |-> SessionNow, expiresAt |-> SessionNow + 5,
           revoked |-> FALSE, candidateAssessment |-> a]
  BY DEF SignedReview, Sealed
<1> DEFINE p == Payload(mode, who, form)
<1> HIDE DEF p
<1>7. /\ p.id = RecordIdOf(who) /\ p.reviewer = who /\ p.role = RoleOf(who, mode)
      /\ p.subjectHash = SessionSubject(mode) /\ p.decision = form.decision
      /\ p.evidence = evidence /\ p.authorityClaims = claims /\ p.outputChecks = output
      /\ p.reviewedAt = SessionNow /\ p.expiresAt = SessionNow + 5 /\ p.revoked = FALSE
      /\ "candidateAssessment" \in DOMAIN p /\ p.candidateAssessment = a
  BY <1>5, <1>6 DEF p
<1>8. IsAssessment(p, mode, who, form.decision, finding)
  BY <1>2, <1>3, <1>4, <1>7 DEF IsAssessment
<1>9. QED BY <1>8 DEF p
-----------------------------------------------------------------------------
(* assessmentBindingReason: what the page submits is about the package.     *)
LEMMA AssessmentBound ==
  ASSUME NEW mode, NEW who, NEW decision, NEW finding, NEW p,
         IsAssessment(p, mode, who, decision, finding)
  PROVE  CheckedBinding(SessionSubject(mode), p) = "OK"
<1> DEFINE pkg == SessionSubject(mode).candidate
           a == p.candidateAssessment
           checks == a.claim_checks
           created == {pkg.candidate.provenance.completed_at}
                         \cup {source.captured_at : source \in Package!Range(pkg.sources)}
           early == \E time \in created : p.reviewedAt < time
           columns == Package!Column(checks, "claim_id")
           stray == \E check \in Package!Range(checks) :
                      \A claim \in Package!Range(pkg.claims) : claim.id # check.claim_id
<1>1. /\ "candidateAssessment" \in DOMAIN p /\ a.package = pkg /\ a.answer = SessionText
      /\ checks = Checks(finding) /\ p.reviewedAt = SessionNow
  BY DEF IsAssessment
<1>2. /\ pkg.candidate = SessionCandidate /\ pkg.sources = <<SessionSource>>
      /\ pkg.claims = SessionClaims
  BY PackageFields, Zenon
<1>3. /\ pkg.candidate.provenance.completed_at = SessionNow - 1
      /\ pkg.candidate.provenance.answer = SessionText
  BY <1>2, CandidateFields, Zenon
<1> HIDE DEF pkg, a, checks
<1>4. ~early
  <2>1. Package!Range(pkg.sources) = {SessionSource} BY <1>2, OneItem
  <2>2. \A time \in created : time = SessionNow - 1 \/ time = SessionNow - 2
    BY <1>3, <2>1, SourceFields
  <2>3. QED BY <1>1, <2>2 DEF SessionNow
<1>5. DOMAIN checks = {1, 2} /\ \A n \in {1, 2} : checks[n].claim_id = n
  BY <1>1, ChecksShape
<1>6. Package!IsInjective(columns)
  <2>1. DOMAIN columns = {1, 2} /\ \A n \in {1, 2} : columns[n] = n
    BY <1>5 DEF Package!Column
  <2> HIDE DEF columns
  <2>2. QED BY <2>1 DEF Package!IsInjective
<1>7. ~stray
  <2>1. Package!Range(checks) = {checks[1], checks[2]} BY <1>5 DEF Package!Range
  <2>2. \A n \in {1, 2} : SessionClaims[n] \in Package!Range(SessionClaims)
                            /\ SessionClaims[n].id = n
    BY SessionClaimFields DEF Package!Range
  <2>3. QED BY <1>2, <1>5, <2>1, <2>2
<1> HIDE DEF early, columns, stray
<1>8. CheckedBinding(SessionSubject(mode), p)
        = IF "candidateAssessment" \notin DOMAIN p THEN "SIGNED_CANDIDATE_ASSESSMENT_REQUIRED"
          ELSE IF a.package # pkg \/ a.answer # pkg.candidate.provenance.answer
          THEN "ASSESSMENT_BINDING_MISMATCH"
          ELSE IF early THEN "ASSESSMENT_PREDATES_CONTENT"
          ELSE IF ~Package!IsInjective(columns) \/ stray THEN "ASSESSMENT_CLAIM_MISMATCH"
          ELSE "OK"
  BY Zenon DEF CheckedBinding, Package!AssessmentBindingReason, pkg, a, checks, early, columns,
               stray
<1>9. QED BY <1>1, <1>3, <1>4, <1>6, <1>7, <1>8

(* assessmentComplete, and what the page calls a positive assessment.       *)
LEMMA AssessmentJudged ==
  ASSUME NEW mode, NEW who, NEW decision, NEW finding, NEW p,
         IsAssessment(p, mode, who, decision, finding)
  PROVE  /\ Qualified(p) <=> decision = "APPROVE" /\ finding = "SUPPORTED"
         /\ CheckedAssessment(SessionSubject(mode), p) <=> Qualified(p)
<1> DEFINE pkg == SessionSubject(mode).candidate
           a == p.candidateAssessment
           checks == a.claim_checks
           bound == Package!AssessmentBindingReason(pkg, p) = "OK"
<1>1. /\ p.decision = decision /\ p.authorityClaims = "CLEARED" /\ p.outputChecks = "PASS"
      /\ p.evidence = (IF finding = "SUPPORTED" THEN "VERIFIED" ELSE "UNVERIFIED")
      /\ a.coverage = "COMPLETE" /\ checks = Checks(finding) /\ a.authority_claims = "CLEARED"
      /\ a.output_admissibility = "PASS"
  BY DEF IsAssessment
<1>2. bound BY AssessmentBound DEF CheckedBinding
<1>3. pkg.claims = SessionClaims BY PackageFields, Zenon
<1>4. /\ Len(checks) = Len(SessionClaims)
      /\ (\A check \in Range(checks) : check.finding = "SUPPORTED") <=> finding = "SUPPORTED"
      /\ Package!Range(checks) = Range(checks)
  BY <1>1, ChecksShape, SessionClaimFields DEF Package!Range, Range
<1> HIDE DEF pkg, a, checks, bound
<1>5. Qualified(p)
        <=> /\ p.decision = "APPROVE" /\ a.coverage = "COMPLETE"
            /\ Len(checks) = Len(SessionClaims)
            /\ \A check \in Range(checks) : check.finding = "SUPPORTED"
            /\ a.authority_claims = "CLEARED" /\ a.output_admissibility = "PASS"
  BY Zenon DEF Qualified, a, checks
<1>6. CheckedAssessment(SessionSubject(mode), p)
        <=> /\ bound /\ p.decision = "APPROVE" /\ p.evidence = "VERIFIED"
            /\ p.authorityClaims = "CLEARED" /\ p.outputChecks = "PASS"
            /\ a.coverage = "COMPLETE" /\ a.authority_claims = "CLEARED"
            /\ a.output_admissibility = "PASS"
            /\ Len(checks) = Len(pkg.claims)
            /\ \A check \in Package!Range(checks) : check.finding = "SUPPORTED"
  BY Zenon DEF CheckedAssessment, Package!AssessmentComplete, bound, a, checks, pkg
<1>7. QED BY <1>1, <1>2, <1>3, <1>4, <1>5, <1>6

(* What the sources of a session were taken from.                           *)
LEMMA SessionEvidence ==
  ASSUME NEW mode
  PROVE  /\ Evidence(SessionSubject(mode)) = {"sources/guide"}
         /\ {SessionSubject(mode).resource} \cup Evidence(SessionSubject(mode)) = SessionResource
<1>1. SessionSubject(mode).candidate.sources = <<SessionSource>> BY PackageFields, Zenon
<1>2. Range(<<SessionSource>>) = {SessionSource} BY OneItem DEF Range
<1>3. Evidence(SessionSubject(mode)) = {"sources/guide"}
  BY <1>1, <1>2, SourceFields DEF Evidence
<1>4. SessionSubject(mode).resource = "answers/draft" BY SubjectFields, Zenon
<1>5. QED BY <1>3, <1>4 DEF SessionResource

(* A reviewer of the session may read what the review is about.             *)
LEMMA ReviewerMayRead ==
  ASSUME NEW mode \in AccessMode, NEW who \in RequiredReviewers(mode), NEW p,
         p.reviewer = who, p.role = RoleOf(who, mode)
  PROVE  ReviewerReadsEvidence(SessionSubject(mode), p, SessionSnapshot(mode), SessionNow)
<1> DEFINE h == SessionSubject(mode)
           s == SessionSnapshot(mode)
           receipt == ReceiptFor(s, SessionNow)
<1>1. who \in Holders BY DEF AccessMode, RequiredReviewers, Holders
<1>2. Scoped!CheckSnapshot(s, receipt) BY SnapshotValid
<1>3. h.accessMode = mode /\ h.domain = "engineering" BY SubjectFields, Zenon
<1>4. s.principals = PrincipalsOf(mode) /\ s.resources = ResourcesOf(mode)
  BY SnapshotFields, Zenon
<1>5. receipt.now = SessionNow BY DEF ReceiptFor, Scoped!Receipt
<1>6. {h.resource} \cup Evidence(h) = SessionResource BY SessionEvidence, Zenon
<1>7. ClassOf(mode) \in Scoped!Modes[mode].classes /\ ClassOf(mode) # "protected"
  BY ClassInMode
<1>8. \E n \in DOMAIN Scoped!ReviewerRoles[mode] :
        Scoped!ReviewerRoles[mode][n] = RoleOf(who, mode)
  BY DEF AccessMode, RequiredReviewers, RoleOf, Scoped!ReviewerRoles
<1>9. /\ HolderOf(mode, who) \in PrincipalsOf(mode) /\ HolderOf(mode, who).id = who
      /\ RoleOf(who, mode) \in HolderOf(mode, who).roles
      /\ "engineering" \in HolderOf(mode, who).domains
  BY <1>1 DEF PrincipalsOf, HolderOf
<1>10. ASSUME NEW resource \in SessionResource
       PROVE  LET r == Scoped!RequestOf(h, who, resource, "read")
              IN  /\ Scoped!ScopeMatches(r, s) /\ ~Scoped!IsDenied(r, s)
                  /\ Scoped!HasClearance(r, RoleOf(who, mode),
                                         Scoped!ContextFor(r, s, SessionNow))
  <2> DEFINE r == Scoped!RequestOf(h, who, resource, "read")
  <2>1. Scoped!ScopeMatches(r, s) /\ ~Scoped!IsDenied(r, s) BY SessionInScope
  <2>2. InSession(r, mode, who, resource, "read") BY SessionRequest, Zenon
  <2>3. Scoped!HasClearance(r, RoleOf(who, mode), SessionPolicy(mode)) BY <1>1, HolderCleared
  <2> HIDE DEF r, h, s
  <2>4. Scoped!ContextFor(r, s, SessionNow) = SessionPolicy(mode)
    BY <2>2, SessionContextFor DEF InSession, s
  <2>5. QED BY <2>1, <2>3, <2>4 DEF r
<1>11. ASSUME NEW resource \in SessionResource
       PROVE  \E x \in ResourcesOf(mode) :
                /\ x.id = resource /\ x.domain = "engineering" /\ x.classification # "protected"
                /\ x.classification \in Scoped!Modes[mode].classes
  <2>1. /\ ResourceOf(mode, resource).id = resource
        /\ ResourceOf(mode, resource).domain = "engineering"
        /\ ResourceOf(mode, resource).classification = ClassOf(mode)
    BY DEF ResourceOf
  <2>2. QED BY <2>1, <1>7 DEF ResourcesOf
<1> HIDE DEF h, s, receipt
<1>12. Scoped!ReviewerCanReadSources(h, p, SessionResource, s, receipt)
  BY <1>2, <1>3, <1>4, <1>5, <1>8, <1>9, <1>10, <1>11 DEF Scoped!ReviewerCanReadSources
<1>13. ReviewerReadsEvidence(h, p, s, SessionNow)
  BY <1>6, <1>12, Zenon DEF ReviewerReadsEvidence, receipt
<1>14. QED BY <1>13 DEF h, s

(* Reviewers: one turn of the loop over the roles of a mode, and what the   *)
(* loop computes in one turn or two.                                        *)
Turn(role, subject, records, chosen, context) ==
  Scoped!FirstReviewer(records,
    {i \in DOMAIN records :
       Scoped!Qualifies(records[i], role, subject, {chosen[n] : n \in DOMAIN chosen}, context)})

IsLoop(f, subject, records, context) ==
  LET roles == Scoped!ReviewerRoles[subject.accessMode]
  IN  f = [n \in 0..Len(roles) |->
             IF n = 0 THEN <<>>
             ELSE Append(f[n - 1], Turn(roles[n], subject, records, f[n - 1], context))]

LEMMA ReviewersLoop ==
  ASSUME NEW subject, NEW records, NEW context
  PROVE  Scoped!Reviewers(subject, records, context)
           = LET n == Len(Scoped!ReviewerRoles[subject.accessMode])
             IN  (CHOOSE f : IsLoop(f, subject, records, context))[n]
  BY DEF Scoped!Reviewers, IsLoop, Turn

LEMMA AppendedTwice ==
  ASSUME NEW x, NEW y
  PROVE  Append(<<>>, x) = <<x>> /\ Append(<<x>>, y) = <<x, y>>
<1> DEFINE s == Append(<<x>>, y)
<1>1. Append(<<>>, x) = <<x>> OBVIOUS
<1>2. <<x>> \in Seq({x, y}) /\ y \in {x, y} OBVIOUS
<1>3. s \in Seq({x, y}) /\ Len(s) = 2 /\ s[1] = x /\ s[2] = y BY <1>2
<1> HIDE DEF s
<1>4. DOMAIN s = 1..2 /\ s = [i \in 1..2 |-> s[i]] BY <1>3
<1>5. 1..2 = {1, 2} OBVIOUS
<1>6. s = <<s[1], s[2]>> BY <1>4, <1>5
<1>7. QED BY <1>1, <1>3, <1>6 DEF s

TakesTurns(subject, records, context, size, x, y) ==
  LET roles == Scoped!ReviewerRoles[subject.accessMode]
  IN  /\ Len(roles) = size
      /\ Turn(roles[1], subject, records, <<>>, context) = x
      /\ size = 2 => Turn(roles[2], subject, records, <<x>>, context) = y

Chooses(subject, records, context, size, x, y) ==
  LET chosen == Scoped!Reviewers(subject, records, context)
  IN  /\ size = 1 => chosen = <<x>>
      /\ size = 2 => chosen = <<x, y>>

LEMMA LoopTurns ==
  ASSUME NEW subject, NEW records, NEW context, NEW x, NEW y,
         NEW size \in {1, 2}, TakesTurns(subject, records, context, size, x, y)
  PROVE  Chooses(subject, records, context, size, x, y)
<1> DEFINE roles == Scoped!ReviewerRoles[subject.accessMode]
           step(f, n) == Append(f[n - 1], Turn(roles[n], subject, records, f[n - 1], context))
           g == [n \in 0..size |-> IF n = 0 THEN <<>> ELSE IF n = 1 THEN <<x>> ELSE <<x, y>>]
           G == CHOOSE f : IsLoop(f, subject, records, context)
<1>a. /\ Len(roles) = size
      /\ Turn(roles[1], subject, records, <<>>, context) = x
      /\ size = 2 => Turn(roles[2], subject, records, <<x>>, context) = y
  BY Zenon DEF TakesTurns
<1>1. \A f : IsLoop(f, subject, records, context)
               <=> f = [n \in 0..size |-> IF n = 0 THEN <<>> ELSE step(f, n)]
  BY <1>a, Zenon DEF IsLoop
<1>2. Append(<<>>, x) = <<x>> /\ Append(<<x>>, y) = <<x, y>> BY AppendedTwice, Zenon
<1>3. 1 - 1 = 0 /\ 2 - 1 = 1 OBVIOUS
<1>4. ASSUME NEW f, f[0] = <<>> PROVE step(f, 1) = <<x>>
  BY <1>a, <1>2, <1>3, <1>4, Zenon
<1>5. ASSUME NEW f, f[1] = <<x>>, size = 2 PROVE step(f, 2) = <<x, y>>
  BY <1>a, <1>2, <1>3, <1>5, Zenon
<1> HIDE DEF step
<1>6. g[0] = <<>> /\ g[1] = <<x>> /\ (size = 2 => g[2] = <<x, y>>) OBVIOUS
<1>7. IsLoop(g, subject, records, context)
  <2>1. \A n \in 0..size : n = 0 \/ n = 1 \/ (n = 2 /\ size = 2) OBVIOUS
  <2>2. g = [n \in 0..size |-> g[n]] OBVIOUS
  <2> HIDE DEF g
  <2>3. \A n \in 0..size : g[n] = IF n = 0 THEN <<>> ELSE step(g, n)
    BY <1>4, <1>5, <1>6, <2>1
  <2>4. g = [n \in 0..size |-> IF n = 0 THEN <<>> ELSE step(g, n)] BY <2>2, <2>3
  <2>5. QED BY <1>1, <2>4, Zenon
<1>8. IsLoop(G, subject, records, context) BY <1>7, Zenon
<1> HIDE DEF g, G
<1>9. G = [n \in 0..size |-> IF n = 0 THEN <<>> ELSE step(G, n)] BY <1>1, <1>8, Zenon
<1>10. G[0] = <<>> /\ G[1] = step(G, 1) /\ (size = 2 => G[2] = step(G, 2)) BY <1>9
<1>11. G[1] = <<x>> /\ (size = 2 => G[2] = <<x, y>>) BY <1>4, <1>5, <1>10
<1>12. Scoped!Reviewers(subject, records, context) = G[size] BY <1>a, ReviewersLoop, Zenon DEF G
<1>13. QED BY <1>11, <1>12 DEF Chooses

(* find: the reviewer of one of the records, if there is any.               *)
LEMMA FirstReviewerIs ==
  ASSUME NEW records, NEW T \in SUBSET Nat
  PROVE  /\ T = {} => Scoped!FirstReviewer(records, T) = NoOne
         /\ \A who : T # {} /\ (\A i \in T : records[i].reviewer = who)
                       => Scoped!FirstReviewer(records, T) = who
<1>1. T = {} => Scoped!FirstReviewer(records, T) = NoOne BY DEF Scoped!FirstReviewer
<1>2. ASSUME NEW who, T # {}, \A i \in T : records[i].reviewer = who
      PROVE  Scoped!FirstReviewer(records, T) = who
  <2>1. PICK x \in T : \A y \in T : ~(y < x)
    BY <1>2, LeastElement
  <2>2. \A y \in T : x <= y BY <2>1
  <2> DEFINE first == CHOOSE i \in T : \A j \in T : i <= j
  <2>3. first \in T BY <2>2
  <2>4. Scoped!FirstReviewer(records, T) = records[first].reviewer
    BY <1>2 DEF Scoped!FirstReviewer
  <2>5. QED BY <1>2, <2>3, <2>4
<1>3. QED BY <1>1, <1>2
-----------------------------------------------------------------------------
(* The required reviewers of a mode, role by role.                          *)
ReviewerAt(mode, n) ==
  CASE mode = "DEFAULT"    -> "reviewer"
    [] mode = "GOVERNANCE" -> IF n = 1 THEN "reviewer" ELSE "officer"
    [] mode = "ARCHITECT"  -> IF n = 1 THEN "maintainer" ELSE "officer"

LEMMA RequiredInRoles ==
  ASSUME NEW mode \in AccessMode
  PROVE  LET roles == Scoped!ReviewerRoles[mode]
         IN  \E size \in {1, 2} :
               /\ Len(roles) = size
               /\ RequiredReviewers(mode) = {ReviewerAt(mode, n) : n \in 1..size}
               /\ \A n \in 1..size : \A who \in RequiredReviewers(mode) :
                    RoleOf(who, mode) = roles[n] <=> who = ReviewerAt(mode, n)
               /\ size = 2 => ReviewerAt(mode, 1) # ReviewerAt(mode, 2)
<1>1. CASE mode = "DEFAULT"
  <2>1. /\ Scoped!ReviewerRoles[mode] = <<"domain_reviewer">>
        /\ RequiredReviewers(mode) = {"reviewer"} /\ ReviewerAt(mode, 1) = "reviewer"
        /\ RoleOf("reviewer", mode) = "domain_reviewer"
    BY <1>1 DEF Scoped!ReviewerRoles, RequiredReviewers, ReviewerAt, RoleOf
  <2>2. 1..1 = {1} OBVIOUS
  <2>3. QED BY <2>1, <2>2
<1>2. ASSUME mode \in {"GOVERNANCE", "ARCHITECT"}
      PROVE  LET roles == Scoped!ReviewerRoles[mode]
             IN  /\ Len(roles) = 2
                 /\ RequiredReviewers(mode) = {ReviewerAt(mode, n) : n \in 1..2}
                 /\ \A n \in 1..2 : \A who \in RequiredReviewers(mode) :
                      RoleOf(who, mode) = roles[n] <=> who = ReviewerAt(mode, n)
                 /\ ReviewerAt(mode, 1) # ReviewerAt(mode, 2)
  <2> DEFINE roles == Scoped!ReviewerRoles[mode]
             a == ReviewerAt(mode, 1)
             b == ReviewerAt(mode, 2)
  <2>1. /\ Len(roles) = 2 /\ RequiredReviewers(mode) = {a, b} /\ a # b
        /\ RoleOf(a, mode) = roles[1] /\ RoleOf(b, mode) = roles[2] /\ roles[1] # roles[2]
    <3>1. CASE mode = "GOVERNANCE"
      <4>1. roles = <<"domain_reviewer", "governance_officer">> BY <3>1 DEF Scoped!ReviewerRoles
      <4>2. a = "reviewer" /\ b = "officer" BY <3>1 DEF ReviewerAt
      <4>3. RequiredReviewers(mode) = {"reviewer", "officer"}
        BY <3>1 DEF RequiredReviewers
      <4>4. RoleOf("reviewer", mode) = "domain_reviewer" BY <3>1 DEF RoleOf
      <4>5. RoleOf("officer", mode) = "governance_officer" BY <3>1 DEF RoleOf
      <4> HIDE DEF roles, a, b
      <4>6. QED BY <4>1, <4>2, <4>3, <4>4, <4>5
    <3>2. CASE mode = "ARCHITECT"
      <4>1. roles = <<"engineering_maintainer", "governance_officer">> BY <3>2 DEF Scoped!ReviewerRoles
      <4>2. a = "maintainer" /\ b = "officer" BY <3>2 DEF ReviewerAt
      <4>3. RequiredReviewers(mode) = {"maintainer", "officer"}
        BY <3>2 DEF RequiredReviewers
      <4>4. RoleOf("maintainer", mode) = "engineering_maintainer" BY <3>2 DEF RoleOf
      <4>5. RoleOf("officer", mode) = "governance_officer" BY <3>2 DEF RoleOf
      <4> HIDE DEF roles, a, b
      <4>6. QED BY <4>1, <4>2, <4>3, <4>4, <4>5
    <3>3. QED BY <1>2, <3>1, <3>2
  <2>2. 1..2 = {1, 2} OBVIOUS
  <2> HIDE DEF roles
  <2>3. QED BY <2>1, <2>2 DEF roles
<1>3. QED BY <1>1, <1>2 DEF AccessMode

(* The context of a review is that of the session: nothing is denied.       *)
LEMMA SessionReviewContext ==
  ASSUME NEW mode
  PROVE  Scoped!ReviewContext(SessionSubject(mode), SessionSnapshot(mode), SessionNow)
           = SessionPolicy(mode)
<1> DEFINE h == SessionSubject(mode)
           s == SessionSnapshot(mode)
           r == Scoped!ReleaseRequest(h, h.requester)
           context == SessionPolicy(mode)
           kept == {c \in context.clearances :
                      ~Scoped!IsDenied(Scoped!ReleaseRequest(h, c.subject), s)}
<1>1. InSession(r, mode, h.requester, h.resource, "review_release")
  BY SessionRequest, Zenon DEF Scoped!ReleaseRequest
<1>2. Scoped!ContextFor(r, s, SessionNow) = context
  <2> HIDE DEF r, context
  <2>1. QED BY <1>1, SessionContextFor DEF InSession, context
<1>3. \A who : ~Scoped!IsDenied(Scoped!ReleaseRequest(h, who), s)
  BY SessionInScope DEF Scoped!ReleaseRequest
<1>4. context = [context EXCEPT !.clearances = context.clearances] BY DEF SessionPolicy
<1> HIDE DEF h, s, r, context
<1>5. kept = context.clearances BY <1>3
<1>6. Scoped!ReviewContext(h, s, SessionNow)
        = [Scoped!ContextFor(r, s, SessionNow) EXCEPT
             !.clearances = {c \in Scoped!ContextFor(r, s, SessionNow).clearances :
                               ~Scoped!IsDenied(Scoped!ReleaseRequest(h, c.subject), s)}]
  BY DEF Scoped!ReviewContext, r
<1>7. Scoped!ReviewContext(h, s, SessionNow) = [context EXCEPT !.clearances = kept]
  BY <1>2, <1>6, Zenon
<1>8. QED BY <1>4, <1>5, <1>7 DEF h, s, context

(* A positive assessment qualifies for its reviewer's role.                 *)
LEMMA PositiveQualifies ==
  ASSUME NEW mode \in AccessMode, NEW who \in RequiredReviewers(mode), NEW p,
         IsAssessment(p, mode, who, "APPROVE", "SUPPORTED"), NEW role, NEW taken
  PROVE  Scoped!Qualifies(p, role, SessionSubject(mode), taken, SessionPolicy(mode))
           <=> RoleOf(who, mode) = role /\ who \notin taken
<1> DEFINE h == SessionSubject(mode)
           context == SessionPolicy(mode)
<1>1. /\ p.reviewer = who /\ p.role = RoleOf(who, mode) /\ p.subjectHash = h
      /\ p.decision = "APPROVE" /\ p.evidence = "VERIFIED" /\ p.authorityClaims = "CLEARED"
      /\ p.outputChecks = "PASS" /\ p.revoked = FALSE
      /\ p.reviewedAt = SessionNow /\ p.expiresAt = SessionNow + 5
  BY DEF IsAssessment
<1>2. context.now = SessionNow /\ context.principals = PrincipalsOf(mode) BY DEF SessionPolicy
<1>3. who \in Holders /\ who # "alice" /\ who # "model"
  BY DEF AccessMode, RequiredReviewers, Holders
<1>4. h.requester = "alice" /\ h.producer = "model" /\ h.domain = "engineering"
  BY SubjectFields, Zenon
<1>5. h.resource \in SessionResource
  <2>1. h.resource = "answers/draft" BY SubjectFields, Zenon
  <2>2. QED BY <2>1 DEF SessionResource
<1>6. Scoped!HasClearance(Scoped!ReleaseRequest(h, who), RoleOf(who, mode), context)
  BY <1>3, <1>5, HolderCleared DEF Scoped!ReleaseRequest
<1>7. /\ HolderOf(mode, who) \in PrincipalsOf(mode) /\ HolderOf(mode, who).id = who
      /\ RoleOf(who, mode) \in HolderOf(mode, who).roles
      /\ "engineering" \in HolderOf(mode, who).domains
  BY <1>3 DEF PrincipalsOf, HolderOf
<1>8. p.reviewedAt <= context.now /\ context.now < p.expiresAt BY <1>1, <1>2 DEF SessionNow
<1> HIDE DEF h, context
<1>9. Scoped!Qualifies(p, role, h, taken, context) <=> RoleOf(who, mode) = role /\ who \notin taken
  BY <1>1, <1>2, <1>3, <1>4, <1>6, <1>7, <1>8 DEF Scoped!Qualifies
<1>10. QED BY <1>9 DEF h, context

(* The elements of a finite set in some order, each of them once.           *)
LEMMA ListedOnce ==
  ASSUME NEW S, IsFiniteSet(S)
  PROVE  LET s == SetToSeq(S)
         IN  /\ DOMAIN s \subseteq Nat /\ \A i \in DOMAIN s : s[i] \in S
             /\ \A x \in S : \E i \in DOMAIN s : s[i] = x
             /\ \A i, j \in DOMAIN s : s[i] = s[j] => i = j
<1> DEFINE size == Cardinality(S)
           s == SetToSeq(S)
<1>1. size \in Nat /\ ExistsBijection(1..size, S) BY FS_CardinalityType
<1> HIDE DEF size
<1>2. \E f \in [1..size -> S] : IsInjective(f)
  <2>1. PICK f : f \in Bijection(1..size, S) BY <1>1 DEF ExistsBijection
  <2>2. f \in [1..size -> S] /\ IsInjective(f) BY <2>1 DEF Bijection, Injection, IsInjective
  <2>3. QED BY <2>2
<1>3. s \in [1..size -> S] /\ IsInjective(s)
  <2>1. s = CHOOSE f \in [1..size -> S] : IsInjective(f) BY DEF SetToSeq, size
  <2> HIDE DEF s
  <2>2. QED BY <1>2, <2>1
<1> HIDE DEF s
<1>4. \A i, j \in 1..size : s[i] = s[j] => i = j BY <1>3 DEF IsInjective
<1>5. s \in Injection(1..size, S)
  BY <1>3, <1>4 DEF Injection, IsInjective
<1>6. Cardinality(1..size) = size
  <2>1. Cardinality(1..size) = IF 1 > size THEN 0 ELSE size - 1 + 1 BY <1>1, FS_Interval
  <2>2. QED BY <1>1, <2>1
<1>7. s \in Surjection(1..size, S) BY <1>5, <1>6, FS_Injection DEF size
<1>8. \A x \in S : \E i \in 1..size : s[i] = x BY <1>7 DEF Surjection
<1>9. DOMAIN s = 1..size /\ 1..size \subseteq Nat BY <1>1, <1>3
<1>10. QED BY <1>3, <1>4, <1>8, <1>9 DEF s

(* The reviewers the loop finds among positive assessments.                 *)
Found(mode, has, n) == IF ReviewerAt(mode, n) \in has THEN ReviewerAt(mode, n) ELSE NoOne

LEMMA SessionTurn ==
  ASSUME NEW mode \in AccessMode, NEW has \in SUBSET RequiredReviewers(mode),
         NEW records, DOMAIN records \subseteq Nat,
         \A i \in DOMAIN records : \E who \in has :
           IsAssessment(records[i], mode, who, "APPROVE", "SUPPORTED"),
         \A who \in has : \E i \in DOMAIN records :
           IsAssessment(records[i], mode, who, "APPROVE", "SUPPORTED"),
         NEW n, ReviewerAt(mode, n) \in RequiredReviewers(mode), NEW role,
         \A who \in RequiredReviewers(mode) :
           RoleOf(who, mode) = role <=> who = ReviewerAt(mode, n),
         NEW chosen, \A m \in DOMAIN chosen : chosen[m] # ReviewerAt(mode, n)
  PROVE  Turn(role, SessionSubject(mode), records, chosen, SessionPolicy(mode))
           = Found(mode, has, n)
<1> DEFINE h == SessionSubject(mode)
           context == SessionPolicy(mode)
           who == ReviewerAt(mode, n)
           taken == {chosen[m] : m \in DOMAIN chosen}
           T == {i \in DOMAIN records : Scoped!Qualifies(records[i], role, h, taken, context)}
<1>1. who \notin taken OBVIOUS
<1>2. ASSUME NEW i \in DOMAIN records, NEW w \in has,
             IsAssessment(records[i], mode, w, "APPROVE", "SUPPORTED")
      PROVE  (i \in T <=> w = who) /\ records[i].reviewer = w
  <2>1. Scoped!Qualifies(records[i], role, h, taken, context)
          <=> RoleOf(w, mode) = role /\ w \notin taken
    BY <1>2, PositiveQualifies
  <2>2. RoleOf(w, mode) = role <=> w = who OBVIOUS
  <2>3. records[i].reviewer = w BY <1>2 DEF IsAssessment
  <2> HIDE DEF taken, h, context, who
  <2>4. QED BY <1>1, <2>1, <2>2, <2>3
<1> HIDE DEF T, who
<1>3. T \in SUBSET Nat BY DEF T
<1>4. \A i \in T : i \in DOMAIN records BY DEF T
<1>5. \A i \in T : records[i].reviewer = who BY <1>2, <1>4
<1>6. T # {} <=> who \in has BY <1>2, <1>4
<1>7. Turn(role, h, records, chosen, context) = Scoped!FirstReviewer(records, T)
  BY Zenon DEF Turn, T
<1>8. /\ T = {} => Scoped!FirstReviewer(records, T) = NoOne
      /\ T # {} => Scoped!FirstReviewer(records, T) = who
  BY <1>3, <1>5, FirstReviewerIs
<1>9. Found(mode, has, n) = IF who \in has THEN who ELSE NoOne BY DEF Found, who
<1>10. QED BY <1>6, <1>7, <1>8, <1>9

(* No role is left without a reviewer exactly if everybody is there.        *)
LEMMA SessionReviewers ==
  ASSUME NEW mode \in AccessMode, NEW has \in SUBSET RequiredReviewers(mode),
         NEW records, DOMAIN records \subseteq Nat,
         \A i \in DOMAIN records : \E who \in has :
           IsAssessment(records[i], mode, who, "APPROVE", "SUPPORTED"),
         \A who \in has : \E i \in DOMAIN records :
           IsAssessment(records[i], mode, who, "APPROVE", "SUPPORTED"),
         NEW chosen,
         chosen = Scoped!Reviewers(SessionSubject(mode), records, SessionPolicy(mode))
  PROVE  (\E n \in DOMAIN chosen : chosen[n] = NoOne) <=> has # RequiredReviewers(mode)
<1> DEFINE h == SessionSubject(mode)
           context == SessionPolicy(mode)
           roles == Scoped!ReviewerRoles[mode]
           R == RequiredReviewers(mode)
           x == Found(mode, has, 1)
           y == Found(mode, has, 2)
<1>1. h.accessMode = mode BY SubjectFields, Zenon
<1>2. PICK size \in {1, 2} :
        /\ Len(roles) = size /\ R = {ReviewerAt(mode, n) : n \in 1..size}
        /\ \A n \in 1..size : \A who \in R :
             RoleOf(who, mode) = roles[n] <=> who = ReviewerAt(mode, n)
        /\ size = 2 => ReviewerAt(mode, 1) # ReviewerAt(mode, 2)
  BY RequiredInRoles
<1>3. 1 \in 1..size /\ (size = 2 => 2 \in 1..size) OBVIOUS
<1>4. NoOne \notin R
  <2>1. R \subseteq Holders BY DEF AccessMode, RequiredReviewers, Holders
  <2>2. QED BY <2>1, SessionAnswerAssumption
<1>5. ReviewerAt(mode, 1) \in R /\ (size = 2 => ReviewerAt(mode, 2) \in R) BY <1>2, <1>3
<1>6. Turn(roles[1], h, records, <<>>, context) = x
  <2> DEFINE none == <<>>
  <2>1. \A m \in DOMAIN none : none[m] # ReviewerAt(mode, 1) OBVIOUS
  <2>2. \A who \in R : RoleOf(who, mode) = roles[1] <=> who = ReviewerAt(mode, 1) BY <1>2, <1>3
  <2> HIDE DEF roles, none
  <2>3. ReviewerAt(mode, 1) \in R BY <1>5
  <2>4. Turn(roles[1], h, records, none, context) = x
    BY <2>1, <2>2, <2>3, SessionTurn
  <2>5. QED BY <2>4 DEF none
<1>7. ASSUME size = 2 PROVE Turn(roles[2], h, records, <<x>>, context) = y
  <2>1. x # ReviewerAt(mode, 2) BY <1>2, <1>4, <1>5, <1>7 DEF Found
  <2> HIDE DEF h, context, x, y, roles, R
  <2>2. \A m \in DOMAIN <<x>> : <<x>>[m] # ReviewerAt(mode, 2) BY <2>1
  <2>3. QED BY <1>2, <1>3, <1>5, <1>7, <2>2, SessionTurn DEF h, context, y, R
<1> HIDE DEF h, context, x, y, roles
<1>8. (size = 1 => chosen = <<x>>) /\ (size = 2 => chosen = <<x, y>>)
  <2>1. TakesTurns(h, records, context, size, x, y)
    BY <1>1, <1>2, <1>6, <1>7, Zenon DEF TakesTurns, roles
  <2>2. Chooses(h, records, context, size, x, y) BY <2>1, LoopTurns
  <2>3. QED BY <2>2 DEF Chooses, h, context
<1>9. /\ x = NoOne <=> ReviewerAt(mode, 1) \notin has
      /\ size = 2 => (y = NoOne <=> ReviewerAt(mode, 2) \notin has)
  BY <1>4, <1>5 DEF x, y, Found
<1>10. CASE size = 1
  <2>1. chosen = <<x>> /\ R = {ReviewerAt(mode, 1)}
    <3>1. 1..1 = {1} OBVIOUS
    <3>2. QED BY <1>2, <1>8, <1>10, <3>1
  <2>2. (\E n \in DOMAIN chosen : chosen[n] = NoOne) <=> x = NoOne BY <2>1
  <2>3. QED BY <1>9, <2>1, <2>2
<1>11. CASE size = 2
  <2>1. chosen = <<x, y>> /\ R = {ReviewerAt(mode, 1), ReviewerAt(mode, 2)}
    <3>1. 1..2 = {1, 2} OBVIOUS
    <3>2. QED BY <1>2, <1>8, <1>11, <3>1
  <2>2. (\E n \in DOMAIN chosen : chosen[n] = NoOne) <=> x = NoOne \/ y = NoOne BY <2>1
  <2>3. QED BY <1>9, <1>11, <2>1, <2>2
<1>12. QED BY <1>2, <1>10, <1>11

(* checkScopedReview of positive assessments: complete when everybody whose *)
(* review is required has given one, and never rejected.                    *)
LEMMA ReviewDecided ==
  ASSUME NEW mode \in AccessMode, NEW has \in SUBSET RequiredReviewers(mode),
         NEW record, \A who \in has : IsAssessment(record[who], mode, who, "APPROVE", "SUPPORTED")
  PROVE  CheckedReview(SessionSubject(mode), {record[who] : who \in has}, SessionSnapshot(mode),
                       SessionNow)
           = IF has = RequiredReviewers(mode) THEN "OK" ELSE "QUALIFIED_REVIEW_REQUIRED"
<1> DEFINE h == SessionSubject(mode)
           s == SessionSnapshot(mode)
           receipt == ReceiptFor(s, SessionNow)
           context == SessionPolicy(mode)
           E == {record[who] : who \in has}
           records == SetToSeq(E)
           request == Scoped!ReleaseRequest(h, h.requester)
           chosen == Scoped!Reviewers(h, records, context)
<1>1. IsFiniteSet(E)
  <2>1. \E x, y : RequiredReviewers(mode) \subseteq {x, y}
    BY DEF AccessMode, RequiredReviewers
  <2>2. PICK x, y : has \subseteq {x, y} BY <2>1
  <2>3. E \subseteq {record[x]} \cup {record[y]} BY <2>2
  <2> DEFINE a == record[x]
             b == record[y]
  <2> HIDE DEF a, b
  <2>4. IsFiniteSet({a} \cup {b})
    <3>1. IsFiniteSet({a}) BY FS_Singleton
    <3>2. QED BY <3>1, FS_AddElement
  <2> HIDE DEF E
  <2>5. QED BY <2>3, <2>4, FS_Subset DEF a, b
<1> HIDE DEF E
<1>2. /\ DOMAIN records \subseteq Nat /\ \A i \in DOMAIN records : records[i] \in E
      /\ \A p \in E : \E i \in DOMAIN records : records[i] = p
      /\ \A i, j \in DOMAIN records : records[i] = records[j] => i = j
  BY <1>1, ListedOnce, Zenon
<1> HIDE DEF records
<1>3. \A i \in DOMAIN records : \E who \in has :
        records[i] = record[who] /\ IsAssessment(records[i], mode, who, "APPROVE", "SUPPORTED")
  BY <1>2 DEF E
<1>4. \A who \in has : \E i \in DOMAIN records :
        IsAssessment(records[i], mode, who, "APPROVE", "SUPPORTED")
  BY <1>2 DEF E
<1>5. (\E n \in DOMAIN chosen : chosen[n] = NoOne) <=> has # RequiredReviewers(mode)
  <2> HIDE DEF chosen
  <2>1. \A i \in DOMAIN records : \E who \in has :
          IsAssessment(records[i], mode, who, "APPROVE", "SUPPORTED")
    BY <1>3
  <2>2. chosen = Scoped!Reviewers(SessionSubject(mode), records, SessionPolicy(mode))
    BY DEF chosen
  <2>3. DOMAIN records \subseteq Nat BY <1>2
  <2>4. QED BY <1>4, <2>1, <2>2, <2>3, SessionReviewers
<1>6. /\ h.wellFormed = TRUE /\ h.accessMode = mode /\ h.domain = "engineering"
      /\ h.resource = "answers/draft" /\ h.audience = {"alice"}
      /\ h.policyVersion = PolicyVersion
  BY SubjectFields, Zenon
<1>7. "answers/draft" \in SessionResource BY DEF SessionResource
<1>8. Scoped!CheckSnapshot(s, receipt) BY SnapshotValid
<1>9. Scoped!AudienceReads(h, h.resource, s, receipt) BY <1>6, <1>7, AudienceMayRead
<1>10. Scoped!ScopeMatches(request, s) /\ ~Scoped!IsDenied(request, s)
  BY <1>6, <1>7, SessionInScope DEF Scoped!ReleaseRequest
<1>11. Scoped!ReviewContext(h, s, receipt.now) = context
  <2>1. receipt.now = SessionNow BY DEF ReceiptFor, Scoped!Receipt
  <2>2. QED BY <2>1, SessionReviewContext, Zenon
<1>12. /\ context.principals = PrincipalsOf(mode) /\ context.resources = ResourcesOf(mode)
       /\ context.clearances = ClearancesOf(mode)
  BY DEF SessionPolicy
<1>13. /\ Scoped!UniqueIds(PrincipalsOf(mode)) /\ Scoped!UniqueIds(ResourcesOf(mode))
       /\ Scoped!UniqueIds(ClearancesOf(mode))
  BY SnapshotUnique, SnapshotFields
<1> HIDE DEF h, s, receipt, context, request, chosen
<1>14. Scoped!SimulateReleaseReview(h, records, context)
         = IF has = RequiredReviewers(mode) THEN "OK" ELSE "QUALIFIED_REVIEW_REQUIRED"
  <2> DEFINE resources == {x \in context.resources : x.id = h.resource}
             twice == ~(/\ Scoped!UniqueIds(context.principals)
                        /\ Scoped!UniqueIds(context.resources)
                        /\ Scoped!UniqueIds(context.clearances))
             again == \E i, j \in DOMAIN records : i # j /\ records[i].id = records[j].id
             outside == \E x \in resources :
                          \/ x.classification = "protected" \/ x.domain # h.domain
                          \/ x.classification \notin Scoped!Modes[h.accessMode].classes
             rejected == \E i \in DOMAIN records :
                           records[i].subjectHash = h /\ records[i].decision = "REJECT"
             missing == \E n \in DOMAIN chosen : chosen[n] = NoOne
  <2>1. ~twice BY <1>12, <1>13
  <2>2. ~again
    <3>1. \A i \in DOMAIN records : \E who \in has :
            records[i] = record[who] /\ records[i].id = <<who, "record">>
      BY <1>3 DEF IsAssessment, RecordIdOf
    <3>2. \A x, y : <<x, "record">> = <<y, "record">> => x = y OBVIOUS
    <3>3. QED BY <1>2, <3>1, <3>2
  <2>3. resources = {ResourceOf(mode, "answers/draft")} BY <1>6, <1>7, <1>12, NamedInSession
  <2>4. ~outside
    <3>1. /\ ResourceOf(mode, "answers/draft").domain = "engineering"
          /\ ResourceOf(mode, "answers/draft").classification = ClassOf(mode)
      BY DEF ResourceOf
    <3>2. QED BY <1>6, <2>3, <3>1, ClassInMode
  <2>5. ~rejected BY <1>3 DEF IsAssessment
  <2>6. h.accessMode \in DOMAIN Scoped!ReviewerRoles BY <1>6 DEF AccessMode, Scoped!ReviewerRoles
  <2>7. resources # {} BY <2>3
  <2> HIDE DEF resources, twice, again, outside, rejected
  <2>8. Scoped!SimulateReleaseReview(h, records, context)
          = IF \/ h.accessMode \notin DOMAIN Scoped!ReviewerRoles
               \/ h.policyVersion # PolicyVersion \/ twice \/ again \/ h.audience = {}
            THEN "INVALID_CONTEXT"
            ELSE IF resources = {} \/ outside THEN "RESOURCE_DENIED"
            ELSE IF rejected THEN "REVIEW_REJECTED"
            ELSE IF missing THEN "QUALIFIED_REVIEW_REQUIRED"
            ELSE "OK"
    BY Zenon DEF Scoped!SimulateReleaseReview, resources, twice, again, outside, rejected, chosen
  <2> HIDE DEF missing
  <2>9. missing <=> has # RequiredReviewers(mode) BY <1>5 DEF missing
  <2>10. QED BY <1>6, <2>1, <2>2, <2>4, <2>5, <2>6, <2>7, <2>8, <2>9
<1>15. CheckedReview(h, E, s, SessionNow)
         = Scoped!CheckScopedReview(h, records, s, receipt)
  BY Zenon DEF CheckedReview, records, receipt
<1>16. Scoped!CheckScopedReview(h, records, s, receipt)
         = Scoped!SimulateReleaseReview(h, records, context)
  BY <1>6, <1>8, <1>9, <1>10, <1>11 DEF Scoped!CheckScopedReview, request
<1>17. QED BY <1>14, <1>15, <1>16 DEF h, s, E

(* What the boundary of a session says about its package and its audience.  *)
LEMMA SessionPackage ==
  ASSUME NEW mode \in SessionMode
  PROVE  /\ CandidateReason(SessionSubject(mode), SessionContext, SessionNow) = "OK"
         /\ AudienceReadsSources(SessionSubject(mode), SessionSnapshot(mode), SessionNow)
<1> DEFINE h == SessionSubject(mode)
           s == SessionSnapshot(mode)
<1>1. mode \in AccessMode BY WorkbenchAssumption
<1>2. /\ CandidateReason(h, SessionContext, SessionNow) = CheckedPackage(h, SessionContext, SessionNow)
      /\ AudienceReadsSources(h, s, SessionNow) = AudienceReadsEvidence(h, s, SessionNow)
  BY SessionChecksAssumption, Zenon
<1>3. CheckedPackage(h, SessionContext, SessionNow) = "OK" BY PackagePasses
<1>4. AudienceReadsEvidence(h, s, SessionNow)
  <2>1. \A resource \in Evidence(h) : resource \in SessionResource
    BY SessionEvidence DEF SessionResource
  <2>2. QED BY <1>1, <2>1, AudienceMayRead, Zenon DEF AudienceReadsEvidence
<1>5. QED BY <1>2, <1>3, <1>4

(* Whatever a reviewer of a session fills in is about its package.          *)
LEMMA SessionBinding ==
  ASSUME NEW mode \in SessionMode, NEW who \in RequiredReviewers(mode), NEW form \in Forms
  PROVE  BindingReason(SessionSubject(mode), Payload(mode, who, form)) = "OK"
<1> DEFINE p == Payload(mode, who, form)
<1>1. BindingReason(SessionSubject(mode), p) = CheckedBinding(SessionSubject(mode), p)
  BY SessionChecksAssumption, Zenon
<1>2. PICK finding : IsAssessment(p, mode, who, form.decision, finding) BY PayloadIsAssessment
<1> HIDE DEF p
<1>3. CheckedBinding(SessionSubject(mode), p) = "OK" BY <1>2, AssessmentBound
<1>4. QED BY <1>1, <1>3 DEF p

(* state, line 77 of workbench.ts: what the check of the candidate's review  *)
(* makes of the records: they are never rejected while nobody rejects, and   *)
(* complete when everybody who must review has given what the page calls a   *)
(* positive assessment.                                                      *)
THEOREM SessionStanding ==
  ASSUME NEW mode \in SessionMode, NEW reviewers \in SUBSET RequiredReviewers(mode),
         NEW given \in [RequiredReviewers(mode) -> {form \in Forms : form.decision # "REJECT"}]
  PROVE  LET code == Standing(mode, {Payload(mode, who, given[who]) : who \in reviewers})
         IN  /\ code # "REVIEW_REJECTED"
             /\ code = "OK" <=>
                  /\ reviewers = RequiredReviewers(mode)
                  /\ \A who \in reviewers : Qualified(Payload(mode, who, given[who]))
<1> DEFINE R == RequiredReviewers(mode)
           h == SessionSubject(mode)
           s == SessionSnapshot(mode)
           P(who) == Payload(mode, who, given[who])
           good(r) == CompleteAssessment(h, r) /\ ReviewerReadsSources(h, r, s, SessionNow)
           has == {who \in reviewers : Qualified(P(who))}
           eligible == {r \in {P(who) : who \in reviewers} : good(r)}
           record == [who \in has |-> P(who)]
           code == Standing(mode, {P(who) : who \in reviewers})
<1>1. mode \in AccessMode BY WorkbenchAssumption
<1>2. \A who \in R : given[who] \in Forms OBVIOUS
<1>3. given \in [R -> Forms] OBVIOUS
<1>4. ASSUME NEW who \in R
      PROVE  /\ \E finding : IsAssessment(P(who), mode, who, given[who].decision, finding)
             /\ Qualified(P(who)) => IsAssessment(P(who), mode, who, "APPROVE", "SUPPORTED")
             /\ good(P(who)) <=> Qualified(P(who))
  <2>1. PICK finding : IsAssessment(P(who), mode, who, given[who].decision, finding)
    BY <1>2, PayloadIsAssessment
  <2>2. /\ CompleteAssessment(h, P(who)) = CheckedAssessment(h, P(who))
        /\ ReviewerReadsSources(h, P(who), s, SessionNow)
             = ReviewerReadsEvidence(h, P(who), s, SessionNow)
    BY <1>2, SessionChecksAssumption, Zenon
  <2> HIDE DEF P
  <2>3. /\ Qualified(P(who)) <=> given[who].decision = "APPROVE" /\ finding = "SUPPORTED"
        /\ CheckedAssessment(h, P(who)) <=> Qualified(P(who))
    BY <2>1, AssessmentJudged
  <2>4. P(who).reviewer = who /\ P(who).role = RoleOf(who, mode) BY <2>1 DEF IsAssessment
  <2>5. ReviewerReadsEvidence(h, P(who), s, SessionNow)
    BY <1>1, <2>4, ReviewerMayRead
  <2> HIDE DEF h, s
  <2>6. good(P(who)) <=> Qualified(P(who)) BY <2>2, <2>3, <2>5
  <2>7. QED BY <2>1, <2>3, <2>6
<1>5. eligible = {P(who) : who \in has}
  <2> HIDE DEF P, good
  <2>1. QED BY <1>4
<1>6. has \in SUBSET R OBVIOUS
<1>7. code = ScopedReview(h, eligible, s, SessionNow) BY Zenon DEF Standing
<1>8. ScopedReview(h, {P(who) : who \in has}, s, SessionNow)
        = CheckedReview(h, {P(who) : who \in has}, s, SessionNow)
  <2> HIDE DEF has
  <2>1. QED BY <1>3, <1>6, SessionChecksAssumption, Zenon
<1>9. \A who \in has : IsAssessment(record[who], mode, who, "APPROVE", "SUPPORTED")
  <2> HIDE DEF P
  <2>1. QED BY <1>4
<1>10. {record[who] : who \in has} = {P(who) : who \in has}
  <2> HIDE DEF has, P
  <2>1. QED OBVIOUS
<1> HIDE DEF record
<1>11. CheckedReview(h, {record[who] : who \in has}, s, SessionNow)
         = IF has = R THEN "OK" ELSE "QUALIFIED_REVIEW_REQUIRED"
  <2> HIDE DEF has
  <2>1. QED BY <1>1, <1>6, <1>9, ReviewDecided
<1>12. has = R <=> reviewers = R /\ \A who \in reviewers : Qualified(P(who))
  <2> HIDE DEF P
  <2>1. QED OBVIOUS
<1> DEFINE answered == {P(who) : who \in has}
<1> HIDE DEF P, has, eligible, h, s
<1>13. code = IF has = R THEN "OK" ELSE "QUALIFIED_REVIEW_REQUIRED"
  BY <1>5, <1>7, <1>8, <1>10, <1>11
<1> HIDE DEF code
<1>14. /\ code # "REVIEW_REJECTED"
       /\ code = "OK" <=> reviewers = R /\ \A who \in reviewers : Qualified(P(who))
  BY <1>12, <1>13
<1>15. QED BY <1>14 DEF code, P
-----------------------------------------------------------------------------
(* A verification moves one stream and the clock of the verifier.           *)
LEMMA VerifiedMoves ==
  ASSUME NEW v \in VerifierState, NEW a \in Artifact, NEW now \in Int
  PROVE  /\ Verified(v, a, now) \in VerifierState
         /\ Verified(v, a, now).revokedKeys = v.revokedKeys
         /\ Verified(v, a, now).revokedArtifacts = v.revokedArtifacts
         /\ Verified(v, a, now).lastTime = now
         /\ Verified(v, a, now).latest = [v.latest EXCEPT ![Stream(a)] = a]
<1>1. Stream(a) \in Streams BY DEF Streams
<1>2. QED BY <1>1 DEF Verified, VerifierState

(* The snapshot of a session is always accepted again.                      *)
LEMMA SnapshotApplied ==
  ASSUME NEW mode \in SessionMode, NEW p, Fresh(mode, p)
  PROVE  LET ev == SnapshotEvent(mode)
             q  == Applied(p, ev)
         IN  /\ ApplyCode(p, ev) = "OK"
             /\ Fresh(mode, q)
             /\ q.verifier.latest = [p.verifier.latest EXCEPT
                                       ![Stream(SignedSnapshot(mode))] = SignedSnapshot(mode)]
             /\ q.reviews = p.reviews /\ q.rejected = p.rejected /\ q.owners = p.owners
<1> DEFINE ev == SnapshotEvent(mode)
           a == SignedSnapshot(mode)
           v == p.verifier
           w == Verified(v, a, SessionNow)
           q == Applied(p, ev)
<1>1. /\ IsSnapshot(ev) /\ ~IsReview(ev) /\ ev.now = SessionNow /\ ev.artifact = a
      /\ ev.subjectHash = None
  BY SnapshotEventShape
<1>2. a \in Artifact BY SessionArtifacts
<1>3. v \in VerifierState /\ p.now \in Int /\ p.now <= SessionNow /\ Unrevoked(v)
  BY DEF Fresh, Projection
<1>4. VerifyCode(v, a, "snapshot", SessionNow, None) = "OK"
  <2>1. v.lastTime \in Int /\ v.latest[Stream(a)] \in {None, a}
    BY <1>3 DEF VerifierState, Fresh
  <2>2. QED BY <1>3, <2>1, SnapshotVerifies
<1> HIDE DEF ev, a
<1>5. ApplyCode(p, ev) = "OK"
  <2>1. ~(SessionNow < 0 \/ SessionNow < p.now) BY <1>3 DEF SessionNow
  <2>2. SnapshotCode(p, ev) = "OK" BY <1>1, <1>4 DEF SnapshotCode
  <2>3. QED BY <1>1, <2>1, <2>2 DEF ApplyCode
<1>6. SessionNow \in Int /\ SessionNow <= SessionNow BY DEF SessionNow
<1>7. /\ w \in VerifierState /\ w.revokedKeys = v.revokedKeys
      /\ w.revokedArtifacts = v.revokedArtifacts /\ w.lastTime = SessionNow
      /\ w.latest = [v.latest EXCEPT ![Stream(a)] = a]
  BY <1>2, <1>3, <1>6, VerifiedMoves
<1>8. q = [p EXCEPT !.verifier = w, !.now = SessionNow] BY <1>1 DEF Applied, ApplySnapshot
<1> HIDE DEF w, v, q
<1>9. /\ q \in Projection /\ q.verifier = w /\ q.now = SessionNow
      /\ q.reviews = p.reviews /\ q.rejected = p.rejected /\ q.owners = p.owners
  <2>1. p \in Projection BY DEF Fresh
  <2>2. QED BY <1>6, <1>7, <1>8, <2>1 DEF Projection
<1>10. Unrevoked(w) BY <1>3, <1>6, <1>7 DEF Unrevoked
<1>11. w.latest[Stream(a)] = a
  <2>1. Stream(a) \in Streams BY <1>2 DEF Streams
  <2>2. v.latest \in [Streams -> Artifact \cup {None}] BY <1>3 DEF VerifierState
  <2>3. QED BY <1>7, <2>1, <2>2
<1>12. Fresh(mode, q) BY <1>6, <1>9, <1>10, <1>11 DEF Fresh, a
<1>13. QED BY <1>5, <1>7, <1>9, <1>12 DEF ev, a, w, v, q

(* What an assessment changes in the projection of a session.               *)
ReviewTaken(mode, p, q, a, form) ==
  /\ Fresh(mode, q)
  /\ q.verifier.latest = [p.verifier.latest EXCEPT ![Stream(a)] = a]
  /\ q.reviews = [p.reviews EXCEPT ![a.artifact_id] = a]
  /\ q.rejected = IF form.decision = "REJECT" THEN p.rejected \cup {SessionSubject(mode)}
                                              ELSE p.rejected
  /\ q.owners = p.owners \cup {Owner(a)}

(* An assessment is accepted when its revision and its owner are in order.  *)
LEMMA ReviewApplied ==
  ASSUME NEW mode \in SessionMode, NEW p, Fresh(mode, p),
         NEW who \in RequiredReviewers(mode), NEW revision \in 1..MaxRequests,
         NEW form \in Forms,
         RevisionCode(p.verifier, ReviewFrom(mode, who, revision, form)) = "OK",
         ~IdentityConflict(p, ReviewFrom(mode, who, revision, form))
  PROVE  /\ ApplyCode(p, ReviewEvent(mode, who, revision, form)) = "OK"
         /\ ReviewTaken(mode, p, Applied(p, ReviewEvent(mode, who, revision, form)),
                        ReviewFrom(mode, who, revision, form), form)
<1> DEFINE ev == ReviewEvent(mode, who, revision, form)
           a == ReviewFrom(mode, who, revision, form)
           h == SessionSubject(mode)
           id == RecordIdOf(who)
           v == p.verifier
           w == Verified(v, a, SessionNow)
           q == Applied(p, ev)
<1>1. /\ IsReview(ev) /\ ~IsSnapshot(ev) /\ ev.now = SessionNow /\ ev.artifact = a
      /\ ev.subjectHash = h
  BY ReviewEventShape
<1>2. a \in Artifact BY SessionArtifacts
<1>3. v \in VerifierState /\ p.now \in Int /\ p.now <= SessionNow /\ Unrevoked(v)
  BY DEF Fresh, Projection
<1>4. VerifyCode(v, a, "review", SessionNow, h) = "OK"
  <2>1. v.lastTime \in Int BY <1>3 DEF VerifierState
  <2>2. revision \in Nat BY WorkbenchAssumption
  <2>3. QED BY <1>3, <2>1, <2>2, ReviewVerifies
<1>5. ReviewBy(a, who, revision, Payload(mode, who, form)) BY ReviewShape
<1>6. RecordBy(Payload(mode, who, form), mode, who, form.decision) BY PayloadShape
<1>7. ~IdentityConflict(p, a) /\ h \in SubjectHash BY SessionAssumption
<1>8. a.kind = "review" /\ a.artifact_id = id /\ a.payload.decision = form.decision
      /\ a.payload.subjectHash = h
  <2> HIDE DEF a
  <2>1. QED BY <1>5, <1>6 DEF ReviewBy, RecordBy
<1>9. Stream(a) # Stream(SignedSnapshot(mode)) BY SessionStreams
<1> HIDE DEF ev, a, h, id
<1>10. ApplyCode(p, ev) = "OK"
  <2>1. ~(SessionNow < 0 \/ SessionNow < p.now) BY <1>3 DEF SessionNow
  <2>2. ReviewCode(p, ev) = "OK" BY <1>1, <1>4, <1>7 DEF ReviewCode
  <2>3. QED BY <1>1, <2>1, <2>2 DEF ApplyCode
<1>11. SessionNow \in Int /\ SessionNow <= SessionNow BY DEF SessionNow
<1>12. /\ w \in VerifierState /\ w.revokedKeys = v.revokedKeys
       /\ w.revokedArtifacts = v.revokedArtifacts /\ w.lastTime = SessionNow
       /\ w.latest = [v.latest EXCEPT ![Stream(a)] = a]
  BY <1>2, <1>3, <1>11, VerifiedMoves
<1> DEFINE reviews == [p.reviews EXCEPT ![id] = a]
           rejected == IF form.decision = "REJECT" THEN p.rejected \cup {h} ELSE p.rejected
           owners == p.owners \cup {Owner(a)}
<1>13. q = [verifier |-> w, now |-> SessionNow, reviews |-> reviews, rejected |-> rejected,
            owners |-> owners]
  BY <1>1, <1>8 DEF Applied, ApplyReview
<1>14. reviews \in [ReviewId -> Artifact \cup {None}]
  <2>1. id \in ReviewId BY <1>2, <1>8 DEF ReviewId
  <2>2. p.reviews \in [ReviewId -> Artifact \cup {None}] BY DEF Fresh, Projection
  <2>3. QED BY <1>2, <2>1, <2>2
<1>15. rejected \in SUBSET SubjectHash BY <1>7 DEF Fresh, Projection
<1>16. owners \in SUBSET {Owner(b) : b \in {c \in Artifact : c.kind = "review"}}
  BY <1>2, <1>8 DEF Fresh, Projection
<1> HIDE DEF w, v, q, reviews, rejected, owners
<1>17. /\ q \in Projection /\ q.verifier = w /\ q.now = SessionNow /\ q.reviews = reviews
       /\ q.rejected = rejected /\ q.owners = owners
  BY <1>11, <1>12, <1>13, <1>14, <1>15, <1>16 DEF Projection
<1>18. Unrevoked(w) BY <1>3, <1>11, <1>12 DEF Unrevoked
<1>19. w.latest[Stream(SignedSnapshot(mode))] \in {None, SignedSnapshot(mode)}
  <2>1. SignedSnapshot(mode) \in Artifact BY SessionArtifacts
  <2>2. Stream(SignedSnapshot(mode)) \in Streams BY <2>1 DEF Streams
  <2>3. v.latest \in [Streams -> Artifact \cup {None}] BY <1>3 DEF VerifierState
  <2>4. v.latest[Stream(SignedSnapshot(mode))] \in {None, SignedSnapshot(mode)} BY DEF v, Fresh
  <2>5. QED BY <1>9, <1>12, <2>2, <2>3, <2>4
<1>20. Fresh(mode, q) BY <1>11, <1>17, <1>18, <1>19 DEF Fresh
<1>21. ReviewTaken(mode, p, q, a, form)
  BY <1>8, <1>12, <1>17, <1>20 DEF ReviewTaken, h, v, reviews, rejected, owners
<1>22. QED BY <1>10, <1>21 DEF ev, a, q

(* What is stored of a reviewer is in the history.                          *)
LEMMA TheirsTyped ==
  ASSUME NEW mode \in SessionMode, NEW s, s.log \in Seq(SessionEvent(mode)), NEW who
  PROVE  /\ RecordsOf(s.log) \in Seq(Item(mode))
         /\ Theirs(s, who) \in Seq(Item(mode))
         /\ Len(Theirs(s, who)) \in Nat
         /\ \A n \in 1..Len(Theirs(s, who)) : Theirs(s, who)[n] \in Range(RecordsOf(s.log))
         /\ Theirs(s, who) # <<>> <=> Len(Theirs(s, who)) > 0
<1> DEFINE records == RecordsOf(s.log)
           theirs == Theirs(s, who)
<1>1. records \in Seq(Item(mode))
  <2>1. SnapshotEvent(mode) \in SessionEvent(mode) BY SnapshotEventShape
  <2>2. records \in Seq({RecordFor(e) : e \in SessionEvent(mode)}) BY <2>1, RecordsAppend
  <2>3. QED BY <2>2 DEF Item
<1>2. records \in Seq(Range(records))
  <2> HIDE DEF records
  <2>1. Len(records) \in Nat /\ DOMAIN records = 1..Len(records)
        /\ records = [n \in 1..Len(records) |-> records[n]]
    BY <1>1
  <2>2. \A n \in 1..Len(records) : records[n] \in Range(records) BY <2>1 DEF Range
  <2>3. QED BY <2>1, <2>2
<1>3. theirs = Filtered(records, {n \in DOMAIN records : records[n].record.reviewer = who})
  BY DEF Theirs, ByReviewer
<1> HIDE DEF records, theirs
<1>4. theirs \in Seq(Item(mode)) BY <1>1, <1>3, FilteredTyped
<1>5. theirs \in Seq(Range(records)) BY <1>2, <1>3, FilteredTyped
<1>6. \A n \in 1..Len(theirs) : theirs[n] \in Range(records) BY <1>5
<1>7. Len(theirs) \in Nat /\ (theirs # <<>> <=> Len(theirs) > 0)
  <2>1. Len(theirs) \in Nat BY <1>4
  <2>2. Len(theirs) = 0 <=> theirs = <<>> BY <1>4, EmptySeq
  <2>3. QED BY <2>1, <2>2
<1>8. QED BY <1>1, <1>4, <1>6, <1>7 DEF records, theirs

(* The stored assessments of a session are the last ones of its reviewers.  *)
LEMMA StoredAreLast ==
  ASSUME NEW mode \in SessionMode, NEW s, SessionInv(mode, s),
         NEW q, q.reviews = s.proj.reviews
  PROVE  /\ \A a \in StoredReviews(q, SessionSubject(mode)) :
              \E who \in RequiredReviewers(mode) :
                Theirs(s, who) # <<>> /\ a = s.proj.reviews[RecordIdOf(who)]
         /\ \A who \in RequiredReviewers(mode) :
              Theirs(s, who) # <<>> =>
                s.proj.reviews[RecordIdOf(who)] \in StoredReviews(q, SessionSubject(mode))
<1>1. ASSUME NEW a \in StoredReviews(q, SessionSubject(mode))
      PROVE  \E who \in RequiredReviewers(mode) :
               Theirs(s, who) # <<>> /\ a = s.proj.reviews[RecordIdOf(who)]
  <2>1. PICK id \in ReviewId : a = s.proj.reviews[id] /\ a # None BY DEF StoredReviews
  <2>2. PICK who \in RequiredReviewers(mode) : id = RecordIdOf(who) BY <2>1 DEF SessionInv
  <2>3. Represented(mode, s, who) BY DEF SessionInv
  <2>4. Theirs(s, who) # <<>> BY <2>1, <2>2, <2>3 DEF Represented
  <2>5. QED BY <2>1, <2>2, <2>4
<1>2. ASSUME NEW who \in RequiredReviewers(mode), Theirs(s, who) # <<>>
      PROVE  s.proj.reviews[RecordIdOf(who)] \in StoredReviews(q, SessionSubject(mode))
  <2> DEFINE a == s.proj.reviews[RecordIdOf(who)]
  <2>1. Represented(mode, s, who) BY DEF SessionInv
  <2>2. RecordIdOf(who) \in ReviewId /\ \E form \in Forms : LastIs(mode, s, who, form)
    BY <1>2, <2>1 DEF Represented
  <2>3. PICK form \in Forms : LastIs(mode, s, who, form) BY <2>2
  <2>4. a = ReviewFrom(mode, who, Len(Theirs(s, who)), form) /\ a \in Artifact
    BY <2>3 DEF LastIs
  <2>5. ReviewBy(a, who, Len(Theirs(s, who)), Payload(mode, who, form)) BY <2>4, ReviewShape
  <2>6. RecordBy(Payload(mode, who, form), mode, who, form.decision) BY PayloadShape
  <2>7. a.payload.subjectHash = SessionSubject(mode)
    <3> HIDE DEF a
    <3>1. QED BY <2>5, <2>6 DEF ReviewBy, RecordBy
  <2>8. a # None BY <2>4, ArtifactAssumption
  <2>9. QED BY <2>2, <2>7, <2>8 DEF StoredReviews
<1>3. QED BY <1>1, <1>2

(* They are still what was verified last, so they verify again.             *)
LEMMA StoredVerify ==
  ASSUME NEW mode \in SessionMode, NEW s, SessionInv(mode, s),
         NEW q, Fresh(mode, q), q.reviews = s.proj.reviews,
         \A who \in RequiredReviewers(mode) :
           <<"review", RecordIdOf(who)>> \in Streams =>
             q.verifier.latest[<<"review", RecordIdOf(who)>>]
               = s.proj.verifier.latest[<<"review", RecordIdOf(who)>>]
  PROVE  \A a \in StoredReviews(q, SessionSubject(mode)) :
           VerifyCode(q.verifier, a, "review", SessionNow, SessionSubject(mode)) = "OK"
<1> SUFFICES ASSUME NEW a \in StoredReviews(q, SessionSubject(mode))
             PROVE  VerifyCode(q.verifier, a, "review", SessionNow, SessionSubject(mode)) = "OK"
  OBVIOUS
<1>1. PICK who \in RequiredReviewers(mode) :
        Theirs(s, who) # <<>> /\ a = s.proj.reviews[RecordIdOf(who)]
  BY StoredAreLast
<1>2. Represented(mode, s, who) BY DEF SessionInv
<1> DEFINE n == Len(Theirs(s, who))
           stream == <<"review", RecordIdOf(who)>>
<1>3. stream \in Streams /\ \E form \in Forms : LastIs(mode, s, who, form)
  BY <1>1, <1>2 DEF Represented
<1>4. PICK form \in Forms : LastIs(mode, s, who, form) BY <1>3
<1>5. /\ a = ReviewFrom(mode, who, n, form) /\ a \in Artifact
      /\ s.proj.verifier.latest[stream] = a
  BY <1>1, <1>4 DEF LastIs
<1>6. n \in Nat
  <2>1. s.log \in Seq(SessionEvent(mode)) BY DEF SessionInv
  <2>2. QED BY <2>1, TheirsTyped
<1> HIDE DEF n
<1>7. Stream(a) = stream BY <1>5, SessionStreams
<1> HIDE DEF stream
<1>8. q.verifier.latest[Stream(a)] = a BY <1>3, <1>5, <1>7 DEF stream
<1>9. RevisionCode(q.verifier, a) = "OK"
  <2>1. a.revision \in Nat BY <1>5, ArtifactAssumption
  <2>2. QED BY <1>8, <2>1 DEF RevisionCode
<1>10. Unrevoked(q.verifier) /\ q.verifier.lastTime \in Int
  BY DEF Fresh, Projection, VerifierState
<1>11. QED BY <1>5, <1>6, <1>9, <1>10, ReviewVerifies

(* What the boundary makes of them is what the history says of them.        *)
LEMMA StandingOfStored ==
  ASSUME NEW mode \in SessionMode, NEW s, SessionInv(mode, s), ~Rejected(RecordsOf(s.log)),
         NEW q, q.reviews = s.proj.reviews
  PROVE  LET code == Standing(mode, Records(q, SessionSubject(mode)))
         IN  /\ code # "REVIEW_REJECTED"
             /\ code = "OK" <=> \A who \in RequiredReviewers(mode) :
                                  LastQualifies(RecordsOf(s.log), who)
<1> DEFINE R == RequiredReviewers(mode)
           has == {who \in R : Theirs(s, who) # <<>>}
           good == {form \in Forms : form.decision # "REJECT"}
           best == Form("APPROVE", "SUPPORTED")
           given == [who \in R |->
                       IF who \in has THEN CHOOSE form \in Forms : LastIs(mode, s, who, form)
                                   ELSE best]
           P(who) == Payload(mode, who, given[who])
<1>1. s.log \in Seq(SessionEvent(mode)) BY DEF SessionInv
<1>2. ASSUME NEW who \in has PROVE given[who] \in Forms /\ LastIs(mode, s, who, given[who])
  <2>1. Represented(mode, s, who) BY DEF SessionInv
  <2>2. \E form \in Forms : LastIs(mode, s, who, form) BY <2>1 DEF Represented
  <2>3. given[who] = CHOOSE form \in Forms : LastIs(mode, s, who, form) OBVIOUS
  <2> HIDE DEF given
  <2>4. QED BY <2>2, <2>3
<1>3. ASSUME NEW who \in has PROVE given[who].decision # "REJECT"
  <2> DEFINE theirs == Theirs(s, who)
  <2>1. theirs[Len(theirs)].record = Payload(mode, who, given[who]) BY <1>2 DEF LastIs
  <2>2. theirs[Len(theirs)] \in Range(RecordsOf(s.log))
    <3>1. Len(theirs) \in 1..Len(theirs) BY <1>1, TheirsTyped
    <3>2. QED BY <1>1, <3>1, TheirsTyped
  <2>3. theirs[Len(theirs)].record.decision # "REJECT" BY <2>2 DEF Rejected
  <2>4. RecordBy(Payload(mode, who, given[who]), mode, who, given[who].decision) BY PayloadShape
  <2> HIDE DEF given, theirs
  <2>5. QED BY <2>1, <2>3, <2>4 DEF RecordBy
<1>4. best \in good
  <2>1. best \in Forms BY DEF Forms
  <2>2. best.decision = "APPROVE" BY DEF Form
  <2>3. QED BY <2>1, <2>2
<1>5. given \in [R -> good]
  <2>1. \A who \in R : who \notin has => given[who] = best OBVIOUS
  <2>2. given = [who \in R |-> given[who]] OBVIOUS
  <2> HIDE DEF given, best, has
  <2>3. \A who \in R : given[who] \in good BY <1>2, <1>3, <1>4, <2>1
  <2>4. QED BY <2>2, <2>3
<1> HIDE DEF given, best
<1>6. ASSUME NEW who \in has
      PROVE  s.proj.reviews[RecordIdOf(who)].payload = P(who)
  <2>1. s.proj.reviews[RecordIdOf(who)] = ReviewFrom(mode, who, Len(Theirs(s, who)), given[who])
    BY <1>2 DEF LastIs
  <2>2. ReviewBy(ReviewFrom(mode, who, Len(Theirs(s, who)), given[who]), who,
                 Len(Theirs(s, who)), P(who))
    BY ReviewShape
  <2>3. QED BY <2>1, <2>2 DEF ReviewBy
<1>7. Records(q, SessionSubject(mode)) = {P(who) : who \in has}
  <2>1. ASSUME NEW r \in Records(q, SessionSubject(mode)) PROVE r \in {P(who) : who \in has}
    <3>1. PICK a \in StoredReviews(q, SessionSubject(mode)) : r = a.payload BY DEF Records
    <3>2. PICK who \in R : Theirs(s, who) # <<>> /\ a = s.proj.reviews[RecordIdOf(who)]
      BY StoredAreLast
    <3>3. who \in has BY <3>2
    <3>4. r = P(who) BY <1>6, <3>1, <3>2, <3>3
    <3>5. QED BY <3>3, <3>4
  <2>2. ASSUME NEW who \in has PROVE P(who) \in Records(q, SessionSubject(mode))
    <3>1. s.proj.reviews[RecordIdOf(who)] \in StoredReviews(q, SessionSubject(mode))
      BY StoredAreLast
    <3>2. QED BY <1>6, <3>1 DEF Records
  <2> HIDE DEF P, has
  <2>3. QED BY <2>1, <2>2
<1>8. ASSUME NEW who \in R
      PROVE  LastQualifies(RecordsOf(s.log), who) <=> who \in has /\ Qualified(P(who))
  <2>1. who \in has => Theirs(s, who)[Len(Theirs(s, who))].record = P(who) BY <1>2 DEF LastIs
  <2>2. LastQualifies(RecordsOf(s.log), who)
          <=> Theirs(s, who) # <<>> /\ Qualified(Theirs(s, who)[Len(Theirs(s, who))].record)
    BY DEF LastQualifies, Theirs
  <2> HIDE DEF P
  <2>3. QED BY <2>1, <2>2
<1>9. LET code == Standing(mode, {P(who) : who \in has})
      IN  /\ code # "REVIEW_REJECTED"
          /\ code = "OK" <=> has = R /\ \A who \in has : Qualified(P(who))
  <2> HIDE DEF has, P
  <2>1. has \in SUBSET R BY DEF has
  <2>2. QED BY <1>5, <2>1, SessionStanding, Zenon DEF P
<1>10. has \subseteq R OBVIOUS
<1> HIDE DEF P, has
<1>11. QED BY <1>7, <1>8, <1>9, <1>10
-----------------------------------------------------------------------------
(* What an event adds to what is stored of a reviewer.                      *)
LEMMA TheirsAppend ==
  ASSUME NEW mode \in SessionMode, NEW log \in Seq(SessionEvent(mode)),
         NEW ev \in SessionEvent(mode)
  PROVE  /\ Append(log, ev) \in Seq(SessionEvent(mode))
         /\ ~IsReview(ev) => RecordsOf(Append(log, ev)) = RecordsOf(log)
         /\ IsReview(ev) =>
              /\ RecordsOf(Append(log, ev)) = Append(RecordsOf(log), RecordFor(ev))
              /\ \A who : ByReviewer(RecordsOf(Append(log, ev)), who)
                            = IF ev.artifact.payload.reviewer = who
                              THEN Append(ByReviewer(RecordsOf(log), who), RecordFor(ev))
                              ELSE ByReviewer(RecordsOf(log), who)
<1>1. Append(log, ev) \in Seq(SessionEvent(mode)) OBVIOUS
<1>2. /\ RecordsOf(log) \in Seq(Item(mode))
      /\ RecordsOf(Append(log, ev))
           = IF IsReview(ev) THEN Append(RecordsOf(log), RecordFor(ev)) ELSE RecordsOf(log)
  BY RecordsAppend DEF Item
<1>3. RecordFor(ev) \in Item(mode) BY DEF Item
<1>4. RecordFor(ev).record.reviewer = ev.artifact.payload.reviewer BY DEF RecordFor
<1>5. \A who : ByReviewer(Append(RecordsOf(log), RecordFor(ev)), who)
                 = IF ev.artifact.payload.reviewer = who
                   THEN Append(ByReviewer(RecordsOf(log), who), RecordFor(ev))
                   ELSE ByReviewer(RecordsOf(log), who)
  BY <1>2, <1>3, <1>4, ByReviewerAppend
<1>6. QED BY <1>1, <1>2, <1>5

(* Storing the snapshot with the projection after it keeps a session whole. *)
LEMMA SnapshotStored ==
  ASSUME NEW mode \in SessionMode, NEW s, SessionInv(mode, s),
         NEW next, next.proj = Applied(s.proj, SnapshotEvent(mode)),
         next.log \in {s.log, Append(s.log, SnapshotEvent(mode))}
  PROVE  SessionInv(mode, next) /\ RecordsOf(next.log) = RecordsOf(s.log)
<1> DEFINE ev == SnapshotEvent(mode)
           p == s.proj
           q == next.proj
           snapshotStream == Stream(SignedSnapshot(mode))
<1>1. s.log \in Seq(SessionEvent(mode)) /\ Fresh(mode, p) BY DEF SessionInv
<1>2. ev \in SessionEvent(mode) /\ ~IsReview(ev) BY SnapshotEventShape
<1>3. /\ Fresh(mode, q) /\ q.reviews = p.reviews /\ q.rejected = p.rejected
      /\ q.owners = p.owners
      /\ q.verifier.latest = [p.verifier.latest EXCEPT ![snapshotStream] = SignedSnapshot(mode)]
  <2>1. q = Applied(p, SnapshotEvent(mode)) OBVIOUS
  <2> HIDE DEF p, q
  <2>2. QED BY <1>1, <2>1, SnapshotApplied
<1>4. next.log \in Seq(SessionEvent(mode)) /\ RecordsOf(next.log) = RecordsOf(s.log)
  BY <1>1, <1>2, TheirsAppend
<1>5. \A who : Theirs(next, who) = Theirs(s, who) BY <1>4 DEF Theirs
<1> HIDE DEF ev, q
<1>6. ASSUME NEW who \in RequiredReviewers(mode)
      PROVE  /\ <<"review", RecordIdOf(who)>> \in Streams =>
                  q.verifier.latest[<<"review", RecordIdOf(who)>>]
                    = p.verifier.latest[<<"review", RecordIdOf(who)>>]
             /\ Represented(mode, next, who)
  <2> DEFINE stream == <<"review", RecordIdOf(who)>>
  <2>1. stream # snapshotStream BY SessionStreams
  <2>2. p.verifier.latest \in [Streams -> Artifact \cup {None}]
    BY <1>1 DEF Fresh, Projection, VerifierState
  <2> HIDE DEF stream, snapshotStream, p
  <2>3. stream \in Streams => q.verifier.latest[stream] = p.verifier.latest[stream]
    BY <1>3, <2>1, <2>2
  <2>4. Represented(mode, s, who) BY DEF SessionInv
  <2>5. ASSUME Theirs(s, who) = <<>> PROVE Represented(mode, next, who)
    BY <1>3, <1>5, <2>3, <2>4, <2>5 DEF Represented, p, q, stream
  <2>6. ASSUME Theirs(s, who) # <<>> PROVE Represented(mode, next, who)
    <3>1. stream \in Streams /\ \E form \in Forms : LastIs(mode, s, who, form)
      BY <2>4, <2>6 DEF Represented, stream
    <3>2. PICK form \in Forms : LastIs(mode, s, who, form) BY <3>1
    <3>3. LastIs(mode, next, who, form)
      BY <1>3, <1>5, <2>3, <3>1, <3>2 DEF LastIs, p, q, stream
    <3>4. QED BY <1>5, <2>4, <2>6, <3>3 DEF Represented
  <2>7. Represented(mode, next, who) BY <2>5, <2>6
  <2>8. QED BY <2>3, <2>7 DEF stream
<1>7. ASSUME NEW i \in DOMAIN next.log, IsReview(next.log[i])
      PROVE  next.log[i].artifact.revision
               <= Len(Theirs(next, next.log[i].artifact.payload.reviewer))
  <2>1. \A j \in DOMAIN s.log :
          IsReview(s.log[j]) =>
            s.log[j].artifact.revision <= Len(Theirs(s, s.log[j].artifact.payload.reviewer))
    BY DEF SessionInv
  <2>2. i \in DOMAIN s.log /\ next.log[i] = s.log[i]
    <3>1. CASE next.log = s.log BY <3>1
    <3>2. CASE next.log = Append(s.log, ev)
      <4>1. /\ DOMAIN s.log = 1..Len(s.log) /\ Len(s.log) \in Nat
            /\ DOMAIN next.log = 1..(Len(s.log) + 1) /\ next.log[Len(s.log) + 1] = ev
            /\ \A j \in 1..Len(s.log) : next.log[j] = s.log[j]
        BY <1>1, <1>2, <3>2
      <4>2. i # Len(s.log) + 1 BY <1>2, <1>7, <4>1
      <4>3. QED BY <4>1, <4>2
    <3>3. QED BY <3>1, <3>2 DEF ev
  <2>3. QED BY <1>5, <1>7, <2>1, <2>2
<1>8. \A id \in ReviewId :
        (\A who \in RequiredReviewers(mode) : id # RecordIdOf(who)) => q.reviews[id] = None
  BY <1>3 DEF SessionInv
<1>9. SessionSubject(mode) \in q.rejected <=> Rejected(RecordsOf(next.log))
  BY <1>3, <1>4 DEF SessionInv
<1>10. \A o \in q.owners : \E who \in RequiredReviewers(mode) :
         o = [reviewer |-> who, subjectHash |-> SessionSubject(mode), id |-> RecordIdOf(who)]
  BY <1>3 DEF SessionInv
<1>11. SessionInv(mode, next) BY <1>3, <1>4, <1>6, <1>7, <1>8, <1>9, <1>10 DEF SessionInv, q
<1>12. QED BY <1>4, <1>11

(* The operation a session's state is computed with.                        *)
LEMMA StateOpShape ==
  ASSUME NEW mode
  PROVE  LET op == StateOp(mode)
         IN  /\ op.name = "checkCandidateReview" /\ op.subject = SessionSubject(mode)
             /\ op.context = SessionContext /\ op.artifact = SignedSnapshot(mode)
             /\ op.now = SessionNow
             /\ EventOf(op) = SnapshotEvent(mode)
             /\ Precheck(op) = CandidateReason(SessionSubject(mode), SessionContext, SessionNow)
             /\ \A q : VerdictOf(q, op) = ReviewVerdict(q, op)
<1> DEFINE op == StateOp(mode)
<1>1. /\ op.name = "checkCandidateReview" /\ op.subject = SessionSubject(mode)
      /\ op.context = SessionContext /\ op.artifact = SignedSnapshot(mode)
      /\ op.now = SessionNow
  BY DEF StateOp
<1> HIDE DEF op
<1>2. EventOf(op) = SnapshotEvent(mode) BY <1>1 DEF EventOf, SnapshotEvent
<1>3. Precheck(op) = CandidateReason(SessionSubject(mode), SessionContext, SessionNow)
  BY <1>1 DEF Precheck
<1>4. \A q : VerdictOf(q, op) = ReviewVerdict(q, op) BY <1>1 DEF VerdictOf
<1>5. QED BY <1>1, <1>2, <1>3, <1>4 DEF op

(* What the boundary answers of a session is what its history says.         *)
LEMMA SessionVerdict ==
  ASSUME NEW mode \in SessionMode, NEW s, SessionInv(mode, s),
         NEW q, q = Applied(s.proj, SnapshotEvent(mode))
  PROVE  LET verdict == VerdictOf(q, StateOp(mode))
         IN  /\ verdict.commit = TRUE
             /\ Agrees(mode, RecordsOf(s.log), verdict.reason, verdict.positive)
<1> DEFINE op == StateOp(mode)
           h == SessionSubject(mode)
           a == SignedSnapshot(mode)
           snapshot == SessionSnapshot(mode)
           records == RecordsOf(s.log)
           verdict == VerdictOf(q, op)
           code == Standing(mode, Records(q, h))
<1>1. /\ op.name = "checkCandidateReview" /\ op.subject = h /\ op.artifact = a
      /\ op.now = SessionNow /\ verdict = ReviewVerdict(q, op)
  BY StateOpShape
<1>2. Fresh(mode, s.proj) /\ (h \in s.proj.rejected <=> Rejected(records)) BY DEF SessionInv
<1>3. /\ Fresh(mode, q) /\ q.reviews = s.proj.reviews /\ q.rejected = s.proj.rejected
      /\ q.verifier.latest = [s.proj.verifier.latest EXCEPT ![Stream(a)] = a]
  <2>1. QED BY <1>2, SnapshotApplied
<1>4. ASSUME NEW who \in RequiredReviewers(mode), <<"review", RecordIdOf(who)>> \in Streams
      PROVE  q.verifier.latest[<<"review", RecordIdOf(who)>>]
               = s.proj.verifier.latest[<<"review", RecordIdOf(who)>>]
  <2> DEFINE stream == <<"review", RecordIdOf(who)>>
  <2>1. stream # Stream(a) BY SessionStreams
  <2>2. s.proj.verifier.latest \in [Streams -> Artifact \cup {None}]
    BY <1>2 DEF Fresh, Projection, VerifierState
  <2> HIDE DEF stream, a
  <2>3. QED BY <1>3, <1>4, <2>1, <2>2 DEF stream
<1>5. \A b \in StoredReviews(q, h) : VerifyCode(q.verifier, b, "review", SessionNow, h) = "OK"
  <2>1. \A who \in RequiredReviewers(mode) :
          <<"review", RecordIdOf(who)>> \in Streams =>
            q.verifier.latest[<<"review", RecordIdOf(who)>>]
              = s.proj.verifier.latest[<<"review", RecordIdOf(who)>>]
    BY <1>4
  <2>2. Fresh(mode, q) /\ q.reviews = s.proj.reviews BY <1>3
  <2> HIDE DEF a
  <2>3. QED BY <2>1, <2>2, StoredVerify
<1>6. VerifyCode(q.verifier, a, "snapshot", SessionNow, None) = "OK"
  <2>1. Unrevoked(q.verifier) /\ q.verifier.lastTime \in Int
    BY <1>3 DEF Fresh, Projection, VerifierState
  <2>2. q.verifier.latest[Stream(a)] \in {None, a} BY <1>3 DEF Fresh
  <2>3. QED BY <2>1, <2>2, SnapshotVerifies
<1>7. AudienceReadsSources(h, snapshot, SessionNow)
  BY SessionPackage
<1>8. a.payload = snapshot BY SnapshotShape
<1> HIDE DEF op, h, a, snapshot, verdict, records
<1>9. CASE h \in q.rejected
  <2>1. verdict = Returns("REVIEW_REJECTED") BY <1>1, <1>9 DEF ReviewVerdict
  <2>2. verdict.commit = TRUE /\ verdict.reason = "REVIEW_REJECTED" /\ verdict.positive = FALSE
    BY <2>1 DEF Returns
  <2>3. Rejected(records) BY <1>2, <1>3, <1>9
  <2>4. QED BY <2>2, <2>3 DEF Agrees, op, verdict, records
<1>10. CASE h \notin q.rejected
  <2>1. StoredReviewCode(q, op) = "OK" BY <1>1, <1>5 DEF StoredReviewCode
  <2>2. verdict = CandidateVerdict(q, op)
    BY <1>1, <1>6, <1>10, <2>1 DEF ReviewVerdict
  <2>3. verdict = Returns(code)
    BY <1>1, <1>7, <1>8, <2>2 DEF CandidateVerdict, Standing, h, snapshot
  <2>4. ~Rejected(records) BY <1>2, <1>3, <1>10
  <2>5. /\ code # "REVIEW_REJECTED"
        /\ code = "OK" <=> \A who \in RequiredReviewers(mode) : LastQualifies(records, who)
    BY <1>3, <2>4, StandingOfStored DEF records, h
  <2> HIDE DEF code
  <2>6. verdict.commit = TRUE /\ verdict.reason = code /\ verdict.positive = (code = "OK")
    BY <2>3 DEF Returns
  <2>7. Agrees(mode, records, verdict.reason, verdict.positive)
    BY <2>4, <2>5, <2>6 DEF Agrees
  <2>8. QED BY <2>6, <2>7 DEF op, verdict, records
<1>11. QED BY <1>9, <1>10

(* Computing the state of a session stores no assessment, keeps what is     *)
(* stored whole, and agrees with it.                                        *)
LEMMA CheckedSession ==
  ASSUME NEW mode \in SessionMode, NEW s, SessionInv(mode, s)
  PROVE  LET c == Checked(s, mode)
         IN  /\ SessionInv(mode, c.session)
             /\ RecordsOf(c.session.log) = RecordsOf(s.log)
             /\ Agrees(mode, RecordsOf(s.log), c.answer.reason, c.answer.positive)
<1> DEFINE op == StateOp(mode)
           ev == SnapshotEvent(mode)
           q == Applied(s.proj, ev)
           verdict == VerdictOf(q, op)
           next == [log |-> IF ev \in Range(s.log) THEN s.log ELSE Append(s.log, ev), proj |-> q]
           c == Checked(s, mode)
<1>1. EventOf(op) = ev BY StateOpShape
<1>2. Precheck(op) = "OK"
  <2>1. Precheck(op) = CandidateReason(SessionSubject(mode), SessionContext, SessionNow)
    BY StateOpShape
  <2>2. QED BY <2>1, SessionPackage
<1>3. ApplyCode(s.proj, ev) = "OK"
  <2>1. Fresh(mode, s.proj) BY DEF SessionInv
  <2>2. QED BY <2>1, SnapshotApplied
<1>4. /\ verdict.commit = TRUE
      /\ Agrees(mode, RecordsOf(s.log), verdict.reason, verdict.positive)
  BY SessionVerdict
<1>5. SessionInv(mode, next) /\ RecordsOf(next.log) = RecordsOf(s.log)
  <2>1. /\ next.proj = Applied(s.proj, SnapshotEvent(mode))
        /\ next.log \in {s.log, Append(s.log, SnapshotEvent(mode))}
    OBVIOUS
  <2> HIDE DEF next
  <2>2. QED BY <2>1, SnapshotStored
<1>6. c = [session |-> next, answer |-> Answer(op, verdict)]
  <2>1. Checked(s, mode) = Recording(s, op) BY DEF Checked
  <2> HIDE DEF op, ev
  <2>2. QED BY <1>1, <1>2, <1>3, <1>4, <2>1 DEF Recording
<1> HIDE DEF op, ev, q, verdict, next, c
<1>7. c.session = next /\ c.answer.reason = verdict.reason /\ c.answer.positive = verdict.positive
  BY <1>6 DEF Answer
<1>8. QED BY <1>4, <1>5, <1>7 DEF c

(* A new session is whole.                                                  *)
LEMMA NewSessionWhole ==
  ASSUME NEW mode \in SessionMode
  PROVE  /\ SessionInv(mode, NewSession)
         /\ RecordsOf(NewSession.log) = <<>>
         /\ \A who : Theirs(NewSession, who) = <<>>
<1> DEFINE s == NewSession
           p == NewProjection
<1>1. s.log = <<>> /\ s.proj = p BY DEF NewSession
<1>2. /\ p.verifier = NewVerifier /\ p.now = -1 /\ p.reviews = [id \in ReviewId |-> None]
      /\ p.rejected = {} /\ p.owners = {}
  BY DEF NewProjection
<1>3. NewVerifier \in VerifierState BY DEF NewVerifier, VerifierState
<1>4. p \in Projection BY <1>3 DEF NewProjection, Projection
<1>5. Unrevoked(p.verifier) BY <1>2 DEF NewVerifier, Unrevoked, SessionNow
<1>6. \A stream \in Streams : p.verifier.latest[stream] = None BY <1>2 DEF NewVerifier
<1>7. Stream(SignedSnapshot(mode)) \in Streams BY SessionArtifacts DEF Streams
<1> HIDE DEF p
<1>8. Fresh(mode, p)
  <2>1. p.now <= SessionNow BY <1>2 DEF SessionNow
  <2>2. QED BY <1>4, <1>5, <1>6, <1>7, <2>1 DEF Fresh
<1> HIDE DEF s
<1>9. RecordsOf(s.log) = <<>> BY <1>1, RecordsEmpty
<1>10. \A who : Theirs(s, who) = <<>> BY <1>9, ByReviewerEmpty DEF Theirs
<1>11. ASSUME NEW who \in RequiredReviewers(mode) PROVE Represented(mode, s, who)
  <2>1. Theirs(s, who) = <<>> BY <1>10
  <2>2. Len(<<>>) = 0 OBVIOUS
  <2>3. \A n \in 1..Len(Theirs(s, who)) : Theirs(s, who)[n].revision = n BY <2>1, <2>2
  <2>4. RecordIdOf(who) \in ReviewId => s.proj.reviews[RecordIdOf(who)] = None BY <1>1, <1>2
  <2>5. <<"review", RecordIdOf(who)>> \in Streams =>
          s.proj.verifier.latest[<<"review", RecordIdOf(who)>>] = None
    BY <1>1, <1>6
  <2>6. QED BY <2>1, <2>3, <2>4, <2>5 DEF Represented
<1>12. \A id \in ReviewId : s.proj.reviews[id] = None BY <1>1, <1>2
<1>13. ~Rejected(RecordsOf(s.log)) BY <1>9 DEF Rejected, Range
<1>14. s.log \in Seq(SessionEvent(mode)) /\ \A i \in DOMAIN s.log : FALSE BY <1>1
<1>15. SessionInv(mode, s) BY <1>1, <1>2, <1>8, <1>11, <1>12, <1>13, <1>14 DEF SessionInv
<1>16. QED BY <1>9, <1>10, <1>15 DEF s
-----------------------------------------------------------------------------
(* The revision the server counts a reviewer's next assessment from.        *)
LEMMA LatestIsLength ==
  ASSUME NEW mode \in SessionMode, NEW s, SessionInv(mode, s),
         NEW who \in RequiredReviewers(mode)
  PROVE  Latest(RecordsOf(s.log), who) = Len(Theirs(s, who)) /\ Len(Theirs(s, who)) \in Nat
<1> DEFINE theirs == Theirs(s, who)
<1>1. s.log \in Seq(SessionEvent(mode)) /\ Represented(mode, s, who) BY DEF SessionInv
<1>2. Len(theirs) \in Nat /\ (theirs # <<>> <=> Len(theirs) > 0) BY <1>1, TheirsTyped
<1>3. \A n \in 1..Len(theirs) : theirs[n].revision = n BY <1>1 DEF Represented
<1>4. Latest(RecordsOf(s.log), who) = IF theirs = <<>> THEN 0 ELSE theirs[Len(theirs)].revision
  BY DEF Latest, Theirs
<1> HIDE DEF theirs
<1>5. CASE theirs = <<>>
  <2>1. Len(theirs) = 0 BY <1>2, <1>5
  <2>2. QED BY <1>2, <1>4, <1>5, <2>1 DEF theirs
<1>6. CASE theirs # <<>>
  <2>1. Len(theirs) \in 1..Len(theirs) BY <1>2, <1>6
  <2>2. QED BY <1>2, <1>3, <1>4, <1>6, <2>1 DEF theirs
<1>7. QED BY <1>5, <1>6

(* The next assessment of a reviewer is in order, and no record of its id   *)
(* is somebody else's.                                                      *)
LEMMA NextInOrder ==
  ASSUME NEW mode \in SessionMode, NEW s, SessionInv(mode, s),
         NEW who \in RequiredReviewers(mode), NEW form \in Forms,
         NEW revision \in 1..MaxRequests, revision = Len(Theirs(s, who)) + 1
  PROVE  LET a == ReviewFrom(mode, who, revision, form)
         IN  RevisionCode(s.proj.verifier, a) = "OK" /\ ~IdentityConflict(s.proj, a)
<1> DEFINE a == ReviewFrom(mode, who, revision, form)
           theirs == Theirs(s, who)
           stream == <<"review", RecordIdOf(who)>>
           p == s.proj
<1>1. Represented(mode, s, who) /\ Len(theirs) \in Nat BY LatestIsLength DEF SessionInv
<1>2. /\ ReviewBy(a, who, revision, Payload(mode, who, form))
      /\ RecordBy(Payload(mode, who, form), mode, who, form.decision)
      /\ Stream(a) = stream
  BY ReviewShape, PayloadShape, SessionStreams
<1>3. stream \in Streams
  <2>1. a \in Artifact BY SessionArtifacts
  <2>2. Stream(a) \in Streams BY <2>1 DEF Streams
  <2>3. QED BY <1>2, <2>2
<1> HIDE DEF a
<1>4. RevisionCode(p.verifier, a) = "OK"
  <2>1. CASE theirs = <<>>
    <3>1. p.verifier.latest[stream] = None BY <1>1, <1>3, <2>1 DEF Represented
    <3> HIDE DEF stream
    <3>2. QED BY <1>2, <3>1 DEF RevisionCode
  <2>2. CASE theirs # <<>>
    <3>1. \E f \in Forms : LastIs(mode, s, who, f) BY <1>1, <2>2 DEF Represented
    <3>2. PICK f \in Forms : LastIs(mode, s, who, f) BY <3>1
    <3> DEFINE last == ReviewFrom(mode, who, Len(theirs), f)
    <3>3. p.verifier.latest[stream] = last BY <3>2 DEF LastIs
    <3>4. ReviewBy(last, who, Len(theirs), Payload(mode, who, f)) BY ReviewShape
    <3> HIDE DEF last, stream
    <3>5. last.revision = Len(theirs) BY <3>4 DEF ReviewBy
    <3>6. a.revision = Len(theirs) + 1 BY <1>2 DEF ReviewBy
    <3> HIDE DEF theirs, p
    <3>7. QED BY <1>1, <1>2, <3>3, <3>5, <3>6 DEF RevisionCode
  <2>3. QED BY <2>1, <2>2
<1>5. ~IdentityConflict(p, a)
  <2>1. Owner(a) = [reviewer |-> who, subjectHash |-> SessionSubject(mode), id |-> RecordIdOf(who)]
        /\ a.payload.id = RecordIdOf(who)
    BY <1>2 DEF Owner, ReviewBy, RecordBy
  <2>2. ASSUME NEW o \in p.owners
        PROVE  ~(SameOwner(o, Owner(a)) /\ o.id # a.payload.id)
               /\ ~(o.id = a.payload.id /\ ~SameOwner(o, Owner(a)))
    <3>1. PICK w \in RequiredReviewers(mode) :
            o = [reviewer |-> w, subjectHash |-> SessionSubject(mode), id |-> RecordIdOf(w)]
      BY DEF SessionInv
    <3>2. QED BY <2>1, <3>1, RecordIds DEF SameOwner
  <2>3. QED BY <2>2 DEF IdentityConflict
<1>6. QED BY <1>4, <1>5 DEF a

(* What an assessment adds to a session.                                    *)
ReviewAdded(mode, s, next, who, revision, form) ==
  /\ SessionInv(mode, next)
  /\ Theirs(next, who)
       = Append(Theirs(s, who), [revision |-> revision, record |-> Payload(mode, who, form)])
  /\ \A other : other # who => Theirs(next, other) = Theirs(s, other)

(* Storing it with the projection after it keeps a session whole.           *)
LEMMA ReviewStored ==
  ASSUME NEW mode \in SessionMode, NEW s, SessionInv(mode, s),
         NEW who \in RequiredReviewers(mode), NEW form \in Forms,
         NEW revision \in 1..MaxRequests, revision = Len(Theirs(s, who)) + 1,
         NEW next, next.proj = Applied(s.proj, ReviewEvent(mode, who, revision, form)),
         next.log = Append(s.log, ReviewEvent(mode, who, revision, form))
  PROVE  ReviewAdded(mode, s, next, who, revision, form)
<1> DEFINE ev == ReviewEvent(mode, who, revision, form)
           a == ReviewFrom(mode, who, revision, form)
           item == [revision |-> revision, record |-> Payload(mode, who, form)]
           h == SessionSubject(mode)
           id == RecordIdOf(who)
           stream == <<"review", RecordIdOf(who)>>
           p == s.proj
           q == next.proj
           theirs == Theirs(s, who)
<1>1. /\ s.log \in Seq(SessionEvent(mode)) /\ Fresh(mode, p) /\ Represented(mode, s, who)
      /\ theirs \in Seq(Item(mode)) /\ Len(theirs) \in Nat
  <2>1. s.log \in Seq(SessionEvent(mode)) BY DEF SessionInv
  <2>2. QED BY <2>1, TheirsTyped DEF SessionInv
<1>2. /\ ev \in SessionEvent(mode) /\ IsReview(ev) /\ ev.artifact = a /\ RecordFor(ev) = item
  BY ReviewEventShape
<1>3. /\ ReviewBy(a, who, revision, Payload(mode, who, form))
      /\ RecordBy(Payload(mode, who, form), mode, who, form.decision)
      /\ Stream(a) = stream /\ stream # Stream(SignedSnapshot(mode))
  BY ReviewShape, PayloadShape, SessionStreams
<1>4. a \in Artifact BY SessionArtifacts
<1>5. stream \in Streams /\ id \in ReviewId
  <2> HIDE DEF a
  <2>1. Stream(a) \in Streams /\ (a.kind = "review" => a.artifact_id \in ReviewId)
    BY <1>4 DEF Streams, ReviewId
  <2>2. QED BY <1>3, <2>1 DEF ReviewBy
<1>6. RevisionCode(p.verifier, a) = "OK" /\ ~IdentityConflict(p, a) BY NextInOrder
<1>7. /\ Fresh(mode, q)
      /\ q.verifier.latest = [p.verifier.latest EXCEPT ![stream] = a]
      /\ q.reviews = [p.reviews EXCEPT ![id] = a]
      /\ q.rejected = IF form.decision = "REJECT" THEN p.rejected \cup {h} ELSE p.rejected
      /\ q.owners = p.owners \cup {Owner(a)}
  <2>1. ReviewTaken(mode, p, Applied(p, ev), a, form) BY <1>1, <1>6, ReviewApplied
  <2>2. q = Applied(p, ev) /\ a.artifact_id = id
    <3>1. q = Applied(p, ev) OBVIOUS
    <3> HIDE DEF a, ev, q
    <3>2. QED BY <1>3, <3>1 DEF ReviewBy
  <2> HIDE DEF a, h, p, q, ev, id, stream
  <2>3. QED BY <1>3, <2>1, <2>2 DEF ReviewTaken, h
<1> HIDE DEF ev, a, h, id, q
<1>8. item.revision = revision /\ item.record = Payload(mode, who, form) OBVIOUS
<1> HIDE DEF item
<1>9. ev.artifact.payload.reviewer = who /\ ev.artifact.revision = revision
      /\ item.record.decision = form.decision /\ item \in Item(mode)
  <2>1. item \in Item(mode) BY <1>2 DEF Item
  <2>2. QED BY <1>2, <1>3, <1>8, <2>1 DEF ReviewBy, RecordBy
<1>10. /\ next.log \in Seq(SessionEvent(mode))
       /\ RecordsOf(next.log) = Append(RecordsOf(s.log), item)
       /\ Theirs(next, who) = Append(theirs, item)
       /\ \A other : other # who => Theirs(next, other) = Theirs(s, other)
  <2>1. next.log = Append(s.log, ev) BY DEF ev
  <2>2. QED BY <1>1, <1>2, <1>9, <2>1, TheirsAppend DEF Theirs
<1>11. /\ p.verifier.latest \in [Streams -> Artifact \cup {None}]
       /\ p.reviews \in [ReviewId -> Artifact \cup {None}]
  BY <1>1 DEF Fresh, Projection, VerifierState
<1>12. Represented(mode, next, who)
  <2> DEFINE new == Theirs(next, who)
  <2>1. /\ new \in Seq(Item(mode)) /\ Len(new) = Len(theirs) + 1 /\ new[Len(theirs) + 1] = item
        /\ \A n \in 1..Len(theirs) : new[n] = theirs[n]
    BY <1>1, <1>9, <1>10, AppendProperties
  <2>2. Len(new) = revision /\ new # <<>>
    <3>1. Len(new) = revision BY <2>1
    <3>2. Len(new) # 0 BY <1>1, <2>1
    <3>3. Len(<<>>) = 0 OBVIOUS
    <3> HIDE DEF new
    <3>4. QED BY <3>1, <3>2, <3>3
  <2> HIDE DEF new
  <2>3. \A n \in 1..Len(new) : new[n].revision = n
    <3>1. \A n \in 1..Len(theirs) : theirs[n].revision = n BY <1>1 DEF Represented
    <3>2. ASSUME NEW n \in 1..Len(new) PROVE new[n].revision = n
      <4> HIDE DEF theirs
      <4>1. CASE n = Len(theirs) + 1 BY <1>8, <2>1, <2>2, <4>1 DEF theirs
      <4>2. CASE n # Len(theirs) + 1
        <5>1. n \in 1..Len(theirs) BY <1>1, <2>1, <4>2
        <5>2. QED BY <2>1, <3>1, <5>1
      <4>3. QED BY <4>1, <4>2
    <3>3. QED BY <3>2
  <2>4. LastIs(mode, next, who, form)
    <3>1. new[Len(new)].record = Payload(mode, who, form) BY <1>8, <2>1, <2>2
    <3> HIDE DEF stream, p
    <3>2. q.reviews[id] = a /\ q.verifier.latest[stream] = a BY <1>4, <1>5, <1>7, <1>11
    <3>3. a = ReviewFrom(mode, who, Len(new), form) BY <2>2 DEF a
    <3>4. QED BY <1>4, <3>1, <3>2, <3>3 DEF LastIs, new, q, id, stream
  <2>5. QED BY <1>5, <2>2, <2>3, <2>4 DEF Represented, new, id, stream
<1>13. ASSUME NEW other \in RequiredReviewers(mode), other # who
       PROVE  Represented(mode, next, other)
  <2> DEFINE oid == RecordIdOf(other)
             os == <<"review", RecordIdOf(other)>>
  <2>1. oid # id /\ os # stream BY <1>13, RecordIds DEF id
  <2>2. Theirs(next, other) = Theirs(s, other) BY <1>10, <1>13
  <2>3. Represented(mode, s, other) BY DEF SessionInv
  <2> HIDE DEF oid, os, stream, p
  <2>4. /\ oid \in ReviewId => q.reviews[oid] = p.reviews[oid]
        /\ os \in Streams => q.verifier.latest[os] = p.verifier.latest[os]
    BY <1>7, <1>11, <2>1
  <2>5. ASSUME Theirs(s, other) = <<>> PROVE Represented(mode, next, other)
    BY <2>2, <2>3, <2>4, <2>5 DEF Represented, p, q, oid, os
  <2>6. ASSUME Theirs(s, other) # <<>> PROVE Represented(mode, next, other)
    <3>1. os \in Streams /\ oid \in ReviewId /\ \E f \in Forms : LastIs(mode, s, other, f)
      BY <2>3, <2>6 DEF Represented, os, oid
    <3>2. PICK f \in Forms : LastIs(mode, s, other, f) BY <3>1
    <3>3. LastIs(mode, next, other, f)
      BY <2>2, <2>4, <3>1, <3>2 DEF LastIs, p, q, os, oid
    <3>4. QED BY <2>2, <2>3, <2>6, <3>3 DEF Represented
  <2>7. QED BY <2>5, <2>6
<1>14. ASSUME NEW other \in ReviewId, \A w \in RequiredReviewers(mode) : other # RecordIdOf(w)
       PROVE  q.reviews[other] = None
  <2>1. p.reviews[other] = None BY <1>14 DEF SessionInv
  <2>2. other # id BY <1>14 DEF id
  <2> HIDE DEF p
  <2>3. QED BY <1>7, <1>11, <2>1, <2>2
<1>15. h \in q.rejected <=> Rejected(RecordsOf(next.log))
  <2> DEFINE records == RecordsOf(s.log)
  <2>1. h \in p.rejected <=> Rejected(records) BY DEF SessionInv, h
  <2>2. records \in Seq(Item(mode)) BY <1>1, TheirsTyped
  <2>3. Range(Append(records, item)) = Range(records) \cup {item}
    <3> HIDE DEF records
    <3>1. /\ DOMAIN records = 1..Len(records) /\ Len(records) \in Nat
          /\ DOMAIN Append(records, item) = 1..(Len(records) + 1)
          /\ Append(records, item)[Len(records) + 1] = item
          /\ \A n \in 1..Len(records) : Append(records, item)[n] = records[n]
      BY <1>9, <2>2
    <3>2. \A n \in 1..(Len(records) + 1) : n \in 1..Len(records) \/ n = Len(records) + 1
      BY <3>1
    <3>3. \A n \in 1..Len(records) : n \in 1..(Len(records) + 1) BY <3>1
    <3>4. Len(records) + 1 \in 1..(Len(records) + 1) BY <3>1
    <3>5. QED BY <3>1, <3>2, <3>3, <3>4 DEF Range
  <2> HIDE DEF records, p
  <2>4. Rejected(RecordsOf(next.log)) <=> Rejected(records) \/ form.decision = "REJECT"
    BY <1>9, <1>10, <2>3 DEF Rejected, records
  <2>5. QED BY <1>7, <2>1, <2>4
<1>16. ASSUME NEW o \in q.owners
       PROVE  \E w \in RequiredReviewers(mode) :
                o = [reviewer |-> w, subjectHash |-> h, id |-> RecordIdOf(w)]
  <2>1. CASE o \in p.owners BY <2>1 DEF SessionInv, h
  <2>2. CASE o = Owner(a)
    <3>1. Owner(a) = [reviewer |-> who, subjectHash |-> h, id |-> RecordIdOf(who)]
      BY <1>3 DEF Owner, ReviewBy, RecordBy, h
    <3>2. QED BY <2>2, <3>1
  <2>3. QED BY <1>7, <2>1, <2>2
<1>17. ASSUME NEW i \in DOMAIN next.log, IsReview(next.log[i])
       PROVE  next.log[i].artifact.revision
                <= Len(Theirs(next, next.log[i].artifact.payload.reviewer))
  <2>1. /\ DOMAIN s.log = 1..Len(s.log) /\ Len(s.log) \in Nat
        /\ DOMAIN next.log = 1..(Len(s.log) + 1) /\ next.log[Len(s.log) + 1] = ev
        /\ \A j \in 1..Len(s.log) : next.log[j] = s.log[j]
    BY <1>1, <1>2 DEF ev
  <2>2. Len(Theirs(next, who)) = Len(theirs) + 1 BY <1>1, <1>9, <1>10, AppendProperties
  <2>3. CASE i = Len(s.log) + 1
    BY <1>1, <1>9, <2>1, <2>2, <2>3
  <2>4. CASE i # Len(s.log) + 1
    <3>1. i \in DOMAIN s.log /\ next.log[i] = s.log[i] BY <2>1, <2>4
    <3> DEFINE r == s.log[i].artifact.payload.reviewer
               n == s.log[i].artifact.revision
    <3>2. n <= Len(Theirs(s, r)) BY <1>17, <3>1 DEF SessionInv
    <3>3. CASE r = who
      <4>1. n \in Int
        <5>1. s.log[i] \in SessionEvent(mode) BY <1>1, <3>1
        <5>2. PICK w \in RequiredReviewers(mode), m \in 1..MaxRequests, f \in Forms :
                s.log[i] = ReviewEvent(mode, w, m, f)
          BY <1>17, <3>1, <5>1, SessionEvents, SnapshotEventShape
        <5>3. s.log[i].artifact = ReviewFrom(mode, w, m, f) BY <5>2, ReviewEventShape
        <5>4. ReviewBy(ReviewFrom(mode, w, m, f), w, m, Payload(mode, w, f)) BY ReviewShape
        <5>5. n = m BY <5>3, <5>4 DEF ReviewBy
        <5>6. m \in Int BY WorkbenchAssumption
        <5>7. QED BY <5>5, <5>6
      <4> HIDE DEF n, r
      <4>2. n <= Len(theirs) + 1 BY <1>1, <3>2, <3>3, <4>1
      <4>3. QED BY <2>2, <3>1, <3>3, <4>2 DEF n, r
    <3>4. CASE r # who
      <4>1. Theirs(next, r) = Theirs(s, r) BY <1>10, <3>4
      <4>2. QED BY <3>1, <3>2, <4>1
    <3>5. QED BY <3>3, <3>4
  <2>5. QED BY <2>3, <2>4
<1>18. SessionInv(mode, next)
  BY <1>7, <1>10, <1>12, <1>13, <1>14, <1>15, <1>16, <1>17 DEF SessionInv, q, h
<1>19. QED BY <1>10, <1>18 DEF ReviewAdded, item

(* Nothing that the server signs for a reviewer's next revision is refused. *)
LEMMA AcceptedSession ==
  ASSUME NEW mode \in SessionMode, NEW s, SessionInv(mode, s),
         NEW who \in RequiredReviewers(mode), NEW form \in Forms,
         NEW revision \in 1..MaxRequests, revision = Len(Theirs(s, who)) + 1,
         NEW op, op.name = "acceptCandidateReview", op.subject = SessionSubject(mode),
         op.context = SessionContext, op.now = SessionNow,
         op.artifact = ReviewFrom(mode, who, revision, form)
  PROVE  /\ Recording(s, op).answer.positive = TRUE
         /\ ReviewAdded(mode, s, Recording(s, op).session, who, revision, form)
<1> DEFINE ev == ReviewEvent(mode, who, revision, form)
           a == ReviewFrom(mode, who, revision, form)
           q == Applied(s.proj, ev)
           next == [log |-> Append(s.log, ev), proj |-> q]
           c == Recording(s, op)
<1>1. EventOf(op) = ev BY DEF EventOf, ReviewEvent
<1>2. /\ ReviewBy(a, who, revision, Payload(mode, who, form))
      /\ RecordBy(Payload(mode, who, form), mode, who, form.decision)
  BY ReviewShape, PayloadShape
<1>3. Precheck(op) = "OK"
  <2>1. /\ CandidateReason(SessionSubject(mode), SessionContext, SessionNow) = "OK"
        /\ form.decision = "REJECT"
             \/ BindingReason(SessionSubject(mode), Payload(mode, who, form)) = "OK"
    BY SessionPackage, SessionBinding
  <2>2. /\ op.artifact.kind = "review" /\ op.artifact.payload = Payload(mode, who, form)
        /\ op.artifact.payload.decision = form.decision
    <3>1. op.artifact = a OBVIOUS
    <3> HIDE DEF a
    <3>2. QED BY <1>2, <3>1 DEF ReviewBy, RecordBy
  <2>3. Precheck(op) = CandidateReviewPrecheck(op) BY DEF Precheck
  <2>4. QED BY <2>1, <2>2, <2>3 DEF CandidateReviewPrecheck
<1>4. ApplyCode(s.proj, ev) = "OK"
  <2>1. Fresh(mode, s.proj) BY DEF SessionInv
  <2>2. RevisionCode(s.proj.verifier, a) = "OK" /\ ~IdentityConflict(s.proj, a) BY NextInOrder
  <2>3. QED BY <2>1, <2>2, ReviewApplied
<1>5. VerdictOf(q, op) = Recorded BY DEF VerdictOf
<1>6. ev \notin Range(s.log)
  <2>1. SUFFICES ASSUME NEW i \in DOMAIN s.log, s.log[i] = ev PROVE FALSE BY DEF Range
  <2>2. IsReview(ev) /\ ev.artifact = a BY ReviewEventShape
  <2>3. Len(Theirs(s, who)) \in Nat BY LatestIsLength
  <2>4. ev.artifact.revision <= Len(Theirs(s, ev.artifact.payload.reviewer))
    BY <2>1, <2>2 DEF SessionInv
  <2> HIDE DEF a, ev
  <2>5. ev.artifact.revision = revision /\ ev.artifact.payload.reviewer = who
    BY <1>2, <2>2 DEF ReviewBy, RecordBy
  <2>6. revision <= Len(Theirs(s, who)) BY <2>4, <2>5
  <2>7. QED BY <2>3, <2>6
<1>7. ReviewAdded(mode, s, next, who, revision, form)
  <2>1. /\ next.proj = Applied(s.proj, ReviewEvent(mode, who, revision, form))
        /\ next.log = Append(s.log, ReviewEvent(mode, who, revision, form))
    OBVIOUS
  <2> HIDE DEF next
  <2>2. QED BY <2>1, ReviewStored
<1> HIDE DEF ev
<1>8. c = [session |-> next, answer |-> Answer(op, Recorded)]
  BY <1>1, <1>3, <1>4, <1>5, <1>6 DEF Recording, Recorded
<1> HIDE DEF a, q, next, c
<1>9. c.session = next /\ c.answer.positive = TRUE BY <1>8 DEF Answer, Recorded
<1>10. QED BY <1>7, <1>9 DEF c
-----------------------------------------------------------------------------
(* What begins a history begins every longer one.                           *)
LEMMA BeginsTransitive ==
  ASSUME NEW E, NEW a \in Seq(E), NEW b \in Seq(E), NEW c \in Seq(E), Begins(a, b), Begins(b, c)
  PROVE  Begins(a, c)
<1>1. Len(a) \in Nat /\ Len(b) \in Nat /\ Len(c) \in Nat OBVIOUS
<1>2. \A n \in 1..Len(a) : n \in 1..Len(b) BY <1>1 DEF Begins
<1>3. QED BY <1>1, <1>2 DEF Begins

(* What a handler does to a session: nothing, the snapshot, or more.        *)
Grown(mode, s, next) ==
  /\ SessionInv(mode, next)
  /\ \A who \in RequiredReviewers(mode) :
       Begins(Theirs(s, who), Theirs(next, who)) /\ Len(Theirs(next, who)) <= sent

(* Nothing is forgotten by computing the state of a session.                *)
LEMMA CheckedGrown ==
  ASSUME NEW mode \in SessionMode, NEW s, SessionInv(mode, s),
         \A who \in RequiredReviewers(mode) : Len(Theirs(s, who)) <= sent
  PROVE  /\ Grown(mode, s, Checked(s, mode).session)
         /\ \A who : Theirs(Checked(s, mode).session, who) = Theirs(s, who)
<1> DEFINE next == Checked(s, mode).session
<1>1. SessionInv(mode, next) /\ RecordsOf(next.log) = RecordsOf(s.log) BY CheckedSession
<1>2. \A who : Theirs(next, who) = Theirs(s, who) BY <1>1 DEF Theirs
<1>3. \A who \in RequiredReviewers(mode) : Len(Theirs(s, who)) \in Nat BY LatestIsLength
<1> HIDE DEF next
<1>4. Grown(mode, s, next) BY <1>1, <1>2, <1>3 DEF Grown, Begins
<1>5. QED BY <1>2, <1>4 DEF next

(* Nor by storing an assessment.                                            *)
LEMMA AddedGrown ==
  ASSUME NEW mode \in SessionMode, NEW s, SessionInv(mode, s), NEW next,
         NEW who \in RequiredReviewers(mode), NEW form \in Forms,
         NEW revision \in 1..MaxRequests, revision = Len(Theirs(s, who)) + 1,
         ReviewAdded(mode, s, next, who, revision, form),
         sent \in Nat, revision <= sent,
         \A other \in RequiredReviewers(mode) : Len(Theirs(s, other)) <= sent
  PROVE  /\ Grown(mode, s, next)
         /\ Len(Theirs(next, who)) = revision
<1> DEFINE item == [revision |-> revision, record |-> Payload(mode, who, form)]
<1>1. /\ SessionInv(mode, next) /\ Theirs(next, who) = Append(Theirs(s, who), item)
      /\ \A other : other # who => Theirs(next, other) = Theirs(s, other)
  BY DEF ReviewAdded
<1>2. item \in Item(mode)
  <2>1. LET ev == ReviewEvent(mode, who, revision, form)
        IN  ev \in SessionEvent(mode) /\ RecordFor(ev) = item
    BY ReviewEventShape
  <2> HIDE DEF item
  <2>2. QED BY <2>1 DEF Item
<1> HIDE DEF item
<1>3. ASSUME NEW other \in RequiredReviewers(mode)
      PROVE  Theirs(s, other) \in Seq(Item(mode)) /\ Len(Theirs(s, other)) \in Nat
  <2>1. s.log \in Seq(SessionEvent(mode)) BY DEF SessionInv
  <2>2. QED BY <2>1, TheirsTyped
<1>4. /\ Len(Theirs(next, who)) = Len(Theirs(s, who)) + 1
      /\ \A n \in 1..Len(Theirs(s, who)) : Theirs(next, who)[n] = Theirs(s, who)[n]
  BY <1>1, <1>2, <1>3, AppendProperties
<1>5. ASSUME NEW other \in RequiredReviewers(mode)
      PROVE  Begins(Theirs(s, other), Theirs(next, other)) /\ Len(Theirs(next, other)) <= sent
  <2>1. CASE other = who BY <1>3, <1>4, <2>1 DEF Begins
  <2>2. CASE other # who
    <3>1. Theirs(next, other) = Theirs(s, other) BY <1>1, <2>2
    <3>2. QED BY <1>3, <3>1 DEF Begins
  <2>3. QED BY <2>1, <2>2
<1>6. QED BY <1>1, <1>4, <1>5 DEF Grown

(* What a handler makes of a request: the session it leaves, the answer it  *)
(* gives to a page that waits, and what it notes of an assessment.          *)
Tells(req, next, body) ==
  \/ body.ok = FALSE /\ body.code \in Known
  \/ /\ body.ok = TRUE
     /\ body.view.mode = req.mode /\ body.view.csrf_token = token
     /\ body.view.records = RecordsOf(next.log)
     /\ Agrees(req.mode, body.view.records, body.view.reason, body.view.review_complete)

Notes(req, next, w) ==
  /\ w.mode = req.mode /\ w.reviewer \in RequiredReviewers(req.mode)
  /\ w.seen \in Seq(Item(req.mode)) /\ Begins(w.seen, Theirs(next, w.reviewer))
  /\ w.revision = Len(w.seen) + 1

Handled(req, next, body) ==
  /\ session' = [session EXCEPT ![req.mode] = next]
  /\ Grown(req.mode, session[req.mode], next)
  /\ Reply(req, body) /\ Tells(req, next, body)
  /\ written' = written \/ \E w : written' = Append(written, w) /\ Notes(req, next, w)

(* The session of a request.                                                *)
LEMMA RequestSession ==
  ASSUME PagesInv, StoreInv, KnowledgeInv, NEW req \in requests
  PROVE  /\ req.mode \in SessionMode /\ req.id \in 1..sent /\ RequestInv(session, token, req)
         /\ SessionInv(req.mode, session[req.mode])
         /\ \A who \in RequiredReviewers(req.mode) :
              Len(Theirs(session[req.mode], who)) <= sent
<1>1. RequestInv(session, token, req) /\ req.id \in 1..sent BY DEF KnowledgeInv, PagesInv
<1>2. req.mode \in SessionMode BY <1>1 DEF RequestInv
<1>3. QED BY <1>1, <1>2 DEF StoreInv

(* An assessment nobody objects to is the reviewer's next one, and accepted.*)
LEMMA AcceptedRequest ==
  ASSUME PagesInv, StoreInv, KnowledgeInv, NEW req \in requests,
         req.kind = "submit", req.csrf_token = token, Objection(req) = "OK"
  PROVE  /\ Accepted(req).answer.positive = TRUE
         /\ Grown(req.mode, session[req.mode], Accepted(req).session)
         /\ req.reviewer \in RequiredReviewers(req.mode)
         /\ req.seen \in Seq(Item(req.mode))
         /\ Begins(req.seen, Theirs(Accepted(req).session, req.reviewer))
         /\ Latest(RecordsOf(Accepted(req).session.log), req.reviewer) = Len(req.seen) + 1
<1> DEFINE mode == req.mode
           who == req.reviewer
           s == session[mode]
           revision == Len(Theirs(s, who)) + 1
           op == AcceptOp(req)
           next == Accepted(req).session
<1>1. /\ mode \in SessionMode /\ req.id \in 1..sent /\ SessionInv(mode, s)
      /\ \A w \in RequiredReviewers(mode) : Len(Theirs(s, w)) <= sent
  BY RequestSession
<1>2. /\ who \in RequiredReviewers(mode) /\ req.form \in Forms
      /\ req.seen \in Seq(Item(mode)) /\ Begins(req.seen, Theirs(s, who))
      /\ req.expected_revision = Len(req.seen) /\ req.expected_revision < req.id
  BY RequestSession DEF RequestInv, Seen
<1>3. Latest(RecordsOf(s.log), who) = Len(Theirs(s, who)) /\ Len(Theirs(s, who)) \in Nat
  BY <1>1, <1>2, LatestIsLength
<1>4. req.expected_revision = Len(Theirs(s, who))
  BY <1>2, <1>3 DEF Objection
<1>5. /\ op.name = "acceptCandidateReview" /\ op.subject = SessionSubject(mode)
      /\ op.context = SessionContext /\ op.now = SessionNow
      /\ op.artifact = ReviewFrom(mode, who, revision, req.form)
  BY <1>3 DEF AcceptOp
<1>6. sent \in Nat /\ token \in Nat /\ sent + token <= MaxRequests /\ MaxRequests \in Nat
  BY WorkbenchAssumption DEF PagesInv
<1>7. revision \in 1..MaxRequests /\ revision <= sent
  <2>1. Len(Theirs(s, who)) < req.id BY <1>2, <1>4
  <2>2. QED BY <1>1, <1>3, <1>6, <2>1
<1>8. Accepted(req) = Recording(s, op) BY DEF Accepted
<1>9. revision = Len(Theirs(s, who)) + 1 OBVIOUS
<1> HIDE DEF mode, who, s, op, revision
<1>10. /\ Recording(s, op).answer.positive = TRUE
       /\ ReviewAdded(mode, s, Recording(s, op).session, who, revision, req.form)
  BY <1>1, <1>2, <1>5, <1>7, <1>9, AcceptedSession
<1>11. Accepted(req).answer.positive = TRUE /\ ReviewAdded(mode, s, next, who, revision, req.form)
  BY <1>8, <1>10
<1> HIDE DEF next
<1>12. Grown(mode, s, next) /\ Len(Theirs(next, who)) = revision
  <2> DEFINE form == req.form
  <2>1. /\ form \in Forms /\ mode \in SessionMode /\ SessionInv(mode, s)
        /\ who \in RequiredReviewers(mode) /\ revision \in 1..MaxRequests
        /\ revision = Len(Theirs(s, who)) + 1 /\ revision <= sent /\ sent \in Nat
        /\ ReviewAdded(mode, s, next, who, revision, form)
    BY <1>1, <1>2, <1>6, <1>7, <1>9, <1>11
  <2>2. \A other \in RequiredReviewers(mode) : Len(Theirs(s, other)) <= sent BY <1>1
  <2> HIDE DEF form
  <2>3. QED BY <2>1, <2>2, AddedGrown
<1>13. SessionInv(mode, next) /\ Begins(Theirs(s, who), Theirs(next, who))
  BY <1>2, <1>12 DEF Grown
<1>14. Latest(RecordsOf(next.log), who) = Len(req.seen) + 1
  <2>1. Latest(RecordsOf(next.log), who) = Len(Theirs(next, who))
    BY <1>1, <1>2, <1>13, LatestIsLength
  <2>2. QED BY <1>2, <1>4, <1>9, <1>12, <2>1
<1>15. Begins(req.seen, Theirs(next, who))
  <2>1. Theirs(s, who) \in Seq(Item(mode)) /\ Theirs(next, who) \in Seq(Item(mode))
    <3>1. s.log \in Seq(SessionEvent(mode)) /\ next.log \in Seq(SessionEvent(mode))
      BY <1>1, <1>13 DEF SessionInv
    <3>2. QED BY <1>1, <3>1, TheirsTyped
  <2>2. QED BY <1>2, <1>13, <2>1, BeginsTransitive
<1>16. QED BY <1>2, <1>11, <1>12, <1>14, <1>15 DEF mode, who, s, next

(* A view is computed from the session it is sent with.                     *)
LEMMA ViewTells ==
  ASSUME NEW req, req.mode \in SessionMode, NEW s, SessionInv(req.mode, s)
  PROVE  LET checked == Checked(s, req.mode)
         IN  Tells(req, checked.session, Success(View(req.mode, checked)))
<1> DEFINE mode == req.mode
           checked == Checked(s, mode)
           body == Success(View(mode, checked))
<1>1. /\ RecordsOf(checked.session.log) = RecordsOf(s.log)
      /\ Agrees(mode, RecordsOf(s.log), checked.answer.reason, checked.answer.positive)
  BY CheckedSession
<1> HIDE DEF checked
<1>2. /\ body.ok = TRUE /\ body.view.mode = mode /\ body.view.csrf_token = token
      /\ body.view.records = RecordsOf(checked.session.log)
      /\ body.view.reason = checked.answer.reason
      /\ body.view.review_complete = checked.answer.positive
  BY DEF Success, View
<1> HIDE DEF body
<1>3. Tells(req, checked.session, body) BY <1>1, <1>2 DEF Tells
<1>4. QED BY <1>3 DEF body, checked

LEMMA FailureTells ==
  ASSUME NEW req, NEW next, NEW code \in Known
  PROVE  Tells(req, next, Failure(code))
  BY DEF Failure, Tells

(* Whatever becomes of a request, it is handled as described.               *)
LEMMA RequestHandled ==
  ASSUME PagesInv, StoreInv, KnowledgeInv, NEW req \in Open, Handle(req)
  PROVE  \E next, body : Handled(req, next, body)
<1> DEFINE mode == req.mode
           s == session[mode]
           checked == Checked(s, mode)
           accepted == Accepted(req)
           after == Checked(accepted.session, mode)
           note == [mode |-> req.mode, reviewer |-> req.reviewer, seen |-> req.seen,
                    revision |-> Latest(RecordsOf(accepted.session.log), req.reviewer)]
<1>1. req \in requests BY DEF Open
<1>2. /\ mode \in SessionMode /\ SessionInv(mode, s) /\ RequestInv(session, token, req)
      /\ \A who \in RequiredReviewers(mode) : Len(Theirs(s, who)) <= sent
  BY <1>1, RequestSession
<1>3. session = [session EXCEPT ![mode] = s]
  <2>1. session = [m \in SessionMode |-> session[m]] BY DEF StoreInv
  <2>2. QED BY <1>2, <2>1
<1>4. Grown(mode, s, s)
  <2>1. \A who \in RequiredReviewers(mode) : Len(Theirs(s, who)) \in Nat
    BY <1>2, LatestIsLength
  <2>2. QED BY <1>2, <2>1 DEF Grown, Begins
<1>5. /\ Grown(mode, s, checked.session)
      /\ Tells(req, checked.session, Success(View(mode, checked)))
  BY <1>2, CheckedGrown, ViewTells
<1>6. ASSUME req.kind = "submit", req.csrf_token = token, Objection(req) = "OK"
      PROVE  /\ accepted.answer.positive = TRUE
             /\ Grown(mode, s, accepted.session) /\ Notes(req, accepted.session, note)
             /\ Grown(mode, s, after.session) /\ Notes(req, after.session, note)
             /\ Tells(req, after.session, Success(View(mode, after)))
  <2>1. /\ accepted.answer.positive = TRUE /\ Grown(mode, s, accepted.session)
        /\ req.reviewer \in RequiredReviewers(mode)
        /\ req.seen \in Seq(Item(mode))
        /\ Begins(req.seen, Theirs(accepted.session, req.reviewer))
        /\ Latest(RecordsOf(accepted.session.log), req.reviewer) = Len(req.seen) + 1
    BY <1>1, <1>6, AcceptedRequest
  <2>2. /\ note.mode = mode /\ note.reviewer = req.reviewer /\ note.seen = req.seen
        /\ note.revision = Latest(RecordsOf(accepted.session.log), req.reviewer)
    OBVIOUS
  <2> HIDE DEF note, accepted
  <2>3. Notes(req, accepted.session, note) BY <2>1, <2>2 DEF Notes
  <2>4. /\ SessionInv(mode, accepted.session)
        /\ \A who \in RequiredReviewers(mode) :
             /\ Begins(Theirs(s, who), Theirs(accepted.session, who))
             /\ Len(Theirs(accepted.session, who)) <= sent
    BY <2>1 DEF Grown
  <2>5. /\ Grown(mode, accepted.session, after.session)
        /\ \A who : Theirs(after.session, who) = Theirs(accepted.session, who)
    BY <1>2, <2>4, CheckedGrown
  <2>6. Tells(req, after.session, Success(View(mode, after))) BY <1>2, <2>4, ViewTells
  <2> HIDE DEF after, s
  <2>7. Grown(mode, s, after.session) BY <2>4, <2>5 DEF Grown
  <2>8. Notes(req, after.session, note) BY <2>1, <2>2, <2>5 DEF Notes
  <2>9. QED BY <2>1, <2>3, <2>6, <2>7, <2>8
<1> HIDE DEF s, checked, accepted, after, note
<1>7. ASSUME NEW code \in Known, Reply(req, Failure(code)), UNCHANGED <<session, written>>
      PROVE  \E next, body : Handled(req, next, body)
  <2>1. Tells(req, s, Failure(code)) BY FailureTells
  <2>2. Handled(req, s, Failure(code)) BY <1>3, <1>4, <1>7, <2>1 DEF Handled, s
  <2>3. QED BY <2>2
<1>8. "STORE_UNAVAILABLE_OR_CORRUPT" \in Known /\ "WORKBENCH_REQUEST_REQUIRED" \in Known
      /\ "REVIEW_CHANGED_REFRESH_REQUIRED" \in Known
  BY DEF Known
<1>9. CASE HandleLoad(req)
  <2>1. /\ Store(req, checked.session) /\ Reply(req, Success(View(mode, checked)))
        /\ UNCHANGED written
    BY <1>9 DEF HandleLoad, checked, s
  <2>2. Handled(req, checked.session, Success(View(mode, checked)))
    BY <1>5, <2>1 DEF Handled, Store, s
  <2>3. QED BY <2>2
<1>10. CASE HandleSubmit(req)
  <2>1. /\ req.kind = "submit" /\ req.csrf_token = token
        /\ IF Objection(req) # "OK"
           THEN Reply(req, Failure(Objection(req))) /\ UNCHANGED <<session, written>>
           ELSE IF ~accepted.answer.positive
           THEN Reply(req, Failure(accepted.answer.reason)) /\ UNCHANGED <<session, written>>
           ELSE /\ Store(req, after.session)
                /\ Reply(req, Success(View(mode, after)))
                /\ Wrote(req, accepted.session)
    BY <1>10 DEF HandleSubmit, accepted, after
  <2>2. CASE Objection(req) # "OK"
    <3>1. req.reviewer \in RequiredReviewers(mode) BY <1>2, <2>1 DEF RequestInv
    <3>2. Objection(req) = "REVIEW_CHANGED_REFRESH_REQUIRED" BY <2>2, <3>1 DEF Objection
    <3>3. QED BY <1>7, <1>8, <2>1, <2>2, <3>2
  <2>3. CASE Objection(req) = "OK"
    <3>1. /\ Store(req, after.session) /\ Reply(req, Success(View(mode, after)))
          /\ Wrote(req, accepted.session)
      BY <1>6, <2>1, <2>3
    <3>2. written' = Append(written, note) BY <3>1 DEF Wrote, note
    <3>3. Handled(req, after.session, Success(View(mode, after)))
      BY <1>6, <2>1, <2>3, <3>1, <3>2 DEF Handled, Store, s
    <3>4. QED BY <3>3
  <2>4. QED BY <2>2, <2>3
<1>11. CASE HandleRefused(req) BY <1>7, <1>8, <1>11 DEF HandleRefused
<1>12. CASE HandleFailed(req)
  <2> DEFINE body == Failure("STORE_UNAVAILABLE_OR_CORRUPT")
  <2>1. /\ req.kind = "submit" => req.csrf_token = token
        /\ Reply(req, body)
        /\ \/ UNCHANGED <<session, written>>
           \/ Store(req, checked.session) /\ UNCHANGED written
           \/ /\ req.kind = "submit" /\ Objection(req) = "OK"
              /\ Wrote(req, accepted.session) /\ Store(req, accepted.session)
    BY <1>12 DEF HandleFailed, checked, accepted, s
  <2>2. \A next : Tells(req, next, body) BY <1>8, FailureTells
  <2>3. CASE UNCHANGED <<session, written>> BY <1>7, <1>8, <2>1, <2>3
  <2>4. CASE Store(req, checked.session) /\ UNCHANGED written
    <3>1. Handled(req, checked.session, body) BY <1>5, <2>1, <2>2, <2>4 DEF Handled, Store, s
    <3>2. QED BY <3>1
  <2>5. CASE /\ req.kind = "submit" /\ Objection(req) = "OK"
             /\ Wrote(req, accepted.session) /\ Store(req, accepted.session)
    <3>1. written' = Append(written, note) BY <2>5 DEF Wrote, note
    <3> HIDE DEF body
    <3>2. Handled(req, accepted.session, body)
      BY <1>6, <2>1, <2>2, <2>5, <3>1 DEF Handled, Store, s
    <3>3. QED BY <3>2
  <2>6. QED BY <2>1, <2>3, <2>4, <2>5
<1>13. QED BY <1>9, <1>10, <1>11, <1>12 DEF Handle
-----------------------------------------------------------------------------
(* Handling a request keeps the sessions whole.                             *)
LEMMA HandledStore ==
  ASSUME PagesInv, StoreInv, KnowledgeInv, NEW req \in Open, Handle(req)
  PROVE  StoreInv'
<1>1. PICK next, body : Handled(req, next, body) BY RequestHandled
<1>2. /\ session' = [session EXCEPT ![req.mode] = next]
      /\ Grown(req.mode, session[req.mode], next) /\ sent' = sent
  BY <1>1 DEF Handled, Handle
<1>3. req.mode \in SessionMode /\ session = [m \in SessionMode |-> session[m]]
  BY RequestSession DEF Open, StoreInv
<1>4. session' = [m \in SessionMode |-> session'[m]] BY <1>2, <1>3
<1>5. ASSUME NEW m \in SessionMode
      PROVE  /\ SessionInv(m, session'[m])
             /\ \A who \in RequiredReviewers(m) : Len(Theirs(session'[m], who)) <= sent
  <2>1. CASE m = req.mode
    <3>1. session'[m] = next BY <1>2, <1>3, <2>1
    <3>2. QED BY <1>2, <2>1, <3>1 DEF Grown
  <2>2. CASE m # req.mode
    <3>1. session'[m] = session[m] BY <1>2, <1>3, <2>2
    <3>2. QED BY <3>1 DEF StoreInv
  <2>3. QED BY <2>1, <2>2
<1>6. QED BY <1>2, <1>4, <1>5 DEF StoreInv

(* What was seen of a session is still the beginning of it.                 *)
LEMMA HandledSeen ==
  ASSUME PagesInv, StoreInv, KnowledgeInv, NEW req \in Open, Handle(req),
         NEW mode \in SessionMode, NEW who \in RequiredReviewers(mode), NEW seen,
         Seen(session, seen, mode, who)
  PROVE  Seen(session', seen, mode, who)
<1>1. PICK next, body : Handled(req, next, body) BY RequestHandled
<1>2. /\ session' = [session EXCEPT ![req.mode] = next]
      /\ Grown(req.mode, session[req.mode], next)
  BY <1>1 DEF Handled
<1>3. req.mode \in SessionMode /\ session = [m \in SessionMode |-> session[m]]
  BY RequestSession DEF Open, StoreInv
<1>4. CASE mode # req.mode
  <2>1. session'[mode] = session[mode] BY <1>2, <1>3, <1>4
  <2>2. QED BY <2>1 DEF Seen
<1>5. CASE mode = req.mode
  <2>1. session'[mode] = next BY <1>2, <1>3, <1>5
  <2>2. seen \in Seq(Item(mode)) /\ Begins(seen, Theirs(session[mode], who)) BY DEF Seen
  <2>3. SessionInv(mode, next) /\ Begins(Theirs(session[mode], who), Theirs(next, who))
    BY <1>2, <1>5 DEF Grown
  <2>4. session[mode].log \in Seq(SessionEvent(mode)) /\ next.log \in Seq(SessionEvent(mode))
    BY <2>3 DEF StoreInv, SessionInv
  <2>5. Theirs(session[mode], who) \in Seq(Item(mode)) /\ Theirs(next, who) \in Seq(Item(mode))
    BY <2>4, TheirsTyped
  <2>6. Begins(seen, Theirs(next, who)) BY <2>2, <2>3, <2>5, BeginsTransitive
  <2>7. QED BY <2>1, <2>2, <2>6 DEF Seen
<1>6. QED BY <1>4, <1>5

(* What a page shows stays true of what is stored.                          *)
LEMMA HandledShown ==
  ASSUME PagesInv, StoreInv, KnowledgeInv, NEW req \in Open, Handle(req),
         NEW view, Shown(session, token, view)
  PROVE  Shown(session', token', view)
<1>1. token' = token BY DEF Handle
<1>2. view.mode \in SessionMode BY DEF Shown
<1>3. ASSUME view.csrf_token = token, NEW who \in RequiredReviewers(view.mode)
      PROVE  Seen(session', ByReviewer(view.records, who), view.mode, who)
  <2>1. Seen(session, ByReviewer(view.records, who), view.mode, who) BY <1>3 DEF Shown
  <2>2. QED BY <1>2, <2>1, HandledSeen
<1>4. QED BY <1>1, <1>3 DEF Shown

(* An answer shows a page all that is stored.                               *)
LEMMA HandledAnswer ==
  ASSUME PagesInv, StoreInv, KnowledgeInv, NEW req \in Open, Handle(req),
         NEW next, NEW body, Handled(req, next, body)
  PROVE  Sendable(session', token', body)
<1>1. /\ session' = [session EXCEPT ![req.mode] = next] /\ token' = token
      /\ SessionInv(req.mode, next) /\ Tells(req, next, body)
  BY DEF Handled, Grown, Handle
<1>2. req.mode \in SessionMode /\ session = [m \in SessionMode |-> session[m]]
  BY RequestSession DEF Open, StoreInv
<1>3. session'[req.mode] = next BY <1>1, <1>2
<1>4. CASE body.ok = FALSE /\ body.code \in Known BY <1>4 DEF Sendable
<1>5. CASE body.ok = TRUE
  <2> DEFINE view == body.view
  <2>1. /\ view.mode = req.mode /\ view.csrf_token = token
        /\ view.records = RecordsOf(next.log)
        /\ Agrees(req.mode, view.records, view.reason, view.review_complete)
    BY <1>1, <1>5 DEF Tells
  <2>2. view.csrf_token \in 0..token BY <2>1 DEF PagesInv
  <2>3. ASSUME NEW who \in RequiredReviewers(view.mode)
        PROVE  Seen(session', ByReviewer(view.records, who), view.mode, who)
    <3>1. ByReviewer(view.records, who) = Theirs(next, who) BY <2>1 DEF Theirs
    <3>2. next.log \in Seq(SessionEvent(req.mode)) BY <1>1 DEF SessionInv
    <3>3. Theirs(next, who) \in Seq(Item(req.mode)) /\ Len(Theirs(next, who)) \in Nat
      BY <1>2, <3>2, TheirsTyped
    <3>4. Begins(Theirs(next, who), Theirs(next, who)) BY <3>3 DEF Begins
    <3>5. QED BY <1>3, <2>1, <3>1, <3>3, <3>4 DEF Seen
  <2> HIDE DEF view
  <2>4. Shown(session', token', view) BY <1>1, <1>2, <2>1, <2>2, <2>3 DEF Shown
  <2>5. QED BY <1>5, <2>4 DEF Sendable, view
<1>6. QED BY <1>1, <1>4, <1>5 DEF Tells

(* So what pages, requests and answers rest on stays true.                  *)
LEMMA HandledKnowledge ==
  ASSUME PagesInv, StoreInv, KnowledgeInv, NEW req \in Open, Handle(req)
  PROVE  KnowledgeInv'
<1>1. PICK next, body : Handled(req, next, body) BY RequestHandled
<1>2. /\ session' = [session EXCEPT ![req.mode] = next]
      /\ token' = token /\ tab' = tab /\ requests' = requests
  BY <1>1 DEF Handled, Handle
<1>3. req \in requests /\ req.mode \in SessionMode /\ req.tab \in Tab /\ req.id \in 1..sent
  BY RequestSession DEF Open, PagesInv
<1>4. Sendable(session', token', body) BY <1>1, HandledAnswer
<1>5. ASSUME NEW t \in Tab
      PROVE  /\ tab[t].view = None \/ Shown(session', token', tab[t].view)
             /\ tab[t].fields => Shown(session', token', tab[t].view)
  <2>1. /\ tab[t].view = None \/ Shown(session, token, tab[t].view)
        /\ tab[t].fields => Shown(session, token, tab[t].view)
    BY DEF KnowledgeInv
  <2>2. Shown(session, token, tab[t].view) => Shown(session', token', tab[t].view) BY HandledShown
  <2>3. QED BY <2>1, <2>2
<1>6. ASSUME NEW r \in requests PROVE RequestInv(session', token', r)
  <2>1. RequestInv(session, token, r) BY DEF KnowledgeInv
  <2>2. CASE r.kind = "submit" /\ r.csrf_token = token
    <3>1. /\ r.mode \in SessionMode /\ r.reviewer \in RequiredReviewers(r.mode)
          /\ Seen(session, r.seen, r.mode, r.reviewer)
      BY <2>1, <2>2 DEF RequestInv
    <3>2. Seen(session', r.seen, r.mode, r.reviewer) BY <3>1, HandledSeen
    <3>3. QED BY <1>2, <2>1, <3>2 DEF RequestInv
  <2>3. CASE ~(r.kind = "submit" /\ r.csrf_token = token) BY <1>2, <2>1, <2>3 DEF RequestInv
  <2>4. QED BY <2>2, <2>3
<1>7. ASSUME NEW answer \in answers'
      PROVE  /\ answer.body = None \/ Sendable(session', token', answer.body)
             /\ \A t \in Tab : tab[t].waiting = answer.id => Sendable(session', token', answer.body)
  <2>1. answers' = answers \cup
          {[id |-> req.id, body |-> IF tab[req.tab].waiting = req.id THEN body ELSE None]}
    BY <1>1 DEF Handled, Reply
  <2>2. CASE answer \in answers
    <3>1. /\ answer.body = None \/ Sendable(session, token, answer.body)
          /\ \A t \in Tab : tab[t].waiting = answer.id => Sendable(session, token, answer.body)
      BY <2>2 DEF KnowledgeInv
    <3>2. Sendable(session, token, answer.body) => Sendable(session', token', answer.body)
      BY HandledShown DEF Sendable
    <3>3. QED BY <3>1, <3>2
  <2>3. CASE answer = [id |-> req.id,
                       body |-> IF tab[req.tab].waiting = req.id THEN body ELSE None]
    <3>1. /\ answer.id = req.id
          /\ tab[req.tab].waiting = req.id => answer.body = body
          /\ tab[req.tab].waiting # req.id => answer.body = None
      BY <2>3
    <3>2. \A t \in Tab : tab[t].waiting = req.id => t = req.tab BY <1>3 DEF PagesInv
    <3>3. answer.body = body => Sendable(session', token', answer.body) BY <1>4
    <3>4. QED BY <3>1, <3>2, <3>3
  <2>4. QED BY <2>1, <2>2, <2>3
<1>8. \E S : written' \in Seq(S) /\ \A n \in DOMAIN written' : Noted(session', written'[n])
  <2>1. PICK S : written \in Seq(S) BY DEF KnowledgeInv
  <2>2. ASSUME NEW n \in DOMAIN written PROVE Noted(session', written[n])
    <3> DEFINE w == written[n]
    <3>1. /\ w.mode \in SessionMode /\ w.reviewer \in RequiredReviewers(w.mode)
          /\ Seen(session, w.seen, w.mode, w.reviewer) /\ w.revision = Len(w.seen) + 1
      BY DEF KnowledgeInv, Noted
    <3> HIDE DEF w
    <3>2. Seen(session', w.seen, w.mode, w.reviewer) BY <3>1, HandledSeen
    <3>3. Noted(session', w) BY <3>1, <3>2 DEF Noted
    <3>4. QED BY <3>3 DEF w
  <2>3. CASE written' = written BY <2>1, <2>2, <2>3
  <2>4. ASSUME NEW w, written' = Append(written, w), Notes(req, next, w)
        PROVE  \E T : written' \in Seq(T) /\ \A n \in DOMAIN written' : Noted(session', written'[n])
    <3>1. written \in Seq(S \cup {w}) /\ w \in S \cup {w} BY <2>1
    <3>2. /\ written' \in Seq(S \cup {w}) /\ Len(written) \in Nat
          /\ DOMAIN written = 1..Len(written)
          /\ DOMAIN written' = 1..(Len(written) + 1) /\ written'[Len(written) + 1] = w
          /\ \A n \in 1..Len(written) : written'[n] = written[n]
      BY <2>4, <3>1
    <3>3. Noted(session', w)
      <4>1. session'[req.mode] = next
        <5>1. session = [m \in SessionMode |-> session[m]] BY DEF StoreInv
        <5>2. QED BY <1>2, <1>3, <5>1
      <4>2. QED BY <1>3, <2>4, <4>1 DEF Notes, Noted, Seen
    <3>4. ASSUME NEW n \in DOMAIN written' PROVE Noted(session', written'[n])
      <4>1. CASE n = Len(written) + 1 BY <3>2, <3>3, <4>1
      <4>2. CASE n # Len(written) + 1
        <5>1. n \in DOMAIN written /\ written'[n] = written[n] BY <3>2, <4>2
        <5>2. Noted(session', written[n]) BY <2>2, <5>1
        <5>3. QED BY <5>1, <5>2
      <4>3. QED BY <4>1, <4>2
    <3>5. QED BY <3>2, <3>4
  <2>5. written' = written \/ \E w : written' = Append(written, w) /\ Notes(req, next, w)
    BY <1>1 DEF Handled
  <2>6. QED BY <2>3, <2>4, <2>5
<1>9. QED BY <1>2, <1>5, <1>6, <1>7, <1>8 DEF KnowledgeInv

(* Of the answers that are left when a page stops waiting, those that others*)
(* wait for are unchanged.                                                  *)
LEMMA AbandonedKnowledge ==
  ASSUME PagesInv, KnowledgeInv, NEW t \in Tab, NEW a \in Abandoned(t)
  PROVE  /\ a.id \in 1..sent
         /\ a.body = None \/ Sendable(session, token, a.body)
         /\ \A u \in Tab : u # t /\ tab[u].waiting = a.id => Sendable(session, token, a.body)
<1>1. PICK b \in answers :
        /\ a.id = b.id /\ a.id \in 1..sent
        /\ a.body = IF b.id = tab[t].waiting THEN None ELSE b.body
  BY AbandonedAnswers
<1>2. /\ b.body = None \/ Sendable(session, token, b.body)
      /\ \A u \in Tab : tab[u].waiting = b.id => Sendable(session, token, b.body)
  BY DEF KnowledgeInv
<1>3. ASSUME NEW u \in Tab, u # t, tab[u].waiting = a.id PROVE b.id # tab[t].waiting
  <2>1. a.id # 0 /\ sent \in Nat BY <1>1 DEF PagesInv
  <2>2. QED BY <1>1, <1>3, <2>1 DEF PagesInv
<1>4. CASE b.id = tab[t].waiting BY <1>1, <1>3, <1>4
<1>5. CASE b.id # tab[t].waiting BY <1>1, <1>2, <1>5
<1>6. QED BY <1>4, <1>5

(* A page sends what it knows.                                              *)
LEMMA SentKnowledge ==
  ASSUME PagesInv, StoreInv, KnowledgeInv, NEW t \in Tab, Load(t) \/ Reload(t) \/ Submit(t)
  PROVE  StoreInv' /\ KnowledgeInv'
<1>1. PICK page, req : SentWith(t, page, req) BY SentRequest
<1>2. /\ sent' = sent + 1 /\ requests' = requests \cup {req} /\ tab' = [tab EXCEPT ![t] = page]
      /\ answers' = Abandoned(t) /\ session' = session /\ token' = token /\ written' = written
      /\ sent \in Nat /\ DOMAIN tab = Tab
  BY <1>1 DEF SentWith, Send, PagesInv
<1>3. StoreInv'
  <2>1. \A mode \in SessionMode : \A who \in RequiredReviewers(mode) :
          Len(Theirs(session[mode], who)) \in Nat
    BY LatestIsLength DEF StoreInv
  <2>2. QED BY <1>2, <2>1 DEF StoreInv
<1>4. /\ tab'[t] = page /\ \A u \in Tab : u # t => tab'[u] = tab[u]
  BY <1>2
<1>5. ASSUME NEW u \in Tab
      PROVE  /\ tab'[u].view = None \/ Shown(session, token, tab'[u].view)
             /\ tab'[u].fields => Shown(session, token, tab'[u].view)
  <2>1. page.fields = FALSE /\ page.view \in {None, tab[t].view} BY <1>1 DEF SentWith
  <2>2. QED BY <1>4, <2>1 DEF KnowledgeInv
<1>6. RequestInv(session, token, req)
  <2>1. CASE req.kind = "load" /\ req.mode \in SessionMode BY <2>1 DEF RequestInv
  <2>2. CASE /\ tab[t].fields /\ req.kind = "submit" /\ req.mode = tab[t].view.mode
             /\ req.reviewer \in RequiredReviewers(req.mode) /\ req.form \in Forms
             /\ req.expected_revision = Latest(tab[t].view.records, req.reviewer)
             /\ req.csrf_token = tab[t].view.csrf_token
             /\ req.seen = ByReviewer(tab[t].view.records, req.reviewer)
    <3> DEFINE mode == req.mode
               who == req.reviewer
               seen == req.seen
               theirs == Theirs(session[mode], who)
    <3>1. Shown(session, token, tab[t].view) BY <2>2 DEF KnowledgeInv
    <3>2. mode \in SessionMode BY <2>2, <3>1 DEF Shown
    <3>3. ASSUME req.csrf_token = token
          PROVE  /\ Seen(session, seen, mode, who)
                 /\ req.expected_revision = Len(seen) /\ Len(seen) < req.id
      <4>1. Seen(session, seen, mode, who) BY <2>2, <3>1, <3>3 DEF Shown
      <4>2. /\ SessionInv(mode, session[mode]) /\ who \in RequiredReviewers(mode)
            /\ Len(theirs) <= sent /\ Len(theirs) \in Nat
        BY <2>2, <3>2, LatestIsLength DEF StoreInv
      <4>3. /\ seen \in Seq(Item(mode)) /\ Len(seen) \in Nat /\ Len(seen) <= Len(theirs)
            /\ \A n \in 1..Len(seen) : theirs[n] = seen[n]
        BY <4>1 DEF Seen, Begins
      <4>4. \A n \in 1..Len(theirs) : theirs[n].revision = n
        BY <4>2 DEF SessionInv, Represented
      <4>5. req.expected_revision = IF seen = <<>> THEN 0 ELSE seen[Len(seen)].revision
        BY <2>2 DEF Latest
      <4> HIDE DEF seen, theirs
      <4>6. req.expected_revision = Len(seen)
        <5>1. CASE seen = <<>>
          <6>1. Len(seen) = 0 BY <4>3, <5>1, EmptySeq
          <6>2. QED BY <4>5, <5>1, <6>1
        <5>2. CASE seen # <<>>
          <6>1. Len(seen) \in Nat \ {0} BY <4>3, <5>2, EmptySeq
          <6>2. Len(seen) \in 1..Len(seen) /\ Len(seen) \in 1..Len(theirs) BY <4>2, <4>3, <6>1
          <6>3. seen[Len(seen)].revision = Len(seen) BY <4>3, <4>4, <6>2
          <6>4. QED BY <4>5, <5>2, <6>3
        <5>3. QED BY <5>1, <5>2
      <4>7. Len(seen) < req.id
        <5>1. req.id = sent + 1 BY <1>1 DEF SentWith
        <5>2. QED BY <1>2, <4>2, <4>3, <5>1
      <4>8. QED BY <4>1, <4>6, <4>7 DEF seen
    <3>4. QED BY <2>2, <3>2, <3>3 DEF RequestInv
  <2>3. QED BY <1>1, <2>1, <2>2 DEF SentWith
<1>7. ASSUME NEW a \in answers'
      PROVE  /\ a.body = None \/ Sendable(session, token, a.body)
             /\ \A u \in Tab : tab'[u].waiting = a.id => Sendable(session, token, a.body)
  <2>1. /\ a.id \in 1..sent /\ (a.body = None \/ Sendable(session, token, a.body))
        /\ \A u \in Tab : u # t /\ tab[u].waiting = a.id => Sendable(session, token, a.body)
    BY <1>2, <1>7, AbandonedKnowledge
  <2>2. page.waiting # a.id
    <3>1. page.waiting = sent + 1 BY <1>1 DEF SentWith
    <3>2. QED BY <1>2, <2>1, <3>1
  <2>3. QED BY <1>4, <2>1, <2>2
<1>8. KnowledgeInv' BY <1>2, <1>5, <1>6, <1>7 DEF KnowledgeInv
<1>9. QED BY <1>3, <1>8
-----------------------------------------------------------------------------
(* A page that hears nothing keeps what it shows; otherwise it shows what   *)
(* the answer it waited for says.                                           *)
LEMMA SettledKnowledge ==
  ASSUME PagesInv, StoreInv, KnowledgeInv, NEW t \in Tab, NEW page,
         tab' = [tab EXCEPT ![t] = page], page.waiting = 0,
         \/ page.fields = tab[t].fields /\ page.view = tab[t].view
         \/ \E answer \in answers :
              answer.id = tab[t].waiting /\ answer.body.ok /\ page.view = answer.body.view,
         answers' = Abandoned(t), UNCHANGED <<session, token, sent, requests, written>>
  PROVE  StoreInv' /\ KnowledgeInv'
<1>1. /\ session' = session /\ token' = token /\ sent' = sent /\ requests' = requests
      /\ written' = written /\ DOMAIN tab = Tab
  BY DEF PagesInv
<1>2. StoreInv' BY <1>1 DEF StoreInv
<1>3. tab'[t] = page /\ \A u \in Tab : u # t => tab'[u] = tab[u] BY <1>1
<1>4. /\ page.view = None \/ Shown(session, token, page.view)
      /\ page.fields => Shown(session, token, page.view)
  <2>1. CASE page.fields = tab[t].fields /\ page.view = tab[t].view
    BY <2>1 DEF KnowledgeInv
  <2>2. ASSUME NEW answer \in answers, answer.id = tab[t].waiting, answer.body.ok,
               page.view = answer.body.view
        PROVE  Shown(session, token, page.view)
    <3>1. Sendable(session, token, answer.body) BY <2>2 DEF KnowledgeInv
    <3>2. QED BY <2>2, <3>1 DEF Sendable
  <2>3. QED BY <2>1, <2>2
<1>5. ASSUME NEW u \in Tab
      PROVE  /\ tab'[u].view = None \/ Shown(session, token, tab'[u].view)
             /\ tab'[u].fields => Shown(session, token, tab'[u].view)
  BY <1>3, <1>4 DEF KnowledgeInv
<1>6. ASSUME NEW a \in answers'
      PROVE  /\ a.body = None \/ Sendable(session, token, a.body)
             /\ \A u \in Tab : tab'[u].waiting = a.id => Sendable(session, token, a.body)
  <2>1. /\ a.id \in 1..sent /\ (a.body = None \/ Sendable(session, token, a.body))
        /\ \A u \in Tab : u # t /\ tab[u].waiting = a.id => Sendable(session, token, a.body)
    BY <1>6, AbandonedKnowledge
  <2>2. page.waiting # a.id BY <2>1 DEF PagesInv
  <2>3. QED BY <1>3, <2>1, <2>2
<1>7. KnowledgeInv' BY <1>1, <1>5, <1>6 DEF KnowledgeInv
<1>8. QED BY <1>2, <1>7

(* New sessions are whole, and have nothing of anyone.                      *)
LEMMA NewStore ==
  ASSUME NEW store, store = [mode \in SessionMode |-> NewSession]
  PROVE  /\ store = [mode \in SessionMode |-> store[mode]]
         /\ \A mode \in SessionMode : SessionInv(mode, store[mode])
         /\ \A mode \in SessionMode : \A who \in RequiredReviewers(mode) :
              Len(Theirs(store[mode], who)) = 0
<1>1. Len(<<>>) = 0 OBVIOUS
<1>2. \A mode \in SessionMode : store[mode] = NewSession OBVIOUS
<1>3. \A mode \in SessionMode :
        SessionInv(mode, NewSession) /\ \A who : Theirs(NewSession, who) = <<>>
  BY NewSessionWhole
<1>4. QED BY <1>1, <1>2, <1>3

(* A page of an earlier server shows what was true of that server.          *)
LEMMA RestartKnowledge ==
  ASSUME PagesInv, StoreInv, KnowledgeInv, Restart
  PROVE  StoreInv' /\ KnowledgeInv'
<1>1. /\ session' = [mode \in SessionMode |-> NewSession] /\ token' = token + 1
      /\ tab' = tab /\ sent' = sent /\ requests' = {} /\ answers' = {} /\ written' = <<>>
      /\ token \in Nat /\ sent \in Nat
  BY DEF Restart, PagesInv
<1>2. StoreInv'
  <2>1. /\ session' = [mode \in SessionMode |-> session'[mode]]
        /\ \A mode \in SessionMode : SessionInv(mode, session'[mode])
        /\ \A mode \in SessionMode : \A who \in RequiredReviewers(mode) :
             Len(Theirs(session'[mode], who)) = 0
    BY <1>1, NewStore
  <2>2. 0 <= sent' BY <1>1
  <2>3. QED BY <2>1, <2>2 DEF StoreInv
<1>3. \A view : Shown(session, token, view) => Shown(session', token', view)
  <2>1. \A n \in 0..token : n \in 0..token' /\ n # token' BY <1>1
  <2>2. QED BY <2>1 DEF Shown
<1>4. \A t \in Tab : /\ tab'[t].view = None \/ Shown(session', token', tab'[t].view)
                     /\ tab'[t].fields => Shown(session', token', tab'[t].view)
  BY <1>1, <1>3 DEF KnowledgeInv
<1>5. written' \in Seq({}) /\ DOMAIN written' = {} BY <1>1
<1>6. KnowledgeInv' BY <1>1, <1>4, <1>5 DEF KnowledgeInv
<1>7. QED BY <1>2, <1>6

LEMMA KnowledgeInit == Init => StoreInv /\ KnowledgeInv
<1> SUFFICES ASSUME Init PROVE StoreInv /\ KnowledgeInv OBVIOUS
<1>1. /\ session = [mode \in SessionMode |-> NewSession] /\ sent = 0
      /\ tab = [t \in Tab |-> ClosedPage] /\ requests = {} /\ answers = {} /\ written = <<>>
  BY DEF Init
<1>2. StoreInv
  <2>1. /\ session = [mode \in SessionMode |-> session[mode]]
        /\ \A mode \in SessionMode : SessionInv(mode, session[mode])
        /\ \A mode \in SessionMode : \A who \in RequiredReviewers(mode) :
             Len(Theirs(session[mode], who)) = 0
    BY <1>1, NewStore
  <2>2. 0 <= sent BY <1>1
  <2>3. QED BY <2>1, <2>2 DEF StoreInv
<1>3. ClosedPage.view = None /\ ClosedPage.fields = FALSE BY DEF ClosedPage
<1>4. written \in Seq({}) /\ DOMAIN written = {} BY <1>1
<1>5. KnowledgeInv BY <1>1, <1>3, <1>4 DEF KnowledgeInv
<1>6. QED BY <1>2, <1>5

LEMMA KnowledgeStep ==
  PagesInv /\ StoreInv /\ KnowledgeInv /\ [Next]_vars => StoreInv' /\ KnowledgeInv'
<1> SUFFICES ASSUME PagesInv, StoreInv, KnowledgeInv, [Next]_vars
             PROVE  StoreInv' /\ KnowledgeInv'
  OBVIOUS
<1>1. CASE UNCHANGED vars BY <1>1 DEF vars, StoreInv, KnowledgeInv
<1>2. ASSUME NEW t \in Tab, Load(t) \/ Reload(t) \/ Submit(t) PROVE StoreInv' /\ KnowledgeInv'
  BY <1>2, SentKnowledge
<1>3. ASSUME NEW t \in Tab, NEW page, tab' = [tab EXCEPT ![t] = page], page.waiting = 0,
             \/ page.fields = tab[t].fields /\ page.view = tab[t].view
             \/ \E answer \in answers :
                  answer.id = tab[t].waiting /\ answer.body.ok /\ page.view = answer.body.view,
             answers' = Abandoned(t), UNCHANGED <<session, token, sent, requests, written>>
      PROVE  StoreInv' /\ KnowledgeInv'
  BY <1>3, SettledKnowledge
<1>4. ASSUME NEW req \in Open, Handle(req) PROVE StoreInv' /\ KnowledgeInv'
  BY <1>4, HandledStore, HandledKnowledge
<1>5. CASE Restart BY <1>5, RestartKnowledge
<1>6. QED BY <1>1, <1>2, <1>3, <1>4, <1>5, PageSteps
-----------------------------------------------------------------------------
(* What begins a sequence is its first elements.                            *)
LEMMA BeginsWith ==
  ASSUME NEW E, NEW short \in Seq(E), NEW long \in Seq(E), Begins(short, long)
  PROVE  short = SubSeq(long, 1, Len(short))
<1> DEFINE N == Len(short)
           first == SubSeq(long, 1, N)
<1>1. N \in Nat /\ Len(long) \in Nat /\ N <= Len(long) /\ \A n \in 1..N : long[n] = short[n]
  BY DEF Begins
<1>2. 1 \in 1..(Len(long) + 1) /\ N \in 0..Len(long) BY <1>1
<1>3. first \in Seq(E) /\ Len(first) = N /\ \A n \in 1..N : first[n] = long[n]
  BY <1>1
<1> HIDE DEF first
<1>4. \A n \in 1..N : first[n] = short[n] BY <1>1, <1>3
<1>5. first = short BY <1>3, <1>4, SeqEqual
<1>6. QED BY <1>5 DEF first

(* The inductive invariant of the workbench.                                *)
THEOREM WorkbenchInvariant == Spec => [](PagesInv /\ StoreInv /\ KnowledgeInv)
  BY PagesInit, PagesStep, KnowledgeInit, KnowledgeStep, PTL DEF Spec

LEMMA NotedUnseen == StoreInv /\ KnowledgeInv => NothingOverwrittenUnseen
<1> SUFFICES ASSUME StoreInv, KnowledgeInv, NEW n \in DOMAIN written
             PROVE  LET w      == written[n]
                        stored == ByReviewer(RecordsOf(session[w.mode].log), w.reviewer)
                    IN  w.seen = SubSeq(stored, 1, w.revision - 1)
  BY DEF NothingOverwrittenUnseen
<1> DEFINE w == written[n]
           stored == Theirs(session[w.mode], w.reviewer)
<1>1. /\ w.mode \in SessionMode /\ w.reviewer \in RequiredReviewers(w.mode)
      /\ w.seen \in Seq(Item(w.mode)) /\ Begins(w.seen, stored)
      /\ w.revision = Len(w.seen) + 1
  BY DEF KnowledgeInv, Noted, Seen
<1>2. session[w.mode].log \in Seq(SessionEvent(w.mode)) BY <1>1 DEF StoreInv, SessionInv
<1>3. stored \in Seq(Item(w.mode)) BY <1>1, <1>2, TheirsTyped
<1>4. Len(w.seen) \in Nat BY <1>1
<1> HIDE DEF w, stored
<1>5. w.seen = SubSeq(stored, 1, Len(w.seen)) BY <1>1, <1>3, BeginsWith
<1>6. w.revision - 1 = Len(w.seen) BY <1>1, <1>4
<1>7. w.seen = SubSeq(stored, 1, w.revision - 1) BY <1>5, <1>6
<1>8. QED BY <1>7 DEF w, stored, Theirs

LEMMA KnowledgeAgrees ==
  KnowledgeInv => SignedRecordsAreAccepted /\ StatusAgreesWithHistory
<1> SUFFICES ASSUME KnowledgeInv PROVE SignedRecordsAreAccepted /\ StatusAgreesWithHistory
  OBVIOUS
<1>1. SignedRecordsAreAccepted
  BY DEF KnowledgeInv, Sendable, Known, SignedRecordsAreAccepted
<1>2. StatusAgreesWithHistory
  <2>1. ASSUME NEW t \in Tab, tab[t].view # None
        PROVE  LET view == tab[t].view
               IN  Agrees(view.mode, view.records, view.reason, view.review_complete)
    BY <2>1 DEF KnowledgeInv, Shown
  <2>2. QED BY <2>1 DEF StatusAgreesWithHistory, Agrees, LastQualifies
<1>3. QED BY <1>1, <1>2

(* workbench.ts: for any tabs, sessions and bound, whoever stores an        *)
(* assessment had all earlier ones of that reviewer on the page.            *)
THEOREM WorkbenchNothingUnseen == Spec => []NothingOverwrittenUnseen
  BY WorkbenchInvariant, NotedUnseen, PTL

(* workbench.ts and durable-boundary.ts: what the server signs for a        *)
(* reviewer is never refused by its own boundary.                           *)
THEOREM WorkbenchRecordsAccepted == Spec => []SignedRecordsAreAccepted
  BY WorkbenchInvariant, KnowledgeAgrees, PTL

(* app.js: the status that a page shows says the same as the history that   *)
(* it shows below.                                                          *)
THEOREM WorkbenchStatusAgrees == Spec => []StatusAgreesWithHistory
  BY WorkbenchInvariant, KnowledgeAgrees, PTL
===============================================================================
