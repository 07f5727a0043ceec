----------------------------- MODULE HttpServers -----------------------------
(***************************************************************************)
(* The request handling of the two local HTTP servers: the evaluation API  *)
(* (src/http-server.ts) and the workbench (workbench-server.ts). Each      *)
(* connection carries one request. Its headers, the chunks of its body,    *)
(* its deadline, the end of its evaluation, the flush of its answer and    *)
(* the loss of its socket are events in any order. An evaluation that was  *)
(* started always ends, possibly after its request was answered or lost.   *)
(***************************************************************************)
EXTENDS Naturals

CONSTANTS
  Connection,      \* connections
  ServerOf,        \* connection -> "evaluation" or "workbench"
  Header,          \* the headers a client may send
  BodyLimit,       \* HTTP_BODY_LIMIT, WORKBENCH_BODY_LIMIT
  MaxChunk         \* bound: size of a chunk

ASSUME BodyLimitAssumption == BodyLimit \in Nat /\ MaxChunk \in Nat

VARIABLES
  listening,       \* the servers accept connections
  conn             \* connection -> state of its request

httpVars == <<listening, conn>>

(* Status 0: nothing is answered yet.                                       *)
Idle ==
  [phase |-> "idle", get |-> FALSE, status |-> 0, timer |-> FALSE, size |-> 0, buffered |-> 0,
   ended |-> FALSE, running |-> FALSE]
-----------------------------------------------------------------------------
(* What the handlers answer from the headers alone; 0 when the body is      *)
(* awaited. A content length that is missing or no number is no objection.  *)
EvaluationStatus(h) ==
  IF ~h.host \/ h.origin # "none" THEN 403
  ELSE IF h.url # "/v1/evaluate" THEN 404
  ELSE IF h.method # "POST" THEN 405
  ELSE IF ~h.json THEN 415
  ELSE IF h.length > BodyLimit THEN 413
  ELSE 0

(* A request from a page of the server itself carries its origin; a session *)
(* that cannot be read answers a GET with 503.                              *)
WorkbenchStatus(h) ==
  IF ~h.host \/ h.origin = "other" THEN 403
  ELSE IF h.method = "GET"
  THEN IF h.url \notin {"/", "/api/workbench"} THEN 404 ELSE IF h.readable THEN 200 ELSE 503
  ELSE IF h.url # "/api/reviews" THEN 404
  ELSE IF h.method # "POST" THEN 405
  ELSE IF h.origin # "self" \/ ~h.token THEN 403
  ELSE IF ~h.json THEN 415
  ELSE IF h.length > BodyLimit THEN 413
  ELSE 0

HeaderStatus(c, h) ==
  IF ServerOf[c] = "evaluation" THEN EvaluationStatus(h) ELSE WorkbenchStatus(h)

(* Mutant of Finish: an answer that was already written is not noticed.     *)
FinishAgain(r, status) ==
  IF r.phase = "closed" THEN r
  ELSE [r EXCEPT !.phase = "answered", !.status = status, !.timer = FALSE]

(* finish: res.destroyed or res.writableEnded, else clear the timer, answer. *)
Finish(r, status) ==
  IF r.phase \in {"answered", "closed"} THEN r
  ELSE [r EXCEPT !.phase = "answered", !.status = status, !.timer = FALSE]

(* Mutant of Closed: the timer outlives the connection.                     *)
ClosedOnly(r) == [r EXCEPT !.phase = "closed"]

(* The close handler of the response.                                       *)
Closed(r) == [r EXCEPT !.phase = "closed", !.timer = FALSE]

(* Mutant of Received: an oversized chunk is dropped and the rest is taken. *)
ReceivedPartly(r, n) ==
  IF r.size + n > BodyLimit THEN [r EXCEPT !.size = BodyLimit, !.buffered = 0]
  ELSE [r EXCEPT !.size = @ + n, !.buffered = @ + n]

(* The data handler.                                                        *)
Received(r, n) ==
  IF r.size + n > BodyLimit THEN Finish([r EXCEPT !.size = @ + n, !.buffered = 0], 413)
  ELSE [r EXCEPT !.size = @ + n, !.buffered = @ + n]
-----------------------------------------------------------------------------
Step(c, next) == conn' = [conn EXCEPT ![c] = next]

Connect(c) ==
  /\ listening /\ conn[c].phase = "idle"
  /\ Step(c, [conn[c] EXCEPT !.phase = "headers"])
  /\ UNCHANGED listening

(* The request handler up to its last early return; it arms the timer.      *)
Headers(c) ==
  /\ conn[c].phase = "headers"
  /\ \E h \in Header :
       LET r == [conn[c] EXCEPT !.phase = "body", !.timer = TRUE, !.get = (h.method = "GET")]
           status == HeaderStatus(c, h)
       IN  Step(c, IF status # 0 THEN Finish(r, status) ELSE r)
  /\ UNCHANGED listening

Data(c) ==
  /\ conn[c].phase = "body"
  /\ \E n \in 1..MaxChunk : Step(c, Received(conn[c], n))
  /\ UNCHANGED listening

(* The end handler: a body that is no JSON is refused, the workbench        *)
(* submits at once, an evaluation is started in the background.             *)
End(c) ==
  /\ conn[c].phase = "body"
  /\ LET r == [conn[c] EXCEPT !.ended = TRUE]
     IN  \/ Step(c, Finish(r, 400))
         \/ /\ ServerOf[c] = "workbench"
            /\ \E status \in {200, 400, 409, 422, 503} : Step(c, Finish(r, status))
         \/ /\ ServerOf[c] = "evaluation"
            /\ Step(c, [r EXCEPT !.phase = "evaluating", !.running = TRUE])
  /\ UNCHANGED listening

(* evaluateV1 settles.                                                      *)
Evaluated(c) ==
  /\ conn[c].running
  /\ \E status \in {200, 400, 500} : Step(c, Finish([conn[c] EXCEPT !.running = FALSE], status))
  /\ UNCHANGED listening

(* Mutant of RequestTimeout: the deadline covers the upload only.           *)
RequestTimeoutOfUpload(c) ==
  /\ conn[c].timer /\ conn[c].phase = "body"
  /\ Step(c, Finish(conn[c], 408))
  /\ UNCHANGED listening

RequestTimeout(c) ==
  /\ conn[c].timer
  /\ Step(c, Finish(conn[c], 408))
  /\ UNCHANGED listening

(* headersTimeout of the library: the handler was never called.             *)
HeadersTimeout(c) ==
  /\ conn[c].phase = "headers"
  /\ Step(c, Closed(conn[c]))
  /\ UNCHANGED listening

(* The answer is written, and "Connection: close" ends the connection.      *)
Flushed(c) ==
  /\ conn[c].phase = "answered"
  /\ Step(c, Closed(conn[c]))
  /\ UNCHANGED listening

(* The client goes away, or its socket was idle for too long.               *)
SocketLost(c) ==
  /\ conn[c].phase \notin {"idle", "closed"}
  /\ Step(c, Closed(conn[c]))
  /\ UNCHANGED listening

(* stop: close, then closeAllConnections.                                   *)
Stop ==
  /\ listening
  /\ listening' = FALSE
  /\ conn' = [c \in Connection |-> IF conn[c].phase = "idle" THEN conn[c] ELSE Closed(conn[c])]
-----------------------------------------------------------------------------
HttpInit == listening = TRUE /\ conn = [c \in Connection |-> Idle]

HttpNext ==
  \/ \E c \in Connection :
       \/ Connect(c) \/ Headers(c) \/ Data(c) \/ End(c) \/ Evaluated(c)
       \/ RequestTimeout(c) \/ HeadersTimeout(c) \/ Flushed(c) \/ SocketLost(c)
  \/ Stop

(* The event loop runs expired timers and flushes or drops what it wrote.   *)
HttpFairness ==
  \A c \in Connection :
    WF_httpVars(RequestTimeout(c)) /\ WF_httpVars(HeadersTimeout(c)) /\ WF_httpVars(Flushed(c))

HttpSpec == HttpInit /\ [][HttpNext]_httpVars /\ HttpFairness
-----------------------------------------------------------------------------
Phases == {"idle", "headers", "body", "evaluating", "answered", "closed"}

TypeOK ==
  /\ listening \in BOOLEAN
  /\ conn \in [Connection -> [phase : Phases, get : BOOLEAN, status : Nat, timer : BOOLEAN,
                              size : Nat, buffered : Nat, ended : BOOLEAN, running : BOOLEAN]]

(* The deadline of a request runs exactly while the handler has it and has  *)
(* not answered: none is left behind by an answer, a lost socket, a failed  *)
(* upload or a stop, and none is cleared while the client still waits.      *)
TimerIffPending ==
  \A c \in Connection : conn[c].timer <=> conn[c].phase \in {"body", "evaluating"}

(* A positive answer to an upload is about the whole upload: it ended, it   *)
(* was within the limit, and nothing of it was dropped from the buffer.     *)
AnswersWholeBody ==
  \A c \in Connection :
    conn[c].status = 200 /\ ~conn[c].get =>
      conn[c].ended /\ conn[c].size <= BodyLimit /\ conn[c].buffered = conn[c].size

(* However many chunks a client sends, what a request holds in memory is    *)
(* within the limit, also when no content length was declared.              *)
BufferBounded == \A c \in Connection : conn[c].buffered <= BodyLimit

(* One answer per request: a deadline racing the end of an evaluation, or   *)
(* an evaluation that ends after the client left, never writes a second one. *)
AnsweredOnce ==
  [][\A c \in Connection : conn[c].phase \in {"answered", "closed"} =>
       conn'[c].status = conn[c].status /\ conn'[c].phase \in {"answered", "closed"}]_httpVars

(* Every connection ends: a client that stalls in its headers or its body,  *)
(* an evaluation that does not come back and a reader that does not read    *)
(* cannot hold one open.                                                    *)
EveryConnectionEnds ==
  \A c \in Connection : conn[c].phase # "idle" ~> conn[c].phase = "closed"
=============================================================================
