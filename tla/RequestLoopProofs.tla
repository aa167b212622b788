------------------------- MODULE RequestLoopProofs -------------------------
(***************************************************************************)
(* Proofs about RequestLoop, for any pool, any descriptors and any limits. *)
(***************************************************************************)
EXTENDS RequestLoop, FiniteSetTheorems, TLAPS

(* Some client sends a POST without HTTP version, whose first body file is *)
(* forgotten.                                                              *)
Forgetful == "simple_post" \in Kinds

(* What a handler may do to the descriptors of its request, whatever it    *)
(* returns: nothing; get one besides the socket; close that one.           *)
FdEffect(r, q, ret) ==
  \/ /\ UNCHANGED <<aux, open>>
     /\ q.status = "READ_HEADER" => req[r].status = "READ_HEADER"
  \/ \E f \in FreeFds, closed \in {{}, {aux[r]}} :
       /\ aux' = [aux EXCEPT ![r] = f] /\ open' = (open \ closed) \cup {f}
       /\ closed = {} => req[r].status = "READ_HEADER"
       /\ q.status # "READ_HEADER" \/ ret = 0 \/ Forgetful
  \/ /\ aux' = [aux EXCEPT ![r] = NoFd] /\ open' = open \ {aux[r]}
     /\ ret = 0

(* The summary of a handler that the invariants need.  No handler asks to  *)
(* block a request it has declared dead.                                   *)
Handled(r) ==
  \E q \in Request, ret \in {-1, 0, 1} :
    Return(r, q, ret) /\ FdEffect(r, q, ret) /\ (ret = -1 => q.status # "DEAD")

(* The contents req_flush leaves behind are those of a request, dead or    *)
(* with the status it had.                                                 *)
LEMMA FlushedType ==
  ASSUME NEW r \in Slots, NEW q \in Request
  PROVE  \A x \in Flushed(r, q) : x \in Request /\ x.status \in {q.status, "DEAD"}
<1>1. \A b \in BOOLEAN : /\ [q EXCEPT !.buffered = b] \in Request
                         /\ [q EXCEPT !.buffered = b].status = q.status
  BY DEF Request
<1>2. Dead(q) \in Request /\ Dead(q).status = "DEAD"
  BY DEF Dead, Request, Statuses
<1>3. QED
  BY <1>1, <1>2 DEF Flushed

(* The same of an error reply.                                             *)
LEMMA SendType ==
  ASSUME NEW r \in Slots, NEW q \in Request
  PROVE  \A x \in send_r(r, q) : x \in Request /\ x.status \in {q.status, "DEAD"}
<1>1. SQUASH_KA(q) \in Request /\ SQUASH_KA(q).status = q.status
  BY DEF SQUASH_KA, Request
<1>2. QED
  BY <1>1, FlushedType DEF send_r

(* A handler that leaves the descriptors alone is one of those summarised. *)
LEMMA KeepingHandled ==
  ASSUME NEW r \in Slots, NEW q \in Request, NEW ret \in {0, 1},
         ReturnKeepingFds(r, q, ret),
         q.status = "READ_HEADER" => req[r].status = "READ_HEADER"
  PROVE  Handled(r)
<1>1. ret # -1 /\ ret \in {-1, 0, 1}
  OBVIOUS
<1>2. QED
  BY <1>1, Zenon DEF Handled, FdEffect, ReturnKeepingFds

(* So is one that would block.                                             *)
LEMMA BlockHandled ==
  ASSUME NEW r \in Slots, NEW q \in Request, ReturnKeepingFds(r, q, -1),
         q.status = "READ_HEADER" => req[r].status = "READ_HEADER",
         q.status # "DEAD"
  PROVE  Handled(r)
BY Zenon DEF Handled, FdEffect, ReturnKeepingFds

(* A reply that is built in the buffer and flushed, on the way to status   *)
(* st or with its own, is summarised too.                                  *)
LEMMA FlushedHandled ==
  ASSUME NEW r \in Slots, NEW q \in Request, NEW x \in Flushed(r, q) \cup send_r(r, q),
         NEW ret \in {0, 1}, ReturnKeepingFds(r, x, ret),
         q.status = "READ_HEADER" => req[r].status = "READ_HEADER"
  PROVE  Handled(r)
<1>1. x \in Request /\ x.status \in {q.status, "DEAD"}
  BY FlushedType, SendType
<1>2. QED
  BY <1>1, KeepingHandled

(* ... and so is one that ends in DONE.                                    *)
LEMMA FlushedDoneHandled ==
  ASSUME NEW r \in Slots, NEW q \in Request, NEW x \in Flushed(r, q) \cup send_r(r, q),
         NEW ret \in {0, 1}, ReturnKeepingFds(r, [x EXCEPT !.status = "DONE"], ret)
  PROVE  Handled(r)
<1>1. x \in Request
  BY FlushedType, SendType
<1>2. [x EXCEPT !.status = "DONE"] \in Request /\ [x EXCEPT !.status = "DONE"].status = "DONE"
  BY <1>1 DEF Request, Statuses
<1>3. QED
  BY <1>2, KeepingHandled

(* A handler that got a descriptor besides the socket is summarised.       *)
LEMMA OpeningHandled ==
  ASSUME NEW r \in Slots, NEW q \in Request, NEW ret \in {0, 1},
         NEW closed \in {{}, {aux[r]}},
         Return(r, q, ret), OpenAux(r, closed),
         closed = {} => req[r].status = "READ_HEADER",
         q.status # "READ_HEADER" \/ ret = 0 \/ Forgetful
  PROVE  Handled(r)
<1>1. ret # -1 /\ ret \in {-1, 0, 1}
  OBVIOUS
<1>2. QED
  BY <1>1, Zenon DEF Handled, FdEffect, OpenAux

(* init_cgi                                                                *)
LEMMA InitCgiHandled ==
  ASSUME NEW r \in Slots, NEW q0 \in Request, init_cgi(r, q0),
         q0.status = "READ_HEADER" => req[r].status = "READ_HEADER"
  PROVE  Handled(r)
<1> DEFINE q == SQUASH_KA(q0)
<1>1. q \in Request /\ q.status = q0.status
  BY DEF SQUASH_KA, Request
<1>2. CASE /\ OpenAux(r, {aux[r]})
           /\ \E p \in BOOLEAN : Return(r, [q EXCEPT !.status = "PIPE_READ", !.parse = p], 1)
  <2>1. PICK p \in BOOLEAN : Return(r, [q EXCEPT !.status = "PIPE_READ", !.parse = p], 1)
    BY <1>2
  <2>2. /\ [q EXCEPT !.status = "PIPE_READ", !.parse = p] \in Request
        /\ [q EXCEPT !.status = "PIPE_READ", !.parse = p].status = "PIPE_READ"
    BY <1>1 DEF Request, Statuses
  <2>3. {aux[r]} # {}
    OBVIOUS
  <2>4. QED
    BY <1>2, <2>1, <2>2, <2>3, OpeningHandled
<1>3. CASE /\ Return(r, q, 0)
           /\ aux' = [aux EXCEPT ![r] = NoFd] /\ open' = open \ {aux[r]}
  BY <1>1, <1>3 DEF Handled, FdEffect
<1>4. CASE ReturnKeepingFds(r, q, 0)
  BY <1>1, <1>4, KeepingHandled
<1>5. CASE \E x \in send_r(r, q) : ReturnKeepingFds(r, x, 0)
  BY <1>1, <1>5, FlushedHandled
<1>6. QED
  BY <1>2, <1>3, <1>4, <1>5 DEF init_cgi

(* Records a handler builds from q by assigning its buffer or its input    *)
(* are those of a request, and so is a dead one.                           *)
LEMMA EditsType ==
  ASSUME NEW q \in Request
  PROVE  /\ \A b \in BOOLEAN : /\ [q EXCEPT !.buffered = b] \in Request
                               /\ [q EXCEPT !.buffered = b].status = q.status
         /\ Dead(q) \in Request /\ Dead(q).status = "DEAD"
         /\ [q EXCEPT !.input = "new"] \in Request
         /\ [q EXCEPT !.input = "new"].status = q.status
BY DEF Request, Statuses, Dead

(* What parsing header lines leaves behind is a request that still reads   *)
(* its header.                                                             *)
LEMMA ParsedType ==
  ASSUME NEW q \in Request
  PROVE  /\ \A p \in ParsedLines(q) : p \in Request /\ p.status = q.status
         /\ \A p \in ParsedAll(q) : p \in Request /\ p.status = q.status
<1>1. \A k \in BOOLEAN, i \in {"new", "seen"} :
        Parsed(q, k, i) \in Request /\ Parsed(q, k, i).status = q.status
  BY DEF Parsed, Request
<1>2. q.keepalive \in BOOLEAN
  BY DEF Request
<1>3. \A p \in ParsedLines(q) : p \in Request /\ p.status = q.status
  BY <1>1, <1>2 DEF ParsedLines, KeepaliveAfter
<1>4. [q EXCEPT !.input = "seen"] \in Request /\ [q EXCEPT !.input = "seen"].status = q.status
  BY DEF Request
<1>5. QED
  BY <1>3, <1>4 DEF ParsedAll

(* The body of a POST comes next: still a request, in BODY_WRITE.          *)
LEMMA BodyType ==
  ASSUME NEW q \in Request, NEW b \in {"none", "held", "due"}
  PROVE  BodyNext(q, b) \in Request /\ BodyNext(q, b).status = "BODY_WRITE"
BY DEF BodyNext, Request, Statuses

(* The branches of process_header_end that leave the descriptors alone     *)
LEMMA AnswerHandled ==
  ASSUME NEW r \in Slots, NEW q \in Request, req[r].status = "READ_HEADER",
         \/ init_get(r, q) \/ uri_handler(r, q) \/ uri_handler_post(r, q) \/ get_stream(r, q)
  PROVE  Handled(r)
<1>1. CASE init_get(r, q)
  <2>1. /\ [q EXCEPT !.status = "WRITE", !.buffered = TRUE] \in Request
        /\ [q EXCEPT !.status = "WRITE", !.buffered = TRUE].status = "WRITE"
    BY DEF Request, Statuses
  <2>2. CASE \E ret \in {0, 1} :
               ReturnKeepingFds(r, [q EXCEPT !.status = "WRITE", !.buffered = TRUE], ret)
    BY <2>1, <2>2, KeepingHandled
  <2>3. CASE \E x \in Flushed(r, q) : ReturnKeepingFds(r, [x EXCEPT !.status = "DONE"], 1)
    BY <2>3, FlushedDoneHandled
  <2>4. QED
    BY <1>1, <2>2, <2>3 DEF init_get
<1>2. CASE uri_handler(r, q)
  <2>1. CASE \E k \in {q.keepalive, FALSE}, st \in {"DONE", "WRITE", "DEAD"} :
               ReturnKeepingFds(r, [q EXCEPT !.status = st, !.buffered = TRUE, !.keepalive = k], 1)
    <3>1. \A k \in {q.keepalive, FALSE}, st \in {"DONE", "WRITE", "DEAD"} :
            /\ [q EXCEPT !.status = st, !.buffered = TRUE, !.keepalive = k] \in Request
            /\ [q EXCEPT !.status = st, !.buffered = TRUE, !.keepalive = k].status = st
      BY DEF Request, Statuses
    <3>2. QED
      BY <2>1, <3>1, KeepingHandled
  <2>2. CASE ReturnKeepingFds(r, [q EXCEPT !.status = "BODY_READ"], 1)
    <3>1. /\ [q EXCEPT !.status = "BODY_READ"] \in Request
          /\ [q EXCEPT !.status = "BODY_READ"].status = "BODY_READ"
      BY DEF Request, Statuses
    <3>2. QED
      BY <2>2, <3>1, KeepingHandled
  <2>3. CASE ReturnKeepingFds(r, q, 0)
    BY <2>3, KeepingHandled
  <2>4. QED
    BY <1>2, <2>1, <2>2, <2>3 DEF uri_handler
<1>3. CASE uri_handler_post(r, q)
  <2>1. PICK k \in {q.keepalive, FALSE}, b \in {"held", "due"} :
          ReturnKeepingFds(r, [BodyNext(q, b) EXCEPT !.buffered = TRUE, !.keepalive = k], 1)
    BY <1>3 DEF uri_handler_post
  <2>2. BodyNext(q, b) \in Request /\ BodyNext(q, b).status = "BODY_WRITE"
    BY BodyType
  <2>3. q.keepalive \in BOOLEAN
    BY DEF Request
  <2>4. /\ [BodyNext(q, b) EXCEPT !.buffered = TRUE, !.keepalive = k] \in Request
        /\ [BodyNext(q, b) EXCEPT !.buffered = TRUE, !.keepalive = k].status = "BODY_WRITE"
    BY <2>2, <2>3 DEF Request
  <2>5. QED
    BY <2>1, <2>4, KeepingHandled
<1>4. CASE get_stream(r, q)
  <2> DEFINE s == [q EXCEPT !.status = "WRITE", !.streaming = TRUE, !.stream_age = 0]
  <2>1. 0 \in StreamAges
    BY LimitsAssumption DEF StreamAges
  <2>2. s \in Request /\ s.status = "WRITE"
    BY <2>1 DEF Request, Statuses
  <2>3. \/ ReturnKeepingFds(r, [s EXCEPT !.buffered = TRUE], 1)
        \/ \E x \in send_r(r, s), ret \in {0, 1} : ReturnKeepingFds(r, x, ret)
    BY <1>4 DEF get_stream
  <2> HIDE DEF s
  <2>4. [s EXCEPT !.buffered = TRUE] \in Request /\ [s EXCEPT !.buffered = TRUE].status = "WRITE"
    BY <2>2 DEF Request
  <2>5. QED
    BY <2>2, <2>3, <2>4, KeepingHandled, FlushedHandled
<1>5. QED
  BY <1>1, <1>2, <1>3, <1>4

(* ... and those that open a file for the request, which had none          *)
LEMMA OpenedHandled ==
  ASSUME NEW r \in Slots, NEW q \in Request, req[r].status = "READ_HEADER",
         init_get_big(r, q) \/ direct_read(r, q) \/ post_body(r, q)
  PROVE  Handled(r)
<1>1. CASE init_get_big(r, q)
  <2>1. PICK x \in Flushed(r, [q EXCEPT !.status = "PIPE_READ"]) : Return(r, x, 1)
    BY <1>1 DEF init_get_big
  <2>2. /\ [q EXCEPT !.status = "PIPE_READ"] \in Request
        /\ [q EXCEPT !.status = "PIPE_READ"].status = "PIPE_READ"
    BY DEF Request, Statuses
  <2>3. x \in Request /\ x.status # "READ_HEADER"
    BY <2>2, FlushedType
  <2>4. QED
    BY <1>1, <2>1, <2>3, OpeningHandled DEF init_get_big
<1>2. CASE direct_read(r, q)
  <2>1. PICK x \in send_r(r, q) \cup {SQUASH_KA(q)} : Return(r, x, 0)
    BY <1>2 DEF direct_read
  <2>2. SQUASH_KA(q) \in Request
    BY DEF SQUASH_KA, Request
  <2>3. x \in Request
    BY <2>2, SendType
  <2>4. QED
    BY <1>2, <2>1, <2>3, OpeningHandled DEF direct_read
<1>3. CASE post_body(r, q)
  <2>1. CASE ReturnKeepingFds(r, q, 0)
    BY <2>1, KeepingHandled
  <2>2. CASE /\ OpenAux(r, {})
             /\ \E b \in {"held", "due"} : Return(r, BodyNext(q, b), 1)
    <3>1. PICK b \in {"held", "due"} : Return(r, BodyNext(q, b), 1)
      BY <2>2
    <3>2. BodyNext(q, b) \in Request /\ BodyNext(q, b).status = "BODY_WRITE"
      BY BodyType
    <3>3. QED
      BY <2>2, <3>1, <3>2, OpeningHandled
  <2>3. CASE /\ OpenAux(r, {})
             /\ \E x \in send_r(r, BodyNext(q, "none")) : Return(r, x, 0)
    <3>1. PICK x \in send_r(r, BodyNext(q, "none")) : Return(r, x, 0)
      BY <2>3
    <3>2. BodyNext(q, "none") \in Request
      BY BodyType
    <3>3. x \in Request
      BY <3>2, SendType
    <3>4. QED
      BY <2>3, <3>1, <3>3, OpeningHandled
  <2>4. QED
    BY <1>3, <2>1, <2>2, <2>3 DEF post_body
<1>4. QED
  BY <1>1, <1>2, <1>3

(* process_header_end                                                      *)
LEMMA HeaderEndHandled ==
  ASSUME NEW r \in Slots, NEW q \in Request, process_header_end(r, q),
         q.status = "READ_HEADER", req[r].status = "READ_HEADER"
  PROVE  Handled(r)
<1>1. CASE \E x \in send_r(r, q) : ReturnKeepingFds(r, x, 0)
  BY <1>1, FlushedHandled
<1>2. CASE \/ init_get(r, q) \/ uri_handler(r, q) \/ uri_handler_post(r, q) \/ get_stream(r, q)
  BY <1>2, AnswerHandled
<1>3. CASE init_get_big(r, q) \/ direct_read(r, q) \/ post_body(r, q)
  BY <1>3, OpenedHandled
<1>4. CASE init_cgi(r, q)
  BY <1>4, InitCgiHandled
<1>5. CASE ReturnKeepingFds(r, SQUASH_KA(q), 0)
  <2>1. SQUASH_KA(q) \in Request
    BY DEF SQUASH_KA, Request
  <2>2. QED
    BY <1>5, <2>1, KeepingHandled
<1>6. QED
  BY <1>1, <1>2, <1>3, <1>4, <1>5 DEF process_header_end

(* The handlers that only read and write: FlushFirst, read_body,           *)
(* process_get, write_from_pipe, flush_done and bury_dead.                 *)
LEMMA PlainHandlersHandled ==
  ASSUME NEW r \in Slots, req[r] \in Request,
         \/ FlushFirst(r) \/ read_body(r) \/ process_get(r)
         \/ write_from_pipe(r) \/ flush_done(r) \/ bury_dead(r)
  PROVE  Handled(r)
<1> DEFINE q == req[r]
<1>1. CASE FlushFirst(r)
  BY <1>1, EditsType, KeepingHandled, BlockHandled DEF FlushFirst
<1>2. CASE read_body(r)
  <2>1. q.status = "BODY_READ"
    BY <1>2 DEF read_body, Dispatch
  <2>2. CASE ReturnKeepingFds(r, q, -1)
    BY <2>1, <2>2, BlockHandled
  <2>3. CASE ReturnKeepingFds(r, [q EXCEPT !.status = "BODY_WRITE"], 1)
    <3>1. /\ [q EXCEPT !.status = "BODY_WRITE"] \in Request
          /\ [q EXCEPT !.status = "BODY_WRITE"].status = "BODY_WRITE"
      BY DEF Request, Statuses
    <3>2. QED
      BY <2>3, <3>1, KeepingHandled
  <2>4. CASE \E x \in send_r(r, q) : ReturnKeepingFds(r, x, 0)
    BY <2>1, <2>4, FlushedHandled
  <2>5. CASE ReturnKeepingFds(r, BodyNext(q, "held"), 1)
    BY <2>5, BodyType, KeepingHandled
  <2>6. QED
    BY <1>2, <2>2, <2>3, <2>4, <2>5 DEF read_body
<1>3. CASE process_get(r)
  <2>1. q.status = "WRITE"
    BY <1>3 DEF process_get, Dispatch
  <2>2. CASE ReturnKeepingFds(r, q, -1) \/ \E ret \in {0, 1} : ReturnKeepingFds(r, q, ret)
    BY <2>1, <2>2, KeepingHandled, BlockHandled
  <2>3. CASE ReturnKeepingFds(r, [q EXCEPT !.buffered = TRUE, !.stream_age = 0], 1)
    <3>1. 0 \in StreamAges
      BY LimitsAssumption DEF StreamAges
    <3>2. /\ [q EXCEPT !.buffered = TRUE, !.stream_age = 0] \in Request
          /\ [q EXCEPT !.buffered = TRUE, !.stream_age = 0].status = "WRITE"
      BY <2>1, <3>1 DEF Request
    <3>3. QED
      BY <2>3, <3>2, KeepingHandled
  <2>4. CASE ReturnKeepingFds(r, [q EXCEPT !.status = "DEAD"], 0)
    <3>1. [q EXCEPT !.status = "DEAD"] \in Request /\ [q EXCEPT !.status = "DEAD"].status = "DEAD"
      BY DEF Request, Statuses
    <3>2. QED
      BY <2>4, <3>1, KeepingHandled
  <2>5. QED
    BY <1>3, <2>2, <2>3, <2>4 DEF process_get
<1>4. CASE write_from_pipe(r)
  <2>0. q.status = "PIPE_WRITE"
    BY <1>4 DEF write_from_pipe, Dispatch
  <2>1. CASE ReturnKeepingFds(r, q, -1) \/ \E ret \in {0, 1} : ReturnKeepingFds(r, q, ret)
    BY <2>0, <2>1, KeepingHandled, BlockHandled
  <2>2. CASE \E st \in {"PIPE_READ", "DEAD"}, ret \in {0, 1} :
               ReturnKeepingFds(r, [q EXCEPT !.status = st], ret)
    <3>1. \A st \in {"PIPE_READ", "DEAD"} :
            [q EXCEPT !.status = st] \in Request /\ [q EXCEPT !.status = st].status = st
      BY DEF Request, Statuses
    <3>2. QED
      BY <2>2, <3>1, KeepingHandled
  <2>3. QED
    BY <1>4, <2>1, <2>2 DEF write_from_pipe
<1>5. CASE flush_done(r)
  <2>0. q.status = "DONE"
    BY <1>5 DEF flush_done
  <2>1. CASE ReturnKeepingFds(r, q, -1) \/ \E ret \in {0, 1} : ReturnKeepingFds(r, q, ret)
    BY <2>0, <2>1, KeepingHandled, BlockHandled
  <2>2. CASE ReturnKeepingFds(r, [q EXCEPT !.buffered = FALSE], 0)
    BY <2>2, EditsType, KeepingHandled
  <2>3. CASE ReturnKeepingFds(r, Dead(q), 0)
    BY <2>3, EditsType, KeepingHandled
  <2>4. QED
    BY <1>5, <2>1, <2>2, <2>3 DEF flush_done
<1>6. CASE bury_dead(r)
  <2>1. /\ SQUASH_KA([q EXCEPT !.buffered = FALSE]) \in Request
        /\ SQUASH_KA([q EXCEPT !.buffered = FALSE]).status = q.status
    BY DEF SQUASH_KA, Request
  <2>2. QED
    BY <1>6, <2>1, KeepingHandled DEF bury_dead
<1>7. QED
  BY <1>1, <1>2, <1>3, <1>4, <1>5, <1>6

(* The first body file of a POST without HTTP version.                     *)
LEMMA SimplePostHandled ==
  ASSUME NEW r \in Slots, req[r] \in Request, req[r].status = "READ_HEADER",
         simple_post(r, req[r])
  PROVE  Handled(r)
<1>1. PICK i \in {"new", "seen"} : Return(r, Parsed(req[r], req[r].keepalive, i), 1)
  BY DEF simple_post
<1>2. Parsed(req[r], req[r].keepalive, i) \in Request
  BY DEF Parsed, Request
<1>3. OpenAux(r, {}) /\ Forgetful
  BY DEF simple_post, Forgetful
<1>4. QED
  BY <1>1, <1>2, <1>3, OpeningHandled

(* read_header                                                             *)
LEMMA ReadHeaderHandled ==
  ASSUME NEW r \in Slots, req[r] \in Request, read_header(r)
  PROVE  Handled(r)
<1> DEFINE q == req[r]
<1>1. q.status = "READ_HEADER"
  BY DEF read_header, Dispatch
<1>2. CASE \E p \in ParsedLines(q) : process_header_end(r, p)
  BY <1>1, <1>2, ParsedType, HeaderEndHandled
<1>3. CASE \E p \in ParsedLines(q) \cup ParsedAll(q), ret \in {-1, 0} : ReturnKeepingFds(r, p, ret)
  BY <1>1, <1>3, ParsedType, KeepingHandled, BlockHandled
<1>4. CASE \E p \in ParsedLines(q) : \E x \in send_r(r, p) : ReturnKeepingFds(r, x, 0)
  BY <1>1, <1>4, ParsedType, FlushedHandled
<1>5. CASE \E p \in ParsedAll(q) : ReturnKeepingFds(r, [p EXCEPT !.input = "new"], 1)
  BY <1>1, <1>5, ParsedType, EditsType, KeepingHandled
<1>6. CASE \E p \in ParsedAll(q) : ReturnKeepingFds(r, Dead(p), 0)
  BY <1>6, ParsedType, EditsType, KeepingHandled
<1>7. CASE simple_post(r, q)
  BY <1>1, <1>7, SimplePostHandled
<1>8. QED
  BY <1>2, <1>3, <1>4, <1>5, <1>6, <1>7 DEF read_header

(* write_body                                                              *)
LEMMA WriteBodyHandled ==
  ASSUME NEW r \in Slots, req[r] \in Request, write_body(r)
  PROVE  Handled(r)
<1> DEFINE q == req[r]
<1>1. CASE ReturnKeepingFds(r, [q EXCEPT !.status = "BODY_READ"], 1)
  <2>1. /\ [q EXCEPT !.status = "BODY_READ"] \in Request
        /\ [q EXCEPT !.status = "BODY_READ"].status = "BODY_READ"
    BY DEF Request, Statuses
  <2>2. QED
    BY <1>1, <2>1, KeepingHandled
<1>2. CASE ReturnKeepingFds(r, q, -1)
  <2>1. q.status = "BODY_WRITE"
    BY DEF write_body, Dispatch
  <2>2. QED
    BY <1>2, <2>1, BlockHandled
<1>3. CASE init_cgi(r, q)
  BY <1>3, InitCgiHandled
<1>4. CASE \E x \in send_r(r, q) : ReturnKeepingFds(r, x, 0)
  BY <1>4, FlushedHandled
<1>5. CASE \E b \in {"due", "none"} : ReturnKeepingFds(r, BodyNext(q, b), 1)
  BY <1>5, BodyType, KeepingHandled
<1>6. QED
  BY <1>1, <1>2, <1>3, <1>4, <1>5 DEF write_body

(* read_from_pipe and the process_cgi_header it may call                   *)
LEMMA ReadPipeHandled ==
  ASSUME NEW r \in Slots, req[r] \in Request, read_from_pipe(r)
  PROVE  Handled(r)
<1> DEFINE q == req[r]
           p(st) == [q EXCEPT !.parse = FALSE, !.status = st]
<1>1. CASE ReturnKeepingFds(r, q, -1)
  <2>1. q.status = "PIPE_READ"
    BY DEF read_from_pipe, Dispatch
  <2>2. QED
    BY <1>1, <2>1, BlockHandled
<1>2. CASE \E st \in {"DEAD", "PIPE_WRITE"}, ret \in {0, 1} :
             ReturnKeepingFds(r, [q EXCEPT !.status = st], ret)
  <2>1. \A st \in {"DEAD", "PIPE_WRITE"} :
          [q EXCEPT !.status = st] \in Request /\ [q EXCEPT !.status = st].status = st
    BY DEF Request, Statuses
  <2>2. QED
    BY <1>2, <2>1, KeepingHandled
<1>3. CASE \E st \in {"PIPE_READ", "PIPE_WRITE"} : process_cgi_header(r, p(st))
  <2>1. PICK st \in {"PIPE_READ", "PIPE_WRITE"} : process_cgi_header(r, p(st))
    BY <1>3
  <2>2. p(st) \in Request /\ p(st).status # "READ_HEADER"
    BY DEF Request, Statuses
  <2> HIDE DEF p
  <2>3. CASE ReturnKeepingFds(r, p(st), 1)
    BY <2>2, <2>3, KeepingHandled
  <2>4. CASE \E x \in Flushed(r, p(st)) \cup send_r(r, p(st)), ret \in {0, 1} :
               ReturnKeepingFds(r, x, ret)
    BY <2>2, <2>4, FlushedHandled
  <2>5. CASE \E x \in send_r(r, p(st)) : ReturnKeepingFds(r, [x EXCEPT !.status = "DONE"], 1)
    BY <2>2, <2>5, FlushedDoneHandled
  <2>6. QED
    BY <2>1, <2>3, <2>4, <2>5 DEF process_cgi_header
<1>4. QED
  BY <1>1, <1>2, <1>3 DEF read_from_pipe

(* Whatever handler process_requests dispatches to, its effect is one of   *)
(* the effects summarised by Handled.                                      *)
LEMMA HandleHandled ==
  ASSUME NEW r \in Slots, req[r] \in Request, Handle(r)
  PROVE  Handled(r)
BY PlainHandlersHandled, ReadHeaderHandled, WriteBodyHandled, ReadPipeHandled DEF Handle

-----------------------------------------------------------------------------
(* Types and queues                                                        *)

(* The other records the loop builds are those of requests, too.           *)
LEMMA RecordsType ==
  /\ Blank \in Request /\ Blank.status = "READ_HEADER"
  /\ \A f \in Fds : \A q \in Accepted(f) : q \in Request
  /\ \A q \in Request, n \in 0 .. ka_max : /\ Inherited(q, n) \in Request
                                          /\ Inherited(q, n).status = "READ_HEADER"
<1>1. 0 \in 0 .. ka_max /\ ka_max \in 0 .. ka_max /\ 0 \in Ages /\ 0 \in StreamAges
  BY LimitsAssumption DEF Ages, StreamAges
<1>2. Blank \in Request /\ Blank.status = "READ_HEADER"
  BY <1>1 DEF Blank, Request, Statuses
<1>3. \A b \in BOOLEAN :
        [Blank EXCEPT !.kacount = ka_max, !.status = "DONE", !.buffered = b] \in Request
  BY <1>1, <1>2 DEF Request, Statuses
<1>4. [Blank EXCEPT !.kacount = ka_max] \in Request
  BY <1>1, <1>2 DEF Request
<1>5. \A n \in 0 .. ka_max, i \in {"new", "empty"} :
        /\ [Blank EXCEPT !.kacount = n, !.input = i] \in Request
        /\ [Blank EXCEPT !.kacount = n, !.input = i].status = "READ_HEADER"
  BY <1>2 DEF Request
<1>6. QED
  BY <1>2, <1>3, <1>4, <1>5 DEF Accepted, Inherited

(* Time passing and time-outs turn requests into requests.                 *)
LEMMA AgingType ==
  ASSUME NEW q \in Request
  PROVE  /\ Older(q) \in Request /\ Older(q).status = q.status
         /\ Older(q).buffered = q.buffered
         /\ Expired(q) \in Request
         /\ Expired(q).status = "READ_HEADER" => q.status = "READ_HEADER"
<1>1. q.age \in Ages /\ q.stream_age \in StreamAges
  BY DEF Request
<1>2. /\ (IF q.age = REQUEST_TIMEOUT + 1 THEN q.age ELSE q.age + 1) \in Ages
      /\ (IF ~q.streaming \/ q.stream_age = STREAM_TIMEOUT_SEC + 1
          THEN q.stream_age ELSE q.stream_age + 1) \in StreamAges
  BY <1>1, LimitsAssumption DEF Ages, StreamAges
<1>3. Older(q) \in Request /\ Older(q).status = q.status /\ Older(q).buffered = q.buffered
  BY <1>2 DEF Older, Request
<1>4. /\ [q EXCEPT !.status = "DEAD"] \in Request
      /\ [q EXCEPT !.status = "DEAD"].status = "DEAD"
  BY DEF Request, Statuses
<1>5. QED
  BY <1>3, <1>4 DEF Expired

(* The invariant TypeOK and QueueOwnership are inductive in: each needs the *)
(* other.                                                                   *)
QInv == TypeOK /\ QueueOwnership

(* MAX_REQUEST is a number.                                                *)
LEMMA PoolSize == MAX_REQUEST \in Nat
BY SlotsAssumption, FS_CardinalityType DEF MAX_REQUEST

(* Accepting a connection, or not, keeps types and queues; whatever was    *)
(* ready stays ready.                                                      *)
LEMMA AcceptQueues ==
  ASSUME QInv, NEW reqs \in [Slots -> Request], AcceptIfPending(reqs)
  PROVE  /\ ready' \subseteq Slots /\ block' = block /\ free' \subseteq Slots
         /\ request_count' \in 0 .. MAX_REQUEST
         /\ req' \in [Slots -> Request] /\ fd' \in [Slots -> Fds \cup {NoFd}]
         /\ open' \subseteq Fds /\ stalled' \subseteq Fds
         /\ total_connections' \in Int /\ pending_requests' \in BOOLEAN
         /\ ready' \cap block' = {} /\ ready' \cap free' = {} /\ block' \cap free' = {}
         /\ ready \subseteq ready'
<1>1. CASE req' = reqs /\ UNCHANGED accepting /\ pending_requests' \in BOOLEAN
  BY <1>1 DEF QInv, TypeOK, QueueOwnership, accepting, queues, kernel
<1>2. ASSUME NEW s \in Slots, NEW f \in FreeFds, NewFd(f), new_request(s),
             free' = free \ {s}, ready' = ready \cup {s}, UNCHANGED block,
             fd' = [fd EXCEPT ![s] = f], open' = open \cup {f}, UNCHANGED stalled,
             total_connections' = total_connections + 1,
             \E q \in Accepted(f) : req' = [reqs EXCEPT ![s] = q],
             pending_requests' = (pending_requests /\ f <= max_connections)
      PROVE  /\ ready' \subseteq Slots /\ block' = block /\ free' \subseteq Slots
             /\ request_count' \in 0 .. MAX_REQUEST
             /\ req' \in [Slots -> Request] /\ fd' \in [Slots -> Fds \cup {NoFd}]
             /\ open' \subseteq Fds /\ stalled' \subseteq Fds
             /\ total_connections' \in Int /\ pending_requests' \in BOOLEAN
             /\ ready' \cap block' = {} /\ ready' \cap free' = {} /\ block' \cap free' = {}
             /\ ready \subseteq ready'
  <2>1. req' \in [Slots -> Request]
    BY <1>2, RecordsType DEF FreeFds
  <2>2. pending_requests' \in BOOLEAN
    BY <1>2
  <2>3. request_count' \in 0 .. MAX_REQUEST
    BY <1>2, PoolSize DEF QInv, TypeOK, new_request
  <2>4. s \notin block
    BY <1>2 DEF QInv, QueueOwnership, new_request, Unallocated
  <2>5. fd' \in [Slots -> Fds \cup {NoFd}] /\ open' \subseteq Fds /\ stalled' \subseteq Fds
    BY <1>2 DEF QInv, TypeOK, FreeFds
  <2>6. total_connections' \in Int
    BY <1>2 DEF QInv, TypeOK
  <2>7. QED
    BY <1>2, <2>1, <2>2, <2>3, <2>4, <2>5, <2>6 DEF QInv, TypeOK, QueueOwnership
<1>3. QED
  BY <1>1, <1>2 DEF AcceptIfPending, get_sock_request, QInv, TypeOK

(* new_request delivers a structure that is on no other list.              *)
LEMMA NewRequestQueues ==
  ASSUME QInv, NEW s \in Slots, new_request(s)
  PROVE  s \notin ready /\ s \notin block /\ request_count' \in 0 .. MAX_REQUEST
<1>1. request_count' \in 0 .. MAX_REQUEST
  BY PoolSize DEF QInv, TypeOK, new_request
<1>2. QED
  BY <1>1 DEF QInv, QueueOwnership, new_request, Unallocated

(* The descriptors a request waits on are descriptors.                     *)
LEMMA WaitsType ==
  ASSUME TypeOK, NEW r \in Slots, NEW q
  PROVE  WriteFds(r, q) \subseteq Fds \cup {NoFd} /\ ReadFds(r, q) \subseteq Fds \cup {NoFd}
BY DEF TypeOK, WriteFds, ReadFds

(* Initially types and queues are right.                                   *)
LEMMA InitQueues == Init => QInv
<1> SUFFICES ASSUME Init PROVE QInv
  OBVIOUS
<1>1. req \in [Slots -> Request]
  BY RecordsType DEF Init
<1>2. request_count \in 0 .. MAX_REQUEST
  BY PoolSize DEF Init
<1>3. fd \in [Slots -> Fds \cup {NoFd}] /\ aux \in [Slots -> Fds \cup {NoFd}]
  BY DEF Init
<1>4. srv \in BOOLEAN /\ pending_requests \in BOOLEAN
  BY DEF Init
<1>5. total_connections \in Int /\ sigterm \in {0, 1, 2} /\ retval \in {-1, 0, 1}
  BY DEF Init
<1>6. /\ ready = {} /\ block = {} /\ free = {} /\ open = {} /\ stalled = {}
      /\ rset = {} /\ wset = {} /\ pc = "top" /\ todo = {} /\ cur = NoSlot
  BY DEF Init
<1>7. TypeOK
  BY <1>1, <1>2, <1>3, <1>4, <1>5, <1>6 DEF TypeOK
<1>8. QueueOwnership
  BY <1>6 DEF QueueOwnership
<1>9. QED
  BY <1>7, <1>8 DEF QInv

(* A handler keeps them.                                                   *)
LEMMA HandleQueues ==
  ASSUME QInv, NEW r \in todo, Handle(r)
  PROVE  QInv'
<1>1. r \in Slots /\ req[r] \in Request
  BY DEF QInv, TypeOK
<1>2. PICK q \in Request, ret \in {-1, 0, 1} : Return(r, q, ret) /\ FdEffect(r, q, ret)
  BY <1>1, HandleHandled DEF Handled
<1>3. aux' \in [Slots -> Fds \cup {NoFd}] /\ open' \subseteq Fds
  BY <1>1, <1>2 DEF FdEffect, FreeFds, QInv, TypeOK
<1>4. req' \in [Slots -> Request]
  BY <1>1, <1>2 DEF Return, QInv, TypeOK
<1>5. QED
  BY <1>1, <1>2, <1>3, <1>4
     DEF Return, handling, queues, fdsets, QInv, TypeOK, QueueOwnership

(* AfterHandler and BeginProcess keep them.                                *)
LEMMA AcceptStepQueues ==
  ASSUME QInv, AfterHandler \/ BeginProcess
  PROVE  QInv'
<1>1. CASE AfterHandler
  <2>1. cur \in Slots
    BY <1>1 DEF AfterHandler, QInv, QueueOwnership, TypeOK
  <2> DEFINE reqs == IF sigterm # 0 THEN [req EXCEPT ![cur] = SQUASH_KA(@)] ELSE req
  <2>2. SQUASH_KA(req[cur]) \in Request
    <3>1. req[cur] \in Request
      BY <2>1 DEF QInv, TypeOK
    <3>2. QED
      BY <3>1 DEF SQUASH_KA, Request
  <2>3. reqs \in [Slots -> Request]
    BY <2>1, <2>2 DEF QInv, TypeOK
  <2>4. AcceptIfPending(reqs)
    BY <1>1 DEF AfterHandler
  <2> HIDE DEF reqs
  <2>5. QED
    BY <1>1, <2>3, <2>4, AcceptQueues
       DEF AfterHandler, QInv, TypeOK, QueueOwnership, fdsets, cursor
<1>2. CASE BeginProcess
  <2>1. req \in [Slots -> Request] /\ AcceptIfPending(req)
    BY <1>2 DEF BeginProcess, QInv, TypeOK
  <2>2. QED
    BY <1>2, <2>1, AcceptQueues DEF BeginProcess, QInv, TypeOK, QueueOwnership, fdsets
<1>3. QED
  BY <1>1, <1>2

(* free_request keeps them, for the request at the cursor.                 *)
LEMMA FreeQueues ==
  ASSUME QInv, NEW r \in ready \ todo, free_request(r), UNCHANGED <<wset, todo>>
  PROVE  /\ ready' \subseteq Slots /\ block' \subseteq Slots /\ free' \subseteq Slots
         /\ request_count' \in 0 .. MAX_REQUEST
         /\ req' \in [Slots -> Request]
         /\ fd' \in [Slots -> Fds \cup {NoFd}] /\ aux' \in [Slots -> Fds \cup {NoFd}]
         /\ open' \subseteq Fds /\ stalled' \subseteq Fds
         /\ rset' \subseteq Fds \cup {NoFd} /\ total_connections' \in Int
         /\ ready' \cap block' = {} /\ ready' \cap free' = {} /\ block' \cap free' = {}
         /\ todo \subseteq ready'
<1> DEFINE q == req[r]
<1>1. r \in Slots /\ q \in Request
  BY DEF QInv, TypeOK
<1>2. CASE /\ req' = [req EXCEPT ![r] = [q EXCEPT !.status = "DONE", !.age = 0]]
           /\ UNCHANGED <<queues, fd, aux, kernel, rset, total_connections>>
  <2>1. 0 \in Ages
    BY LimitsAssumption DEF Ages
  <2>2. [q EXCEPT !.status = "DONE", !.age = 0] \in Request
    BY <1>1, <2>1 DEF Request, Statuses
  <2>3. req' \in [Slots -> Request]
    BY <1>1, <1>2, <2>2 DEF QInv, TypeOK
  <2>4. QED
    BY <1>2, <2>3 DEF QInv, TypeOK, QueueOwnership, queues, kernel
<1>3. CASE CloseConnection(r) /\ UNCHANGED request_count
  <2>1. req' \in [Slots -> Request]
    BY <1>1, <1>3, RecordsType DEF CloseConnection, Close, QInv, TypeOK
  <2>2. total_connections' \in Int
    BY <1>3 DEF CloseConnection, Close, QInv, TypeOK
  <2>3. QED
    BY <1>1, <1>3, <2>1, <2>2 DEF CloseConnection, Close, QInv, TypeOK, QueueOwnership
<1>4. CASE q.kacount > 0 /\ \E s \in Slots : new_request(s) /\ KeepConnection(r, s)
  <2>1. PICK s \in Slots : new_request(s) /\ KeepConnection(r, s)
    BY <1>4
  <2>2. s \notin ready /\ s \notin block /\ request_count' \in 0 .. MAX_REQUEST
    BY <2>1, NewRequestQueues
  <2>3. q.kacount - 1 \in 0 .. ka_max
    <3>1. q.kacount \in 0 .. ka_max
      BY <1>1 DEF Request
    <3>2. QED
      BY <1>4, <3>1, LimitsAssumption
  <2>4. Blank \in Request /\ Inherited(q, q.kacount - 1) \in Request
    BY <1>1, <2>3, RecordsType
  <2>5. req' \in [Slots -> Request]
    BY <1>1, <2>1, <2>4 DEF KeepConnection, HandOver, QInv, TypeOK
  <2>6. QED
    BY <1>1, <2>1, <2>2, <2>5 DEF KeepConnection, HandOver, QInv, TypeOK, QueueOwnership
<1>5. QED
  BY <1>2, <1>3, <1>4 DEF free_request, NoRequest

(* Finish keeps them.                                                      *)
LEMMA FinishQueues ==
  ASSUME QInv, Finish
  PROVE  QInv'
<1>1. cur \in ready \ todo /\ cur \in Slots
  BY DEF Finish, QInv, QueueOwnership, TypeOK
<1>2. /\ pc' = "visit" /\ cur' = NoSlot /\ retval' = 0
      /\ UNCHANGED <<srv, pending_requests, sigterm, todo>>
  BY DEF Finish
<1>3. CASE /\ block_request(cur)
           /\ UNCHANGED <<free, request_count, req, fd, aux, kernel, total_connections>>
  BY <1>1, <1>2, <1>3, WaitsType DEF block_request, QInv, TypeOK, QueueOwnership, kernel
<1>4. CASE free_request(cur) /\ UNCHANGED wset
  BY <1>1, <1>2, <1>4, FreeQueues DEF QInv, TypeOK, QueueOwnership
<1>5. CASE /\ req' = [req EXCEPT ![cur].age = 0]
           /\ UNCHANGED <<queues, fd, aux, kernel, fdsets, total_connections>>
  <2>1. 0 \in Ages
    BY LimitsAssumption DEF Ages
  <2>2. [req[cur] EXCEPT !.age = 0] \in Request
    BY <1>1, <2>1 DEF QInv, TypeOK, Request
  <2>3. req' \in [Slots -> Request]
    BY <1>1, <1>5, <2>2 DEF QInv, TypeOK
  <2>4. QED
    BY <1>1, <1>2, <1>5, <2>3 DEF QInv, TypeOK, QueueOwnership, queues, kernel, fdsets
<1>6. QED
  BY <1>3, <1>4, <1>5 DEF Finish

(* fdset_update keeps them.                                                *)
LEMMA UpdateQueues ==
  ASSUME QInv, fdset_update
  PROVE  QInv'
<1> DEFINE woken == {r \in block : \/ Expired(req[r]).status = "DEAD"
                                  \/ Ripe(r, Expired(req[r]))}
<1>1. Update(woken, block \ woken)
  BY DEF fdset_update
<1>2. woken \subseteq block
  OBVIOUS
<1> HIDE DEF woken
<1>3. \A r \in Slots : req[r] \in Request /\ Expired(req[r]) \in Request
  BY AgingType DEF QInv, TypeOK
<1>4. req' \in [Slots -> Request]
  BY <1>1, <1>3 DEF Update
<1>5. /\ wset' \subseteq Fds \cup {NoFd} /\ rset' \subseteq Fds \cup {NoFd}
  <2>1. \A r \in block : r \in Slots
    BY DEF QInv, TypeOK
  <2>2. \A r \in block \ woken :
          /\ WriteFds(r, Expired(req[r])) \subseteq Fds \cup {NoFd}
          /\ ReadFds(r, Expired(req[r])) \subseteq Fds \cup {NoFd}
    BY <2>1, WaitsType DEF QInv
  <2>3. UNION {WriteFds(r, Expired(req[r])) : r \in block \ woken} \subseteq Fds \cup {NoFd}
    BY <2>2
  <2>4. UNION {ReadFds(r, Expired(req[r])) : r \in block \ woken} \subseteq Fds \cup {NoFd}
    BY <2>2
  <2>5. QED
    BY <1>1, <2>3, <2>4 DEF Update, QInv, TypeOK
<1>6. /\ pc = "fdset" /\ pc' = "begin"
      /\ ready' = ready \cup woken /\ block' = block \ woken
      /\ UNCHANGED <<free, request_count, fd, aux, kernel, srv, total_connections,
                     pending_requests, sigterm, cursor>>
  BY <1>1 DEF Update
<1>7. QED
  BY <1>2, <1>4, <1>5, <1>6 DEF QInv, TypeOK, QueueOwnership, kernel, cursor

(* The clock leaves requests.                                              *)
LEMMA ClockType ==
  ASSUME TypeOK, ClockMoves
  PROVE  /\ req' \in [Slots -> Request]
         /\ \A r \in Slots : req'[r].status = req[r].status /\ req'[r].buffered = req[r].buffered
<1>1. \A r \in Slots : /\ req[r] \in Request /\ Older(req[r]) \in Request
                       /\ Older(req[r]).status = req[r].status
                       /\ Older(req[r]).buffered = req[r].buffered
  BY AgingType DEF TypeOK
<1>2. QED
  BY <1>1 DEF ClockMoves

(* The other steps of the loop and the environment's keep types and queues. *)
LEMMA LoopQueues ==
  ASSUME QInv,
         \/ TopOfLoop \/ EndProcess \/ SelectSoon \/ SelectLater \/ SelectInterrupted
         \/ Tick \/ SigTerm \/ \E r \in Slots : Stall(r)
  PROVE  QInv'
<1>1. CASE TopOfLoop
  <2>1. /\ rset' \subseteq rset /\ wset' \subseteq wset /\ free' \subseteq free
        /\ srv' \in BOOLEAN
    BY <1>1 DEF TopOfLoop, sighup_run, fdsets
  <2>2. open' \subseteq open /\ stalled' \subseteq stalled /\ sigterm' \in {0, 1, 2}
    BY <1>1 DEF TopOfLoop, sigterm_stage1_run, kernel, QInv, TypeOK
  <2>3. /\ pc = "top" /\ pc' \in {"exit", "fdset"}
        /\ UNCHANGED <<ready, block, request_count, req, fd, aux, total_connections,
                       pending_requests, cursor>>
    BY <1>1 DEF TopOfLoop
  <2>4. QED
    BY <2>1, <2>2, <2>3 DEF QInv, TypeOK, QueueOwnership, cursor
<1>2. CASE EndProcess
  BY <1>2 DEF EndProcess, QInv, TypeOK, QueueOwnership, queues, kernel, fdsets, cursor
<1>3. CASE SelectSoon \/ SelectLater \/ SelectInterrupted
  <2>1. req' \in [Slots -> Request]
    BY <1>3, ClockType DEF SelectSoon, SelectLater, SelectInterrupted, QInv, TypeOK
  <2>2. /\ rset' \subseteq rset /\ wset' \subseteq wset /\ srv' \in BOOLEAN
        /\ pending_requests' \in BOOLEAN
    BY <1>3 DEF SelectSoon, SelectLater, SelectInterrupted, SelectReturn, SelectBadFd,
                fdsets, QInv, TypeOK
  <2>3. pc = "select" /\ pc' = "top" /\ UNCHANGED waiting
    BY <1>3 DEF SelectSoon, SelectLater, SelectInterrupted, SelectReturn, SelectBadFd
  <2>4. QED
    BY <2>1, <2>2, <2>3 DEF waiting, queues, kernel, cursor, QInv, TypeOK, QueueOwnership
<1>4. CASE Tick
  <2>1. req' \in [Slots -> Request]
    BY <1>4, ClockType DEF Tick, QInv
  <2>2. QED
    BY <1>4, <2>1 DEF Tick, queues, kernel, fdsets, cursor, QInv, TypeOK, QueueOwnership
<1>5. CASE SigTerm
  BY <1>5 DEF SigTerm, queues, kernel, fdsets, cursor, QInv, TypeOK, QueueOwnership
<1>6. CASE \E r \in Slots : Stall(r)
  <2>1. PICK r \in Slots : Stall(r)
    BY <1>6
  <2>2. stalled' \subseteq Fds
    BY <2>1 DEF Stall, QInv, TypeOK
  <2>3. QED
    BY <2>1, <2>2 DEF Stall, queues, fdsets, cursor, QInv, TypeOK, QueueOwnership
<1>7. QED
  BY <1>1, <1>2, <1>3, <1>4, <1>5, <1>6

(* TypeOK and QueueOwnership together are an inductive invariant.          *)
LEMMA QInvInductive == QInv /\ [Next]_vars => QInv'
<1> SUFFICES ASSUME QInv, [Next]_vars PROVE QInv'
  OBVIOUS
<1>1. CASE UNCHANGED vars
  BY <1>1 DEF vars, queues, kernel, fdsets, cursor, QInv, TypeOK, QueueOwnership
<1>2. CASE Next
  BY <1>2, UpdateQueues, AcceptStepQueues, HandleQueues, FinishQueues, LoopQueues
     DEF Next, Loop
<1>3. QED
  BY <1>1, <1>2

(* Every variable keeps its type, whatever the size of the pool, the       *)
(* number of descriptors and the limits.                                   *)
THEOREM TypeCorrect == Spec => []TypeOK
<1>1. QInv => TypeOK
  BY DEF QInv
<1>2. QED
  BY <1>1, InitQueues, QInvInductive, PTL DEF Spec

(* No structure is ever on two queues, and the request at the cursor of    *)
(* process_requests and those it has still to visit are on the ready list. *)
THEOREM QueuesDisjoint == Spec => []QueueOwnership
<1>1. QInv => QueueOwnership
  BY DEF QInv
<1>2. QED
  BY <1>1, InitQueues, QInvInductive, PTL DEF Spec

-----------------------------------------------------------------------------
(* Counting                                                                *)

(* What a step does to the live requests, to the count of connections and  *)
(* to the pool.                                                            *)
Pool == Live \cup free
LiveSame == Live' = Live /\ total_connections' = total_connections
LiveGrows == \E s \in Slots \ Live : /\ Live' = Live \cup {s}
                                     /\ total_connections' = total_connections + 1
LiveShrinks == \E r \in Live : /\ Live' = Live \ {r}
                              /\ total_connections' = total_connections - 1
LiveMoves == \E r \in Live, s \in Slots \ Live : /\ Live' = (Live \ {r}) \cup {s}
                                                /\ total_connections' = total_connections
PoolGrows == \/ Pool' \subseteq Pool /\ request_count' = request_count
             \/ \E s \in Slots : /\ Pool' \subseteq Pool \cup {s}
                                 /\ request_count' = request_count + 1

(* The effect of an acceptance.                                            *)
LEMMA AcceptCounts ==
  ASSUME QInv, NEW reqs, AcceptIfPending(reqs)
  PROVE  (LiveSame \/ LiveGrows) /\ PoolGrows
<1>1. CASE UNCHANGED accepting
  BY <1>1 DEF accepting, queues, LiveSame, PoolGrows, Live, Pool
<1>2. ASSUME NEW s \in Slots, new_request(s),
             free' = free \ {s}, ready' = ready \cup {s}, UNCHANGED block,
             total_connections' = total_connections + 1
      PROVE  LiveGrows /\ PoolGrows
  <2>1. s \notin Live
    BY <1>2, NewRequestQueues DEF Live
  <2>2. Live' = Live \cup {s}
    BY <1>2 DEF Live
  <2>3. LiveGrows
    BY <1>2, <2>1, <2>2 DEF LiveGrows
  <2>4. PoolGrows
    BY <1>2, <2>2 DEF new_request, PoolGrows, Pool
  <2>5. QED
    BY <2>3, <2>4
<1>3. QED
  BY <1>1, <1>2 DEF AcceptIfPending, get_sock_request

(* The effect of a release.                                                *)
LEMMA FreeCounts ==
  ASSUME QInv, NEW r \in ready \ todo, free_request(r)
  PROVE  (LiveSame \/ LiveShrinks \/ LiveMoves) /\ PoolGrows
<1>1. r \in Slots /\ r \in Live /\ r \notin block /\ r \notin free
  BY DEF QInv, TypeOK, QueueOwnership, Live
<1>2. CASE UNCHANGED <<queues, fd, aux, kernel, rset, total_connections>>
  BY <1>2 DEF queues, LiveSame, PoolGrows, Live, Pool
<1>3. CASE CloseConnection(r) /\ UNCHANGED request_count
  <2>1. Live' = Live \ {r}
    BY <1>1, <1>3 DEF CloseConnection, Close, Live
  <2>2. LiveShrinks
    BY <1>1, <1>3, <2>1 DEF LiveShrinks, CloseConnection, Close
  <2>3. PoolGrows
    BY <1>1, <1>3, <2>1 DEF PoolGrows, Pool, CloseConnection, Close
  <2>4. QED
    BY <2>2, <2>3
<1>4. CASE \E s \in Slots : new_request(s) /\ KeepConnection(r, s)
  <2>1. PICK s \in Slots : new_request(s) /\ KeepConnection(r, s)
    BY <1>4
  <2>2. s \notin Live
    BY <2>1, NewRequestQueues DEF Live
  <2>3. Live' = (Live \ {r}) \cup {s}
    BY <1>1, <2>1 DEF KeepConnection, HandOver, Live
  <2>4. LiveMoves
    BY <1>1, <2>1, <2>2, <2>3 DEF LiveMoves, KeepConnection, HandOver
  <2>5. PoolGrows
    BY <1>1, <2>1, <2>3 DEF PoolGrows, Pool, KeepConnection, HandOver, new_request
  <2>6. QED
    BY <2>4, <2>5
<1>5. QED
  BY <1>2, <1>3, <1>4 DEF free_request, NoRequest

(* Every step has one of these effects.                                    *)
LEMMA StepCounts ==
  ASSUME QInv, [Next]_vars
  PROVE  (LiveSame \/ LiveGrows \/ LiveShrinks \/ LiveMoves) /\ PoolGrows
<1>1. CASE AfterHandler \/ BeginProcess
  BY <1>1, AcceptCounts DEF AfterHandler, BeginProcess
<1>2. CASE Finish
  <2>1. cur \in ready \ todo
    BY <1>2 DEF Finish, QInv, QueueOwnership
  <2>2. CASE block_request(cur) /\ UNCHANGED <<free, request_count, total_connections>>
    BY <2>1, <2>2 DEF block_request, LiveSame, PoolGrows, Live, Pool
  <2>3. CASE UNCHANGED <<queues, total_connections>>
    BY <2>3 DEF queues, LiveSame, PoolGrows, Live, Pool
  <2>4. CASE free_request(cur)
    BY <2>1, <2>4, FreeCounts
  <2>5. QED
    BY <1>2, <2>2, <2>3, <2>4 DEF Finish
<1>3. CASE fdset_update
  <2> DEFINE woken == {r \in block : \/ Expired(req[r]).status = "DEAD"
                                    \/ Ripe(r, Expired(req[r]))}
  <2>1. Update(woken, block \ woken) /\ woken \subseteq block
    BY <1>3 DEF fdset_update
  <2> HIDE DEF woken
  <2>2. /\ ready' = ready \cup woken /\ block' = block \ woken
        /\ UNCHANGED <<free, request_count, total_connections>>
    BY <2>1 DEF Update
  <2>3. QED
    BY <2>1, <2>2 DEF LiveSame, PoolGrows, Live, Pool
<1>4. CASE \E r \in todo : Handle(r)
  <2>1. PICK r \in todo : Handle(r)
    BY <1>4
  <2>2. r \in Slots /\ req[r] \in Request
    BY DEF QInv, TypeOK
  <2>3. UNCHANGED handling
    BY <2>1, <2>2, HandleHandled DEF Handled, Return
  <2>4. QED
    BY <2>3 DEF handling, queues, LiveSame, PoolGrows, Live, Pool
<1>5. CASE TopOfLoop
  <2>1. UNCHANGED <<ready, block, request_count, total_connections>> /\ free' \subseteq free
    BY <1>5 DEF TopOfLoop, sighup_run
  <2>2. QED
    BY <2>1 DEF LiveSame, PoolGrows, Live, Pool
<1>6. CASE \/ EndProcess \/ SelectSoon \/ SelectLater \/ SelectInterrupted
           \/ Tick \/ SigTerm \/ (\E r \in Slots : Stall(r)) \/ UNCHANGED vars
  <2>1. UNCHANGED <<queues, total_connections>>
    BY <1>6 DEF EndProcess, SelectSoon, SelectLater, SelectInterrupted, SelectReturn,
                SelectBadFd, waiting, Tick, SigTerm, Stall, vars
  <2>2. QED
    BY <2>1 DEF queues, LiveSame, PoolGrows, Live, Pool
<1>7. QED
  BY <1>1, <1>2, <1>3, <1>4, <1>5, <1>6 DEF Next, Loop

(* The sizes of disjoint finite sets add up.                               *)
LEMMA DisjointSizes ==
  ASSUME NEW S, NEW T, IsFiniteSet(S), IsFiniteSet(T), S \cap T = {}
  PROVE  /\ IsFiniteSet(S \cup T) /\ Cardinality(S) \in Nat /\ Cardinality(T) \in Nat
         /\ Cardinality(S \cup T) = Cardinality(S) + Cardinality(T)
<1>1. /\ IsFiniteSet(S \cup T)
      /\ Cardinality(S \cup T) = Cardinality(S) + Cardinality(T) - Cardinality(S \cap T)
  BY FS_Union
<1>2. Cardinality(S \cap T) = 0
  BY FS_EmptySet
<1>3. Cardinality(S) \in Nat /\ Cardinality(T) \in Nat
  BY FS_CardinalityType
<1>4. QED
  BY <1>1, <1>2, <1>3

(* So do those of the three queues.                                        *)
SizesAddUp ==
  /\ IsFiniteSet(Live) /\ IsFiniteSet(Pool)
  /\ Cardinality(ready) + Cardinality(block) = Cardinality(Live)
  /\ Cardinality(ready) + Cardinality(block) + Cardinality(free) = Cardinality(Pool)

(* Types and disjointness of the queues are enough for that.               *)
LEMMA QueueSizes == QInv => SizesAddUp
<1> SUFFICES ASSUME QInv PROVE SizesAddUp
  OBVIOUS
<1>1. IsFiniteSet(ready) /\ IsFiniteSet(block) /\ IsFiniteSet(free)
  BY SlotsAssumption, FS_Subset DEF QInv, TypeOK
<1>2. ready \cap block = {} /\ Live \cap free = {}
  BY DEF QInv, QueueOwnership, Live
<1>3. IsFiniteSet(Live) /\ Cardinality(Live) = Cardinality(ready) + Cardinality(block)
  BY <1>1, <1>2, DisjointSizes DEF Live
<1>4. IsFiniteSet(Pool) /\ Cardinality(Pool) = Cardinality(Live) + Cardinality(free)
  BY <1>1, <1>2, <1>3, DisjointSizes DEF Pool
<1>5. QED
  BY <1>3, <1>4 DEF SizesAddUp

(* total_connections counts the live requests, whatever is accepted, kept  *)
(* alive, released or refused: what select_loop bases acceptance on is     *)
(* right.                                                                  *)
THEOREM ConnectionsCounted == Spec => []ConnectionCount
<1>1. Init => ConnectionCount
  BY FS_EmptySet DEF Init, ConnectionCount
<1>2. ASSUME QInv, QInv', ConnectionCount, [Next]_vars
      PROVE  ConnectionCount'
  <2>1. /\ IsFiniteSet(Live) /\ total_connections = Cardinality(Live)
        /\ Cardinality(Live) \in Nat
    BY <1>2, QueueSizes, FS_CardinalityType DEF SizesAddUp, ConnectionCount
  <2>2. Cardinality(ready)' + Cardinality(block)' = Cardinality(Live')
    <3>1. SizesAddUp'
      BY <1>2, QueueSizes, PTL
    <3>2. QED
      BY <3>1 DEF SizesAddUp
  <2>3. SUFFICES total_connections' = Cardinality(Live')
    BY <2>2 DEF ConnectionCount
  <2>4. CASE LiveSame
    BY <2>1, <2>4 DEF LiveSame
  <2>5. CASE LiveGrows
    BY <2>1, <2>5, FS_AddElement DEF LiveGrows
  <2>6. CASE LiveShrinks
    BY <2>1, <2>6, FS_RemoveElement DEF LiveShrinks
  <2>7. CASE LiveMoves
    <3>1. PICK r \in Live, s \in Slots \ Live : /\ Live' = (Live \ {r}) \cup {s}
                                               /\ total_connections' = total_connections
      BY <2>7 DEF LiveMoves
    <3>2. IsFiniteSet(Live \ {r}) /\ Cardinality(Live \ {r}) = Cardinality(Live) - 1
      BY <2>1, FS_RemoveElement
    <3>3. Cardinality((Live \ {r}) \cup {s}) = Cardinality(Live \ {r}) + 1
      BY <3>2, FS_AddElement
    <3>4. QED
      BY <2>1, <3>1, <3>2, <3>3
  <2>8. QED
    BY <1>2, <2>4, <2>5, <2>6, <2>7, StepCounts
<1>3. QED
  BY <1>1, <1>2, InitQueues, QInvInductive, PTL DEF Spec

(* The structures on the queues never outnumber those new_request has      *)
(* malloc'ed, and these never outnumber MAX_REQUEST.                       *)
THEOREM PoolBounded == Spec => []PoolAccounting
<1>1. Init => PoolAccounting
  BY FS_EmptySet, PoolSize DEF Init, PoolAccounting
<1>2. ASSUME QInv, QInv', PoolAccounting, [Next]_vars
      PROVE  PoolAccounting'
  <2>1. /\ IsFiniteSet(Pool) /\ Cardinality(Pool) <= request_count
        /\ Cardinality(Pool) \in Nat /\ request_count \in Nat
    BY <1>2, QueueSizes, FS_CardinalityType, PoolSize DEF SizesAddUp, PoolAccounting, QInv, TypeOK
  <2>2. Cardinality(ready)' + Cardinality(block)' + Cardinality(free)' = Cardinality(Pool')
    <3>1. SizesAddUp'
      BY <1>2, QueueSizes, PTL
    <3>2. QED
      BY <3>1 DEF SizesAddUp
  <2>3. request_count' \in 0 .. MAX_REQUEST
    BY <1>2 DEF QInv, TypeOK
  <2>4. CASE Pool' \subseteq Pool /\ request_count' = request_count
    <3>1. IsFiniteSet(Pool') /\ Cardinality(Pool') <= Cardinality(Pool)
      BY <2>1, <2>4, FS_Subset
    <3>2. Cardinality(Pool') \in Nat
      BY <3>1, FS_CardinalityType
    <3>3. QED
      BY <2>1, <2>2, <2>3, <2>4, <3>1, <3>2, PoolSize DEF PoolAccounting
  <2>5. CASE \E s \in Slots : /\ Pool' \subseteq Pool \cup {s}
                             /\ request_count' = request_count + 1
    <3>1. PICK s \in Slots : Pool' \subseteq Pool \cup {s} /\ request_count' = request_count + 1
      BY <2>5
    <3>2. IsFiniteSet(Pool \cup {s}) /\ Cardinality(Pool \cup {s}) <= Cardinality(Pool) + 1
      BY <2>1, FS_AddElement
    <3>3. IsFiniteSet(Pool') /\ Cardinality(Pool') <= Cardinality(Pool \cup {s})
      BY <3>1, <3>2, FS_Subset
    <3>4. Cardinality(Pool') \in Nat /\ Cardinality(Pool \cup {s}) \in Nat
      BY <3>2, <3>3, FS_CardinalityType
    <3>5. QED
      BY <2>1, <2>2, <2>3, <3>1, <3>2, <3>3, <3>4, PoolSize DEF PoolAccounting
  <2>6. QED
    BY <1>2, <2>4, <2>5, StepCounts DEF PoolGrows
<1>3. QED
  BY <1>1, <1>2, InitQueues, QInvInductive, PTL DEF Spec

=============================================================================
