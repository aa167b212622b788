---------------------------- MODULE RequestLoop ----------------------------
(***************************************************************************)
(* The life cycle of a request in the boa camera web server: the pool of   *)
(* request structures and its three queues (queue.c), the event loop       *)
(* (select.c), acceptance, dispatch, release and keepalive (request.c),    *)
(* and the handlers' control flow (read.c, pipe.c, get.c, cgi.c,           *)
(* buffer.c).                                                              *)
(*                                                                         *)
(* Queues are sets: process_requests visits every request that is ready    *)
(* when its loop starts, once, and requests enqueued meanwhile go to the   *)
(* head, behind the cursor.  The order of the visits is left open.         *)
(* A handler is an action that ends in Return(r, q, ret), q being the new  *)
(* contents of the structure and ret the handler's return value.           *)
(***************************************************************************)
EXTENDS Integers, FiniteSets

CONSTANTS
  Slots,              \* the request structures; MAX_REQUEST of them
  Fds,                \* descriptor numbers the process may still open
  max_connections,    \* highest descriptor served before answering 503
  RESERVED,           \* descriptors kept back from accepting (10)
  ka_max,             \* KeepAliveMax
  ka_timeout,         \* KeepAliveTimeout, in clock ticks
  REQUEST_TIMEOUT,    \* in clock ticks
  STREAM_TIMEOUT_SEC, \* in clock ticks
  Kinds,              \* what clients do, a subset of AllKinds
  Signals,            \* signals delivered in this instance
  NoSlot              \* a null request pointer

AllKinds == {"file", "api", "big", "cgi", "post", "simple_post", "stream", "silence"}

ASSUME SlotsAssumption == IsFiniteSet(Slots) /\ NoSlot \notin Slots
ASSUME FdsAssumption == Fds \subseteq Nat \ {0} /\ IsFiniteSet(Fds)
ASSUME LimitsAssumption ==
  /\ ka_max \in Nat /\ ka_timeout \in Nat
  /\ max_connections \in Nat /\ RESERVED \in Nat
  /\ REQUEST_TIMEOUT \in Nat /\ STREAM_TIMEOUT_SEC \in Nat
ASSUME KindsAssumption == Kinds \subseteq AllKinds /\ Signals \subseteq {"TERM", "HUP"}

VARIABLES
  ready, block, free, \* request_ready, request_block, request_free
  request_count,      \* structures malloc'ed by new_request
  req,                \* the fields of every structure that control looks at
  fd,                 \* req->fd
  aux,                \* req->data_fd or req->post_data_fd (never both), 0 if none
  open,               \* descriptors open in the kernel's table
  stalled,            \* client sockets whose peer neither sends nor reads again
  rset, wset,         \* block_read_fdset, block_write_fdset
  srv,                \* server_s is in block_read_fdset
  total_connections, pending_requests, sigterm,
  pc,                 \* where select_loop is
  todo,               \* ready requests process_requests has yet to visit
  cur, retval         \* the request just handled and its handler's result

queues == <<ready, block, free, request_count>>
kernel == <<open, stalled>>
fdsets == <<rset, wset>>
cursor == <<todo, cur, retval>>
vars == <<queues, req, fd, aux, kernel, fdsets, srv, total_connections,
          pending_requests, sigterm, pc, cursor>>

MAX_REQUEST == Cardinality(Slots)
NoFd == 0
Live == ready \cup block
Unallocated == Slots \ (ready \cup block \cup free)

Statuses == {"READ_HEADER", "BODY_READ", "BODY_WRITE", "WRITE", "PIPE_READ",
             "PIPE_WRITE", "DONE", "DEAD"}
Ages == 0 .. REQUEST_TIMEOUT + 1   \* past the time-out all ages are alike
StreamAges == 0 .. STREAM_TIMEOUT_SEC + 1

(* buffered: buffer_end # 0.  keepalive: it is KA_ACTIVE (KA_INACTIVE and   *)
(* KA_STOPPED are not told apart: what headers the client sends is open).   *)
(* parse: cgi_status is CGI_PARSE.  input: client_stream holds nothing      *)
(* ("empty"), bytes not parsed yet ("new") or parsed bytes only ("seen").   *)
(* body: of a POST body there are bytes to write ("held"), or only bytes    *)
(* the client has still to send ("due"), or neither ("none").               *)
(* age: current_time - time_last.  streaming: last_stream_time # 0, and     *)
(* stream_age: sys_info->second - last_stream_time.                         *)
Request == [status: Statuses, buffered: BOOLEAN,
            keepalive: BOOLEAN, kacount: 0 .. ka_max,
            logline: BOOLEAN, parse: BOOLEAN, input: {"empty", "new", "seen"},
            body: {"none", "held", "due"}, age: Ages,
            streaming: BOOLEAN, stream_age: StreamAges]

(* new_request's memset; READ_HEADER is 0 *)
Blank == [status |-> "READ_HEADER", buffered |-> FALSE, keepalive |-> FALSE,
          kacount |-> 0, logline |-> FALSE, parse |-> FALSE, input |-> "empty", body |-> "none", age |-> 0,
          streaming |-> FALSE, stream_age |-> 0]

SQUASH_KA(q) == [q EXCEPT !.keepalive = FALSE]

(* open(2), pipe(2) and accept(2) return the lowest free descriptor *)
FreeFds == Fds \ open
NewFd(f) == f \in FreeFds /\ \A g \in FreeFds : f <= g

Init ==
  /\ ready = {} /\ block = {} /\ free = {} /\ request_count = 0
  /\ req = [s \in Slots |-> Blank]
  /\ fd = [s \in Slots |-> NoFd] /\ aux = [s \in Slots |-> NoFd]
  /\ open = {} /\ stalled = {}
  /\ rset = {} /\ wset = {} /\ srv = FALSE
  /\ total_connections = 0 /\ pending_requests = FALSE /\ sigterm = 0
  /\ pc = "top" /\ todo = {} /\ cur = NoSlot /\ retval = 0

-----------------------------------------------------------------------------
(* Allocation and acceptance                                               *)

NewRequestOverPool(s) ==
  /\ \/ /\ s \in free /\ UNCHANGED request_count
     \/ /\ free = {} /\ request_count <= MAX_REQUEST
        /\ s \in Slots /\ request_count' = request_count + 1

(* new_request returns s: the head of the free list, else a malloc'ed one. *)
(* The caller says what becomes of free.                                   *)
new_request(s) ==
  \/ /\ s \in free /\ UNCHANGED request_count
  \/ /\ free = {} /\ request_count < MAX_REQUEST
     /\ s \in Unallocated /\ request_count' = request_count + 1

(* new_request returns NULL: the pool is used up, or malloc fails *)
NoRequest == free = {} /\ UNCHANGED request_count

(* a new connection's request; past max_connections it is answered 503 and  *)
(* done                                                                     *)
Accepted(f) ==
  IF f > max_connections
  THEN {[Blank EXCEPT !.kacount = ka_max, !.status = "DONE", !.buffered = b] : b \in BOOLEAN}
  ELSE {[Blank EXCEPT !.kacount = ka_max]}

accepting == <<queues, fd, kernel, total_connections>>

(* get_sock_request on the server socket, reqs being the structures so     *)
(* far.  A failed accept clears pending_requests only for EAGAIN; a        *)
(* connection that finds no descriptor or no structure is dropped.  After  *)
(* stage 1 of SIGTERM the socket is closed and accept fails.               *)
get_sock_request(reqs) ==
  \/ /\ sigterm # 2 /\ pending_requests' = FALSE
     /\ req' = reqs /\ UNCHANGED accepting
  \/ /\ req' = reqs /\ UNCHANGED <<accepting, pending_requests>>
  \/ /\ sigterm # 2
     /\ \E s \in Slots, f \in FreeFds :
          /\ NewFd(f) /\ new_request(s)
          /\ free' = free \ {s}
          /\ ready' = ready \cup {s} /\ UNCHANGED block
          /\ fd' = [fd EXCEPT ![s] = f]
          /\ open' = open \cup {f} /\ UNCHANGED stalled
          /\ total_connections' = total_connections + 1
          /\ \E q \in Accepted(f) : req' = [reqs EXCEPT ![s] = q]
          /\ pending_requests' = (pending_requests /\ f <= max_connections)

AcceptIfPending(reqs) ==
  IF pending_requests THEN get_sock_request(reqs)
  ELSE req' = reqs /\ UNCHANGED <<accepting, pending_requests>>

-----------------------------------------------------------------------------
(* Blocking and waking                                                     *)

(* The descriptor a request waits on, as block_request, ready_request and  *)
(* fdset_update choose it from buffer_end and the status                   *)
WriteFds(r, q) ==
  IF q.buffered \/ q.status \in {"WRITE", "PIPE_WRITE", "DONE"} THEN {fd[r]}
  ELSE IF q.status = "BODY_WRITE" THEN {aux[r]} ELSE {}
ReadFds(r, q) ==
  IF q.buffered \/ q.status \in {"WRITE", "PIPE_WRITE", "DONE", "BODY_WRITE"} THEN {}
  ELSE IF q.status = "PIPE_READ" THEN {aux[r]} ELSE {fd[r]}

BlockRequestNoBit(r) ==
  /\ ready' = ready \ {r} /\ block' = block \cup {r}
  /\ UNCHANGED <<wset, rset>>

BlockKeepingReady(r) ==
  /\ block' = block \cup {r} /\ UNCHANGED ready
  /\ wset' = wset \cup WriteFds(r, req[r])
  /\ rset' = rset \cup ReadFds(r, req[r])

block_request(r) ==
  /\ ready' = ready \ {r} /\ block' = block \cup {r}
  /\ wset' = wset \cup WriteFds(r, req[r])
  /\ rset' = rset \cup ReadFds(r, req[r])

NeverTimedOut(q) == q.kacount < ka_max /\ q.age >= ka_timeout /\ ~q.logline

TimedOut(q) ==
  \/ q.kacount < ka_max /\ q.age >= ka_timeout /\ ~q.logline
  \/ q.age > REQUEST_TIMEOUT

Expired(q) == IF TimedOut(q) THEN [q EXCEPT !.status = "DEAD"] ELSE q

Ripe(r, q) == WriteFds(r, q) \subseteq wset /\ ReadFds(r, q) \subseteq rset

(* the blocked requests in woken become ready, those in watched are put     *)
(* into the sets again                                                      *)
Update(woken, watched) ==
  LET q(r) == Expired(req[r])
      wbits(S) == UNION {WriteFds(r, q(r)) : r \in S}
      rbits(S) == UNION {ReadFds(r, q(r)) : r \in S}
  IN  /\ pc = "fdset" /\ pc' = "begin"
      /\ ready' = ready \cup woken /\ block' = block \ woken
      /\ req' = [r \in Slots |-> IF r \in block THEN q(r) ELSE req[r]]
      /\ wset' = (wset \ wbits(woken)) \cup wbits(watched)
      /\ rset' = (rset \ rbits(woken)) \cup rbits(watched)
      /\ UNCHANGED <<free, request_count, fd, aux, kernel, srv, total_connections,
                     pending_requests, sigterm, cursor>>

FdsetLeavesDead ==
  LET woken == {r \in block : Ripe(r, Expired(req[r]))} IN Update(woken, block \ woken)

(* time out, wake what select reported, watch the rest again *)
fdset_update ==
  LET woken == {r \in block : Expired(req[r]).status = "DEAD" \/ Ripe(r, Expired(req[r]))}
  IN  Update(woken, block \ woken)

-----------------------------------------------------------------------------
(* Handlers                                                                *)

handling == <<queues, fd, stalled, fdsets, srv, total_connections,
              pending_requests, sigterm>>

Return(r, q, ret) ==
  /\ pc = "visit" /\ r \in todo
  /\ req' = [req EXCEPT ![r] = q]
  /\ cur' = r /\ retval' = ret /\ todo' = todo \ {r}
  /\ pc' = "accept"
  /\ UNCHANGED handling

ReturnKeepingFds(r, q, ret) == Return(r, q, ret) /\ UNCHANGED <<aux, open>>

(* r gets a descriptor besides its socket, and those in closed are closed *)
OpenAux(r, closed) ==
  \E f \in FreeFds :
    /\ NewFd(f)
    /\ aux' = [aux EXCEPT ![r] = f] /\ open' = (open \ closed) \cup {f}

(* What a socket can do: a descriptor that was closed under the request    *)
(* (SIGTERM) only fails; a stalled client only blocks.                     *)
Usable(r) == fd[r] \in open
Moves(r) == Usable(r) /\ fd[r] \notin stalled

Dead(q) == [q EXCEPT !.status = "DEAD", !.buffered = FALSE]

(* buffer contents after the req_flush that ends a reply *)
Flushed(r, q) ==
  (IF Usable(r) THEN {[q EXCEPT !.buffered = TRUE]} ELSE {})
    \cup (IF Moves(r) THEN {[q EXCEPT !.buffered = FALSE]} ELSE {})
    \cup (IF fd[r] \in stalled THEN {} ELSE {Dead(q)})

(* send_r_bad_request, send_r_error, ...: squash keepalive, buffer, flush *)
send_r(r, q) == Flushed(r, SQUASH_KA(q))

(* data already buffered is flushed before the handler of any status but   *)
(* DONE and DEAD runs; partial and complete writes both return 1           *)
FlushFirst(r) ==
  LET q == req[r] IN
  /\ q.buffered /\ q.status \notin {"DONE", "DEAD"}
  /\ \/ Usable(r) /\ ReturnKeepingFds(r, q, -1)
     \/ Moves(r) /\ \E b \in BOOLEAN : ReturnKeepingFds(r, [q EXCEPT !.buffered = b], 1)
     \/ fd[r] \notin stalled /\ ReturnKeepingFds(r, Dead(q), 0)

(* the dispatch of process_requests on the status *)
Dispatch(r, status) == req[r].status = status /\ ~req[r].buffered

(* DONE: a non-status that terminates the request once its buffer is out *)
flush_done(r) ==
  LET q == req[r] IN
  /\ q.status = "DONE"
  /\ \/ ~q.buffered /\ ReturnKeepingFds(r, q, 0)
     \/ /\ q.buffered
        /\ \/ Usable(r) /\ ReturnKeepingFds(r, q, -1)
           \/ Moves(r) /\ ReturnKeepingFds(r, q, 1)
           \/ Moves(r) /\ ReturnKeepingFds(r, [q EXCEPT !.buffered = FALSE], 0)
           \/ fd[r] \notin stalled /\ ReturnKeepingFds(r, Dead(q), 0)

bury_dead(r) ==
  /\ req[r].status = "DEAD"
  /\ ReturnKeepingFds(r, SQUASH_KA([req[r] EXCEPT !.buffered = FALSE]), 0)

(* init_cgi for a request whose POST body, if any, is in aux: the body file *)
(* is closed and the read end of the child's pipe takes its place.  Fails   *)
(* with or without a reply; NPH and DIRECT_WRITE children own the socket,   *)
(* so the server is done with it.                                           *)
init_cgi(r, q0) ==
  LET q == SQUASH_KA(q0) IN
  \/ /\ OpenAux(r, {aux[r]})
     /\ \E p \in BOOLEAN : Return(r, [q EXCEPT !.status = "PIPE_READ", !.parse = p], 1)
  \/ /\ Return(r, q, 0)
     /\ aux' = [aux EXCEPT ![r] = NoFd] /\ open' = open \ {aux[r]}
  \/ ReturnKeepingFds(r, q, 0)
  \/ \E x \in send_r(r, q) : ReturnKeepingFds(r, x, 0)

(* init_get: an mmapped file, a HEAD request, a file that fits the buffer *)
init_get(r, q) ==
  \/ ReturnKeepingFds(r, [q EXCEPT !.status = "WRITE", !.buffered = TRUE], 1)
  \/ ReturnKeepingFds(r, [q EXCEPT !.status = "WRITE", !.buffered = TRUE], 0)
  \/ \E x \in Flushed(r, q) : ReturnKeepingFds(r, [x EXCEPT !.status = "DONE"], 1)

(* ... and a file over MAX_FILE_MMAP, read through its descriptor *)
init_get_big(r, q) ==
  /\ OpenAux(r, {})
  /\ \E x \in Flushed(r, [q EXCEPT !.status = "PIPE_READ"]) : Return(r, x, 1)

(* the URI has a handler that answers by itself (status DEAD: the answer    *)
(* overran the buffer), or returns without an answer, with or without       *)
(* giving up (the status is still the BODY_READ of the header's end)        *)
uri_handler(r, q) ==
  \/ \E k \in {q.keepalive, FALSE}, st \in {"DONE", "WRITE", "DEAD"} :
       ReturnKeepingFds(r, [q EXCEPT !.status = st, !.buffered = TRUE, !.keepalive = k], 1)
  \/ ReturnKeepingFds(r, [q EXCEPT !.status = "BODY_READ"], 1)
  \/ ReturnKeepingFds(r, q, 0)

(* the body of a POST with a good Content-Length comes next *)
BodyNext(q, b) == [q EXCEPT !.status = "BODY_WRITE", !.body = b]

(* a POST such a handler has answered: read_header goes on to the body,     *)
(* which has no file                                                        *)
uri_handler_post(r, q) ==
  \E k \in {q.keepalive, FALSE}, b \in {"held", "due"} :
    ReturnKeepingFds(r, [BodyNext(q, b) EXCEPT !.buffered = TRUE, !.keepalive = k], 1)

(* get_mjpeg_stream and its kin *)
get_stream(r, q) ==
  LET s == [q EXCEPT !.status = "WRITE", !.streaming = TRUE, !.stream_age = 0] IN
  \/ ReturnKeepingFds(r, [s EXCEPT !.buffered = TRUE], 1)
  \/ \E x \in send_r(r, s) : ReturnKeepingFds(r, x, 0) \/ ReturnKeepingFds(r, x, 1)

(* a POST to a CGI that reads the socket itself gets a dup of it; the CGI   *)
(* is not started                                                           *)
direct_read(r, q) ==
  /\ OpenAux(r, {})
  /\ \E x \in send_r(r, q) \cup {SQUASH_KA(q)} : Return(r, x, 0)

(* create_temporary_file for the body of a POST fails, or succeeds and the  *)
(* Content-Length is good or bad                                            *)
post_body(r, q) ==
  \/ ReturnKeepingFds(r, q, 0)
  \/ /\ OpenAux(r, {})
     /\ \/ \E b \in {"held", "due"} : Return(r, BodyNext(q, b), 1)
        \/ \E x \in send_r(r, BodyNext(q, "none")) : Return(r, x, 0)

(* process_header_end: the request is refused, or served by what it asks    *)
(* for.  A request that has a body file already (simple_post) gets another. *)
process_header_end(r, q) ==
  \/ \E x \in send_r(r, q) \cup {SQUASH_KA(q)} : ReturnKeepingFds(r, x, 0)
  \/ aux[r] # NoFd /\ post_body(r, q)
  \/ /\ aux[r] = NoFd
     /\ \/ "file" \in Kinds /\ init_get(r, q)
        \/ "big" \in Kinds /\ init_get_big(r, q)
        \/ "api" \in Kinds /\ uri_handler(r, q)
        \/ "api" \in Kinds /\ "post" \in Kinds /\ uri_handler_post(r, q)
        \/ "cgi" \in Kinds /\ init_cgi(r, q)
        \/ "cgi" \in Kinds /\ "post" \in Kinds /\ direct_read(r, q)
        \/ "post" \in Kinds /\ post_body(r, q)
        \/ "stream" \in Kinds /\ get_stream(r, q)

(* the CONNECTION header, process_option_line *)
KeepaliveAfter(q) == IF ka_max > 0 THEN BOOLEAN ELSE {q.keepalive}

(* complete header lines taken from the bytes at hand *)
Parsed(q, k, i) == [q EXCEPT !.logline = TRUE, !.keepalive = k, !.input = i]
ParsedLines(q) == {Parsed(q, k, i) : k \in KeepaliveAfter(q), i \in {"new", "seen"}}

(* the request when the bytes at hand run out before the header ends *)
ParsedAll(q) ==
  IF q.input = "new"
  THEN {[q EXCEPT !.input = "seen"]} \cup {p \in ParsedLines(q) : p.input = "seen"}
  ELSE {q}

(* A first line without HTTP version ends the header at once; if it is a    *)
(* POST, process_header_end makes its body file, and read_header, whose     *)
(* status is that of a line's end, goes on with the header all the same.    *)
simple_post(r, q) ==
  /\ "simple_post" \in Kinds /\ ~q.logline
  /\ OpenAux(r, {})
  /\ \E i \in {"new", "seen"} : Return(r, Parsed(q, q.keepalive, i), 1)

read_header(r) ==
  LET q == req[r] IN
  /\ Dispatch(r, "READ_HEADER")
  /\ \/ /\ q.input = "new"
        /\ \/ \E p \in ParsedLines(q) : process_header_end(r, p)
           \/ simple_post(r, q)
           \/ \E p \in ParsedLines(q) : ReturnKeepingFds(r, p, 0)      \* process_option_line
           \/ \E p \in ParsedLines(q) : \E x \in send_r(r, p) :        \* process_logline
                ReturnKeepingFds(r, x, 0)
     \/ \E p \in ParsedAll(q) :
          \/ Usable(r) /\ ReturnKeepingFds(r, p, -1)
          \/ Moves(r) /\ ReturnKeepingFds(r, [p EXCEPT !.input = "new"], 1)
          \/ fd[r] \notin stalled /\ ReturnKeepingFds(r, p, 0)         \* EOF or error
          \/ p.input = "seen" /\ ReturnKeepingFds(r, Dead(p), 0)       \* client_stream full

read_body(r) ==
  LET q == req[r] IN
  /\ Dispatch(r, "BODY_READ")
  /\ \/ q.body = "none" /\ ReturnKeepingFds(r, [q EXCEPT !.status = "BODY_WRITE"], 1)
     \/ /\ q.body # "none"
        /\ \/ Usable(r) /\ ReturnKeepingFds(r, q, -1)
           \/ Moves(r) /\ ReturnKeepingFds(r, BodyNext(q, "held"), 1)
           \/ fd[r] \notin stalled /\ \E x \in send_r(r, q) : ReturnKeepingFds(r, x, 0)

(* Without a body file (aux = 0) the write goes to the read-only stdin and  *)
(* fails; the file takes what it is given whole, or fails.                  *)
write_body(r) ==
  LET q == req[r] IN
  /\ Dispatch(r, "BODY_WRITE")
  /\ \/ q.body = "due" /\ ReturnKeepingFds(r, [q EXCEPT !.status = "BODY_READ"], 1)
     \/ q.body = "none" /\ aux[r] # NoFd /\ init_cgi(r, q)
     \/ /\ q.body = "held" /\ aux[r] # NoFd
        /\ \/ ReturnKeepingFds(r, q, -1)
           \/ \E b \in {"due", "none"} : ReturnKeepingFds(r, BodyNext(q, b), 1)
     \/ /\ q.body = "held" \/ (q.body = "none" /\ aux[r] = NoFd)
        /\ \E x \in send_r(r, q) : ReturnKeepingFds(r, x, 0)

(* process_get: the next piece of an mmapped file or of a frame; at the end *)
(* of a frame a streaming request takes the next one, or polls again        *)
process_get(r) ==
  LET q == req[r] IN
  /\ Dispatch(r, "WRITE")
  /\ \/ Usable(r) /\ ReturnKeepingFds(r, q, -1)
     \/ Moves(r) /\ ReturnKeepingFds(r, q, 1)
     \/ Moves(r) /\ ~q.streaming /\ ReturnKeepingFds(r, q, 0)
     \/ /\ Usable(r) /\ q.streaming
        /\ \/ ReturnKeepingFds(r, [q EXCEPT !.buffered = TRUE, !.stream_age = 0], 1)
           \/ ReturnKeepingFds(r, q, 1)
     \/ fd[r] \notin stalled /\ ReturnKeepingFds(r, [q EXCEPT !.status = "DEAD"], 0)

(* the header of a CGI is refused, redirects, stands as it is ("Status:"), *)
(* or is put behind a status line; the reply to HEAD ends here             *)
process_cgi_header(r, q) ==
  \/ \E x \in send_r(r, q) : \/ ReturnKeepingFds(r, x, 0)
                             \/ ReturnKeepingFds(r, [x EXCEPT !.status = "DONE"], 1)
  \/ ReturnKeepingFds(r, q, 1)
  \/ \E x \in Flushed(r, q) : ReturnKeepingFds(r, x, 0) \/ ReturnKeepingFds(r, x, 1)

(* the reads that fill the buffer are one step *)
read_from_pipe(r) ==
  LET q == req[r] IN
  /\ Dispatch(r, "PIPE_READ")
  /\ \/ ReturnKeepingFds(r, q, -1)
     \/ ReturnKeepingFds(r, [q EXCEPT !.status = "DEAD"], 0)
     \/ ~q.parse /\ ReturnKeepingFds(r, [q EXCEPT !.status = "PIPE_WRITE"], 1)
     \/ /\ q.parse                                                \* buffer full, or EOF
        /\ \E st \in {"PIPE_READ", "PIPE_WRITE"} :
             process_cgi_header(r, [q EXCEPT !.parse = FALSE, !.status = st])

write_from_pipe(r) ==
  LET q == req[r] IN
  /\ Dispatch(r, "PIPE_WRITE")
  /\ \/ Usable(r) /\ ReturnKeepingFds(r, q, -1)
     \/ Moves(r) /\ ReturnKeepingFds(r, q, 1)
     \/ Moves(r) /\ ReturnKeepingFds(r, [q EXCEPT !.status = "PIPE_READ"], 1)
     \/ ReturnKeepingFds(r, q, 0)                                 \* nothing left to write
     \/ fd[r] \notin stalled /\ ReturnKeepingFds(r, [q EXCEPT !.status = "DEAD"], 0)

(* one iteration of the loop of process_requests, up to the handler's return *)
Handle(r) ==
  \/ FlushFirst(r) \/ read_header(r) \/ read_body(r) \/ write_body(r)
  \/ process_get(r) \/ read_from_pipe(r) \/ write_from_pipe(r)
  \/ flush_done(r) \/ bury_dead(r)

(* ... then keepalive is squashed in lame duck mode and the server socket  *)
(* is polled while pending_requests is set                                 *)
AfterHandler ==
  /\ pc = "accept" /\ pc' = "finish"
  /\ AcceptIfPending(IF sigterm # 0 THEN [req EXCEPT ![cur] = SQUASH_KA(@)] ELSE req)
  /\ UNCHANGED <<aux, fdsets, srv, sigterm, cursor>>

-----------------------------------------------------------------------------
(* Release                                                                 *)

(* r goes to the free list and loses its connection and the descriptors in *)
(* closed                                                                   *)
Close(r, closed, n) ==
  /\ ready' = ready \ {r} /\ free' = free \cup {r} /\ UNCHANGED <<block, rset>>
  /\ open' = open \ closed /\ stalled' = stalled \ {fd[r]}
  /\ fd' = [fd EXCEPT ![r] = NoFd] /\ aux' = [aux EXCEPT ![r] = NoFd]
  /\ req' = [req EXCEPT ![r] = Blank]
  /\ total_connections' = total_connections - n

CloseLeavingAux(r) == Close(r, {fd[r]}, 1)
CloseLeavingSocket(r) == Close(r, {aux[r]}, 1)
CloseKeepingCount(r) == Close(r, {fd[r], aux[r]}, 0)

(* the end of free_request: close the descriptors, onto the free list *)
CloseConnection(r) == Close(r, {fd[r], aux[r]}, 1)

Inherited(q, budget) ==
  [Blank EXCEPT !.kacount = budget, !.input = IF q.input = "new" THEN "new" ELSE "empty"]

(* r's connection moves to the structure s on the blocked list, with the    *)
(* bytes r had not parsed; budget is its new kacount                        *)
HandOver(r, s, budget, closed, unused) ==
  /\ ready' = ready \ {r} /\ block' = block \cup {s}
  /\ free' = unused \cup {r}
  /\ rset' = rset \cup {fd[r]}
  /\ open' = open \ closed /\ UNCHANGED stalled
  /\ fd' = [fd EXCEPT ![s] = fd[r], ![r] = NoFd] /\ aux' = [aux EXCEPT ![r] = NoFd]
  /\ req' = [req EXCEPT ![r] = Blank, ![s] = Inherited(req[r], budget)]
  /\ UNCHANGED total_connections

KeepSameBudget(r, s) == HandOver(r, s, req[r].kacount, {aux[r]}, free \ {s})

(* the keepalive branch of free_request *)
KeepConnection(r, s) == HandOver(r, s, req[r].kacount - 1, {aux[r]}, free \ {s})

FreeDroppingBuffer(r) ==
  /\ CloseConnection(r) /\ UNCHANGED request_count

free_request(r) ==
  LET q == req[r]
      keep == q.keepalive /\ q.kacount > 0
  IN  \/ /\ q.buffered /\ q.status # "DEAD"          \* still bytes to send
         /\ req' = [req EXCEPT ![r] = [q EXCEPT !.status = "DONE", !.age = 0]]
         /\ UNCHANGED <<queues, fd, aux, kernel, rset, total_connections>>
      \/ /\ ~q.buffered \/ q.status = "DEAD"
         /\ \/ /\ ~keep /\ CloseConnection(r) /\ UNCHANGED request_count
            \/ keep /\ NoRequest /\ CloseConnection(r)
            \/ keep /\ \E s \in Slots : new_request(s) /\ KeepConnection(r, s)

StreamTimedOut(q) == q.streaming /\ q.stream_age > STREAM_TIMEOUT_SEC

(* the switch on retval; a stream that got no frame for too long is freed  *)
(* whatever the handler returned                                           *)
Finish ==
  LET ret == IF StreamTimedOut(req[cur]) THEN 0 ELSE retval IN
  /\ pc = "finish" /\ pc' = "visit"
  /\ \/ /\ ret = -1 /\ block_request(cur)
        /\ UNCHANGED <<free, request_count, req, fd, aux, kernel, total_connections>>
     \/ ret = 0 /\ free_request(cur) /\ UNCHANGED wset
     \/ /\ ret = 1 /\ req' = [req EXCEPT ![cur].age = 0]
        /\ UNCHANGED <<queues, fd, aux, kernel, fdsets, total_connections>>
  /\ cur' = NoSlot /\ retval' = 0
  /\ UNCHANGED <<srv, pending_requests, sigterm, todo>>

-----------------------------------------------------------------------------
(* The loop                                                                *)

(* lame duck mode: boa_release closes the sockets of the ready requests *)
sigterm_stage1_run ==
  /\ sigterm = 1 /\ sigterm' = 2
  /\ open' = open \ {fd[r] : r \in ready} /\ stalled' = stalled \ {fd[r] : r \in ready}

(* sighup_run, reached when the execl of the handler failed: the free      *)
(* structures are returned to malloc, request_count stays                  *)
sighup_run ==
  /\ "HUP" \in Signals
  /\ rset' = {} /\ wset' = {} /\ free' = {} /\ srv' = FALSE

(* the signal flags at the top of select_loop *)
TopOfLoop ==
  /\ pc = "top"
  /\ \/ sighup_run
     \/ srv' = (srv /\ sigterm # 1) /\ UNCHANGED <<fdsets, free>>
  /\ \/ sigterm_stage1_run
     \/ sigterm # 1 /\ UNCHANGED <<kernel, sigterm>>
  /\ pc' = IF sigterm' = 2 /\ Live = {} THEN "exit" ELSE "fdset"
  /\ UNCHANGED <<ready, block, request_count, req, fd, aux, total_connections,
                 pending_requests, cursor>>

(* process_requests before its loop *)
BeginProcess ==
  /\ pc = "begin" /\ pc' = "visit"
  /\ AcceptIfPending(req)
  /\ todo' = ready'
  /\ UNCHANGED <<aux, fdsets, srv, sigterm, cur, retval>>

(* the ready list has been walked: watch the server socket, then select *)
EndProcess ==
  /\ pc = "visit" /\ todo = {} /\ pc' = "select"
  /\ srv' = (srv \/ (sigterm = 0 /\ total_connections < max_connections - RESERVED))
  /\ UNCHANGED <<queues, req, fd, aux, kernel, fdsets, total_connections,
                 pending_requests, sigterm, cursor>>

Older(q) == [q EXCEPT !.age = IF @ = REQUEST_TIMEOUT + 1 THEN @ ELSE @ + 1,
                      !.stream_age = IF ~q.streaming \/ @ = STREAM_TIMEOUT_SEC + 1
                                     THEN @ ELSE @ + 1]

(* time(&current_time) finds that a second has passed (sys_info->second is *)
(* taken to move along)                                                    *)
ClockMoves == req' = [r \in Slots |-> IF r \in Live THEN Older(req[r]) ELSE req[r]]

(* select looks at the descriptors up to max_fd, the largest one set since *)
(* the top of the loop: that of a blocked request                          *)
Awaited == UNION {WriteFds(r, req[r]) \cup ReadFds(r, req[r]) : r \in block}
Selected == {f \in rset \cup wset : \E g \in Awaited : f <= g}

waiting == <<queues, fd, aux, kernel, total_connections, sigterm, cursor>>

(* select succeeds: what it reports stays set.  Readiness may be spurious. *)
SelectReturn ==
  /\ pc = "select" /\ pc' = "top"
  /\ Selected \subseteq open
  /\ \E R \in SUBSET (rset \cap Selected), W \in SUBSET (wset \cap Selected), s \in BOOLEAN :
       /\ (R \cup W) \cap stalled = {}
       /\ s => srv
       /\ rset' = R /\ wset' = W /\ srv' = s
       /\ pending_requests' = (pending_requests \/ s)
  /\ UNCHANGED waiting

(* select fails with EBADF and leaves the sets as they were *)
SelectBadFd ==
  /\ pc = "select" /\ pc' = "top"
  /\ ~(Selected \subseteq open)
  /\ pending_requests' = (pending_requests \/ srv)
  /\ UNCHANGED <<waiting, fdsets, srv>>

(* ... or with EINTR, and the rest of the iteration is skipped *)
SelectInterrupted ==
  /\ pc = "select" /\ pc' = "top"
  /\ UNCHANGED <<waiting, req, fdsets, srv, pending_requests>>

SelectSoon == (SelectReturn \/ SelectBadFd) /\ UNCHANGED req
SelectLater == (SelectReturn \/ SelectBadFd) /\ ClockMoves

(* the time(&current_time) of process_requests, once per request visited *)
Tick ==
  /\ pc = "visit" /\ todo # {} /\ ClockMoves
  /\ UNCHANGED <<queues, fd, aux, kernel, fdsets, srv, total_connections,
                 pending_requests, sigterm, pc, cursor>>

-----------------------------------------------------------------------------
(* The environment                                                         *)

(* the peer of a connection goes silent and stops reading, for good *)
Stall(r) ==
  /\ "silence" \in Kinds /\ pc = "select" /\ sigterm = 0
  /\ r \in Live /\ fd[r] \in open \ stalled
  /\ stalled' = stalled \cup {fd[r]}
  /\ UNCHANGED <<queues, req, fd, aux, open, fdsets, srv, total_connections,
                 pending_requests, sigterm, pc, cursor>>

SigTerm ==
  /\ "TERM" \in Signals /\ sigterm = 0
  /\ sigterm' = 1
  /\ UNCHANGED <<queues, req, fd, aux, kernel, fdsets, srv, total_connections,
                 pending_requests, pc, cursor>>

Loop ==
  \/ TopOfLoop \/ fdset_update \/ BeginProcess
  \/ \E r \in todo : Handle(r)
  \/ AfterHandler \/ Finish \/ EndProcess \/ SelectSoon \/ SelectLater
  \/ SelectInterrupted \/ Tick

Next == Loop \/ SigTerm \/ \E r \in Slots : Stall(r)

Spec == Init /\ [][Next]_vars

(* the process keeps running, and a loop that selects forever does not do  *)
(* so within one second                                                    *)
FairSpec == Spec /\ WF_vars(Loop) /\ SF_vars(SelectLater)
-----------------------------------------------------------------------------
(* Properties                                                              *)

(* Every variable keeps its type: statuses, ages and budgets stay in the   *)
(* ranges the code's fields have, the cursor names a request.              *)
TypeOK ==
  /\ ready \subseteq Slots /\ block \subseteq Slots /\ free \subseteq Slots
  /\ request_count \in 0 .. MAX_REQUEST
  /\ req \in [Slots -> Request]
  /\ fd \in [Slots -> Fds \cup {NoFd}] /\ aux \in [Slots -> Fds \cup {NoFd}]
  /\ open \subseteq Fds /\ stalled \subseteq Fds
  /\ rset \subseteq Fds \cup {NoFd} /\ wset \subseteq Fds \cup {NoFd}
  /\ srv \in BOOLEAN /\ pending_requests \in BOOLEAN
  /\ total_connections \in Int /\ sigterm \in {0, 1, 2}
  /\ pc \in {"top", "fdset", "begin", "visit", "accept", "finish", "select", "exit"}
  /\ todo \subseteq Slots /\ cur \in Slots \cup {NoSlot} /\ retval \in {-1, 0, 1}

(* A structure is on one queue at most, and whatever process_requests has  *)
(* still to visit, or is working on, is on the ready list: queue.c's       *)
(* pointers link one list, so a second membership corrupts both.           *)
QueueOwnership ==
  /\ ready \cap block = {} /\ ready \cap free = {} /\ block \cap free = {}
  /\ todo \subseteq ready
  /\ pc \in {"accept", "finish"} => cur \in ready \ todo

(* The pool: the structures on the three queues were all malloc'ed by      *)
(* new_request, which never makes more than MAX_REQUEST.                   *)
PoolAccounting ==
  /\ Cardinality(ready) + Cardinality(block) + Cardinality(free) <= request_count
  /\ request_count <= MAX_REQUEST

(* total_connections, on which select_loop decides whether to watch the    *)
(* server socket, counts the connections there are.                        *)
ConnectionCount == total_connections = Cardinality(ready) + Cardinality(block)

(* Until the sockets are closed by SIGTERM, a connection's descriptors are *)
(* open, no two connections share one, and none is open that no connection *)
(* owns: free_request, init_cgi and keepalive neither leak nor close twice. *)
(* Only a POST without HTTP version, for which process_header_end runs      *)
(* twice, leaves its first body file open.                                  *)
FdsOpen == \A r \in Live : fd[r] \in open /\ (aux[r] # NoFd => aux[r] \in open)
FdsDistinct ==
  \A r \in Live : /\ fd[r] # aux[r]
                  /\ \A s \in Live \ {r} : {fd[r], aux[r]} \cap {fd[s], aux[s]} \subseteq {NoFd}
FdsOwned == open \subseteq {fd[r] : r \in Live} \cup {aux[r] : r \in Live}
FdOwnership == sigterm # 2 => FdsOpen /\ FdsDistinct /\ ("simple_post" \in Kinds \/ FdsOwned)

(* When select is called, what every blocked request waits for is in the   *)
(* sets, although three functions choose the descriptor independently and  *)
(* select itself, EINTR and EBADF leave the sets in different states.      *)
NoLostWakeup ==
  pc = "select" => \A r \in block : /\ WriteFds(r, req[r]) \subseteq wset
                                    /\ ReadFds(r, req[r]) \subseteq rset

(* A dead request is never left waiting for a descriptor: bury_dead runs   *)
(* before the loop selects again.                                          *)
DeadNotBlocked == \A r \in block : req[r].status # "DEAD"

(* Buffered bytes of a reply are given up only when the request is dead:   *)
(* no release, hand-over or time-out truncates a reply that could be sent. *)
RepliesComplete ==
  [][\A r \in Live : r \notin ready' \cup block' => \/ ~req[r].buffered
                                                    \/ req[r].status = "DEAD"]_vars

(* A connection handed from one structure to another has used up one of    *)
(* its KeepAliveMax requests and starts with a clean slate.                *)
KeepaliveSpent ==
  [][\A s \in Slots \ Live :
       s \in block' => \E p \in Live : /\ p \notin ready' \cup block'
                                       /\ fd'[s] = fd[p]
                                       /\ req[p].keepalive
                                       /\ req'[s].kacount = req[p].kacount - 1
                                       /\ ~req'[s].logline]_vars

(* "regular timeouts close + error": a client that stops reading and       *)
(* sending for good is disconnected, whatever it was served.               *)
StalledClientClosed == \A f \in Fds : f \in stalled ~> f \notin stalled

(* Lame duck mode lets pending transactions complete: a live request's     *)
(* socket is not closed under it.                                          *)
LameDuck == \A r \in Live : fd[r] \in open
=============================================================================
