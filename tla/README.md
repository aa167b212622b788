# Verification of the DCS-2210 camera web server

The repository is the firmware of a network camera. Its own logic, as far as it
is there as source, is the web server in
`src/DCS-2210/apps/public/boa-0.94.13/src` (called B below): boa 0.94.13,
extended with a camera API, user sessions, video streams and RTSP over HTTP.
The other directories of `apps/public` are third-party packages; `apps/private`
and `apps/driver` hold binaries. This project models the server in TLA+, checks
the models with TLC and proves the main results with TLAPS.

## 1. The system

One process, one main thread. `select_loop` (select.c) runs: signal flags,
`fdset_update` (time out blocked requests, wake those select reported, watch the
rest again), `process_requests` (visit every ready request once), then
`select`. A *request* is a structure from a pool of `MAX_REQUEST`; it is on the
ready, the blocked or the free list and carries one connection. Its status names
the handler that `process_requests` calls; the handler returns -1 (block), 0
(complete), 1 (stay ready) or 2 (hand over to the RTSP thread).

| Component (B/) | State | Operations | Interacts through |
|---|---|---|---|
| queues and pool: queue.c, request.c 8588 | three lists, `request_count` | new_request, enqueue, dequeue, block_request, ready_request, free_requests | everything |
| select loop: select.c | fd sets, `max_fd`, `current_time`, `pending_requests` | select_loop, fdset_update | descriptors, status, time_last |
| request life cycle: request.c 8620-9574 | struct request, `total_connections` | get_sock_request, process_requests, free_request, process_header_end, process_option_line | calls the handlers |
| reading: read.c | client_stream, parse_pos, header pointers | read_header, read_body, write_body | calls process_header_end, init_cgi |
| files and streams: get.c | data_mem, filepos, frame locks | init_get, process_get | mmap cache, frame memory |
| CGI: cgi.c, cgi_header.c, pipe.c | data_fd, post_data_fd, cgi_status | init_cgi, process_cgi_header, read_from_pipe, write_from_pipe | pipe to a child |
| replies: buffer.c, response.c | buffer, buffer_start, buffer_end | req_write, req_flush, send_r_* | every handler |
| mmap cache: mmap_cache.c | hash table with reference counts | find_mmap, release_mmap | init_get, free_request |
| sessions: auth.c | connection lists, counter, revoke flag | alloc/free/revoke_connection, check_user, idle sweep | req->connect, accounts |
| signals: signals.c | sigterm_flag, sighup_flag, av_stream_pending | stage 1 and 2 of SIGTERM, SIGHUP, SIGUSR1/2 | top of select_loop |
| RTSP over HTTP: rtsp_o_http.c, *.cpp | insert slot, used, free and return lists | insert_req, thread, get_return_req | second thread |
| URI handlers and API: request.c 139-8560, appro_api.c, web_translate.c | camera settings | one handler per URI | fill the reply buffer |
| aliases, MIME, configuration, logging | tables read at start | lookups | process_header_end |

What is hard here, and hardly reached by a test: a structure changes lists while
the ready list is being walked; three functions choose independently which
descriptor a request waits on; time-outs race readiness; `select` fails in two
ways with different effects on the sets; descriptors are handed from body file
to pipe and from structure to structure; signals change sockets under live
requests; limits (pool, descriptors, keepalive budget, hash table) are met one
step before or after the count is updated; the session sweep frees nodes of the
list it follows; a stalled client must not be served for ever. `PROJECT.json`
lists each such hazard at its line, with the properties that cover it.

What makes each component correct: lists are disjoint and counts right; nobody
waits for something that is not watched; every descriptor has one owner; replies
are not cut; a silent client is dropped; a mapping lives as long as somebody
sends from it and is of the right file; a session stays with one account for as
long as a request refers to it, and an account has one session per address; the
sweep ends.

## 2. The modules

**RequestLoop** is the core. State and code correspond by name: `ready`, `block`,
`free`, `request_count`, `total_connections`, `pending_requests`, `sigterm`;
`rset`, `wset` and `srv` are the fd sets; `req` holds the fields of a structure
that control depends on, with `buffered` for `buffer_end != 0`, `age` for
`current_time - time_last` and `input` and `body` for how much of the header and
of a POST body is at hand; `aux` is `data_fd` or `post_data_fd`, which are never
both set; `open` is the kernel's descriptor table, in which a new descriptor is
the lowest free one, and `stalled` the connections whose client has gone silent.
`pc` walks through an iteration of `select_loop`:

    top -> fdset -> begin -> (visit -> accept -> finish)* -> visit -> select -> top

with one action each: `TopOfLoop`, `fdset_update`, `BeginProcess`, a handler
(`Handle`), `AfterHandler` (lame-duck squash and accept), `Finish` (the switch on
`retval`: `block_request`, `free_request`, stay), `EndProcess`, and `SelectSoon`,
`SelectLater` and `SelectInterrupted`. The handlers `read_header` ..
`write_from_pipe` are translated branch by branch: each ends in
`Return(r, q, ret)`, `q` being the new contents and `ret` the result. What a
client sends is left open: `Kinds` chooses which branches of
`process_header_end` an instance explores.

Abstractions: lists are sets and the order of visits is free (requests enqueued
during the walk go to the head, behind the cursor, and are not visited before the
next iteration); the buffer is empty or not; several reads that fill the CGI
buffer are one visit, so that the model's `age` may be older than the code's
while a child trickles output; a body file takes a write whole or fails; the
clock advances by whole seconds at the two places the code reads it, and the
shared-memory second of the stream time-out moves with it; readiness may be
spurious. One SIGTERM is delivered per behaviour. The HTTPS listener is not in the
model; the RTSP hand-over (result 2) and the restart of the video driver are in
RtspHandoff. `simple_post` is a POST whose first line has no HTTP version: read.c:123
returns to the header with `process_header_end` done once, and its end does it
again over the first body file's descriptor.

**RtspHandoff** has two threads. `main` says where the main loop is inside
`rtsp_o_http_insert_req` (`try`, `retry`, `wait`, `remove`) or
`rtsp_o_http_get_return_req` (`take`), `hand` is the request it works on; `thr` is the
thread's position (`top`, `lock`, `insert`, `signal`, `poll`, `return`, `update`, `exit`, or
`spin`, in a command handler that does not return).
The slot is `insert_req`, `locked`, `signalled`; `rec[i]` is the record of session id
`i`, with the session object that deletes itself, and `free_list` counts spare
records. `hup` and `av_stream_pending` are the restart machine that SIGUSR1 and
SIGUSR2 drive. Lists are sets, as in RequestLoop, but where one thread unlinks
while the other links (`Remove`, `Taken`, `Return`) the step has all the results that
the pointers allow; when a list has been spliced into another, or a structure
freed by one thread is used by the other, `torn` is set and the behaviour is not
followed further. `lost` collects the requests that no list leads to any more, and
`lapsed` says that a hand-over to a running thread has timed out. Requests of
other clients do not matter here; what RequestLoop does with a request up to
`rtsp_over_http` is `Arrive` and `HandOver`. The RTSP commands are reduced to what
they do to the record (`incoming_hander`), and to whether the handler returns: its
loop (RTSP_O_HTTPServer.cpp:163-221) ends when all decoded bytes are used or when
four or more of them contain no end of a command, so one to three left-over bytes
keep it running for ever, and the pass of `update_record` stops at that session
(`CaughtIn`). `Woken` needs a signal: POSIX lets `pthread_cond_timedwait` also return 0
without one, and rtsp_o_http.c:95 does not look at the slot again; such spurious
wake-ups are not in the model.

**RequestBytes** follows the bytes of one connection. A byte of the client is its
position in `input`, whose value is CR, LF or other; a byte of the CGI program is
its position in `output`. `client_stream`, `parse_pos`, `header_line` and `header_end`
are the code's, the pointers as offsets, `data` is what lies between the two
pointers once they delimit data, and `buffered` what lies between `buffer_start` and
`buffer_end`. `Scan` is the automaton of `read_header`; one action is one turn of its
loop, one `read` or one `write`, which may stop after any byte. What a line or a URI
means is a choice. A simple POST is not followed here, and neither are bodies that
a program reads from the socket itself (URI_FLAG_DIRECT_READ).

**MmapCache** is the open-addressed table with its probe, limit and counts, and
the requests that hold entries. `asked` is a history variable. **FileStore** is what
`init_get` and `free_request` rely on, without a table: which file a request sends,
and which files are in memory. MmapCache implements it under the mapping `Sends`,
`Mapped`.

**AuthConnections** keeps the session lists at pointer level, because
`free_connection` runs while the idle sweep follows `next`. A connection's name,
password and authority are pointers into the account table (auth.c:251-253): the
model keeps the `slot`, and `UserIn` reads the table when the code follows the
pointers, so that an account which is erased or written over changes the user of
live connections. `check_user` takes two steps, one per allocation. It does not ask
whether the request has a connection: a POST without version is checked after its
first line, as guest, and again after its header (read.c:123 and :135,
request.c:9528), with other requests in between; `CheckUser` may therefore meet
a request that is logged in, which then refers to the second connection and is
counted on both. (The `login` command, appro_api.c:16428, checks only requests
without a connection.) `uri_user_del` and `del_user` erase the account and then revoke
by name; the first looks at as many slots as there are users, the second at all.
`uri_user_mod` writes a new user into the first blank slot, `add_user` over the slot
that has the name, and both change the password of the account that the request
is logged in to. Authorities are reduced to `Commands`: guest has not enough. The
sweep is one action per iteration. `user_logout` frees a connection that its request,
and perhaps others, still refer to (`orphans`); when such a node is taken or freed
once more it has two users (`confused`), and the behaviour is not followed further.
A logout without a connection follows a null pointer (`crash`).

**MCRequestLoop**, **MCRtspHandoff**, **MCRequestBytes**, **MCMmapCache** and
**MCAuthConnections** instantiate them for TLC. **RequestLoopProofs**,
**RequestLoopFdProofs**, **RequestLoopStepProofs**, **RtspHandoffProofs**,
**RtspOwnerProofs**, **MmapCacheProofs**, **AuthConnectionsProofs** and
**RequestBytesProofs** hold the proofs. Operators such as `CloseLeavingAux` or
`BlockRequestNoBit` are faulty variants of the definition that follows them: with
the variant in its place the named property of the named run fails, which shows
that the property can tell.

## 3. The runs

| Run | Instance | Checks | Result |
|---|---|---|---|
| kinds | 2 structures, 3 descriptors, keepalive budget 1, big files, CGI, POST | TypeOK, FdOwnership, ConnectionCount, DeadNotBlocked, NoLostWakeup, RepliesComplete, KeepaliveSpent | hold |
| signals | 2 structures, 2 connections, TERM and HUP, API, files, streams | QueueOwnership, PoolAccounting, ConnectionCount, FdOwnership, NoLostWakeup | hold |
| live | 1 structure, all kinds but streams, silent clients, `FairSpec` | StalledClientClosed | holds |
| stream | the same with streams | StalledClientClosed | violated |
| lameduck | 2 structures, TERM | LameDuck | violated |
| mmap | 4 entries, limit 2, 4 requests, 4 files | TypeOK, CountsHolders, EntriesCounted, RightFile, ProbeStops, ImplementsStore | hold |
| auth | 2 nodes, limit 1, 2 requests, 2 account slots, 2 names, 2 passwords | TypeOK, ListsIntact, CountsRequests, OneSession, AccountStable | hold |
| auth_sweep | 2 nodes, 1 account, 2 addresses, `FairSpec` | SweepTerminates | violated |
| rtsp | 2 requests, 2 ids, USR1 and USR2, prompt thread, `FairSpec` | OneOwner, BothGoOn, ReturnedIsFreed | hold |
| rtsp_late | 2 requests, 1 id, USR1 and USR2, time-outs at any moment | TypeOK, SessionUsable | hold |
| rtsp_return | 2 requests, 1 id, prompt thread, no signals, `FairSpec` | ReturnedWillClose | violated |
| bytes | 6 bytes of input, 6 of output, buffer of 5 | TypeOK, LinesAsSent, BodyExact, OutputExact | hold |

*Bounds.* Two structures suffice for a hand-over, for a second client during it
and for a pool that is used up, and no operation touches three at once; what the
theorems of section 4 state does not depend on the number. Structures are
interchangeable, and safety runs use that symmetry.
Three descriptors are two sockets and one pipe or file, so the table runs out;
`max_connections` is 1 or 2 so that the 503 branch or two full connections occur.
A keepalive budget of 1 has both values the test `kacount > 0` tells apart, and
time-outs of 0 and 1 tick give ages below, at and above each limit. `RESERVED` is
10 in the code and 0 here, where the descriptors are few. Four table entries with
limit 2 are filled to limit + 1, as the code's `>` allows, and the files collide,
wrap and differ in size only. `MAX_DRIFT` stops `connection_counter` from falling
without bound; nothing but the test against `MAX_CONNECTION` reads it, and any
value below the limit has the same effect, so the bound is 0.
Two nodes and a limit of 1 are a list of two (a node that was freed makes room for
another `malloc`), a full table and a free list that is empty or not; longer lists
are left to the proofs. Two slots, of which the first is protected, and two names
with two passwords let an account be erased and given to another user, or to the
same one again, while a connection points to it, let two accounts carry one name,
and let a user be called guest. `MAX_COUNT` bounds how often a request is checked
again: with 2, a connection counts both requests, or one request twice.
In RtspHandoff two requests are the GET and the POST of one session, or one that
is handed over while the other comes back; with two ids they are in two sessions
instead. `Prompt` says that a running thread answers within three seconds; with it
a hand-over times out only when the thread has ended or is caught in a session. In RequestBytes the inputs are
all sequences of six bytes, so that two pipelined requests (`c LF LF` twice), CR and
LF in every combination, and a body of one or three bytes occur; the buffer of five
is smaller than input and output, so that it fills up in the header, in the body
and at the end of the program's header; an output of six is read in several
rounds. `SIZE` is `CLIENT_STREAM_SIZE` and `BUFFER_SIZE`, which are equal in the code.
Deadlock is allowed only where SIGTERM makes the process exit.

*Fairness.* `FairSpec` of RequestLoop is WF(`Loop`), the process keeps running, and
SF(`SelectLater`), a loop that returns from `select` again and again sees the clock
advance; `select` has a time-out of at most one second. Nothing is assumed of
clients or of readiness. `FairSpec` of AuthConnections is WF(`Sweep`): a loop
that was entered goes on. `FairSpec` of RtspHandoff is WF(`Thread`) and
WF(`MainLoop`), both threads are scheduled, with SF(`Take(r)`) and SF(`Visit(r)`):
every iteration of `select_loop` empties the return list (select.c:69) and visits
every ready request, so neither is passed over for ever. It assumes nothing of
clients, of signals or of when a wait ends.

*What the violations show.* (stream) request.c:9313 replaces a "blocked" result by
"complete" once a stream is too old; with bytes in the buffer `free_request` only
sets DONE, and the request stays ready for ever, its age reset at each visit.
(lameduck) SIGTERM closes the sockets of ready requests, while the ChangeLog
promises that pending transactions complete. (rtsp_return) the return list has no
lock: `dequeue` of the main loop, which has read the head, stores what was behind it
as the new head, and a request that the thread has put in front meanwhile is on
no list any more; its structure and its socket are never freed, although
rtsp_o_http.c:69 says "done, will close". ReturnedIsFreed shows that this and a
restart are the only ways in which a request does not come back. (auth_sweep) two sessions that have idled out make the sweep free a free node and
run round a cyclic list. ListsIntact is stated for the moments at which requests
are served; a sweep that never ends does not get back there.

More behaviours are in the models without a run of their own. A request that
times out when it was also reported ready has its wrong bit cleared (queue.c:89),
and a later `select` fails with EBADF; the loop recovers, because after EBADF all
bits count as ready, and DeadNotBlocked and NoLostWakeup hold through it. And a
POST without HTTP version leaves its first body file open for good: FdOwnership
says so by its case for `simple_post`, and the live run, which has such clients,
shows that others are still dropped in time. Such a POST is also counted twice by
`check_user`: CountsRequests says that a counter is never too low; where it is too
high the sweep keeps the connection for good. `uri_user_del` erases the account
before `revoke_connection` looks for its name, so that the deleted user's
connections are not revoked, and a user written into the slot later takes them over, together
with the requests that refer to them: AccountStable holds of the account and the
address, and nothing of the kind holds of the user. OneSession holds all the same,
because whoever logs in to an account with a connection from that address finds
it, whatever the account is called by then. `user_logout` from a page that needs no
login ends the process. And the RTSP thread is caught in `incomingRequestHandler1` by
a client whose data end in one to three stray bytes; BothGoOn shows that
`select_loop` gets over each hand-over then, after its three seconds, but no session
is served until a restart.

## 4. The proofs

For every pool, descriptor set, limit, set of kinds and set of signals (the
ASSUMEs of RequestLoop: `Slots` and `Fds` are finite, 0 is not one of `Fds`, limits
are natural numbers):

| Theorem | States |
|---|---|
| TypeCorrect | `Spec => []TypeOK` |
| QueuesDisjoint | `Spec => []QueueOwnership` |
| ConnectionsCounted | `Spec => []ConnectionCount` |
| PoolBounded | `Spec => []PoolAccounting` |
| DescriptorsOwned | `Spec => []FdOwnership` |
| NoDeadRequestWaits | `Spec => []DeadNotBlocked` |
| NoWakeupLost | `Spec => []NoLostWakeup` |
| NoReplyTruncated | `Spec => RepliesComplete` |
| BudgetSpent | `Spec => KeepaliveSpent` |

The argument. `Handled(r)` summarises all handlers: some type-correct contents, a
result, one of four effects on the descriptors, and never "block" for a request
that was declared dead. One lemma per handler shows that it is so summarised;
nothing after them looks into a handler again. `QInv` is TypeOK and
QueueOwnership, inductive together: that the current request is ready is needed
to see that `free_request` and `block_request` take it from the list it is on. The
counts follow with the cardinality of a set with one element more or less.
`FInv` strengthens FdOwnership, which is not inductive: a handler that opens a
file must have had none (`AuxUnused`: a request that reads its header has no second
descriptor, and neither has a structure off the lists) or the old one would leak.
`DInv` adds to DeadNotBlocked that a result of -1 on its way to the switch never
belongs to a dead request. `WInv` extends NoLostWakeup, which speaks of the call of
`select`, back to the moment at which `fdset_update` has built the sets: from there on
nothing is taken out of them, `block_request` and the keepalive branch of
`free_request` put in what their own request waits for, and no handler changes what
a blocked request waits for. The strengthenings were checked with TLC before they
were proved. The two action properties follow from the lemma that only `Finish`
takes requests off the lists. When `Kinds` holds `simple_post` (`Forgetful` in the
proofs), AuxUnused fails for requests that read their header, and what is proved
of descriptors is that they are open and not shared.

For every table size, set of files and set of requests (the ASSUMEs of MmapCache:
`MMAP_LIST_USE_MAX + 1 < MMAP_LIST_SIZE`, which the code's 128 and 256 satisfy, files
are pairs of numbers, `Requests` is finite, `NoEntry` is not an index):

| Theorem | States |
|---|---|
| HoldersCounted | `Spec => []CountsHolders` |
| FilesRight | `Spec => []RightFile` |
| UseCounted | `Spec => []EntriesCounted` |
| ProbesStop | `Spec => []ProbeStops` |
| TypeCorrect | `Spec => []TypeOK` |
| TableImplementsStore | `Spec => ImplementsStore`, that is `FileStore!Spec` under the mapping |

The argument. `MInv` is TypeOK, CountsHolders and RightFile. RightFile is not
inductive alone: an entry is given to another file when its count is zero, and
only CountsHolders says that nobody holds it then. EntriesCounted follows with
the cardinality of the set of used entries. `find_mmap` gives up when the number
used is above the limit and otherwise takes one entry more, so one more than
the limit may be in use (`TableBound`); that is less than the table, so some entry
is free, and the least distance at which the probe meets such an entry is where
it stops (`SmallestOf`, the least-number principle, from the well-foundedness of
`<` on the natural numbers).

The refinement needs `MInv` and the definition of `Used`: `Share` and `Fill` map to
`Open`, because the entry's key is the file that was asked for; `Drop` maps to
`Close`, and the file leaves `Mapped` when no other entry in use has its key, which
CountsHolders turns into "no other request sends it"; `NotMapped` stutters.

For every set of requests, finite set of ids and set of signals, and with or
without time-outs (the ASSUMEs of RtspHandoff):

| Theorem | Module | States |
|---|---|---|
| TypeCorrect | RtspHandoffProofs | `Spec => []TypeOK` |
| SessionsUsable | RtspHandoffProofs | `Spec => []SessionUsable` |
| OwnersUnique | RtspOwnerProofs | `Spec => []OneOwner` |

The argument. `IInv` is TypeOK, `RecordsOK` (status, flags, slots and session object
of a record agree: IN and OUT are set exactly when their slots are taken, an active
record has both, one that is active or waits for a socket has a live session
object, a closed one is blank) and `HandTaken` (a request that is being taken from the
return list is in hand). SessionUsable alone is not inductive, since a record that waits for a
socket becomes active when the second slot is filled, and only RecordsOK says
that its object lives then. For OneOwner, `OInv` says under `Sound` (nothing torn,
no hand-over lapsed) what the positions of the two threads mean for each other:
when the thread has passed `insert` the main loop is still waiting for that very
request, so that the moment at which a request has two owners is exactly
`HandedOver`; that the places are disjoint (`Parted`) and that no request is in two
slots (`SlotsDiffer`). A thread that is caught in a session counts as one that has ended:
what is in the slot is not taken any more, and stays with the main loop. Each step of either thread then moves one request from one
place to the next.

For every finite set of nodes and of requests, every set of users and addresses
and every limit (the ASSUMEs of AuthConnections: `NULL` is neither a node nor a slot,
no user's name is empty, there is at least one slot and the first is protected,
the limits are natural numbers):

| Theorem | States |
|---|---|
| ConnectionTypes | `Spec => []TypeOK` |
| ConnectionLists | `Spec => []ListsIntact` |
| ConnectionCounts | `Spec => []CountsRequests` |
| SessionsUnique | `Spec => []OneSession` |
| AccountKept | `Spec => AccountStable` |
| SweepSpins | `Spec => [][Spinning => Spinning']_vars` |

The argument. The model follows pointers with a recursive function; the proofs name
the walk instead. `Chain(link, h, n, s)` says that `s` is the sequence of the `n`
different nodes that `link` leads through from `h`, `Mirror` that `last` holds it
backwards, and `Intact` that the ready and the free list are two such walks which
share no node and hold the whole heap. Taking a node is `Push` on one and dropping
the head of the other, freeing one is `Cut` and `Push`; that the walk is what
the recursive function collects (`WalkChain`, `ListSeen`) is shown by induction, for
which `Induction` derives from the well-foundedness of `<` a form that speaks of a set of
numbers. `AInv` adds that no counter is below the number of referring requests
(`Counted`), that referring requests have ready nodes unless they logged out (`Held`), and
that no two ready nodes are of one account and address (`Unique`). OneSession is
inductive although names and passwords change: two connections of one account have
at every moment the same user, so a login that opens a new one has seen that there
is none (`WalkMeets`: the walk of `check_user` meets every ready node), and erasing
and writing accounts changes no slot of a connection. ListsIntact
is not inductive, because the sweep may not end: in the middle of a sweep either
the lists are still intact and the sweep stands on a ready node or, after its
first free, on the free list (`OnTrack`), or it is `Spinning`, on an idle node with
another one at the head of the free list. CountsRequests is what makes the free
sound: the sweep frees at counter zero, to which nobody refers. SweepSpins says of
every instance what the run auth_sweep finds in one: a sweep that has come to
`Spinning` stays there.

For every set of inputs, outputs and lengths and every buffer size above 1 (the
ASSUMEs of RequestBytes: inputs are sequences over `Bytes`, a header ends within
its output, lengths are natural numbers):

| Theorem | States |
|---|---|
| BytesTypes | `Spec => []TypeOK` |
| LinesAreAsSent | `Spec => []LinesAsSent` |
| BodyIsExact | `Spec => []BodyExact` |
| OutputIsExact | `Spec => []OutputExact` |

The argument. As a byte is its position, all buffers hold runs: `Run(s, a)` says that `s`
is the bytes that follow byte `a`, a read continues a run, a write cuts one in two
(`RunJoined`, `RunCut`). `BInv` is TypeOK, `StreamInv` (`client_stream` is the run behind
`base`, and nothing else is read before there is a body), `HeadInv` (while a header is
read nothing is on its way to the client), `BodyInv` (body file and `data` are one run
behind the header; `data` never reaches beyond the Content-Length, and holds all of
the client's bytes unless it has reached it) and `OutputInv` (what was sent, what is
buffered and what is in `data` are one run, which begins at `Start` and ends with what
was read of the pipe). BodyExact and OutputExact are not inductive without
it: that nothing is lost depends on where the bytes are that have not arrived.
`Expected` is the run from `Start` of length `Total`, so sent bytes are a prefix of it.
`LineInv` says what a status of the automaton means (`Seen`): in READ_HEADER the last
byte belongs to the text, in ONE_CR only carriage returns follow `header_end`, in
ONE_LF the line has just begun, in TWO_CR it has carriage returns only; and that the
number of line feeds up to `header_line` is the number of lines processed, none of
which is an empty line after the first (`Begins`). Then the next line feed ends the
next line (`NextLine`), whose text is what `SubSeq` cut out (`TextOfLine`).

Only model-checked: liveness (StalledClientClosed, SweepTerminates, BothGoOn,
ReturnedIsFreed, ReturnedWillClose), because the prover does not treat fairness;
and LameDuck, which is violated. Every invariant and every action property of the
passing runs is stated by a theorem.

## 5. Plan

Done: RequestLoop, RtspHandoff, MmapCache, AuthConnections and RequestBytes with
their runs and proofs, and the refinement of FileStore. Left, in this order:

1. An abstract specification of sessions that AuthConnections implements while no
   sweep runs and no connection is confused.
2. AvStream (request.c 9186-9214, process_get, signals.c 75-90): frame locks and
   the restart of the driver under blocked streams, as far as the code in B tells
   how the driver library behaves.
3. URI handlers with state of their own: presets, the flags acted on at the end of a
   request.

## 6. Not modelled

- *Third-party packages* (busybox, keepalived, ipvsadm, rp-pppoe, wpa_supplicant,
  dosfstools and the rest of `apps/public`): built unchanged into the firmware and
  not part of its own logic. They are most of the repository's lines.
- *Drivers and private programs*: binaries, scripts and configuration.
- *appro_api.c, web_translate.c and the bodies of the URI handlers in request.c*:
  several hundred functions that read or write one setting each through a
  shared-memory library that is not in the repository, and print the result.
  They have no state of their own and are called from one place; what they do to
  the request is `uri_handler` of RequestLoop, and those that touch the server's own
  state, `user_logout` and the four that write the account table, are in
  AuthConnections.
- *live555 and video frame input*: the library and the chip's driver library are
  not in the repository.
- *A second RTSP thread*: request.c:9212 starts a thread whether or not the old one
  has ended. The model starts one only when it has, or is caught in a session whose
  record and requests the new one does not know of; two threads on the same unlocked
  lists have no behaviour worth stating.
- *Lookup tables, string functions, logging, directory listings, HTTPS*: sequential
  code without the hazards listed, or a library (OpenSSL) that is not in the
  repository.
