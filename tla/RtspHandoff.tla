---------------------------- MODULE RtspHandoff ----------------------------
(***************************************************************************)
(* RTSP over HTTP: the main loop hands requests to a second thread through *)
(* a slot guarded by a mutex and a condition, the thread pairs a GET with  *)
(* a POST into a session, and gives each request back on a list that no    *)
(* lock guards (rtsp_o_http.c, with its callers in select.c and request.c  *)
(* and the session objects of RTSP_O_HTTPServer.cpp).  SIGUSR1 and SIGUSR2 *)
(* stop and restart the thread.                                            *)
(*                                                                         *)
(* Lists are sets.  Where the two threads write one list at the same time  *)
(* the next state is any of those the pointers can end in.  A behaviour is *)
(* followed until a list is spliced into another one or a structure that   *)
(* one thread has freed is used by the other (torn).                       *)
(***************************************************************************)
EXTENDS Integers, FiniteSets

CONSTANTS
  Requests,  \* request structures of clients that ask for RTSP over HTTP
  Ids,       \* values of x-sessioncookie
  Prompt,    \* whether a running thread always answers within three seconds
  Signals,   \* signals that may arrive: "USR1", "USR2"
  NULL

ASSUME NullAssumption == NULL \notin Requests
ASSUME IdsAssumption == IsFiniteSet(Ids)
ASSUME PromptAssumption == Prompt \in BOOLEAN

VARIABLES
  idle, ready,        \* structures that are free; those on request_ready
  call,               \* method and session id of a request, once they are parsed
  main, hand,         \* where the main loop is, and the request it is busy with
  insert_req, locked, \* the slot, and whether insert_mutex is locked
  signalled,          \* insert_cond was signalled since the main loop waits
  return_list,
  thr, back,          \* where the thread is; the requests it is giving back
  rec, free_list,     \* the session records, and the number of unused ones
  hup, av_stream_pending,
  torn,               \* history: a list or a structure is damaged
  lapsed,             \* history: a hand-over to a running thread has timed out
  lost                \* history: requests in use that no list leads to

pool == <<idle, ready, call>>
slot == <<insert_req, locked, signalled>>
records == <<rec, free_list>>
restart == <<hup, av_stream_pending>>
vars == <<pool, main, hand, slot, return_list, thr, back, records, restart, torn, lapsed, lost>>

Connect == {"IN", "OUT"}          \* FLAGS_CONNECT_OK
Live == {"SETUP", "PLAY"}         \* FLAGS_LIVE_OK
Slots == {"in", "out"}            \* inreq, outreq

(* A record off the used list is CLOSED.  session: the RTSPClientSession    *)
(* that rtspclientsession points to, which deletes itself.                  *)
Record == [status: {"CLOSED", "WAIT_SOCKET", "ACTIVE", "WAIT_CLOSE"},
           flags: SUBSET (Connect \cup Live),
           in: Requests \cup {NULL}, out: Requests \cup {NULL},
           session: {"none", "alive", "deleted"}]
Cleared == [status |-> "CLOSED", flags |-> {}, in |-> NULL, out |-> NULL, session |-> "none"]
(* The status of a request follows from call: READ_HEADER, DONE, or WRITE    *)
(* for a GET and BODY_READ for a POST.                                       *)
READ_HEADER == <<>>
DONE == <<"DONE">>
Calls == {"GET", "POST"} \X Ids
InSessions == {rec[i][s] : i \in Ids, s \in Slots} \ {NULL}
UsedIds == {i \in Ids : rec[i].status # "CLOSED"}

Init ==
  /\ idle = Requests /\ ready = {}
  /\ call = [r \in Requests |-> READ_HEADER]
  /\ main = "loop" /\ hand = NULL
  /\ insert_req = NULL /\ locked = FALSE /\ signalled = FALSE
  /\ return_list = {} /\ thr = "top" /\ back = {}
  /\ rec = [i \in Ids |-> Cleared] /\ free_list = 0
  /\ hup = FALSE /\ av_stream_pending = 0
  /\ torn = FALSE /\ lapsed = FALSE /\ lost = {}

-----------------------------------------------------------------------------
(* The main loop                                                           *)

(* a client connects; get_sock_request takes a structure *)
Arrive(r) ==
  /\ main = "loop" /\ r \in idle
  /\ idle' = idle \ {r} /\ ready' = ready \cup {r}
  /\ UNCHANGED <<call, main, hand, slot, return_list, thr, back, records, restart, torn, lapsed, lost>>

(* free_request; a connection that is kept alive goes on as a new arrival.  *)
(* (new_request clears the structure, so its contents do not matter now.)   *)
free_request(r) ==
  /\ idle' = idle \cup {r} /\ ready' = ready \ {r}
  /\ call' = [call EXCEPT ![r] = READ_HEADER]

(* A visit of process_requests to a request of the thread's: rtsp_over_http *)
(* has parsed it, returns 2, and rtsp_o_http_insert_req begins.  It unlocks *)
(* the mutex, which it still holds after a hand-over that timed out.        *)
HandOver(r) ==
  /\ main = "loop" /\ r \in ready /\ call[r] = READ_HEADER
  /\ \E c \in Calls : call' = [call EXCEPT ![r] = c]
  /\ main' = "try" /\ hand' = r /\ locked' = FALSE /\ signalled' = FALSE
  /\ UNCHANGED <<idle, ready, insert_req, return_list, thr, back, records, restart, torn, lapsed, lost>>

(* pthread_mutex_trylock succeeds: the request is put into the slot, and    *)
(* waiting for the condition releases the mutex                             *)
Offer ==
  /\ main \in {"try", "retry"} /\ ~locked
  /\ insert_req' = hand /\ main' = "wait"
  /\ UNCHANGED <<pool, hand, locked, signalled, return_list, thr, back, records, restart, torn, lapsed, lost>>

(* it fails: sleep and try again, once *)
TryLockFails ==
  /\ main \in {"try", "retry"} /\ locked
  /\ main' = IF main = "try" THEN "retry" ELSE "loop"
  /\ hand' = IF main = "try" THEN hand ELSE NULL
  /\ UNCHANGED <<pool, slot, return_list, thr, back, records, restart, torn, lapsed, lost>>

(* pthread_cond_timedwait returns 0 *)
Woken ==
  /\ main = "wait" /\ signalled /\ ~locked
  /\ main' = "remove" /\ signalled' = FALSE
  /\ UNCHANGED <<pool, hand, insert_req, locked, return_list, thr, back, records, restart, torn, lapsed, lost>>

(* the thread has ended, or is caught in a session, and will not answer *)
Silent == thr = "exit" \/ (thr = "spin" /\ ~signalled)

(* Three seconds have passed: the mutex is kept, the slot stays set and the *)
(* request stays ready.  The signal may already be under way.               *)
TimesOut ==
  /\ main = "wait" /\ ~locked /\ (Prompt => Silent)
  /\ main' = "loop" /\ hand' = NULL /\ locked' = TRUE
  /\ lapsed' = (lapsed \/ ~Silent)
  /\ UNCHANGED <<pool, insert_req, signalled, return_list, thr, back, records, restart, torn, lost>>

RemoveNothing ==
  /\ main = "remove" /\ main' = "loop" /\ hand' = NULL
  /\ UNCHANGED <<pool, slot, return_list, thr, back, records, restart, torn, lapsed, lost>>

(* dequeue( &request_ready, req ).  The thread may already have linked the  *)
(* request into the return list: then request_ready goes on into what lies  *)
(* behind it there, or ends with it, and the return list ends with it.      *)
Remove ==
  /\ main = "remove" /\ main' = "loop" /\ hand' = NULL
  /\ \/ /\ hand \notin return_list
        /\ ready' = ready \ {hand} /\ UNCHANGED <<return_list, torn>>
     \/ /\ hand \in return_list \cup back
        /\ \/ ready' = return_list \ {hand}
           \/ \E before \in SUBSET (ready \ {hand}) : before # {} /\ ready' = before \cup {hand}
        /\ return_list' = return_list \cap {hand}
        /\ torn' = (ready' # ready \ {hand} \/ return_list' # return_list)
  /\ UNCHANGED <<idle, call, slot, thr, back, records, restart, lapsed, lost>>

(* rtsp_o_http_get_return_req has read the head of the return list *)
Take(r) ==
  /\ main = "loop" /\ r \in return_list
  /\ main' = "take" /\ hand' = r
  /\ UNCHANGED <<pool, slot, return_list, thr, back, records, restart, torn, lapsed, lost>>

(* it unlinks the request and select_loop makes it ready.  If the thread is *)
(* about to link another one in front of it, the return list may go on into *)
(* the ready list through it.                                               *)
Taken ==
  /\ main = "take" /\ main' = "loop" /\ hand' = NULL
  /\ call' = [call EXCEPT ![hand] = DONE] /\ ready' = ready \cup {hand}
  /\ \/ return_list' = return_list \ {hand} /\ UNCHANGED torn
     \/ thr = "return" /\ return_list' = return_list \cup ready' /\ torn' = TRUE
  /\ UNCHANGED <<idle, slot, thr, back, records, restart, lapsed, lost>>

(* A visit to a request that is done, or that was not handed over: there is *)
(* nothing to send for a GET; a POST waits for a body, which ends some time. *)
(* After a time-out the thread may have the request by now.                  *)
Visit(r) ==
  /\ main = "loop" /\ r \in ready /\ call[r] # READ_HEADER
  /\ free_request(r)
  /\ torn' = (r \in InSessions \cup back \cup return_list)
  /\ UNCHANGED <<main, hand, slot, return_list, thr, back, records, restart, lapsed, lost>>

(* neither GET nor POST: rtsp_over_http gives up; or the client is gone *)
Refuse(r) ==
  /\ main = "loop" /\ r \in ready /\ call[r] = READ_HEADER
  /\ free_request(r)
  /\ UNCHANGED <<main, hand, slot, return_list, thr, back, records, restart, torn, lapsed, lost>>

-----------------------------------------------------------------------------
(* Restart of the video driver                                             *)

Signal(sig, to) ==
  /\ sig \in Signals /\ av_stream_pending # to /\ av_stream_pending' = to
  /\ UNCHANGED <<pool, main, hand, slot, return_list, thr, back, records, hup, torn, lapsed, lost>>
sigusr1 == Signal("USR1", 1)
sigusr2 == Signal("USR2", -1)

(* process_requests: rtsp_o_http_notify_restart *)
NotifyRestart ==
  /\ main = "loop" /\ av_stream_pending = 1
  /\ hup' = TRUE /\ av_stream_pending' = 2
  /\ UNCHANGED <<pool, main, hand, slot, return_list, thr, back, records, torn, lapsed, lost>>

(* fifteen seconds have passed *)
PendingEnds ==
  /\ main = "loop" /\ av_stream_pending = 2 /\ av_stream_pending' = -1
  /\ UNCHANGED <<pool, main, hand, slot, return_list, thr, back, records, hup, torn, lapsed, lost>>

(* start_rtsp_o_http_thread, in the case that the old thread has ended or   *)
(* stays in a session that the new one does not know of: the requests it    *)
(* held or was giving back are on no list any more                          *)
start_rtsp_o_http_thread ==
  /\ main = "loop" /\ av_stream_pending = -1 /\ thr \in {"exit", "spin"}
  /\ insert_req' = NULL /\ locked' = FALSE /\ UNCHANGED signalled
  /\ hup' = FALSE /\ av_stream_pending' = 0
  /\ rec' = [i \in Ids |-> Cleared] /\ free_list' = 0 /\ return_list' = {}
  /\ thr' = "top"
  /\ lost' = lost \cup ((InSessions \cup return_list) \ (idle \cup ready))
  /\ UNCHANGED <<pool, main, hand, back, torn, lapsed>>

-----------------------------------------------------------------------------
(* The thread                                                              *)

ThreadTop ==
  /\ thr = "top"
  /\ thr' = IF hup THEN "exit" ELSE IF insert_req # NULL THEN "lock" ELSE "poll"
  /\ UNCHANGED <<pool, main, hand, slot, return_list, back, records, restart, torn, lapsed, lost>>

Lock ==
  /\ thr = "lock" /\ ~locked /\ locked' = TRUE /\ thr' = "insert"
  /\ UNCHANGED <<pool, main, hand, insert_req, signalled, return_list, back, records, restart, torn, lapsed, lost>>

(* x with the request r in slot s.  addClientConnection gives a new record  *)
(* its session object.                                                      *)
Attached(x, r, s) ==
  LET bit == IF s = "in" THEN "IN" ELSE "OUT"
      new == x.status = "CLOSED"
      flags == x.flags \cup {bit} \cup IF new THEN {"SETUP"} ELSE {}
  IN  [x EXCEPT !.flags = flags, ![s] = r,
                !.session = IF new THEN "alive" ELSE @,
                !.status = IF Connect \subseteq flags THEN "ACTIVE" ELSE "WAIT_SOCKET"]

InsertIntoClosing(r) ==
  LET i == call[r][2]
      s == IF call[r][1] = "GET" THEN "out" ELSE "in"
  IN  /\ rec[i][s] = NULL
      /\ rec' = [rec EXCEPT ![i] = Attached(@, r, s)]
      /\ free_list' = IF rec[i].status = "CLOSED" /\ free_list > 0 THEN free_list - 1 ELSE free_list
      /\ UNCHANGED lost

InsertTakingSpare(r) ==
  LET i == call[r][2]
      s == IF call[r][1] = "GET" THEN "out" ELSE "in"
  IN  /\ rec[i].status # "WAIT_CLOSE" /\ rec[i][s] = NULL
      /\ rec' = [rec EXCEPT ![i] = Attached(@, r, s)]
      /\ free_list' = IF rec[i].status = "CLOSED" THEN free_list - 1 ELSE free_list
      /\ UNCHANGED lost

(* search_adpative_record finds or makes the record of the request's id, and *)
(* the request gets its place there                                          *)
Insert(r) ==
  LET i == call[r][2]
      s == IF call[r][1] = "GET" THEN "out" ELSE "in"
  IN  /\ rec[i].status # "WAIT_CLOSE" /\ rec[i][s] = NULL
      /\ rec' = [rec EXCEPT ![i] = Attached(@, r, s)]
      /\ free_list' = IF rec[i].status = "CLOSED" /\ free_list > 0 THEN free_list - 1 ELSE free_list
      /\ UNCHANGED lost

(* The session is closing, the place is taken or there is no memory: the    *)
(* request is not put anywhere, and the main loop is not told.              *)
InsertRefused(r) ==
  LET x == rec[call[r][2]]
      s == IF call[r][1] = "GET" THEN "out" ELSE "in"
  IN  /\ \/ x.status = "WAIT_CLOSE" \/ x[s] # NULL
         \/ x.status = "CLOSED" /\ free_list = 0
      /\ lost' = lost \cup {r}
      /\ UNCHANGED records

(* After a time-out the structure in the slot may be free, or in use again.  *)
StaleSlot == insert_req \notin ready \/ call[insert_req] \notin Calls

InsertRequest ==
  /\ thr = "insert" /\ thr' = "signal"
  /\ \/ ~StaleSlot /\ (Insert(insert_req) \/ InsertRefused(insert_req)) /\ UNCHANGED torn
     \/ StaleSlot /\ torn' = TRUE /\ UNCHANGED <<records, lost>>
  /\ UNCHANGED <<pool, main, hand, slot, return_list, back, restart, lapsed>>

SignalKeepingLock ==
  /\ thr = "signal" /\ thr' = "poll"
  /\ insert_req' = NULL /\ signalled' = TRUE /\ UNCHANGED locked
  /\ UNCHANGED <<pool, main, hand, return_list, back, records, restart, torn, lapsed, lost>>

SignalMain ==
  /\ thr = "signal" /\ thr' = "poll"
  /\ insert_req' = NULL /\ signalled' = TRUE /\ locked' = FALSE
  /\ UNCHANGED <<pool, main, hand, return_list, back, records, restart, torn, lapsed, lost>>

(* x after its sockets in gone were closed by the client *)
Disconnected(x, gone) ==
  LET flags == x.flags \ {IF s = "in" THEN "IN" ELSE "OUT" : s \in gone}
  IN  [x EXCEPT !.flags = flags,
                !.in = IF "in" \in gone THEN NULL ELSE @,
                !.out = IF "out" \in gone THEN NULL ELSE @,
                !.status = IF @ = "WAIT_CLOSE" \/ gone = {} THEN @
                           ELSE IF flags \cap Connect # {} THEN "WAIT_SOCKET" ELSE "WAIT_CLOSE"]

(* the reads of one pass over the used list: at[i] are the sockets of i at  *)
(* which the client's end was met.  The requests are given back one by one. *)
Poll ==
  /\ thr = "poll"
  /\ \/ UsedIds = {} /\ thr' = "top" /\ UNCHANGED <<rec, back>>
     \/ /\ UsedIds # {}
        /\ \E at \in [Ids -> SUBSET Slots] :
             /\ \A i \in Ids : \A s \in at[i] : rec[i][s] # NULL
             /\ rec' = [i \in Ids |-> Disconnected(rec[i], at[i])]
             /\ back' = UNION {{rec[i][s] : s \in at[i]} : i \in Ids}
        /\ thr' = IF back' = {} THEN "update" ELSE "return"
  /\ UNCHANGED <<pool, main, hand, slot, return_list, free_list, restart, torn, lapsed, lost>>

ReturnNowhere(r) ==
  /\ back' = back \ {r} /\ thr' = IF back' = {} THEN "update" ELSE "return"
  /\ UNCHANGED <<return_list, lost>>

(* enqueue( &return_list, req ).  A dequeue that has found its request at   *)
(* the head overwrites the head with what was behind that request.          *)
Return(r) ==
  /\ back' = back \ {r} /\ thr' = IF back' = {} THEN "update" ELSE "return"
  /\ \/ return_list' = return_list \cup {r} /\ UNCHANGED lost
     \/ main = "take" /\ lost' = lost \cup {r} /\ UNCHANGED return_list

ReturnRequest ==
  /\ thr = "return"
  /\ \E r \in back : Return(r)
  /\ UNCHANGED <<pool, main, hand, slot, records, restart, torn, lapsed>>

(* What incoming_hander may do to an active session: commands toggle PLAY   *)
(* or end the session (TEARDOWN, an unknown stream, a request too long), on *)
(* which the object deletes itself.  While the session lasts the handler    *)
(* goes on until every byte is used or four of them end no command; it does *)
(* not return if the client's data end with one to three other bytes.       *)
Ended(x) == [x EXCEPT !.flags = @ \ Live, !.status = "WAIT_CLOSE", !.session = "deleted"]
incoming_hander(x) ==
  {x, [x EXCEPT !.flags = @ \cup {"PLAY"}], [x EXCEPT !.flags = @ \ {"PLAY"}], Ended(x)}

(* update_record for one record.  With no socket left the session ends, and *)
(* a record without flags is freed.                                         *)
Updated(x) ==
  IF x.status = "ACTIVE" THEN incoming_hander(x)
  ELSE IF x.status = "WAIT_CLOSE" /\ x.flags \cap Connect = {} THEN {Cleared}
  ELSE {x}

(* the handler of session i does not return: the pass ends there *)
CaughtIn(i) ==
  /\ rec[i].status = "ACTIVE" /\ rec'[i] \in incoming_hander(rec[i]) \ {Ended(rec[i])}
  /\ \A j \in Ids \ {i} : rec'[j] \in Updated(rec[j]) \cup {rec[j]}

update_record ==
  /\ thr = "update"
  /\ rec' \in [Ids -> UNION {Updated(rec[i]) \cup {rec[i]} : i \in Ids}]
  /\ \/ thr' = "top" /\ \A i \in Ids : rec'[i] \in Updated(rec[i])
     \/ thr' = "spin" /\ \E i \in Ids : CaughtIn(i)
  /\ free_list' = free_list + Cardinality({i \in UsedIds : rec'[i].status = "CLOSED"})
  /\ UNCHANGED <<pool, main, hand, slot, return_list, back, restart, torn, lapsed, lost>>

-----------------------------------------------------------------------------
MainLoop ==
  \/ \E r \in Requests : HandOver(r) \/ Refuse(r) \/ Visit(r) \/ Take(r)
  \/ Offer \/ TryLockFails \/ Woken \/ TimesOut \/ Remove \/ Taken
  \/ NotifyRestart \/ PendingEnds \/ start_rtsp_o_http_thread
Thread ==
  ThreadTop \/ Lock \/ InsertRequest \/ SignalMain \/ Poll \/ ReturnRequest \/ update_record
Damaged == torn /\ UNCHANGED vars
Spinning == thr = "spin" /\ UNCHANGED vars
Next ==
  \/ ~torn /\ ((\E r \in Requests : Arrive(r)) \/ sigusr1 \/ sigusr2 \/ MainLoop \/ Thread)
  \/ Damaged \/ Spinning

Spec == Init /\ [][Next]_vars

(* Both threads run.  Every iteration of select_loop empties the return     *)
(* list and visits every ready request.                                     *)
FairSpec ==
  /\ Spec /\ WF_vars(~torn /\ Thread) /\ WF_vars(~torn /\ MainLoop)
  /\ \A r \in Requests : SF_vars(~torn /\ Take(r)) /\ SF_vars(~torn /\ Visit(r))

-----------------------------------------------------------------------------
(* Properties                                                              *)

TypeOK ==
  /\ idle \subseteq Requests /\ ready \subseteq Requests
  /\ call \in [Requests -> {READ_HEADER, DONE} \cup Calls]
  /\ main \in {"loop", "try", "retry", "wait", "remove", "take"}
  /\ hand \in Requests \cup {NULL} /\ insert_req \in Requests \cup {NULL}
  /\ locked \in BOOLEAN /\ signalled \in BOOLEAN
  /\ return_list \subseteq Requests /\ back \subseteq Requests
  /\ thr \in {"top", "lock", "insert", "signal", "poll", "return", "update", "spin", "exit"}
  /\ rec \in [Ids -> Record] /\ free_list \in Nat
  /\ hup \in BOOLEAN /\ av_stream_pending \in {-1, 0, 1, 2}
  /\ torn \in BOOLEAN /\ lapsed \in BOOLEAN /\ lost \subseteq Requests

(* hand has been given to the thread, which may already have given it back, *)
(* and is still on request_ready                                            *)
HandedOver == main = "remove" \/ (main = "wait" /\ (signalled \/ thr = "signal"))
Places == <<idle, IF HandedOver THEN ready \ {hand} ELSE ready, return_list, back, InSessions, lost>>

(* Every request of the pool is in one place: free, with the main loop,     *)
(* with the thread or on its way back, as long as no hand-over has timed    *)
(* out and nothing is damaged.  A request drops out of the system only      *)
(* where the thread refuses it, at a restart, or where two accesses to the  *)
(* return list collide.                                                     *)
OneOwner ==
  ~torn /\ ~lapsed =>
    /\ \A i, j \in 1 .. 6 : i # j => Places[i] \cap Places[j] = {}
    /\ UNION {Places[i] : i \in 1 .. 6} = Requests
    /\ \A p, q \in Ids \X Slots :
         rec[p[1]][p[2]] # NULL /\ rec[p[1]][p[2]] = rec[q[1]][q[2]] => p = q

(* What update_record follows without a test is there: an active session    *)
(* has its POST request and a session object, and a closing one whose flags *)
(* say that the object lives has it.  An object that lives is known by its  *)
(* flags, so that none is forgotten when the record is freed.               *)
SessionUsable ==
  \A i \in Ids : LET x == rec[i] IN
    /\ x.status = "ACTIVE" => x.in # NULL /\ x.session = "alive"
    /\ x.session = "alive" <=> x.flags \cap Live # {}

(* Neither thread is held up for ever by the mutex, the condition or a      *)
(* list: select_loop comes back from every hand-over, even when the thread  *)
(* is caught in incoming_hander, and the thread comes back to its queue     *)
(* unless it ends or is caught there, or a hand-over has timed out, after   *)
(* which the main loop keeps the mutex.                                     *)
BothGoOn ==
  /\ main # "loop" ~> (main = "loop" \/ torn)
  /\ thr \notin {"top", "spin", "exit"} ~> (thr \in {"top", "spin"} \/ lapsed \/ torn)

(* A request whose client has gone is freed, unless two accesses to the     *)
(* return list collide or a restart forgets the list.                       *)
ReturnedIsFreed == \A r \in Requests : r \in back ~> (r \in idle \/ r \in lost \/ torn)

(* "done, will close": a request that the thread gives back is closed.      *)
ReturnedWillClose == \A r \in Requests : r \in back ~> (r \in idle \/ torn)
=============================================================================
