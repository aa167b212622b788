----------------------- MODULE RequestLoopStepProofs -----------------------
(***************************************************************************)
(* What no step of the loop does: leave a dead request waiting, lose a     *)
(* wake-up, drop bytes of a reply that could be sent, or hand a connection *)
(* over with more than its budget.                                         *)
(***************************************************************************)
EXTENDS RequestLoopProofs

(* The steps that change neither the statuses nor the blocked list, other  *)
(* than handlers, acceptances, fdset_update and Finish.                    *)
LEMMA QuietSteps ==
  ASSUME QInv,
         \/ TopOfLoop \/ EndProcess \/ SelectSoon \/ SelectLater \/ SelectInterrupted
         \/ Tick \/ SigTerm \/ (\E r \in Slots : Stall(r)) \/ UNCHANGED vars
  PROVE  /\ ready' = ready /\ block' = block /\ cur' = cur /\ retval' = retval
         /\ \A r \in Slots : req'[r].status = req[r].status /\ req'[r].buffered = req[r].buffered
         /\ pc' \in {"accept", "finish"} => pc \in {"accept", "finish"}
<1>1. CASE TopOfLoop
  BY <1>1 DEF TopOfLoop, cursor
<1>2. CASE EndProcess
  BY <1>2 DEF EndProcess, queues, cursor
<1>3. CASE SelectSoon \/ SelectLater \/ SelectInterrupted
  <2>1. \A r \in Slots : req'[r].status = req[r].status /\ req'[r].buffered = req[r].buffered
    BY <1>3, ClockType DEF SelectSoon, SelectLater, SelectInterrupted, QInv
  <2>2. pc' = "top" /\ UNCHANGED waiting
    BY <1>3 DEF SelectSoon, SelectLater, SelectInterrupted, SelectReturn, SelectBadFd
  <2>3. QED
    BY <2>1, <2>2 DEF waiting, queues, cursor
<1>4. CASE Tick
  <2>1. \A r \in Slots : req'[r].status = req[r].status /\ req'[r].buffered = req[r].buffered
    BY <1>4, ClockType DEF Tick, QInv
  <2>2. QED
    BY <1>4, <2>1 DEF Tick, queues, cursor
<1>5. CASE SigTerm \/ (\E r \in Slots : Stall(r)) \/ UNCHANGED vars
  BY <1>5 DEF SigTerm, Stall, vars, queues, cursor
<1>6. QED
  BY <1>1, <1>2, <1>3, <1>4, <1>5

(* What decides where the request of r waits stays as it is, but for aux.  *)
SameWaits(r) ==
  req'[r].status = req[r].status /\ req'[r].buffered = req[r].buffered /\ fd'[r] = fd[r]

(* An acceptance leaves the requests there are alone.                      *)
LEMMA AcceptKeeps ==
  ASSUME QInv, AfterHandler \/ BeginProcess
  PROVE  /\ block' = block /\ ready \subseteq ready'
         /\ \A r \in Live : SameWaits(r)
<1>1. Live \subseteq Slots /\ req \in [Slots -> Request]
  BY DEF Live, QInv, TypeOK
<1>2. ASSUME NEW reqs \in [Slots -> Request], AcceptIfPending(reqs),
             \A r \in Slots : reqs[r].status = req[r].status /\ reqs[r].buffered = req[r].buffered
      PROVE  /\ block' = block /\ ready \subseteq ready'
             /\ \A r \in Live : SameWaits(r)
  <2>1. CASE UNCHANGED accepting /\ req' = reqs
    BY <1>1, <1>2, <2>1 DEF accepting, queues, SameWaits
  <2>2. ASSUME NEW s \in Slots, new_request(s), ready' = ready \cup {s}, UNCHANGED block,
               NEW f, fd' = [fd EXCEPT ![s] = f],
               NEW q, req' = [reqs EXCEPT ![s] = q]
        PROVE  /\ block' = block /\ ready \subseteq ready'
               /\ \A r \in Live : SameWaits(r)
    <3>1. s \notin Live
      BY <2>2, NewRequestQueues DEF Live
    <3>2. QED
      BY <1>1, <1>2, <2>2, <3>1 DEF SameWaits, QInv, TypeOK
  <2>3. QED
    BY <1>2, <2>1, <2>2 DEF AcceptIfPending, get_sock_request
<1>3. CASE AfterHandler
  <2>1. cur \in Slots /\ req[cur] \in Request
    BY <1>3 DEF AfterHandler, QInv, QueueOwnership, TypeOK
  <2>2. /\ SQUASH_KA(req[cur]) \in Request
        /\ SQUASH_KA(req[cur]).status = req[cur].status
        /\ SQUASH_KA(req[cur]).buffered = req[cur].buffered
    BY <2>1 DEF SQUASH_KA, Request
  <2> DEFINE reqs == IF sigterm # 0 THEN [req EXCEPT ![cur] = SQUASH_KA(@)] ELSE req
  <2>3. /\ reqs \in [Slots -> Request]
        /\ \A r \in Slots : reqs[r].status = req[r].status /\ reqs[r].buffered = req[r].buffered
    BY <1>1, <2>1, <2>2
  <2>4. AcceptIfPending(reqs)
    BY <1>3 DEF AfterHandler
  <2> HIDE DEF reqs
  <2>5. QED
    BY <1>2, <2>3, <2>4
<1>4. CASE BeginProcess
  BY <1>1, <1>2, <1>4 DEF BeginProcess
<1>5. QED
  BY <1>3, <1>4

-----------------------------------------------------------------------------
(* No dead request waits                                                   *)

(* DeadNotBlocked with what Finish needs: a handler that asks to block its *)
(* request has not declared it dead.                                       *)
DInv ==
  /\ DeadNotBlocked
  /\ pc \in {"accept", "finish"} /\ retval = -1 => req[cur].status # "DEAD"

(* fdset_update wakes whatever it kills.                                   *)
LEMMA UpdateDead ==
  ASSUME QInv, fdset_update
  PROVE  DInv'
<1> DEFINE woken == {r \in block : \/ Expired(req[r]).status = "DEAD"
                                  \/ Ripe(r, Expired(req[r]))}
<1>1. Update(woken, block \ woken)
  BY DEF fdset_update
<1>2. \A r \in block \ woken : Expired(req[r]).status # "DEAD"
  OBVIOUS
<1> HIDE DEF woken
<1>3. /\ pc' = "begin" /\ block' = block \ woken
      /\ req' = [r \in Slots |-> IF r \in block THEN Expired(req[r]) ELSE req[r]]
  BY <1>1 DEF Update
<1>4. block \subseteq Slots
  BY DEF QInv, TypeOK
<1>5. QED
  BY <1>2, <1>3, <1>4 DEF DInv, DeadNotBlocked

(* Finish blocks a request that lives, or a fresh one.                     *)
LEMMA FinishDead ==
  ASSUME QInv, DInv, Finish
  PROVE  DInv'
<1>1. cur \in ready \ todo /\ cur \in Slots /\ cur \notin block
  BY DEF Finish, QInv, QueueOwnership, TypeOK
<1>2. pc = "finish" /\ pc' = "visit"
  BY DEF Finish
<1> SUFFICES DeadNotBlocked'
  BY <1>2 DEF DInv
<1>3. DeadNotBlocked /\ (retval = -1 => req[cur].status # "DEAD")
  BY <1>2 DEF DInv
<1>4. block \subseteq Slots /\ req \in [Slots -> Request]
  BY DEF QInv, TypeOK
<1>5. CASE retval = -1 /\ block_request(cur) /\ UNCHANGED req
  BY <1>3, <1>5 DEF block_request, DeadNotBlocked
<1>6. CASE free_request(cur)
  <2>1. CASE block' = block /\ \A s \in Slots : s # cur => req'[s] = req[s]
    BY <1>1, <1>3, <1>4, <2>1 DEF DeadNotBlocked
  <2>2. CASE /\ req' = [req EXCEPT ![cur] = [req[cur] EXCEPT !.status = "DONE", !.age = 0]]
             /\ UNCHANGED queues
    BY <1>1, <1>4, <2>1, <2>2 DEF queues
  <2>3. CASE CloseConnection(cur)
    BY <1>1, <1>4, <2>1, <2>3 DEF CloseConnection, Close
  <2>4. CASE req[cur].kacount > 0 /\ \E s \in Slots : new_request(s) /\ KeepConnection(cur, s)
    <3>1. PICK s \in Slots : new_request(s) /\ KeepConnection(cur, s)
      BY <2>4
    <3>2. s # cur
      BY <1>1, <3>1, NewRequestQueues
    <3>3. req[cur] \in Request /\ req[cur].kacount \in 0 .. ka_max
      BY <1>1, <1>4 DEF Request
    <3>4. req[cur].kacount - 1 \in 0 .. ka_max
      BY <2>4, <3>3, LimitsAssumption
    <3>5. Inherited(req[cur], req[cur].kacount - 1).status = "READ_HEADER"
      BY <3>3, <3>4, RecordsType
    <3>6. /\ req'[s] = Inherited(req[cur], req[cur].kacount - 1)
          /\ \A t \in Slots : t # s /\ t # cur => req'[t] = req[t]
          /\ block' = block \cup {s}
      BY <1>1, <1>4, <3>1, <3>2 DEF KeepConnection, HandOver
    <3>7. QED
      BY <1>1, <1>3, <1>4, <3>5, <3>6 DEF DeadNotBlocked
  <2>5. QED
    BY <1>6, <2>2, <2>3, <2>4 DEF free_request
<1>7. CASE req' = [req EXCEPT ![cur].age = 0] /\ UNCHANGED queues
  BY <1>1, <1>3, <1>4, <1>7 DEF queues, DeadNotBlocked
<1>8. QED
  BY <1>5, <1>6, <1>7 DEF Finish

(* DInv is inductive relative to types and queues.                         *)
LEMMA DInvInductive == QInv /\ DInv /\ [Next]_vars => DInv'
<1> SUFFICES ASSUME QInv, DInv, [Next]_vars PROVE DInv'
  OBVIOUS
<1>1. CASE fdset_update
  BY <1>1, UpdateDead
<1>2. CASE Finish
  BY <1>2, FinishDead
<1>3. CASE \E r \in todo : Handle(r)
  <2>1. PICK r \in todo : Handle(r)
    BY <1>3
  <2>2. r \in Slots /\ req[r] \in Request /\ r \notin block
    BY DEF QInv, TypeOK, QueueOwnership
  <2>3. PICK q \in Request, ret \in {-1, 0, 1} : Return(r, q, ret) /\ (ret = -1 => q.status # "DEAD")
    BY <2>1, <2>2, HandleHandled DEF Handled
  <2>4. /\ block' = block /\ cur' = r /\ retval' = ret /\ req'[r] = q
        /\ \A s \in Slots : s # r => req'[s] = req[s]
    BY <2>2, <2>3 DEF Return, handling, queues, QInv, TypeOK
  <2>5. QED
    BY <2>2, <2>3, <2>4 DEF DInv, DeadNotBlocked, QInv, TypeOK
<1>4. CASE AfterHandler \/ BeginProcess
  <2>1. /\ block' = block /\ ready \subseteq ready'
        /\ \A r \in Live : req'[r].status = req[r].status
    BY <1>4, AcceptKeeps DEF SameWaits
  <2>2. DeadNotBlocked'
    BY <2>1 DEF DInv, DeadNotBlocked, Live
  <2>3. CASE AfterHandler
    <3>1. pc = "accept" /\ cur' = cur /\ retval' = retval
      BY <2>3 DEF AfterHandler, cursor
    <3>2. cur \in Live
      BY <3>1 DEF QInv, QueueOwnership, Live
    <3>3. QED
      BY <2>1, <2>2, <3>1, <3>2 DEF DInv
  <2>4. CASE BeginProcess
    BY <2>2, <2>4 DEF BeginProcess, DInv
  <2>5. QED
    BY <1>4, <2>3, <2>4
<1>5. CASE \/ TopOfLoop \/ EndProcess \/ SelectSoon \/ SelectLater \/ SelectInterrupted
           \/ Tick \/ SigTerm \/ (\E r \in Slots : Stall(r)) \/ UNCHANGED vars
  <2>1. /\ block' = block /\ cur' = cur /\ retval' = retval
        /\ \A r \in Slots : req'[r].status = req[r].status
        /\ pc' \in {"accept", "finish"} => pc \in {"accept", "finish"}
    BY <1>5, QuietSteps
  <2>2. block \subseteq Slots /\ (pc \in {"accept", "finish"} => cur \in Slots)
    BY DEF QInv, TypeOK, QueueOwnership
  <2>3. QED
    BY <2>1, <2>2 DEF DInv, DeadNotBlocked
<1>6. QED
  BY <1>1, <1>2, <1>3, <1>4, <1>5 DEF Next, Loop

(* No dead request is ever on the blocked list, where nothing but another  *)
(* time-out would find it.                                                 *)
THEOREM NoDeadRequestWaits == Spec => []DeadNotBlocked
<1>1. Init => DInv
  BY DEF Init, DInv, DeadNotBlocked
<1>2. DInv => DeadNotBlocked
  BY DEF DInv
<1>3. QED
  BY <1>1, <1>2, InitQueues, QInvInductive, DInvInductive, PTL DEF Spec

-----------------------------------------------------------------------------
(* No wake-up is lost                                                      *)

(* What every blocked request waits for is in the sets.                    *)
Watched == \A r \in block : Ripe(r, req[r])

(* NoLostWakeup from the moment fdset_update has built the sets up to the  *)
(* call of select; in between, block_request and the keepalive branch of   *)
(* free_request put their own descriptors in.                              *)
WInv == pc \in {"begin", "visit", "accept", "finish", "select"} => Watched

(* A step that leaves the blocked requests as they are and takes nothing   *)
(* out of the sets keeps them watched.                                     *)
LEMMA WatchKept ==
  ASSUME Watched, NEW S, S \subseteq block, wset \subseteq wset', rset \subseteq rset',
         \A r \in S : SameWaits(r) /\ aux'[r] = aux[r]
  PROVE  \A r \in S : Ripe(r, req[r])'
<1> SUFFICES ASSUME NEW r \in S PROVE Ripe(r, req[r])'
  OBVIOUS
<1>1. WriteFds(r, req[r])' = WriteFds(r, req[r]) /\ ReadFds(r, req[r])' = ReadFds(r, req[r])
  BY DEF SameWaits, WriteFds, ReadFds
<1>2. Ripe(r, req[r])
  BY DEF Watched
<1>3. QED
  BY <1>1, <1>2 DEF Ripe

(* fdset_update: bits are cleared for the woken requests first and set for *)
(* the others afterwards, so a bit that two of them chose survives.        *)
LEMMA UpdateWatches ==
  ASSUME QInv, fdset_update
  PROVE  Watched'
<1> DEFINE woken == {r \in block : \/ Expired(req[r]).status = "DEAD"
                                  \/ Ripe(r, Expired(req[r]))}
<1>1. Update(woken, block \ woken)
  BY DEF fdset_update
<1> HIDE DEF woken
<1>2. /\ block' = block \ woken /\ UNCHANGED <<fd, aux>>
      /\ req' = [r \in Slots |-> IF r \in block THEN Expired(req[r]) ELSE req[r]]
      /\ UNION {WriteFds(r, Expired(req[r])) : r \in block \ woken} \subseteq wset'
      /\ UNION {ReadFds(r, Expired(req[r])) : r \in block \ woken} \subseteq rset'
  BY <1>1 DEF Update
<1> SUFFICES ASSUME NEW r \in block \ woken PROVE Ripe(r, req[r])'
  BY <1>2 DEF Watched
<1>3. r \in Slots /\ req'[r] = Expired(req[r])
  BY <1>2 DEF QInv, TypeOK
<1>4. /\ WriteFds(r, req[r])' = WriteFds(r, Expired(req[r]))
      /\ ReadFds(r, req[r])' = ReadFds(r, Expired(req[r]))
  BY <1>2, <1>3 DEF WriteFds, ReadFds
<1>5. WriteFds(r, Expired(req[r])) \subseteq wset' /\ ReadFds(r, Expired(req[r])) \subseteq rset'
  BY <1>2
<1>6. QED
  BY <1>4, <1>5 DEF Ripe

(* Finish puts a request on the blocked list only with its bit.            *)
LEMMA FinishWatches ==
  ASSUME QInv, Watched, Finish
  PROVE  Watched'
<1>1. cur \in Slots /\ cur \notin block
  BY DEF Finish, QInv, QueueOwnership, TypeOK
<1>2. block \subseteq Slots /\ req \in [Slots -> Request]
  BY DEF QInv, TypeOK
<1>3. CASE block_request(cur) /\ UNCHANGED <<req, fd, aux>>
  <2>1. \A r \in block : Ripe(r, req[r])'
    BY <1>3, WatchKept DEF block_request, SameWaits
  <2>2. ASSUME NEW r, r = cur
        PROVE  Ripe(r, req[r])'
    BY <1>3, <2>2 DEF block_request, Ripe, WriteFds, ReadFds
  <2>3. QED
    BY <1>3, <2>1, <2>2 DEF block_request, Watched
<1>4. CASE /\ block' = block /\ UNCHANGED <<wset, rset>>
           /\ \A s \in block : SameWaits(s) /\ aux'[s] = aux[s]
  BY <1>4, WatchKept DEF Watched
<1>5. CASE free_request(cur) /\ UNCHANGED wset
  <2>1. CASE /\ req' = [req EXCEPT ![cur] = [req[cur] EXCEPT !.status = "DONE", !.age = 0]]
             /\ UNCHANGED <<queues, fd, aux, rset>>
    BY <1>1, <1>2, <1>4, <1>5, <2>1 DEF queues, SameWaits
  <2>2. CASE CloseConnection(cur)
    BY <1>1, <1>2, <1>4, <1>5, <2>2 DEF CloseConnection, Close, SameWaits, QInv, TypeOK
  <2>3. CASE \E s \in Slots : new_request(s) /\ KeepConnection(cur, s)
    <3>1. PICK s \in Slots : new_request(s) /\ KeepConnection(cur, s)
      BY <2>3
    <3>2. s # cur /\ s \notin block
      BY <3>1, NewRequestQueues DEF Finish, QInv, QueueOwnership
    <3>3. /\ block' = block \cup {s} /\ rset' = rset \cup {fd[cur]}
          /\ fd'[s] = fd[cur] /\ req'[s] = Inherited(req[cur], req[cur].kacount - 1)
          /\ \A r \in block : SameWaits(r) /\ aux'[r] = aux[r]
      BY <1>1, <1>2, <3>1, <3>2 DEF KeepConnection, HandOver, SameWaits, QInv, TypeOK
    <3>4. /\ Inherited(req[cur], req[cur].kacount - 1).status = "READ_HEADER"
          /\ ~Inherited(req[cur], req[cur].kacount - 1).buffered
      BY DEF Inherited, Blank
    <3>5. Ripe(s, req[s])'
      BY <3>3, <3>4 DEF Ripe, WriteFds, ReadFds
    <3>6. \A r \in block : Ripe(r, req[r])'
      BY <1>5, <3>3, WatchKept
    <3>7. QED
      BY <3>3, <3>5, <3>6 DEF Watched
  <2>4. QED
    BY <1>5, <2>1, <2>2, <2>3 DEF free_request
<1>6. CASE req' = [req EXCEPT ![cur].age = 0] /\ UNCHANGED <<queues, fd, aux, fdsets>>
  BY <1>1, <1>2, <1>4, <1>6 DEF queues, fdsets, SameWaits
<1>7. QED
  BY <1>3, <1>5, <1>6 DEF Finish

(* WInv is inductive relative to types and queues.                         *)
LEMMA WInvInductive == QInv /\ WInv /\ [Next]_vars => WInv'
<1> SUFFICES ASSUME QInv, WInv, [Next]_vars PROVE WInv'
  OBVIOUS
<1>1. CASE fdset_update
  BY <1>1, UpdateWatches DEF WInv
<1>2. CASE Finish
  BY <1>2, FinishWatches DEF WInv, Finish
<1>3. CASE \E r \in todo : Handle(r)
  <2>1. PICK r \in todo : Handle(r)
    BY <1>3
  <2>2. r \in Slots /\ r \notin block /\ block \subseteq Slots
    BY DEF QInv, TypeOK, QueueOwnership
  <2>3. PICK q \in Request, ret \in {-1, 0, 1} : Return(r, q, ret) /\ FdEffect(r, q, ret)
    BY <2>1, <2>2, HandleHandled DEF Handled, QInv, TypeOK
  <2>4. /\ pc = "visit" /\ block' = block /\ UNCHANGED <<wset, rset>>
        /\ \A s \in block : SameWaits(s)
    BY <2>2, <2>3 DEF Return, handling, queues, fdsets, SameWaits, QInv, TypeOK
  <2>5. \A s \in block : aux'[s] = aux[s]
    BY <2>2, <2>3 DEF FdEffect, QInv, TypeOK
  <2>6. QED
    BY <2>4, <2>5, WatchKept DEF WInv, Watched
<1>4. CASE AfterHandler \/ BeginProcess
  <2>1. pc \in {"accept", "begin"} /\ UNCHANGED <<aux, wset, rset>>
    BY <1>4 DEF AfterHandler, BeginProcess, fdsets
  <2>2. block' = block /\ \A r \in block : SameWaits(r)
    BY <1>4, AcceptKeeps DEF Live
  <2>3. QED
    BY <2>1, <2>2, WatchKept DEF WInv, Watched
<1>5. CASE TopOfLoop \/ SelectSoon \/ SelectLater \/ SelectInterrupted
  BY <1>5 DEF TopOfLoop, SelectSoon, SelectLater, SelectInterrupted, SelectReturn,
              SelectBadFd, WInv
<1>6. CASE EndProcess \/ Tick \/ SigTerm \/ (\E r \in Slots : Stall(r)) \/ UNCHANGED vars
  <2>1. /\ block' = block /\ block \subseteq Slots
        /\ \A r \in Slots : req'[r].status = req[r].status /\ req'[r].buffered = req[r].buffered
    BY <1>6, QuietSteps DEF QInv, TypeOK
  <2>2. /\ UNCHANGED <<fd, aux, wset, rset>>
        /\ pc' \in {"begin", "visit", "accept", "finish", "select"}
             => pc \in {"begin", "visit", "accept", "finish", "select"}
    BY <1>6 DEF EndProcess, Tick, SigTerm, Stall, vars, fdsets
  <2>3. QED
    BY <2>1, <2>2, WatchKept DEF WInv, Watched, SameWaits
<1>7. QED
  BY <1>1, <1>2, <1>3, <1>4, <1>5, <1>6 DEF Next, Loop

(* Whenever select is called, the descriptor of every blocked request is   *)
(* in the set that block_request, fdset_update and select_loop agree on.   *)
THEOREM NoWakeupLost == Spec => []NoLostWakeup
<1>1. Init => WInv
  BY DEF Init, WInv
<1>2. WInv => NoLostWakeup
  BY DEF WInv, Watched, Ripe, NoLostWakeup
<1>3. QED
  BY <1>1, <1>2, InitQueues, QInvInductive, WInvInductive, PTL DEF Spec

-----------------------------------------------------------------------------
(* Action properties                                                       *)

(* Only Finish takes a request off the live ones or puts one on the        *)
(* blocked list that was not live.                                         *)
LEMMA OnlyFinish ==
  ASSUME QInv, [Next]_vars, ~Finish
  PROVE  Live \subseteq ready' \cup block' /\ block' \subseteq Live
<1>1. CASE fdset_update
  <2> DEFINE woken == {r \in block : \/ Expired(req[r]).status = "DEAD"
                                    \/ Ripe(r, Expired(req[r]))}
  <2>1. Update(woken, block \ woken) /\ woken \subseteq block
    BY <1>1 DEF fdset_update
  <2> HIDE DEF woken
  <2>2. QED
    BY <2>1 DEF Update, Live
<1>2. CASE \E r \in todo : Handle(r)
  <2>1. UNCHANGED handling
    BY <1>2, HandleHandled DEF Handled, Return, QInv, TypeOK
  <2>2. QED
    BY <2>1 DEF handling, queues, Live
<1>3. CASE AfterHandler \/ BeginProcess
  BY <1>3, AcceptKeeps DEF Live
<1>4. CASE \/ TopOfLoop \/ EndProcess \/ SelectSoon \/ SelectLater \/ SelectInterrupted
           \/ Tick \/ SigTerm \/ (\E r \in Slots : Stall(r)) \/ UNCHANGED vars
  BY <1>4, QuietSteps DEF Live
<1>5. QED
  BY <1>1, <1>2, <1>3, <1>4 DEF Next, Loop

(* Bytes of a reply are dropped only with a request that is dead: neither  *)
(* free_request, keepalive nor a time-out truncates what could be sent.    *)
THEOREM NoReplyTruncated == Spec => RepliesComplete
<1>1. ASSUME QInv, [Next]_vars, NEW r \in Live, r \notin ready' \cup block'
      PROVE  ~req[r].buffered \/ req[r].status = "DEAD"
  <2>1. Finish
    BY <1>1, OnlyFinish
  <2>2. cur \in ready \ todo
    BY <1>1, <2>1 DEF Finish, QInv, QueueOwnership
  <2>3. CASE block_request(cur) \/ UNCHANGED queues
    BY <1>1, <2>3 DEF block_request, queues, Live
  <2>4. CASE free_request(cur)
    <3>1. CASE UNCHANGED queues
      BY <2>3, <3>1
    <3>2. CASE ~req[cur].buffered \/ req[cur].status = "DEAD"
      <4>1. \A s \in Live : s # cur => s \in ready' \cup block'
        BY <2>4, <3>1 DEF free_request, CloseConnection, Close, KeepConnection, HandOver, Live,
                          queues
      <4>2. QED
        BY <1>1, <3>2, <4>1
    <3>3. QED
      BY <2>4, <3>1, <3>2 DEF free_request
  <2>5. QED
    BY <2>1, <2>3, <2>4 DEF Finish
<1>2. QInv /\ [Next]_vars =>
        [\A r \in Live : r \notin ready' \cup block' => \/ ~req[r].buffered
                                                        \/ req[r].status = "DEAD"]_vars
  BY <1>1
<1>3. QED
  BY <1>2, InitQueues, QInvInductive, PTL DEF Spec, RepliesComplete

(* A structure enters the blocked list only with a connection that another *)
(* one gives up, that asked to be kept alive, and that has one request     *)
(* less to go.                                                             *)
THEOREM BudgetSpent == Spec => KeepaliveSpent
<1>1. ASSUME QInv, [Next]_vars, NEW s \in Slots \ Live, s \in block'
      PROVE  \E p \in Live : /\ p \notin ready' \cup block'
                             /\ fd'[s] = fd[p]
                             /\ req[p].keepalive
                             /\ req'[s].kacount = req[p].kacount - 1
                             /\ ~req'[s].logline
  <2>1. Finish
    BY <1>1, OnlyFinish
  <2>2. /\ cur \in ready \ todo /\ cur \in Slots /\ cur \in Live /\ cur \notin block
        /\ req[cur] \in Request
    BY <1>1, <2>1 DEF Finish, QInv, QueueOwnership, TypeOK, Live
  <2>3. CASE block_request(cur) \/ UNCHANGED queues \/ CloseConnection(cur)
    BY <1>1, <2>2, <2>3 DEF block_request, queues, CloseConnection, Close, Live
  <2>4. CASE /\ req[cur].keepalive /\ req[cur].kacount > 0
             /\ \E t \in Slots : new_request(t) /\ KeepConnection(cur, t)
    <3>1. PICK t \in Slots : new_request(t) /\ KeepConnection(cur, t)
      BY <2>4
    <3>2. t \notin Live
      BY <1>1, <3>1, NewRequestQueues DEF Live
    <3>3. /\ block' = block \cup {t} /\ ready' = ready \ {cur}
          /\ fd'[t] = fd[cur]
          /\ req'[t] = Inherited(req[cur], req[cur].kacount - 1)
      BY <1>1, <2>2, <3>1, <3>2 DEF KeepConnection, HandOver, QInv, TypeOK
    <3>4. t = s
      BY <1>1, <3>3 DEF Live
    <3>5. /\ Inherited(req[cur], req[cur].kacount - 1).kacount = req[cur].kacount - 1
          /\ ~Inherited(req[cur], req[cur].kacount - 1).logline
      BY DEF Inherited, Blank
    <3>6. cur \notin ready' \cup block'
      BY <2>2, <3>2, <3>3
    <3>7. QED
      BY <2>2, <2>4, <3>3, <3>4, <3>5, <3>6
  <2>5. QED
    BY <2>1, <2>3, <2>4 DEF Finish, free_request
<1>2. QInv /\ [Next]_vars =>
        [\A s \in Slots \ Live :
           s \in block' => \E p \in Live : /\ p \notin ready' \cup block'
                                           /\ fd'[s] = fd[p]
                                           /\ req[p].keepalive
                                           /\ req'[s].kacount = req[p].kacount - 1
                                           /\ ~req'[s].logline]_vars
  BY <1>1
<1>3. QED
  BY <1>2, InitQueues, QInvInductive, PTL DEF Spec, KeepaliveSpent

=============================================================================
