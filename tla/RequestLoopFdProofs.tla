------------------------ MODULE RequestLoopFdProofs ------------------------
(***************************************************************************)
(* Descriptors are neither leaked, nor shared, nor closed twice: the proof *)
(* of FdOwnership.                                                         *)
(*                                                                         *)
(* FdOwnership is not inductive.  A handler may overwrite data_fd or       *)
(* post_data_fd; whether that leaks a descriptor depends on the request's  *)
(* status, so the invariant is strengthened by AuxUnused: a request that   *)
(* still reads its header has no second descriptor, except between a       *)
(* handler that failed (result 0) and the free_request that follows, and a *)
(* structure that is not in use has none.  With clients that send POSTs    *)
(* without HTTP version (Forgetful) the former is not so, and descriptors  *)
(* may be left without owner; they are still never shared or closed twice. *)
(***************************************************************************)
EXTENDS RequestLoopProofs

(* between its handler and free_request *)
Failing(r) == pc \in {"accept", "finish"} /\ cur = r /\ retval = 0

AuxUnused ==
  /\ \A s \in Slots \ Live : aux[s] = NoFd
  /\ \A r \in Live : req[r].status = "READ_HEADER" => aux[r] = NoFd \/ Failing(r) \/ Forgetful

(* FdOwnership's three parts, request by request *)
FdCore ==
  /\ \A r \in Live : fd[r] \in open /\ (aux[r] = NoFd \/ aux[r] \in open) /\ fd[r] # aux[r]
  /\ \A r, s \in Live : r # s => /\ fd[r] # fd[s] /\ fd[r] # aux[s] /\ aux[r] # fd[s]
                                 /\ aux[r] = NoFd \/ aux[r] # aux[s]
  /\ Forgetful \/ \A f \in open : \E r \in Live : f = fd[r] \/ f = aux[r]

FInv == sigterm # 2 => FdCore /\ AuxUnused

(* Descriptor numbers are not zero.                                        *)
LEMMA NoFdNotFd == NoFd \notin Fds
BY FdsAssumption DEF NoFd

(* FInv implies what is to be shown.                                       *)
LEMMA FInvImplies == QInv /\ FInv => FdOwnership
<1> SUFFICES ASSUME QInv, FInv, sigterm # 2
             PROVE  FdsOpen /\ FdsDistinct /\ ("simple_post" \in Kinds \/ FdsOwned)
  BY DEF FdOwnership
<1>1. FdCore
  BY DEF FInv
<1>2. FdsOpen
  BY <1>1 DEF FdCore, FdsOpen
<1>3. FdsDistinct
  BY <1>1 DEF FdCore, FdsDistinct
<1>4. "simple_post" \in Kinds \/ FdsOwned
  BY <1>1 DEF FdCore, FdsOwned, Forgetful
<1>5. QED
  BY <1>2, <1>3, <1>4

(* Initially no descriptor is open.                                        *)
LEMMA InitFds == Init => FInv
BY DEF Init, FInv, FdCore, AuxUnused, Live

(* A handler exchanges at most the second descriptor of its request, and   *)
(* never forgets the one it had.                                           *)
LEMMA HandleFds ==
  ASSUME QInv, FInv, NEW r \in todo, Handle(r)
  PROVE  FInv'
<1>1. r \in Slots /\ req[r] \in Request /\ r \in Live
  BY DEF QInv, TypeOK, QueueOwnership, Live
<1>2. PICK q \in Request, ret \in {-1, 0, 1} : Return(r, q, ret) /\ FdEffect(r, q, ret)
  BY <1>1, HandleHandled DEF Handled
<1>3. /\ pc = "visit" /\ pc' = "accept" /\ cur' = r /\ retval' = ret
      /\ req' = [req EXCEPT ![r] = q]
      /\ fd' = fd /\ sigterm' = sigterm /\ Live' = Live
  BY <1>2 DEF Return, handling, queues, Live
<1> SUFFICES ASSUME sigterm # 2 PROVE FdCore' /\ AuxUnused'
  BY <1>3 DEF FInv
<1>4. FdCore /\ AuxUnused
  BY DEF FInv
<1>5. req[r].status = "READ_HEADER" => aux[r] = NoFd \/ Forgetful
  BY <1>1, <1>3, <1>4 DEF AuxUnused, Failing
<1>6. \A s \in Slots : /\ s # r => req'[s] = req[s]
                       /\ req'[r] = q
  BY <1>1, <1>3 DEF QInv, TypeOK
<1>7. aux \in [Slots -> Fds \cup {NoFd}] /\ Live \subseteq Slots
  BY DEF QInv, TypeOK, Live
<1>8. \A s \in Live : req[s].status = "READ_HEADER" => aux[s] = NoFd \/ Forgetful
  BY <1>3, <1>4 DEF AuxUnused, Failing
<1>9. CASE UNCHANGED <<aux, open>> /\ (q.status = "READ_HEADER" => req[r].status = "READ_HEADER")
  <2>1. FdCore'
    BY <1>3, <1>4, <1>9 DEF FdCore
  <2>2. AuxUnused'
    BY <1>3, <1>4, <1>5, <1>6, <1>7, <1>8, <1>9 DEF AuxUnused
  <2>3. QED
    BY <2>1, <2>2
<1>10. ASSUME NEW f \in FreeFds, NEW closed \in {{}, {aux[r]}},
              aux' = [aux EXCEPT ![r] = f], open' = (open \ closed) \cup {f},
              closed = {} => req[r].status = "READ_HEADER",
              q.status # "READ_HEADER" \/ ret = 0 \/ Forgetful
       PROVE  FdCore' /\ AuxUnused'
  <2>1. /\ f \notin open /\ f # NoFd
        /\ aux'[r] = f /\ \A s \in Slots : s # r => aux'[s] = aux[s]
    BY <1>1, <1>7, <1>10, NoFdNotFd DEF FreeFds
  <2>2. /\ (open \ {aux[r]}) \cup {f} \subseteq open'
        /\ Forgetful \/ open' = (open \ {aux[r]}) \cup {f}
    <3>1. aux[r] = NoFd => aux[r] \notin open
      BY NoFdNotFd DEF QInv, TypeOK
    <3>2. QED
      BY <1>5, <1>10, <3>1
  <2>3. AuxUnused'
    BY <1>1, <1>3, <1>4, <1>6, <1>7, <1>8, <1>10, <2>1 DEF AuxUnused, Failing
  <2>4. \A s \in Live : fd'[s] \in open' /\ (aux'[s] = NoFd \/ aux'[s] \in open') /\ fd'[s] # aux'[s]
    BY <1>1, <1>3, <1>4, <1>7, <2>1, <2>2 DEF FdCore
  <2>5. \A s, t \in Live : s # t => /\ fd'[s] # fd'[t] /\ fd'[s] # aux'[t] /\ aux'[s] # fd'[t]
                                    /\ aux'[s] = NoFd \/ aux'[s] # aux'[t]
    BY <1>1, <1>3, <1>4, <1>7, <2>1 DEF FdCore
  <2>6. Forgetful \/ \A g \in open' : \E s \in Live : g = fd'[s] \/ g = aux'[s]
    <3> SUFFICES ASSUME ~Forgetful, NEW g \in open' PROVE \E s \in Live : g = fd'[s] \/ g = aux'[s]
      OBVIOUS
    <3>1. CASE g = f
      BY <1>1, <2>1, <3>1
    <3>2. CASE g # f
      <4>1. g \in open /\ g # aux[r]
        BY <2>2, <3>2
      <4>2. PICK s \in Live : g = fd[s] \/ g = aux[s]
        BY <1>4, <4>1 DEF FdCore
      <4>3. QED
        BY <1>3, <1>7, <2>1, <4>1, <4>2
    <3>3. QED
      BY <3>1, <3>2
  <2>7. FdCore'
    BY <1>3, <2>4, <2>5, <2>6 DEF FdCore
  <2>8. QED
    BY <2>3, <2>7
<1>11. CASE aux' = [aux EXCEPT ![r] = NoFd] /\ open' = open \ {aux[r]} /\ ret = 0
  <2>1. aux'[r] = NoFd /\ \A s \in Slots : s # r => aux'[s] = aux[s]
    BY <1>1, <1>7, <1>11
  <2>2. AuxUnused'
    BY <1>1, <1>3, <1>4, <1>6, <1>7, <1>8, <1>11, <2>1 DEF AuxUnused, Failing
  <2>3. \A s \in Live : fd'[s] \in open' /\ (aux'[s] = NoFd \/ aux'[s] \in open') /\ fd'[s] # aux'[s]
    <3>1. \A s \in Live : fd[s] # NoFd
      BY <1>4, NoFdNotFd DEF FdCore, QInv, TypeOK
    <3>2. QED
      BY <1>1, <1>3, <1>4, <1>7, <1>11, <2>1, <3>1 DEF FdCore
  <2>4. \A s, t \in Live : s # t => /\ fd'[s] # fd'[t] /\ fd'[s] # aux'[t] /\ aux'[s] # fd'[t]
                                    /\ aux'[s] = NoFd \/ aux'[s] # aux'[t]
    <3>1. \A s \in Live : fd[s] # NoFd
      BY <1>4, NoFdNotFd DEF FdCore, QInv, TypeOK
    <3>2. QED
      BY <1>1, <1>3, <1>4, <1>7, <2>1, <3>1 DEF FdCore
  <2>5. Forgetful \/ \A g \in open' : \E s \in Live : g = fd'[s] \/ g = aux'[s]
    BY <1>3, <1>4, <1>7, <1>11, <2>1 DEF FdCore
  <2>6. FdCore'
    BY <1>3, <2>3, <2>4, <2>5 DEF FdCore
  <2>7. QED
    BY <2>2, <2>6
<1>12. QED
  BY <1>2, <1>9, <1>10, <1>11 DEF FdEffect
(* Accepting a connection adds one request with one new descriptor.        *)
LEMMA AcceptFds ==
  ASSUME QInv, FInv, sigterm # 2, NEW reqs, AcceptIfPending(reqs), aux' = aux
  PROVE  /\ FdCore'
         /\ \A s \in Slots \ Live' : aux'[s] = NoFd
         /\ \A s \in Live' \ Live : aux'[s] = NoFd
         /\ Live \subseteq Live' /\ ready \subseteq ready'
         /\ reqs \in [Slots -> Request] => \A r \in Live : req'[r] = reqs[r]
<1>1. FdCore /\ AuxUnused
  BY DEF FInv
<1>2. fd \in [Slots -> Fds \cup {NoFd}] /\ Live \subseteq Slots
  BY DEF QInv, TypeOK, Live
<1>3. CASE UNCHANGED accepting /\ req' = reqs
  <2>1. Live' = Live /\ ready' = ready /\ fd' = fd /\ open' = open
    BY <1>3 DEF accepting, queues, kernel, Live
  <2>2. FdCore'
    BY <1>1, <2>1 DEF FdCore
  <2>3. QED
    BY <1>1, <1>3, <2>1, <2>2 DEF AuxUnused
<1>4. ASSUME NEW s \in Slots, NEW f \in FreeFds, new_request(s),
             ready' = ready \cup {s}, UNCHANGED block,
             fd' = [fd EXCEPT ![s] = f], open' = open \cup {f},
             NEW q, req' = [reqs EXCEPT ![s] = q]
      PROVE  /\ FdCore'
             /\ \A t \in Slots \ Live' : aux'[t] = NoFd
             /\ \A t \in Live' \ Live : aux'[t] = NoFd
             /\ Live \subseteq Live' /\ ready \subseteq ready'
             /\ reqs \in [Slots -> Request] => \A r \in Live : req'[r] = reqs[r]
  <2>1. s \notin Live /\ Live' = Live \cup {s}
    BY <1>4, NewRequestQueues DEF Live
  <2>2. aux[s] = NoFd
    BY <1>1, <2>1 DEF AuxUnused
  <2>3. f \notin open /\ f # NoFd
    BY <1>4, NoFdNotFd DEF FreeFds
  <2>4. fd'[s] = f /\ \A r \in Live : fd'[r] = fd[r] /\ fd'[r] # f /\ aux'[r] # f
    BY <1>1, <1>2, <1>4, <2>1, <2>3 DEF FdCore
  <2>5. \A r \in Live' : fd'[r] \in open' /\ (aux'[r] = NoFd \/ aux'[r] \in open') /\ fd'[r] # aux'[r]
    BY <1>1, <1>4, <2>1, <2>2, <2>3, <2>4 DEF FdCore
  <2>6. \A r \in Live : fd[r] # NoFd
    BY <1>1, NoFdNotFd DEF FdCore, QInv, TypeOK
  <2>7. \A r, t \in Live' : r # t => /\ fd'[r] # fd'[t] /\ fd'[r] # aux'[t] /\ aux'[r] # fd'[t]
                                     /\ aux'[r] = NoFd \/ aux'[r] # aux'[t]
    BY <1>1, <2>1, <2>2, <2>3, <2>4, <2>6 DEF FdCore
  <2>8. Forgetful \/ \A g \in open' : \E r \in Live' : g = fd'[r] \/ g = aux'[r]
    BY <1>1, <1>4, <2>1, <2>4 DEF FdCore
  <2>9. FdCore'
    BY <2>5, <2>7, <2>8 DEF FdCore
  <2>10. reqs \in [Slots -> Request] => \A r \in Live : req'[r] = reqs[r]
    BY <1>2, <1>4, <2>1
  <2>11. QED
    BY <1>1, <1>4, <2>1, <2>2, <2>9, <2>10 DEF AuxUnused
<1>5. QED
  BY <1>3, <1>4 DEF AcceptIfPending, get_sock_request

(* AfterHandler and BeginProcess keep FInv.                                *)
LEMMA AcceptStepFds ==
  ASSUME QInv, FInv, AfterHandler \/ BeginProcess
  PROVE  FInv'
<1>1. aux' = aux /\ sigterm' = sigterm
  BY DEF AfterHandler, BeginProcess
<1> SUFFICES ASSUME sigterm # 2 PROVE FdCore' /\ AuxUnused'
  BY <1>1 DEF FInv
<1>2. FdCore /\ AuxUnused
  BY DEF FInv
<1>3. Live \subseteq Slots /\ req \in [Slots -> Request]
  BY DEF Live, QInv, TypeOK
<1>4. CASE AfterHandler
  <2>1. cur \in Slots /\ req[cur] \in Request
    BY <1>4 DEF AfterHandler, QInv, QueueOwnership, TypeOK
  <2>2. SQUASH_KA(req[cur]) \in Request /\ SQUASH_KA(req[cur]).status = req[cur].status
    BY <2>1 DEF SQUASH_KA, Request
  <2> DEFINE reqs == IF sigterm # 0 THEN [req EXCEPT ![cur] = SQUASH_KA(@)] ELSE req
  <2>3. reqs \in [Slots -> Request] /\ \A r \in Slots : reqs[r].status = req[r].status
    BY <1>3, <2>1, <2>2
  <2>4. AcceptIfPending(reqs)
    BY <1>4 DEF AfterHandler
  <2> HIDE DEF reqs
  <2>5. /\ FdCore'
        /\ \A s \in Slots \ Live' : aux'[s] = NoFd
        /\ \A s \in Live' \ Live : aux'[s] = NoFd
        /\ \A r \in Live : req'[r] = reqs[r]
    BY <1>1, <2>3, <2>4, AcceptFds
  <2>6. /\ pc = "accept" /\ pc' = "finish" /\ cur' = cur /\ retval' = retval
    BY <1>4 DEF AfterHandler, cursor
  <2>7. \A r \in Live : req'[r].status = "READ_HEADER" => aux'[r] = NoFd \/ Failing(r)' \/ Forgetful
    BY <1>1, <1>2, <1>3, <2>3, <2>5, <2>6 DEF AuxUnused, Failing
  <2>8. QED
    BY <2>5, <2>7 DEF AuxUnused
<1>5. CASE BeginProcess
  <2>1. AcceptIfPending(req) /\ pc = "begin"
    BY <1>5 DEF BeginProcess
  <2>2. /\ FdCore'
        /\ \A s \in Slots \ Live' : aux'[s] = NoFd
        /\ \A s \in Live' \ Live : aux'[s] = NoFd
        /\ \A r \in Live : req'[r] = req[r]
    BY <1>1, <1>3, <2>1, AcceptFds
  <2>3. \A r \in Live : req'[r].status = "READ_HEADER" => aux'[r] = NoFd \/ Forgetful
    BY <1>1, <1>2, <2>1, <2>2 DEF AuxUnused, Failing
  <2>4. QED
    BY <2>2, <2>3 DEF AuxUnused
<1>6. QED
  BY <1>4, <1>5

(* Closing a connection closes its descriptors and no other.               *)
LEMMA CloseFds ==
  ASSUME QInv, FdCore, AuxUnused, NEW r \in ready, CloseConnection(r)
  PROVE  /\ FdCore' /\ Live' = Live \ {r}
         /\ \A s \in Slots : aux'[s] = IF s = r THEN NoFd ELSE aux[s]
         /\ \A s \in Live' : req'[s] = req[s]
<1>1. r \in Slots /\ r \in Live /\ r \notin block /\ Live \subseteq Slots
  BY DEF QInv, TypeOK, QueueOwnership, Live
<1>2. Live' = Live \ {r}
  BY <1>1 DEF CloseConnection, Close, Live
<1>3. /\ \A s \in Slots : fd'[s] = IF s = r THEN NoFd ELSE fd[s]
      /\ \A s \in Slots : aux'[s] = IF s = r THEN NoFd ELSE aux[s]
      /\ \A s \in Slots : s # r => req'[s] = req[s]
      /\ open' = open \ {fd[r], aux[r]}
  BY <1>1 DEF CloseConnection, Close, QInv, TypeOK
<1>4. \A s \in Live : fd[s] # NoFd
  BY NoFdNotFd DEF FdCore, QInv, TypeOK
<1>5. \A s \in Live' : fd'[s] \in open' /\ (aux'[s] = NoFd \/ aux'[s] \in open') /\ fd'[s] # aux'[s]
  BY <1>1, <1>2, <1>3, <1>4 DEF FdCore
<1>6. \A s, t \in Live' : s # t => /\ fd'[s] # fd'[t] /\ fd'[s] # aux'[t] /\ aux'[s] # fd'[t]
                                   /\ aux'[s] = NoFd \/ aux'[s] # aux'[t]
  BY <1>1, <1>2, <1>3 DEF FdCore
<1>7. Forgetful \/ \A g \in open' : \E s \in Live' : g = fd'[s] \/ g = aux'[s]
  BY <1>1, <1>2, <1>3 DEF FdCore
<1>8. QED
  BY <1>1, <1>2, <1>3, <1>5, <1>6, <1>7 DEF FdCore

(* A connection kept alive takes its socket to the new structure and       *)
(* nothing else.                                                           *)
LEMMA KeepFds ==
  ASSUME QInv, FdCore, AuxUnused, NEW r \in ready, NEW s \in Slots,
         new_request(s), KeepConnection(r, s)
  PROVE  /\ FdCore' /\ Live' = (Live \ {r}) \cup {s}
         /\ \A t \in Slots : aux'[t] = IF t = r THEN NoFd ELSE aux[t]
         /\ \A t \in Live \ {r} : req'[t] = req[t]
         /\ aux'[s] = NoFd
<1>1. r \in Slots /\ r \in Live /\ r \notin block /\ Live \subseteq Slots
  BY DEF QInv, TypeOK, QueueOwnership, Live
<1>2. s \notin Live /\ s # r
  BY <1>1, NewRequestQueues DEF Live
<1>3. Live' = (Live \ {r}) \cup {s}
  BY <1>1 DEF KeepConnection, HandOver, Live
<1>4. /\ fd'[s] = fd[r] /\ \A t \in Live \ {r} : fd'[t] = fd[t]
      /\ \A t \in Slots : aux'[t] = IF t = r THEN NoFd ELSE aux[t]
      /\ \A t \in Live \ {r} : req'[t] = req[t]
      /\ open' = open \ {aux[r]}
  BY <1>1, <1>2 DEF KeepConnection, HandOver, QInv, TypeOK
<1>5. \A t \in Live : fd[t] # NoFd
  BY NoFdNotFd DEF FdCore, QInv, TypeOK
<1>6. aux'[s] = NoFd
  BY <1>2, <1>4 DEF AuxUnused
<1>7. \A t \in Live' : fd'[t] \in open' /\ (aux'[t] = NoFd \/ aux'[t] \in open') /\ fd'[t] # aux'[t]
  BY <1>1, <1>2, <1>3, <1>4, <1>5, <1>6 DEF FdCore
<1>8. \A t, u \in Live' : t # u => /\ fd'[t] # fd'[u] /\ fd'[t] # aux'[u] /\ aux'[t] # fd'[u]
                                   /\ aux'[t] = NoFd \/ aux'[t] # aux'[u]
  BY <1>1, <1>2, <1>3, <1>4, <1>5, <1>6 DEF FdCore
<1>9. Forgetful \/ \A g \in open' : \E t \in Live' : g = fd'[t] \/ g = aux'[t]
  <2> SUFFICES ASSUME ~Forgetful, NEW g \in open' PROVE \E t \in Live' : g = fd'[t] \/ g = aux'[t]
    OBVIOUS
  <2>1. PICK t \in Live : g = fd[t] \/ g = aux[t]
    BY <1>4 DEF FdCore
  <2>2. CASE t = r
    BY <1>3, <1>4, <2>1, <2>2
  <2>3. CASE t # r
    BY <1>1, <1>3, <1>4, <2>1, <2>3
  <2>4. QED
    BY <2>2, <2>3
<1>10. QED
  BY <1>3, <1>4, <1>6, <1>7, <1>8, <1>9 DEF FdCore

(* Finish keeps FInv: a failed request is released or has left             *)
(* READ_HEADER.                                                            *)
LEMMA FinishFds ==
  ASSUME QInv, FInv, Finish
  PROVE  FInv'
<1>1. cur \in ready \ todo /\ cur \in Slots /\ cur \in Live /\ Live \subseteq Slots
  BY DEF Finish, QInv, QueueOwnership, TypeOK, Live
<1>2. pc = "finish" /\ pc' = "visit" /\ sigterm' = sigterm
  BY DEF Finish
<1> SUFFICES ASSUME sigterm # 2 PROVE FdCore' /\ AuxUnused'
  BY <1>2 DEF FInv
<1>3. FdCore /\ AuxUnused
  BY DEF FInv
<1>4. \A r \in Live : r # cur /\ req[r].status = "READ_HEADER" => aux[r] = NoFd \/ Forgetful
  BY <1>3 DEF AuxUnused, Failing
<1>5. CASE /\ retval # 0 /\ block_request(cur)
           /\ UNCHANGED <<free, request_count, req, fd, aux, kernel, total_connections>>
  <2>1. Live' = Live /\ UNCHANGED <<req, fd, aux, open>>
    BY <1>1, <1>5 DEF block_request, Live, kernel
  <2>2. QED
    BY <1>3, <1>5, <2>1 DEF FdCore, AuxUnused, Failing
<1>6. CASE free_request(cur)
  <2>1. CASE /\ req' = [req EXCEPT ![cur] = [req[cur] EXCEPT !.status = "DONE", !.age = 0]]
             /\ UNCHANGED <<queues, fd, aux, kernel, rset, total_connections>>
    <3>1. Live' = Live /\ UNCHANGED <<fd, aux, open>>
      BY <2>1 DEF queues, kernel, Live
    <3>2. [req[cur] EXCEPT !.status = "DONE", !.age = 0].status = "DONE"
      <4>1. req[cur] \in Request
        BY <1>1 DEF QInv, TypeOK
      <4>2. QED
        BY <4>1 DEF Request
    <3>3. req'[cur].status = "DONE" /\ \A s \in Live : s # cur => req'[s] = req[s]
      BY <1>1, <2>1, <3>2 DEF QInv, TypeOK
    <3>4. QED
      BY <1>3, <1>4, <3>1, <3>3 DEF FdCore, AuxUnused
  <2>2. CASE CloseConnection(cur)
    BY <1>1, <1>3, <1>4, <2>2, CloseFds DEF AuxUnused
  <2>3. CASE \E s \in Slots : new_request(s) /\ KeepConnection(cur, s)
    <3>1. PICK s \in Slots : new_request(s) /\ KeepConnection(cur, s)
      BY <2>3
    <3>2. /\ FdCore' /\ Live' = (Live \ {cur}) \cup {s}
          /\ \A t \in Slots : aux'[t] = IF t = cur THEN NoFd ELSE aux[t]
          /\ \A t \in Live \ {cur} : req'[t] = req[t]
          /\ aux'[s] = NoFd
      BY <1>1, <1>3, <3>1, KeepFds
    <3>3. QED
      BY <1>1, <1>3, <1>4, <3>2 DEF AuxUnused
  <2>4. QED
    BY <1>6, <2>1, <2>2, <2>3 DEF free_request
<1>7. CASE /\ retval # 0 /\ req' = [req EXCEPT ![cur].age = 0]
           /\ UNCHANGED <<queues, fd, aux, kernel, fdsets, total_connections>>
  <2>1. Live' = Live /\ UNCHANGED <<fd, aux, open>>
    BY <1>7 DEF queues, kernel, Live
  <2>2. [req[cur] EXCEPT !.age = 0].status = req[cur].status
    <3>1. req[cur] \in Request
      BY <1>1 DEF QInv, TypeOK
    <3>2. QED
      BY <3>1 DEF Request
  <2>3. \A s \in Live : req'[s].status = req[s].status
    BY <1>1, <1>7, <2>2 DEF QInv, TypeOK
  <2>4. QED
    BY <1>3, <1>7, <2>1, <2>3 DEF FdCore, AuxUnused, Failing
<1>8. QED
  BY <1>5, <1>6, <1>7 DEF Finish

(* fdset_update moves requests between the queues and may kill them.       *)
LEMMA UpdateFds ==
  ASSUME QInv, FInv, fdset_update
  PROVE  FInv'
<1> DEFINE woken == {r \in block : \/ Expired(req[r]).status = "DEAD"
                                  \/ Ripe(r, Expired(req[r]))}
<1>1. Update(woken, block \ woken) /\ woken \subseteq block
  BY DEF fdset_update
<1> HIDE DEF woken
<1>2. /\ pc = "fdset" /\ Live' = Live
      /\ UNCHANGED <<fd, aux, open, sigterm>>
      /\ req' = [r \in Slots |-> IF r \in block THEN Expired(req[r]) ELSE req[r]]
  BY <1>1 DEF Update, Live, kernel
<1>3. \A r \in Slots : req[r] \in Request
  BY DEF QInv, TypeOK
<1>4. \A r \in Slots : req'[r].status = "READ_HEADER" => req[r].status = "READ_HEADER"
  BY <1>2, <1>3, AgingType
<1>5. Live \subseteq Slots
  BY DEF QInv, TypeOK, Live
<1>6. QED
  BY <1>2, <1>4, <1>5 DEF FInv, FdCore, AuxUnused, Failing

(* The other steps touch no descriptor before SIGTERM's stage 1.           *)
LEMMA LoopFds ==
  ASSUME QInv, FInv,
         \/ TopOfLoop \/ EndProcess \/ SelectSoon \/ SelectLater \/ SelectInterrupted
         \/ Tick \/ SigTerm \/ \E r \in Slots : Stall(r)
  PROVE  FInv'
<1>1. Live \subseteq Slots
  BY DEF QInv, TypeOK, Live
<1>2. CASE TopOfLoop
  <2> SUFFICES ASSUME sigterm' # 2 PROVE FInv'
    BY DEF FInv
  <2>1. UNCHANGED <<ready, block, req, fd, aux, open, sigterm>> /\ pc = "top"
    BY <1>2 DEF TopOfLoop, sigterm_stage1_run, kernel
  <2>2. Live' = Live
    BY <2>1 DEF Live
  <2>3. QED
    BY <2>1, <2>2 DEF FInv, FdCore, AuxUnused, Failing
<1>3. CASE EndProcess \/ SelectSoon \/ SelectLater \/ SelectInterrupted \/ Tick
  <2>1. \A r \in Slots : req'[r].status = req[r].status
    BY <1>3, ClockType DEF EndProcess, SelectSoon, SelectLater, SelectInterrupted, Tick, QInv
  <2>2. UNCHANGED <<queues, fd, aux, kernel, sigterm>> /\ pc \in {"visit", "select"}
    BY <1>3 DEF EndProcess, SelectSoon, SelectLater, SelectInterrupted, SelectReturn,
                SelectBadFd, waiting, Tick
  <2>3. Live' = Live /\ open' = open
    BY <2>2 DEF queues, kernel, Live
  <2>4. QED
    BY <1>1, <2>1, <2>2, <2>3 DEF FInv, FdCore, AuxUnused, Failing
<1>4. CASE SigTerm
  <2>1. UNCHANGED <<queues, req, fd, aux, kernel, pc, cursor>> /\ sigterm = 0
    BY <1>4 DEF SigTerm
  <2>2. Live' = Live /\ open' = open /\ cur' = cur /\ retval' = retval
    BY <2>1 DEF queues, kernel, cursor, Live
  <2>3. QED
    BY <2>1, <2>2 DEF FInv, FdCore, AuxUnused, Failing
<1>5. CASE \E r \in Slots : Stall(r)
  <2>1. UNCHANGED <<queues, req, fd, aux, open, sigterm, pc, cursor>>
    BY <1>5 DEF Stall
  <2>2. Live' = Live /\ cur' = cur /\ retval' = retval
    BY <2>1 DEF queues, cursor, Live
  <2>3. QED
    BY <2>1, <2>2 DEF FInv, FdCore, AuxUnused, Failing
<1>6. QED
  BY <1>2, <1>3, <1>4, <1>5

(* FInv is inductive relative to types and queues.                         *)
LEMMA FInvInductive == QInv /\ FInv /\ [Next]_vars => FInv'
<1> SUFFICES ASSUME QInv, FInv, [Next]_vars PROVE FInv'
  OBVIOUS
<1>1. CASE UNCHANGED vars
  <2>1. UNCHANGED <<queues, req, fd, aux, kernel, sigterm, pc, cursor>>
    BY <1>1 DEF vars
  <2>2. Live' = Live /\ open' = open /\ cur' = cur /\ retval' = retval
    BY <2>1 DEF queues, kernel, cursor, Live
  <2>3. QED
    BY <2>1, <2>2 DEF FInv, FdCore, AuxUnused, Failing
<1>2. CASE Next
  BY <1>2, UpdateFds, AcceptStepFds, HandleFds, FinishFds, LoopFds DEF Next, Loop
<1>3. QED
  BY <1>1, <1>2

(* Until SIGTERM closes the sockets, every connection's descriptors are    *)
(* open, no two connections share one and none is leaked (unless a POST    *)
(* comes without HTTP version), whatever the clients ask for and however   *)
(* the loop interleaves them.                                              *)
THEOREM DescriptorsOwned == Spec => []FdOwnership
BY InitQueues, QInvInductive, InitFds, FInvInductive, FInvImplies, PTL DEF Spec

=============================================================================
