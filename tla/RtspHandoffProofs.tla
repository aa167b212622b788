------------------------- MODULE RtspHandoffProofs -------------------------
(***************************************************************************)
(* Proofs about RtspHandoff, for any number of requests and session ids,   *)
(* whether or not the thread answers in time.                              *)
(***************************************************************************)
EXTENDS RtspHandoff, FiniteSetTheorems, TLAPS

(* What holds of a record: its flags say which requests it has and whether *)
(* its session object lives.                                               *)
RecordOK(x) ==
  /\ x \in Record
  /\ "IN" \in x.flags <=> x.in # NULL
  /\ "OUT" \in x.flags <=> x.out # NULL
  /\ x.session = "alive" <=> x.flags \cap Live # {}
  /\ x.status \in {"ACTIVE", "WAIT_SOCKET"} => "SETUP" \in x.flags
  /\ x.status = "ACTIVE" => Connect \subseteq x.flags
  /\ x.status = "CLOSED" => x = Cleared

RecordsOK == rec \in [Ids -> Record] /\ \A i \in Ids : RecordOK(rec[i])

(* A record that was cleared is one, and has no flags. *)
LEMMA ClearedOK == RecordOK(Cleared)
  BY DEF RecordOK, Cleared, Record, Connect, Live

(* Putting a request into an empty place of a record keeps it well formed. *)
LEMMA AttachedOK ==
  ASSUME NEW x, RecordOK(x), x.status # "WAIT_CLOSE", NEW r \in Requests,
         NEW s \in Slots, x[s] = NULL
  PROVE  RecordOK(Attached(x, r, s))
<1>0. r # NULL
  BY NullAssumption
<1>1. CASE s = "in"
  BY <1>0, <1>1 DEF RecordOK, Attached, Record, Connect, Live, Cleared, Slots
<1>2. CASE s = "out"
  BY <1>0, <1>2 DEF RecordOK, Attached, Record, Connect, Live, Cleared, Slots
<1> QED
  BY <1>1, <1>2 DEF Slots

(* So does taking out the requests whose clients have gone. *)
LEMMA DisconnectedOK ==
  ASSUME NEW x, RecordOK(x), NEW gone \in SUBSET Slots, \A s \in gone : x[s] # NULL
  PROVE  RecordOK(Disconnected(x, gone))
<1> DEFINE bits == {IF s = "in" THEN "IN" ELSE "OUT" : s \in gone}
           flags == x.flags \ bits
           y == Disconnected(x, gone)
<1>a. x \in Record
  BY DEF RecordOK
<1>1. /\ y.flags = flags
      /\ y.in = IF "in" \in gone THEN NULL ELSE x.in
      /\ y.out = IF "out" \in gone THEN NULL ELSE x.out
      /\ y.session = x.session
      /\ y.status = IF x.status = "WAIT_CLOSE" \/ gone = {} THEN x.status
                    ELSE IF flags \cap Connect # {} THEN "WAIT_SOCKET" ELSE "WAIT_CLOSE"
  BY <1>a DEF Disconnected, Record
<1>2. y \in Record
  BY <1>a DEF Disconnected, Record
<1>3. /\ "IN" \in bits <=> "in" \in gone
      /\ "OUT" \in bits <=> "out" \in gone
      /\ "SETUP" \notin bits /\ "PLAY" \notin bits
  BY DEF Slots
<1> HIDE DEF y, bits
<1>4. /\ "IN" \in y.flags <=> y.in # NULL
      /\ "OUT" \in y.flags <=> y.out # NULL
  BY <1>1, <1>3 DEF RecordOK
<1>5. /\ y.session = "alive" <=> y.flags \cap Live # {}
      /\ y.status \in {"ACTIVE", "WAIT_SOCKET"} => "SETUP" \in y.flags
  <2>1. y.flags \cap Live = x.flags \cap Live
    BY <1>1, <1>3 DEF Live
  <2>2. CASE gone = {}
    BY <1>1, <1>3, <2>1, <2>2 DEF RecordOK
  <2>3. CASE gone # {}
    <3>1. PICK s \in gone : x[s] # NULL
      BY <2>3
    <3>2. x.status # "CLOSED"
      BY <3>1 DEF RecordOK, Cleared, Slots
    <3> QED
      BY <1>1, <1>3, <2>1, <3>2, <1>a DEF RecordOK, Record
  <2> QED
    BY <2>2, <2>3
<1>6. y.status = "ACTIVE" => Connect \subseteq y.flags
  BY <1>1, <1>3 DEF RecordOK, Connect
<1>7. y.status = "CLOSED" => y = Cleared
  <2>1. CASE gone = {}
    <3>1. y = x
      BY <1>a, <2>1 DEF y, Disconnected, Record
    <3> QED
      BY <3>1 DEF RecordOK
  <2>2. CASE gone # {}
    BY <1>1, <2>2
  <2> QED
    BY <2>1, <2>2
<1> QED
  BY <1>2, <1>4, <1>5, <1>6, <1>7 DEF RecordOK, y

(* And so does whatever update_record makes of it. *)
LEMMA UpdatedOK ==
  ASSUME NEW x, RecordOK(x), NEW y \in Updated(x)
  PROVE  RecordOK(y)
<1>a. x \in Record
  BY DEF RecordOK
<1>1. CASE x.status = "ACTIVE"
  <2>a. Connect \subseteq x.flags /\ "SETUP" \in x.flags /\ x.session = "alive"
    BY <1>1 DEF RecordOK, Live
  <2>1. CASE y = x
    BY <2>1
  <2>2. CASE y = [x EXCEPT !.flags = @ \cup {"PLAY"}]
    <3>1. /\ y \in Record /\ y.flags = x.flags \cup {"PLAY"} /\ y.status = x.status
          /\ y.in = x.in /\ y.out = x.out /\ y.session = x.session
      BY <1>a, <2>2 DEF Record, Live
    <3> QED
      BY <1>1, <2>a, <3>1 DEF RecordOK, Live, Connect
  <2>3. CASE y = [x EXCEPT !.flags = @ \ {"PLAY"}]
    <3>1. /\ y \in Record /\ y.flags = x.flags \ {"PLAY"} /\ y.status = x.status
          /\ y.in = x.in /\ y.out = x.out /\ y.session = x.session
      BY <1>a, <2>3 DEF Record, Live
    <3> QED
      BY <1>1, <2>a, <3>1 DEF RecordOK, Live, Connect
  <2>4. CASE y = Ended(x)
    <3>1. /\ y \in Record /\ y.flags = x.flags \ Live /\ y.status = "WAIT_CLOSE"
          /\ y.in = x.in /\ y.out = x.out /\ y.session = "deleted"
      BY <1>a, <2>4 DEF Record, Ended
    <3> QED
      BY <1>1, <2>a, <3>1 DEF RecordOK, Live, Connect
  <2> QED
    BY <1>1, <2>1, <2>2, <2>3, <2>4 DEF Updated, incoming_hander
<1>2. CASE x.status # "ACTIVE"
  BY <1>2, ClearedOK DEF Updated
<1> QED
  BY <1>1, <1>2

(* A pass changes a record as Updated says or leaves it, also one that is   *)
(* caught in a session.                                                     *)
LEMMA UpdateChoices ==
  ASSUME update_record, NEW i \in Ids
  PROVE  rec'[i] \in Updated(rec[i]) \cup {rec[i]}
<1>1. CASE \A j \in Ids : rec'[j] \in Updated(rec[j])
  BY <1>1
<1>2. CASE \E j \in Ids : CaughtIn(j)
  <2>1. PICK j \in Ids : CaughtIn(j)
    BY <1>2
  <2>2. CASE i = j
    BY <2>1, <2>2 DEF CaughtIn, Updated
  <2>3. CASE i # j
    BY <2>1, <2>3 DEF CaughtIn
  <2> QED
    BY <2>2, <2>3
<1> QED
  BY <1>1, <1>2 DEF update_record

-----------------------------------------------------------------------------
(* The inductive invariant: types, records as described above, and that the *)
(* main loop has a request in hand while it takes one from the list         *)
HandTaken == main = "take" => hand \in Requests
IInv == TypeOK /\ RecordsOK /\ HandTaken

(* It holds at the start.                                                  *)
LEMMA InitIInv == Init => IInv
<1> SUFFICES ASSUME Init PROVE IInv
  OBVIOUS
<1>1. RecordOK(Cleared) /\ Cleared \in Record
  BY ClearedOK DEF RecordOK
<1>2. RecordsOK
  BY <1>1 DEF Init, RecordsOK
<1>3. TypeOK
  BY <1>1 DEF Init, TypeOK
<1>4. HandTaken
  BY DEF Init, HandTaken
<1> QED
  BY <1>2, <1>3, <1>4 DEF IInv

(* The steps of the main loop leave the records alone, but for a restart. *)
LEMMA MainIInv ==
  ASSUME IInv, MainLoop \/ (\E r \in Requests : Arrive(r)) \/ sigusr1 \/ sigusr2
  PROVE  IInv'
<1> USE DEF IInv, TypeOK, HandTaken
<1>0. ASSUME UNCHANGED rec PROVE RecordsOK'
  BY <1>0 DEF RecordsOK
<1>1. ASSUME NEW r \in Requests, Arrive(r) PROVE IInv'
  BY <1>1, SMTT(30) DEF Arrive, pool, slot, records, restart, RecordsOK
<1>2. ASSUME NEW r \in Requests, HandOver(r) PROVE IInv'
  <2>1. call' \in [Requests -> {READ_HEADER, DONE} \cup Calls]
    BY <1>2 DEF HandOver
  <2>2. UNCHANGED <<idle, ready, insert_req, return_list, thr, back, rec, free_list, hup,
                    av_stream_pending, torn, lapsed, lost>>
    BY <1>2 DEF HandOver, records, restart
  <2>3. main' = "try" /\ hand' = r /\ locked' = FALSE /\ signalled' = FALSE
    BY <1>2 DEF HandOver
  <2> QED
    BY <1>0, <2>1, <2>2, <2>3
<1>3. ASSUME NEW r \in Requests, Refuse(r) PROVE IInv'
  BY <1>3, SMTT(30) DEF Refuse, free_request, pool, slot, records, restart, RecordsOK
<1>4. ASSUME NEW r \in Requests, Visit(r) PROVE IInv'
  BY <1>4, SMTT(30) DEF Visit, free_request, pool, slot, records, restart, RecordsOK
<1>5. ASSUME NEW r \in Requests, Take(r) PROVE IInv'
  BY <1>5, SMTT(30) DEF Take, pool, slot, records, restart, RecordsOK
<1>6. CASE Offer
  BY <1>6, SMTT(30) DEF Offer, pool, slot, records, restart, RecordsOK
<1>7. CASE TryLockFails
  BY <1>7, SMTT(30) DEF TryLockFails, pool, slot, records, restart, RecordsOK
<1>8. CASE Woken
  <2>1. main' = "remove" /\ signalled' = FALSE
    BY <1>8 DEF Woken
  <2>2. UNCHANGED <<idle, ready, call, hand, insert_req, locked, return_list, thr, back, rec,
                    free_list, hup, av_stream_pending, torn, lapsed, lost>>
    BY <1>8 DEF Woken, pool, records, restart
  <2>3. RecordsOK'
    BY <1>0, <2>2
  <2>4. HandTaken'
    BY <2>1
  <2>5. TypeOK'
    BY <2>1, <2>2, ZenonT(30)
  <2> QED
    BY <2>3, <2>4, <2>5
<1>9. CASE TimesOut
  BY <1>9, SMTT(30) DEF TimesOut, Silent, pool, slot, records, restart, RecordsOK
<1>10. CASE Remove
  <2>1. main' = "loop" /\ hand' = NULL
    BY <1>10 DEF Remove
  <2>2. UNCHANGED <<idle, call, insert_req, locked, signalled, thr, back, rec, free_list, hup,
                    av_stream_pending, lapsed, lost>>
    BY <1>10 DEF Remove, slot, records, restart
  <2>3. ready' \subseteq Requests /\ return_list' \subseteq Requests
    <3>1. hand \in Requests \/ hand \notin return_list \cup back
      OBVIOUS
    <3> QED
      BY <1>10, <3>1, Zenon DEF Remove
  <2>4. torn' \in BOOLEAN
    BY <1>10, Zenon DEF Remove
  <2> QED
    BY <1>0, <2>1, <2>2, <2>3, <2>4
<1>11. CASE Taken
  <2>0. hand \in Requests
    BY <1>11 DEF HandTaken, Taken
  <2>1. main' = "loop" /\ hand' = NULL /\ call' = [call EXCEPT ![hand] = DONE]
        /\ ready' = ready \cup {hand}
    BY <1>11 DEF Taken
  <2>2. UNCHANGED <<idle, insert_req, locked, signalled, thr, back, rec, free_list, hup,
                    av_stream_pending, lapsed, lost>>
    BY <1>11 DEF Taken, slot, records, restart
  <2>3. return_list' \subseteq Requests /\ torn' \in BOOLEAN
    BY <1>11, <2>0, <2>1 DEF Taken
  <2> QED
    BY <1>0, <2>0, <2>1, <2>2, <2>3
<1>12. CASE NotifyRestart
  BY <1>12, SMTT(30) DEF NotifyRestart, pool, slot, records, restart, RecordsOK
<1>13. CASE PendingEnds
  BY <1>13, SMTT(30) DEF PendingEnds, pool, slot, records, restart, RecordsOK
<1>14. CASE sigusr1
  BY <1>14, SMTT(30) DEF sigusr1, Signal, pool, slot, records, restart, RecordsOK
<1>15. CASE sigusr2
  BY <1>15, SMTT(30) DEF sigusr2, Signal, pool, slot, records, restart, RecordsOK
<1>16. CASE start_rtsp_o_http_thread
  <2>1. RecordOK(Cleared) /\ Cleared \in Record
    BY ClearedOK DEF RecordOK
  <2>2. rec' = [i \in Ids |-> Cleared]
    BY <1>16 DEF start_rtsp_o_http_thread
  <2>3. RecordsOK'
    BY <2>1, <2>2 DEF RecordsOK
  <2>4. lost' \subseteq Requests
    BY <1>16 DEF start_rtsp_o_http_thread, InSessions, Slots, Record
  <2> QED
    BY <1>16, <2>2, <2>3, <2>4 DEF start_rtsp_o_http_thread, pool, slot, records, restart, RecordsOK
<1> QED
  BY <1>1, <1>2, <1>3, <1>4, <1>5, <1>6, <1>7, <1>8, <1>9, <1>10, <1>11, <1>12, <1>13, <1>14, <1>15, <1>16 DEF MainLoop
(* The thread: every record it changes goes through one of the three        *)
(* operators above.                                                         *)
LEMMA ThreadIInv ==
  ASSUME IInv, Thread
  PROVE  IInv'
<1> USE DEF IInv, TypeOK, HandTaken
<1>0. ASSUME UNCHANGED rec PROVE RecordsOK'
  BY <1>0 DEF RecordsOK
<1>1. CASE ThreadTop
  BY <1>0, <1>1 DEF ThreadTop, pool, slot, records, restart
<1>2. CASE Lock
  BY <1>0, <1>2 DEF Lock, pool, records, restart
<1>3. CASE SignalMain
  BY <1>0, <1>3 DEF SignalMain, pool, records, restart
<1>4. CASE InsertRequest
  <2>1. UNCHANGED <<idle, ready, call, main, hand, insert_req, locked, signalled, return_list,
                    back, hup, av_stream_pending, lapsed>> /\ thr' = "signal"
    BY <1>4 DEF InsertRequest, pool, slot, restart
  <2>2. CASE StaleSlot /\ torn' = TRUE /\ UNCHANGED <<records, lost>>
    BY <1>0, <2>1, <2>2 DEF records
  <2>3. CASE ~StaleSlot /\ InsertRefused(insert_req) /\ UNCHANGED torn
    <3>1. insert_req \in Requests
      BY <2>3 DEF StaleSlot
    <3> QED
      BY <1>0, <2>1, <2>3, <3>1 DEF InsertRefused, records
  <2>4. CASE ~StaleSlot /\ Insert(insert_req) /\ UNCHANGED torn
    <3> DEFINE r == insert_req
               i == call[r][2]
               s == IF call[r][1] = "GET" THEN "out" ELSE "in"
    <3>1. r \in Requests /\ call[r] \in Calls
      BY <2>4 DEF StaleSlot
    <3>2. i \in Ids /\ s \in Slots
      BY <3>1 DEF Calls, Slots
    <3>3. /\ rec[i].status # "WAIT_CLOSE" /\ rec[i][s] = NULL
          /\ rec' = [rec EXCEPT ![i] = Attached(rec[i], r, s)]
          /\ free_list' \in Nat /\ UNCHANGED lost
      BY <2>4 DEF Insert
    <3> HIDE DEF r, i, s
    <3>4. RecordOK(rec[i])
      BY <3>2 DEF RecordsOK
    <3>5. RecordOK(Attached(rec[i], r, s))
      BY <3>1, <3>2, <3>3, <3>4, AttachedOK
    <3>6. Attached(rec[i], r, s) \in Record
      BY <3>5 DEF RecordOK
    <3>7. rec' \in [Ids -> Record] /\ \A j \in Ids : RecordOK(rec'[j])
      BY <3>2, <3>3, <3>5, <3>6 DEF RecordsOK
    <3>8. RecordsOK'
      BY <3>7 DEF RecordsOK, RecordOK
    <3> QED
      BY <2>1, <2>4, <3>3, <3>7, <3>8
  <2> QED
    BY <1>4, <2>2, <2>3, <2>4 DEF InsertRequest
<1>5. CASE Poll
  <2>1. UNCHANGED <<idle, ready, call, main, hand, insert_req, locked, signalled, return_list,
                    free_list, hup, av_stream_pending, torn, lapsed, lost>>
    BY <1>5 DEF Poll, pool, slot, restart
  <2>2. CASE UsedIds = {} /\ thr' = "top" /\ UNCHANGED <<rec, back>>
    BY <1>0, <2>1, <2>2
  <2>3. CASE UsedIds # {}
    <3>1. PICK at \in [Ids -> SUBSET Slots] :
            /\ \A i \in Ids : \A s \in at[i] : rec[i][s] # NULL
            /\ rec' = [i \in Ids |-> Disconnected(rec[i], at[i])]
            /\ back' = UNION {{rec[i][s] : s \in at[i]} : i \in Ids}
      BY <1>5, <2>3 DEF Poll
    <3>2. ASSUME NEW i \in Ids PROVE RecordOK(rec'[i]) /\ rec'[i] \in Record
      <4>1. RecordOK(rec[i]) /\ at[i] \in SUBSET Slots /\ \A s \in at[i] : rec[i][s] # NULL
        BY <3>1 DEF RecordsOK
      <4>2. RecordOK(Disconnected(rec[i], at[i]))
        BY <4>1, DisconnectedOK
      <4> QED
        BY <3>1, <4>2 DEF RecordOK
    <3>3. rec' \in [Ids -> Record] /\ RecordsOK'
      BY <3>1, <3>2 DEF RecordsOK, RecordOK
    <3>4. back' \subseteq Requests
      <4>1. ASSUME NEW i \in Ids, NEW s \in at[i] PROVE rec[i][s] \in Requests
        <5>1. s \in Slots /\ rec[i] \in Record /\ rec[i][s] # NULL
          BY <3>1
        <5> QED
          BY <5>1 DEF Record, Slots
      <4> QED
        BY <3>1, <4>1
    <3>5. thr' \in {"update", "return"}
      BY <1>5, <2>3 DEF Poll
    <3> QED
      BY <2>1, <3>3, <3>4, <3>5
  <2> QED
    BY <1>5, <2>2, <2>3 DEF Poll
<1>6. CASE ReturnRequest
  BY <1>0, <1>6 DEF ReturnRequest, Return, pool, slot, records, restart
<1>7. CASE update_record
  <2>1. UNCHANGED <<idle, ready, call, main, hand, insert_req, locked, signalled, return_list,
                    back, hup, av_stream_pending, torn, lapsed, lost>> /\ thr' \in {"top", "spin"}
    BY <1>7 DEF update_record, pool, slot, restart
  <2>2. ASSUME NEW i \in Ids PROVE RecordOK(rec'[i]) /\ rec'[i] \in Record
    <3>1. RecordOK(rec[i]) /\ rec'[i] \in Updated(rec[i]) \cup {rec[i]}
      BY <1>7, UpdateChoices DEF RecordsOK
    <3>2. RecordOK(rec'[i])
      BY <3>1, UpdatedOK
    <3> QED
      BY <3>2 DEF RecordOK
  <2>3. DOMAIN rec' = Ids /\ rec' = [i \in Ids |-> rec'[i]]
    BY <1>7 DEF update_record
  <2>4. rec' \in [Ids -> Record] /\ RecordsOK'
    BY <2>2, <2>3 DEF RecordsOK, RecordOK
  <2>5. free_list' \in Nat
    <3> DEFINE freed == {i \in UsedIds : rec'[i].status = "CLOSED"}
    <3>1. IsFiniteSet(freed)
      BY IdsAssumption, FS_Subset DEF UsedIds
    <3>2. Cardinality(freed) \in Nat
      BY <3>1, FS_CardinalityType
    <3>3. free_list' = free_list + Cardinality(freed)
      BY <1>7 DEF update_record
    <3> QED
      BY <3>2, <3>3
  <2> QED
    BY <2>1, <2>4, <2>5
<1> QED
  BY <1>1, <1>2, <1>3, <1>4, <1>5, <1>6, <1>7 DEF Thread

(* Every step of either thread keeps it.                                   *)
LEMMA NextIInv == IInv /\ [Next]_vars => IInv'
<1> SUFFICES ASSUME IInv, [Next]_vars PROVE IInv'
  OBVIOUS
<1>1. CASE UNCHANGED vars
  BY <1>1 DEF IInv, TypeOK, HandTaken, RecordsOK, vars, pool, slot, records, restart
<1>2. CASE Next
  BY <1>1, <1>2, MainIInv, ThreadIInv DEF Next, Damaged, Spinning
<1> QED
  BY <1>1, <1>2

(* So it always holds.                                                     *)
LEMMA Inductive == Spec => []IInv
  BY InitIInv, NextIInv, PTL DEF Spec

(* Types hold in every state, also after a hand-over that timed out and     *)
(* after a restart.                                                         *)
THEOREM TypeCorrect == Spec => []TypeOK
<1>1. IInv => TypeOK
  BY DEF IInv
<1> QED
  BY <1>1, Inductive, PTL

(* update_record never follows a session pointer or a request pointer that  *)
(* is not there, in whatever order sockets close, commands end a session    *)
(* and requests are handed over.                                            *)
THEOREM SessionsUsable == Spec => []SessionUsable
<1>1. IInv => SessionUsable
  BY DEF IInv, RecordsOK, RecordOK, SessionUsable, Connect, Live
<1> QED
  BY <1>1, Inductive, PTL
=============================================================================
