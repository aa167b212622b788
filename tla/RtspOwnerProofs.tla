-------------------------- MODULE RtspOwnerProofs --------------------------
(***************************************************************************)
(* Every request has one owner: the proof of OneOwner.  The invariant is   *)
(* strengthened by how the two threads' positions hang together.           *)
(***************************************************************************)
EXTENDS RtspHandoffProofs

(* What the positions say.  A thread that deals with the slot does so while *)
(* the main loop waits with that request in hand; a signal is under way     *)
(* only then; and no restart has been announced, for the main loop would    *)
(* have to be elsewhere.                                                    *)
SlotBusy == thr \in {"lock", "insert", "signal"} =>
              main = "wait" /\ insert_req = hand /\ ~signalled /\ ~hup
SignalDue == signalled => main = "wait" /\ ~hup /\ thr # "exit" /\ insert_req = NULL
SlotSet == thr \notin {"exit", "spin"} /\ insert_req # NULL => main = "wait" /\ insert_req = hand
InHand == /\ main \in {"try", "retry", "wait", "remove"} => hand \in ready
          /\ main = "take" => hand \in return_list
NoneLeft == thr # "return" => back = {}
Positions == SlotBusy /\ SignalDue /\ SlotSet /\ InHand /\ NoneLeft

(* The six places, pairwise apart and complete *)
WithMain == IF HandedOver THEN ready \ {hand} ELSE ready
Apart(a, b, c, d, e, f) ==
  /\ a \cap b = {} /\ a \cap c = {} /\ a \cap d = {} /\ a \cap e = {} /\ a \cap f = {}
  /\ b \cap c = {} /\ b \cap d = {} /\ b \cap e = {} /\ b \cap f = {}
  /\ c \cap d = {} /\ c \cap e = {} /\ c \cap f = {}
  /\ d \cap e = {} /\ d \cap f = {} /\ e \cap f = {}
  /\ a \cup b \cup c \cup d \cup e \cup f = Requests
Parted == Apart(idle, WithMain, return_list, back, InSessions, lost)
SlotsDiffer ==
  \A i, j \in Ids : \A s, t \in Slots :
    rec[i][s] # NULL /\ rec[i][s] = rec[j][t] => i = j /\ s = t

Sound == ~torn /\ ~lapsed
OInv == Sound => Positions /\ Parted /\ SlotsDiffer

(* At the start no request is anywhere but with the main loop.             *)
LEMMA OwnersInit == Init => OInv
<1> SUFFICES ASSUME Init PROVE OInv
  OBVIOUS
<1>1. InSessions = {}
  BY DEF Init, InSessions, Cleared, Slots
<1>2. Parted
  BY <1>1 DEF Init, Parted, Apart, WithMain, HandedOver
<1>3. SlotsDiffer
  BY DEF Init, SlotsDiffer, Cleared, Slots
<1>4. Positions
  BY DEF Init, Positions, SlotBusy, SignalDue, SlotSet, InHand, NoneLeft
<1> QED
  BY <1>2, <1>3, <1>4 DEF OInv

(* While rec stays, so do the sessions' requests. *)
LEMMA SameSessions ==
  ASSUME UNCHANGED rec
  PROVE  InSessions' = InSessions /\ (SlotsDiffer => SlotsDiffer')
  BY DEF InSessions, SlotsDiffer

(* The positions, step by step *)
LEMMA MainPositions ==
  ASSUME IInv, Sound, Positions, Parted,
         MainLoop \/ (\E r \in Requests : Arrive(r)) \/ sigusr1 \/ sigusr2, Sound'
  PROVE  Positions'
<1> USE DEF Positions, SlotBusy, SignalDue, SlotSet, InHand, NoneLeft, Sound
<1>0. hand \in Requests \cup {NULL} /\ NULL \notin Requests /\ back \subseteq Requests
  BY NullAssumption DEF IInv, TypeOK
<1>1. ASSUME NEW r \in Requests, Arrive(r) PROVE Positions'
  BY <1>1 DEF Arrive, slot, restart
<1>2. ASSUME NEW r \in Requests, HandOver(r) PROVE Positions'
  BY <1>2 DEF HandOver, restart
<1>3. ASSUME NEW r \in Requests, Refuse(r) PROVE Positions'
  BY <1>3 DEF Refuse, free_request, slot, restart
<1>4. ASSUME NEW r \in Requests, Visit(r) PROVE Positions'
  BY <1>4 DEF Visit, free_request, slot, restart
<1>5. ASSUME NEW r \in Requests, Take(r) PROVE Positions'
  BY <1>5 DEF Take, pool, slot, restart
<1>6. CASE Offer
  BY <1>6 DEF Offer, pool, restart
<1>7. CASE TryLockFails
  BY <1>7 DEF TryLockFails, pool, slot, restart
<1>8. CASE Woken
  BY <1>8 DEF Woken, pool, restart
<1>9. CASE TimesOut
  BY <1>9 DEF TimesOut, Silent, pool, restart
<1>10. CASE Remove
  BY <1>10 DEF Remove, slot, restart
<1>11. CASE Taken
  BY <1>11 DEF Taken, slot, restart
<1>12. CASE NotifyRestart
  BY <1>12 DEF NotifyRestart, pool, slot
<1>13. CASE PendingEnds
  BY <1>13 DEF PendingEnds, pool, slot
<1>14. CASE start_rtsp_o_http_thread
  BY <1>14 DEF start_rtsp_o_http_thread, pool
<1>15. CASE sigusr1
  BY <1>15 DEF sigusr1, Signal, pool, slot
<1>16. CASE sigusr2
  BY <1>16 DEF sigusr2, Signal, pool, slot
<1> QED
  BY <1>1, <1>2, <1>3, <1>4, <1>5, <1>6, <1>7, <1>8, <1>9, <1>10, <1>11, <1>12, <1>13, <1>14,
     <1>15, <1>16 DEF MainLoop

(* What the positions mean for each other, kept by the thread's steps.     *)
LEMMA ThreadPositions ==
  ASSUME IInv, Sound, Positions, Thread
  PROVE  Positions'
<1> USE DEF Positions, SlotBusy, SignalDue, SlotSet, InHand, NoneLeft
<1>1. CASE ThreadTop
  BY <1>1 DEF ThreadTop, pool, slot, restart
<1>2. CASE Lock
  BY <1>2 DEF Lock, pool, restart
<1>3. CASE InsertRequest
  BY <1>3 DEF InsertRequest, pool, slot, restart
<1>4. CASE SignalMain
  BY <1>4 DEF SignalMain, pool, restart
<1>5. CASE Poll
  BY <1>5 DEF Poll, pool, slot, restart
<1>6. CASE ReturnRequest
  BY <1>6 DEF ReturnRequest, Return, pool, slot, restart
<1>7. CASE update_record
  BY <1>7 DEF update_record, pool, slot, restart
<1> QED
  BY <1>1, <1>2, <1>3, <1>4, <1>5, <1>6, <1>7 DEF Thread
(* Steps after which every request is where it was *)
LEMMA NobodyMoves ==
  ASSUME Parted, SlotsDiffer, UNCHANGED <<idle, return_list, back, rec, lost>>, WithMain' = WithMain
  PROVE  Parted' /\ SlotsDiffer'
  BY SameSessions DEF Parted

(* The main loop: it moves requests between the pool, its own list, and the *)
(* return list, and a restart forgets those of the thread.                  *)
LEMMA MainParted ==
  ASSUME IInv, Sound, Positions, Parted, SlotsDiffer,
         MainLoop \/ (\E r \in Requests : Arrive(r)) \/ sigusr1 \/ sigusr2, Sound'
  PROVE  Parted' /\ SlotsDiffer'
<1>0. /\ hand \in Requests \cup {NULL} /\ NULL \notin Requests
      /\ ready \subseteq Requests /\ return_list \subseteq Requests
      /\ InSessions \subseteq Requests
  <2>1. \A i \in Ids, s \in Slots : rec[i][s] \in Requests \cup {NULL}
    BY DEF IInv, TypeOK, Record, Slots
  <2> QED
    BY <2>1, NullAssumption DEF IInv, TypeOK, InSessions
<1>a. main \notin {"wait", "remove"} => ~HandedOver /\ WithMain = ready
  BY DEF HandedOver, WithMain
<1>b. main' \notin {"wait", "remove"} => WithMain' = ready'
  BY DEF HandedOver, WithMain
<1>c. main \notin {"wait", "remove"} => ~signalled /\ thr # "signal"
  BY DEF Positions, SignalDue, SlotBusy
<1>1. ASSUME NEW r \in Requests, Arrive(r) PROVE Parted' /\ SlotsDiffer'
  <2>1. /\ main = "loop" /\ main' = "loop" /\ r \in idle
        /\ idle' = idle \ {r} /\ ready' = ready \cup {r}
        /\ UNCHANGED <<return_list, back, rec, lost>>
    BY <1>1 DEF Arrive, records
  <2> QED
    BY <2>1, <1>a, <1>b, SameSessions DEF Parted, Apart
<1>2. ASSUME NEW r \in Requests, HandOver(r) PROVE Parted' /\ SlotsDiffer'
  BY <1>2, <1>a, <1>b, NobodyMoves DEF HandOver, records
<1>3. ASSUME NEW r \in Requests, r \in ready, main = "loop", free_request(r),
             UNCHANGED <<main, return_list, back, rec, lost>>
      PROVE  Parted' /\ SlotsDiffer'
  <2>1. /\ main' = "loop" /\ idle' = idle \cup {r} /\ ready' = ready \ {r}
    BY <1>3 DEF free_request
  <2> QED
    BY <1>3, <2>1, <1>a, <1>b, SameSessions DEF Parted, Apart
<1>4. ASSUME NEW r \in Requests, Refuse(r) \/ Visit(r) PROVE Parted' /\ SlotsDiffer'
  BY <1>3, <1>4 DEF Refuse, Visit, records
<1>5. ASSUME NEW r \in Requests, Take(r) PROVE Parted' /\ SlotsDiffer'
  BY <1>5, <1>a, <1>b, NobodyMoves DEF Take, pool, records
<1>6. CASE Offer
  <2>1. ~HandedOver'
    BY <1>6, <1>c DEF Offer, HandedOver
  <2> QED
    BY <1>6, <1>a, <2>1, NobodyMoves DEF Offer, pool, records, WithMain
<1>7. CASE TryLockFails
  <2>1. main' \in {"retry", "loop"} /\ main \in {"try", "retry"}
    BY <1>7 DEF TryLockFails
  <2> QED
    BY <1>7, <2>1, <1>a, <1>b, NobodyMoves DEF TryLockFails, pool, records
<1>8. CASE Woken
  <2>1. HandedOver /\ HandedOver'
    BY <1>8 DEF Woken, HandedOver
  <2> QED
    BY <1>8, <2>1, NobodyMoves DEF Woken, pool, records, WithMain
<1>9. CASE TimesOut
  <2>1. Silent /\ main' = "loop" /\ main = "wait"
    BY <1>9 DEF TimesOut, Sound
  <2>2. ~HandedOver
    BY <2>1 DEF Silent, HandedOver, Positions, SignalDue
  <2> QED
    BY <1>9, <1>b, <2>1, <2>2, NobodyMoves DEF TimesOut, pool, records, WithMain
<1>10. CASE Remove
  <2>1. /\ main = "remove" /\ main' = "loop" /\ ready' = ready \ {hand}
        /\ UNCHANGED <<idle, return_list, back, rec, lost>>
    BY <1>10 DEF Remove, Sound, records
  <2>2. WithMain = ready \ {hand}
    BY <2>1 DEF WithMain, HandedOver
  <2> QED
    BY <1>b, <2>1, <2>2, NobodyMoves
<1>11. CASE Taken
  <2>1. /\ main = "take" /\ main' = "loop" /\ ready' = ready \cup {hand}
        /\ return_list' = return_list \ {hand}
        /\ UNCHANGED <<idle, back, rec, lost>>
    BY <1>11 DEF Taken, Sound, records
  <2>2. hand \in return_list
    BY <2>1 DEF Positions, InHand
  <2> QED
    BY <1>a, <1>b, <2>1, <2>2, SameSessions DEF Parted, Apart
<1>12. CASE NotifyRestart
  BY <1>12, <1>a, <1>b, NobodyMoves DEF NotifyRestart, pool, records
<1>13. CASE PendingEnds
  BY <1>13, <1>a, <1>b, NobodyMoves DEF PendingEnds, pool, records
<1>14. CASE start_rtsp_o_http_thread
  <2>1. /\ main = "loop" /\ main' = "loop" /\ return_list' = {}
        /\ lost' = lost \cup ((InSessions \cup return_list) \ (idle \cup ready))
        /\ rec' = [i \in Ids |-> Cleared]
        /\ UNCHANGED <<idle, ready, back>>
    BY <1>14 DEF start_rtsp_o_http_thread, pool
  <2>2. InSessions' = {} /\ SlotsDiffer'
    BY <2>1 DEF InSessions, SlotsDiffer, Cleared, Slots
  <2> QED
    BY <1>0, <1>a, <1>b, <2>1, <2>2 DEF Parted, Apart
<1>15. CASE sigusr1 \/ sigusr2
  <2>1. UNCHANGED <<idle, ready, main, hand, signalled, thr, return_list, back, rec, lost>>
    BY <1>15 DEF sigusr1, sigusr2, Signal, pool, slot, records
  <2>2. WithMain' = WithMain
    BY <2>1 DEF WithMain, HandedOver
  <2> QED
    BY <2>1, <2>2, NobodyMoves
<1> QED
  BY <1>1, <1>2, <1>4, <1>5, <1>6, <1>7, <1>8, <1>9, <1>10, <1>11, <1>12, <1>13, <1>14,
     <1>15 DEF MainLoop
(* The thread: from the main loop into a session, and from there back *)
LEMMA ThreadParted ==
  ASSUME IInv, Sound, Positions, Parted, SlotsDiffer, Thread, Sound'
  PROVE  Parted' /\ SlotsDiffer'
<1>0. /\ hand \in Requests \cup {NULL} /\ NULL \notin Requests
      /\ ready \subseteq Requests
      /\ \A i \in Ids : rec[i] \in Record /\ RecordOK(rec[i])
      /\ \A i \in Ids, s \in Slots : rec[i][s] \in Requests \cup {NULL}
  BY NullAssumption DEF IInv, TypeOK, RecordsOK, Record, Slots
<1>1. CASE ThreadTop
  <2>1. UNCHANGED <<idle, ready, main, hand, signalled, return_list, back, rec, lost>>
        /\ thr = "top" /\ thr' \in {"exit", "lock", "poll"}
    BY <1>1 DEF ThreadTop, pool, slot, records
  <2>2. WithMain' = WithMain
    BY <2>1 DEF WithMain, HandedOver
  <2> QED
    BY <2>1, <2>2, NobodyMoves
<1>2. CASE Lock
  <2>1. UNCHANGED <<idle, ready, main, hand, signalled, return_list, back, rec, lost>>
        /\ thr = "lock" /\ thr' = "insert"
    BY <1>2 DEF Lock, pool, records
  <2>2. WithMain' = WithMain
    BY <2>1 DEF WithMain, HandedOver
  <2> QED
    BY <2>1, <2>2, NobodyMoves
<1>3. CASE InsertRequest
  <2>1. /\ thr = "insert" /\ thr' = "signal"
        /\ UNCHANGED <<idle, ready, main, hand, insert_req, signalled, return_list, back>>
    BY <1>3 DEF InsertRequest, pool, slot
  <2>2. main = "wait" /\ insert_req = hand /\ ~signalled /\ hand \in ready
    BY <2>1 DEF Positions, SlotBusy, InHand
  <2>3. WithMain = ready /\ WithMain' = ready \ {hand}
    BY <2>1, <2>2 DEF WithMain, HandedOver
  <2>4. ~StaleSlot /\ (Insert(hand) \/ InsertRefused(hand))
    BY <1>3, <2>2 DEF InsertRequest, Sound
  <2>5. CASE InsertRefused(hand)
    BY <2>1, <2>2, <2>3, <2>5, SameSessions DEF InsertRefused, records, Parted, Apart
  <2>6. CASE Insert(hand)
    <3> DEFINE r == hand
               k == call[r][2]
               s == IF call[r][1] = "GET" THEN "out" ELSE "in"
    <3>1. r \in Requests /\ r # NULL /\ k \in Ids /\ s \in Slots
      BY <1>0, <2>2, <2>4 DEF StaleSlot, Calls, Slots
    <3>2. rec[k][s] = NULL /\ rec' = [rec EXCEPT ![k] = Attached(rec[k], r, s)] /\ lost' = lost
      BY <2>6 DEF Insert
    <3> HIDE DEF k, s
    <3>3. \A t \in Slots : Attached(rec[k], r, s)[t] = IF t = s THEN r ELSE rec[k][t]
      <4>1. rec[k] \in Record
        BY <1>0, <3>1
      <4>2. CASE s = "in"
        BY <4>1, <4>2 DEF Attached, Record, Slots
      <4>3. CASE s = "out"
        BY <4>1, <4>3 DEF Attached, Record, Slots
      <4> QED
        BY <3>1, <4>2, <4>3 DEF Slots
    <3>4. \A i \in Ids, t \in Slots : rec'[i][t] = IF i = k /\ t = s THEN r ELSE rec[i][t]
      <4>1. DOMAIN rec = Ids
        BY DEF IInv, TypeOK
      <4> QED
        BY <3>1, <3>2, <3>3, <4>1
    <3>5. InSessions' = InSessions \cup {r}
      BY <3>1, <3>2, <3>4 DEF InSessions
    <3>6. r \notin InSessions
      BY <2>2, <2>3 DEF Parted, Apart
    <3>7. SlotsDiffer'
      <4> SUFFICES ASSUME NEW i \in Ids, NEW j \in Ids, NEW t \in Slots, NEW u \in Slots,
                          rec'[i][t] # NULL, rec'[i][t] = rec'[j][u]
                   PROVE  i = j /\ t = u
        BY DEF SlotsDiffer
      <4>1. \A m \in Ids, v \in Slots : rec[m][v] # r
        BY <3>1, <3>6 DEF InSessions
      <4> QED
        BY <3>1, <3>4, <4>1 DEF SlotsDiffer
    <3> QED
      BY <2>1, <2>2, <2>3, <3>2, <3>5, <3>6, <3>7 DEF Parted, Apart
  <2> QED
    BY <2>4, <2>5, <2>6
<1>4. CASE SignalMain
  <2>1. UNCHANGED <<idle, ready, main, hand, return_list, back, rec, lost>>
        /\ thr = "signal" /\ signalled' = TRUE
    BY <1>4 DEF SignalMain, pool, records
  <2>2. main = "wait"
    BY <2>1 DEF Positions, SlotBusy
  <2>3. WithMain' = WithMain
    BY <2>1, <2>2 DEF WithMain, HandedOver
  <2> QED
    BY <2>1, <2>3, NobodyMoves
<1>5. CASE Poll
  <2>1. /\ thr = "poll" /\ thr' \in {"top", "update", "return"}
        /\ UNCHANGED <<idle, ready, main, hand, signalled, return_list, lost>>
    BY <1>5 DEF Poll, pool, slot
  <2>2. WithMain' = WithMain
    BY <2>1 DEF WithMain, HandedOver
  <2>3. back = {}
    BY <2>1 DEF Positions, NoneLeft
  <2>4. CASE UsedIds = {} /\ thr' = "top" /\ UNCHANGED <<rec, back>>
    BY <2>1, <2>2, <2>4, NobodyMoves
  <2>5. CASE UsedIds # {}
    <3>1. PICK at \in [Ids -> SUBSET Slots] :
            /\ \A i \in Ids : \A s \in at[i] : rec[i][s] # NULL
            /\ rec' = [i \in Ids |-> Disconnected(rec[i], at[i])]
            /\ back' = UNION {{rec[i][s] : s \in at[i]} : i \in Ids}
      BY <1>5, <2>5 DEF Poll
    <3>2. \A i \in Ids, t \in Slots : rec'[i][t] = IF t \in at[i] THEN NULL ELSE rec[i][t]
      <4> SUFFICES ASSUME NEW i \in Ids, NEW t \in Slots
                   PROVE  rec'[i][t] = IF t \in at[i] THEN NULL ELSE rec[i][t]
        OBVIOUS
      <4>1. rec'[i] = Disconnected(rec[i], at[i]) /\ rec[i] \in Record
        BY <1>0, <3>1
      <4> HIDE DEF Slots
      <4>2. CASE t = "in"
        BY <4>1, <4>2 DEF Disconnected, Record
      <4>3. CASE t = "out"
        BY <4>1, <4>3 DEF Disconnected, Record
      <4> QED
        BY <4>2, <4>3 DEF Slots
    <3>3. \A i \in Ids, t \in Slots : rec'[i][t] # NULL => rec'[i][t] = rec[i][t] /\ t \notin at[i]
      BY <3>2
    <3>4. SlotsDiffer'
      <4> SUFFICES ASSUME NEW i \in Ids, NEW j \in Ids, NEW t \in Slots, NEW u \in Slots,
                          rec'[i][t] # NULL, rec'[i][t] = rec'[j][u]
                   PROVE  i = j /\ t = u
        BY DEF SlotsDiffer
      <4>1. rec'[i][t] = rec[i][t] /\ rec'[j][u] = rec[j][u]
        BY <3>3
      <4>2. rec[i][t] # NULL /\ rec[i][t] = rec[j][u]
        BY <4>1
      <4> QED
        BY <4>2 DEF SlotsDiffer
    <3>5. back' \subseteq InSessions
      BY <3>1 DEF InSessions
    <3>6. InSessions' \cap back' = {}
      <4> SUFFICES ASSUME NEW q \in InSessions', q \in back' PROVE FALSE
        OBVIOUS
      <4>1. PICK i \in Ids, t \in Slots : q = rec'[i][t] /\ q # NULL
        BY DEF InSessions
      <4>a. PICK j \in Ids : \E u \in at[j] : q = rec[j][u]
        BY <3>1
      <4>2. PICK u \in at[j] : q = rec[j][u]
        BY <4>a
      <4>3. u \in Slots /\ rec[i][t] = q /\ t \notin at[i]
        BY <3>1, <3>3, <4>1, <4>2
      <4>4. i = j /\ t = u
        BY <4>1, <4>2, <4>3 DEF SlotsDiffer
      <4> QED
        BY <4>2, <4>3, <4>4
    <3>7. InSessions' \cup back' = InSessions
      <4>1. InSessions' \subseteq InSessions
        BY <3>3 DEF InSessions
      <4>2. ASSUME NEW q \in InSessions, q \notin InSessions' PROVE q \in back'
        <5>1. PICK i \in Ids, t \in Slots : q = rec[i][t] /\ q # NULL
          BY DEF InSessions
        <5>2. t \in at[i]
          BY <3>2, <4>2, <5>1 DEF InSessions
        <5> QED
          BY <3>1, <5>1, <5>2
      <4> QED
        BY <3>5, <4>1, <4>2
    <3> QED
      BY <2>1, <2>2, <2>3, <3>4, <3>6, <3>7 DEF Parted, Apart
  <2> QED
    BY <1>5, <2>4, <2>5 DEF Poll
<1>6. CASE ReturnRequest
  <2>1. UNCHANGED <<idle, ready, main, hand, signalled, rec>> /\ thr = "return"
    BY <1>6 DEF ReturnRequest, pool, slot, records
  <2>2. PICK r \in back : Return(r)
    BY <1>6 DEF ReturnRequest
  <2>3. /\ back' = back \ {r} /\ thr' \in {"update", "return"}
        /\ \/ return_list' = return_list \cup {r} /\ lost' = lost
           \/ return_list' = return_list /\ lost' = lost \cup {r}
    BY <2>2 DEF Return
  <2>4. WithMain' = WithMain
    BY <2>1, <2>3 DEF WithMain, HandedOver
  <2> QED
    BY <2>1, <2>2, <2>3, <2>4, SameSessions DEF Parted, Apart
<1>7. CASE update_record
  <2>1. UNCHANGED <<idle, ready, main, hand, signalled, return_list, back, lost>>
        /\ thr = "update" /\ thr' \in {"top", "spin"}
    BY <1>7 DEF update_record, pool, slot
  <2>2. WithMain' = WithMain
    BY <2>1 DEF WithMain, HandedOver
  <2>3. \A i \in Ids, t \in Slots : rec'[i][t] = rec[i][t]
    <3> SUFFICES ASSUME NEW i \in Ids PROVE rec'[i].in = rec[i].in /\ rec'[i].out = rec[i].out
      BY DEF Slots
    <3>0. rec'[i] \in Updated(rec[i]) \cup {rec[i]} /\ RecordOK(rec[i]) /\ rec[i] \in Record
      BY <1>0, <1>7, UpdateChoices
    <3>a. CASE rec'[i] = rec[i]
      BY <3>a
    <3> SUFFICES ASSUME rec'[i] # rec[i] PROVE rec'[i].in = rec[i].in /\ rec'[i].out = rec[i].out
      BY <3>a
    <3>1. rec'[i] \in Updated(rec[i]) /\ RecordOK(rec[i]) /\ rec[i] \in Record
      BY <3>0
    <3>2. CASE rec[i].status = "ACTIVE"
      BY <3>1, <3>2 DEF Updated, incoming_hander, Ended, Record
    <3>3. CASE rec[i].status = "WAIT_CLOSE" /\ rec[i].flags \cap Connect = {}
      <4>1. rec'[i] = Cleared
        BY <3>1, <3>3 DEF Updated
      <4>2. rec[i].in = NULL /\ rec[i].out = NULL
        BY <3>1, <3>3 DEF RecordOK, Connect
      <4> QED
        BY <4>1, <4>2 DEF Cleared
    <3>4. CASE rec[i].status # "ACTIVE" /\ ~(rec[i].status = "WAIT_CLOSE" /\ rec[i].flags \cap Connect = {})
      BY <3>1, <3>4 DEF Updated
    <3> QED
      BY <3>2, <3>3, <3>4
  <2>4. InSessions' = InSessions /\ SlotsDiffer'
    BY <2>3 DEF InSessions, SlotsDiffer
  <2> QED
    BY <2>1, <2>2, <2>4 DEF Parted
<1> QED
  BY <1>1, <1>2, <1>3, <1>4, <1>5, <1>6, <1>7 DEF Thread

(* Every step keeps places disjoint, and the positions' meaning.           *)
LEMMA OwnersStep == IInv /\ OInv /\ [Next]_vars => OInv'
<1> SUFFICES ASSUME IInv, OInv, [Next]_vars, Sound' PROVE (Positions /\ Parted /\ SlotsDiffer)'
  BY DEF OInv
<1>1. CASE UNCHANGED vars
  <2>1. Positions /\ Parted /\ SlotsDiffer
    BY <1>1 DEF OInv, Sound, vars
  <2>2. WithMain' = WithMain
    BY <1>1 DEF WithMain, HandedOver, vars, pool, slot
  <2>3. Positions'
    BY <1>1, <2>1 DEF Positions, SlotBusy, SignalDue, SlotSet, InHand, NoneLeft, vars, pool, slot, restart
  <2> QED
    BY <1>1, <2>1, <2>2, <2>3, NobodyMoves DEF vars, pool, records
<1>2. CASE Next /\ ~Damaged /\ ~Spinning
  <2>1. Sound
    BY <1>2 DEF Next, Sound, TimesOut, MainLoop, Thread, Arrive, sigusr1, sigusr2, Signal, HandOver,
                Refuse, Visit, Take, Offer, TryLockFails, Woken, Remove, Taken, NotifyRestart,
                PendingEnds, start_rtsp_o_http_thread, ThreadTop, Lock, InsertRequest, SignalMain,
                Poll, ReturnRequest, update_record, IInv, TypeOK
  <2>2. Positions /\ Parted /\ SlotsDiffer
    BY <2>1 DEF OInv
  <2>3. \/ MainLoop \/ (\E r \in Requests : Arrive(r)) \/ sigusr1 \/ sigusr2
        \/ Thread
    BY <1>2 DEF Next
  <2> QED
    BY <2>1, <2>2, <2>3, MainPositions, MainParted, ThreadPositions, ThreadParted
<1> QED
  BY <1>1, <1>2 DEF Damaged, Spinning

(* So it always holds.                                                     *)
LEMMA OwnersInvariant == Spec => []OInv
  BY OwnersInit, OwnersStep, Inductive, PTL DEF Spec

(* For any number of requests and sessions: between the mutex, the slot,    *)
(* the unlocked return list and a restart, no request ever has two owners   *)
(* and none is without one, as long as no hand-over has timed out.          *)
THEOREM OwnersUnique == Spec => []OneOwner
<1>1. OInv => OneOwner
  <2> SUFFICES ASSUME OInv, ~torn /\ ~lapsed
               PROVE  /\ \A i, j \in 1 .. 6 : i # j => Places[i] \cap Places[j] = {}
                      /\ UNION {Places[i] : i \in 1 .. 6} = Requests
                      /\ \A p, q \in Ids \X Slots :
                           rec[p[1]][p[2]] # NULL /\ rec[p[1]][p[2]] = rec[q[1]][q[2]] => p = q
    BY DEF OneOwner
  <2>0. Parted /\ SlotsDiffer
    BY DEF OInv, Sound
  <2>1. /\ Places[1] = idle /\ Places[2] = WithMain /\ Places[3] = return_list
        /\ Places[4] = back /\ Places[5] = InSessions /\ Places[6] = lost
    BY DEF Places, WithMain
  <2>2. 1 .. 6 = {1, 2, 3, 4, 5, 6}
    OBVIOUS
  <2>3. \A i, j \in 1 .. 6 : i # j => Places[i] \cap Places[j] = {}
    BY <2>0, <2>1, <2>2 DEF Parted, Apart
  <2>4. UNION {Places[i] : i \in 1 .. 6} =
        Places[1] \cup Places[2] \cup Places[3] \cup Places[4] \cup Places[5] \cup Places[6]
    BY <2>2
  <2>5. UNION {Places[i] : i \in 1 .. 6} = Requests
    BY <2>0, <2>1, <2>4 DEF Parted, Apart
  <2>6. \A p, q \in Ids \X Slots :
          rec[p[1]][p[2]] # NULL /\ rec[p[1]][p[2]] = rec[q[1]][q[2]] => p = q
    BY <2>0 DEF SlotsDiffer
  <2> QED
    BY <2>3, <2>5, <2>6
<1> QED
  BY <1>1, OwnersInvariant, PTL
=============================================================================
