------------------------ MODULE SendDataApplProofs ------------------------
(***************************************************************************)
(* Proofs that the pool, the Security 0 sessions, the frame the chip has   *)
(* and the callbacks of the application stay consistent, for any number of *)
(* sessions, nodes and requests, any event queue length and any faults.    *)
(*                                                                         *)
(* The argument is that IInv is inductive.  PoolConsistent alone is not:   *)
(* CallbackEx frees the block that a low-level frame or a Security 0       *)
(* session points to, and only FrameLinks and Sec0SingleSession say that   *)
(* this is the block of the frame that holds the lock.                     *)
(***************************************************************************)
EXTENDS SendDataApplLemmas

\* A nonce report makes the session that waits for it send its next part, or
\* fail.
LEMMA RegisterNonceInv ==
  ASSUME IInv, NEW d \in Node, sec0_register_nonce(d)
  PROVE  IInv'
<1> USE DEF pause, chip, user, counters
<1> DEFINE cb(i) == IF NonceFor(i) = "ENC_MSG" THEN "msg1_callback"
                                               ELSE "msg2_callback"
<1>1. PICK i \in Active :
        /\ NonceFor(i) # "none"
        /\ \/ \E n \in Slot :
                /\ memb_alloc(n, Slot, used)
                /\ send_data(n, cb(i), i, sess[tx_sessions[i].user].req, FALSE)
                /\ tx_sessions' = [tx_sessions EXCEPT
                     ![i] = Moved(i, NonceFor(i), tx_sessions[i].left - 1, FALSE)]
                /\ evq' = Post(evq, "SEND_NEXT_LL")
                /\ UNCHANGED <<lock, pause, user>>
           \/ /\ tx_sessions' = [tx_sessions EXCEPT ![i] = Ended(i, "TX_FAIL")]
              /\ CallbackEx(tx_sessions[i].user, "FAIL", FALSE, {}, evq, FALSE)
              /\ UNCHANGED <<sess, ll>>
        /\ UNCHANGED <<session_list, current_session, learn, chip, handle, acked,
                       aborted, counters>>
  BY Zenon DEF sec0_register_nonce
<1>2. aborted \subseteq Request /\ aborts \in Nat
  BY DEF IInv, TypeOK
<1>3. CASE /\ tx_sessions' = [tx_sessions EXCEPT ![i] = Ended(i, "TX_FAIL")]
           /\ CallbackEx(tx_sessions[i].user, "FAIL", FALSE, {}, evq, FALSE)
           /\ UNCHANGED <<sess, ll>>
  BY <1>1, <1>2, <1>3, SessionFails, ZenonT(40)
<1>4. ASSUME NEW n \in Slot, memb_alloc(n, Slot, used),
             send_data(n, cb(i), i, sess[tx_sessions[i].user].req, FALSE),
             tx_sessions' = [tx_sessions EXCEPT
               ![i] = Moved(i, NonceFor(i), tx_sessions[i].left - 1, FALSE)],
             evq' = Post(evq, "SEND_NEXT_LL"), UNCHANGED <<lock, pause, user>>
      PROVE  IInv'
  <2> DEFINE new == Moved(i, NonceFor(i), tx_sessions[i].left - 1, FALSE)
             r == sess[current_session].req
  <2>1. /\ i \in Tx /\ lock /\ tx_sessions[i].user = current_session
        /\ r \in Request /\ n \notin used
    BY <1>4, LockFacts, Zenon DEF memb_alloc
  <2>2. /\ tx_sessions \in [Tx -> TxSession] /\ tx_sessions[i] \in TxSession
        /\ \A j \in Active : j = i
    BY <2>1 DEF IInv, TypeOK, Sec0SingleSession
  <2>3. tx_sessions[i].left > 0 /\ tx_sessions[i].left \in 0..2
    BY <1>1, <2>2 DEF IInv, TimerLinks, TxSession
  <2>4. tx_sessions[i].left - 1 \in 0..2 /\ FALSE \in BOOLEAN
    BY <2>3
  <2>5. NonceFor(i) \in {"ENC_MSG", "ENC_MSG2"} /\ NonceFor(i) \in TxState
    BY <1>1 DEF NonceFor, TxState
  <2>6. /\ new \in TxSession /\ new.dnode = tx_sessions[i].dnode
        /\ new.user = tx_sessions[i].user /\ new.left = tx_sessions[i].left - 1
        /\ new.state = NonceFor(i) /\ new.timer = FALSE
    <3> DEFINE m == tx_sessions[i].left - 1
               st == NonceFor(i)
    <3>1. m \in 0..2 /\ st \in TxState /\ new = Moved(i, st, m, FALSE)
      BY <2>4, <2>5
    <3>2. /\ Moved(i, st, m, FALSE) \in TxSession
          /\ Moved(i, st, m, FALSE).dnode = tx_sessions[i].dnode
          /\ Moved(i, st, m, FALSE).user = tx_sessions[i].user
          /\ Moved(i, st, m, FALSE).left = m /\ Moved(i, st, m, FALSE).state = st
          /\ Moved(i, st, m, FALSE).timer = FALSE
      <4> HIDE DEF m, st, new
      <4> QED
        BY <2>1, <2>2, <2>4, <3>1, MovedFacts, ZenonT(40)
    <3> QED
      BY <3>2, Zenon
  <2> HIDE DEF new
  <2>7. /\ tx_sessions'[i] = new
        /\ \A j \in Tx \ {i} : tx_sessions'[j] = tx_sessions[j]
        /\ tx_sessions' \in [Tx -> TxSession]
    BY <1>4, <2>1, <2>2, <2>6, Zenon DEF new
  <2>8. Active' = Active
    BY <2>1, <2>6, <2>7 DEF Active
  <2>9. /\ cb(i) \in Callback \ {"user"} /\ i \in Nat /\ r \in Request \cup {0}
        /\ cb(i) \in {"msg1_callback", "msg2_callback"} /\ FALSE \in BOOLEAN
    BY <2>1, SizesAssumption DEF Callback, Tx
  <2> HIDE DEF r, cb
  <2>10. /\ n \notin ToSet(session_list) /\ n \notin ToSet(send_data_list)
         /\ n # current_session
         /\ used' = used \cup {n} /\ used' \subseteq Slot
         /\ sess' \in [Slot -> Session]
         /\ sess'[n] = [cb |-> cb(i), user |-> i, req |-> r, discard |-> FALSE]
         /\ \A s \in Slot \ {n} : sess'[s] = sess[s]
         /\ send_data_list' \in Seq(Slot) /\ IsInjective(send_data_list')
         /\ ToSet(send_data_list') = ToSet(send_data_list) \cup {n}
         /\ discard' \subseteq Slot /\ discard' \subseteq ToSet(send_data_list')
         /\ UNCHANGED <<lock_ll, current_session_ll, emergency>>
         /\ ChipHasHead'
    <3>1. send_data(n, cb(i), i, r, FALSE)
      BY <1>4, <2>1, Zenon DEF r
    <3>2. Queued(n, cb(i), i, r, FALSE)
      BY <2>1, <2>9, <3>1, SendDataFacts, Zenon
    <3> QED
      BY <2>1, <3>2, ZenonT(40) DEF Queued
  <2>11. TypeOK'
    <3>1. evq' \in Seq(Event)
      BY <1>4, PostType, Zenon DEF Event, IInv, TypeOK
    <3> QED
      BY <1>1, <1>4, <2>7, <2>10, <3>1, ZenonT(40) DEF IInv, TypeOK
  <2>12. PoolConsistent'
    BY <1>1, <1>4, <2>10, ZenonT(40) DEF IInv, PoolConsistent
  <2>13. Sec0SingleSession'
    BY <1>1, <1>4, <2>1, <2>2, <2>6, <2>7, <2>8, ZenonT(40) DEF Sec0SingleSession
  <2>14. CalledOnce'
    BY <1>4, Zenon DEF IInv, CalledOnce
  <2>15. RequestLinks'
    <3>1. Live' = Live /\ Live \subseteq Slot /\ n \notin Live
      BY <1>1, <1>4, <2>1, <2>10, LockFacts DEF Live, IInv, TypeOK
    <3>2. \A s \in Live : sess'[s] = sess[s]
      BY <2>10, <3>1, ZenonT(40)
    <3>3. UNCHANGED <<result, handle>>
      BY <1>1, <1>4, Zenon
    <3> QED
      BY <3>1, <3>2, <3>3 DEF IInv, RequestLinks
  <2>16. FrameLinks'
    <3>1. ToSet(send_data_list) \subseteq Slot \ {n}
      BY <2>10, LockFacts DEF IInv, TypeOK
    <3>2. ASSUME NEW s \in ToSet(send_data_list)
          PROVE  /\ sess[s].cb # "user" /\ sess[s].cb # "CallbackEx"
                 /\ sess[s].cb # "none" => sess[s].req \in Request
                 /\ Awaits(sess[s].cb) # "none" =>
                      /\ sess[s].user \in Tx
                      /\ \/ sess[s].user \in Active'
                         \/ tx_sessions'[sess[s].user].state \in {"TX_DONE", "TX_FAIL"}
      BY <2>7, <2>8, ZenonT(40) DEF IInv, FrameLinks
    <3>3. /\ sess'[n].cb \notin {"user", "CallbackEx"} /\ sess'[n].req \in Request
          /\ sess'[n].user \in Tx /\ sess'[n].user \in Active'
      BY <2>1, <2>8, <2>9, <2>10 DEF r
    <3> QED
      BY <2>10, <3>1, <3>2, <3>3 DEF FrameLinks, Awaits
  <2>17. TimerLinks'
    <3>1. \A j \in Tx : tx_sessions'[j].timer => j \in Active'
      BY <2>6, <2>7, <2>8 DEF IInv, TimerLinks
    <3>2. tx_sessions'[i].left > 0 \/ NonceFor(i)' = "none"
      <4>1. CASE NonceFor(i) = "ENC_MSG2"
        BY <2>6, <2>7, <4>1 DEF NonceFor
      <4>2. CASE NonceFor(i) = "ENC_MSG"
        <5>1. tx_sessions'[i].left \in Nat
          BY <2>1, <2>7 DEF TxSession
        <5> QED
          BY <2>6, <2>7, <4>2, <5>1 DEF NonceFor
      <4> QED
        BY <2>5, <4>1, <4>2
    <3>3. \A j \in Active' : tx_sessions'[j].left > 0 \/ NonceFor(j)' = "none"
      BY <2>2, <2>8, <3>2
    <3> QED
      BY <1>1, <2>10, <3>1, <3>3, ZenonT(40) DEF IInv, TimerLinks
  <2> QED
    BY <2>10, <2>11, <2>12, <2>13, <2>14, <2>15, <2>16, <2>17 DEF IInv
<1> QED
  BY <1>1, <1>3, <1>4, ZenonT(40)

\* A request joins the application queue, or finds the pool empty.
LEMMA SendDataApplInv ==
  ASSUME IInv, NEW r \in Request, ZW_SendDataAppl(r)
  PROVE  IInv'
<1> USE DEF ll, pause, chip, counters
<1>1. /\ result[r] = "idle"
      /\ UNCHANGED <<lock, current_session, ll, pause, tx_sessions, learn, chip,
                     calls, acked, aborted, counters>>
  BY DEF ZW_SendDataAppl
<1>2. /\ result \in [Request -> Result] /\ handle \in [Request -> Slot \cup {0}]
      /\ sess \in [Slot -> Session] /\ session_list \in Seq(Slot)
      /\ IsInjective(session_list) /\ evq \in Seq(Event)
  BY DEF IInv, TypeOK, PoolConsistent
<1>3. Sec0SingleSession' /\ ChipHasHead'
  BY <1>1, Zenon DEF IInv, Sec0SingleSession, Active, ChipHasHead
<1>4. TimerLinks'
  BY <1>1 DEF IInv, TimerLinks, Active, NonceFor
<1>5. CASE /\ result' = [result EXCEPT ![r] = "rejected"]
           /\ UNCHANGED <<used, sess, session_list, evq, handle>>
  <2>1. \A x \in Request : result'[x] = IF x = r THEN "rejected" ELSE result[x]
    BY <1>2, <1>5
  <2>2. result' \in [Request -> Result]
    BY <1>2, <1>5 DEF Result
  <2>3. TypeOK'
    BY <1>1, <1>5, <2>2 DEF IInv, TypeOK
  <2>4. PoolConsistent'
    BY <1>1, <1>5 DEF IInv, PoolConsistent
  <2>5. CalledOnce'
    BY <1>1, <2>1 DEF IInv, CalledOnce
  <2>6. RequestLinks'
    BY <1>1, <1>5, <2>1 DEF IInv, RequestLinks, Live
  <2>7. FrameLinks'
    BY <1>1, <1>5 DEF IInv, FrameLinks, Active, Awaits
  <2> QED
    BY <1>3, <1>4, <2>3, <2>4, <2>5, <2>6, <2>7 DEF IInv
<1>6. ASSUME NEW s \in Slot, memb_alloc(s, Slot, used), used' = used \cup {s},
             sess' = [sess EXCEPT ![s] = [cb |-> "user", user |-> 0, req |-> r,
                                          discard |-> FALSE]],
             session_list' = Append(session_list, s),
             evq' = Post(evq, "SEND_NEXT"),
             handle' = [handle EXCEPT ![r] = s],
             result' = [result EXCEPT ![r] = "pending"]
      PROVE  IInv'
  <2>1. /\ s \notin used /\ s \notin ToSet(session_list)
        /\ s \notin ToSet(send_data_list) /\ (lock => s # current_session)
    BY <1>6, LockFacts DEF memb_alloc
  <2>2. /\ session_list' \in Seq(Slot) /\ IsInjective(session_list')
        /\ ToSet(session_list') = ToSet(session_list) \cup {s}
    BY <1>2, <1>6, <2>1, AppendElements
  <2>3. \A x \in Request : /\ result'[x] = IF x = r THEN "pending" ELSE result[x]
                           /\ handle'[x] = IF x = r THEN s ELSE handle[x]
    BY <1>2, <1>6
  <2>4. /\ result' \in [Request -> Result] /\ handle' \in [Request -> Slot \cup {0}]
    BY <1>2, <1>6 DEF Result
  <2>5. /\ sess' \in [Slot -> Session] /\ sess'[s].req = r
        /\ \A t \in Slot \ {s} : sess'[t] = sess[t]
    <3>1. [cb |-> "user", user |-> 0, req |-> r, discard |-> FALSE] \in Session
      BY DEF Session, Callback
    <3> QED
      BY <1>2, <1>6, <3>1
  <2>6. TypeOK'
    <3>1. evq' \in Seq(Event)
      BY <1>2, <1>6, PostType DEF Event
    <3> QED
      BY <1>1, <1>6, <2>2, <2>4, <2>5, <3>1, ZenonT(40) DEF IInv, TypeOK
  <2>7. PoolConsistent'
    BY <1>1, <1>6, <2>1, <2>2 DEF IInv, PoolConsistent
  <2>8. CalledOnce'
    BY <1>1, <2>3 DEF IInv, CalledOnce
  <2>9. RequestLinks'
    <3>1. /\ Live' = Live \cup {s} /\ Live \subseteq Slot \ {s}
      BY <1>1, <2>1, <2>2, LockFacts DEF Live, IInv, TypeOK
    <3>2. \A t \in Live : sess'[t] = sess[t] /\ sess[t].req # r
      BY <1>1, <2>5, <3>1, ZenonT(40) DEF IInv, RequestLinks
    <3> QED
      BY <2>3, <2>5, <3>1, <3>2 DEF IInv, RequestLinks
  <2>10. FrameLinks'
    <3>1. \A t \in ToSet(send_data_list) : sess'[t] = sess[t]
      BY <2>1, <2>5, LockFacts DEF IInv, TypeOK
    <3> QED
      BY <1>1, <3>1 DEF IInv, FrameLinks, Active, Awaits
  <2> QED
    BY <1>3, <1>4, <2>6, <2>7, <2>8, <2>9, <2>10 DEF IInv
<1> QED
  BY <1>5, <1>6 DEF ZW_SendDataAppl

\* An abort fails the Security 0 session of the frame in progress, or takes the
\* frame out of the application queue.
LEMMA AbortInv ==
  ASSUME IInv, NEW r \in Request, ZW_SendDataApplAbort(r)
  PROVE  IInv'
<1> USE DEF ll, pause, chip, user
<1>1. /\ result[r] = "pending" /\ aborted' = aborted \cup {r} /\ aborts' = aborts + 1
      /\ UNCHANGED <<sess, current_session, ll, learn, chip, handle, acked, nonces,
                     resets>>
  BY DEF ZW_SendDataApplAbort
<1>2. aborted' \subseteq Request /\ aborts' \in Nat
  BY <1>1 DEF IInv, TypeOK
<1>3. CASE AbortCurrent(r) /\ Active = {}
  <2>1. tx_sessions \in [Tx -> TxSession]
    BY DEF IInv, TypeOK
  <2>2. UNCHANGED <<tx_sessions, used, evq, lock, backoff, backoff_node, result, calls,
                    session_list>>
    BY <1>3, <2>1, ZenonT(40) DEF AbortCurrent, Ignored, PostIf
  <2>3. TypeOK'
    BY <1>1, <1>2, <2>2 DEF IInv, TypeOK
  <2>4. PoolConsistent'
    BY <1>1, <2>2 DEF IInv, PoolConsistent
  <2>5. Sec0SingleSession' /\ ChipHasHead' /\ CalledOnce'
    BY <1>1, <2>2 DEF IInv, Sec0SingleSession, Active, ChipHasHead, CalledOnce
  <2>6. RequestLinks'
    BY <1>1, <2>2, Zenon DEF IInv, RequestLinks, Live
  <2>7. FrameLinks' /\ TimerLinks'
    BY <1>1, <2>2 DEF IInv, FrameLinks, TimerLinks, Active, Awaits, NonceFor
  <2> QED
    BY <2>3, <2>4, <2>5, <2>6, <2>7 DEF IInv
<1>4. CASE AbortCurrent(r) /\ Active # {}
  <2> DEFINE i == CHOOSE i \in Active : \A j \in Active : i <= j
  <2>1. PICK k \in Active : TRUE
    BY <1>4
  <2>2. k \in Nat /\ \A j \in Active : j = k
    BY <2>1, SizesAssumption DEF IInv, Sec0SingleSession, Active, Tx
  <2>3. i \in Active
    <3>1. \E x \in Active : \A j \in Active : x <= j
      BY <2>2
    <3> QED
      BY <3>1
  <2> HIDE DEF i
  <2>4. Active = {i}
    BY <2>2, <2>3, Zenon
  <2>5. tx_sessions' = [tx_sessions EXCEPT ![i] = Ended(i, "TX_FAIL")]
    BY <1>4, <2>4, Zenon DEF AbortCurrent, IInv, TypeOK
  <2>6. /\ CallbackEx(tx_sessions[i].user, "FAIL", FALSE, {}, evq, FALSE)
        /\ UNCHANGED session_list
    BY <1>4, Zenon DEF AbortCurrent, i
  <2> QED
    BY <1>1, <1>2, <2>3, <2>5, <2>6, SessionFails, Zenon
<1>5. CASE AbortQueued(r)
  <2> DEFINE h == handle[r]
  <2>1. /\ h \in ToSet(session_list) /\ used' = used \ {h}
        /\ session_list' = list_remove(session_list, h)
        /\ result' = [result EXCEPT ![r] = "FAIL"]
        /\ calls' = [calls EXCEPT ![r] = @ + 1]
        /\ UNCHANGED <<lock, evq, pause, tx_sessions>>
    BY <1>5 DEF AbortQueued
  <2>2. /\ session_list \in Seq(Slot) /\ IsInjective(session_list)
        /\ result \in [Request -> Result] /\ calls \in [Request -> Nat]
    BY DEF IInv, TypeOK, PoolConsistent
  <2> HIDE DEF h
  <2>3. /\ session_list' \in Seq(Slot) /\ IsInjective(session_list')
        /\ ToSet(session_list') = ToSet(session_list) \ {h}
    BY <2>1, <2>2, RemoveElements
  <2>4. \A x \in Request : /\ result'[x] = IF x = r THEN "FAIL" ELSE result[x]
                           /\ calls'[x] = IF x = r THEN calls[x] + 1 ELSE calls[x]
    BY <2>1, <2>2
  <2>5. result' \in [Request -> Result] /\ calls' \in [Request -> Nat]
    BY <2>1, <2>2 DEF Result
  <2>6. TypeOK'
    BY <1>1, <1>2, <2>1, <2>3, <2>5, ZenonT(40) DEF IInv, TypeOK
  <2>7. PoolConsistent'
    BY <1>1, <2>1, <2>3 DEF IInv, PoolConsistent
  <2>8. Sec0SingleSession' /\ ChipHasHead'
    BY <1>1, <2>1 DEF IInv, Sec0SingleSession, Active, ChipHasHead
  <2>9. CalledOnce'
    BY <1>1, <2>4 DEF IInv, CalledOnce
  <2>10. RequestLinks'
    <3>1. Live' = Live \ {h} /\ sess[h].req = r
      BY <1>1, <2>1, <2>3, SMTT(60) DEF Live, IInv, PoolConsistent, RequestLinks, h
    <3>2. h \in Live
      BY <2>1 DEF Live
    <3> QED
      BY <1>1, <2>4, <3>1, <3>2, SMTT(60) DEF IInv, RequestLinks
  <2>11. FrameLinks' /\ TimerLinks'
    BY <1>1, <2>1 DEF IInv, FrameLinks, TimerLinks, Active, Awaits, NonceFor
  <2> QED
    BY <2>6, <2>7, <2>8, <2>9, <2>10, <2>11 DEF IInv
<1> QED
  BY <1>3, <1>4, <1>5 DEF ZW_SendDataApplAbort

\* The head of the application queue is popped and becomes current_session.
LEMMA PopApplFacts ==
  ASSUME IInv, ~lock, session_list # <<>>, NEW s, s = Head(session_list),
         session_list' = Tail(session_list), current_session' = s
  PROVE  /\ s \in Slot /\ s \in used /\ s \in Live
         /\ s \notin ToSet(send_data_list)
         /\ session_list' \in Seq(Slot) /\ IsInjective(session_list')
         /\ ToSet(session_list') = ToSet(session_list) \ {s}
         /\ Live = ToSet(session_list) /\ Live \subseteq Slot
         /\ Active = {}
         /\ \A t \in ToSet(send_data_list) : sess[t].cb # "CallbackEx"
<1>1. session_list \in Seq(Slot) /\ IsInjective(session_list)
  BY DEF IInv, TypeOK, PoolConsistent
<1>2. /\ s \in Slot /\ s \in ToSet(session_list)
      /\ session_list' \in Seq(Slot) /\ IsInjective(session_list')
      /\ ToSet(session_list') = ToSet(session_list) \ {s}
  BY <1>1, TailElements
<1>3. Live = ToSet(session_list) /\ Live \subseteq Slot
  BY LockFacts DEF Live, IInv, TypeOK
<1>4. Active = {} /\ \A t \in ToSet(send_data_list) : sess[t].cb # "CallbackEx"
  BY ZenonT(40) DEF IInv, Sec0SingleSession, FrameLinks
<1> QED
  BY <1>2, <1>3, <1>4, ZenonT(40) DEF IInv, PoolConsistent

\* An application frame that cannot be sent completes at once with an error.
LEMMA SendFailed ==
  ASSUME IInv, ~lock, session_list # <<>>, NEW s, s = Head(session_list),
         session_list' = Tail(session_list), current_session' = s,
         NEW status \in {"FAIL", "ERROR"}, Take("SEND_NEXT"),
         Completed(s, status, FALSE, {}, Tail(evq), FALSE),
         tx_sessions' \in [Tx -> TxSession], Active' = {}, TxTimers',
         \A i \in Tx : tx_sessions'[i] = tx_sessions[i]
                         \/ tx_sessions'[i].state = "TX_FAIL",
         UNCHANGED <<sess, ll, learn, chip, handle, acked, aborted, counters>>
  PROVE  IInv'
<1> USE DEF ll, chip, counters
<1>1. /\ s \in Slot /\ s \in used /\ s \in Live
      /\ s \notin ToSet(send_data_list)
      /\ session_list' \in Seq(Slot) /\ IsInjective(session_list')
      /\ ToSet(session_list') = ToSet(session_list) \ {s}
      /\ Live = ToSet(session_list) /\ Active = {}
      /\ \A t \in ToSet(send_data_list) : sess[t].cb # "CallbackEx"
  BY PopApplFacts, ZenonT(40)
<1>2. Tail(evq) \in Seq(Event) /\ status \in {"OK", "FAIL", "ERROR"}
      /\ FALSE \in BOOLEAN
  BY TakeFacts
<1>3. /\ lock' = FALSE /\ used' = used \ ({} \cup {s})
      /\ evq' \in Seq(Event)
      /\ backoff' \in {"expired", "running", "orphaned"}
      /\ backoff_node' \in Node \cup {0}
      /\ result' \in [Request -> Result] /\ calls' \in [Request -> Nat]
      /\ result' = [result EXCEPT ![sess[s].req] = status]
      /\ CalledOnce'
  BY <1>1, <1>2, CompletedFacts, Zenon
<1>4. TypeOK'
  BY <1>1, <1>3, Zenon DEF IInv, TypeOK
<1>5. PoolConsistent'
  BY <1>1, <1>3, ZenonT(40) DEF IInv, PoolConsistent
<1>6. Sec0SingleSession' /\ ChipHasHead'
  BY ZenonT(40) DEF IInv, Sec0SingleSession, ChipHasHead
<1>7. RequestLinks'
  <2>1. Live' = Live \ {s}
    BY <1>1, <1>3, Zenon DEF Live
  <2>2. \A x \in Request : result'[x] = IF x = sess[s].req THEN status ELSE result[x]
    BY <1>3 DEF IInv, TypeOK
  <2> QED
    BY <1>1, <2>1, <2>2, SMTT(60) DEF IInv, RequestLinks
<1>8. FrameLinks'
  <2>1. \A t \in ToSet(send_data_list) : Awaits(sess[t].cb) # "none" =>
          /\ sess[t].user \in Tx
          /\ tx_sessions'[sess[t].user].state \in {"TX_DONE", "TX_FAIL"}
    BY <1>1, ZenonT(40) DEF IInv, FrameLinks
  <2> QED
    BY <1>1, <2>1 DEF IInv, FrameLinks, Awaits
<1>9. TimerLinks'
  BY ZenonT(40) DEF IInv, TimerLinks, TxTimers
<1> QED
  BY <1>3, <1>4, <1>5, <1>6, <1>7, <1>8, <1>9 DEF IInv

\* An application frame puts its first low-level frame in block n: the frame
\* itself, or the request for a nonce of the Security 0 session arg.
LEMMA SendStarted ==
  ASSUME IInv, ~lock, session_list # <<>>, NEW s, s = Head(session_list),
         session_list' = Tail(session_list), current_session' = s, lock' = TRUE,
         NEW n \in Slot, n \notin used, NEW arg \in Nat,
         NEW cb \in {"CallbackEx", "noce_get_callback"},
         send_data(n, cb, arg, sess[s].req, FALSE),
         Take("SEND_NEXT"), evq' = Post(Tail(evq), "SEND_NEXT_LL"),
         tx_sessions' \in [Tx -> TxSession], TxTimers',
         cb = "CallbackEx" => arg = s /\ UNCHANGED tx_sessions,
         cb = "noce_get_callback" =>
           /\ arg \in Tx /\ Active' = {arg} /\ tx_sessions'[arg].user = s
           /\ \A i \in Tx \ {arg} : tx_sessions'[i] = tx_sessions[i],
         UNCHANGED <<pause, user, learn, chip, handle, acked, aborted, counters>>
  PROVE  IInv'
<1> USE DEF pause, user, chip, counters
<1>1. /\ s \in Slot /\ s \in used /\ s \in Live
      /\ s \notin ToSet(send_data_list)
      /\ session_list' \in Seq(Slot) /\ IsInjective(session_list')
      /\ ToSet(session_list') = ToSet(session_list) \ {s}
      /\ Live = ToSet(session_list) /\ Live \subseteq Slot /\ Active = {}
      /\ \A t \in ToSet(send_data_list) : sess[t].cb # "CallbackEx"
  BY PopApplFacts
<1>2. sess[s].req \in Request
  BY <1>1 DEF IInv, RequestLinks
<1>3. /\ cb \in Callback \ {"user"} /\ sess[s].req \in Request \cup {0}
      /\ FALSE \in BOOLEAN
  BY <1>2, ZenonT(40) DEF Callback
<1>4. /\ n \notin ToSet(session_list) /\ n \notin ToSet(send_data_list)
      /\ used' = used \cup {n} /\ used' \subseteq Slot
      /\ sess' \in [Slot -> Session]
      /\ sess'[n] = [cb |-> cb, user |-> arg, req |-> sess[s].req,
                     discard |-> FALSE]
      /\ \A t \in Slot \ {n} : sess'[t] = sess[t]
      /\ send_data_list' \in Seq(Slot) /\ IsInjective(send_data_list')
      /\ ToSet(send_data_list') = ToSet(send_data_list) \cup {n}
      /\ discard' \subseteq Slot /\ discard' \subseteq ToSet(send_data_list')
      /\ UNCHANGED <<lock_ll, current_session_ll, emergency>>
      /\ ChipHasHead'
  <2> DEFINE r == sess[s].req
  <2>1. r \in Request \cup {0} /\ send_data(n, cb, arg, r, FALSE)
    BY <1>3, Zenon
  <2>2. Queued(n, cb, arg, r, FALSE)
    <3> HIDE DEF r
    <3> QED
      BY <1>3, <2>1, SendDataFacts, ZenonT(40)
  <2> QED
    BY <2>2, ZenonT(40) DEF Queued
<1>5. n # s
  BY <1>1
<1>6. TypeOK'
  <2>1. evq' \in Seq(Event)
    BY TakeFacts, PostType, Zenon DEF Event
  <2> QED
    BY <1>1, <1>4, <2>1 DEF IInv, TypeOK
<1>7. PoolConsistent'
  BY <1>1, <1>4, <1>5, SMTT(60) DEF IInv, PoolConsistent
<1>8. Sec0SingleSession'
  <2>1. CASE cb = "CallbackEx"
    BY <1>1, <2>1 DEF Sec0SingleSession, Active
  <2>2. CASE cb = "noce_get_callback"
    BY <2>2 DEF Sec0SingleSession
  <2> QED
    BY <2>1, <2>2
<1>9. CalledOnce'
  BY DEF IInv, CalledOnce
<1>10. RequestLinks'
  <2>1. Live' = Live /\ n \notin Live
    BY <1>1, <1>4, SMTT(60) DEF Live
  <2>2. \A t \in Live : sess'[t] = sess[t]
    BY <1>1, <1>4, <2>1, ZenonT(40)
  <2> QED
    BY <2>1, <2>2, SMTT(60) DEF IInv, RequestLinks
<1>11. FrameLinks'
  <2>1. ASSUME NEW t \in ToSet(send_data_list)
        PROVE  /\ sess'[t] = sess[t] /\ t # n
               /\ sess[t].cb # "user" /\ sess[t].cb # "CallbackEx"
               /\ sess[t].cb # "none" => sess[t].req \in Request
               /\ Awaits(sess[t].cb) # "none" =>
                    /\ sess[t].user \in Tx
                    /\ \/ sess[t].user \in Active'
                       \/ tx_sessions'[sess[t].user].state \in {"TX_DONE", "TX_FAIL"}
    <3>1. sess'[t] = sess[t] /\ t # n
      BY <1>4, LockFacts DEF IInv, TypeOK
    <3>2. Awaits(sess[t].cb) # "none" =>
            /\ sess[t].user \in Tx
            /\ tx_sessions[sess[t].user].state \in {"TX_DONE", "TX_FAIL"}
      BY <1>1, Zenon DEF IInv, FrameLinks
    <3> QED
      BY <1>1, <3>1, <3>2, ZenonT(40) DEF IInv, FrameLinks
  <2>2. CASE cb = "CallbackEx"
    <3>1. Active' = {} /\ sess'[n].user = s /\ sess'[n].cb = cb
          /\ sess'[n].req \in Request
      BY <1>1, <1>2, <1>4, <2>2, SMTT(60) DEF Active
    <3> QED
      BY <1>4, <2>1, <2>2, <3>1 DEF FrameLinks, Awaits
  <2>3. CASE cb = "noce_get_callback"
    <3>1. /\ sess'[n].user \in Active' /\ sess'[n].user \in Tx /\ sess'[n].cb = cb
          /\ sess'[n].req \in Request
      BY <1>2, <1>4, <2>3, SMTT(60)
    <3> QED
      BY <1>4, <2>1, <2>3, <3>1, Zenon DEF FrameLinks, Awaits
  <2> QED
    BY <2>2, <2>3
<1>12. TimerLinks'
  BY <1>4, Zenon DEF IInv, TimerLinks, TxTimers
<1> QED
  BY <1>4, <1>6, <1>7, <1>8, <1>9, <1>10, <1>11, <1>12 DEF IInv

\* The application queue is served without a security scheme.
LEMMA SendPlainInv ==
  ASSUME IInv, ~lock, session_list # <<>>, NEW s, s = Head(session_list),
         session_list' = Tail(session_list), current_session' = s,
         Take("SEND_NEXT"), SendPlain(s),
         UNCHANGED <<learn, chip, handle, acked, aborted, counters>>
  PROVE  IInv'
<1>1. UNCHANGED tx_sessions
  BY DEF SendPlain
<1>2. /\ tx_sessions' \in [Tx -> TxSession] /\ Active' = Active /\ TxTimers'
      /\ \A i \in Tx : tx_sessions'[i] = tx_sessions[i]
  BY <1>1, TxUnchanged
<1>3. s \in Slot /\ s \in Nat /\ Active' = {}
  BY <1>2, PopApplFacts, SizesAssumption DEF Slot
<1>4. ASSUME NEW n \in Slot, memb_alloc(n, Slot, used),
             send_data(n, "CallbackEx", s, sess[s].req, FALSE),
             lock' = TRUE, evq' = Post(Tail(evq), "SEND_NEXT_LL"),
             UNCHANGED <<pause, user>>
      PROVE  IInv'
  <2> DEFINE cb == "CallbackEx"
  <2>1. /\ n \notin used /\ cb \in {"CallbackEx", "noce_get_callback"}
        /\ cb = "CallbackEx" => s = s /\ UNCHANGED tx_sessions
        /\ cb # "noce_get_callback" /\ send_data(n, cb, s, sess[s].req, FALSE)
    BY <1>1, <1>4, ZenonT(40) DEF memb_alloc
  <2> HIDE DEF cb
  <2> QED
    BY <1>2, <1>3, <1>4, <2>1, SendStarted, Zenon
<1>5. CASE /\ Completed(s, "ERROR", FALSE, {}, Tail(evq), FALSE)
           /\ UNCHANGED <<sess, ll>>
  BY <1>2, <1>3, <1>5, SendFailed, Zenon
<1> QED
  BY <1>4, <1>5, ZenonT(40) DEF SendPlain

\* A session that fails is still a session.
LEMMA FailedRecord ==
  ASSUME NEW x \in TxSession
  PROVE  LET y == [x EXCEPT !.dnode = 0, !.state = "TX_FAIL", !.timer = FALSE]
         IN  /\ y \in TxSession /\ y.dnode = 0 /\ y.state = "TX_FAIL"
             /\ y.timer = FALSE
BY Zenon DEF TxSession, TxState

\* The application queue is served with Security 0: a session is taken, or
\* there is none, or its first frame finds no block.
LEMMA Sec0SendDataInv ==
  ASSUME IInv, ~lock, session_list # <<>>, NEW s, s = Head(session_list),
         session_list' = Tail(session_list), current_session' = s,
         Take("SEND_NEXT"), sec0_send_data(s),
         UNCHANGED <<learn, chip, handle, acked, aborted, counters>>
  PROVE  IInv'
<1> DEFINE d == Job[sess[s].req].dnode
           busy == Active = Tx \/ \E i \in Active : tx_sessions[i].dnode = d
           i == CHOOSE i \in Tx \ Active : \A j \in Tx \ Active : i <= j
           new == [dnode |-> d, state |-> "NONCE_GET", user |-> s,
                   left |-> IF Job[sess[s].req].long THEN 2 ELSE 1,
                   timer |-> NonceGetTimer]
           failed == [new EXCEPT !.dnode = 0, !.state = "TX_FAIL", !.timer = FALSE]
<1>1. /\ s \in Slot /\ s \in Live /\ Active = {} /\ sess[s].req \in Request
      /\ tx_sessions \in [Tx -> TxSession]
  BY PopApplFacts DEF IInv, TypeOK, RequestLinks
<1>2. 1 \in Tx /\ \A j \in Tx : j \in Nat /\ 1 <= j
  BY SizesAssumption DEF Tx
<1>3. i \in Tx /\ i \in Nat
  <2>1. \E x \in Tx \ Active : \A j \in Tx \ Active : x <= j
    BY <1>1, <1>2
  <2>2. i \in Tx
    BY <2>1
  <2> HIDE DEF i
  <2> QED
    BY <1>2, <2>2
<1>4. ~busy
  BY <1>1, <1>2
<1>5. d \in Nat /\ d # 0
  BY <1>1, JobAssumption, NodeAssumption, Zenon DEF JobType
<1>6. NonceGetTimer \in BOOLEAN
  BY DEF NonceGetTimer, IInv, TypeOK
<1>7. /\ new \in TxSession /\ new.dnode = d /\ new.user = s /\ new.left > 0
  <2>1. (IF Job[sess[s].req].long THEN 2 ELSE 1) \in 1..2
    OBVIOUS
  <2> HIDE DEF d
  <2> QED
    BY <1>1, <1>5, <1>6, <2>1, SMTT(60) DEF TxSession, TxState
<1>8. failed \in TxSession /\ failed.dnode = 0 /\ failed.state = "TX_FAIL"
      /\ failed.timer = FALSE
  <2> HIDE DEF new
  <2> QED
    BY <1>7, FailedRecord, Zenon
<1>10. \A j \in Tx : ~tx_sessions[j].timer
  BY <1>1 DEF IInv, TimerLinks
<1>11. \/ \E n \in Slot :
            /\ memb_alloc(n, Slot, used)
            /\ send_data(n, "noce_get_callback", i, sess[s].req, FALSE)
            /\ tx_sessions' = [tx_sessions EXCEPT ![i] = new]
            /\ lock' = TRUE
            /\ evq' = Post(Tail(evq), "SEND_NEXT_LL")
            /\ UNCHANGED <<pause, user>>
       \/ /\ tx_sessions' = [tx_sessions EXCEPT ![i] = failed]
          /\ Completed(s, "FAIL", FALSE, {}, Tail(evq), FALSE)
          /\ UNCHANGED <<sess, ll>>
  BY <1>4, ZenonT(40) DEF sec0_send_data
<1> HIDE DEF i, new, failed, d, busy
<1>12. ASSUME NEW n \in Slot, memb_alloc(n, Slot, used),
              send_data(n, "noce_get_callback", i, sess[s].req, FALSE),
              tx_sessions' = [tx_sessions EXCEPT ![i] = new],
              lock' = TRUE, evq' = Post(Tail(evq), "SEND_NEXT_LL"),
              UNCHANGED <<pause, user>>
       PROVE  IInv'
  <2> DEFINE cb == "noce_get_callback"
  <2>1. /\ tx_sessions'[i] = new /\ tx_sessions' \in [Tx -> TxSession]
        /\ \A j \in Tx \ {i} : tx_sessions'[j] = tx_sessions[j]
    BY <1>1, <1>3, <1>7, <1>12, Zenon
  <2>2. Active' = {i} /\ tx_sessions'[i].user = s
    BY <1>1, <1>3, <1>5, <1>7, <2>1, ZenonT(40) DEF Active
  <2>3. TxTimers'
    BY <1>7, <1>10, <2>1, <2>2 DEF TxTimers
  <2>4. /\ n \notin used /\ cb \in {"CallbackEx", "noce_get_callback"}
        /\ cb # "CallbackEx" /\ send_data(n, cb, i, sess[s].req, FALSE)
    BY <1>12, Zenon DEF memb_alloc
  <2> HIDE DEF cb
  <2> QED
    BY <1>3, <1>12, <2>1, <2>2, <2>3, <2>4, SendStarted, ZenonT(40)
<1>13. CASE /\ tx_sessions' = [tx_sessions EXCEPT ![i] = failed]
            /\ Completed(s, "FAIL", FALSE, {}, Tail(evq), FALSE)
            /\ UNCHANGED <<sess, ll>>
  <2>1. /\ tx_sessions'[i] = failed /\ tx_sessions' \in [Tx -> TxSession]
        /\ \A j \in Tx \ {i} : tx_sessions'[j] = tx_sessions[j]
    BY <1>1, <1>3, <1>8, <1>13
  <2>2. Active' = {}
    BY <1>1, <1>8, <2>1 DEF Active
  <2>3. TxTimers'
    BY <1>8, <1>10, <2>1, <2>2 DEF TxTimers
  <2>4. \A j \in Tx : tx_sessions'[j] = tx_sessions[j]
                        \/ tx_sessions'[j].state = "TX_FAIL"
    BY <1>8, <2>1
  <2> QED
    BY <1>13, <2>1, <2>2, <2>3, <2>4, SendFailed, ZenonT(40)
<1> QED
  BY <1>11, <1>12, <1>13, Zenon

\* SEND_EVENT_SEND_NEXT preserves the invariant.
LEMMA SendNextInv ==
  ASSUME IInv, SendNext
  PROVE  IInv'
<1>1. Take("SEND_NEXT") /\ UNCHANGED <<learn, chip, handle, acked, aborted, counters>>
  BY DEF SendNext
<1>2. CASE /\ evq' = Tail(evq)
           /\ UNCHANGED <<pool, appl, ll, pause, user, tx_sessions>>
  <2>1. /\ current_session_ll \in Slot \cup {NULL} /\ learn \in BOOLEAN
        /\ cbFunc \in BOOLEAN /\ own \in BOOLEAN /\ late \in 0..MaxLate
        /\ acked \subseteq Request /\ emergency \in BOOLEAN
        /\ backoff \in {"expired", "running", "orphaned"}
    BY DEF IInv, TypeOK
  <2> QED
    BY <1>1, <1>2, <2>1, TakeFacts, QuietInv DEF ll, pause, chip, appl, pool
<1>3. CASE /\ ~lock /\ session_list = <<>> /\ current_session' = NULL
           /\ evq' = Tail(evq)
           /\ UNCHANGED <<pool, session_list, lock, ll, pause, user, tx_sessions>>
  <2> USE DEF pool, ll, pause, user, chip, counters
  <2>1. Tail(evq) \in Seq(Event)
    BY <1>1, TakeFacts
  <2>2. Active = {}
    BY <1>3 DEF IInv, Sec0SingleSession
  <2>3. \A t \in ToSet(send_data_list) : sess[t].cb # "CallbackEx"
    BY <1>3, ZenonT(40) DEF IInv, FrameLinks
  <2>4. TypeOK'
    BY <1>1, <1>3, <2>1, ZenonT(40) DEF IInv, TypeOK
  <2>5. PoolConsistent'
    BY <1>3 DEF IInv, PoolConsistent
  <2>6. Sec0SingleSession' /\ ChipHasHead' /\ CalledOnce'
    BY <1>3, <2>2 DEF IInv, Sec0SingleSession, ChipHasHead, CalledOnce, Active
  <2>7. RequestLinks'
    BY <1>1, <1>3 DEF IInv, RequestLinks, Live
  <2>8. FrameLinks'
    BY <1>3, <2>3 DEF IInv, FrameLinks, Active, Awaits
  <2>9. TimerLinks'
    BY <1>1, <1>3 DEF IInv, TimerLinks, Active, NonceFor
  <2> QED
    BY <2>4, <2>5, <2>6, <2>7, <2>8, <2>9 DEF IInv
<1>4. CASE /\ ~lock /\ session_list # <<>>
           /\ current_session' = Head(session_list)
           /\ session_list' = Tail(session_list)
           /\ SendPlain(Head(session_list)) \/ sec0_send_data(Head(session_list))
  BY <1>1, <1>4, SendPlainInv, Sec0SendDataInv
<1> QED
  BY <1>2, <1>3, <1>4 DEF SendNext

\* Re-initialisation empties both queues and the pool and ends every session,
\* so that nothing is left to point to anything.
LEMMA InitActionInv ==
  ASSUME IInv, ZW_SendDataAppl_init
  PROVE  IInv'
<1>1. /\ resets' = resets + 1 /\ lock' = FALSE /\ lock_ll' = FALSE
      /\ tx_sessions' = [i \in Tx |-> IF i \in Active THEN Ended(i, "TX_FAIL")
                                                      ELSE tx_sessions[i]]
      /\ session_list' = <<>> /\ send_data_list' = <<>> /\ used' = {}
      /\ sess' = [s \in Slot |-> [cb |-> "none", user |-> 0, req |-> 0,
                                  discard |-> FALSE]]
      /\ discard' = {} /\ emergency' = FALSE
      /\ backoff' = IF backoff = "running" THEN "orphaned" ELSE backoff
      /\ result' = [r \in Request |-> IF result[r] = "pending" THEN "dropped"
                                                               ELSE result[r]]
      /\ UNCHANGED <<current_session, current_session_ll, evq, backoff_node, learn,
                     cbFunc, handle, calls, acked, aborted, nonces, aborts>>
      /\ own' = FALSE /\ late' = IF own /\ late < MaxLate THEN late + 1 ELSE late
  BY DEF ZW_SendDataAppl_init, GiveUp
<1>2. late' \in 0..MaxLate
  BY <1>1, SizesAssumption DEF IInv, TypeOK
<1>3. /\ tx_sessions' \in [Tx -> TxSession] /\ Active' = {} /\ TxTimers'
  <2>1. \A i \in Tx : tx_sessions[i] \in TxSession
    BY DEF IInv, TypeOK
  <2>2. ASSUME NEW i \in Tx
        PROVE  /\ tx_sessions'[i] \in TxSession /\ tx_sessions'[i].dnode = 0
               /\ ~tx_sessions'[i].timer
    <3>1. CASE i \in Active
      <4>1. tx_sessions'[i] = Ended(i, "TX_FAIL")
        BY <1>1, <3>1
      <4>2. /\ Ended(i, "TX_FAIL") \in TxSession /\ Ended(i, "TX_FAIL").dnode = 0
            /\ Ended(i, "TX_FAIL").timer = FALSE
        BY <2>1, FailedRecord, ZenonT(40) DEF Ended
      <4> QED
        BY <4>1, <4>2
    <3>2. CASE i \notin Active
      BY <1>1, <2>1, <3>2, ZenonT(40) DEF IInv, TimerLinks, Active
    <3> QED
      BY <3>1, <3>2
  <2>3. tx_sessions' \in [Tx -> TxSession]
    BY <1>1, <2>2
  <2>4. Active' = {}
    BY <2>2 DEF Active
  <2> QED
    BY <2>2, <2>3, <2>4 DEF TxTimers
<1>4. ToSet(<<>>) = {} /\ IsInjective(<<>>) /\ <<>> \in Seq(Slot)
  BY EmptyList
<1>5. /\ sess' \in [Slot -> Session] /\ result' \in [Request -> Result]
      /\ \A r \in Request : result'[r] # "pending"
      /\ \A r \in Request : result'[r] \in {"OK", "FAIL", "ERROR"} <=>
                            result[r] \in {"OK", "FAIL", "ERROR"}
  BY <1>1 DEF Session, Callback, Result, IInv, TypeOK
<1>6. TypeOK'
  <2>1. session_list' \in Seq(Slot) /\ send_data_list' \in Seq(Slot)
    BY <1>1, <1>4
  <2>2. /\ used' \subseteq Slot /\ lock' \in BOOLEAN
        /\ lock_ll' \in BOOLEAN /\ current_session' \in Slot \cup {NULL}
        /\ current_session_ll' \in Slot \cup {NULL}
        /\ evq' \in Seq(Event) /\ emergency' \in BOOLEAN
        /\ backoff' \in {"expired", "running", "orphaned"}
        /\ backoff_node' \in Node \cup {0} /\ discard' \subseteq Slot
        /\ learn' \in BOOLEAN /\ cbFunc' \in BOOLEAN /\ own' \in BOOLEAN
        /\ acked' \subseteq Request /\ aborted' \subseteq Request
        /\ handle' \in [Request -> Slot \cup {0}] /\ calls' \in [Request -> Nat]
    BY <1>1, Zenon DEF IInv, TypeOK
  <2>3. nonces' \in Nat /\ aborts' \in Nat /\ resets' \in Nat
    BY <1>1 DEF IInv, TypeOK
  <2> QED
    BY <1>2, <1>3, <1>5, <2>1, <2>2, <2>3 DEF TypeOK
<1>7. PoolConsistent'
  BY <1>1, <1>4 DEF PoolConsistent
<1>8. Sec0SingleSession' /\ ChipHasHead'
  BY <1>1, <1>3 DEF Sec0SingleSession, ChipHasHead
<1>9. CalledOnce'
  BY <1>1, <1>5 DEF IInv, CalledOnce
<1>10. RequestLinks' /\ FrameLinks'
  BY <1>1, <1>4, <1>5, ZenonT(40) DEF RequestLinks, Live, FrameLinks
<1>11. TimerLinks'
  BY <1>1, <1>3, Zenon DEF TimerLinks, TxTimers
<1> QED
  BY <1>6, <1>7, <1>8, <1>9, <1>10, <1>11 DEF IInv

\* The invariant holds when the gateway starts.
LEMMA InitIInv == Init => IInv
<1> SUFFICES ASSUME Init PROVE IInv
  OBVIOUS
<1>1. /\ ToSet(<<>>) = {} /\ IsInjective(<<>>) /\ <<>> \in Seq(Slot)
      /\ <<>> \in Seq(Event) /\ 1 \in Slot
  BY EmptyList, SizesAssumption DEF Slot
<1>2. Active = {} /\ \A i \in Tx : ~tx_sessions[i].timer
  BY DEF Init, Active
<1>3. /\ sess \in [Slot -> Session] /\ tx_sessions \in [Tx -> TxSession]
      /\ result \in [Request -> Result] /\ handle \in [Request -> Slot \cup {0}]
      /\ calls \in [Request -> Nat]
  BY <1>1 DEF Init, Session, Callback, TxSession, TxState, Result
<1>4. TypeOK
  <2>1. session_list \in Seq(Slot) /\ send_data_list \in Seq(Slot)
        /\ evq \in Seq(Event)
    BY <1>1 DEF Init
  <2>2. /\ used \subseteq Slot /\ lock \in BOOLEAN
        /\ lock_ll \in BOOLEAN /\ current_session \in Slot \cup {NULL}
        /\ current_session_ll \in Slot \cup {NULL}
        /\ emergency \in BOOLEAN
        /\ backoff \in {"expired", "running", "orphaned"}
        /\ backoff_node \in Node \cup {0} /\ discard \subseteq Slot
        /\ learn \in BOOLEAN /\ cbFunc \in BOOLEAN /\ own \in BOOLEAN
        /\ acked \subseteq Request /\ aborted \subseteq Request
    BY Zenon DEF Init
  <2>3. nonces \in Nat /\ aborts \in Nat /\ resets \in Nat /\ late \in 0..MaxLate
    BY SizesAssumption DEF Init
  <2> QED
    BY <1>3, <2>1, <2>2, <2>3 DEF TypeOK
<1>5. PoolConsistent /\ RequestLinks /\ FrameLinks
  BY <1>1, ZenonT(40) DEF Init, PoolConsistent, RequestLinks, FrameLinks, Live
<1>6. Sec0SingleSession /\ ChipHasHead /\ CalledOnce /\ TimerLinks
  BY <1>2 DEF Init, Sec0SingleSession, ChipHasHead, CalledOnce, TimerLinks
<1> QED
  BY <1>4, <1>5, <1>6 DEF IInv

\* Every step of the send-data stack preserves the invariant.
LEMMA NextIInv == IInv /\ [Next]_vars => IInv'
<1> SUFFICES ASSUME IInv, [Next]_vars PROVE IInv'
  OBVIOUS
<1>1. CASE UNCHANGED vars
  BY <1>1 DEF vars, IInv, TypeOK, PoolConsistent, Sec0SingleSession, ChipHasHead,
              CalledOnce, RequestLinks, FrameLinks, TimerLinks, Live, Active, Awaits,
              NonceFor
<1>2. CASE Events
  BY <1>2, SendNextInv, SendNextLLInv, EmergencyEventInv, QuietActions DEF Events
<1>3. CASE EmergencyExpires \/ BackoffExpires \/ LearnFlip
  BY <1>3, QuietActions
<1>4. ASSUME NEW s \in Slot, do_discard_timeout_memb(s) PROVE IInv'
  BY <1>4, DiscardInv
<1>5. ASSUME NEW i \in Tx, tx_timeout(i) PROVE IInv'
  BY <1>5, TxTimeoutInv
<1>6. ASSUME NEW status \in {"OK", "FAIL"}, NEW ts \in BOOLEAN,
             ChipDone(status, ts) \/ ChipLate(status, ts)
      PROVE  IInv'
  BY <1>6, ChipInv
<1>7. CASE ChipLost
  BY <1>7, ChipInv, Zenon
<1>8. ASSUME NEW d \in Node, FrameRX_Notify(d) \/ sec0_register_nonce(d) PROVE IInv'
  BY <1>8, QuietActions, RegisterNonceInv
<1>9. ASSUME NEW disc \in BOOLEAN, SendNonceReport(disc) PROVE IInv'
  BY <1>9, SendNonceReportInv
<1>10. ASSUME NEW r \in Request, ZW_SendDataAppl(r) \/ ZW_SendDataApplAbort(r)
       PROVE  IInv'
  BY <1>10, SendDataApplInv, AbortInv
<1>11. CASE ZW_SendDataAppl_init
  BY <1>11, InitActionInv
<1> QED
  BY <1>1, <1>2, <1>3, <1>4, <1>5, <1>6, <1>7, <1>8, <1>9, <1>10, <1>11 DEF Next

\* The inductive invariant always holds.
THEOREM Invariance == Spec => []IInv
<1>1. Init => IInv
  BY InitIInv
<1>2. IInv /\ [Next]_vars => IInv'
  BY NextIInv
<1> QED
  BY <1>1, <1>2, PTL DEF Spec

\* Every variable of the send-data stack keeps its type; in particular no
\* Security 0 session encrypts more parts than its payload has.
THEOREM TypeCorrect == Spec => []TypeOK
<1>1. IInv => TypeOK
  BY DEF IInv
<1> QED
  BY <1>1, Invariance, PTL

\* No block of session_memb is leaked, freed twice or in two lists: the pool
\* is exactly accounted for by the two queues and the lock.
THEOREM PoolAccounted == Spec => []PoolConsistent
<1>1. IInv => PoolConsistent
  BY DEF IInv
<1> QED
  BY <1>1, Invariance, PTL

\* At most one Security 0 session is active, and it serves the frame that
\* holds the lock.
THEOREM Sec0IsSingleSession == Spec => []Sec0SingleSession
<1>1. IInv => Sec0SingleSession
  BY DEF IInv
<1> QED
  BY <1>1, Invariance, PTL

\* send_data_callback_func, which pops the head of the low-level queue without
\* a check, always finds the frame that the chip was given.
THEOREM CallbackFindsItsFrame == Spec => []ChipHasHead
<1>1. IInv => ChipHasHead
  BY DEF IInv
<1> QED
  BY <1>1, Invariance, PTL

\* The callback of an application frame is called at most once, and exactly
\* once for a frame that has ended.
THEOREM CallbackOnce == Spec => []CalledOnce
<1>1. IInv => CalledOnce
  BY DEF IInv
<1> QED
  BY <1>1, Invariance, PTL

============================================================================
