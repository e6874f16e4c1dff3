----------------------- MODULE SendDataApplLemmas -----------------------
(***************************************************************************)
(* Lemmas on the helpers of SendDataAppl (callbacks, queues, Security 0    *)
(* sessions), and that the actions in which a low-level frame ends, a      *)
(* timer expires or a frame from the network arrives preserve IInv.        *)
(* SendDataApplProofs treats the other actions and draws the conclusions.  *)
(***************************************************************************)
EXTENDS SendDataAppl, ContikiProofs

\* What IInv says of the frame that holds the lock and of active sessions.
LEMMA LockFacts ==
  ASSUME IInv
  PROVE  /\ ToSet(session_list) \subseteq used /\ ToSet(send_data_list) \subseteq used
         /\ lock => /\ current_session \in Slot /\ current_session \in used
                    /\ sess[current_session].req \in Request
                    /\ result[sess[current_session].req] = "pending"
         /\ \A i \in Active : i \in Tx /\ lock /\ tx_sessions[i].user = current_session
         /\ lock_ll => send_data_list # <<>>
BY DEF IInv, TypeOK, PoolConsistent, RequestLinks, Live, Sec0SingleSession, Active,
       ChipHasHead

\* CallbackEx ends the request whose frame it is given: the request is marked
\* as ended and its callback counted once.
LEMMA CompletedFacts ==
  ASSUME IInv, NEW s \in Live,
         NEW status \in {"OK", "FAIL", "ERROR"}, NEW ts \in BOOLEAN,
         NEW freed, NEW q \in Seq(Event), NEW llnext \in BOOLEAN,
         Completed(s, status, ts, freed, q, llnext)
  PROVE  /\ lock' = FALSE /\ used' = used \ (freed \cup {s})
         /\ evq' \in Seq(Event)
         /\ backoff' \in {"expired", "running", "orphaned"}
         /\ backoff_node' \in Node \cup {0}
         /\ result' \in [Request -> Result] /\ calls' \in [Request -> Nat]
         /\ result' = [result EXCEPT ![sess[s].req] = status]
         /\ CalledOnce'
<1> DEFINE r == sess[s].req
           get == status = "OK" /\ ts /\ Job[r].get
<1>1. r \in Request /\ result[r] = "pending"
  BY DEF IInv, RequestLinks
<1>2. evq' \in Seq(Event)
  <2>1. "SEND_NEXT" \in Event /\ "SEND_NEXT_LL" \in Event
    BY DEF Event
  <2>2. PostIf(~get, q, "SEND_NEXT") \in Seq(Event)
    BY <2>1, PostType
  <2>3. evq' = PostIf(llnext, PostIf(~get, q, "SEND_NEXT"), "SEND_NEXT_LL")
    BY DEF Completed
  <2> QED
    BY <2>1, <2>2, <2>3, PostType
<1>3. Job[r].dnode \in Node
  BY <1>1, JobAssumption DEF JobType
<1>4. /\ result' = [result EXCEPT ![r] = status]
      /\ calls' = [calls EXCEPT ![r] = @ + 1]
      /\ lock' = FALSE /\ used' = used \ (freed \cup {s})
      /\ backoff' = IF get THEN "running" ELSE backoff
      /\ backoff_node' = IF get THEN Job[r].dnode ELSE backoff_node
  BY DEF Completed
<1>5. /\ result \in [Request -> Result] /\ calls \in [Request -> Nat]
      /\ backoff \in {"expired", "running", "orphaned"}
      /\ backoff_node \in Node \cup {0} /\ status \in Result
  BY DEF IInv, TypeOK, Result
<1>6. result' \in [Request -> Result] /\ calls' \in [Request -> Nat]
  BY <1>1, <1>4, <1>5
<1>7. CalledOnce'
  <2>1. \A x \in Request : /\ result'[x] = IF x = r THEN status ELSE result[x]
                           /\ calls'[x] = IF x = r THEN calls[x] + 1 ELSE calls[x]
    BY <1>4, <1>5
  <2> QED
    BY <1>1, <2>1 DEF IInv, CalledOnce
<1> QED
  BY <1>2, <1>3, <1>4, <1>5, <1>6, <1>7

\* Block n, which was free, is at the end of the low-level queue; every other
\* block is as it was.
Queued(n, cb, arg, r, disc) ==
  /\ n \notin ToSet(session_list) /\ n \notin ToSet(send_data_list)
  /\ lock => n # current_session
  /\ used' = used \cup {n} /\ used' \subseteq Slot
  /\ sess' \in [Slot -> Session]
  /\ sess'[n] = [cb |-> cb, user |-> arg, req |-> r, discard |-> disc]
  /\ \A s \in Slot \ {n} : sess'[s] = sess[s]
  /\ send_data_list' \in Seq(Slot) /\ IsInjective(send_data_list')
  /\ ToSet(send_data_list') = ToSet(send_data_list) \cup {n}
  /\ discard' \subseteq Slot /\ discard' \subseteq ToSet(send_data_list')
  /\ UNCHANGED <<lock_ll, current_session_ll, emergency>>
  /\ ChipHasHead'

\* send_data takes a free block and puts it at the end of the low-level queue.
LEMMA SendDataFacts ==
  ASSUME IInv, NEW n \in Slot, n \notin used, NEW cb \in Callback \ {"user"},
         NEW arg \in Nat, NEW r \in Request \cup {0}, NEW disc \in BOOLEAN,
         send_data(n, cb, arg, r, disc)
  PROVE  Queued(n, cb, arg, r, disc)
<1>1. /\ used \subseteq Slot /\ sess \in [Slot -> Session]
      /\ send_data_list \in Seq(Slot) /\ discard \subseteq Slot
      /\ IsInjective(send_data_list) /\ discard \subseteq ToSet(send_data_list)
  BY DEF IInv, TypeOK, PoolConsistent, TimerLinks
<1>2. n \notin ToSet(session_list) /\ n \notin ToSet(send_data_list)
  BY LockFacts
<1>3. lock => n # current_session
  BY LockFacts
<1>4. /\ used' = used \cup {n}
      /\ sess' = [sess EXCEPT ![n] = [cb |-> cb, user |-> arg, req |-> r,
                                      discard |-> disc]]
      /\ send_data_list' = Append(send_data_list, n)
      /\ discard' = IF disc THEN discard \cup {n} ELSE discard
      /\ UNCHANGED <<lock_ll, current_session_ll, emergency>>
  BY DEF send_data
<1>5. /\ send_data_list' \in Seq(Slot) /\ IsInjective(send_data_list')
      /\ ToSet(send_data_list') = ToSet(send_data_list) \cup {n}
      /\ send_data_list # <<>> => Head(send_data_list') = Head(send_data_list)
      /\ send_data_list' # <<>>
  BY <1>1, <1>2, <1>4, AppendElements
<1>6. sess' \in [Slot -> Session]
  BY <1>1, <1>4 DEF Session
<1>7. ChipHasHead'
  <2> SUFFICES ASSUME lock_ll' PROVE /\ send_data_list' # <<>>
                                     /\ Head(send_data_list') = current_session_ll'
                                     /\ Head(send_data_list') \notin discard'
    BY DEF ChipHasHead
  <2>1. /\ send_data_list # <<>> /\ Head(send_data_list) = current_session_ll
        /\ Head(send_data_list) \notin discard
    BY <1>4 DEF IInv, ChipHasHead
  <2>2. Head(send_data_list) # n
    BY <1>1, <1>2, <2>1, TailElements
  <2> QED
    BY <1>4, <1>5, <2>1, <2>2
<1> QED
  BY <1>1, <1>2, <1>3, <1>4, <1>5, <1>6, <1>7 DEF Queued

\* The head of the low-level queue is popped and its block freed, while nothing
\* else of the low-level side but its lock and timer changes.
LEMMA PopFacts ==
  ASSUME IInv, send_data_list # <<>>,
         send_data_list' = Tail(send_data_list)
  PROVE  /\ Head(send_data_list) \in Slot
         /\ Head(send_data_list) \in ToSet(send_data_list)
         /\ Head(send_data_list) \notin ToSet(session_list)
         /\ lock => Head(send_data_list) # current_session
         /\ send_data_list' \in Seq(Slot) /\ IsInjective(send_data_list')
         /\ ToSet(send_data_list') = ToSet(send_data_list) \ {Head(send_data_list)}
<1>1. send_data_list \in Seq(Slot) /\ IsInjective(send_data_list)
  BY DEF IInv, TypeOK, PoolConsistent
<1>2. /\ Head(send_data_list) \in Slot
      /\ Head(send_data_list) \in ToSet(send_data_list)
      /\ send_data_list' \in Seq(Slot) /\ IsInjective(send_data_list')
      /\ ToSet(send_data_list') = ToSet(send_data_list) \ {Head(send_data_list)}
  BY <1>1, TailElements
<1> QED
  BY <1>2 DEF IInv, PoolConsistent

\* Requests and sessions still correspond after CallbackEx was called, from
\* whatever handler, for the frame that holds the lock.
LEMMA CompletedLinks ==
  ASSUME IInv, lock, NEW status \in {"OK", "FAIL", "ERROR"},
         lock' = FALSE, UNCHANGED <<session_list, current_session, sess, handle>>,
         result' = [result EXCEPT ![sess[current_session].req] = status]
  PROVE  RequestLinks'
<1>1. /\ current_session \in Live /\ Live' = ToSet(session_list)
      /\ \A s \in Live' : s \in Live /\ s # current_session
  BY DEF Live, IInv, PoolConsistent
<1>2. result \in [Request -> Result]
  BY DEF IInv, TypeOK
<1>3. \A x \in Request : result'[x] = IF x = sess[current_session].req THEN status
                                                                      ELSE result[x]
  BY <1>2
<1>4. Live \ {current_session} = Live'
  BY <1>1 DEF Live
<1> QED
  BY <1>1, <1>3, <1>4 DEF IInv, RequestLinks

\* The part of TimerLinks that is about Security 0 sessions.
TxTimers ==
  /\ \A i \in Tx : tx_sessions[i].timer => i \in Active
  /\ \A i \in Active : tx_sessions[i].left > 0 \/ NonceFor(i) = "none"

\* A Security 0 session that ends was the only one.
LEMMA EndedFacts ==
  ASSUME IInv, NEW i \in Active, NEW st \in {"TX_DONE", "TX_FAIL"},
         tx_sessions' = [tx_sessions EXCEPT ![i] = Ended(i, st)]
  PROVE  /\ tx_sessions' \in [Tx -> TxSession]
         /\ Active' = {} /\ TxTimers' /\ Sec0SingleSession'
         /\ tx_sessions'[i].state = st
         /\ \A j \in Tx \ {i} : tx_sessions'[j] = tx_sessions[j]
<1>1. tx_sessions \in [Tx -> TxSession] /\ i \in Tx
  BY DEF IInv, TypeOK, Active
<1>2. /\ tx_sessions'[i] = Ended(i, st)
      /\ \A j \in Tx \ {i} : tx_sessions'[j] = tx_sessions[j]
  BY <1>1
<1>3. Ended(i, st) \in TxSession /\ Ended(i, st).dnode = 0
      /\ Ended(i, st).state = st /\ Ended(i, st).timer = FALSE
  BY <1>1, Zenon DEF Ended, TxSession, TxState
<1>4. tx_sessions' \in [Tx -> TxSession]
  BY <1>1, <1>3
<1>5. \A j \in Tx \ {i} : j \notin Active
  BY DEF IInv, Sec0SingleSession
<1>6. Active' = {}
  BY <1>2, <1>3, <1>5 DEF Active
<1>7. TxTimers'
  <2>1. \A j \in Tx : ~tx_sessions[j].timer \/ j = i
    BY <1>5 DEF IInv, TimerLinks
  <2>2. \A j \in Tx : tx_sessions'[j].timer => j \in Active'
    BY <1>2, <1>3, <2>1
  <2> QED
    BY <1>6, <2>2 DEF TxTimers
<1>8. Sec0SingleSession'
  BY <1>6 DEF Sec0SingleSession
<1> QED
  BY <1>2, <1>3, <1>4, <1>6, <1>7, <1>8

\* Frames whose Security 0 session has ended stay harmless: their callbacks
\* await a state that the session is not in.
LEMMA EndedLinks ==
  ASSUME IInv, NEW i \in Active, NEW st \in {"TX_DONE", "TX_FAIL"},
         tx_sessions' = [tx_sessions EXCEPT ![i] = Ended(i, st)],
         ToSet(send_data_list') \subseteq ToSet(send_data_list),
         UNCHANGED sess
  PROVE  FrameLinks'
<1>1. /\ Active' = {} /\ tx_sessions'[i].state = st /\ i \in Tx
      /\ \A j \in Tx \ {i} : tx_sessions'[j] = tx_sessions[j]
  BY EndedFacts, Zenon DEF Active
<1>2. \A j \in Active : j = i
  BY DEF IInv, Sec0SingleSession
<1>3. ASSUME NEW s \in ToSet(send_data_list')
      PROVE  /\ sess[s].cb # "user" /\ sess[s].cb # "CallbackEx"
             /\ sess[s].cb # "none" => sess[s].req \in Request
             /\ Awaits(sess[s].cb) # "none" =>
                  /\ sess[s].user \in Tx
                  /\ tx_sessions'[sess[s].user].state \in {"TX_DONE", "TX_FAIL"}
  BY <1>1, <1>2 DEF IInv, FrameLinks
<1> QED
  BY <1>3 DEF FrameLinks, Awaits

\* The types of the variables that a callback from the low-level side can change.
CallbackTypes ==
  /\ used \subseteq Slot /\ send_data_list \in Seq(Slot) /\ lock \in BOOLEAN
  /\ evq \in Seq(Event) /\ backoff \in {"expired", "running", "orphaned"}
  /\ backoff_node \in Node \cup {0}
  /\ tx_sessions \in [Tx -> TxSession]
  /\ result \in [Request -> Result] /\ calls \in [Request -> Nat]

\* What a callback from the low-level side must establish.
CallbackCore ==
  /\ CallbackTypes /\ PoolConsistent /\ Sec0SingleSession /\ CalledOnce
  /\ RequestLinks /\ FrameLinks /\ TxTimers

\* The low-level frame is done and no callback completes a request.
LEMMA IgnoredCore ==
  ASSUME IInv, send_data_list # <<>>, NEW q \in Seq(Event),
         send_data_list' = Tail(send_data_list),
         Ignored({Head(send_data_list)}, q, TRUE),
         UNCHANGED <<sess, session_list, current_session, handle>>,
         tx_sessions' \in [Tx -> TxSession], Active' = Active, TxTimers',
         \A i \in Tx : /\ tx_sessions'[i].user = tx_sessions[i].user
                       /\ tx_sessions'[i] = tx_sessions[i] \/ i \in Active
  PROVE  CallbackCore'
<1> DEFINE s == Head(send_data_list)
<1>1. /\ used' = used \ {s} /\ evq' = PostIf(TRUE, q, "SEND_NEXT_LL")
      /\ UNCHANGED <<lock, backoff, backoff_node, result, calls>>
  BY DEF Ignored, pause, user
<1>2. /\ s \in Slot /\ s \in ToSet(send_data_list) /\ s \notin ToSet(session_list)
      /\ lock => s # current_session
      /\ send_data_list' \in Seq(Slot) /\ IsInjective(send_data_list')
      /\ ToSet(send_data_list') = ToSet(send_data_list) \ {s}
  BY PopFacts
<1> HIDE DEF s
<1>3. CallbackTypes'
  <2>1. evq' \in Seq(Event)
    BY <1>1, PostType, Zenon DEF Event
  <2> QED
    BY <1>1, <1>2, <2>1, Zenon DEF IInv, TypeOK, CallbackTypes
<1>4. PoolConsistent'
  BY <1>1, <1>2 DEF IInv, PoolConsistent
<1>5. Sec0SingleSession'
  BY <1>1 DEF IInv, Sec0SingleSession, Active
<1>6. CalledOnce'
  BY <1>1 DEF IInv, CalledOnce
<1>7. RequestLinks'
  BY <1>1 DEF IInv, RequestLinks, Live
<1>8. FrameLinks'
  BY <1>1, <1>2 DEF IInv, FrameLinks, Awaits
<1> QED
  BY <1>3, <1>4, <1>5, <1>6, <1>7, <1>8 DEF CallbackCore

\* The low-level frame is done and its callback completes the request that
\* holds the lock; if a Security 0 session was active it has ended with it.
LEMMA CompletedCore ==
  ASSUME IInv, lock, send_data_list # <<>>, NEW q \in Seq(Event),
         NEW status \in {"OK", "FAIL"}, NEW ts \in BOOLEAN,
         send_data_list' = Tail(send_data_list),
         Completed(current_session, status, ts, {Head(send_data_list)}, q, TRUE),
         UNCHANGED <<sess, session_list, current_session, handle>>,
         tx_sessions' \in [Tx -> TxSession], Active' = {}, TxTimers', FrameLinks'
  PROVE  CallbackCore'
<1> DEFINE s == Head(send_data_list)
<1>1. /\ lock' = FALSE /\ used' = used \ ({s} \cup {current_session})
      /\ evq' \in Seq(Event)
      /\ backoff' \in {"expired", "running", "orphaned"}
      /\ backoff_node' \in Node \cup {0}
      /\ result' \in [Request -> Result] /\ calls' \in [Request -> Nat]
      /\ result' = [result EXCEPT ![sess[current_session].req] = status]
      /\ CalledOnce'
  <2>1. /\ status \in {"OK", "FAIL", "ERROR"} /\ TRUE \in BOOLEAN
        /\ current_session \in Live
    BY DEF Live
  <2> QED
    BY <2>1, CompletedFacts, Zenon
<1>2. /\ s \in Slot /\ s \in ToSet(send_data_list) /\ s \notin ToSet(session_list)
      /\ s # current_session
      /\ send_data_list' \in Seq(Slot) /\ IsInjective(send_data_list')
      /\ ToSet(send_data_list') = ToSet(send_data_list) \ {s}
  BY PopFacts
<1> HIDE DEF s
<1>3. CallbackTypes'
  BY <1>1, <1>2, Zenon DEF IInv, TypeOK, CallbackTypes
<1>4. PoolConsistent'
  BY <1>1, <1>2 DEF IInv, PoolConsistent
<1>5. Sec0SingleSession'
  BY DEF Sec0SingleSession
<1>6. RequestLinks'
  BY <1>1, CompletedLinks, Zenon
<1> QED
  BY <1>1, <1>3, <1>4, <1>5, <1>6 DEF CallbackCore

\* A session that moves on is still the same session, with the same owner.
LEMMA MovedFacts ==
  ASSUME NEW i \in Tx, tx_sessions[i] \in TxSession, NEW st \in TxState,
         NEW n \in 0..2, NEW tm \in BOOLEAN
  PROVE  /\ Moved(i, st, n, tm) \in TxSession
         /\ Moved(i, st, n, tm).dnode = tx_sessions[i].dnode
         /\ Moved(i, st, n, tm).user = tx_sessions[i].user
         /\ Moved(i, st, n, tm).left = n /\ Moved(i, st, n, tm).state = st
         /\ Moved(i, st, n, tm).timer = tm
BY Zenon DEF TxSession, Moved

\* A frame's end moves a Security 0 session on, to a state that waits for a
\* nonce.
LEMMA MovedCore ==
  ASSUME IInv, send_data_list # <<>>, NEW q \in Seq(Event), NEW i \in Active,
         NEW st \in {"NONCE_GET_SENT", "ENC_MSG_SENT"}, NEW tm \in BOOLEAN,
         tx_sessions[i].left > 0, NEW new,
         new = Moved(i, st, tx_sessions[i].left, tm),
         tx_sessions' = [tx_sessions EXCEPT ![i] = new],
         send_data_list' = Tail(send_data_list),
         Ignored({Head(send_data_list)}, q, TRUE),
         UNCHANGED <<sess, session_list, current_session, handle>>
  PROVE  CallbackCore'
<1>1. tx_sessions \in [Tx -> TxSession] /\ i \in Tx
  BY DEF IInv, TypeOK, Active
<1>2. /\ tx_sessions'[i] = new
      /\ \A j \in Tx \ {i} : tx_sessions'[j] = tx_sessions[j]
  BY <1>1
<1>3. /\ new \in TxSession /\ new.dnode = tx_sessions[i].dnode
      /\ new.user = tx_sessions[i].user /\ new.left = tx_sessions[i].left
  <2>1. tx_sessions[i] \in TxSession /\ st \in TxState
    BY <1>1 DEF TxState
  <2>2. tx_sessions[i].left \in 0..2
    BY <2>1 DEF TxSession
  <2> QED
    BY <1>1, <2>1, <2>2, MovedFacts
<1>4. tx_sessions' \in [Tx -> TxSession]
  BY <1>1, <1>2, <1>3
<1>5. Active' = Active
  BY <1>1, <1>2, <1>3 DEF Active
<1>6. \A j \in Active : j = i
  BY DEF IInv, Sec0SingleSession
<1>7. TxTimers'
  <2>1. \A j \in Tx : tx_sessions'[j].timer => j \in Active'
    BY <1>2, <1>5, <1>6 DEF IInv, TimerLinks
  <2>2. \A j \in Active' : tx_sessions'[j].left > 0
    BY <1>3, <1>5, <1>6
  <2> QED
    BY <2>1, <2>2 DEF TxTimers
<1>8. \A j \in Tx : /\ tx_sessions'[j].user = tx_sessions[j].user
                    /\ tx_sessions'[j] = tx_sessions[j] \/ j \in Active
  BY <1>2, <1>3
<1> QED
  BY <1>4, <1>5, <1>7, <1>8, IgnoredCore, Zenon

\* TimerLinks holds of Security 0 sessions that do not change.
LEMMA TxUnchanged ==
  ASSUME IInv, UNCHANGED tx_sessions
  PROVE  /\ tx_sessions' \in [Tx -> TxSession] /\ Active' = Active /\ TxTimers'
         /\ \A i \in Tx : /\ tx_sessions'[i].user = tx_sessions[i].user
                          /\ tx_sessions'[i] = tx_sessions[i] \/ i \in Active
BY DEF IInv, TypeOK, Active, TimerLinks, TxTimers, NonceFor

\* send_data_callback_func preserves the core of the invariant, whether it is
\* called by the chip, by the emergency timer or because the chip refused.
LEMMA CallbackFunc ==
  ASSUME IInv, send_data_list # <<>>, NEW status \in {"OK", "FAIL"},
         NEW ts \in BOOLEAN, NEW q \in Seq(Event),
         send_data_callback_func(status, ts, q), UNCHANGED handle
  PROVE  /\ CallbackCore' /\ send_data_list' = Tail(send_data_list)
         /\ emergency' = FALSE /\ lock_ll' = FALSE
         /\ UNCHANGED <<sess, session_list, current_session>>
<1> DEFINE s == Head(send_data_list)
           i == sess[s].user
           st == AfterFrame(i, status)
<1>1. /\ send_data_list' = Tail(send_data_list)
      /\ emergency' = FALSE /\ lock_ll' = FALSE
      /\ UNCHANGED <<sess, session_list, current_session>>
      /\ \/ LLDonePlain(s, status, ts, q)
         \/ LLDoneSilent(s, q)
         \/ LLDoneSec0(s, status, q)
  BY DEF send_data_callback_func
<1>2. s \in ToSet(send_data_list)
  BY <1>1, PopFacts
<1>3. CASE LLDonePlain(s, status, ts, q)
  <2>1. /\ lock /\ i = current_session /\ Active = {} /\ UNCHANGED tx_sessions
        /\ \A t \in ToSet(send_data_list) : sess[t].cb = "CallbackEx" => t = s
    BY <1>2, <1>3 DEF IInv, FrameLinks, LLDonePlain
  <2>2. Completed(current_session, status, ts, {s}, q, TRUE)
    BY <1>3, <2>1, Zenon DEF LLDonePlain, CallbackEx
  <2>3. tx_sessions' \in [Tx -> TxSession] /\ Active' = {} /\ TxTimers'
    BY <2>1, TxUnchanged
  <2>4. FrameLinks'
    <3>1. ToSet(send_data_list') = ToSet(send_data_list) \ {s}
      BY <1>1, PopFacts
    <3> HIDE DEF s
    <3> QED
      BY <1>1, <2>1, <2>3, <3>1 DEF IInv, FrameLinks
  <2> QED
    BY <1>1, <2>1, <2>2, <2>3, <2>4, CompletedCore, Zenon
<1>4. CASE LLDoneSilent(s, q)
  BY <1>1, <1>4, TxUnchanged, IgnoredCore, Zenon DEF LLDoneSilent
<1>5. CASE LLDoneSec0(s, status, q)
  <2>1. CASE tx_sessions[i].state # Awaits(sess[s].cb)
    <3>1. Ignored({s}, q, TRUE) /\ UNCHANGED tx_sessions
      BY <1>5, <2>1, Zenon DEF LLDoneSec0
    <3> QED
      BY <1>1, <3>1, TxUnchanged, IgnoredCore, Zenon
  <2>2. CASE tx_sessions[i].state = Awaits(sess[s].cb)
    <3>1. Awaits(sess[s].cb) \in {"NONCE_GET", "ENC_MSG", "ENC_MSG2"}
      BY <1>5 DEF LLDoneSec0, Awaits
    <3>2. i \in Active
      BY <1>2, <2>2, <3>1 DEF IInv, FrameLinks
    <3>3. i \in Tx /\ lock /\ tx_sessions[i].user = current_session
      BY <3>2, LockFacts
    <3>4. CASE st \in {"NONCE_GET_SENT", "ENC_MSG_SENT"}
      <4> DEFINE tm == IF st = "NONCE_GET_SENT" /\ learn THEN tx_sessions[i].timer
                                                         ELSE TRUE
             new == Moved(i, st, tx_sessions[i].left, tm)
      <4>1. tx_sessions' = [tx_sessions EXCEPT ![i] = new] /\ Ignored({s}, q, TRUE)
        BY <1>5, <2>2, <3>4, Zenon DEF LLDoneSec0
      <4>3. tm \in BOOLEAN
        BY <3>3, Zenon DEF IInv, TypeOK, TxSession
      <4>4. tx_sessions[i].left > 0
        BY <3>2, <3>4 DEF IInv, TimerLinks, AfterFrame, NonceFor
      <4>5. new = Moved(i, st, tx_sessions[i].left, tm)
        OBVIOUS
      <4> HIDE DEF tm, st, s, i, new
      <4> QED
        BY <1>1, <3>2, <3>4, <4>1, <4>3, <4>4, <4>5, MovedCore, Zenon DEF s
    <3>5. CASE st \in {"TX_DONE", "TX_FAIL"}
      <4> DEFINE fin == IF st = "TX_DONE" THEN "OK" ELSE "FAIL"
      <4>1. /\ tx_sessions' = [tx_sessions EXCEPT ![i] = Ended(i, st)]
            /\ Completed(current_session, fin, st = "TX_DONE", {s}, q, TRUE)
        BY <1>5, <2>2, <3>3, <3>5, Zenon DEF LLDoneSec0, CallbackEx
      <4>2. /\ tx_sessions' \in [Tx -> TxSession] /\ Active' = {} /\ TxTimers'
        BY <3>2, <3>5, <4>1, EndedFacts, Zenon
      <4>3. FrameLinks'
        <5>1. ToSet(send_data_list') \subseteq ToSet(send_data_list)
          BY <1>1, PopFacts
        <5> QED
          BY <1>1, <3>2, <3>5, <4>1, <5>1, EndedLinks, Zenon
      <4>4. fin \in {"OK", "FAIL"} /\ (st = "TX_DONE") \in BOOLEAN
        OBVIOUS
      <4> HIDE DEF fin, st, i
      <4> QED
        BY <1>1, <3>3, <4>1, <4>2, <4>3, <4>4, CompletedCore, Zenon
    <3>6. st \in {"NONCE_GET_SENT", "ENC_MSG_SENT", "TX_DONE", "TX_FAIL"}
      BY DEF AfterFrame
    <3> QED
      BY <3>4, <3>5, <3>6, Zenon
  <2> QED
    BY <2>1, <2>2, Zenon
<1> QED
  BY <1>1, <1>3, <1>4, <1>5, Zenon

\* A handler that ends a low-level frame preserves the invariant.
LEMMA CallbackFuncInv ==
  ASSUME IInv, send_data_list # <<>>, NEW status \in {"OK", "FAIL"},
         NEW ts \in BOOLEAN, NEW q \in Seq(Event),
         send_data_callback_func(status, ts, q),
         discard' = discard \ {Head(send_data_list)}, own' = FALSE,
         late' \in 0..MaxLate, cbFunc' \in BOOLEAN,
         current_session_ll' \in Slot \cup {NULL}, acked' \subseteq Request,
         UNCHANGED <<learn, handle, aborted, counters>>
  PROVE  IInv'
<1>1. /\ CallbackCore' /\ send_data_list' = Tail(send_data_list)
      /\ emergency' = FALSE /\ lock_ll' = FALSE
      /\ UNCHANGED <<sess, session_list, current_session>>
  BY CallbackFunc, Zenon
<1>2. ToSet(send_data_list') = ToSet(send_data_list) \ {Head(send_data_list)}
  BY <1>1, PopFacts
<1>3. TypeOK'
  BY <1>1, Zenon DEF IInv, TypeOK, CallbackCore, CallbackTypes, counters
<1>4. ChipHasHead'
  BY <1>1 DEF ChipHasHead
<1>5. TimerLinks'
  BY <1>1, <1>2 DEF IInv, TimerLinks, CallbackCore, TxTimers
<1> QED
  BY <1>1, <1>3, <1>4, <1>5 DEF IInv, CallbackCore

\* While the chip has a frame, the frame's discard timer is not running.
LEMMA HeadNotDiscarded ==
  ASSUME IInv, lock_ll
  PROVE  /\ send_data_list # <<>>
         /\ discard \ {Head(send_data_list)} = discard
BY DEF IInv, ChipHasHead

\* Changes to evq, backoff, current_session_ll and the like do not disturb the
\* invariant: a handler with no other effect preserves it.
LEMMA QuietInv ==
  ASSUME IInv, evq' \in Seq(Event), UNCHANGED <<pool, appl, send_data_list, lock_ll,
           discard, tx_sessions, user, handle>>,
         lock_ll => UNCHANGED current_session_ll,
         current_session_ll' \in Slot \cup {NULL},
         backoff' \in {"expired", "running", "orphaned"},
         UNCHANGED backoff_node, learn' \in BOOLEAN,
         cbFunc' \in BOOLEAN, own' \in BOOLEAN, own' => own,
         emergency' \in BOOLEAN, emergency' => emergency, late' \in 0..MaxLate,
         acked' \subseteq Request, UNCHANGED <<aborted, counters>>
  PROVE  IInv'
<1> USE DEF pool, appl, user, counters
<1>1. TypeOK'
  BY DEF IInv, TypeOK
<1>2. PoolConsistent'
  BY DEF IInv, PoolConsistent
<1>3. Sec0SingleSession'
  BY DEF IInv, Sec0SingleSession, Active
<1>4. ChipHasHead'
  BY DEF IInv, ChipHasHead
<1>5. CalledOnce'
  BY DEF IInv, CalledOnce
<1>6. RequestLinks'
  BY DEF IInv, RequestLinks, Live
<1>7. FrameLinks'
  BY DEF IInv, FrameLinks, Active, Awaits
<1>8. TimerLinks'
  BY DEF IInv, TimerLinks, Active, NonceFor
<1> QED
  BY <1>1, <1>2, <1>3, <1>4, <1>5, <1>6, <1>7, <1>8 DEF IInv

\* An event that the process takes was one of its events.
LEMMA TakeFacts ==
  ASSUME IInv, NEW e, Take(e)
  PROVE  Tail(evq) \in Seq(Event)
BY TailElements DEF IInv, TypeOK, Take

\* The chip's answers: the frame it was given is done, an answer comes late, or
\* is lost.
LEMMA DispatchInv ==
  ASSUME IInv, NEW status \in {"OK", "FAIL"}, NEW ts \in BOOLEAN,
         Dispatch(status, ts), own' \in BOOLEAN, own' => own,
         cbFunc /\ lock_ll => own' = FALSE,
         late' \in 0..MaxLate, acked' \subseteq Request
  PROVE  IInv'
<1>1. /\ cbFunc' = FALSE
      /\ UNCHANGED <<current_session_ll, discard, learn, handle, aborted, counters>>
  BY DEF Dispatch
<1>2. /\ evq \in Seq(Event) /\ current_session_ll \in Slot \cup {NULL}
      /\ learn \in BOOLEAN /\ emergency \in BOOLEAN
      /\ backoff \in {"expired", "running", "orphaned"}
  BY DEF IInv, TypeOK
<1>3. CASE cbFunc /\ lock_ll
  <2>1. send_data_callback_func(status, ts, evq)
    BY <1>3 DEF Dispatch
  <2>2. send_data_list # <<>> /\ discard' = discard \ {Head(send_data_list)}
    BY <1>1, <1>3, HeadNotDiscarded
  <2> QED
    BY <1>1, <1>2, <1>3, <2>1, <2>2, CallbackFuncInv, Zenon
<1>4. CASE ~(cbFunc /\ lock_ll)
  <2>1. NoEffect(evq)
    BY <1>4 DEF Dispatch
  <2> QED
    BY <1>1, <1>2, <2>1, QuietInv, Zenon DEF NoEffect, pause
<1> QED
  BY <1>3, <1>4

\* Whatever the chip answers, and whenever, the invariant holds after it.
LEMMA ChipInv ==
  ASSUME IInv, NEW status \in {"OK", "FAIL"}, NEW ts \in BOOLEAN,
         ChipDone(status, ts) \/ ChipLate(status, ts) \/ ChipLost
  PROVE  IInv'
<1>1. own \in BOOLEAN /\ late \in 0..MaxLate /\ acked \subseteq Request
  BY DEF IInv, TypeOK
<1>2. CASE ChipDone(status, ts)
  <2>1. /\ own' = FALSE /\ late' = late /\ Dispatch(status, ts)
        /\ Acknowledge(Head(send_data_list), status) /\ own
    BY <1>2 DEF ChipDone
  <2>2. lock_ll /\ send_data_list # <<>>
    BY <2>1, HeadNotDiscarded DEF IInv, TimerLinks
  <2>3. Head(send_data_list) \in ToSet(send_data_list)
    BY <2>2, TailElements DEF IInv, TypeOK
  <2>4. acked' \subseteq Request
    BY <1>1, <2>1, <2>3 DEF IInv, FrameLinks, Acknowledge, LastFrame
  <2> QED
    BY <1>1, <2>1, <2>4, DispatchInv, Zenon
<1>3. CASE ChipLate(status, ts)
  <2>1. /\ own' = IF cbFunc /\ lock_ll THEN FALSE ELSE own
        /\ late > 0 /\ (late' = late \/ late' = late - 1) /\ acked' = acked
        /\ Dispatch(status, ts)
    BY <1>3 DEF ChipLate
  <2>2. late' \in 0..MaxLate
    BY <1>1, <2>1, SizesAssumption
  <2> QED
    BY <1>1, <2>1, <2>2, DispatchInv, Zenon
<1>4. CASE ChipLost
  BY <1>1, <1>4, QuietInv, Zenon
     DEF ChipLost, IInv, TypeOK, pool, appl, ll, pause, user, counters
<1> QED
  BY <1>2, <1>3, <1>4

\* The emergency event fails the frame that the chip has, if it has one.
LEMMA EmergencyEventInv ==
  ASSUME IInv, EmergencyEvent
  PROVE  IInv'
<1>1. /\ Take("TIMER_emergency")
      /\ UNCHANGED <<current_session_ll, discard, learn, cbFunc, handle, acked,
                     aborted, counters>>
  BY DEF EmergencyEvent
<1>2. Tail(evq) \in Seq(Event)
  BY <1>1, TakeFacts
<1>3. /\ current_session_ll \in Slot \cup {NULL} /\ cbFunc \in BOOLEAN
      /\ own \in BOOLEAN /\ late \in 0..MaxLate /\ acked \subseteq Request
      /\ learn \in BOOLEAN /\ emergency \in BOOLEAN
      /\ backoff \in {"expired", "running", "orphaned"}
  BY DEF IInv, TypeOK
<1>4. CASE lock_ll
  <2>1. send_data_callback_func("FAIL", FALSE, Tail(evq)) /\ GiveUp
    BY <1>4, Zenon DEF EmergencyEvent
  <2>2. own' = FALSE /\ late' \in 0..MaxLate
    BY <1>3, <2>1, SizesAssumption DEF GiveUp
  <2>3. send_data_list # <<>> /\ discard' = discard \ {Head(send_data_list)}
    BY <1>1, <1>4, HeadNotDiscarded
  <2>4. "FAIL" \in {"OK", "FAIL"} /\ FALSE \in BOOLEAN
    OBVIOUS
  <2> QED
    BY <1>1, <1>2, <1>3, <2>1, <2>2, <2>3, <2>4, CallbackFuncInv, Zenon
<1>5. CASE ~lock_ll
  <2>1. NoEffect(Tail(evq)) /\ UNCHANGED <<own, late>>
    BY <1>5 DEF EmergencyEvent
  <2> QED
    BY <1>1, <1>2, <1>3, <2>1, QuietInv DEF NoEffect, pause
<1> QED
  BY <1>4, <1>5

\* Timers that expire, the pause that ends and inclusion that starts or ends
\* change nothing the invariant is about.
LEMMA QuietActions ==
  ASSUME IInv, \/ EmergencyExpires \/ BackoffExpires \/ BackoffEvent \/ LearnFlip
               \/ \E d \in Node : FrameRX_Notify(d)
  PROVE  IInv'
<1> USE DEF pool, appl, ll, pause, chip, user, counters
<1>1. /\ evq \in Seq(Event) /\ current_session_ll \in Slot \cup {NULL}
      /\ cbFunc \in BOOLEAN /\ own \in BOOLEAN /\ late \in 0..MaxLate
      /\ acked \subseteq Request /\ learn \in BOOLEAN /\ emergency \in BOOLEAN
      /\ backoff \in {"expired", "running", "orphaned"}
  BY DEF IInv, TypeOK
<1>2. Event = {"SEND_NEXT", "SEND_NEXT_LL", "TIMER_emergency", "TIMER_backoff"}
  BY DEF Event
<1>3. CASE EmergencyExpires
  <2>1. evq' \in Seq(Event)
    BY <1>1, <1>2, <1>3, AppendElements DEF EmergencyExpires
  <2> QED
    BY <1>1, <1>3, <2>1, QuietInv, Zenon DEF EmergencyExpires
<1>4. CASE BackoffExpires
  <2>1. evq' \in Seq(Event)
    BY <1>1, <1>2, <1>4, AppendElements DEF BackoffExpires
  <2> QED
    BY <1>1, <1>4, <2>1, QuietInv DEF BackoffExpires
<1>5. CASE BackoffEvent
  <2>1. evq' \in Seq(Event)
    BY <1>2, <1>5, TakeFacts, PostType, Zenon DEF BackoffEvent
  <2> QED
    BY <1>1, <1>5, <2>1, QuietInv DEF BackoffEvent
<1>6. CASE LearnFlip
  BY <1>1, <1>6, QuietInv DEF LearnFlip
<1>7. ASSUME NEW d \in Node, FrameRX_Notify(d) PROVE IInv'
  <2>1. evq' \in Seq(Event)
    BY <1>1, <1>2, <1>7, PostType DEF FrameRX_Notify
  <2> QED
    BY <1>1, <1>7, <2>1, QuietInv DEF FrameRX_Notify
<1> QED
  BY <1>3, <1>4, <1>5, <1>6, <1>7

\* The low-level queue is served: nothing to do, the chip takes the frame, or
\* the chip refuses it.
LEMMA SendNextLLInv ==
  ASSUME IInv, SendNextLL
  PROVE  IInv'
<1> USE DEF pool, appl, pause, chip, user, counters
<1>1. /\ Take("SEND_NEXT_LL")
      /\ current_session_ll' = IF send_data_list = <<>> THEN NULL
                                                        ELSE Head(send_data_list)
      /\ UNCHANGED <<learn, handle, acked, aborted, counters>>
  BY DEF SendNextLL
<1>2. Tail(evq) \in Seq(Event)
  BY <1>1, TakeFacts
<1>3. /\ send_data_list \in Seq(Slot) /\ cbFunc \in BOOLEAN
      /\ own \in BOOLEAN /\ late \in 0..MaxLate /\ acked \subseteq Request
      /\ learn \in BOOLEAN /\ emergency \in BOOLEAN
      /\ backoff \in {"expired", "running", "orphaned"}
      /\ IsInjective(send_data_list)
  BY DEF IInv, TypeOK, PoolConsistent
<1>4. send_data_list # <<>> => /\ Head(send_data_list) \in Slot
                               /\ Head(send_data_list) \in ToSet(send_data_list)
  BY <1>3, TailElements
<1>5. current_session_ll' \in Slot \cup {NULL}
  BY <1>1, <1>4
<1>6. CASE /\ send_data_list = <<>> \/ lock_ll
           /\ NoEffect(Tail(evq)) /\ UNCHANGED <<discard, chip>>
  <2>1. lock_ll => UNCHANGED current_session_ll
    BY <1>1 DEF IInv, ChipHasHead
  <2> QED
    BY <1>1, <1>2, <1>3, <1>5, <1>6, <2>1, QuietInv DEF NoEffect
<1>7. CASE /\ send_data_list # <<>> /\ ~lock_ll
           /\ StopDiscard /\ lock_ll' = TRUE /\ emergency' = TRUE
           /\ cbFunc' = TRUE /\ own' = TRUE /\ evq' = Tail(evq)
           /\ UNCHANGED <<pool, appl, send_data_list, pause, user, tx_sessions, late>>
  <2>1. discard' = discard \ {Head(send_data_list)}
    BY <1>7 DEF StopDiscard
  <2>2. TypeOK'
    BY <1>1, <1>2, <1>5, <1>7, <2>1 DEF IInv, TypeOK
  <2>3. PoolConsistent'
    BY <1>7 DEF IInv, PoolConsistent
  <2>4. Sec0SingleSession'
    BY <1>7 DEF IInv, Sec0SingleSession, Active
  <2>5. ChipHasHead'
    BY <1>1, <1>7, <2>1 DEF ChipHasHead
  <2>6. CalledOnce'
    BY <1>7 DEF IInv, CalledOnce
  <2>7. RequestLinks'
    BY <1>1, <1>7 DEF IInv, RequestLinks, Live
  <2>8. FrameLinks'
    BY <1>7 DEF IInv, FrameLinks, Active, Awaits
  <2>9. TimerLinks'
    BY <1>7, <2>1 DEF IInv, TimerLinks, Active, NonceFor
  <2> QED
    BY <2>2, <2>3, <2>4, <2>5, <2>6, <2>7, <2>8, <2>9 DEF IInv
<1>8. CASE /\ send_data_list # <<>> /\ ~lock_ll
           /\ StopDiscard /\ cbFunc' = FALSE
           /\ send_data_callback_func("FAIL", FALSE, Tail(evq))
           /\ UNCHANGED <<own, late>>
  <2>1. discard' = discard \ {Head(send_data_list)}
    BY <1>8 DEF StopDiscard
  <2>2. own' = FALSE
    BY <1>3, <1>8 DEF IInv, TimerLinks
  <2>3. "FAIL" \in {"OK", "FAIL"} /\ FALSE \in BOOLEAN
    OBVIOUS
  <2> QED
    BY <1>1, <1>2, <1>3, <1>5, <1>8, <2>1, <2>2, <2>3, CallbackFuncInv, ZenonT(40)
<1> QED
  BY <1>6, <1>7, <1>8, Zenon DEF SendNextLL

\* A frame that serves no request joins the low-level queue.
LEMMA SendNonceReportInv ==
  ASSUME IInv, NEW disc \in BOOLEAN, SendNonceReport(disc)
  PROVE  IInv'
<1> USE DEF appl, pause, chip, user
<1>1. PICK n \in Slot : n \notin used /\ send_data(n, "none", 0, 0, disc)
  BY DEF SendNonceReport, memb_alloc
<1>2. /\ evq' = Post(evq, "SEND_NEXT_LL") /\ nonces' = nonces + 1
      /\ UNCHANGED <<appl, pause, tx_sessions, learn, chip, user, handle, acked,
                     aborted, aborts, resets>>
  BY DEF SendNonceReport
<1>3. "none" \in Callback \ {"user"} /\ 0 \in Nat /\ 0 \in Request \cup {0}
  BY DEF Callback
<1>4. /\ n \notin ToSet(session_list) /\ n \notin ToSet(send_data_list)
      /\ lock => n # current_session
      /\ used' = used \cup {n} /\ used' \subseteq Slot
      /\ sess' \in [Slot -> Session]
      /\ sess'[n] = [cb |-> "none", user |-> 0, req |-> 0, discard |-> disc]
      /\ \A s \in Slot \ {n} : sess'[s] = sess[s]
      /\ send_data_list' \in Seq(Slot) /\ IsInjective(send_data_list')
      /\ ToSet(send_data_list') = ToSet(send_data_list) \cup {n}
      /\ discard' \subseteq Slot /\ discard' \subseteq ToSet(send_data_list')
      /\ UNCHANGED <<lock_ll, current_session_ll, emergency>>
      /\ ChipHasHead'
  <2>1. Queued(n, "none", 0, 0, disc)
    BY <1>1, <1>3, SendDataFacts
  <2> QED
    BY <2>1 DEF Queued
<1>5. evq' \in Seq(Event)
  BY <1>2, PostType, ZenonT(40) DEF Event, IInv, TypeOK
<1>6. TypeOK'
  BY <1>2, <1>4, <1>5 DEF IInv, TypeOK
<1>7. PoolConsistent'
  BY <1>2, <1>4, Zenon DEF IInv, PoolConsistent
<1>8. Sec0SingleSession' /\ CalledOnce'
  BY <1>2 DEF IInv, Sec0SingleSession, Active, CalledOnce
<1>9. RequestLinks'
  <2>1. Live' = Live /\ Live \subseteq Slot /\ n \notin Live
    BY <1>2, <1>4, LockFacts DEF Live, IInv, TypeOK
  <2> QED
    BY <1>2, <1>4, <2>1 DEF IInv, RequestLinks
<1>10. FrameLinks'
  <2>1. ToSet(send_data_list) \subseteq Slot \ {n}
    BY <1>4, LockFacts DEF IInv, TypeOK
  <2>2. Active' = Active
    BY <1>2 DEF Active
  <2> QED
    BY <1>2, <1>4, <2>1, <2>2 DEF IInv, FrameLinks, Awaits
<1>11. TimerLinks'
  BY <1>2, <1>4 DEF IInv, TimerLinks, Active, NonceFor
<1> QED
  BY <1>4, <1>6, <1>7, <1>8, <1>9, <1>10, <1>11 DEF IInv

\* An active Security 0 session fails and completes the request it serves.
LEMMA SessionFails ==
  ASSUME IInv, NEW i \in Active,
         tx_sessions' = [tx_sessions EXCEPT ![i] = Ended(i, "TX_FAIL")],
         CallbackEx(tx_sessions[i].user, "FAIL", FALSE, {}, evq, FALSE),
         UNCHANGED <<sess, session_list, current_session, ll, learn, chip, handle,
                     acked, nonces, resets>>,
         aborted' \subseteq Request, aborts' \in Nat
  PROVE  IInv'
<1> USE DEF ll, chip
<1>1. lock /\ tx_sessions[i].user = current_session
  BY LockFacts, Zenon
<1>2. Completed(current_session, "FAIL", FALSE, {}, evq, FALSE)
  BY <1>1, Zenon DEF CallbackEx
<1>3. /\ "FAIL" \in {"OK", "FAIL", "ERROR"} /\ FALSE \in BOOLEAN
      /\ "TX_FAIL" \in {"TX_DONE", "TX_FAIL"} /\ evq \in Seq(Event)
      /\ current_session \in Live
  BY <1>1 DEF IInv, TypeOK, Live
<1>4. /\ lock' = FALSE /\ used' = used \ ({} \cup {current_session})
      /\ evq' \in Seq(Event)
      /\ backoff' \in {"expired", "running", "orphaned"}
      /\ backoff_node' \in Node \cup {0}
      /\ result' \in [Request -> Result] /\ calls' \in [Request -> Nat]
      /\ result' = [result EXCEPT ![sess[current_session].req] = "FAIL"]
      /\ CalledOnce'
  BY <1>1, <1>2, <1>3, CompletedFacts, ZenonT(40)
<1>5. /\ tx_sessions' \in [Tx -> TxSession]
      /\ Active' = {} /\ TxTimers' /\ Sec0SingleSession'
  BY <1>3, EndedFacts, Zenon
<1>6. TypeOK'
  BY <1>4, <1>5, Zenon DEF IInv, TypeOK
<1>7. PoolConsistent'
  BY <1>1, <1>4, Zenon DEF IInv, PoolConsistent
<1>8. ChipHasHead'
  BY DEF IInv, ChipHasHead
<1>9. RequestLinks'
  BY <1>1, <1>3, <1>4, CompletedLinks, Zenon
<1>10. FrameLinks'
  BY <1>3, EndedLinks, Zenon
<1>11. TimerLinks'
  BY <1>5 DEF IInv, TimerLinks, TxTimers
<1> QED
  BY <1>4, <1>5, <1>6, <1>7, <1>8, <1>9, <1>10, <1>11, Zenon DEF IInv

\* A nonce that does not come in time fails the session.
LEMMA TxTimeoutInv ==
  ASSUME IInv, NEW i \in Tx, tx_timeout(i)
  PROVE  IInv'
<1>1. i \in Active
  BY DEF tx_timeout, IInv, TimerLinks
<1>2. aborted \subseteq Request /\ aborts \in Nat
  BY DEF IInv, TypeOK
<1> QED
  BY <1>1, <1>2, SessionFails, ZenonT(40) DEF tx_timeout, counters

\* A frame with a discard timer leaves the low-level queue before its turn.
LEMMA DiscardInv ==
  ASSUME IInv, NEW s \in Slot, do_discard_timeout_memb(s)
  PROVE  IInv'
<1> USE DEF appl, pause, chip, user, counters
<1>1. /\ s \in discard /\ discard' = discard \ {s} /\ used' = used \ {s}
      /\ send_data_list' = list_remove(send_data_list, s)
      /\ UNCHANGED <<sess, appl, lock_ll, current_session_ll, emergency, evq, pause,
           tx_sessions, learn, chip, user, handle, acked, aborted, counters>>
  BY DEF do_discard_timeout_memb
<1>2. /\ send_data_list \in Seq(Slot) /\ IsInjective(send_data_list)
      /\ s \in ToSet(send_data_list)
  BY <1>1 DEF IInv, TypeOK, PoolConsistent, TimerLinks
<1>3. /\ send_data_list' \in Seq(Slot) /\ IsInjective(send_data_list')
      /\ ToSet(send_data_list') = ToSet(send_data_list) \ {s}
      /\ s # Head(send_data_list) => /\ send_data_list' # <<>>
                                     /\ Head(send_data_list') = Head(send_data_list)
  BY <1>1, <1>2, RemoveElements
<1>4. TypeOK'
  BY <1>1, <1>3 DEF IInv, TypeOK
<1>5. PoolConsistent'
  BY <1>1, <1>2, <1>3 DEF IInv, PoolConsistent
<1>6. Sec0SingleSession' /\ CalledOnce'
  BY <1>1 DEF IInv, Sec0SingleSession, Active, CalledOnce
<1>7. ChipHasHead'
  BY <1>1, <1>3 DEF IInv, ChipHasHead
<1>8. RequestLinks'
  BY <1>1 DEF IInv, RequestLinks, Live
<1>9. FrameLinks'
  BY <1>1, <1>3 DEF IInv, FrameLinks, Active, Awaits
<1>10. TimerLinks'
  BY <1>1, <1>3 DEF IInv, TimerLinks, Active, NonceFor
<1> QED
  BY <1>4, <1>5, <1>6, <1>7, <1>8, <1>9, <1>10 DEF IInv
=========================================================================
