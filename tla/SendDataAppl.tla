--------------------------- MODULE SendDataAppl ---------------------------
(***************************************************************************)
(* The send-data stack of the gateway: the two transmit queues of          *)
(* transport/ZW_SendDataAppl.c, the transmit sessions of Security 0        *)
(* (transport/Security_Scheme0.c) that sit between them, and the callback  *)
(* slot of serialapi/Serialapi.c through which the Z-Wave chip reports     *)
(* that a frame is done.                                                   *)
(*                                                                         *)
(* An application frame is queued in session_list.  One at a time they are *)
(* taken off by SEND_EVENT_SEND_NEXT, encapsulated and put as one or more  *)
(* low-level frames in send_data_list; SEND_EVENT_SEND_NEXT_LL hands the   *)
(* head of that list to the chip.  Both lists draw their elements from one *)
(* pool, session_memb.  lock and lock_ll say that an application frame, a  *)
(* low-level frame is being sent.                                          *)
(*                                                                         *)
(* Everything runs in one Contiki process, so every action below is one    *)
(* handler run to its end: one event taken from the queue, one expired     *)
(* timer, or one frame that the poll of the serial port delivers.  What    *)
(* interleaves is the order of those.                                      *)
(***************************************************************************)
EXTENDS Contiki

CONSTANTS
  NumSessions,     \* blocks of session_memb (8 in the code)
  NumTx,           \* NUM_TX_SESSIONS of Security 0 (2 in the code)
  Node,            \* node ids a frame can be for
  NumRequests,     \* bound: application frames submitted in a behaviour
  Job,             \* what request r asks for, see JobType
  MaxNonceReports, \* bound: low-level frames sent for other nodes' benefit
  MaxLate,         \* bound: completions that arrive after their frame is gone
  MaxAborts,       \* bound: calls of ZW_SendDataApplAbort
  MaxResets,       \* bound: calls of ZW_SendDataAppl_init
  LearnFlips,      \* whether secure_learn_active() can change its answer
  NonceTableFull   \* whether the Security 0 nonce table can be full

Slot == 1..NumSessions
Tx == 1..NumTx
Request == 1..NumRequests
NULL == 0

JobType == [dnode : Node, scheme : {"NO_SCHEME", "SECURITY_SCHEME_0"},
            get : BOOLEAN, long : BOOLEAN]

ASSUME SizesAssumption ==
  /\ NumSessions \in Nat \ {0} /\ NumTx \in Nat \ {0}
  /\ NumRequests \in Nat /\ MaxNonceReports \in Nat /\ MaxLate \in Nat
  /\ MaxAborts \in Nat /\ MaxResets \in Nat
  /\ LearnFlips \in BOOLEAN /\ NonceTableFull \in BOOLEAN
ASSUME NodeAssumption == Node \subseteq Nat \ {0}
ASSUME JobAssumption == Job \in [Request -> JobType]

VARIABLES
  used,               \* blocks of session_memb that are allocated
  sess,               \* their contents, which outlive memb_free
  session_list,       \* application queue
  send_data_list,     \* low-level queue
  lock, lock_ll,
  current_session, current_session_ll,
  evq,                \* events queued for ZW_SendDataAppl_process
  emergency,          \* the 65 s timer is running
  backoff,            \* "expired", "running", or "orphaned": see Reset
  backoff_node,
  discard,            \* sessions whose discard_timer is running
  tx_sessions,        \* Security 0 transmit sessions
  learn,              \* secure_learn_active()
  cbFunc,             \* cbFuncZWSendData is set
  own, late,          \* completions the chip still owes: for the frame being
                      \* sent, for frames already given up
  result, handle,     \* the application's view of its requests
  calls,              \* times a request's callback was called
  acked,              \* requests whose last frame the chip reported sent
  aborted,            \* requests the application has aborted
  nonces, aborts, resets  \* counters for the bounds

pool == <<used, sess>>
appl == <<session_list, lock, current_session>>
ll == <<send_data_list, lock_ll, current_session_ll, emergency, discard>>
pause == <<backoff, backoff_node>>
chip == <<cbFunc, own, late>>
user == <<result, calls>>
counters == <<nonces, aborts, resets>>
vars == <<used, sess, session_list, send_data_list, lock, lock_ll,
          current_session, current_session_ll, evq, emergency, backoff,
          backoff_node, discard, tx_sessions, learn, cbFunc, own, late,
          result, handle, calls, acked, aborted, nonces, aborts, resets>>

(***************************************************************************)
(* Session contents.  cb is the function stored in the session, user its   *)
(* argument: a pool block for ZW_SendDataAppl_CallbackEx, a Security 0     *)
(* session for the three Security 0 callbacks.  req is the request the     *)
(* frame serves (0 for a frame that serves none).                          *)
(***************************************************************************)
Callback == {"none", "user", "CallbackEx", "noce_get_callback",
             "msg1_callback", "msg2_callback"}
Session == [cb : Callback, user : Nat, req : Request \cup {0}, discard : BOOLEAN]

TxState == {"NONCE_GET", "NONCE_GET_SENT", "ENC_MSG", "ENC_MSG_SENT",
            "ENC_MSG2", "TX_DONE", "TX_FAIL"}
\* left: encapsulated frames that s->data_len still needs.
TxSession == [dnode : Nat, state : TxState, user : Slot, left : 0..2,
              timer : BOOLEAN]

Event == {"SEND_NEXT", "SEND_NEXT_LL", "TIMER_emergency", "TIMER_backoff"}
Result == {"idle", "rejected", "pending", "OK", "FAIL", "ERROR", "dropped"}

\* The process takes event e off its queue.
Take(e) == evq # <<>> /\ Head(evq) = e

Init ==
  /\ used = {} /\ session_list = <<>> /\ send_data_list = <<>>
  /\ sess = [s \in Slot |-> [cb |-> "none", user |-> 0, req |-> 0,
                             discard |-> FALSE]]
  /\ lock = FALSE /\ lock_ll = FALSE
  /\ current_session = NULL /\ current_session_ll = NULL
  /\ evq = <<>> /\ emergency = FALSE
  /\ backoff = "expired" /\ backoff_node = 0 /\ discard = {}
  /\ tx_sessions = [i \in Tx |-> [dnode |-> 0, state |-> "NONCE_GET", user |-> 1,
                                  left |-> 0, timer |-> FALSE]]
  /\ learn = FALSE /\ cbFunc = FALSE /\ own = FALSE /\ late = 0
  /\ result = [r \in Request |-> "idle"] /\ handle = [r \in Request |-> 0]
  /\ calls = [r \in Request |-> 0] /\ acked = {} /\ aborted = {}
  /\ nonces = 0 /\ aborts = 0 /\ resets = 0

(***************************************************************************)
(* ZW_SendDataAppl_CallbackEx, in a handler that found the event queue at  *)
(* q, frees the blocks `freed' besides s, and ends with a post of          *)
(* SEND_NEXT_LL if `llnext'.  Completed is its body, reached with the lock *)
(* held; without it the call is reported as a double callback and ignored. *)
(***************************************************************************)
Completed(s, status, ts, freed, q, llnext) ==
  LET r == sess[s].req
      get == status = "OK" /\ ts /\ Job[r].get
  IN  /\ lock' = FALSE
      /\ used' = used \ (freed \cup {s})
      /\ evq' = PostIf(llnext, PostIf(~get, q, "SEND_NEXT"), "SEND_NEXT_LL")
      /\ backoff' = IF get THEN "running" ELSE backoff
      /\ backoff_node' = IF get THEN Job[r].dnode ELSE backoff_node
      /\ result' = [result EXCEPT ![r] = status]
      /\ calls' = [calls EXCEPT ![r] = @ + 1]

\* Mutant: memb_free is forgotten.
IgnoredNoFree(freed, q, llnext) ==
  /\ used' = used
  /\ evq' = PostIf(llnext, q, "SEND_NEXT_LL")
  /\ UNCHANGED <<lock, pause, user>>

Ignored(freed, q, llnext) ==
  /\ used' = used \ freed
  /\ evq' = PostIf(llnext, q, "SEND_NEXT_LL")
  /\ UNCHANGED <<lock, pause, user>>

CallbackEx(s, status, ts, freed, q, llnext) ==
  IF lock THEN Completed(s, status, ts, freed, q, llnext)
  ELSE Ignored(freed, q, llnext)

(***************************************************************************)
(* send_data: put a low-level frame in block n at the end of the queue.    *)
(* The caller posts SEND_NEXT_LL through evq'.                             *)
(***************************************************************************)
send_data(n, cb, arg, r, disc) ==
  /\ used' = used \cup {n}
  /\ sess' = [sess EXCEPT ![n] = [cb |-> cb, user |-> arg, req |-> r,
                                  discard |-> disc]]
  /\ send_data_list' = Append(send_data_list, n)
  /\ discard' = IF disc THEN discard \cup {n} ELSE discard
  /\ UNCHANGED <<lock_ll, current_session_ll, emergency>>

(***************************************************************************)
(* The application.                                                        *)
(***************************************************************************)
\* ZW_SendDataAppl: the caller gets a handle, or 0 when the pool is empty.
ZW_SendDataAppl(r) ==
  /\ result[r] = "idle"
  /\ \/ /\ used = Slot
        /\ result' = [result EXCEPT ![r] = "rejected"]
        /\ UNCHANGED <<used, sess, session_list, evq, handle>>
     \/ \E s \in Slot :
          /\ memb_alloc(s, Slot, used)
          /\ used' = used \cup {s}
          /\ sess' = [sess EXCEPT ![s] = [cb |-> "user", user |-> 0, req |-> r,
                                          discard |-> FALSE]]
          /\ session_list' = Append(session_list, s)
          /\ evq' = Post(evq, "SEND_NEXT")
          /\ handle' = [handle EXCEPT ![r] = s]
          /\ result' = [result EXCEPT ![r] = "pending"]
  /\ UNCHANGED <<lock, current_session, ll, pause, tx_sessions, learn, chip,
                 calls, acked, aborted, counters>>

Active == {i \in Tx : tx_sessions[i].dnode # 0}
\* Mutant: param.dnode is not cleared.
EndedKeepsNode(i, state) == [tx_sessions[i] EXCEPT !.state = state, !.timer = FALSE]
Ended(i, state) == [tx_sessions[i] EXCEPT !.dnode = 0, !.state = state,
                                          !.timer = FALSE]
\* Mutant: the part just sent is subtracted once more.
MovedTwice(i, state, left, timer) ==
  [tx_sessions[i] EXCEPT !.state = state, !.left = left - 1, !.timer = timer]
\* Mutant: the nonce timer is not started.
MovedNoTimer(i, state, left, timer) ==
  [tx_sessions[i] EXCEPT !.state = state, !.left = left, !.timer = FALSE]
Moved(i, state, left, timer) ==
  [tx_sessions[i] EXCEPT !.state = state, !.left = left, !.timer = timer]

(***************************************************************************)
(* ZW_SendDataApplAbort, called with the handle of a frame that has not    *)
(* completed.  If that block is current_session the chip is told to stop   *)
(* (it will report the frame in its own time) and every Security 0 session *)
(* fails; otherwise a frame still in session_list is taken out and failed. *)
(***************************************************************************)
AbortCurrent(r) ==
  /\ handle[r] = current_session
  /\ tx_sessions' = [i \in Tx |-> IF i \in Active THEN Ended(i, "TX_FAIL")
                                                  ELSE tx_sessions[i]]
  /\ IF Active = {} THEN Ignored({}, evq, FALSE)
     ELSE CallbackEx(tx_sessions[CHOOSE i \in Active : \A j \in Active : i <= j].user,
                     "FAIL", FALSE, {}, evq, FALSE)
  /\ UNCHANGED session_list

\* Mutant: the session is failed but stays queued.
AbortQueuedStays(r) ==
  /\ handle[r] # current_session
  /\ handle[r] \in ToSet(session_list)
  /\ result' = [result EXCEPT ![r] = "FAIL"]
  /\ calls' = [calls EXCEPT ![r] = @ + 1]
  /\ UNCHANGED <<used, session_list, lock, evq, pause, tx_sessions>>

AbortQueued(r) ==
  /\ handle[r] # current_session
  /\ handle[r] \in ToSet(session_list)
  /\ session_list' = list_remove(session_list, handle[r])
  /\ used' = used \ {handle[r]}
  /\ result' = [result EXCEPT ![r] = "FAIL"]
  /\ calls' = [calls EXCEPT ![r] = @ + 1]
  /\ UNCHANGED <<lock, evq, pause, tx_sessions>>

ZW_SendDataApplAbort(r) ==
  /\ result[r] = "pending" /\ aborts < MaxAborts
  /\ AbortCurrent(r) \/ AbortQueued(r)
  /\ aborted' = aborted \cup {r}
  /\ aborts' = aborts + 1
  /\ UNCHANGED <<sess, current_session, ll, learn, chip, handle, acked, nonces,
                 resets>>

(***************************************************************************)
(* SEND_EVENT_SEND_NEXT and send_first.                                    *)
(***************************************************************************)
\* send_endpoint without a security scheme: one low-level frame, or an error.
SendPlain(s) ==
  /\ Job[sess[s].req].scheme = "NO_SCHEME"
  /\ \/ \E n \in Slot :
          /\ memb_alloc(n, Slot, used)
          /\ send_data(n, "CallbackEx", s, sess[s].req, FALSE)
          /\ lock' = TRUE
          /\ evq' = Post(Tail(evq), "SEND_NEXT_LL")
          /\ UNCHANGED <<pause, user>>
     \/ /\ used = Slot
        /\ Completed(s, "ERROR", FALSE, {}, Tail(evq), FALSE)
        /\ UNCHANGED <<sess, ll>>
  /\ UNCHANGED tx_sessions

\* tx_session_state_set(NONCE_GET) starts a timer only during S0 inclusion.
NonceGetTimer == learn

\* sec0_send_data: take the first free session and ask for a nonce.  A node
\* that has a session already, or no free session, is an error.
sec0_send_data(s) ==
  LET d == Job[sess[s].req].dnode
      busy == Active = Tx \/ \E i \in Active : tx_sessions[i].dnode = d
      i == CHOOSE i \in Tx \ Active : \A j \in Tx \ Active : i <= j
      new == [dnode |-> d, state |-> "NONCE_GET", user |-> s,
              left |-> IF Job[sess[s].req].long THEN 2 ELSE 1,
              timer |-> NonceGetTimer]
  IN  /\ Job[sess[s].req].scheme = "SECURITY_SCHEME_0"
      /\ \/ /\ ~busy
            /\ \E n \in Slot :
                 /\ memb_alloc(n, Slot, used)
                 /\ send_data(n, "noce_get_callback", i, sess[s].req, FALSE)
            /\ tx_sessions' = [tx_sessions EXCEPT ![i] = new]
            /\ lock' = TRUE
            /\ evq' = Post(Tail(evq), "SEND_NEXT_LL")
            /\ UNCHANGED <<pause, user>>
         \/ /\ busy \/ used = Slot
            /\ tx_sessions' = IF busy THEN tx_sessions
                 ELSE [tx_sessions EXCEPT ![i] = [new EXCEPT !.dnode = 0,
                         !.state = "TX_FAIL", !.timer = FALSE]]
            /\ Completed(s, IF busy THEN "ERROR" ELSE "FAIL", FALSE, {},
                         Tail(evq), FALSE)
            /\ UNCHANGED <<sess, ll>>

SendNext ==
  /\ Take("SEND_NEXT")
  /\ \/ /\ lock \/ backoff # "expired"
        /\ evq' = Tail(evq)
        /\ UNCHANGED <<pool, appl, ll, pause, user, tx_sessions>>
     \/ /\ ~lock /\ backoff = "expired" /\ session_list = <<>>
        /\ current_session' = NULL
        /\ evq' = Tail(evq)
        /\ UNCHANGED <<pool, session_list, lock, ll, pause, user, tx_sessions>>
     \/ /\ ~lock /\ backoff = "expired" /\ session_list # <<>>
        /\ current_session' = Head(session_list)
        /\ session_list' = Tail(session_list)
        /\ SendPlain(Head(session_list)) \/ sec0_send_data(Head(session_list))
  /\ UNCHANGED <<learn, chip, handle, acked, aborted, counters>>

(***************************************************************************)
(* send_data_callback_func(status, ts) with lock_ll held: the head of the  *)
(* low-level queue is done.  LLDone is followed by the callback stored in  *)
(* that session; q is the event queue the handler found.                   *)
(***************************************************************************)
\* The callback of an application frame sent without a scheme.
LLDonePlain(s, status, ts, q) ==
  /\ sess[s].cb = "CallbackEx"
  /\ CallbackEx(sess[s].user, status, ts, {s}, q, TRUE)
  /\ UNCHANGED tx_sessions

\* A frame without a callback.
LLDoneSilent(s, q) ==
  /\ sess[s].cb = "none"
  /\ Ignored({s}, q, TRUE)
  /\ UNCHANGED tx_sessions

\* noce_get_callback, msg1_callback, msg2_callback: each looks at the session
\* only in the state that waits for it.
Awaits(cb) == CASE cb = "noce_get_callback" -> "NONCE_GET"
                [] cb = "msg1_callback" -> "ENC_MSG"
                [] cb = "msg2_callback" -> "ENC_MSG2"
                [] OTHER -> "none"

\* The next state of tx_session_state_set after the callback; ENC_MSG2_SENT,
\* and ENC_MSG_SENT with nothing left, lead on to TX_DONE at once.
AfterFrameOneOnly(i, status) ==  \* Mutant: the second part is forgotten.
  CASE status # "OK" -> "TX_FAIL"
    [] tx_sessions[i].state = "NONCE_GET" -> "NONCE_GET_SENT"
    [] OTHER -> "TX_DONE"

AfterFrame(i, status) ==
  CASE status # "OK" -> "TX_FAIL"
    [] tx_sessions[i].state = "NONCE_GET" -> "NONCE_GET_SENT"
    [] tx_sessions[i].state = "ENC_MSG" /\ tx_sessions[i].left > 0 -> "ENC_MSG_SENT"
    [] OTHER -> "TX_DONE"

LLDoneSec0(s, status, q) ==
  LET i == sess[s].user
      next == AfterFrame(i, status)
  IN  /\ Awaits(sess[s].cb) # "none"
      /\ \/ /\ tx_sessions[i].state # Awaits(sess[s].cb)
            /\ Ignored({s}, q, TRUE)
            /\ UNCHANGED tx_sessions
         \/ /\ tx_sessions[i].state = Awaits(sess[s].cb)
            /\ next \in {"NONCE_GET_SENT", "ENC_MSG_SENT"}
            /\ tx_sessions' = [tx_sessions EXCEPT ![i] = Moved(i, next,
                 tx_sessions[i].left,
                 IF next = "NONCE_GET_SENT" /\ learn THEN tx_sessions[i].timer
                                                     ELSE TRUE)]
            /\ Ignored({s}, q, TRUE)
         \/ /\ tx_sessions[i].state = Awaits(sess[s].cb)
            /\ next \in {"TX_DONE", "TX_FAIL"}
            /\ tx_sessions' = [tx_sessions EXCEPT ![i] = Ended(i, next)]
            /\ CallbackEx(tx_sessions[i].user,
                          IF next = "TX_DONE" THEN "OK" ELSE "FAIL",
                          next = "TX_DONE", {s}, q, TRUE)

send_data_callback_func(status, ts, q) ==
  LET s == Head(send_data_list)
  IN  /\ send_data_list' = Tail(send_data_list)
      /\ emergency' = FALSE
      /\ lock_ll' = FALSE
      /\ \/ LLDonePlain(s, status, ts, q)
         \/ LLDoneSilent(s, q)
         \/ LLDoneSec0(s, status, q)
      /\ UNCHANGED <<sess, session_list, current_session>>

\* The handler changes nothing but the event queue.
NoEffect(q) ==
  /\ evq' = q
  /\ UNCHANGED <<pool, appl, send_data_list, lock_ll, emergency, pause, user,
                 tx_sessions>>

\* The frame being sent is given up while the chip still owes its completion:
\* that one will be late, or never come.
GiveUp == /\ own' = FALSE
          /\ late' = IF own /\ late < MaxLate THEN late + 1 ELSE late

\* The chip said "sent" about the last frame that carries request r.
LastFrame(s) == \/ sess[s].cb \in {"CallbackEx", "msg2_callback"}
                \/ /\ sess[s].cb = "msg1_callback"
                   /\ ~Job[sess[s].req].long
Acknowledge(s, status) ==
  acked' = IF status = "OK" /\ LastFrame(s) THEN acked \cup {sess[s].req} ELSE acked

(***************************************************************************)
(* SEND_EVENT_SEND_NEXT_LL: the head's discard timer is stopped and the    *)
(* frame handed to the chip, which accepts it or not.                      *)
(***************************************************************************)
\* Mutant: the discard timer is left running.
StopDiscardForgotten == discard' = discard

\* ctimer_stop on the discard timer of the frame about to be sent.
StopDiscard == discard' = discard \ {Head(send_data_list)}

SendNextLL ==
  /\ Take("SEND_NEXT_LL")
  /\ current_session_ll' = IF send_data_list = <<>> THEN NULL
                                                    ELSE Head(send_data_list)
  /\ \/ /\ send_data_list = <<>> \/ lock_ll
        /\ NoEffect(Tail(evq))
        /\ UNCHANGED <<discard, chip>>
     \/ /\ send_data_list # <<>> /\ ~lock_ll
        /\ StopDiscard
        /\ lock_ll' = TRUE /\ emergency' = TRUE
        /\ cbFunc' = TRUE /\ own' = TRUE
        /\ evq' = Tail(evq)
        /\ UNCHANGED <<pool, appl, send_data_list, pause, user, tx_sessions, late>>
     \/ /\ send_data_list # <<>> /\ ~lock_ll
        /\ StopDiscard
        /\ cbFunc' = FALSE
        /\ send_data_callback_func("FAIL", FALSE, Tail(evq))
        /\ UNCHANGED <<own, late>>
  /\ UNCHANGED <<learn, handle, acked, aborted, counters>>

(***************************************************************************)
(* The chip.  Dispatch of a send-data completion takes the registered      *)
(* callback, clears it and calls it, whatever transmission it was          *)
(* registered for.                                                         *)
(***************************************************************************)
Dispatch(status, ts) ==
  /\ cbFunc' = FALSE
  /\ IF cbFunc /\ lock_ll THEN send_data_callback_func(status, ts, evq)
                          ELSE NoEffect(evq)
  /\ UNCHANGED <<current_session_ll, discard, learn, handle, aborted, counters>>

\* The chip completes the frame it was given last.
ChipDone(status, ts) ==
  /\ own
  /\ own' = FALSE /\ UNCHANGED late
  /\ Acknowledge(Head(send_data_list), status)
  /\ Dispatch(status, ts)

\* A completion arrives for a frame that was given up.
ChipLate(status, ts) ==
  /\ late > 0
  /\ own' = IF cbFunc /\ lock_ll THEN FALSE ELSE own
  /\ late' = IF cbFunc /\ lock_ll /\ own THEN late ELSE late - 1
  /\ UNCHANGED acked
  /\ Dispatch(status, ts)

\* The completion is lost (the chip restarted, or QueueFrame dropped it).
ChipLost ==
  /\ own
  /\ own' = FALSE
  /\ UNCHANGED <<used, sess, appl, ll, evq, pause, tx_sessions, learn, cbFunc,
                 late, user, handle, acked, aborted, counters>>

(***************************************************************************)
(* Timers.  An etimer that expires is unlinked and posts an event to its   *)
(* process, as soon as the queue has room; etimer_stop does not take that  *)
(* event back.                                                             *)
(***************************************************************************)
EmergencyExpires ==
  /\ emergency /\ Len(evq) < NumEvents
  /\ emergency' = FALSE
  /\ evq' = Append(evq, "TIMER_emergency")
  /\ UNCHANGED <<pool, appl, send_data_list, lock_ll, current_session_ll,
                 discard, pause, tx_sessions, learn, chip, user, handle, acked,
                 aborted, counters>>

EmergencyEvent ==
  /\ Take("TIMER_emergency")
  /\ IF lock_ll THEN send_data_callback_func("FAIL", FALSE, Tail(evq)) /\ GiveUp
                ELSE NoEffect(Tail(evq)) /\ UNCHANGED <<own, late>>
  /\ UNCHANGED <<current_session_ll, discard, learn, cbFunc, handle, acked,
                 aborted, counters>>

BackoffExpires ==
  /\ backoff = "running" /\ Len(evq) < NumEvents
  /\ backoff' = "expired"
  /\ evq' = Append(evq, "TIMER_backoff")
  /\ UNCHANGED <<pool, appl, ll, backoff_node, tx_sessions, learn, chip, user,
                 handle, acked, aborted, counters>>

\* Mutant: the expired pause does not restart the queue.
BackoffEventSilent ==
  /\ Take("TIMER_backoff")
  /\ evq' = Tail(evq)
  /\ UNCHANGED <<pool, appl, ll, pause, tx_sessions, learn, chip, user, handle,
                 acked, aborted, counters>>

BackoffEvent ==
  /\ Take("TIMER_backoff")
  /\ evq' = Post(Tail(evq), "SEND_NEXT")
  /\ UNCHANGED <<pool, appl, ll, pause, tx_sessions, learn, chip, user, handle,
                 acked, aborted, counters>>

\* do_discard_timeout_memb: a low-level frame waited too long for its turn.
do_discard_timeout_memb(s) ==
  /\ s \in discard
  /\ discard' = discard \ {s}
  /\ send_data_list' = list_remove(send_data_list, s)
  /\ used' = used \ {s}
  /\ UNCHANGED <<sess, appl, lock_ll, current_session_ll, emergency, evq, pause,
                 tx_sessions, learn, chip, user, handle, acked, aborted, counters>>

\* tx_timeout: no nonce came.
tx_timeout(i) ==
  /\ tx_sessions[i].timer
  /\ tx_sessions' = [tx_sessions EXCEPT ![i] = Ended(i, "TX_FAIL")]
  /\ CallbackEx(tx_sessions[i].user, "FAIL", FALSE, {}, evq, FALSE)
  /\ UNCHANGED <<sess, session_list, current_session, ll, learn, chip, handle,
                 acked, aborted, counters>>

(***************************************************************************)
(* Frames from the network.                                                *)
(***************************************************************************)
\* ZW_SendDataAppl_FrameRX_Notify: the report the pause was for has come.
FrameRX_Notify(d) ==
  /\ backoff # "expired" /\ d = backoff_node
  /\ backoff' = "expired"
  /\ evq' = Post(evq, "SEND_NEXT")
  /\ UNCHANGED <<pool, appl, ll, backoff_node, tx_sessions, learn, chip, user,
                 handle, acked, aborted, counters>>

\* sec0_register_nonce with a fresh nonce from node d: the session that waits
\* for one encrypts its next frame and queues it.  Encryption fails when the
\* nonce table had no room for the nonce.
NonceFor(i) ==
  CASE tx_sessions[i].state \in {"NONCE_GET", "NONCE_GET_SENT"} -> "ENC_MSG"
    [] tx_sessions[i].state = "ENC_MSG_SENT" -> "ENC_MSG2"
    [] tx_sessions[i].state = "ENC_MSG" /\ tx_sessions[i].left > 0 -> "ENC_MSG2"
    [] OTHER -> "none"

sec0_register_nonce(d) ==
  \E i \in Active :
    /\ tx_sessions[i].dnode = d
    /\ \A j \in Active : tx_sessions[j].dnode = d => i <= j
    /\ NonceFor(i) # "none"
    /\ \/ \E n \in Slot :
            /\ memb_alloc(n, Slot, used)
            /\ send_data(n, IF NonceFor(i) = "ENC_MSG" THEN "msg1_callback"
                                                       ELSE "msg2_callback",
                         i, sess[tx_sessions[i].user].req, FALSE)
            /\ tx_sessions' = [tx_sessions EXCEPT
                 ![i] = Moved(i, NonceFor(i), tx_sessions[i].left - 1, FALSE)]
            /\ evq' = Post(evq, "SEND_NEXT_LL")
            /\ UNCHANGED <<lock, pause, user>>
       \/ /\ used = Slot \/ NonceTableFull
          /\ tx_sessions' = [tx_sessions EXCEPT ![i] = Ended(i, "TX_FAIL")]
          /\ CallbackEx(tx_sessions[i].user, "FAIL", FALSE, {}, evq, FALSE)
          /\ UNCHANGED <<sess, ll>>
    /\ UNCHANGED <<session_list, current_session, learn, chip, handle, acked,
                   aborted, counters>>

\* sec0_send_nonce and the nonce reports of S2: a low-level frame that serves
\* no request, with a discard timer in the case of S2.  send_data may fail.
SendNonceReport(disc) ==
  /\ nonces < MaxNonceReports
  /\ \E n \in Slot :
       /\ memb_alloc(n, Slot, used)
       /\ send_data(n, "none", 0, 0, disc)
  /\ evq' = Post(evq, "SEND_NEXT_LL")
  /\ nonces' = nonces + 1
  /\ UNCHANGED <<appl, pause, tx_sessions, learn, chip, user, handle, acked,
                 aborted, aborts, resets>>

\* The S0 inclusion machine leaves or enters its idle state.
LearnFlip ==
  /\ LearnFlips
  /\ learn' = ~learn
  /\ UNCHANGED <<pool, appl, ll, evq, pause, tx_sessions, chip, user, handle,
                 acked, aborted, counters>>

(***************************************************************************)
(* ZW_SendDataAppl_init.  The locks are dropped before the Security 0      *)
(* sessions are failed, so that their callbacks are ignored; the pool and  *)
(* the queues are emptied; the process is stopped and started.  Stopping   *)
(* it unlinks its timers without marking them expired, and leaves its      *)
(* queued events.  current_session and current_session_ll stay.            *)
(***************************************************************************)
ZW_SendDataAppl_init ==
  /\ resets < MaxResets
  /\ resets' = resets + 1
  /\ lock' = FALSE /\ lock_ll' = FALSE
  /\ tx_sessions' = [i \in Tx |-> IF i \in Active THEN Ended(i, "TX_FAIL")
                                                  ELSE tx_sessions[i]]
  /\ session_list' = <<>> /\ send_data_list' = <<>>
  /\ used' = {}
  /\ sess' = [s \in Slot |-> [cb |-> "none", user |-> 0, req |-> 0,
                              discard |-> FALSE]]
  /\ discard' = {} /\ emergency' = FALSE
  /\ backoff' = IF backoff = "running" THEN "orphaned" ELSE backoff
  /\ GiveUp
  /\ result' = [r \in Request |-> IF result[r] = "pending" THEN "dropped"
                                                           ELSE result[r]]
  /\ UNCHANGED <<current_session, current_session_ll, evq, backoff_node, learn,
                 cbFunc, handle, calls, acked, aborted, nonces, aborts>>

Events == SendNext \/ SendNextLL \/ EmergencyEvent \/ BackoffEvent

Next ==
  \/ Events
  \/ EmergencyExpires \/ BackoffExpires
  \/ \E s \in Slot : do_discard_timeout_memb(s)
  \/ \E i \in Tx : tx_timeout(i)
  \/ \E status \in {"OK", "FAIL"}, ts \in BOOLEAN :
       ChipDone(status, ts) \/ ChipLate(status, ts)
  \/ ChipLost
  \/ \E d \in Node : FrameRX_Notify(d) \/ sec0_register_nonce(d)
  \/ \E disc \in BOOLEAN : SendNonceReport(disc)
  \/ \E r \in Request : ZW_SendDataAppl(r) \/ ZW_SendDataApplAbort(r)
  \/ LearnFlip
  \/ ZW_SendDataAppl_init

Spec == Init /\ [][Next]_vars

(***************************************************************************)
(* The scheduler keeps delivering queued events and expired timers.        *)
(* Nothing is assumed of the chip, the network or the application.         *)
(***************************************************************************)
FairSpec == /\ Spec
            /\ WF_vars(Events)
            /\ WF_vars(EmergencyExpires)
            /\ WF_vars(BackoffExpires)
            /\ \A i \in Tx : WF_vars(tx_timeout(i))

----------------------------------------------------------------------------
\* Every variable has its type: the lists hold blocks of session_memb, and the
\* Security 0 sessions point to such a block.
TypeOK ==
  /\ used \subseteq Slot
  /\ sess \in [Slot -> Session]
  /\ session_list \in Seq(Slot) /\ send_data_list \in Seq(Slot)
  /\ lock \in BOOLEAN /\ lock_ll \in BOOLEAN
  /\ current_session \in Slot \cup {NULL}
  /\ current_session_ll \in Slot \cup {NULL}
  /\ evq \in Seq(Event) /\ emergency \in BOOLEAN
  /\ backoff \in {"expired", "running", "orphaned"}
  /\ backoff_node \in Node \cup {0} /\ discard \subseteq Slot
  /\ tx_sessions \in [Tx -> TxSession]
  /\ learn \in BOOLEAN /\ cbFunc \in BOOLEAN /\ own \in BOOLEAN
  /\ late \in 0..MaxLate
  /\ result \in [Request -> Result] /\ handle \in [Request -> Slot \cup {0}]
  /\ calls \in [Request -> Nat]
  /\ acked \subseteq Request /\ aborted \subseteq Request
  /\ nonces \in Nat /\ aborts \in Nat /\ resets \in Nat

\* The pool is exactly accounted for: a block is allocated if and only if it is
\* in one of the two queues, once, or is the application frame being sent.  A
\* path through CallbackEx, send_data_callback_func, the discard timer or an
\* abort that freed twice or not at all would break it.
PoolConsistent ==
  /\ used = ToSet(session_list) \cup ToSet(send_data_list)
              \cup (IF lock THEN {current_session} ELSE {})
  /\ IsInjective(session_list) /\ IsInjective(send_data_list)
  /\ ToSet(session_list) \cap ToSet(send_data_list) = {}
  /\ lock => current_session \notin ToSet(session_list) \cup ToSet(send_data_list)

\* "SendSecurity - internal call, single session call": at most one Security 0
\* session is active, and its callback will complete the application frame
\* that holds the lock.
Sec0SingleSession ==
  \A i \in Active : /\ lock /\ tx_sessions[i].user = current_session
                    /\ \A j \in Active : i = j

\* While the chip has a frame, that frame is the head of the low-level queue
\* and no discard timer can take it away: send_data_callback_func pops the
\* head and uses it without a check.
ChipHasHead ==
  lock_ll => /\ send_data_list # <<>>
             /\ Head(send_data_list) = current_session_ll
             /\ Head(send_data_list) \notin discard

\* No wake-up is lost while the event queue has room: a queue that could be
\* served has an event on its way that will serve it, and a frame the chip has
\* is watched by the emergency timer.  SEND_NEXT and SEND_NEXT_LL are dropped
\* when they find a lock held, so each unlock must repost.
NoLostWakeup ==
  /\ session_list # <<>> /\ ~lock /\ backoff = "expired" =>
       \E e \in {"SEND_NEXT", "TIMER_backoff"} : e \in ToSet(evq)
  /\ send_data_list # <<>> /\ ~lock_ll => "SEND_NEXT_LL" \in ToSet(evq)
  /\ lock_ll => emergency \/ "TIMER_emergency" \in ToSet(evq)

\* The callback given to ZW_SendDataAppl is called exactly once for a frame
\* that was accepted and has ended, and not before.
CalledOnce ==
  \A r \in Request :
    calls[r] = IF result[r] \in {"OK", "FAIL", "ERROR"} THEN 1 ELSE 0

\* The frame at the head of the low-level queue outlived its request, which an
\* abort, an empty pool or a full nonce table has ended.  The session it points to
\* may serve another request by now.
StaleHead ==
  /\ send_data_list # <<>>
  /\ LET r == sess[Head(send_data_list)].req
     IN  r \in Request /\ result[r] # "pending"

\* TRANSMIT_COMPLETE_OK reaches the application only for a frame whose own
\* last low-level frame the chip reported as sent, unless msg1_callback or
\* msg2_callback of a stale frame took the session for its own.
OkMeansSent ==
  [][\A r \in Request :
       result[r] # "OK" /\ result'[r] = "OK" /\ ~StaleHead => r \in acked']_vars

\* Mutant: the current sessions are not looked at.
idleQueuesOnly == session_list = <<>> /\ send_data_list = <<>>

\* ZW_SendDataAppl_idle.
idle == /\ current_session = NULL /\ current_session_ll = NULL
        /\ session_list = <<>> /\ send_data_list = <<>>

\* "True if SendDataAppl has nothing to send, false otherwise": idle implies
\* that no block of the pool is in use, and once nothing is queued, being sent
\* or waited for, idle holds.  This is before any ZW_SendDataAppl_init, which
\* leaves current_session and current_session_ll as they are.
IdleExact ==
  /\ idle => used = {}
  /\ used = {} /\ evq = <<>> /\ backoff = "expired" => idle

\* "callback function to be called in completion": every accepted frame ends.
Completes == \A r \in Request : result[r] = "pending" ~> result[r] # "pending"

\* The stack implements the service its header promises: whatever happens inside,
\* a caller sees a frame accepted or rejected, then completed once or dropped by
\* a restart, and no two frames complete in one step.
Service == INSTANCE SendService
ImplementsService == Service!Spec

----------------------------------------------------------------------------
(***************************************************************************)
(* The inductive invariant behind PoolConsistent, Sec0SingleSession,       *)
(* ChipHasHead and CalledOnce: what the pointers stored in sessions,       *)
(* timers and the callback slot may still refer to.                        *)
(***************************************************************************)
Live == ToSet(session_list) \cup (IF lock THEN {current_session} ELSE {})

\* Requests and the application sessions that carry them correspond.
RequestLinks ==
  /\ \A s \in Live : /\ sess[s].req \in Request
                     /\ result[sess[s].req] = "pending"
  /\ \A s, t \in Live : sess[s].req = sess[t].req => s = t
  /\ \A r \in Request : result[r] = "pending" =>
       handle[r] \in Live /\ sess[handle[r]].req = r

\* A queued frame's callback leads to the frame that holds the lock, or to a
\* Security 0 session.
FrameLinks ==
  \A s \in ToSet(send_data_list) :
    /\ sess[s].cb # "user"
    /\ sess[s].cb # "none" => sess[s].req \in Request
    /\ sess[s].cb = "CallbackEx" =>
         /\ lock /\ sess[s].user = current_session /\ Active = {}
         /\ \A t \in ToSet(send_data_list) : sess[t].cb = "CallbackEx" => t = s
    /\ Awaits(sess[s].cb) # "none" =>
         /\ sess[s].user \in Tx
         /\ \/ sess[s].user \in Active
            \/ tx_sessions[sess[s].user].state \in {"TX_DONE", "TX_FAIL"}

\* Timers and completions refer to something that is still there.
TimerLinks ==
  /\ discard \subseteq ToSet(send_data_list)
  /\ \A i \in Tx : tx_sessions[i].timer => i \in Active
  /\ \A i \in Active : tx_sessions[i].left > 0 \/ NonceFor(i) = "none"
  /\ own => lock_ll
  /\ emergency => lock_ll

IInv == /\ TypeOK /\ PoolConsistent /\ Sec0SingleSession /\ ChipHasHead
        /\ CalledOnce /\ RequestLinks /\ FrameLinks /\ TimerLinks

============================================================================
