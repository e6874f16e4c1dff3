------------------------ MODULE SendDataApplService ------------------------
(***************************************************************************)
(* The send-data stack implements SendService: proof that every step is,   *)
(* to the callers of ZW_SendDataAppl, a step of the service or no step.    *)
(* RequestLinks carries it: whatever block CallbackEx is handed belongs to *)
(* a frame that is still pending.                                          *)
(***************************************************************************)
EXTENDS SendDataApplProofs

\* CallbackEx completes one pending frame, or does nothing the caller sees.
LEMMA CallbackExServes ==
  ASSUME IInv, NEW s, NEW status \in {"OK", "FAIL", "ERROR"}, NEW ts, NEW freed,
         NEW q, NEW llnext, CallbackEx(s, status, ts, freed, q, llnext),
         lock => s \in Live
  PROVE  [Service!Next]_result
<1>1. CASE ~lock
  BY <1>1 DEF CallbackEx, Ignored, user
<1>2. CASE lock
  <2>1. sess[s].req \in Request /\ result[sess[s].req] = "pending"
    BY <1>2 DEF IInv, RequestLinks
  <2>2. result' = [result EXCEPT ![sess[s].req] = status]
    BY <1>2 DEF CallbackEx, Completed
  <2> QED
    BY <2>1, <2>2, Zenon DEF Service!Next, Service!Complete, Service!Status
<1> QED
  BY <1>1, <1>2

\* So does the failure of an active Security 0 session.
LEMMA CurrentIsLive ==
  ASSUME IInv
  PROVE  /\ lock => current_session \in Live
         /\ \A i \in Active : tx_sessions[i].user \in Live
BY DEF IInv, Sec0SingleSession, Live

\* The end of the low-level frame at the head of its queue.
LEMMA CallbackFuncServes ==
  ASSUME IInv, send_data_list # <<>>, NEW status \in {"OK", "FAIL"}, NEW ts, NEW q,
         send_data_callback_func(status, ts, q)
  PROVE  [Service!Next]_result
<1> DEFINE s == Head(send_data_list)
<1>1. s \in ToSet(send_data_list)
  BY TailElements DEF IInv, TypeOK
<1>2. status \in {"OK", "FAIL", "ERROR"} /\ "OK" \in {"OK", "FAIL", "ERROR"}
      /\ "FAIL" \in {"OK", "FAIL", "ERROR"}
  OBVIOUS
<1>3. CASE LLDonePlain(s, status, ts, q)
  <2>1. sess[s].user \in Live
    BY <1>1, <1>3, CurrentIsLive DEF LLDonePlain, IInv, FrameLinks
  <2> QED
    BY <1>2, <1>3, <2>1, CallbackExServes, Zenon DEF LLDonePlain
<1>4. CASE LLDoneSilent(s, q)
  BY <1>4 DEF LLDoneSilent, Ignored, user
<1>5. CASE LLDoneSec0(s, status, q)
  <2> DEFINE i == sess[s].user
  <2>1. CASE Ignored({s}, q, TRUE)
    BY <2>1 DEF Ignored, user
  <2>2. CASE /\ tx_sessions[i].state = Awaits(sess[s].cb)
             /\ Awaits(sess[s].cb) # "none"
             /\ CallbackEx(tx_sessions[i].user,
                           IF AfterFrame(i, status) = "TX_DONE" THEN "OK" ELSE "FAIL",
                           AfterFrame(i, status) = "TX_DONE", {s}, q, TRUE)
    <3>1. i \in Active
      BY <1>1, <2>2 DEF IInv, FrameLinks, Awaits
    <3>2. tx_sessions[i].user \in Live
      BY <3>1, CurrentIsLive
    <3> QED
      BY <1>2, <2>2, <3>2, CallbackExServes, Zenon
  <2> QED
    BY <1>5, <2>1, <2>2, Zenon DEF LLDoneSec0
<1> QED
  BY <1>3, <1>4, <1>5 DEF send_data_callback_func

\* The events of the process.
LEMMA EventsServe ==
  ASSUME IInv, Events
  PROVE  [Service!Next]_result
<1>1. "FAIL" \in {"OK", "FAIL"} /\ "FAIL" \in {"OK", "FAIL", "ERROR"}
      /\ "ERROR" \in {"OK", "FAIL", "ERROR"}
  OBVIOUS
<1>2. CASE SendNext
  <2>1. CASE UNCHANGED user
    BY <2>1 DEF user
  <2>2. ASSUME session_list # <<>>, NEW status \in {"FAIL", "ERROR"},
               Completed(Head(session_list), status, FALSE, {}, Tail(evq), FALSE)
        PROVE  [Service!Next]_result
    <3> DEFINE s == Head(session_list)
    <3>1. s \in Live
      BY <2>2, TailElements DEF IInv, TypeOK, Live
    <3>2. sess[s].req \in Request /\ result[sess[s].req] = "pending"
      BY <3>1 DEF IInv, RequestLinks
    <3>3. result' = [result EXCEPT ![sess[s].req] = status]
      BY <2>2 DEF Completed
    <3> QED
      BY <3>2, <3>3, Zenon DEF Service!Next, Service!Complete, Service!Status
  <2>3. ASSUME session_list # <<>>, SendPlain(Head(session_list))
        PROVE  [Service!Next]_result
    BY <2>1, <2>2, <2>3, Zenon DEF SendPlain
  <2>4. ASSUME session_list # <<>>, sec0_send_data(Head(session_list))
        PROVE  [Service!Next]_result
    BY <2>1, <2>2, <2>4, Zenon DEF sec0_send_data
  <2> QED
    BY <1>2, <2>1, <2>3, <2>4, Zenon DEF SendNext
<1>3. CASE SendNextLL
  <2>1. CASE UNCHANGED user
    BY <2>1 DEF user
  <2>2. CASE NoEffect(Tail(evq))
    BY <2>2 DEF NoEffect, user
  <2>3. CASE send_data_list # <<>> /\ send_data_callback_func("FAIL", FALSE, Tail(evq))
    BY <1>1, <2>3, CallbackFuncServes
  <2> QED
    BY <1>3, <2>1, <2>2, <2>3, Zenon DEF SendNextLL
<1>4. CASE EmergencyEvent
  <2>1. CASE lock_ll /\ send_data_callback_func("FAIL", FALSE, Tail(evq))
    BY <1>1, <2>1, LockFacts, CallbackFuncServes
  <2>2. CASE NoEffect(Tail(evq))
    BY <2>2 DEF NoEffect, user
  <2> QED
    BY <1>4, <2>1, <2>2, Zenon DEF EmergencyEvent
<1>5. CASE BackoffEvent
  BY <1>5 DEF BackoffEvent, user
<1> QED
  BY <1>2, <1>3, <1>4, <1>5 DEF Events

\* Completions from the chip.
LEMMA ChipServes ==
  ASSUME IInv, NEW status \in {"OK", "FAIL"}, NEW ts, Dispatch(status, ts)
  PROVE  [Service!Next]_result
<1>1. CASE lock_ll /\ send_data_callback_func(status, ts, evq)
  BY <1>1, LockFacts, CallbackFuncServes
<1>2. CASE NoEffect(evq)
  BY <1>2 DEF NoEffect, user
<1> QED
  BY <1>1, <1>2, Zenon DEF Dispatch

\* The timer of a Security 0 session, and a nonce for it.
LEMMA Sec0Serves ==
  ASSUME IInv, \/ \E i \in Tx : tx_timeout(i)
               \/ \E d \in Node : sec0_register_nonce(d)
  PROVE  [Service!Next]_result
<1>1. "FAIL" \in {"OK", "FAIL", "ERROR"}
  OBVIOUS
<1>2. ASSUME NEW i \in Tx, tx_timeout(i)
      PROVE  [Service!Next]_result
  <2>1. tx_sessions[i].user \in Live
    BY <1>2, CurrentIsLive DEF tx_timeout, IInv, TimerLinks
  <2> QED
    BY <1>1, <1>2, <2>1, CallbackExServes, Zenon DEF tx_timeout
<1>3. ASSUME NEW d \in Node, sec0_register_nonce(d)
      PROVE  [Service!Next]_result
  <2>1. PICK i \in Active :
          \/ UNCHANGED <<lock, pause, user>>
          \/ CallbackEx(tx_sessions[i].user, "FAIL", FALSE, {}, evq, FALSE)
    BY <1>3, Zenon DEF sec0_register_nonce
  <2>2. tx_sessions[i].user \in Live
    BY CurrentIsLive
  <2>3. CASE UNCHANGED <<lock, pause, user>>
    BY <2>3 DEF user
  <2> QED
    BY <1>1, <2>1, <2>2, <2>3, CallbackExServes, Zenon
<1> QED
  BY <1>2, <1>3

\* The calls of the application.
LEMMA ApplicationServes ==
  ASSUME IInv, NEW r \in Request, ZW_SendDataAppl(r) \/ ZW_SendDataApplAbort(r)
  PROVE  [Service!Next]_result
<1>1. CASE ZW_SendDataAppl(r)
  BY <1>1, Zenon DEF ZW_SendDataAppl, Service!Next, Service!Accept, Service!Reject
<1>2. CASE ZW_SendDataApplAbort(r)
  <2>1. CASE AbortQueued(r)
    BY <1>2, <2>1, Zenon
       DEF ZW_SendDataApplAbort, AbortQueued, Service!Next, Service!Complete, Service!Status
  <2>2. CASE AbortCurrent(r)
    <3> DEFINE i == CHOOSE i \in Active : \A j \in Active : i <= j
    <3>1. CASE Active = {}
      BY <2>2, <3>1 DEF AbortCurrent, Ignored, user
    <3>2. CASE Active # {}
      <4>1. i \in Active
        <5>1. PICK j \in Active : TRUE
          BY <3>2
        <5>2. \A x \in Active : x = j /\ x \in Nat
          BY SizesAssumption DEF IInv, Sec0SingleSession, Active, Tx
        <5>3. \A x \in Active : j <= x
          BY <5>2
        <5> QED
          BY <5>1, <5>3
      <4>2. tx_sessions[i].user \in Live /\ "FAIL" \in {"OK", "FAIL", "ERROR"}
        BY <4>1, CurrentIsLive
      <4>3. CallbackEx(tx_sessions[i].user, "FAIL", FALSE, {}, evq, FALSE)
        BY <2>2, <3>2, Zenon DEF AbortCurrent
      <4> HIDE DEF i
      <4> QED
        BY <4>2, <4>3, CallbackExServes, Zenon
    <3> QED
      BY <3>1, <3>2
  <2> QED
    BY <1>2, <2>1, <2>2, Zenon DEF ZW_SendDataApplAbort
<1> QED
  BY <1>1, <1>2

\* Every step of the stack is a step of the service or leaves it alone.
LEMMA StepServes == IInv /\ [Next]_vars => [Service!Next]_result
<1> SUFFICES ASSUME IInv, [Next]_vars
             PROVE  [Service!Next]_result
  OBVIOUS
<1>1. CASE UNCHANGED vars
  BY <1>1 DEF vars
<1>2. CASE Events
  BY <1>2, EventsServe
<1>3. CASE \/ EmergencyExpires \/ BackoffExpires \/ ChipLost \/ LearnFlip
           \/ \E s \in Slot : do_discard_timeout_memb(s)
           \/ \E d \in Node : FrameRX_Notify(d)
           \/ \E disc \in BOOLEAN : SendNonceReport(disc)
  BY <1>3, Zenon DEF EmergencyExpires, BackoffExpires, ChipLost, LearnFlip, user,
     do_discard_timeout_memb, FrameRX_Notify, SendNonceReport
<1>4. CASE (\E i \in Tx : tx_timeout(i)) \/ (\E d \in Node : sec0_register_nonce(d))
  BY <1>4, Sec0Serves
<1>5. CASE \E status \in {"OK", "FAIL"}, ts \in BOOLEAN :
             ChipDone(status, ts) \/ ChipLate(status, ts)
  BY <1>5, ChipServes, Zenon DEF ChipDone, ChipLate
<1>6. CASE \E r \in Request : ZW_SendDataAppl(r) \/ ZW_SendDataApplAbort(r)
  BY <1>6, ApplicationServes, Zenon
<1>7. CASE ZW_SendDataAppl_init
  BY <1>7, Zenon DEF ZW_SendDataAppl_init, Service!Next, Service!Drop
<1> QED
  BY <1>1, <1>2, <1>3, <1>4, <1>5, <1>6, <1>7, Zenon DEF Next

\* The send-data stack implements the service that ZW_SendDataAppl.h describes,
\* for any number of pool blocks, sessions, nodes and requests and with every
\* fault of the model: a frame is accepted or rejected, then completes once or is
\* dropped by a restart.
THEOREM StackImplementsService == Spec => ImplementsService
<1>1. Init => Service!Init
  BY DEF Init, Service!Init
<1> QED
  BY <1>1, StepServes, Invariance, PTL DEF Spec, ImplementsService, Service!Spec
============================================================================
