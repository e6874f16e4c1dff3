----------------------------- MODULE SerialLink -----------------------------
(***************************************************************************)
(* The serial link between the host and the Z-Wave chip: the frame handler *)
(* of conhandle.c and the calls of Serialapi.c that use it (SendFrame,     *)
(* SendFrameWithResponse, DrainRX, QueueFrame, SerialAPI_Poll).            *)
(*                                                                         *)
(* The two directions of the port are queues of tokens: an ACK, NAK or CAN *)
(* byte, or a whole frame (ConUpdate reads the rest of a frame in one      *)
(* blocking call once it has the length byte).  Tokens can be lost and     *)
(* frames damaged, at most MaxFaults times.                                *)
(*                                                                         *)
(* The host code runs in the main loop and, in the build with the custom   *)
(* SAPI process, also in the handler of SIGUSR2 (sock_listner), which      *)
(* interrupts the main loop anywhere and runs to its end before the loop   *)
(* goes on.  Both share AckNakNeeded, serBuf and rxQueue.                  *)
(***************************************************************************)
EXTENDS Naturals, Sequences, SequencesExt

CONSTANTS
  Cmds,           \* serial commands the host sends
  Answered,       \* the commands the chip answers with a RESPONSE frame
  Attempts,       \* iterations of SendFrame's loop: 20
  ReopenPeriod,   \* the port is reopened every so many attempts: 8
  ResponseTries,  \* iterations of SendFrameWithResponse's loop: 3
  MAX_RXQUEUE_LEN,\* 10
  Signals,        \* whether SIGUSR2 may interrupt the main loop
  MaxCalls, MaxRequests, MaxFaults, MaxResends   \* bounds

ASSUME LinkAssumption ==
  /\ Attempts > 1
  /\ Answered \subseteq Cmds
  /\ {Attempts, ReopenPeriod, ResponseTries, MAX_RXQUEUE_LEN} \subseteq Nat \ {0}
  /\ Signals \in BOOLEAN
  /\ {MaxCalls, MaxRequests, MaxFaults, MaxResends} \subseteq Nat

VARIABLES
  ctx,          \* the two contexts of the host, "main" and "signal"
  AckNakNeeded, \* conhandle.c: a transmitted frame waits for its ACK
  serBuf,       \* the last frame received
  rxQueue,      \* REQUEST frames waiting for Dispatch
  toChip, toHost, \* the two directions of the port
  chip,         \* the frame the chip waits to have acknowledged, and its retries
  calls,        \* calls made so far; call n carries serial number n
  requests,     \* REQUEST frames the chip has sent so far
  faults,       \* what the line has lost or damaged so far
  \* history
  accepted,     \* calls whose frame the chip has acknowledged
  outcome,      \* what each call returned
  gaveUp,       \* some SendFrame has run out of attempts
  dispatched,   \* REQUEST frames handed to Dispatch, in order
  dropped,      \* REQUEST frames that met a full rxQueue
  confirmed     \* REQUEST frames of the chip that the host acknowledged

host == <<ctx, AckNakNeeded, serBuf, rxQueue, calls>>
history == <<accepted, outcome, gaveUp, dispatched, dropped, confirmed>>
vars == <<host, toChip, toHost, chip, requests, faults, history>>

Contexts == {"main", "signal"}
CallIds == 1..MaxCalls
RequestIds == 1..MaxRequests
NoFrame == [type |-> "none"]

\* Frames: a host command (always REQUEST), the chip's answer to it, and the
\* chip's own requests (callbacks and received commands).
Command(n, c) == [type |-> "command", id |-> n, cmd |-> c, good |-> TRUE]
Response(n, c) == [type |-> "RESPONSE", id |-> n, cmd |-> c, good |-> TRUE]
Request(n) == [type |-> "REQUEST", id |-> n, good |-> TRUE]
Byte(b) == [type |-> b]
IsFrame(t) == t.type \in {"command", "REQUEST", "RESPONSE"}


-----------------------------------------------------------------------------
(* The host: one ConUpdate.                                                *)

Idle == [pc |-> "idle", call |-> 0, cmd |-> "none", i |-> 0, after |-> "idle"]

\* The signal handler runs to its end before the main loop goes on.
At(c, pcs) == ctx[c].pc \in pcs /\ (c = "main" => ctx["signal"].pc = "idle")

Goto(c, pc) == ctx' = [ctx EXCEPT ![c].pc = pc]

\* Nothing is on its way in either direction.  The host's timers (1.5 s for an
\* ACK, 1.6 s for a response, at least 10 ms of backoff) are long against the
\* line and the chip's reaction: they expire on a quiet line only.
Quiet == toChip = <<>> /\ toHost = <<>>

\* A CAN taken for an ACK.
RetValCanSent(t) ==
  CASE IsFrame(t) -> IF t.good THEN "conFrameReceived" ELSE "conFrameErr"
    [] ~IsFrame(t) /\ ~AckNakNeeded -> "skip"
    [] t.type \in {"ACK", "CAN"} /\ AckNakNeeded -> "conFrameSent"
    [] t.type = "NAK" /\ AckNakNeeded -> "conTxErr"

\* retVal for one token, in stateSOFHunt.  "skip": the token is ignored and
\* ConUpdate goes on reading.
RetVal(t) ==
  CASE IsFrame(t) -> IF t.good THEN "conFrameReceived" ELSE "conFrameErr"
    [] ~IsFrame(t) /\ ~AckNakNeeded -> "skip"
    [] t.type = "ACK" /\ AckNakNeeded -> "conFrameSent"
    [] t.type = "NAK" /\ AckNakNeeded -> "conTxErr"
    [] t.type = "CAN" /\ AckNakNeeded -> "conTxWait"

\* Every frame is answered with ACK or NAK as it is read, and lands in serBuf.
ReadToken(ret) ==
  /\ toHost # <<>>
  /\ ret = RetVal(Head(toHost))
  /\ toHost' = Tail(toHost)
  /\ AckNakNeeded' = (AckNakNeeded /\ IsFrame(Head(toHost)))
  /\ IF IsFrame(Head(toHost))
     THEN /\ serBuf' = Head(toHost)
          /\ toChip' = Append(toChip, Byte(IF Head(toHost).good THEN "ACK" ELSE "NAK"))
     ELSE UNCHANGED <<serBuf, toChip>>

ConUpdate(ret) ==
  \/ ReadToken(ret)
  \/ /\ ret = "conIdle"
     /\ UNCHANGED <<toHost, toChip, AckNakNeeded, serBuf>>
  \/ /\ ret = "conTxTimeout"
     /\ AckNakNeeded /\ Quiet
     /\ AckNakNeeded' = FALSE
     /\ UNCHANGED <<toHost, toChip, serBuf>>

RetVals == {"skip", "conIdle", "conFrameReceived", "conFrameErr", "conFrameSent",
            "conTxErr", "conTxWait", "conTxTimeout", "conRxTimeout"}

\* WaitResponse: ConUpdate until it returns something, or TIMEOUT_TIME is up.
WaitResponse(ret) ==
  \/ ret # "conIdle" /\ ConUpdate(ret)
  \/ /\ ret = "conRxTimeout"
     /\ ~AckNakNeeded /\ Quiet
     /\ UNCHANGED <<toHost, toChip, AckNakNeeded, serBuf>>

\* ConTxFrame: the frame goes out and its ACK is now needed.
ConTxFrame(c) ==
  /\ toChip' = Append(toChip, Command(ctx[c].call, ctx[c].cmd))
  /\ AckNakNeeded' = TRUE
  /\ UNCHANGED <<toHost, serBuf>>

\* What a call returns; an answer is the answer to call `of' (its own, if all is
\* well).  "sent" also marks a command that is still waiting for its answer.
Result(kind) == [kind |-> kind, of |-> 0]
Answer(n) == [kind |-> "answered", of |-> n]

Return(c, result) ==
  /\ ctx' = [ctx EXCEPT ![c] = Idle]
  /\ outcome' = [outcome EXCEPT ![ctx[c].call] = result]

\* A queue one frame longer than MAX_RXQUEUE_LEN.
QueueFrameOneMore ==
  IF Len(rxQueue) > MAX_RXQUEUE_LEN
  THEN dropped' = dropped \cup {serBuf.id} /\ UNCHANGED rxQueue
  ELSE rxQueue' = Append(rxQueue, serBuf.id) /\ UNCHANGED dropped

\* A frame put at the head of the queue.
QueueFrameFirst ==
  IF Len(rxQueue) >= MAX_RXQUEUE_LEN
  THEN dropped' = dropped \cup {serBuf.id} /\ UNCHANGED rxQueue
  ELSE rxQueue' = <<serBuf.id>> \o rxQueue /\ UNCHANGED dropped

\* QueueFrame: a frame that finds the queue full is dropped.
QueueFrame ==
  IF Len(rxQueue) >= MAX_RXQUEUE_LEN
  THEN dropped' = dropped \cup {serBuf.id} /\ UNCHANGED rxQueue
  ELSE rxQueue' = Append(rxQueue, serBuf.id) /\ UNCHANGED dropped

\* SendFrameWithResponse's loop goes round again, or ends.
NextTry(c) ==
  IF ctx[c].i + 1 < ResponseTries
  THEN /\ ctx' = [ctx EXCEPT ![c].pc = "response", ![c].i = @ + 1]
       /\ UNCHANGED outcome
  ELSE Return(c, Result("unanswered"))

QueueIfRequest ==
  IF serBuf.type = "REQUEST" THEN QueueFrame ELSE UNCHANGED <<rxQueue, dropped>>

chipSide == <<chip, requests, faults, accepted, confirmed>>

-----------------------------------------------------------------------------
(* The host: the calls.                                                    *)

\* A call from the main loop (a callback run by Dispatch) or from the handler
\* of SIGUSR2.
StartCall(c, cmd) ==
  /\ At(c, {"idle"})
  /\ c = "signal" => Signals
  /\ calls < MaxCalls
  /\ calls' = calls + 1
  /\ ctx' = [ctx EXCEPT ![c] = [Idle EXCEPT !.pc = "drain", !.call = calls + 1, !.cmd = cmd]]
  /\ UNCHANGED <<AckNakNeeded, serBuf, rxQueue, toChip, toHost, chipSide,
                 outcome, gaveUp, dispatched, dropped>>

\* SerialAPI_Poll hands the oldest frame to Dispatch, then drains the port.
SerialAPI_Poll ==
  /\ At("main", {"idle"})
  /\ Goto("main", "poll")
  /\ IF rxQueue = <<>>
     THEN UNCHANGED <<rxQueue, dispatched>>
     ELSE /\ rxQueue' = Tail(rxQueue)
          /\ dispatched' = Append(dispatched, Head(rxQueue))
  /\ UNCHANGED <<AckNakNeeded, serBuf, calls, toChip, toHost, chipSide,
                 outcome, gaveUp, dropped>>

\* DrainRX: before a transmission, during the backoff and in SerialAPI_Poll.
DrainRX(c) ==
  /\ At(c, {"drain", "backoff", "poll"})
  /\ \E ret \in RetVals :
       /\ ConUpdate(ret)
       /\ LET next == [drain |-> "transmit", backoff |-> "backoff", poll |-> "idle"]
          IN  ctx' = [ctx EXCEPT ![c] =
                        CASE ret = "skip" -> @
                          [] ret = "conFrameReceived" -> [@ EXCEPT !.pc = "received", !.after = ctx[c].pc]
                          [] OTHER -> [@ EXCEPT !.pc = next[@]]]
  /\ UNCHANGED <<rxQueue, calls, chipSide, outcome, gaveUp, dispatched, dropped>>

\* DrainRX without keeping what it reads.
DrainRXBodyDrops(c) ==
  /\ At(c, {"received"})
  /\ ctx[c].after \in {"drain", "backoff", "poll"}
  /\ Goto(c, ctx[c].after)
  /\ UNCHANGED <<AckNakNeeded, serBuf, rxQueue, calls, toChip, toHost, chipSide,
                 outcome, gaveUp, dispatched, dropped>>

\* The body of DrainRX's loop.
DrainRXBody(c) ==
  /\ At(c, {"received"})
  /\ ctx[c].after \in {"drain", "backoff", "poll"}
  /\ QueueIfRequest
  /\ Goto(c, ctx[c].after)
  /\ UNCHANGED <<AckNakNeeded, serBuf, calls, toChip, toHost, chipSide,
                 outcome, gaveUp, dispatched>>

\* SendFrame: the first transmission.
Transmit(c) ==
  /\ At(c, {"transmit"})
  /\ ConTxFrame(c)
  /\ Goto(c, "wait")
  /\ UNCHANGED <<rxQueue, calls, chipSide, outcome, gaveUp, dispatched, dropped>>

\* SendFrame waits for the ACK.  A command with an answer goes on in
\* SendFrameWithResponse.
SendFrameWait(c) ==
  /\ At(c, {"wait"})
  /\ \E ret \in RetVals :
       /\ WaitResponse(ret)
       /\ CASE ret = "skip" -> UNCHANGED <<ctx, outcome>>
            [] ret = "conFrameReceived" ->
                 /\ ctx' = [ctx EXCEPT ![c].pc = "received", ![c].after = "wait"]
                 /\ UNCHANGED outcome
            [] ret = "conFrameSent" ->
                 IF ctx[c].cmd \in Answered
                 THEN /\ ctx' = [ctx EXCEPT ![c].pc = "response", ![c].i = 0]
                      /\ outcome' = [outcome EXCEPT ![ctx[c].call] = Result("sent")]
                 ELSE Return(c, Result("sent"))
            [] OTHER -> Goto(c, "retry") /\ UNCHANGED outcome
  /\ UNCHANGED <<rxQueue, calls, chipSide, gaveUp, dispatched, dropped>>

\* A RESPONSE met while waiting for the ACK taken for the answer.
SendFrameReceivedAnswer(c) ==
  /\ At(c, {"received"})
  /\ ctx[c].after = "wait"
  /\ QueueIfRequest
  /\ IF serBuf.type = "RESPONSE"
     THEN Return(c, Answer(serBuf.id))
     ELSE Goto(c, "wait") /\ UNCHANGED outcome
  /\ UNCHANGED <<AckNakNeeded, serBuf, calls, toChip, toHost, chipSide,
                 gaveUp, dispatched>>

\* A frame of the chip met while waiting for the ACK is not counted as an
\* attempt, except the first time round.
SendFrameReceived(c) ==
  /\ At(c, {"received"})
  /\ ctx[c].after = "wait"
  /\ QueueIfRequest
  /\ ctx' = [ctx EXCEPT ![c].pc = "wait", ![c].i = IF @ = 0 THEN 1 ELSE @]
  /\ UNCHANGED <<AckNakNeeded, serBuf, calls, toChip, toHost, chipSide,
                 outcome, gaveUp, dispatched>>

\* Every ReopenPeriod-th attempt reopens the port: bytes received and not yet
\* read, and bytes not yet transmitted, are flushed.
Reopen(c) ==
  /\ At(c, {"retry"})
  /\ IF ctx[c].i % ReopenPeriod = ReopenPeriod - 1
     THEN \E h \in 0..Len(toHost), t \in 0..Len(toChip) :
            /\ toHost' = SubSeq(toHost, h + 1, Len(toHost))
            /\ toChip' = SubSeq(toChip, 1, t)
     ELSE UNCHANGED <<toHost, toChip>>
  /\ Goto(c, "backoff")
  /\ UNCHANGED <<AckNakNeeded, serBuf, rxQueue, calls, chipSide,
                 outcome, gaveUp, dispatched, dropped>>

\* A retransmission that does not count as an attempt.
RetransmitUncounted(c) ==
  /\ At(c, {"backoff"})
  /\ Quiet
  /\ ConTxFrame(c)
  /\ Goto(c, "wait")
  /\ UNCHANGED <<rxQueue, calls, chipSide, outcome, gaveUp, dispatched, dropped>>

\* The frame goes out again.  After the last attempt SendFrame does not wait
\* for the ACK of this transmission.
Retransmit(c) ==
  /\ At(c, {"backoff"})
  /\ Quiet
  /\ ConTxFrame(c)
  /\ IF ctx[c].i + 1 < Attempts
     THEN /\ ctx' = [ctx EXCEPT ![c].pc = "wait", ![c].i = @ + 1]
          /\ UNCHANGED <<outcome, gaveUp>>
     ELSE Return(c, Result("failed")) /\ gaveUp' = TRUE
  /\ UNCHANGED <<rxQueue, calls, chipSide, dispatched, dropped>>

\* SendFrameWithResponse waits for the answer.
AwaitResponse(c) ==
  /\ At(c, {"response"})
  /\ \E ret \in RetVals :
       /\ WaitResponse(ret)
       /\ CASE ret = "skip" -> UNCHANGED <<ctx, outcome>>
            [] ret = "conFrameReceived" ->
                 /\ ctx' = [ctx EXCEPT ![c].pc = "received", ![c].after = "response"]
                 /\ UNCHANGED outcome
            [] OTHER -> NextTry(c)
  /\ UNCHANGED <<rxQueue, calls, chipSide, gaveUp, dispatched, dropped>>

\* The frame is the answer when it is a RESPONSE to the same command; any other
\* frame uses up a try.
MatchResponse(c) ==
  /\ At(c, {"received"})
  /\ ctx[c].after = "response"
  /\ QueueIfRequest
  /\ IF serBuf.type = "RESPONSE" /\ serBuf.cmd = ctx[c].cmd
     THEN Return(c, Answer(serBuf.id))
     ELSE NextTry(c)
  /\ UNCHANGED <<AckNakNeeded, serBuf, calls, toChip, toHost, chipSide,
                 gaveUp, dispatched>>

HostStep(c) ==
  \/ DrainRX(c) \/ DrainRXBody(c) \/ Transmit(c) \/ SendFrameWait(c)
  \/ SendFrameReceived(c) \/ Reopen(c) \/ Retransmit(c)
  \/ AwaitResponse(c) \/ MatchResponse(c)

-----------------------------------------------------------------------------
(* The chip and the line.                                                  *)

hostSide == <<host, outcome, gaveUp, dispatched, dropped>>

NoWait == [frame |-> NoFrame, resends |-> 0]
Busy == chip.frame # NoFrame

\* The chip sends a frame and waits for its ACK.
ChipSends(before, f) ==
  /\ toHost' = before \o <<f>>
  /\ chip' = [frame |-> f, resends |-> 0]

ChipResends ==
  IF chip.resends < MaxResends
  THEN toHost' = Append(toHost, chip.frame) /\ chip' = [chip EXCEPT !.resends = @ + 1]
  ELSE chip' = NoWait /\ UNCHANGED toHost

\* The chip takes one token.  It executes a command, and sends the answer, before
\* it looks at the next one; a command that arrives while a frame of its own
\* waits for an ACK is refused with CAN.
ChipReceive ==
  /\ toChip # <<>>
  /\ toChip' = Tail(toChip)
  /\ LET t == Head(toChip) IN
     CASE IsFrame(t) /\ Busy ->
            toHost' = Append(toHost, Byte("CAN")) /\ UNCHANGED <<chip, accepted, confirmed>>
       [] IsFrame(t) /\ ~Busy /\ ~t.good ->
            toHost' = Append(toHost, Byte("NAK")) /\ UNCHANGED <<chip, accepted, confirmed>>
       [] IsFrame(t) /\ ~Busy /\ t.good ->
            /\ accepted' = accepted \cup {t.id}
            /\ IF t.cmd \in Answered
               THEN ChipSends(Append(toHost, Byte("ACK")), Response(t.id, t.cmd))
               ELSE toHost' = Append(toHost, Byte("ACK")) /\ UNCHANGED chip
            /\ UNCHANGED confirmed
       [] t.type = "ACK" /\ Busy ->
            /\ confirmed' = confirmed \cup
                 (IF chip.frame.type = "REQUEST" THEN {chip.frame.id} ELSE {})
            /\ chip' = NoWait
            /\ UNCHANGED <<toHost, accepted>>
       [] t.type = "NAK" /\ Busy -> ChipResends /\ UNCHANGED <<accepted, confirmed>>
       [] ~IsFrame(t) /\ ~Busy -> UNCHANGED <<toHost, chip, accepted, confirmed>>
  /\ UNCHANGED <<hostSide, requests, faults>>

ChipRequest ==
  /\ ~Busy /\ requests < MaxRequests
  /\ requests' = requests + 1
  /\ ChipSends(toHost, Request(requests + 1))
  /\ UNCHANGED <<hostSide, toChip, faults, accepted, confirmed>>

ChipTimeout ==
  /\ Busy /\ Quiet
  /\ ChipResends
  /\ UNCHANGED <<hostSide, toChip, requests, faults, accepted, confirmed>>

\* The sequence s with the token at k lost, or the frame at k damaged.
Lose(s, k) == SubSeq(s, 1, k - 1) \o SubSeq(s, k + 1, Len(s))
Damage(s, k) == [s EXCEPT ![k].good = FALSE]

LineFault ==
  /\ faults < MaxFaults
  /\ faults' = faults + 1
  /\ \/ \E k \in DOMAIN toHost :
          /\ \/ toHost' = Lose(toHost, k)
             \/ IsFrame(toHost[k]) /\ toHost[k].good /\ toHost' = Damage(toHost, k)
          /\ UNCHANGED toChip
     \/ \E k \in DOMAIN toChip :
          /\ \/ toChip' = Lose(toChip, k)
             \/ IsFrame(toChip[k]) /\ toChip[k].good /\ toChip' = Damage(toChip, k)
          /\ UNCHANGED toHost
  /\ UNCHANGED <<hostSide, chip, requests, accepted, confirmed>>

-----------------------------------------------------------------------------
Init ==
  /\ ctx = [c \in Contexts |-> Idle]
  /\ AckNakNeeded = FALSE
  /\ serBuf = NoFrame
  /\ rxQueue = <<>>
  /\ toChip = <<>> /\ toHost = <<>>
  /\ chip = NoWait
  /\ calls = 0 /\ requests = 0 /\ faults = 0
  /\ accepted = {} /\ outcome = [n \in CallIds |-> Result("none")]
  /\ gaveUp = FALSE
  /\ dispatched = <<>> /\ dropped = {} /\ confirmed = {}

Next ==
  \/ \E c \in Contexts, cmd \in Cmds : StartCall(c, cmd)
  \/ \E c \in Contexts : HostStep(c)
  \/ SerialAPI_Poll
  \/ ChipReceive \/ ChipRequest \/ ChipTimeout \/ LineFault

Spec == Init /\ [][Next]_vars

\* The host's loops keep running and the chip keeps reading its port; nothing is
\* assumed of what the chip sends or of the line.
FairSpec ==
  /\ Spec
  /\ \A c \in Contexts : WF_vars(HostStep(c))
  /\ WF_vars(ChipReceive)

-----------------------------------------------------------------------------
(* Properties.                                                             *)

Frames ==
  {[f EXCEPT !.good = g] : g \in BOOLEAN,
     f \in {Command(n, c) : n \in CallIds, c \in Cmds}
             \cup {Response(n, c) : n \in CallIds, c \in Answered}
             \cup {Request(n) : n \in RequestIds}}

Bytes == {Byte(b) : b \in {"ACK", "NAK", "CAN"}}

\* Every variable has its type: the lines carry frames and control bytes, the
\* receive queue stays within MAX_RXQUEUE_LEN, and an attempt counter within
\* its loop.
TypeOK ==
  /\ ctx \in [Contexts ->
                [pc : {"idle", "drain", "poll", "transmit", "wait", "received", "retry",
                       "backoff", "response"},
                 call : 0..MaxCalls, cmd : Cmds \cup {"none"},
                 i : 0..(IF Attempts > ResponseTries THEN Attempts ELSE ResponseTries) - 1,
                 after : {"idle", "drain", "backoff", "poll", "wait", "response"}]]
  /\ {AckNakNeeded, gaveUp} \subseteq BOOLEAN
  /\ serBuf \in Frames \cup {NoFrame}
  /\ {toChip, toHost} \subseteq Seq(Frames \cup Bytes)
  /\ chip \in [frame : Frames \cup {NoFrame}, resends : 0..MaxResends]
  /\ {rxQueue, dispatched} \subseteq Seq(RequestIds)
  /\ Len(rxQueue) <= MAX_RXQUEUE_LEN
  /\ calls \in 0..MaxCalls /\ requests \in 0..MaxRequests /\ faults \in 0..MaxFaults
  /\ accepted \subseteq CallIds /\ dropped \cup confirmed \subseteq RequestIds
  /\ outcome \in [CallIds -> [kind : {"none", "sent", "failed", "unanswered", "answered"},
                              of : 0..MaxCalls]]

\* What conhandle.c promises of conFrameSent ("if transmitted frame was ACKed by
\* other end"): a call reported as sent has reached the chip.
SentIsDelivered ==
  \A n \in CallIds : outcome[n].kind \notin {"none", "failed"} => n \in accepted

\* The same as long as no SendFrame has run out of attempts before: the ACK that
\* ends a call belongs to that call, although ACKs carry no number, frames are
\* retransmitted and the line loses and damages what it likes.
SentUnlessGaveUp == ~gaveUp => SentIsDelivered

\* SendFrameWithResponse returns the answer to its own call, although it compares
\* only the command: an answer to an earlier call of the same command, late or
\* repeated by the chip, is never taken for it.
AnswerIsOwn ==
  ~gaveUp => \A n \in CallIds : outcome[n].kind = "answered" => outcome[n].of = n

\* A REQUEST frame that the chip has seen acknowledged is in the receive queue,
\* has been dispatched, is about to be queued, or met a full queue: DrainRX,
\* SendFrame and SendFrameWithResponse all keep the frames they did not wait for.
RequestsKept ==
  \A n \in confirmed :
    \/ n \in ToSet(rxQueue) \cup ToSet(dispatched) \cup dropped
    \/ serBuf.type = "REQUEST" /\ serBuf.id = n /\ \E c \in Contexts : ctx[c].pc = "received"

\* Frames are dispatched in the order in which the chip sent them, whichever of
\* the three receiving loops took them from the port.
RequestsInOrder ==
  LET s == dispatched \o rxQueue IN \A k \in 1..Len(s) - 1 : s[k] <= s[k + 1]

\* Every call returns: a chip that refuses, loses or never answers costs SendFrame
\* its attempts and SendFrameWithResponse its tries, not its return.
CallsReturn == \A c \in Contexts : (ctx[c].pc \notin {"idle", "poll"}) ~> (ctx[c].pc = "idle")

=============================================================================
