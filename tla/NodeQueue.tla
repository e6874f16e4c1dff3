------------------------------ MODULE NodeQueue ------------------------------
(***************************************************************************)
(* The node queue (node_queue.c), the packet queues under it               *)
(* (uip-packetqueue.c) and the one frame that ClassicZIPNode.c sends at a  *)
(* time for it and for the mailbox.                                        *)
(*                                                                         *)
(* IP frames for Z-Wave nodes wait in first_attempt_queue, where they get  *)
(* 800 ms, or in long_queue.  ClassicZIPNode takes one frame at a time and *)
(* calls back, at once or later, with a status that decides what happens   *)
(* to the frame.  The mailbox uses ClassicZIPNode as well while a sleeping *)
(* node is awake, and is seen here only as a second sender.  Network       *)
(* management and the probing of nodes are seen as times when              *)
(* ClassicZIPNode refuses to send, each with its own ends; the resource    *)
(* directory (ResourceDirectory.c) also as what says whether a node is a   *)
(* mailbox node, which probing finds out and a failing node loses.         *)
(***************************************************************************)
EXTENDS Naturals, Sequences, FiniteSets, SequencesExt

CONSTANTS
  Frame,          \* the IP frames that arrive, each of them once
  Dest,           \* the node each frame is for
  Mode,           \* of each node: "listening", "flirs" or, if it supports the
                  \* Wake Up command class, "mailbox"
  Wunmi,          \* the frames that carry a Wake Up No More Information
  Crc,            \* the CRC-32 of each frame; equal frames have equal ones
  MAX_NUM_QUEUED_PACKETS,
  MailboxOn,      \* cfg.mb_conf_mode # DISABLE_MAILBOX
  Other,          \* what the mailbox, network management and the resource directory
                  \* may do: a subset of Activity
  MaxOther        \* how often they do any of it

BLACKLIST_LENGTH == 2
Activity == {"wakeup", "command", "proxy", "probe", "failing"}
Node == {Dest[f] : f \in Frame}

ASSUME QueueAssumption ==
  /\ Dest \in [Frame -> Node] /\ Crc \in [Frame -> Nat]
  /\ Mode \in [Node -> {"listening", "flirs", "mailbox"}]
  /\ Wunmi \subseteq Frame /\ MailboxOn \in BOOLEAN
  /\ Other \subseteq Activity
  /\ {MAX_NUM_QUEUED_PACKETS, MaxOther} \subseteq Nat

VARIABLES
  first_attempt_queue, long_queue,  \* sequences of packets
  queue_state, queue_timer,
  black_list,     \* black_list_crc32, oldest first
  zip,            \* ClassicZIPNode: for whom it sends, what, and whether it is stuck
  mb,             \* the mailbox is busy (mb_is_busy)
  nm,             \* nms.state: "idle", "wait nif" or any other ("busy")
  rd_state,       \* of each node; "probing" is all that is below STATUS_MDNS_PROBE
  mode,           \* of each node, as in the resource directory
  engine,         \* probing has begun and not yet been reported as done
  updates,        \* events pending whose handler is process_node_queues:
                  \* ZIP_EVENT_QUEUE_UPDATED and ZIP_EVENT_NETWORK_MANAGEMENT_DONE
  others,         \* counts up to MaxOther
  \* history
  fate,           \* of each frame, by what the queue was last told of it: "new";
                  \* "pending" (accepted, and to be sent or sent again); "cut off"
                  \* (given up after the queue timer aborted its first attempt);
                  \* "gone" (delivered, given up, expired, mailed, or not accepted)
  overtaken,      \* how often a frame's lifetime ended while it was being sent
  noroom,         \* how often a packet to be moved found the pool full
  unkicked        \* the mailbox was aborted or a proxied inclusion timed out, and
                  \* nothing posted since

queues == <<first_attempt_queue, long_queue>>
directory == <<rd_state, mode, engine>>
env == <<mb, nm, directory, others>>
history == <<fate, overtaken, noroom, unkicked>>
vars == <<queues, queue_state, queue_timer, black_list, zip, env, updates, history>>

\* A queued frame with its re-q flag, and as history: whether it was put into
\* long_queue when it arrived and has not been moved since, and whether its node
\* was a mailbox node when it was put where it is.
Packet(f, requeued, direct, asleep) ==
  [frame |-> f, requeued |-> requeued, direct |-> direct, asleep |-> asleep]
NoPacket == Packet("none", FALSE, FALSE, FALSE)
Slot(owner, packet, stuck) == [owner |-> owner, packet |-> packet, stuck |-> stuck]
Free == Slot("none", NoPacket, FALSE)
Busy == zip.owner # "none"           \* backup_len > 0
\* Without the state of a long attempt.
SendingFirst == queue_state = "QS_SENDING_FIRST"
Sending == queue_state # "QS_IDLE"
QueueOf(s) == IF s = "QS_SENDING_FIRST" THEN first_attempt_queue ELSE long_queue
Used == Len(first_attempt_queue) + Len(long_queue)
\* With the bound off by one.
RoomOneMore == Used <= MAX_NUM_QUEUED_PACKETS
\* uip_packetqueue_alloc finds a free packet in the pool.
Room == Used < MAX_NUM_QUEUED_PACKETS
\* rd_get_node_mode(n) is MODE_MAILBOX, with no flag set in it.
Sleeping(n) == MailboxOn /\ mode[n] = "mailbox"

Init ==
  /\ first_attempt_queue = <<>> /\ long_queue = <<>>
  /\ queue_state = "QS_IDLE" /\ queue_timer = FALSE
  /\ black_list = <<0, 0>>
  /\ zip = Free
  /\ mb = FALSE /\ nm = "idle"
  \* A sleeping node may have been registered without having been probed.
  /\ mode \in {m \in [Node -> {"listening", "flirs", "nonlistening", "mailbox"}] :
       \A n \in Node : m[n] = Mode[n] \/ (Mode[n] = "mailbox" /\ m[n] = "nonlistening")}
  /\ rd_state = [n \in Node |-> IF mode[n] = "nonlistening" THEN "STATUS_PROBE_FAIL"
                                                            ELSE "STATUS_DONE"]
  /\ engine = FALSE
  /\ updates = 0 /\ others = 0
  /\ fate = [f \in Frame |-> "new"]
  /\ overtaken = 0 /\ noroom = 0 /\ unkicked = FALSE

\* process_post(&zip_process, ZIP_EVENT_QUEUE_UPDATED, 0) on top of u events.
Post(u) == updates' = u + 1 /\ unkicked' = FALSE
NoPost(u) == updates' = u /\ UNCHANGED unkicked

\* Something other than the queue does a.
Begins(a) == a \in Other /\ others < MaxOther /\ others' = others + 1

Becomes(f, what) == fate' = [fate EXCEPT ![f] = what]

-----------------------------------------------------------------------------
(* A frame arrives.                                                        *)

\* The CRC is compared as a 16-bit value with the 32-bit ones in the list.
Duplicate(f) == Crc[f] % 2^16 \in ToSet(black_list)

\* queued_elements_existes
QueuedFor(n) == \E p \in ToSet(long_queue) : Dest[p.frame] = n

\* Without the exception for frames that may go to the mailbox.
UsesLongAny(f) ==
  \/ QueuedFor(Dest[f])
  \/ mode[Dest[f]] = "flirs"
  \/ first_attempt_queue = <<>> /\ long_queue = <<>>

UsesLong(f) ==
  /\ ~Sleeping(Dest[f])
  /\ \/ QueuedFor(Dest[f])
     \/ mode[Dest[f]] = "flirs"
     \/ first_attempt_queue = <<>> /\ long_queue = <<>>

node_input_queued(f) ==
  LET asleep == Sleeping(Dest[f]) IN
  /\ fate[f] = "new"
  /\ IF Duplicate(f)
     THEN /\ Becomes(f, "gone")
          /\ UNCHANGED <<queues, black_list, updates, unkicked>>
     ELSE /\ black_list' = <<black_list[2], Crc[f]>>
          /\ Post(updates)
          /\ IF Room
             THEN /\ Becomes(f, "pending")
                  /\ IF UsesLong(f)
                     THEN /\ long_queue' = Append(long_queue, Packet(f, FALSE, TRUE, asleep))
                          /\ UNCHANGED first_attempt_queue
                     ELSE /\ first_attempt_queue' =
                               Append(first_attempt_queue, Packet(f, FALSE, FALSE, asleep))
                          /\ UNCHANGED long_queue
             ELSE Becomes(f, "gone") /\ UNCHANGED queues
  /\ UNCHANGED <<queue_state, queue_timer, zip, env, overtaken, noroom>>

Queued == {p.frame : p \in ToSet(first_attempt_queue \o long_queue)}

\* packet_timedout: a packet's 60 s are over, whether or not it is being sent.
packet_timedout(f) ==
  LET rest(q) == SelectSeq(q, LAMBDA p : p.frame # f)
  IN  /\ f \in Queued
      /\ first_attempt_queue' = rest(first_attempt_queue)
      /\ long_queue' = rest(long_queue)
      /\ Becomes(f, "gone")
      /\ overtaken' = IF zip.owner = "queue" /\ zip.packet.frame = f THEN overtaken + 1
                                                                    ELSE overtaken
      /\ UNCHANGED <<queue_state, queue_timer, black_list, zip, env, updates, noroom, unkicked>>

-----------------------------------------------------------------------------
(* queue_send_done, called in queue state s with a status for a packet.    *)

\* queue_move_to_mailbox
ToMailbox(head, sent) == Sleeping(Dest[head.frame]) /\ sent.frame \notin Wunmi

\* With a copy made only of a packet that has not been moved before.
RequeueOnce(s, head, sent, flag) ==
  LET moves == ~ToMailbox(head, sent) /\ Room /\ ~sent.requeued
      copy == Packet(sent.frame, sent.requeued \/ flag, FALSE, Sleeping(Dest[sent.frame]))
      moved == IF moves THEN Append(long_queue, copy) ELSE long_queue
  IN  /\ IF s = "QS_SENDING_FIRST"
         THEN first_attempt_queue' = Tail(first_attempt_queue) /\ long_queue' = moved
         ELSE long_queue' = Tail(moved) /\ UNCHANGED first_attempt_queue
      /\ noroom' = IF ~ToMailbox(head, sent) /\ ~Room THEN noroom + 1 ELSE noroom

\* The packet goes to the mailbox, or to the end of long_queue with the re-q flag
\* set or not; the head of the queue it was sent from is freed after the copy
\* has been allocated, or has found no room.
Requeue(s, head, sent, flag) ==
  LET moves == ~ToMailbox(head, sent) /\ Room
      copy == Packet(sent.frame, sent.requeued \/ flag, FALSE, Sleeping(Dest[sent.frame]))
      moved == IF moves THEN Append(long_queue, copy) ELSE long_queue
  IN  /\ IF s = "QS_SENDING_FIRST"
         THEN first_attempt_queue' = Tail(first_attempt_queue) /\ long_queue' = moved
         ELSE long_queue' = Tail(moved) /\ UNCHANGED first_attempt_queue
      /\ noroom' = IF ~ToMailbox(head, sent) /\ ~Room THEN noroom + 1 ELSE noroom

Drop(s) ==
  /\ IF s = "QS_SENDING_FIRST"
     THEN first_attempt_queue' = Tail(first_attempt_queue) /\ UNCHANGED long_queue
     ELSE long_queue' = Tail(long_queue) /\ UNCHANGED first_attempt_queue
  /\ UNCHANGED noroom

\* A frame from the first queue that found no answer is tried again.
Retry(s, status) == status = "REQUEUE_QUEUED" \/ (status = "NO_ACK" /\ s = "QS_SENDING_FIRST")

\* What a status means for the frame it is about.
Verdict(s, status, head, sent) ==
  CASE Retry(s, status) /\ ~ToMailbox(head, sent) -> "pending"
    [] status = "ABORTED" -> "cut off"
    [] OTHER -> "gone"

\* u is the number of events pending when queue_send_done is called.
queue_send_done(s, status, sent, u) ==
  /\ queue_state' = "QS_IDLE" /\ queue_timer' = FALSE
  /\ IF QueueOf(s) = <<>> \/ status = "REQUEUE"   \* assert(0), for the first
     THEN NoPost(u) /\ UNCHANGED <<queues, fate, noroom>>
     ELSE LET head == Head(QueueOf(s))
              flag == status = "NO_ACK" \/ mode[Dest[head.frame]] # "flirs"
          IN  /\ Becomes(sent.frame, Verdict(s, status, head, sent))
              /\ IF Retry(s, status) THEN Requeue(s, head, sent, flag) ELSE Drop(s)
              /\ IF status = "REQUEUE_QUEUED" THEN NoPost(u) ELSE Post(u)

-----------------------------------------------------------------------------
(* ClassicZIPNode sends one frame at a time.                               *)

\* The statuses with which ClassicZIPNode_input(packet) may call back before it
\* returns.  FAIL stands for a return of FALSE as well: process_node_queues then
\* calls queue_send_done itself.  Not every frame meets the test for
\* REQUEUE_QUEUED: a ping does not, nor does any frame while network management
\* is in NM_WAIT_FOR_PROBE_BY_SIS.
Refused(p) == nm # "idle" \/ rd_state[Dest[p.frame]] = "probing" \/ (mb /\ ~p.requeued)

Immediate(p) ==
  {"ERROR"} \cup
  (IF Busy THEN {"REQUEUE"}
   ELSE {"OK", "FAIL"} \cup (IF Refused(p) THEN {"REQUEUE_QUEUED"} ELSE {}))

\* process_node_queues.  The frame may also be on its way when ClassicZIPNode_input
\* returns; or ZW_SendDataAppl refused it on the path for a proxied association,
\* which reports nothing and leaves ClassicZIPNode busy (stuck).
Attempt(s, p) ==
  \/ \E status \in Immediate(p) :
       queue_send_done(s, status, p, updates - 1) /\ UNCHANGED zip
  \/ /\ ~Busy
     /\ \E stuck \in BOOLEAN : zip' = Slot("queue", p, stuck)
     /\ queue_state' = s
     /\ queue_timer' = (s = "QS_SENDING_FIRST")
     /\ NoPost(updates - 1)
     /\ UNCHANGED <<queues, fate, noroom>>

process_node_queues ==
  /\ updates > 0
  /\ IF Sending \/ Used = 0
     THEN /\ NoPost(updates - 1)
          /\ UNCHANGED <<queues, queue_state, queue_timer, zip, fate, noroom>>
     ELSE IF first_attempt_queue # <<>>
          THEN Attempt("QS_SENDING_FIRST", Head(first_attempt_queue))
          ELSE Attempt("QS_SENDING_LONG", Head(long_queue))
  /\ UNCHANGED <<black_list, env, overtaken>>

\* ClassicZIPNode_CallSendCompleted_cb with the status of ZW_SendDataAppl.
CallSendCompleted(status, mailboxBusy) ==
  /\ zip' = Free
  /\ IF zip.owner = "queue"
     THEN queue_send_done(queue_state, status, zip.packet, updates)
     ELSE /\ updates' = updates
          /\ unkicked' = (unkicked \/ ~mailboxBusy)
          /\ UNCHANGED <<queues, queue_state, queue_timer, fate, noroom>>

\* A failure, told apart for the history only: that of a frame that the queue
\* timer aborted.
Failed == IF queue_state = "QS_SENDING_FIRST" /\ ~queue_timer THEN "ABORTED" ELSE "FAIL"

SendCompleted ==
  /\ Busy /\ ~zip.stuck
  /\ \E status \in {"OK", "NO_ACK", Failed} : CallSendCompleted(status, mb)
  /\ UNCHANGED <<black_list, env, overtaken>>

\* ClassicZIPNode_AbortSending, called with the mailbox busy or not.  A frame that
\* still waits in ZW_SendDataAppl fails at once; the status of one being
\* transmitted comes later.
AbortSending(failed, mailboxBusy, timer) ==
  \/ Busy /\ ~zip.stuck /\ CallSendCompleted(failed, mailboxBusy)
  \/ /\ queue_timer' = timer
     /\ unkicked' = (unkicked \/ (mb /\ ~mailboxBusy))
     /\ UNCHANGED <<zip, queues, queue_state, fate, noroom, updates>>

\* queue_send_timeout: the 800 ms of a first attempt are over.
queue_send_timeout ==
  /\ queue_timer
  /\ AbortSending("ABORTED", mb, FALSE)
  /\ UNCHANGED <<black_list, env, overtaken>>

-----------------------------------------------------------------------------
(* The mailbox.                                                            *)

queueSide == <<queues, queue_state, queue_timer, black_list, fate, overtaken, noroom>>

\* mb_wakeup_event: a node with mail is awake.
MailboxWakes ==
  /\ ~mb /\ Begins("wakeup")
  /\ nm = "idle" /\ \A n \in Node : rd_state[n] # "probing"
  /\ mb' = TRUE
  /\ UNCHANGED <<queueSide, zip, updates, nm, directory, unkicked>>

\* The mailbox hands a message to ClassicZIPNode, where it may get stuck as a
\* frame of the queue may.  While ClassicZIPNode is busy or refuses, the mailbox
\* gets the message back at once.
MailboxSends ==
  /\ mb /\ ~Busy /\ nm = "idle"
  /\ \E stuck \in BOOLEAN : zip' = Slot("mailbox", NoPacket, stuck)
  /\ UNCHANGED <<queueSide, updates, env, unkicked>>

\* Without starting the node queue.
MailboxDoneQuiet ==
  /\ mb /\ zip.owner # "mailbox"
  /\ mb' = FALSE
  /\ UNCHANGED <<queueSide, zip, updates, unkicked, nm, directory, others>>

\* The mailbox goes idle, and starts the node queue.
MailboxDone ==
  /\ mb /\ zip.owner # "mailbox"
  /\ mb' = FALSE
  /\ Post(updates)
  /\ UNCHANGED <<queueSide, zip, nm, directory, others>>

-----------------------------------------------------------------------------
(* Network management.                                                     *)

\* NetworkManagementCommandHandler: the mailbox is set to idle and the frame being
\* sent is aborted; network management may become busy.
NetworkManagementCommand ==
  /\ Begins("command")
  /\ mb' = FALSE
  /\ IF mb \/ Sending
     THEN AbortSending("FAIL", FALSE, queue_timer)
     ELSE UNCHANGED <<zip, queues, queue_state, queue_timer, fate, noroom, updates, unkicked>>
  /\ nm' \in {nm, IF nm = "idle" THEN "busy" ELSE nm}
  /\ UNCHANGED <<black_list, directory, overtaken>>

\* ResetState posts ZIP_EVENT_NETWORK_MANAGEMENT_DONE, whose handler (ZIP_Router.c:1756)
\* runs process_node_queues.
NetworkManagementDone ==
  /\ nm = "busy"
  /\ nm' = "idle"
  /\ Post(updates)
  /\ UNCHANGED <<queueSide, zip, mb, directory, others>>

\* NM_EV_START_PROXY_INCLUSION: the node information of a node that another
\* controller added is asked for.
ProxyInclusion ==
  /\ nm = "idle" /\ Begins("proxy")
  /\ nm' = "wait nif"
  /\ UNCHANGED <<queueSide, zip, updates, mb, directory, unkicked>>

\* It comes, and the inclusion goes on; or it does not come in time, and network
\* management is idle again with ZIP_EVENT_COMPONENT_DONE only, whose handler
\* does not start the node queue.
ProxyNodeInfo ==
  /\ nm = "wait nif"
  /\ nm' = "busy"
  /\ UNCHANGED <<queueSide, zip, updates, mb, directory, others, unkicked>>

ProxyTimeout ==
  /\ nm = "wait nif"
  /\ nm' = "idle"
  /\ unkicked' = TRUE
  /\ UNCHANGED <<queueSide, zip, updates, mb, directory, others>>

-----------------------------------------------------------------------------
(* The resource directory.                                                 *)

notDirectory == <<queueSide, zip, mb, nm>>

\* rd_register_new_node, for a node that is known: it is probed (again).
Probe(n) ==
  /\ rd_state[n] # "probing" /\ Begins("probe")
  /\ rd_state' = [rd_state EXCEPT ![n] = "probing"]
  /\ engine' = TRUE
  /\ UNCHANGED <<notDirectory, updates, unkicked, mode>>

\* STATUS_CHECK_WU_CC_VERSION: the node is found to be a mailbox node.
FoundWakeUp(n) ==
  /\ rd_state[n] = "probing" /\ MailboxOn
  /\ Mode[n] = "mailbox" /\ mode[n] # "mailbox"
  /\ mode' = [mode EXCEPT ![n] = "mailbox"]
  /\ UNCHANGED <<notDirectory, updates, unkicked, rd_state, engine, others>>

\* The node reaches STATUS_MDNS_PROBE, or its probe fails.
NodeProbed(n) ==
  /\ rd_state[n] = "probing"
  /\ \E s \in {"STATUS_DONE", "STATUS_PROBE_FAIL"} : rd_state' = [rd_state EXCEPT ![n] = s]
  /\ UNCHANGED <<notDirectory, updates, unkicked, mode, engine, others>>

\* Without starting the node queue.
AllNodesProbedQuiet ==
  /\ engine /\ \A n \in Node : rd_state[n] # "probing"
  /\ engine' = FALSE
  /\ UNCHANGED <<notDirectory, updates, unkicked, rd_state, mode, others>>

\* rd_probe_resume finds no node left to probe and posts ZIP_EVENT_ALL_NODES_PROBED
\* (ResourceDirectory.c:1536, or after the SUC id was sent, 1497), and it is handled.
AllNodesProbed ==
  /\ engine /\ \A n \in Node : rd_state[n] # "probing"
  /\ engine' = FALSE
  /\ Post(updates)
  /\ UNCHANGED <<notDirectory, rd_state, mode, others>>

\* rd_set_failing, for a mailbox node: the flag it sets in the node's mode is
\* masked out wherever the mode of another node is looked at.
rd_set_failing(n) ==
  /\ mode[n] \in {"mailbox", "mailbox failed"} /\ Begins("failing")
  /\ rd_state[n] \in {"STATUS_DONE", "STATUS_FAILING"}
  /\ LET failing == rd_state[n] = "STATUS_DONE"
     IN  /\ rd_state' = [rd_state EXCEPT ![n] = IF failing THEN "STATUS_FAILING" ELSE "STATUS_DONE"]
         /\ mode' = [mode EXCEPT ![n] = IF failing THEN "mailbox failed" ELSE "mailbox"]
  /\ UNCHANGED <<notDirectory, updates, unkicked, engine>>

Next ==
  \/ \E f \in Frame : node_input_queued(f) \/ packet_timedout(f)
  \/ process_node_queues \/ SendCompleted \/ queue_send_timeout
  \/ MailboxWakes \/ MailboxSends \/ MailboxDone
  \/ NetworkManagementCommand \/ NetworkManagementDone
  \/ ProxyInclusion \/ ProxyNodeInfo \/ ProxyTimeout
  \/ \E n \in Node : Probe(n) \/ FoundWakeUp(n) \/ NodeProbed(n) \/ rd_set_failing(n)
  \/ AllNodesProbed

Spec == Init /\ [][Next]_vars

\* Events are handled, transmissions complete (SendDataAppl's Completes), the timer
\* of a proxied inclusion expires, and the mailbox, network management and probing
\* come to an end; the mailbox after finitely many messages, which is why its end
\* need not stay enabled.
FairSpec ==
  /\ Spec
  /\ WF_vars(process_node_queues) /\ WF_vars(SendCompleted)
  /\ SF_vars(MailboxDone) /\ WF_vars(NetworkManagementDone) /\ WF_vars(ProxyTimeout)
  /\ WF_vars(\E n \in Node : NodeProbed(n)) /\ WF_vars(AllNodesProbed)

-----------------------------------------------------------------------------
(* Properties.                                                             *)

PacketType == [frame : Frame, requeued : BOOLEAN, direct : BOOLEAN, asleep : BOOLEAN]

\* Every variable has its type, and the two queues together stay within the
\* packet pool.
TypeOK ==
  /\ {first_attempt_queue, long_queue} \subseteq Seq(PacketType)
  /\ Used <= MAX_NUM_QUEUED_PACKETS
  /\ queue_state \in {"QS_IDLE", "QS_SENDING_FIRST", "QS_SENDING_LONG"}
  /\ {queue_timer, mb, engine, unkicked} \subseteq BOOLEAN
  /\ black_list \in [1..BLACKLIST_LENGTH -> {0} \cup {Crc[f] : f \in Frame}]
  /\ zip \in [owner : {"none", "queue", "mailbox"}, packet : PacketType \cup {NoPacket},
              stuck : BOOLEAN]
  /\ nm \in {"idle", "wait nif", "busy"}
  /\ rd_state \in [Node -> {"probing", "STATUS_DONE", "STATUS_PROBE_FAIL", "STATUS_FAILING"}]
  /\ mode \in [Node -> {"listening", "flirs", "nonlistening", "mailbox", "mailbox failed"}]
  /\ {updates, others, overtaken, noroom} \subseteq Nat
  /\ fate \in [Frame -> {"new", "pending", "cut off", "gone"}]

\* The queue is in a sending state exactly while ClassicZIPNode has a frame of its.
\* And queue_send_done works on the head of the queue named by that state, whatever
\* frame ClassicZIPNode reports on: unless a lifetime ended during a transmission,
\* that head is the frame being sent.
HeadIsSent ==
  /\ queue_state # "QS_IDLE" <=> zip.owner = "queue"
  /\ queue_state # "QS_IDLE" /\ overtaken = 0 =>
       QueueOf(queue_state) # <<>> /\ Head(QueueOf(queue_state)) = zip.packet

\* What node_queue.c says queue_send_done does with a frame, over any number of
\* steps: a frame that was accepted, and of which the queue was told nothing but
\* that it must be tried again, is still in exactly one of the queues, and no other
\* frame is.  The code loses frames in two ways, and no more than one each time:
\* a lifetime that ends during a transmission, whose completion then frees another
\* frame, and a move that finds the pool full.
FramesKept ==
  LET queued == [k \in 1..Used |-> (first_attempt_queue \o long_queue)[k].frame]
      pending == {f \in Frame : fate[f] = "pending"}
  IN  /\ IsInjective(queued)
      /\ Queued \subseteq pending
      /\ Cardinality(pending \ Queued) <= overtaken + noroom

\* The invariants that node_queue.c documents for the re-q flag: no frame in the
\* first queue has it; a frame in the long queue has it unless it was put there on
\* arrival or its node is FLIRS; and only a Wake Up No More Information is put into
\* the long queue for a mailbox node.  A frame may be there when its node becomes a
\* mailbox node, by its probe or when it no longer fails: the documented exception
\* for frames "requeued by ClassicZIPNode" is one case of it, and frames put there
\* on arrival or after a missing acknowledgement are others.  (After a lifetime has
\* ended during a transmission, the node looked at is that of another frame.)
RequeueFlag ==
  /\ \A p \in ToSet(first_attempt_queue) : ~p.requeued
  /\ overtaken > 0 \/ \A p \in ToSet(long_queue) :
       /\ p.requeued \/ p.direct \/ mode[Dest[p.frame]] = "flirs"
       /\ p.asleep => p.frame \in Wunmi

\* What ZIP_Router.c says of the mailbox ("When MB goes idle, it always starts the
\* node queues"), for all that holds up the queue: whenever frames wait and
\* nothing keeps them from being sent, an event to send them is pending.
Kicked ==
  Used > 0 /\ ~Sending /\ ~Busy /\ ~mb /\ nm = "idle" /\ ~engine => updates > 0

\* The same, except in the three cases where the code does post nothing: the mailbox
\* was aborted, a proxied inclusion timed out, or a frame's lifetime ended while it
\* was being sent (queue_send_done then finds its queue empty).
KickedUnlessQuiet == Kicked \/ unkicked \/ overtaken > 0

\* No frame waits for ever, whatever holds the queue up and however often it is
\* refused: it is sent, given up, moved to the mailbox or expired, unless
\* ClassicZIPNode is stuck or one of the three quiet cases has occurred.
Drained ==
  \A f \in Frame : f \in Queued ~> (f \notin Queued \/ zip.stuck \/ unkicked \/ overtaken > 0)

\* node_queue.h: "Aborted frame transmissions MUST be resumed after the successful
\* delivery of all other frames."  A frame whose first attempt was cut off by the
\* queue timer is not given up before it has been tried from the long queue.
AbortedIsResumed == \A f \in Frame : fate[f] # "cut off"

\* node_queue.c: "We don't want to queue this frame again so generate a blacklist
\* finger print."  A frame equal to one of the last two is not queued.
DuplicatesDropped ==
  [][\A f \in Frame : fate[f] = "new" /\ Crc[f] \in ToSet(black_list)
                        => fate'[f] # "pending"]_vars

=============================================================================
