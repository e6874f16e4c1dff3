# Verification of the Z-Wave serial API gateway

TLA+ models of the concurrent core of this repository, the configurations with
which TLC checks them, and TLAPS proofs about the send-data stack.  Paths are
relative to the repository's root, which `PROJECT.json` calls `src/`.

## The system

The program drives a Z-Wave controller chip through a serial port.

* **Serial link** (`src/serialapi/Serialapi.c`, `conhandle.c`).  The host sends
  commands; the chip acknowledges each frame with a byte that carries no number
  (ACK, NAK, CAN), answers some commands with a RESPONSE, and sends REQUEST
  frames of its own.  `SerialAPI_Poll` hands received REQUEST frames to
  `Dispatch`, which calls registered callbacks.
* **Send-data stack** (`src/transport/`).  `ZW_SendDataAppl` queues application
  frames, encapsulates them (Security 0, Security 2, transport service, CRC16)
  into low-level frames, and gives these to the chip one at a time.
  `ZW_SendRequest` adds the wait for a report.
* **Z/IP gateway** (`src/*.c`).  IP packets for nodes go through the node queue
  and `ClassicZIPNode.c`; the mailbox keeps frames for sleeping nodes; network
  management includes and excludes nodes; the resource directory probes them.
* **Front end** (`src/SerialApiCustom/`).  A command interface over a socket:
  commands arrive with `SIGUSR2`, events leave as messages, nodes are kept in a
  database.
* **Contiki** (`contiki/`).  Cooperative processes with an event queue of 32,
  timers, lists and memory pools.

In this fork `AURA_DEV` is defined in `ZIP_Router.c`, `ZW_ZIPApplication.c`,
`Serialapi.c` and `ipv4_interface.c`: the front end and the serial link run, and
the gateway's modules are compiled and linked but not started.  Both are
modelled: the gateway modules are where the concurrency of this code is.

## Modules

| module | models | lines of the source |
|---|---|---|
| `Contiki` | posting to a bounded event queue, `list_remove`, pools | `contiki/core/sys/process.c`, `core/lib/list.c`, `memb.c` |
| `SendDataAppl` | the send-data stack with Security 0 and the chip's callback slot | `src/transport/ZW_SendDataAppl.c`, `Security_Scheme0.c`, `src/serialapi/Serialapi.c` |
| `SendService` | what the stack promises its callers (abstract) | `src/transport/ZW_SendDataAppl.c` |
| `SendRequest` | requests, their reports, timeouts and aborts, on top of `SendService`'s view of a frame | `src/transport/ZW_SendRequest.c` |
| `SerialLink` | the serial frame handler, a chip and a faulty line | `src/serialapi/conhandle.c`, `Serialapi.c`, `src/SerialApiCustom/SerialapiProcess.c` |
| `NodeQueue` | the node queue, its packet pool, and the one slot of ClassicZIPNode that it shares with the mailbox | `src/node_queue.c`, `contiki/core/net/uip-packetqueue.c`, `src/ClassicZIPNode.c`, `Mailbox.c`, and what `CC_NetworkManagement.c`, `ResourceDirectory.c` and `ZIP_Router.c` do to them |
| `MC...` | small instances for TLC | |
| `ContikiProofs`, `SendDataApplLemmas`, `SendDataApplProofs`, `SendDataApplService` | theorems about `Contiki` and `SendDataAppl` | |

### SendDataAppl

One Contiki process; an action is one event, one expired timer or one received
frame handled to its end.  `session_list` and `send_data_list` are the two
queues, `used` and `sess` the pool both draw from (`sess` keeps its contents
after `memb_free`, as the memory does), `lock`, `lock_ll`, `current_session` and
`current_session_ll` as in the code, `evq` the process's events, `tx_sessions`
the transmit sessions of Security 0.  `cbFunc`, `own` and `late` are the chip:
whether a callback is registered, whether it owes the completion of the current
frame, and how many completions of frames already given up are still to come.
`result`, `calls` and `acked` record what the callers saw.

`SendNext` and `SendNextLL` are the two SEND events, `EmergencyEvent` and
`BackoffEvent` the timer events (a timer that expires only posts one, so that it
may be handled after the timer was stopped), `ChipDone`, `ChipLate` and
`ChipLost` the completions, `ZW_SendDataApplAbort` and `ZW_SendDataAppl_init` the
abort and the restart.  A re-entrant `ZW_SendDataAppl` from a callback is a step
of its own: it only appends to a list and posts.

Left out: Security 2, the transport service, multicast, frame buffers and the
encryption itself (`NonceTableFull` says whether the nonce table may refuse a
nonce).  Handles passed to `ZW_SendDataApplAbort` are those of frames that have not
completed.

### SendRequest

`blk` and `used` are the pool, `reqs_list` the list, `tx` the frame of each
request as `SendService` describes it, and `arg` the block its completion is
handed.  `Callback` is the caller's callback inside a handler: it may send the
next request before the handler goes on.  Endpoints are part of the node.

### SerialLink

`ctx` is the program counter of two contexts, the main loop and the handler of
`SIGUSR2`, which runs to its end before the main loop goes on.  The two lines
carry whole frames and control bytes; `LineFault` loses or damages one.  The
chip is external: it takes frames in order, answers each with an ACK and, for
some commands, a RESPONSE, answers a command with CAN while it waits for an ACK
of its own, and repeats a REQUEST that was not acknowledged.

Timers expire only on a quiet line (`Quiet`): the ACK timeout of 1.5 s, the 1.6 s
of `WaitResponse` and the backoff are long against a byte on the wire.  The model
does not go down to bytes, so a stray SOF and the byte timeout are left out, and
`QueueFrame` is not interrupted by the signal.

### NodeQueue

`zip` is `ClassicZIPNode`'s single slot.  `Immediate` lists the statuses with
which `ClassicZIPNode_input` calls back before it returns, `Attempt` adds the
frames that are on their way when it does, `SendCompleted` is their completion.
The mailbox appears as `mb` (`mb_is_busy`) and as a second owner of the slot.
`queue_send_done` takes the head of the queue for the frame it is told about, as
the code does; the status `ABORTED` is `TRANSMIT_COMPLETE_FAIL` after the queue
timer, told apart only for the history.

Frames are refused (`Refused`) while network management is busy (`nm`), while
their node is being probed (`rd_state`) and while the mailbox is busy.  Each has
its own end.  `NetworkManagementDone` is `ResetState`, whose event runs
`process_node_queues`; `AllNodesProbed` is the end of all probing, whose event
posts `ZIP_EVENT_QUEUE_UPDATED`; `MailboxDone` posts it too.  `ProxyTimeout`, a
proxied inclusion that gets no node information (`CC_NetworkManagement.c:1493`),
and a mailbox that a command aborts post nothing of the kind.

`mode` is read whenever a frame arrives or completes, as `rd_get_node_mode` is.
It changes: `FoundWakeUp` makes a node a mailbox node in the middle of its probe,
and `rd_set_failing` sets a flag in the mode of a failing node that the comparison
with `MODE_MAILBOX` does not mask out, so that a failing node is not treated as a
mailbox node.

`fate` records what the queue was last told of a frame, not what it did with it;
`FramesKept` compares the two.

Left out: the contents of packets, DTLS, keep-alive frames, the replies to the
IP client, `node_queue_init` on a reset, new and removed nodes, and the locking
of the probe engine (`rd_probe_unlock` may leave a probe suspended, and its node
refused, until something resumes it).  `assert(0)` in `queue_send_done` is
modelled as the code after it.

## What the runs check

| run | instance | shows |
|---|---|---|
| `senddata_safety` | a Get and a two-part Security 0 frame in three blocks, a nonce report with a discard timer, an abort, a full nonce table | the pool is accounted for; one Security 0 session at a time; a completion pops the frame the chip has; no wake-up is lost; one callback per frame; `ZW_SendDataAppl_idle` is exact |
| `senddata_faults` | two blocks and an event queue of two, so that allocation and posting fail; a lost or late completion, a restart, an inclusion that starts or ends at any time | the inductive invariant `IInv` holds in the harshest setting, and the stack implements `SendService` |
| `senddata_own` | two Security 0 frames for one node in four blocks, an abort, a full nonce table, no inclusion | `OK` means sent, with one exception (below); every frame completes |
| `senddata_learn` (violation) | one Security 0 frame while inclusions start and end, and no other disturbance | a frame may never complete |
| `sendrequest` | three requests, two for the same report, in two blocks, with chained requests, further reports, aborts and a restart | no block is lost or handed out twice; a request is always watched by a frame or a timer; its caller is told once; it ends |
| `sendrequest_abort` (violation) | two requests | aborting the requests for a node leaves some pending |
| `serial` | two calls, three REQUEST frames of the chip, two faults, a receive queue of two, two attempts | an ACK and an answer belong to the call that takes them; acknowledged REQUESTs are kept and dispatched in order; every call returns |
| `serial_signal` (violation) | calls from the signal handler, no faults | the handler's call takes the ACK of the call it interrupted, and is reported as sent before the chip has read its frame |
| `nodequeue` | a frame for a FLIRS node, a frame and a Wake Up No More Information for a sleeping node, probed before or not, a pool of two packets, and any two of: a wake-up, a network management command, a proxied inclusion, a probe, a change of the failing flag | the frame completed is the head of its queue; a frame to be tried again is still queued, once; what the re-q flag and the long queue may hold; the queue is started again after what held it up; no frame waits for ever (exceptions below) |
| `nodequeue_kick` (violation) | a listening, a FLIRS and a sleeping node, wake-ups and commands only | an aborted mailbox does not start the queue |
| `nodequeue_resume` (violation) | the same nodes | a first attempt aborted by the queue timer may be dropped |
| `nodequeue_duplicate` (violation) | two equal frames | the second is queued again |

A violation run states what a comment or header of the repository says; the
quotation and the line are in `PROJECT.json`.

**Bounds.**  Pools, queues and attempt counts are scaled down so that they
overflow inside an instance (two blocks for two requests and a nonce report, two
events, two packets for three frames, a receive queue of two for three
REQUESTs; four blocks for two Security 0 frames and their parts).  Two or three frames are enough for one frame to
be sent while another is queued and a third party (nonce report, mailbox,
handler) intervenes.  The counters `Max...` bound the environment: calls, faults,
aborts, restarts.  `MaxOther` bounds by one number what disturbs the node queue:
two are enough for any pair (a probe and a failing node, a wake-up and a command);
with three the properties hold as well (2.8 million states instead of 0.7, which
takes too long for a routine run).  `NumEvents` is 32, as in the code, where a lost event is not
the question.

**Deadlock** is checked in `SerialLink`, whose main loop always polls.  The others
stop when their bounded environment has, so it is not checked there.

**Fairness.**  `SendDataAppl`: the process keeps taking events, and timers
expire; that is what Contiki's scheduler loop does.  Nothing is assumed of the
chip, the network or the application, since the emergency timer and the session
timers are there to replace them.  `SendRequest`: timers expire, and the send
service completes every frame, which is `Completes` of `senddata_own` (and what
`senddata_learn` shows to fail during inclusions).
`SerialLink`: the host's loops run and the chip reads its port; nothing is assumed of the line beyond
the number of faults (`MaxFaults`).  `NodeQueue`: events are
handled, transmissions complete, the 5 s timer of a proxied inclusion expires, and
the mailbox, network management and probing come to an end.  The end of the mailbox
is strongly fair: it is not enabled while a message is under way, and the mailbox
has finitely many for a node.

**Conditions in properties.**  `SentUnlessGaveUp` and `AnswerIsOwn` hold until a
`SendFrame` has used up all its attempts: it then returns without waiting for the
ACK of its last retransmission, and the next call may take it.
`RequestsKept` excepts REQUESTs that met a full receive queue after they were
acknowledged, and `CallsReturn` is about a chip that sends `MaxRequests` frames.

`KickedUnlessQuiet` and `Drained` except the ends at which the code posts nothing:
the aborted mailbox (the run `nodequeue_kick`), the proxied inclusion that times
out (`unkicked` for both), and a frame whose 60 s lifetime ends while it is being
sent and leaves its queue empty (`overtaken`).  `Drained` also excepts a slot left
busy by a refused proxied association (`ClassicZIPNode.c:812`), of the queue or of
the mailbox.  `HeadIsSent` says which frame is the head, and `RequeueFlag` what is
in the long queue, for as long as no lifetime has ended during a transmission.
`FramesKept` has no such exception; it bounds the loss instead, by one frame for
each lifetime that ends during a transmission and for each move that finds the
pool full, and fails without either of the two.  The third invariant that
`node_queue.c:260` documents ("A frame in the long queue is never for a mailbox
node, except ...") is stated by `RequeueFlag` for the moment at which a frame is put
there: a frame may be there already, and never have been requeued, when its node
becomes a mailbox node.

`NoLostWakeup` needs an
event queue with room: with `NumEvents = 3` in `senddata_safety` it fails.
`IdleExact` is stated for the time before a restart, and fails after one.

`OkMeansSent` excepts a step in which the frame at the head of the low-level queue
has outlived its request (`StaleHead`).  The exception is needed: when a Security 0
session is ended by an abort, an empty pool or a full nonce table while one of its
frames is queued, the next request takes the same session, and the old frame's
callback moves it.  That request may then be told `OK` although its own frame was
not sent.  Without the exception the property fails as soon as the pool can fill up
(four blocks for two frames; the code has eight for any number).

**Behaviour the models have and no property forbids.**  An emergency timer event
that is handled after its frame completed fails the next frame.  A queued frame
that reuses the block of the last sent one is taken for the current frame when it
is aborted.  `ZW_SendDataAppl_idle` may be false after a restart until the next
frame.  A pause that runs during a restart never ends by itself.  A report that is
read before the transmit status of its request is not matched, and the request
ends by its timeout.  Frames for one node may be reordered: one in the first
queue is sent before an earlier one that was moved to the long queue.

## What is proved

For every value of the constants (pool size, number of sessions, length of the
event queue, nodes, requests and jobs, bounds on faults):

* `Invariance`: `Spec => []IInv`, and from it `TypeCorrect`, `PoolAccounted`,
  `Sec0IsSingleSession`, `CallbackFindsItsFrame` and `CallbackOnce`;
* `StackImplementsService`: the stack implements `SendService!Spec`.

Assumed are `SizesAssumption`, `NodeAssumption` and `JobAssumption` of
`SendDataAppl` and the assumption on the event queue's length in `Contiki`.

**The inductive invariant.**  `PoolConsistent` is not inductive: a callback frees
the block whose address it was given when its frame was queued, and nothing in
`PoolConsistent` says that this block is still the one that holds the lock.
`IInv` adds what stored pointers may still refer to.  `RequestLinks`: the blocks in
`session_list` and the current one carry distinct pending requests, and every
pending request has one.  `FrameLinks`: a queued low-level frame whose callback
is `ZW_SendDataAppl_CallbackEx` points to the frame that holds the lock, is the
only such frame, and no Security 0 session is active beside it; one whose
callback is a Security 0 callback points to a session that is active or ended.
`TimerLinks`: a discard timer runs only for a queued frame, a session's timer only
for an active session, and the chip owes a completion only while `lock_ll` is
held.  With these, each handler finds its frame where it looks for it.

**Layout.**  `ContikiProofs` has the lemmas on lists without repetition (what
`list_remove`, `Append`, `Head` and `Tail` do to the set of elements and to
injectivity) and on posting.  `SendDataApplLemmas` proves the invariant for the
low-level queue, completions and Security 0 callbacks, `SendDataApplProofs` for
the remaining actions, one lemma per action, and combines them.
`SendDataApplService` shows that each action changes `result` as a step of
`SendService` or not at all; it uses `IInv` where a callback completes a request
(the request is pending, and is the only one completed).

**Only model-checked**: liveness (`Completes`, `Ends`, `CallsReturn`, `Drained`),
which is out of the prover's reach; `NoLostWakeup`, `IdleExact`,
`OkMeansSent`; and all of
`SendRequest`, `SerialLink` and `NodeQueue` so far.

## What is not modelled, and the plan

`PROJECT.json` lists every part of the system with its state, and the hazards
with the properties that cover them.  The order of the work ahead:

1. **Send-data stack**: Security 2 (`libs2/protocol/S2.c`, `src/transport/S2_wrap.c`: SPAN
   synchronisation, nonce reports, verification of delivery), the transport
   service (`libs2/transport_service/`: segments, retries,
   tie-breaking), and reassembly of received Security 0 frames.
2. **Front end**: the command interface, inclusion and exclusion, the node table
   and the interview of a new node in `SerialApiCustom`, composed with the table
   of callbacks of `Dispatch`.
3. **Gateway state machines**: the mailbox with its entries, pings and proxy
   mode; network management with its queue; the probe engine of the resource
   directory; the Security 2 and Security 0 inclusion machines; bridge and
   associations; firmware update; start-up and `zgw_idle`.
4. **Pure algorithms**: scheme selection in `security_layer.c`, multicast group
   replacement, the provisioning list's entries and iterator.
5. **Proofs**: the invariants of `SendRequest` (`PoolConsistent`, `Attended`,
   `ToldOnce`), of `NodeQueue` (`FramesKept`, `HeadIsSent`) and of `SerialLink`
   (`RequestsInOrder`); that `SendRequest` runs on `SendService`.

Not planned: cryptography (numeric algorithms out of TLC's reach; abstract
functions in the models that use them), SQL and file formats, packet formatting
and translation between IPv4 and IPv6, mDNS packets, the chip programmer and the
offline tools.
