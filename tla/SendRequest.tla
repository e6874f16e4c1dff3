---------------------------- MODULE SendRequest ----------------------------
(***************************************************************************)
(* transport/ZW_SendRequest.c: a command is sent with ZW_SendDataAppl, and *)
(* the caller is called back when the matching report has been received,   *)
(* when the transmission fails, or after a timeout.                        *)
(*                                                                         *)
(* tx is the send service underneath, as SendService describes it: the     *)
(* frame of a request is accepted or rejected, and an accepted one         *)
(* completes once.  The callback of a request may itself send the next     *)
(* request (the probe of the resource directory does), in the middle of    *)
(* the handler that called it; Callback below does both.                   *)
(***************************************************************************)
EXTENDS Contiki

CONSTANTS
  NumReqs,      \* NUM_REQS (4 in the code)
  Node, Kind, Scheme,  \* what a frame is told apart by
  NumRequests,  \* bound: requests made in a behaviour
  Target,       \* the report request r waits for: [node, kind, scheme]
  MaxReports,   \* bound: reports after which the caller expects another
  MaxResets     \* bound: calls of ZW_SendRequest_init

Block == 1..NumReqs
Request == 1..NumRequests
Frame == [node : Node, kind : Kind, scheme : Scheme]

ASSUME SizesAssumption ==
  /\ NumReqs \in Nat \ {0} /\ NumRequests \in Nat
  /\ MaxReports \in Nat /\ MaxResets \in Nat
ASSUME TargetAssumption == Target \in [Request -> Frame]

VARIABLES
  used,        \* blocks of the pool reqs that are allocated
  blk,         \* their contents, which outlive memb_free
  reqs_list,
  tx,          \* the frame of each request, in the hands of ZW_SendDataAppl
  arg,         \* the block its completion will be handed
  result,      \* what the caller was told
  calls,       \* times the caller was told the end
  reports, resets

vars == <<used, blk, reqs_list, tx, arg, result, calls, reports, resets>>

State == {"REQ_SENDING", "REQ_WAITING", "REQ_DONE"}
\* req is the request a block serves; 0 after memb_init (callback is NULL).
Contents == [req : Request \cup {0}, state : State, timer : BOOLEAN]
Zeroed == [req |-> 0, state |-> "REQ_SENDING", timer |-> FALSE]

Init ==
  /\ used = {} /\ reqs_list = <<>> /\ blk = [s \in Block |-> Zeroed]
  /\ tx = [r \in Request |-> "idle"] /\ arg = [r \in Request |-> 1]
  /\ result = [r \in Request |-> "idle"] /\ calls = [r \in Request |-> 0]
  /\ reports = 0 /\ resets = 0

(***************************************************************************)
(* ZW_SendRequest(r), from a point of a handler at which u is allocated, l *)
(* is the list, b the blocks, t the frames and res what callers know.      *)
(* When it returns the handler puts `tail' at the end of the list and      *)
(* frees `freed'.                                                          *)
(***************************************************************************)
\* Mutant: timeout is stored in place of state.
StartedForeign(b, s, r) == [b EXCEPT ![s] = [req |-> r, state |-> "timeout",
                                             timer |-> b[s].timer]]

Started(b, s, r) == [b EXCEPT ![s] = [req |-> r, state |-> "REQ_SENDING",
                                      timer |-> b[s].timer]]

ZW_SendRequest(r, u, l, b, t, res, tail, freed) ==
  /\ res[r] = "idle"
  /\ \/ \E s \in Block :
          /\ memb_alloc(s, Block, u)
          /\ used' = (u \cup {s}) \ freed
          /\ reqs_list' = Append(l, s) \o tail
          /\ blk' = Started(b, s, r)
          /\ tx' = [t EXCEPT ![r] = "pending"]
          /\ arg' = [arg EXCEPT ![r] = s]
          /\ result' = [res EXCEPT ![r] = "pending"]
     \/ /\ \E s \in Block : memb_alloc(s, Block, u) /\ blk' = Started(b, s, r)
        /\ tx' = [t EXCEPT ![r] = "rejected"]
        /\ used' = u \ freed /\ reqs_list' = l \o tail
        /\ result' = [res EXCEPT ![r] = "rejected"]
        /\ UNCHANGED arg
     \/ /\ u = Block
        /\ used' = u \ freed /\ reqs_list' = l \o tail /\ blk' = b /\ tx' = t
        /\ result' = [res EXCEPT ![r] = "rejected"]
        /\ UNCHANGED arg

\* The caller is called back at that point, and may send another request.
Callback(u, l, b, t, res, tail, freed) ==
  \/ /\ used' = u \ freed /\ reqs_list' = l \o tail
     /\ blk' = b /\ tx' = t /\ result' = res /\ UNCHANGED arg
  \/ \E r \in Request : ZW_SendRequest(r, u, l, b, t, res, tail, freed)

Send(r) ==
  /\ ZW_SendRequest(r, used, reqs_list, blk, tx, result, <<>>, {})
  /\ UNCHANGED <<calls, reports, resets>>

\* Mutant: ctimer_stop is forgotten.
MovedTimerStays(s, state, timer) ==
  [blk EXCEPT ![s].state = state, ![s].timer = @ \/ timer]

\* Contents of block s once it has left the list.
Moved(s, state, timer) == [blk EXCEPT ![s].state = state, ![s].timer = timer]
Unlinked(s) == IF s \in ToSet(reqs_list) THEN list_remove(reqs_list, s) ELSE reqs_list
Called(r) == calls' = [calls EXCEPT ![r] = @ + 1]

\* Mutant: the block of a request that has timed out is not freed.
request_timeoutKeepsBlock(s, t) ==
  LET r == blk[s].req
  IN  IF r = 0
      THEN /\ used' = used \ {s} /\ reqs_list' = Unlinked(s)
           /\ blk' = Moved(s, "REQ_DONE", FALSE)
           /\ tx' = t /\ UNCHANGED <<arg, result, calls>>
      ELSE /\ Callback(used, Unlinked(s), Moved(s, "REQ_DONE", FALSE), t,
                       [result EXCEPT ![r] = "FAIL"], <<>>, {})
           /\ Called(r)

\* request_timeout(s), reached with frames t: stop, unlink, free, then call.
request_timeout(s, t) ==
  LET r == blk[s].req
  IN  IF r = 0
      THEN /\ used' = used \ {s} /\ reqs_list' = Unlinked(s)
           /\ blk' = Moved(s, "REQ_DONE", FALSE)
           /\ tx' = t /\ UNCHANGED <<arg, result, calls>>
      ELSE /\ Callback(used \ {s}, Unlinked(s), Moved(s, "REQ_DONE", FALSE), t,
                       [result EXCEPT ![r] = "FAIL"], <<>>, {})
           /\ Called(r)

Timeout(s) ==
  /\ blk[s].timer
  /\ request_timeout(s, tx)
  /\ UNCHANGED <<reports, resets>>

\* Mutant: the timer is not started.
SentNoTimer(s) == Moved(s, "REQ_WAITING", FALSE)

\* The frame is out: wait for the report.
Sent(s) == Moved(s, "REQ_WAITING", TRUE)

\* ZW_SendRequest_Callback: the frame of request r has completed.
ZW_SendRequest_Callback(r, status) ==
  LET s == arg[r]
      t == [tx EXCEPT ![r] = status]
  IN  /\ tx[r] = "pending"
      /\ IF status = "OK" /\ blk[s].state = "REQ_SENDING"
         THEN /\ blk' = Sent(s) /\ tx' = t
              /\ UNCHANGED <<used, reqs_list, arg, result, calls>>
         ELSE request_timeout(s, t)
      /\ UNCHANGED <<reports, resets>>

(***************************************************************************)
(* SendRequest_ApplicationCommandHandler: the first request in the list    *)
(* that waits for frame f gets it.                                         *)
(***************************************************************************)
Awaits(s, f) == blk[s].state = "REQ_WAITING" /\ Target[blk[s].req] = f

\* The first block of the list that is in S, as a set of at most one.
First(S) == {s \in S : \E k \in DOMAIN reqs_list :
                         /\ reqs_list[k] = s
                         /\ \A j \in 1..(k - 1) : reqs_list[j] \notin S}

\* The caller expects no more reports: the block is freed after the callback.
Answered(s) ==
  /\ Callback(used, list_remove(reqs_list, s), Moved(s, "REQ_DONE", FALSE), tx,
              [result EXCEPT ![blk[s].req] = "OK"], <<>>, {s})
  /\ Called(blk[s].req)
  /\ UNCHANGED reports

\* The caller returned 1: the request waits again, at the end of the list.
AnsweredMore(s) ==
  /\ reports < MaxReports
  /\ Callback(used, list_remove(reqs_list, s), Moved(s, "REQ_WAITING", TRUE), tx,
              result, <<s>>, {})
  /\ reports' = reports + 1
  /\ UNCHANGED calls

ApplicationCommandHandler(f) ==
  LET first == First({s \in ToSet(reqs_list) : Awaits(s, f)})
  IN  /\ \/ \E s \in first : Answered(s) \/ AnsweredMore(s)
         \/ /\ first = {}
            /\ UNCHANGED <<used, blk, reqs_list, tx, arg, result, calls, reports>>
      /\ UNCHANGED resets

(***************************************************************************)
(* ZW_Abort_SendRequest(n).  list_remove clears the link that the loop     *)
(* goes on with, so it ends after the first request it aborts.             *)
(***************************************************************************)
ZW_Abort_SendRequest(n) ==
  LET waiting == {s \in ToSet(reqs_list) : /\ blk[s].state = "REQ_WAITING"
                                           /\ Target[blk[s].req].node = n}
  IN  /\ \E s \in First(waiting) :
           /\ Callback(used \ {s}, list_remove(reqs_list, s),
                       Moved(s, "REQ_DONE", FALSE), tx,
                       [result EXCEPT ![blk[s].req] = "FAIL"], <<>>, {})
           /\ Called(blk[s].req)
      /\ UNCHANGED <<reports, resets>>

\* ZW_SendRequest_init: the frames stay with ZW_SendDataAppl, which is restarted
\* later.  memb_init clears the blocks, and with them their running timers.
ZW_SendRequest_init ==
  /\ resets < MaxResets
  /\ resets' = resets + 1
  /\ used' = {} /\ reqs_list' = <<>> /\ blk' = [s \in Block |-> Zeroed]
  /\ result' = [r \in Request |-> IF result[r] = "pending" THEN "dropped"
                                                           ELSE result[r]]
  /\ UNCHANGED <<tx, arg, calls, reports>>

Next ==
  \/ \E r \in Request : Send(r)
  \/ \E s \in Block : Timeout(s)
  \/ \E r \in Request, status \in {"OK", "FAIL"} : ZW_SendRequest_Callback(r, status)
  \/ \E f \in Frame : ApplicationCommandHandler(f)
  \/ \E n \in Node : ZW_Abort_SendRequest(n)
  \/ ZW_SendRequest_init

Spec == Init /\ [][Next]_vars

\* The send service completes every frame (SendDataAppl's Completes), and timers
\* expire.
FairSpec ==
  /\ Spec
  /\ \A r \in Request : WF_vars(\E status \in {"OK", "FAIL"} :
                                  ZW_SendRequest_Callback(r, status))
  /\ \A s \in Block : WF_vars(Timeout(s))

----------------------------------------------------------------------------
\* Every variable has its type: reqs_list holds blocks of the pool, and each
\* request has one outcome of those ZW_SendRequest.h lists or none yet.
TypeOK ==
  /\ used \subseteq Block /\ reqs_list \in Seq(Block)
  /\ blk \in [Block -> Contents]
  /\ tx \in [Request -> {"idle", "rejected", "pending", "OK", "FAIL"}]
  /\ arg \in [Request -> Block]
  /\ result \in [Request -> {"idle", "rejected", "pending", "OK", "FAIL", "dropped"}]
  /\ calls \in [Request -> Nat]
  /\ reports \in Nat /\ resets \in Nat

\* Between two handlers a block is allocated if and only if it is in the list,
\* once: whatever the callback does in the middle of a handler, in which the
\* block is free already or not yet, no block is lost or handed out twice.
PoolConsistent == used = ToSet(reqs_list) /\ IsInjective(reqs_list)

\* Without a restart no request is left unattended: one that is being sent has
\* its frame underway, which will be reported to this very block, and one that
\* waits has its timer running.  ZW_SendRequest_Callback uses its block without
\* looking whether it still serves the request.
Attended ==
  resets = 0 =>
    /\ \A s \in used :
         /\ result[blk[s].req] = "pending"
         /\ blk[s].state = "REQ_SENDING" =>
              tx[blk[s].req] = "pending" /\ arg[blk[s].req] = s
         /\ blk[s].state # "REQ_SENDING" =>
              blk[s].state = "REQ_WAITING" /\ blk[s].timer /\ tx[blk[s].req] = "OK"
    /\ \A s \in Block \ used : ~blk[s].timer
    /\ \A s, u \in used : blk[s].req = blk[u].req => s = u

\* The caller is told the end of its request exactly once, and OK only if its own
\* frame was transmitted before.
ToldOnce ==
  resets = 0 =>
    \A r \in Request :
      /\ calls[r] = IF result[r] \in {"OK", "FAIL"} THEN 1 ELSE 0
      /\ result[r] = "OK" => tx[r] = "OK"

\* Every request that was accepted ends.
Ends == \A r \in Request : result[r] = "pending" ~> result[r] # "pending"

\* "All pending Send Requests to that node need to be aborted."
AbortsAll ==
  [][\A n \in Node : ZW_Abort_SendRequest(n) =>
       \A r \in Request : result[r] = "pending" /\ Target[r].node = n
                            => result'[r] # "pending"]_vars
============================================================================
