---------------------------- MODULE MCNodeQueue ----------------------------
(* The node queue for TLC: a frame for a listening node, one for a FLIRS   *)
(* node and one for a sleeping node; a FLIRS node's frame with two for one *)
(* sleeping node, of which one is a Wake Up No More Information; and two   *)
(* equal frames for one node, with a CRC-32 above 16 bits.                 *)
EXTENDS NodeQueue
MCFrame == {"a1", "f1", "s1"}
MCDest == [a1 |-> 1, f1 |-> 2, s1 |-> 3]
MCMode == [n \in 1..3 |-> <<"listening", "flirs", "mailbox">>[n]]
MCCrc == [a1 |-> 70001, f1 |-> 70002, s1 |-> 70003]
MCWunmi == {}

MCFrameSleep == {"f1", "s1", "w1"}
MCDestSleep == [f1 |-> 2, s1 |-> 3, w1 |-> 3]
MCModeSleep == [n \in 2..3 |-> IF n = 2 THEN "flirs" ELSE "mailbox"]
\* One CRC for all keeps the order of arrival out of black_list, where it does not
\* matter: no frame is found there.
MCCrcSleep == [f \in MCFrameSleep |-> 70001]
MCWunmiSleep == {"w1"}

\* The mailbox and network management commands only.
MCOtherKick == {"wakeup", "command"}

MCFrameEqual == {"a1", "a2"}
MCDestEqual == [a1 |-> 1, a2 |-> 1]
MCModeEqual == [n \in {1} |-> "listening"]
MCCrcEqual == [a1 |-> 70001, a2 |-> 70001]
=============================================================================
