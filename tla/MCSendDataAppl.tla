------------------------- MODULE MCSendDataAppl -------------------------
(***************************************************************************)
(* Small instances of SendDataAppl.  Two nodes; the jobs are chosen so     *)
(* that a Get (which starts the pause), a frame without a scheme, a        *)
(* Security 0 frame of one part and one of two parts all compete.          *)
(***************************************************************************)
EXTENDS SendDataAppl

Plain(d, g) == [dnode |-> d, scheme |-> "NO_SCHEME", get |-> g, long |-> FALSE]
Sec0(d, lng) == [dnode |-> d, scheme |-> "SECURITY_SCHEME_0", get |-> FALSE,
                 long |-> lng]

\* A Get that starts the pause, and a Security 0 frame of two parts.
MixedJobs == <<Plain(1, TRUE), Sec0(2, TRUE)>>
\* Two Security 0 frames for one node, which use the same session in turn.
Sec0Jobs == <<Sec0(2, TRUE), Sec0(2, FALSE)>>
\* One Security 0 frame.
OneSec0 == <<Sec0(2, FALSE)>>
=========================================================================
