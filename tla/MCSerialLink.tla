---------------------------- MODULE MCSerialLink ----------------------------
(* The serial link for TLC: one command with an answer and one without.    *)
EXTENDS SerialLink
MCCmds == {"get", "set"}
MCAnswered == {"get"}
=============================================================================
