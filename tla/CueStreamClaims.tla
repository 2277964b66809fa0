--------------------------- MODULE CueStreamClaims ---------------------------
(***************************************************************************)
(* What a comment of the coordinator says of an outage, and the code does   *)
(* not do.  It is checked by a run of its own, whose trace is the          *)
(* disagreement.                                                           *)
(***************************************************************************)
EXTENDS CueStream

\* With the stream down and the poll failing, leaving last_update_success True
\* would be "a control that lies about a server that is not there"
\* (coordinator.py:509-510).  A settle window that lapses in the outage publishes its
\* cue, and publishing makes every entity available.
OutageIsUnavailable == connected = "down" /\ server = "down" /\ since # None => ~success
=============================================================================
