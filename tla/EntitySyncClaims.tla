-------------------------- MODULE EntitySyncClaims --------------------------
(***************************************************************************)
(* What README.md says of the bridge reload, and the code does not do.  It  *)
(* is checked by a run of its own, whose trace is the disagreement.        *)
(***************************************************************************)
EXTENDS MCEntitySync

\* "Fifteen seconds after the cue list stops changing ... every loaded HomeKit
\* Bridge that could be publishing these cues is reloaded" (README.md), unless it
\* was turned off: a bridge follows, or a reload that will see to it is to come.
ChangeIsReloaded ==
    \A h \in Homes \ Accessories : Follows(h) \/ h \in optedOut
=============================================================================
