------------------------- MODULE SettleWindowClaims -------------------------
(***************************************************************************)
(* What README.md says of a settle window, and the code does not do.  It   *)
(* is checked by a run of its own, whose trace is the disagreement.        *)
(***************************************************************************)
EXTENDS SettleWindow

\* A window that lapses "gives the state back to whatever was last read"
\* (README.md:90-91).  The manifest read again inside the window is the last read,
\* and the end of the window puts the older state back over it.
GivesBackLastRead ==
    [][\A c \in Cues, g \in Gens :
          TimerFires(c, g) /\ settling[c] # None /\ rows[c] # None => rows'[c] = lastRead[c]]_vars
=============================================================================
