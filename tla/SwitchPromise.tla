---------------------------- MODULE SwitchPromise ----------------------------
(***************************************************************************)
(* What the switches of a manifest promise whoever looks at them, without  *)
(* windows, ages, timers, calls in flight or the entities a cue has had    *)
(* (README.md, "While a press is coming true").  A command is shown until  *)
(* a read says otherwise or it is given up; of the reads that contradict   *)
(* it one may be withheld, and that one is then what it is given up for.   *)
(* SettleWindow implements this.                                           *)
(***************************************************************************)
CONSTANTS
    Cues,      \* ids of the cue pairs the manifest may list
    Reasons,   \* the sentences that may come with a state
    NoReason,  \* the absent sentence
    None       \* Python's None, for whatever may be absent

VARIABLES
    heard,  \* heard[c]: what was last read of c, or None if it is not listed
    shown,  \* shown[c]: what Home Assistant shows of c, or None
    owed    \* owed[c]: what c owes for a command it may be showing, or None

States   == {"on", "off", "unknown"}
Commands == {"on", "off"}
Value    == [state : States, reason : Reasons]
Face     == [value : Value, settling : BOOLEAN]

\* What was commanded, what is shown when that is given up, and whether a read
\* has been withheld for it.
Debt == [command : Commands, back : Value, spent : BOOLEAN]

Read(value) == [value |-> value, settling |-> FALSE]

\* Any step may find that a command shown as settling has been for long enough.
Fading(face) == IF face = None THEN {None} ELSE {face, Read(face.value)}

\* One cue comes to show a face and to owe a debt; the others show what they did.
Turns(c, face, debt) ==
    /\ shown' \in {told \in [Cues -> Face \cup {None}] :
                     told[c] = face /\ \A d \in Cues \ {c} : told[d] \in Fading(shown[d])}
    /\ owed' = [owed EXCEPT ![c] = debt]
-----------------------------------------------------------------------------
Init ==
    /\ heard \in [Cues -> Value \cup {None}]
    /\ shown = [c \in Cues |-> IF heard[c] = None THEN None ELSE Read(heard[c])]
    /\ owed = [c \in Cues |-> None]

\* A read is shown, and with it nothing is owed any more.
Believes(c, read) ==
    /\ shown[c] # None
    /\ heard' = [heard EXCEPT ![c] = read]
    /\ Turns(c, Read(read), None)

\* A read that contradicts the command is withheld, once.
Withholds(c, read) ==
    /\ shown[c] # None
    /\ owed[c] \in Debt /\ ~owed[c].spent
    /\ read.state # owed[c].command
    /\ heard' = [heard EXCEPT ![c] = read]
    /\ owed' = [owed EXCEPT ![c] = [command |-> @.command, back |-> read, spent |-> TRUE]]
    /\ UNCHANGED shown

\* A command is shown over what was shown, or over the report that came with it.
Commanded(c, wanted, over) ==
    Turns(c, [value |-> [over EXCEPT !.state = wanted], settling |-> TRUE],
             [command |-> wanted, back |-> over, spent |-> FALSE])

Shows(c, wanted) ==
    /\ shown[c] # None
    /\ LET report == [state |-> wanted, reason |-> NoReason] IN
       \/ /\ Commanded(c, wanted, shown[c].value)
          /\ heard' \in {heard, [heard EXCEPT ![c] = report]}
       \/ /\ Commanded(c, wanted, report)
          /\ heard' = [heard EXCEPT ![c] = report]

\* The command is given up.
GivesUp(c) ==
    /\ shown[c] # None
    /\ owed[c] \in Debt
    /\ Turns(c, Read(owed[c].back), None)
    /\ UNCHANGED heard

\* ... of a cue that is no longer listed.
Forgets(c) ==
    /\ shown[c] = None
    /\ owed' = [owed EXCEPT ![c] = None]
    /\ UNCHANGED <<heard, shown>>

\* A manifest is read, and shown as it is; what is owed stays owed.
Relists ==
    /\ heard' \in [Cues -> Value \cup {None}]
    /\ shown' \in {told \in [Cues -> Face \cup {None}] :
                     \A c \in Cues :
                       IF heard'[c] = None THEN told[c] = None
                       ELSE /\ told[c] # None
                            /\ told[c].value = heard'[c]
                            /\ told[c].settling => owed[c] \in Debt}
    /\ UNCHANGED owed

\* Nothing was read, commanded or given up.
Fades ==
    /\ shown' \in {told \in [Cues -> Face \cup {None}] :
                     \A c \in Cues : told[c] \in Fading(shown[c])}
    /\ UNCHANGED <<heard, owed>>

Next ==
    \/ Fades
    \/ Relists
    \/ \E c \in Cues : \/ \E read \in Value : Believes(c, read) \/ Withholds(c, read)
                       \/ \E wanted \in Commands : Shows(c, wanted)
                       \/ GivesUp(c) \/ Forgets(c)

Spec == Init /\ [][Next]_<<heard, shown, owed>>
=============================================================================
