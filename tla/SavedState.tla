----------------------------- MODULE SavedState -----------------------------
(***************************************************************************)
(* What the user may expect of a setting that the keyboard remembers: it   *)
(* is changed by one operation at a time, each of which ends by saving it; *)
(* after a reset it is what was last saved, so that a reset loses at most  *)
(* the operation under way.  Two failures are allowed for, of a save, after*)
(* which the old value stays saved, and of the load, which restores the    *)
(* default and may save it in place of the user's value.                   *)
(***************************************************************************)
CONSTANTS
    Value,    \* what the setting can be
    Default,  \* its value on a new keyboard
    None      \* not a value: the keyboard is starting up

VARIABLES
    state,    \* the value in use
    saved,    \* the value a start would restore
    busy      \* an operation is under way

savedVars == <<state, saved, busy>>

SavedInit ==
    /\ state = None
    /\ saved \in Value
    /\ busy = FALSE

\* The load fails, and the default is saved before the start is complete.
Forget ==
    /\ state = None
    /\ saved' = Default
    /\ UNCHANGED <<state, busy>>

Started ==
    /\ state = None
    /\ state' \in {saved, Default}
    /\ saved' \in {saved, state'}
    /\ UNCHANGED busy

Change ==
    /\ state # None
    /\ state' \in Value
    /\ busy' = TRUE
    /\ UNCHANGED saved

\* An operation saves, and ends or goes on; the save may fail.
Save ==
    /\ busy
    /\ saved' \in {saved, state}
    /\ busy' \in BOOLEAN
    /\ UNCHANGED state

Reset ==
    /\ state' = None
    /\ busy' = FALSE
    /\ UNCHANGED saved

SavedNext == Forget \/ Started \/ Change \/ Save \/ Reset

SavedSpec == SavedInit /\ [][SavedNext]_savedVars
=============================================================================
