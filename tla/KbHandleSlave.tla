--------------------------- MODULE KbHandleSlave ---------------------------
(***************************************************************************)
(* kb_handle() of the slave half (kb_handle_slave.c): a poll, the edge     *)
(* callbacks, and the bitmap sent to the master when one of them ran.  The *)
(* callbacks feed the slave's own key engine only while the master is not  *)
(* connected and subscribed; the Bluetooth callbacks change that between   *)
(* any two of them, so the engine can hear of a press and not of its       *)
(* release.                                                                *)
(***************************************************************************)
EXTENDS KbEngine

CONSTANTS
    KeyCount,   \* CONFIG_KB_KEY_COUNT
    WordBits,   \* KB_WORD_BITS
    RaceModes,  \* the modes the settings can hold: TRUE is KB_MODE_RACE
    Bitmaps     \* sets of keys a poll can find down

ASSUME SlaveConstants ==
    /\ KeyCount \in Nat \ {0}
    /\ WordBits \in Nat \ {0}
    /\ Index = 0..(KeyCount - 1)
    /\ RaceModes \subseteq BOOLEAN
    /\ Bitmaps \subseteq SUBSET Index

VARIABLES
    phase,      \* "idle", "edges" or "send"
    curr_down,
    prev_down,  \* keys whose press callback has run
    change,
    ready,      \* bt_connect_is_ready(): connected and subscribed
    race_mode,  \* settings->main.mode
    sent,       \* the bitmap last given to bt_gatt_notify
    unsent,     \* history: a later one could not be sent
    unheard     \* history: keys released unheard since FN mode was left

vars == <<engineVars, phase, curr_down, prev_down, change, ready, race_mode,
          sent, unsent, unheard>>

TypeOK ==
    /\ EngineTypeOK
    /\ phase \in {"idle", "edges", "send"}
    /\ curr_down \subseteq Index
    /\ prev_down \subseteq Index
    /\ change \in BOOLEAN
    /\ ready \in BOOLEAN
    /\ race_mode \in RaceModes
    /\ sent \subseteq Index
    /\ unsent \in BOOLEAN
    /\ unheard \subseteq Index

Init ==
    /\ EngineInit
    /\ phase = "idle"
    /\ curr_down = {}
    /\ prev_down = {}
    /\ change = FALSE
    /\ ready = FALSE
    /\ race_mode \in RaceModes
    /\ sent = {}
    /\ unsent = FALSE
    /\ unheard = {}

-----------------------------------------------------------------------------
\* get_kscan_bitmap; a race poll that finds no key ends kb_handle
Poll(down) ==
    /\ phase = "idle"
    /\ race_mode => Cardinality(down) <= 1
    /\ curr_down' = down
    /\ phase' = IF race_mode /\ down = {} THEN "idle" ELSE "edges"
    /\ UNCHANGED <<engineVars, prev_down, change, ready, race_mode, sent,
                   unsent, unheard>>

\* edge_detection: word by word, the presses of a word before its releases,
\* each in increasing key order
Word(k) == k \div WordBits
Edges == {k \in Index : (k \in curr_down) # (k \in prev_down)}

Precedes(j, k) ==
    \/ Word(j) < Word(k)
    \/ /\ Word(j) = Word(k)
       /\ \/ j \in curr_down /\ k \notin curr_down
          \/ (j \in curr_down) = (k \in curr_down) /\ j < k

NextEdge(k) == k \in Edges /\ \A j \in Edges \ {k} : Precedes(k, j)

\* on_press_slave
Press(k) ==
    /\ phase = "edges"
    /\ NextEdge(k)
    /\ k \in curr_down
    /\ change' = TRUE
    /\ IF ready THEN UNCHANGED engineVars ELSE OnPress(k)
    /\ prev_down' = prev_down \cup {k}
    /\ UNCHANGED <<phase, curr_down, ready, race_mode, sent, unsent, unheard>>

Unheard(k) ==
    unheard' = IF ready THEN unheard \cup {k}
               ELSE IF TranslatesTo(k, KeyFn) THEN {} ELSE unheard

\* Mutant: a release does not set change.
ReleaseSilently(k) ==
    /\ phase = "edges"
    /\ NextEdge(k)
    /\ k \notin curr_down
    /\ UNCHANGED change
    /\ IF ready THEN UNCHANGED engineVars ELSE OnRelease(k)
    /\ prev_down' = prev_down \ {k}
    /\ Unheard(k)
    /\ UNCHANGED <<phase, curr_down, ready, race_mode, sent, unsent>>

\* on_release_slave
Release(k) ==
    /\ phase = "edges"
    /\ NextEdge(k)
    /\ k \notin curr_down
    /\ change' = TRUE
    /\ IF ready THEN UNCHANGED engineVars ELSE OnRelease(k)
    /\ prev_down' = prev_down \ {k}
    /\ Unheard(k)
    /\ UNCHANGED <<phase, curr_down, ready, race_mode, sent, unsent>>

EdgesDone ==
    /\ phase = "edges"
    /\ Edges = {}
    /\ phase' = "send"
    /\ UNCHANGED <<engineVars, curr_down, prev_down, change, ready, race_mode,
                   sent, unsent, unheard>>

\* The end of kb_handle, with bt_connect_send_slave_keys and its early
\* returns; change is cleared whatever became of the bitmap.
Send ==
    /\ phase = "send"
    /\ phase' = "idle"
    /\ change' = FALSE
    /\ IF change /\ ready THEN sent' = curr_down /\ unsent' = FALSE
                          ELSE sent' = sent /\ unsent' = (unsent \/ change)
    /\ UNCHANGED <<engineVars, curr_down, prev_down, ready, race_mode, unheard>>

\* ykb_peer_connected, ykb_peer_disconnected, ykb_ccc_cfg_changed
LinkChanges ==
    /\ ready' = ~ ready
    /\ UNCHANGED <<engineVars, phase, curr_down, prev_down, change, race_mode,
                   sent, unsent, unheard>>

Next ==
    \/ \E down \in Bitmaps : Poll(down)
    \/ \E k \in Index : Press(k) \/ Release(k)
    \/ EdgesDone \/ Send \/ LinkChanges

Spec == Init /\ [][Next]_vars

-----------------------------------------------------------------------------
(***************************************************************************)
(* FN mode and the FN buffer of the slave belong to keys that are down:    *)
(* a keystroke callback (factory reset, start advertising) needs its keys  *)
(* and FN.  The one way out is a key released while the master was         *)
(* connected, which the engine does not hear of: until FN is pressed and   *)
(* released with the link down, FN mode stays, and single keys fire.       *)
(***************************************************************************)
SlaveFnOwned ==
    /\ fn_pressed =>
          \E i \in prev_down \cup unheard : KeyFn \in CodesOf(i)
    /\ fn_buff # <<>> => fn_pressed
    /\ \A n \in 1..Len(fn_buff) : fn_buff[n] \in prev_down \cup unheard
    /\ \A m, n \in 1..Len(fn_buff) :
          fn_buff[m] = fn_buff[n] /\ m # n => fn_buff[m] \in unheard
    /\ fired # {} => fn_pressed

(***************************************************************************)
(* Between two calls of kb_handle, what was last sent to the master is     *)
(* what the edge callbacks have been told, unless the link was down when   *)
(* a later bitmap was to be sent; nothing is sent again when it is up.     *)
(***************************************************************************)
SentCurrent == phase = "idle" /\ ~ unsent => sent = prev_down

(***************************************************************************)
(* The slave's kb_handle keeps the promises InterKbLink is built on: each  *)
(* poll that differs from the one before comes to the link once, whole,    *)
(* whichever callbacks ran for it, and one that does not differ never      *)
(* does.  A send is due from the poll on, before change says so.           *)
(***************************************************************************)
KeysTaken == IF phase = "idle" THEN prev_down ELSE curr_down

SendDue == phase # "idle" /\ (change \/ Edges # {})

Sender == INSTANCE SlaveSends WITH SlaveKeySet <- Index,
                                   slave_keys <- KeysTaken,
                                   change <- SendDue

ImplementsSlaveSends == Sender!SendSpec
=============================================================================
