--------------------------- MODULE KbHandleMaster ---------------------------
(***************************************************************************)
(* kb_handle() of the master half (kb_handle_master.c): one poll of the    *)
(* local key matrix, edge detection over it, the copy of the slave half's  *)
(* bitmap out of incoming_keys, edge detection over that, one HID report.  *)
(* kb_handle() runs on the keyboard thread; the Bluetooth callbacks that   *)
(* write incoming_keys and ykb_slave_conn (inter_kb_comm/master.c) preempt *)
(* it between any two of its steps, also inside the memcpy of the bitmap.  *)
(*                                                                         *)
(* prev_down is advanced key by key here, as the callbacks run, where the  *)
(* code copies curr_down over it after the last one: no callback reads it. *)
(***************************************************************************)
EXTENDS KbEngine, SlaveLink

CONSTANTS
    KeyCount,       \* CONFIG_KB_KEY_COUNT
    SlaveKeyCount,  \* CONFIG_KB_KEY_COUNT_SLAVE
    WordBits,       \* KB_WORD_BITS
    MasterIsLeft,   \* CONFIG_BT_CONNECT_MASTER_LEFT
    RaceModes,      \* the modes the settings can hold: TRUE is KB_MODE_RACE
    MasterBitmaps   \* sets of keys a poll can find down

Halves == {"master", "slave"}
Keys(h) == 0..((IF h = "master" THEN KeyCount ELSE SlaveKeyCount) - 1)

Word(k) == k \div WordBits
WordsOf(h) == {Word(k) : k \in Keys(h)}

\* The right half's keys follow the left half's in the keymap.
KeymapIndex(h, k) ==
    IF (h = "slave") = MasterIsLeft THEN k + KeyCount ELSE k

ASSUME HandleConstants ==
    /\ KeyCount \in Nat \ {0}
    /\ SlaveKeyCount \in Nat \ {0}
    /\ WordBits \in Nat \ {0}
    /\ MasterIsLeft \in BOOLEAN
    /\ RaceModes \subseteq BOOLEAN
    \* Both halves of both boards have the same number of keys; the index
    \* arithmetic and the word count of edge_detection rely on it.
    /\ SlaveKeyCount = KeyCount
    /\ Index = 0..(KeyCount + SlaveKeyCount - 1)
    /\ MasterBitmaps \subseteq SUBSET Keys("master")
    /\ SlaveBitmaps \subseteq SUBSET Keys("slave")

VARIABLES
    phase,          \* what kb_handle is doing
    curr_down,      \* half -> keys down at the latest poll or copy
    prev_down,      \* half -> keys whose press callback has run
    copied,         \* words of incoming_keys already copied by this poll
    race_mode,      \* settings->main.mode, fixed when they are loaded
    report,         \* the last HID report
    dropped,        \* history: indices forgotten when the slave was lost
    masked          \* history: indices in the table released under FN

handleVars == <<phase, curr_down, prev_down, copied, report>>
inputVars == <<linkVars, race_mode>>   \* only read by kb_handle
history == <<dropped, masked>>
vars == <<engineVars, handleVars, inputVars, history>>

Phases == {"idle", "master", "get", "copy", "slave", "report"}

TypeOK ==
    /\ EngineTypeOK
    /\ phase \in Phases
    /\ curr_down \in [Halves -> SUBSET Index]
    /\ prev_down \in [Halves -> SUBSET Index]
    /\ \A h \in Halves : /\ curr_down[h] \subseteq Keys(h)
                         /\ prev_down[h] \subseteq Keys(h)
    /\ copied \subseteq WordsOf("slave")
    /\ incoming_keys \subseteq Keys("slave")
    /\ slave_conn \in BOOLEAN
    /\ race_mode \in RaceModes
    /\ report \in Seq(PressedKey)
    /\ dropped \subseteq Index
    /\ masked \subseteq Index

Init ==
    /\ EngineInit
    /\ phase = "idle"
    /\ curr_down = [h \in Halves |-> {}]
    /\ prev_down = [h \in Halves |-> {}]
    /\ copied = {}
    /\ LinkInit
    /\ race_mode \in RaceModes
    /\ report = <<>>
    /\ dropped = {}
    /\ masked = {}

-----------------------------------------------------------------------------
(***************************************************************************)
(* get_kscan_bitmap.  A poll that fails, or comes before the polling rate  *)
(* has passed, changes nothing the next one reads.  A race poll reports    *)
(* one of the keys that are down; when none is, kb_handle returns as if    *)
(* the poll had failed, leaving the cleared bitmap behind.  That is what   *)
(* kb_handle_common.c asks of a race poll; the drivers' own poll_race set  *)
(* the wrong bit (kscan_enables.c:136) or step the wrong device            *)
(* (kscan_muxes.c:124), and are not modelled.                              *)
(***************************************************************************)
PollNormal(down) ==
    /\ phase = "idle"
    /\ ~ race_mode
    /\ curr_down' = [curr_down EXCEPT !["master"] = down]
    /\ phase' = "master"
    /\ UNCHANGED <<engineVars, prev_down, copied, report, inputVars, history>>

PollRace(k) ==
    /\ phase = "idle"
    /\ race_mode
    /\ curr_down' = [curr_down EXCEPT !["master"] = {k}]
    /\ phase' = "master"
    /\ UNCHANGED <<engineVars, prev_down, copied, report, inputVars, history>>

PollRaceNone ==
    /\ phase = "idle"
    /\ race_mode
    /\ curr_down' = [curr_down EXCEPT !["master"] = {}]
    /\ UNCHANGED <<engineVars, phase, prev_down, copied, report, inputVars,
                   history>>

Poll ==
    \/ \E down \in MasterBitmaps : PollNormal(down)
    \/ \E k \in UNION MasterBitmaps : PollRace(k)
    \/ PollRaceNone

(***************************************************************************)
(* edge_detection: word by word, the presses of a word before its          *)
(* releases, each in increasing key order.                                 *)
(***************************************************************************)
Edges(h) == {k \in Keys(h) : (k \in curr_down[h]) # (k \in prev_down[h])}

Precedes(h, j, k) ==
    \/ Word(j) < Word(k)
    \/ /\ Word(j) = Word(k)
       /\ \/ j \in curr_down[h] /\ k \notin curr_down[h]
          \/ (j \in curr_down[h]) = (k \in curr_down[h]) /\ j < k

NextEdge(h, k) == /\ k \in Edges(h)
                  /\ \A j \in Edges(h) \ {k} : Precedes(h, k, j)

\* on_press_master and on_press_slave
Press(h, k) ==
    /\ phase = h
    /\ NextEdge(h, k)
    /\ k \in curr_down[h]
    /\ OnPress(KeymapIndex(h, k))
    /\ prev_down' = [prev_down EXCEPT ![h] = @ \cup {k}]
    /\ UNCHANGED <<phase, curr_down, copied, report, inputVars, history>>

\* on_release_master and on_release_slave
Release(h, k) ==
    /\ phase = h
    /\ NextEdge(h, k)
    /\ k \notin curr_down[h]
    /\ OnRelease(KeymapIndex(h, k))
    /\ prev_down' = [prev_down EXCEPT ![h] = @ \ {k}]
    /\ masked' = IF fn_pressed
                 THEN masked \cup ({KeymapIndex(h, k)}
                                   \cap IndicesIn(pressed_keys))
                 ELSE masked
    /\ UNCHANGED <<phase, curr_down, copied, report, inputVars, dropped>>

EdgesDone(h) ==
    /\ phase = h
    /\ Edges(h) = {}
    /\ phase' = IF h = "master" THEN "get" ELSE "report"
    /\ UNCHANGED <<engineVars, curr_down, prev_down, copied, report, inputVars,
                   history>>

(***************************************************************************)
(* bt_connect_get_slave_keys: fails without a connection object, and then  *)
(* kb_handle clears both slave bitmaps and runs no release callback.       *)
(***************************************************************************)
GetSlaveKeys ==
    /\ phase = "get"
    /\ slave_conn
    /\ phase' = "copy"
    /\ copied' = {}
    /\ UNCHANGED <<engineVars, curr_down, prev_down, report, inputVars, history>>

SlaveIndices(S) == {KeymapIndex("slave", k) : k \in S}

ClearSlaveKeys ==
    /\ phase = "get"
    /\ ~ slave_conn
    /\ phase' = "report"
    /\ curr_down' = [curr_down EXCEPT !["slave"] = {}]
    /\ prev_down' = [prev_down EXCEPT !["slave"] = {}]
    /\ dropped' = dropped \cup SlaveIndices(prev_down["slave"])
    /\ UNCHANGED <<engineVars, copied, report, inputVars, masked>>

\* The memcpy is not protected against ykb_notify_cb: one word at a time.
CopyWord(w) ==
    /\ phase = "copy"
    /\ w \notin copied
    /\ \A v \in WordsOf("slave") \ copied : w <= v
    /\ curr_down' = [curr_down EXCEPT !["slave"] =
                        {k \in Keys("slave") :
                            k \in (IF Word(k) = w THEN incoming_keys ELSE @)}]
    /\ copied' = copied \cup {w}
    /\ UNCHANGED <<engineVars, phase, prev_down, report, inputVars, history>>

CopyDone ==
    /\ phase = "copy"
    /\ copied = WordsOf("slave")
    /\ phase' = "slave"
    /\ UNCHANGED <<engineVars, curr_down, prev_down, copied, report, inputVars,
                   history>>

\* handle_hid_report runs after every processed poll.
SendReport ==
    /\ phase = "report"
    /\ \E n \in 0..Len(pressed_keys) :
          /\ ReportEndsAt(n)
          /\ report' = SubSeq(pressed_keys, 1, n)
    /\ phase' = "idle"
    /\ UNCHANGED <<engineVars, curr_down, prev_down, copied, inputVars, history>>

InKbHandle ==
    \/ \E h \in Halves : \/ \E k \in Keys(h) : Press(h, k) \/ Release(h, k)
                         \/ EdgesDone(h)
    \/ GetSlaveKeys \/ ClearSlaveKeys \/ CopyDone
    \/ \E w \in WordsOf("slave") : CopyWord(w)
    \/ SendReport

\* The Bluetooth callbacks, between any two steps of kb_handle.
Link == LinkNext /\ UNCHANGED <<engineVars, handleVars, race_mode, history>>

Next == Poll \/ InKbHandle \/ Link

Spec == Init /\ [][Next]_vars

\* The keyboard thread loops for ever and is never starved for good; in
\* normal mode polls keep succeeding.  What a poll finds is up to the user.
FairSpec ==
    /\ Spec
    /\ WF_vars(InKbHandle)
    /\ WF_vars(\E down \in MasterBitmaps : PollNormal(down))
    /\ WF_vars(PollRaceNone)

-----------------------------------------------------------------------------
Held == UNION {{KeymapIndex(h, k) : k \in prev_down[h]} : h \in Halves}

(***************************************************************************)
(* Every entry of the pressed-key table belongs to a key that is still     *)
(* down.  The only entries that outlive their key are those whose release  *)
(* was taken by the FN buffer because FN was held (masked), and those of   *)
(* the slave half's keys forgotten when the link dropped (dropped); any    *)
(* other key has at most one entry.                                        *)
(***************************************************************************)
PressedOwned ==
    /\ IndicesIn(pressed_keys) \subseteq Held \cup dropped \cup masked
    /\ \A m, n \in 1..Len(pressed_keys) :
          pressed_keys[m].index = pressed_keys[n].index /\ m # n
             => pressed_keys[m].index \in dropped \cup masked

(***************************************************************************)
(* FN mode never outlives the keys that made it: while fn_pressed is set   *)
(* some FN key is down (or was forgotten with the slave), the FN buffer    *)
(* is empty outside FN mode and lists only keys that are down, each once,  *)
(* so a keystroke callback (factory reset, advertising) needs them all.    *)
(***************************************************************************)
FnOwned ==
    /\ fn_pressed => \E i \in Held \cup dropped : KeyFn \in CodesOf(i)
    /\ fn_buff # <<>> => fn_pressed
    /\ \A n \in 1..Len(fn_buff) : fn_buff[n] \in Held \cup dropped
    /\ \A m, n \in 1..Len(fn_buff) :
          fn_buff[m] = fn_buff[n] /\ m # n => fn_buff[m] \in dropped

(***************************************************************************)
(* A layer bit is set only while a key of that layer is down, or was when  *)
(* the slave was forgotten.                                                *)
(***************************************************************************)
LayersOwned ==
    \A l \in layer_modifiers : \E i \in Held \cup dropped : l \in CodesOf(i)

(***************************************************************************)
(* An entry of the table disappears in one way only: by the release        *)
(* callback of its own key.  Neither another key's release, nor FN, nor a  *)
(* layer change, nor losing the slave takes a key away from the host.      *)
(***************************************************************************)
OnlyOwnRelease ==
    [][\A i \in IndicesIn(pressed_keys) \ IndicesIn(pressed_keys') :
          i \in Held /\ i \notin Held']_vars

(***************************************************************************)
(* No flicker: an entry the host was told about is in the next report too, *)
(* unless its key was released in between, however many keys beyond the    *)
(* report's slots come and go.  A key left behind by FN or by a lost slave *)
(* can have two entries, and then its release takes the reported one.      *)
(***************************************************************************)
NoFlicker ==
    [][\A e \in ToSet(report) \ ToSet(report') :
          e \notin ToSet(pressed_keys) \/ e.index \in dropped \cup masked]_vars

(***************************************************************************)
(* A key that stays up is eventually out of the report for good, unless    *)
(* its release was masked by FN or it was forgotten with the slave.  For a *)
(* slave key, staying up means that its notifications say so.              *)
(***************************************************************************)
StaysUp(h, k) == IF h = "master" THEN <>[](k \notin curr_down["master"])
                 ELSE <>[](k \notin incoming_keys)

ReleaseReported ==
    \A h \in Halves : \A k \in Keys(h) :
        StaysUp(h, k) =>
            <>[](\/ KeymapIndex(h, k) \notin IndicesIn(report)
                 \/ KeymapIndex(h, k) \in dropped \cup masked)

-----------------------------------------------------------------------------
(***************************************************************************)
(* Claims of the repository that the code does not keep.                   *)
(***************************************************************************)

(***************************************************************************)
(* "Runs on every slave key just released once" (kb_handle_master.c): once *)
(* no key is down on either half, and FN took no release, no entry is      *)
(* left.                                                                   *)
(***************************************************************************)
EverySlaveReleaseRuns ==
    phase = "idle" /\ Held = {} /\ masked = {} => pressed_keys = <<>>
=============================================================================
