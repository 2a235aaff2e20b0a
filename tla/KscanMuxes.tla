----------------------------- MODULE KscanMuxes -----------------------------
(***************************************************************************)
(* The key scan over analog multiplexers (drivers/kscan/kscan_muxes.c,     *)
(* kscan_muxes_poll_normal): for every channel of every mux in turn, step  *)
(* the mux to its next channel, sample the ADC, set the key's bit and      *)
(* store its value.  The poll never says which channel it wants: that the  *)
(* sample belongs to the key it is stored for rests on where the previous  *)
(* poll left every mux.  Keys move at any time; a select or an ADC read    *)
(* can fail.                                                               *)
(*                                                                         *)
(* An ADC reading is 1 when it reaches the key's threshold and 0 when it   *)
(* does not.  A failed read counts as 0.                                   *)
(***************************************************************************)
EXTENDS MuxGpio, FiniteSets

\* The keys, each by its mux and channel.
Key == UNION {{<<m, c>> : c \in 0..(Channels[m] - 1)} : m \in Mux}

\* The keys the loops reach before a key; how many they are is its key index.
KeysBefore(k) == {j \in Key : j[1] < k[1] \/ (j[1] = k[1] /\ j[2] < k[2])}
KeyIndex(k) == Cardinality(KeysBefore(k))
KeyCount == Cardinality(Key)
KeyIndices == 0..(KeyCount - 1)

VARIABLES
    phase,      \* what the poll does next
    mux,        \* i of the loop over the muxes
    channel,    \* j of the loop over its channels
    key_index,
    bitmap,     \* bits set
    values,     \* key index -> stored value
    result,     \* how the last poll ended
    down,       \* keys that are down
    failed,     \* history: a select has failed
    disturbed   \* history: since the poll began a key moved or a read failed

scanVars == <<phase, mux, channel, key_index, bitmap, values, result>>
vars == <<muxVars, scanVars, down, failed, disturbed>>

TypeOK ==
    /\ MuxTypeOK
    /\ phase \in {"idle", "select", "read"}
    /\ mux \in Mux
    /\ channel \in 0..(Channels[mux] - 1)
    /\ key_index \in 0..KeyCount
    /\ bitmap \subseteq KeyIndices
    /\ values \in [KeyIndices -> {0, 1}]
    /\ result \in {"none", "ok", "error"}
    /\ down \subseteq Key
    /\ failed \in BOOLEAN
    /\ disturbed \in BOOLEAN

Init ==
    /\ MuxInit
    /\ phase = "idle"
    /\ mux = 1
    /\ channel = 0
    /\ key_index = 0
    /\ bitmap = {}
    /\ values = [i \in KeyIndices |-> 0]
    /\ result = "none"
    /\ down = {}
    /\ failed = FALSE
    /\ disturbed = FALSE

-----------------------------------------------------------------------------
\* get_kscan_bitmap clears the bitmap before it polls.
PollStart ==
    /\ phase = "idle"
    /\ phase' = "select"
    /\ mux' = 1
    /\ channel' = 0
    /\ key_index' = 0
    /\ bitmap' = {}
    /\ disturbed' = FALSE
    /\ UNCHANGED <<muxVars, values, result, down, failed>>

Select ==
    /\ phase = "select"
    /\ SelectNext(mux)
    /\ phase' = "read"
    /\ UNCHANGED <<mux, channel, key_index, bitmap, values, result, down, failed,
                   disturbed>>

\* Mutant: the poll carries on after a failed select.
SelectFailsIgnored ==
    /\ phase = "select"
    /\ SelectNextEnableFails(mux) \/ SelectNextDriveFails(mux)
    /\ phase' = "read"
    /\ failed' = TRUE
    /\ UNCHANGED <<mux, channel, key_index, bitmap, values, result, down,
                   disturbed>>

SelectFails ==
    /\ phase = "select"
    /\ SelectNextEnableFails(mux) \/ SelectNextDriveFails(mux)
    /\ phase' = "idle"
    /\ result' = "error"
    /\ failed' = TRUE
    /\ UNCHANGED <<mux, channel, key_index, bitmap, values, down, disturbed>>

\* What the ADC sees: the key on the channel the mux's lines select.
Reading == IF \E c \in 0..(Channels[mux] - 1) :
                 /\ sel_lines[mux] = Pattern(c)
                 /\ <<mux, c>> \in down
           THEN 1 ELSE 0

\* kscan_key_pressed_by_threshold leaves val alone below the threshold: what
\* is then stored is whatever the stack holds.
Store(reading) ==
    /\ bitmap' = IF reading = 1 THEN bitmap \cup {key_index} ELSE bitmap
    /\ \E val \in {0, 1} :
          /\ reading = 1 => val = reading
          /\ values' = [values EXCEPT ![key_index] = val]

\* Mutant: the key index starts again at every mux.
AdvancePerMux ==
    \/ /\ channel < Channels[mux] - 1
       /\ channel' = channel + 1
       /\ key_index' = key_index + 1
       /\ phase' = "select"
       /\ UNCHANGED <<mux, result>>
    \/ /\ channel = Channels[mux] - 1
       /\ mux < MuxCnt
       /\ mux' = mux + 1
       /\ channel' = 0
       /\ key_index' = 0
       /\ phase' = "select"
       /\ UNCHANGED result
    \/ /\ channel = Channels[mux] - 1
       /\ mux = MuxCnt
       /\ phase' = "idle"
       /\ result' = "ok"
       /\ UNCHANGED <<mux, channel, key_index>>

Advance ==
    /\ key_index' = key_index + 1
    /\ \/ /\ channel < Channels[mux] - 1
          /\ channel' = channel + 1
          /\ phase' = "select"
          /\ UNCHANGED <<mux, result>>
       \/ /\ channel = Channels[mux] - 1
          /\ mux < MuxCnt
          /\ mux' = mux + 1
          /\ channel' = 0
          /\ phase' = "select"
          /\ UNCHANGED result
       \/ /\ channel = Channels[mux] - 1
          /\ mux = MuxCnt
          /\ phase' = "idle"
          /\ result' = "ok"
          /\ UNCHANGED <<mux, channel>>

Sample ==
    /\ phase = "read"
    /\ Store(Reading)
    /\ Advance
    /\ UNCHANGED <<muxVars, down, failed, disturbed>>

SampleFails ==
    /\ phase = "read"
    /\ Store(0)
    /\ Advance
    /\ disturbed' = TRUE
    /\ UNCHANGED <<muxVars, down, failed>>

KeyMoves(k) ==
    /\ down' = IF k \in down THEN down \ {k} ELSE down \cup {k}
    /\ disturbed' = TRUE
    /\ UNCHANGED <<muxVars, scanVars, failed>>

Next ==
    \/ PollStart \/ Select \/ SelectFails \/ Sample \/ SampleFails
    \/ \E k \in Key : KeyMoves(k)

Spec == Init /\ [][Next]_vars

-----------------------------------------------------------------------------
(***************************************************************************)
(* As long as no select has failed, every sample is taken from the key it  *)
(* is stored for, poll after poll, whatever the muxes' channel counts.     *)
(***************************************************************************)
ReadsOwnKey ==
    phase = "read" /\ ~ failed => sel_lines[mux] = Pattern(channel)

(***************************************************************************)
(* And then a poll that nothing disturbs sets exactly the bits of the keys *)
(* that are down.                                                          *)
(***************************************************************************)
Undisturbed == phase = "idle" /\ result = "ok" /\ ~ disturbed

BitmapExact ==
    Undisturbed /\ ~ failed => bitmap = {KeyIndex(k) : k \in down}

(***************************************************************************)
(* A select that failed rotates the keys of its mux in all later polls,    *)
(* because the poll goes on from the channel it reached; but a poll that   *)
(* succeeds still visits every channel once: as many keys of a mux are     *)
(* reported as are down.                                                   *)
(***************************************************************************)
CountExact ==
    Undisturbed => \A m \in Mux :
        Cardinality({k \in Key : k[1] = m /\ KeyIndex(k) \in bitmap})
            = Cardinality({k \in down : k[1] = m})

(***************************************************************************)
(* "Fill out current ADC values in 'values'" (kb_handle_common.h): after   *)
(* an undisturbed poll the stored values are the readings.                 *)
(***************************************************************************)
ValuesCurrent ==
    Undisturbed /\ ~ failed => \A k \in Key :
        values[KeyIndex(k)] = IF k \in down THEN 1 ELSE 0
=============================================================================
