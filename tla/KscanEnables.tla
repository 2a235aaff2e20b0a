---------------------------- MODULE KscanEnables ----------------------------
(***************************************************************************)
(* The key scan of the choco board (kscan_enables.c): every key has an     *)
(* enable line, keys share ADC channels, and a poll raises one line after  *)
(* the other, reads its channel and lowers it again.  A line that could    *)
(* not be written keeps its level and ends the poll, so a key's line can   *)
(* stay high, and its signal then mixes with the next keys' on the channel.*)
(*                                                                         *)
(* What a channel reads with more than one of its lines high is unknown; a *)
(* read that fails counts as 0.  The values handed to the backlight are    *)
(* left out here: they are KscanMuxes' finding in this driver as well.     *)
(***************************************************************************)
EXTENDS Integers, FiniteSets

CONSTANTS
    Lines,     \* 0..(gpios_cnt - 1), a line for each key
    Channel,   \* line -> its ADC channel: map[i] lines in a row
    Reading    \* what an ADC channel can read

LineCount == Cardinality(Lines)

ASSUME EnablesConstants ==
    /\ IsFiniteSet(Lines)
    /\ Lines = 0..(LineCount - 1)
    /\ LineCount # 0
    /\ DOMAIN Channel = Lines
    /\ Reading \subseteq Nat
    /\ 0 \in Reading

VARIABLES
    lines,         \* those that are high
    step,          \* "idle", or the next thing the poll does with key_index
    race,          \* the poll is poll_race
    key_index,
    bitmap,        \* curr_down
    max_val, pressed_index,   \* of poll_race
    result,        \* what the last poll returned
    found_high,    \* history: the lines that were high when the poll began
    travel,        \* history: what each key's own signal was when it was read
    misread        \* history: keys whose read failed in this poll

scanVars == <<lines, step, race, key_index, bitmap, max_val, pressed_index,
              result, found_high, travel, misread>>

ScanTypeOK ==
    /\ lines \subseteq Lines
    /\ step \in {"idle", "raise", "read", "lower"}
    /\ race \in BOOLEAN
    /\ key_index \in 0..LineCount
    /\ step # "idle" => key_index \in Lines
    /\ bitmap \subseteq 0..LineCount
    /\ max_val \in Nat
    /\ pressed_index \in Lines \cup {-1}
    /\ result \in -2..LineCount
    /\ found_high \subseteq Lines
    /\ travel \in [Lines -> Reading]
    /\ misread \subseteq Lines

\* After kscan_enables_init: every line is configured, and low.
ScanInit ==
    /\ lines = {}
    /\ step = "idle"
    /\ race = FALSE
    /\ key_index = 0
    /\ bitmap = {}
    /\ max_val = 0
    /\ pressed_index = -1
    /\ result = -1
    /\ found_high = {}
    /\ travel = [k \in Lines |-> 0]
    /\ misread = {}

-----------------------------------------------------------------------------
\* kscan_poll_normal or kscan_poll_race, on a bitmap that was cleared
PollStarts(in_race) ==
    /\ step = "idle"
    /\ step' = "raise"
    /\ race' = in_race
    /\ key_index' = 0
    /\ bitmap' = {}
    /\ max_val' = 0
    /\ pressed_index' = -1
    /\ found_high' = lines
    /\ travel' = [k \in Lines |-> 0]
    /\ misread' = {}
    /\ UNCHANGED <<lines, result>>

Raise ==
    /\ step = "raise"
    /\ lines' = lines \cup {key_index}
    /\ step' = "read"
    /\ UNCHANGED <<race, key_index, bitmap, max_val, pressed_index, result,
                   found_high, travel, misread>>

\* Another line that drives the channel of the key being read
Mixed == \E l \in lines \ {key_index} : Channel[l] = Channel[key_index]

\* read_io_channel: own is the key's signal, value what is read.
ReadChannel(own, value) ==
    /\ travel' = [travel EXCEPT ![key_index] = own]
    /\ \/ /\ value = own \/ Mixed
          /\ UNCHANGED misread
       \/ /\ value = 0
          /\ misread' = misread \cup {key_index}

\* kscan_key_pressed_by_threshold
Pressed(value, threshold) == ~ (value < threshold)

\* kscan_enables_poll_normal: the read
ReadNormal(thresholds, own, value) ==
    /\ step = "read"
    /\ ~ race
    /\ ReadChannel(own, value)
    /\ bitmap' = IF Pressed(value, thresholds[key_index])
                 THEN bitmap \cup {key_index} ELSE bitmap
    /\ step' = "lower"
    /\ UNCHANGED <<lines, race, key_index, max_val, pressed_index, result,
                   found_high>>

\* Mutant: the last pressed key is found, not the one pressed furthest.
ReadRaceLast(thresholds, own, value) ==
    /\ step = "read"
    /\ race
    /\ ReadChannel(own, value)
    /\ pressed_index' = IF Pressed(value, thresholds[key_index])
                        THEN key_index ELSE pressed_index
    /\ max_val' = value
    /\ step' = "lower"
    /\ UNCHANGED <<lines, race, key_index, bitmap, result, found_high>>

\* kscan_enables_poll_race: the read
ReadRace(thresholds, own, value) ==
    /\ step = "read"
    /\ race
    /\ ReadChannel(own, value)
    /\ \/ /\ Pressed(value, thresholds[key_index])
          /\ max_val < value
          /\ max_val' = value
          /\ pressed_index' = key_index
       \/ /\ ~ Pressed(value, thresholds[key_index]) \/ max_val >= value
          /\ UNCHANGED <<max_val, pressed_index>>
    /\ step' = "lower"
    /\ UNCHANGED <<lines, race, key_index, bitmap, result, found_high>>

\* Mutant: the line is left high.
LowerNothing ==
    /\ step = "lower"
    /\ key_index' = key_index + 1
    /\ key_index' # LineCount
    /\ step' = "raise"
    /\ UNCHANGED <<lines, race, bitmap, max_val, pressed_index, result,
                   found_high, travel, misread>>

\* Mutant: the loop runs on past the last line.
LowerOn ==
    /\ step = "lower"
    /\ lines' = lines \ {key_index}
    /\ key_index' = key_index + 1
    /\ step' = "raise"
    /\ UNCHANGED <<race, bitmap, max_val, pressed_index, result, found_high,
                   travel, misread>>

Lower ==
    /\ step = "lower"
    /\ lines' = lines \ {key_index}
    /\ key_index' = key_index + 1
    /\ key_index' # LineCount
    /\ step' = "raise"
    /\ UNCHANGED <<race, bitmap, max_val, pressed_index, result, found_high,
                   travel, misread>>

\* The last line is lowered and the poll returns.  poll_race sets the bit of
\* key_index, which is no key any more, and returns the key it found.
LowerLast ==
    /\ step = "lower"
    /\ lines' = lines \ {key_index}
    /\ key_index' = key_index + 1
    /\ key_index' = LineCount
    /\ step' = "idle"
    /\ bitmap' = IF race /\ pressed_index >= 0
                 THEN bitmap \cup {key_index'} ELSE bitmap
    /\ result' = IF race THEN pressed_index ELSE Cardinality(bitmap)
    /\ UNCHANGED <<race, max_val, pressed_index, found_high, travel, misread>>

\* gpio_set_err
WriteFails ==
    /\ step \in {"raise", "lower"}
    /\ step' = "idle"
    /\ result' = IF race THEN -2 ELSE -1
    /\ UNCHANGED <<lines, race, key_index, bitmap, max_val, pressed_index,
                   found_high, travel, misread>>

\* kscan_enables_init after a reset
ScanReset ==
    /\ lines' = {}
    /\ step' = "idle"
    /\ race' = FALSE
    /\ key_index' = 0
    /\ bitmap' = {}
    /\ max_val' = 0
    /\ pressed_index' = -1
    /\ result' = -1
    /\ found_high' = {}
    /\ travel' = [k \in Lines |-> 0]
    /\ misread' = {}

\* One step of a poll.
ScanStep(thresholds) ==
    \/ Raise \/ Lower \/ LowerLast \/ WriteFails
    \/ \E own, value \in Reading : \/ ReadNormal(thresholds, own, value)
                                   \/ ReadRace(thresholds, own, value)

-----------------------------------------------------------------------------
\* The last poll read every key; poll_race returns -1 when it found none.
Completed == step = "idle" /\ key_index = LineCount

(***************************************************************************)
(* A poll that reads every key has put every line low again, those that    *)
(* any number of failed polls before it had left high included.            *)
(***************************************************************************)
LinesRecover == Completed => lines = {}

\* The keys over their thresholds that are pressed furthest
GreatestOf(thresholds) ==
    {k \in Lines : /\ travel[k] > 0
                   /\ travel[k] >= thresholds[k]
                   /\ \A l \in Lines : travel[l] >= thresholds[l]
                                          => travel[l] <= travel[k]}
=============================================================================
