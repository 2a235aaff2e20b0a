------------------------------ MODULE MuxGpio ------------------------------
(***************************************************************************)
(* The multiplexer driver (drivers/mux/mux_gpio.c) as the key scan uses    *)
(* it: mux_select_next steps to the channel after the last one it reached, *)
(* by driving the select lines one after the other.  A GPIO write can fail *)
(* and ends the call with the lines half driven.                           *)
(*                                                                         *)
(* The optional channel-map is left out: no board has one, and its macro   *)
(* makes a pointer of the map's first element.                             *)
(***************************************************************************)
EXTENDS Integers

CONSTANTS
    MuxCnt,    \* multiplexers, in the order of the device tree
    Channels,  \* mux -> usable channels
    SelCnt,    \* select lines of a mux
    HasEn      \* muxes with an enable line

Mux == 1..MuxCnt
Line == 0..(SelCnt - 1)

ASSUME MuxConstants ==
    /\ MuxCnt \in Nat \ {0}
    /\ Channels \in [Mux -> Nat \ {0}]
    /\ SelCnt \in Nat \ {0}
    /\ HasEn \subseteq Mux

VARIABLES
    current,    \* mux -> channel it was stepped to, -1 unknown
    enabled,    \* muxes whose enable line select_next need not set
    sel_lines   \* mux -> which select lines are high

muxVars == <<current, enabled, sel_lines>>

\* The levels that select a channel: the bits of its number.
Pattern(channel) == [b \in Line |-> (channel \div 2^b) % 2 = 1]

\* A mux has select lines enough to tell its channels apart: at most
\* 2^SelCnt channels, which is their number when the board gives none.
ASSUME LinesSuffice ==
    \A m \in Mux : \A c, d \in 0..(Channels[m] - 1) :
        Pattern(c) = Pattern(d) => c = d

MuxTypeOK ==
    /\ current \in [Mux -> Int]
    /\ \A m \in Mux : current[m] \in -1..(Channels[m] - 1)
    /\ enabled \subseteq Mux
    /\ sel_lines \in [Mux -> [Line -> BOOLEAN]]

\* mux_gpio_init
MuxInit ==
    /\ current = [m \in Mux |-> -1]
    /\ enabled = Mux \ HasEn
    /\ sel_lines = [m \in Mux |-> [b \in Line |-> FALSE]]

NextChannel(m) == (current[m] + 1) % Channels[m]

\* The first n lines have been driven to the pattern.
drive_bits(m, channel, n) ==
    sel_lines' = [sel_lines EXCEPT ![m] =
                     [b \in Line |-> IF b < n THEN Pattern(channel)[b] ELSE @[b]]]

\* Mutant: no wrap at the last channel.
SelectNextUnbounded(m) ==
    /\ enabled' = enabled \cup {m}
    /\ drive_bits(m, current[m] + 1, SelCnt)
    /\ current' = [current EXCEPT ![m] = @ + 1]

\* Mutant: the wrap comes one channel late.
SelectNextLate(m) ==
    LET next == (current[m] + 1) % (Channels[m] + 1)
    IN  /\ enabled' = enabled \cup {m}
        /\ drive_bits(m, next, SelCnt)
        /\ current' = [current EXCEPT ![m] = next]

\* mux_gpio_select_next succeeds.
SelectNext(m) ==
    /\ enabled' = enabled \cup {m}
    /\ drive_bits(m, NextChannel(m), SelCnt)
    /\ current' = [current EXCEPT ![m] = NextChannel(m)]

\* It cannot set the enable line.
SelectNextEnableFails(m) ==
    /\ m \notin enabled
    /\ UNCHANGED muxVars

\* It cannot drive the line after the first n.
SelectNextDriveFails(m) ==
    \E n \in Line : /\ enabled' = enabled \cup {m}
                    /\ drive_bits(m, NextChannel(m), n)
                    /\ UNCHANGED current
=============================================================================
