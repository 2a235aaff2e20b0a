------------------------------ MODULE MCKbScan ------------------------------
(***************************************************************************)
(* A right-hand master with three keys on each half, two of its own on one *)
(* ADC channel; keys with no rule, one, as many as fit and one more.       *)
(***************************************************************************)
EXTENDS KbScan

CONSTANTS Normal, Race, R1, R2, R3

MCModes == {Normal, Race}
MCRule == {R1, R2, R3}
MCKeymap == [i \in 0..5 |->
    CASE i = 0 -> <<R1>>         \* left half
      [] i = 1 -> <<R3, R2, R1>>
      [] i = 2 -> <<>>
      [] i = 3 -> <<R1, R2, R3>> \* right half
      [] i = 4 -> <<R2, R1>>
      [] i = 5 -> <<R3>>]

\* What other firmware may have left: other thresholds, rules and mode.
Other == [mode |-> Race, thresholds |-> [k \in 0..2 |-> k],
          mappings |-> [k \in 0..2 |-> <<R1>>],
          mappings_slave |-> [k \in 0..2 |-> <<R2, R3>>]]

Saved(version, size) == [version |-> version, size |-> size, contents |-> Other]

MCFlashImages == {Saved(3, 10), Saved(2, 10), Saved(3, 11)}

MCLines == 0..2
MCChannel == [l \in MCLines |-> IF l = 2 THEN 1 ELSE 0]
MCReading == 0..2
=============================================================================
