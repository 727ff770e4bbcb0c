-------------------------- MODULE MCCommandInputs --------------------------
(* CommandInputs for TLC: a canonical record of each kind.                 *)
EXTENDS CommandInputs

\* r01 has its nullable fields, r03 holds nulls, and r04 lacks them.
MCCanonical ==
    [r01 |-> [number |-> "value", text |-> "value"],
     r03 |-> [number |-> "null", text |-> "null"],
     r04 |-> [number |-> "missing", text |-> "missing"]]

=============================================================================
