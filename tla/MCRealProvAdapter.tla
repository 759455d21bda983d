-------------------------- MODULE MCRealProvAdapter --------------------------
(* One vehicle comes with a configuration, another with and without.       *)
EXTENDS RealProvAdapter

CONSTANTS vin1, vin2

MCVins == {vin1, vin2}

MCWrites == {[op |-> "write", vin |-> vin1, config |-> TRUE],
             [op |-> "write", vin |-> vin2, config |-> FALSE]}

=============================================================================
