------------------------------ MODULE MCSources ------------------------------
(* Sources with days of one hour of two minutes, a schedule that names the *)
(* first minute of every hour, and pages of one record.                    *)
EXTENDS Sources, TLC

CONSTANTS w1, w2

MCMinuteParts == {[from |-> 0, to |-> 1, step |-> 2]}
MCHourParts == {[from |-> 0, to |-> 1, step |-> 1]}

Symmetry == Permutations(Worker)
=============================================================================
