---------------------------- MODULE MCDeadLetters ----------------------------
(* Instances of DeadLetters for TLC: two jobs of one name. *)
EXTENDS DeadLetters

CONSTANTS r1, r2

MCFirstJobs == {[name |-> "mail", kind |-> "job", n |-> n] : n \in {0, 1}}

=============================================================================
