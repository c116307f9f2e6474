------------------------------ MODULE MCServer ------------------------------
(***************************************************************************)
(* Instances of module Server for TLC.                                     *)
(***************************************************************************)
EXTENDS Server, TLC

CONSTANTS s1, s2, s3, t1, t2

TwoSessions   == {s1, s2}
ThreeSessions == {s1, s2, s3}
TwoThreads    == {t1, t2}

(* With a read buffer of 2 units: a request that fits it, one whose status *)
(* line alone does not arrive in the first unit, one that is not HTTP.     *)
ThreeRequests == {[size |-> 1, head |-> 1, ok |-> TRUE],
                  [size |-> 3, head |-> 2, ok |-> TRUE],
                  [size |-> 1, head |-> 1, ok |-> FALSE]}

TwoRequests == {[size |-> 1, head |-> 1, ok |-> TRUE],
                [size |-> 1, head |-> 1, ok |-> FALSE]}

Symmetry == Permutations(ThreeSessions) \cup Permutations(TwoThreads)

=============================================================================
