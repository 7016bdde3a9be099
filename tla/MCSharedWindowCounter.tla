----------------------- MODULE MCSharedWindowCounter -----------------------
(***************************************************************************)
(* Two instances, one of which lags, and more increments of one key than a *)
(* limit of one or two allows.                                             *)
(***************************************************************************)
EXTENDS SharedWindowCounter

CONSTANTS i1, i2, a1, a2, a3, k1

MCInstances == {i1, i2}
MCAskers == {a1, a2, a3}
MCKeys == {k1}
MCWindowSeconds == [k \in MCKeys |-> 2]
MCLag == [i \in MCInstances |-> IF i = i1 THEN 0 ELSE 1]
=============================================================================
