---------------------------- MODULE MCVFSBackend ----------------------------
(* Instances of VFSBackend for TLC.                                        *)
EXTENDS VFSBackend, TLC

CONSTANTS i1, i2,   \* ids
          a1, b1,   \* two global assets with id i1
          g2,       \* a global asset with id i2
          l2        \* a local asset with id i2

\* Both global assets share an id, so a lost existence check would show.
GlobalPair == {a1, b1}
GlobalTwo == {a1, g2}
GlobalAndLocal == {a1, l2}
OneGlobal == {a1}
OneLocal == {l2}
AllAssets == {a1, b1, l2}

\* a1 and b1 play the same part.
PairSymmetry == Permutations(GlobalPair)

MCUuid == [a \in Assets |-> IF a \in {g2, l2} THEN i2 ELSE i1]
MCLocals == Assets \cap {l2}

\* Of a failure, a purge and a crash at most two happen; any two may.
TwoDisturbances == faults' + purges' + crashes' <= 2

SamePrefix == [i \in Ids |-> 0]
TwoPrefixes == [i \in Ids |-> IF i = i1 THEN 0 ELSE 1]
=============================================================================
