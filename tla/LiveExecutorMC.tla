-------------------------- MODULE LiveExecutorMC --------------------------
(* Small instances of LiveExecutor for TLC; each cfg takes what it needs.  *)
EXTENDS LiveExecutor

None       == {}
OneLong    == {1}
TwoLongs   == {1, 2}
ThreeLongs == {1, 2, 3}
OddLongs   == {1, 3}
TwoLevels  == {1, 2}
ThreeLevels == {1, 2, 3}
LowPrice   == {1}
HighPrice  == {9}
AnyPrice   == {2, 9}
OneSlot    == {1}
TwoSlots   == {2}
ThreeSlots == {3}
OneOrTwo   == {1, 2}
TwoOrThree == {2, 3}
ZeroToTwo  == {0, 1, 2}

(* Two fills in three come late: after more than half the way to the next  *)
(* trade.                                                                  *)
LateFills  == [p \in Pids |-> IF p % 3 = 0 THEN 0 ELSE 3]
=============================================================================
