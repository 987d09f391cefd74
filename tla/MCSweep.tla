------------------------------ MODULE MCSweep ------------------------------
(***************************************************************************)
(* Instances of Sweep for TLC.                                             *)
(***************************************************************************)
EXTENDS Sweep, TLC

CONSTANTS s1, s2

Rec(st, expires, reviewed, cadence) ==
  [status |-> st, deprecates |-> FALSE,
   retired |-> st = "retired", closed |-> FALSE, expires |-> expires,
   reviewed |-> reviewed, cadence |-> cadence]

Lapsing  == Rec("active", 1, None, None)
Later    == Rec("active", 2, 0, 1)
Forever  == [Rec("active", None, 0, 1) EXCEPT !.deprecates = TRUE]
Immortal == Rec("active", None, None, None)
Draft    == Rec("draft", 0, 0, 1)
Retired  == [Rec("retired", 0, 0, 1) EXCEPT !.closed = TRUE]
BadEnd   == [Rec("active", 3, None, None) EXCEPT !.closed = TRUE]
HugeCadence == Rec("active", 3, 0, MaxDate + 1)

SmallRecords == {Lapsing, Later, Draft, HugeCadence}
OneRecord    == {Rec("active", 0, 0, 1)}
AllRecords   == {Lapsing, Later, Forever, Immortal, Retired, BadEnd, HugeCadence}

SweeperSymmetry == Permutations(Sweepers)
=============================================================================
