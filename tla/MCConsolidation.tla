--------------------------- MODULE MCConsolidation ---------------------------
(* Three observations: 2 supports 1, and both duplicates and contradicts 3;  *)
(* 1 and 2 are duplicates too.  Two passes run over 1 and 2; or one pass     *)
(* runs while 2 and 3 are being created; or one pass runs over 2 and 3,      *)
(* which nothing promotes.                                                   *)
EXTENDS Consolidation

MCObs == 1 .. 3
MCCreated == [o \in MCObs |-> o]
MCPass == {21, 22}
MCScenario == {[seed |-> {1, 2}, new |-> {}, passes |-> MCPass],
               [seed |-> {1}, new |-> {2, 3}, passes |-> {21}],
               [seed |-> {2, 3}, new |-> {}, passes |-> {21}]}
MCSupports == [o \in MCObs |-> IF o = 2 THEN {1} ELSE {}]
MCSimilar == {{1, 2}, {2, 3}}
MCOpposed == {{2, 3}}
MCSameTitle == {{1, 3}}
=============================================================================
