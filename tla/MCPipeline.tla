----------------------------- MODULE MCPipeline -----------------------------
(* Pipeline with three notices.  n2, the only one that is amended and of a *)
(* source that numbers no versions (BOAMP), resembles n1 and n3, which do  *)
(* not resemble each other.  Amended, n2 keeps its cross-reference to them *)
(* but has a deadline that no other notice is near.                        *)
EXTENDS Pipeline, TLC

CONSTANTS n1, n2, n3, c1, c2, w1, w2

MCSays == [n \in Notice |-> IF n = n2 THEN {c1, c2} ELSE {c1}]

MCSame ==
  {xy \in (Notice \X Content) \X (Notice \X Content) : xy[1][1] = n2 \/ xy[2][1] = n2}

MCNear ==
  {xy \in (Notice \X Content) \X (Notice \X Content) : <<n2, c2>> \notin {xy[1], xy[2]}}

MCSourceVersion == [n \in Notice |-> [c \in Content |-> 1]]

MCSymmetry == Permutations({n1, n3}) \cup Permutations(Worker)
=============================================================================
