--------------------------- MODULE MCKatResponse ----------------------------
(* KatResponse on every file of a few lines: cases of a count and a         *)
(* signature, which is reproduced when it is not above the count; the first *)
(* case also needs its mutation rejected.                                   *)
EXTENDS KatResponse, SequencesExt

MCLines ==
  {[name |-> n, value |-> 0, indented |-> FALSE] :
     n \in {"blank", "comment", "malformed", "count", "sm"}} \cup
  {[name |-> n, value |-> 1, indented |-> FALSE] : n \in {"count", "sm"}} \cup
  {[name |-> "count", value |-> 2, indented |-> FALSE],
   [name |-> "count", value |-> 0, indented |-> TRUE]}
MCContents == BoundedSeq(MCLines, 6)

(* Reproducible cases only, and an indented count.                          *)
MCGoodLines ==
  {l \in MCLines : l.name \in {"blank", "count", "sm"} /\ l.value = IF l.name = "count" THEN 1 ELSE 0} \cup
  {l \in MCLines : l.indented}
MCGoodContents == BoundedSeq(MCGoodLines, 6)
MCReproduces(case) == case["sm"] <= case["count"]
MCAccepts(case, m) == case["sm"] = m
=============================================================================
