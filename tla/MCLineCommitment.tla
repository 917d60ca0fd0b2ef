-------------------------- MODULE MCLineCommitment --------------------------
(* LineCommitment on words of one bit: the leaf expansion depends on its    *)
(* salt, execution, part and seed; a seed commitment is the seed it opens.  *)
EXTENDS LineCommitment

MCXor(a, b) == (a + b) % 2
MCPrg(s, e, w, p) == IF p = "tail" THEN (w * e + s + 1) % 2 ELSE (w + s * e) % 2
MCCommit(s, e, w) == <<s, e, w>>
=============================================================================
