---------------------------- MODULE MCOracleRun -----------------------------
(* OracleRun with two runs over two commits: a library that reproduces the  *)
(* pinned one and a library that does not; the destination may hold nothing *)
(* but a directory, a clone that did not finish, or all of an old run at    *)
(* another commit.                                                          *)
EXTENDS OracleRun, TLC

MCLeftover ==
  {Empty, [Empty EXCEPT !.git = TRUE],
   [git |-> TRUE, commits |-> Commit \ {Pinned}, tree |-> CHOOSE c \in Commit : c # Pinned,
    kat_gen |-> CHOOSE c \in Commit : c # Pinned,
    kat_check |-> CHOOSE c \in Commit : c # Pinned,
    response |-> CHOOSE c \in Commit : c # Pinned, rust |-> Partial]}
MCLibrary == {{Pinned}, Commit \ {Pinned}}
MCSymmetry == Permutations(Run)
=============================================================================
