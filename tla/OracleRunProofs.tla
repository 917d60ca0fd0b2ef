--------------------------- MODULE OracleRunProofs --------------------------
(***************************************************************************)
(* The oracle command succeeds on the pinned commit, checks its own        *)
(* response and is never blocked by debris, for any number of runs,        *)
(* commits and libraries.                                                  *)
(*                                                                         *)
(* What a run finds on disk was there before the runs or was put there by  *)
(* them.  Past the clearing only the second kind is left, and it is all of *)
(* the pinned commit.  A run no other overlaps moreover finds what its own *)
(* last step left.                                                         *)
(***************************************************************************)
EXTENDS OracleRun, TLAPS

Past == {"clone", "checkout", "make", "generate", "read", "write", "check", "ok"}
Built == {"generate", "read", "write", "check"}
Reproduced == {"write", "check", "ok"}

Fresh ==
  /\ files.tree \in {None, Pinned}
  /\ files.kat_gen \in {None, Pinned} /\ files.kat_check \in {None, Pinned}
  /\ files.response \in {None, Partial, Pinned}

PinnedInv ==
  \A r \in Run :
    /\ pc[r] \in Past => Fresh
    /\ pc[r] \in Reproduced => contents[r] = Pinned /\ Pinned \in library[r]

(* What a run that no other overlaps finds. *)
Stage(r) ==
  /\ pc[r] \in {"clean", "clear", "clone"} /\ r \notin moved => source.head = Pinned
  /\ pc[r] = "clone" => place = "absent"
  /\ pc[r] = "checkout" => r \in moved \/ Pinned \in files.commits
  /\ pc[r] = "make" => files.tree = Pinned
  /\ pc[r] \in Built =>
       files.kat_gen = Pinned /\ files.kat_check = Pinned /\ place = "directory"
  /\ pc[r] = "read" => files.response = Pinned
  /\ pc[r] = "check" => files.rust = r
  /\ pc[r] = "ok" => checked[r] = r
  /\ pc[r] = "broken" => r \in moved

SoleInv ==
  \A r \in Run \ overlapped :
    /\ pc[r] \in Running => \A s \in Run \ {r} : pc[s] \notin Running
    /\ Stage(r)

IInv == TypeOK /\ PinnedInv /\ SoleInv

-----------------------------------------------------------------------------
LEMMA EmptyTyped == Empty \in Files
  BY OracleAssumption DEF Empty, Files

LEMMA DebrisTyped ==
  ASSUME TypeOK, NEW r \in Run, LeaveDebris(r)
  PROVE  place' \in {"absent", "directory", "outside"} /\ files' \in Files
         /\ (place' # "directory" => files' = Empty)
  <1> USE DEF TypeOK, Files
  <1>1. CASE pc[r] = "clear" /\ place = "directory"
    BY <1>1 DEF LeaveDebris
  <1>2. CASE pc[r] = "clone" /\ place = "absent"
    BY <1>2, EmptyTyped DEF LeaveDebris
  <1>3. CASE pc[r] = "make" /\ files.tree # None
    <2>1. PICK g, c \in {None, files.tree} :
            place' = place /\ files' = [files EXCEPT !.kat_gen = g, !.kat_check = c]
      BY <1>3 DEF LeaveDebris
    <2>2. g \in Commit \cup {None} /\ c \in Commit \cup {None}
      OBVIOUS
    <2>3. files.tree = None \/ place = "directory"
      BY DEF Empty
    <2>4. files' \in Files
      BY <2>1, <2>2
    <2> QED BY <1>3, <2>1, <2>3, <2>4
  <1>4. CASE pc[r] = "generate" /\ files.kat_gen # None
    BY <1>4, OracleAssumption DEF LeaveDebris, Empty
  <1>5. CASE pc[r] = "write" /\ place # "outside"
    BY <1>5, OracleAssumption DEF LeaveDebris, Empty
  <1> QED BY <1>1, <1>2, <1>3, <1>4, <1>5 DEF LeaveDebris

(* What is left of the contents of a directory is no less fresh, and debris *)
(* of the later steps comes from what is there.                             *)
LEMMA DebrisFresh ==
  ASSUME TypeOK, Fresh, NEW r \in Run, LeaveDebris(r)
  PROVE  Fresh'
  <1> USE DEF TypeOK, Files, Fresh
  <1>1. CASE pc[r] = "clear" /\ place = "directory"
    BY <1>1 DEF LeaveDebris
  <1>2. CASE pc[r] = "clone" /\ place = "absent"
    BY <1>2 DEF LeaveDebris, Empty
  <1>3. CASE pc[r] = "make" /\ files.tree # None
    <2>1. PICK g, c \in {None, files.tree} :
            files' = [files EXCEPT !.kat_gen = g, !.kat_check = c]
      BY <1>3 DEF LeaveDebris
    <2>2. g \in {None, Pinned} /\ c \in {None, Pinned}
      OBVIOUS
    <2> QED BY <2>1, <2>2
  <1>4. CASE pc[r] = "generate" /\ files.kat_gen # None
    BY <1>4, OracleAssumption DEF LeaveDebris
  <1>5. CASE pc[r] = "write" /\ place # "outside"
    BY <1>5, OracleAssumption DEF LeaveDebris
  <1> QED BY <1>1, <1>2, <1>3, <1>4, <1>5 DEF LeaveDebris

-----------------------------------------------------------------------------
(* Types. *)

LEMMA GoTyped ==
  ASSUME TypeOK, NEW r \in Run, NEW ok, NEW next \in Running \cup Ended,
         NEW otherwise \in Running \cup Ended, Go(r, ok, next, otherwise)
  PROVE  /\ pc' \in [Run -> {"idle"} \cup Running \cup Ended]
         /\ library' \in [Run -> Library] /\ source' \in Source
         /\ overlapped' \subseteq Run /\ moved' \subseteq Run
  BY DEF Go, TypeOK

LEMMA TypeStep ==
  ASSUME TypeOK, NEW r \in Run, Step(r)
  PROVE  TypeOK'
  <1> USE DEF Running, Ended
  <1>1. CASE CheckCommit(r)
    <2> USE <1>1 DEF CheckCommit
    <2>1. /\ pc' \in [Run -> {"idle"} \cup Running \cup Ended]
          /\ library' \in [Run -> Library] /\ source' \in Source
          /\ overlapped' \subseteq Run /\ moved' \subseteq Run
      BY GoTyped
    <2>2. contents' \in [Run -> Commit \cup {None}]
      BY DEF TypeOK
    <2>3. checked' \in [Run -> Run \cup Commit \cup {None, Partial}]
      BY DEF TypeOK
    <2>4. place' \in {"absent", "directory", "outside"} /\ files' \in Files
      BY OracleAssumption DEF TypeOK, Files, disk
    <2>5. place' # "directory" => files' = Empty
      BY OracleAssumption DEF TypeOK, Empty, disk
    <2> QED BY <2>1, <2>2, <2>3, <2>4, <2>5 DEF TypeOK
  <1>2. CASE CheckClean(r)
    <2> USE <1>2 DEF CheckClean
    <2>1. /\ pc' \in [Run -> {"idle"} \cup Running \cup Ended]
          /\ library' \in [Run -> Library] /\ source' \in Source
          /\ overlapped' \subseteq Run /\ moved' \subseteq Run
      BY GoTyped
    <2>2. contents' \in [Run -> Commit \cup {None}]
      BY DEF TypeOK
    <2>3. checked' \in [Run -> Run \cup Commit \cup {None, Partial}]
      BY DEF TypeOK
    <2>4. place' \in {"absent", "directory", "outside"} /\ files' \in Files
      BY OracleAssumption DEF TypeOK, Files, disk
    <2>5. place' # "directory" => files' = Empty
      BY OracleAssumption DEF TypeOK, Empty, disk
    <2> QED BY <2>1, <2>2, <2>3, <2>4, <2>5 DEF TypeOK
  <1>3. CASE ClearDestination(r)
    <2> USE <1>3 DEF ClearDestination
    <2>1. /\ pc' \in [Run -> {"idle"} \cup Running \cup Ended]
          /\ library' \in [Run -> Library] /\ source' \in Source
          /\ overlapped' \subseteq Run /\ moved' \subseteq Run
      BY GoTyped
    <2>2. contents' \in [Run -> Commit \cup {None}]
      BY DEF TypeOK
    <2>3. checked' \in [Run -> Run \cup Commit \cup {None, Partial}]
      BY DEF TypeOK
    <2>4. place' \in {"absent", "directory", "outside"} /\ files' \in Files
      BY OracleAssumption, EmptyTyped DEF TypeOK, Files, disk
    <2>5. place' # "directory" => files' = Empty
      BY OracleAssumption DEF TypeOK, Empty, disk
    <2> QED BY <2>1, <2>2, <2>3, <2>4, <2>5 DEF TypeOK
  <1>4. CASE Clone(r)
    <2> USE <1>4 DEF Clone
    <2>1. /\ pc' \in [Run -> {"idle"} \cup Running \cup Ended]
          /\ library' \in [Run -> Library] /\ source' \in Source
          /\ overlapped' \subseteq Run /\ moved' \subseteq Run
      BY GoTyped
    <2>2. contents' \in [Run -> Commit \cup {None}]
      BY DEF TypeOK
    <2>3. checked' \in [Run -> Run \cup Commit \cup {None, Partial}]
      BY DEF TypeOK
    <2>4. place' \in {"absent", "directory", "outside"} /\ files' \in Files
      <3>1. [Empty EXCEPT !.git = TRUE, !.commits = source.commits] \in Files
        BY OracleAssumption DEF TypeOK, Source, Files, Empty
      <3>2. CASE place = "absent" \/ (place = "directory" /\ files = Empty)
        BY <3>1, <3>2
      <3>3. CASE ~(place = "absent" \/ (place = "directory" /\ files = Empty))
        BY <3>3 DEF TypeOK, disk
      <3> QED BY <3>2, <3>3
    <2>5. place' # "directory" => files' = Empty
      BY OracleAssumption DEF TypeOK, Empty, disk
    <2> QED BY <2>1, <2>2, <2>3, <2>4, <2>5 DEF TypeOK
  <1>5. CASE Checkout(r)
    <2> USE <1>5 DEF Checkout
    <2>1. /\ pc' \in [Run -> {"idle"} \cup Running \cup Ended]
          /\ library' \in [Run -> Library] /\ source' \in Source
          /\ overlapped' \subseteq Run /\ moved' \subseteq Run
      BY GoTyped
    <2>2. contents' \in [Run -> Commit \cup {None}]
      BY DEF TypeOK
    <2>3. checked' \in [Run -> Run \cup Commit \cup {None, Partial}]
      BY DEF TypeOK
    <2>4. place' \in {"absent", "directory", "outside"} /\ files' \in Files
      BY OracleAssumption DEF TypeOK, Files, disk
    <2>5. place' # "directory" => files' = Empty
      <3>1. place # "directory" => Pinned \notin files.commits
        BY DEF TypeOK, Empty
      <3> QED BY <3>1 DEF TypeOK
    <2> QED BY <2>1, <2>2, <2>3, <2>4, <2>5 DEF TypeOK
  <1>6. CASE Make(r)
    <2> USE <1>6 DEF Make
    <2>1. /\ pc' \in [Run -> {"idle"} \cup Running \cup Ended]
          /\ library' \in [Run -> Library] /\ source' \in Source
          /\ overlapped' \subseteq Run /\ moved' \subseteq Run
      BY GoTyped
    <2>2. contents' \in [Run -> Commit \cup {None}]
      BY DEF TypeOK
    <2>3. checked' \in [Run -> Run \cup Commit \cup {None, Partial}]
      BY DEF TypeOK
    <2>4. place' \in {"absent", "directory", "outside"} /\ files' \in Files
      BY OracleAssumption DEF TypeOK, Files, disk
    <2>5. place' # "directory" => files' = Empty
      <3>1. place # "directory" => files.tree = None
        BY DEF TypeOK, Empty
      <3> QED BY <3>1 DEF TypeOK
    <2> QED BY <2>1, <2>2, <2>3, <2>4, <2>5 DEF TypeOK
  <1>7. CASE Generate(r)
    <2> USE <1>7 DEF Generate
    <2>1. /\ pc' \in [Run -> {"idle"} \cup Running \cup Ended]
          /\ library' \in [Run -> Library] /\ source' \in Source
          /\ overlapped' \subseteq Run /\ moved' \subseteq Run
      BY GoTyped
    <2>2. contents' \in [Run -> Commit \cup {None}]
      BY DEF TypeOK
    <2>3. checked' \in [Run -> Run \cup Commit \cup {None, Partial}]
      BY DEF TypeOK
    <2>4. place' \in {"absent", "directory", "outside"} /\ files' \in Files
      BY OracleAssumption DEF TypeOK, Files, disk
    <2>5. place' # "directory" => files' = Empty
      <3>1. place # "directory" => files.kat_gen = None
        BY DEF TypeOK, Empty
      <3> QED BY <3>1 DEF TypeOK
    <2> QED BY <2>1, <2>2, <2>3, <2>4, <2>5 DEF TypeOK
  <1>8. CASE ReadResponse(r)
    <2> USE <1>8 DEF ReadResponse
    <2>1. /\ pc' \in [Run -> {"idle"} \cup Running \cup Ended]
          /\ library' \in [Run -> Library] /\ source' \in Source
          /\ overlapped' \subseteq Run /\ moved' \subseteq Run
      BY GoTyped
    <2>2. contents' \in [Run -> Commit \cup {None}]
      <3>1. CASE files.response \in {None, Partial}
        BY <3>1 DEF TypeOK
      <3>2. CASE files.response \notin {None, Partial}
        <4>1. files.response \in Commit
          BY <3>2 DEF TypeOK, Files
        <4> QED BY <3>2, <4>1 DEF TypeOK
      <3> QED BY <3>1, <3>2
    <2>3. checked' \in [Run -> Run \cup Commit \cup {None, Partial}]
      BY DEF TypeOK
    <2>4. place' \in {"absent", "directory", "outside"} /\ files' \in Files
      BY OracleAssumption DEF TypeOK, Files, disk
    <2>5. place' # "directory" => files' = Empty
      BY OracleAssumption DEF TypeOK, Empty, disk
    <2> QED BY <2>1, <2>2, <2>3, <2>4, <2>5 DEF TypeOK
  <1>9. CASE WriteResponse(r)
    <2> USE <1>9 DEF WriteResponse
    <2>1. /\ pc' \in [Run -> {"idle"} \cup Running \cup Ended]
          /\ library' \in [Run -> Library] /\ source' \in Source
          /\ overlapped' \subseteq Run /\ moved' \subseteq Run
      BY GoTyped
    <2>2. contents' \in [Run -> Commit \cup {None}]
      BY DEF TypeOK
    <2>3. checked' \in [Run -> Run \cup Commit \cup {None, Partial}]
      BY DEF TypeOK
    <2>4. place' \in {"absent", "directory", "outside"} /\ files' \in Files
      BY OracleAssumption DEF TypeOK, Files, disk
    <2>5. place' # "directory" => files' = Empty
      BY OracleAssumption DEF TypeOK, Empty, disk
    <2> QED BY <2>1, <2>2, <2>3, <2>4, <2>5 DEF TypeOK
  <1>10. CASE CheckResponse(r)
    <2> USE <1>10 DEF CheckResponse
    <2>1. /\ pc' \in [Run -> {"idle"} \cup Running \cup Ended]
          /\ library' \in [Run -> Library] /\ source' \in Source
          /\ overlapped' \subseteq Run /\ moved' \subseteq Run
      BY GoTyped
    <2>2. contents' \in [Run -> Commit \cup {None}]
      BY DEF TypeOK
    <2>3. checked' \in [Run -> Run \cup Commit \cup {None, Partial}]
      BY DEF TypeOK, Files
    <2>4. place' \in {"absent", "directory", "outside"} /\ files' \in Files
      BY OracleAssumption DEF TypeOK, Files, disk
    <2>5. place' # "directory" => files' = Empty
      BY OracleAssumption DEF TypeOK, Empty, disk
    <2> QED BY <2>1, <2>2, <2>3, <2>4, <2>5 DEF TypeOK
  <1> QED BY <1>1, <1>2, <1>3, <1>4, <1>5, <1>6, <1>7, <1>8, <1>9, <1>10 DEF Step


-----------------------------------------------------------------------------
(* The pinned commit. *)

LEMMA PinnedStep ==
  ASSUME TypeOK, PinnedInv, NEW r \in Run, Step(r)
  PROVE  PinnedInv'
  <1> USE DEF Running, Ended, Past, Reproduced, PinnedInv
  <1>a. \A s \in Run \ {r} : pc'[s] = pc[s] /\ contents'[s] = contents[s]
    BY DEF Step, Go, TypeOK, CheckCommit, CheckClean, ClearDestination, Clone, Checkout,
           Make, Generate, ReadResponse, WriteResponse, CheckResponse
  <1>b. library' = library
    BY DEF Step, Go, CheckCommit, CheckClean, ClearDestination, Clone, Checkout,
           Make, Generate, ReadResponse, WriteResponse, CheckResponse
  <1>1. CASE CheckCommit(r)
    <2> USE <1>1 DEF CheckCommit
    <2>1. Fresh => Fresh'
      BY DEF Fresh, disk
    <2>2. pc'[r] \in Past => pc[r] \in Past
      BY <2>1 DEF Go, TypeOK
    <2>3. pc'[r] \in Reproduced => contents'[r] = Pinned /\ Pinned \in library[r]
      BY DEF Go, TypeOK
    <2> HIDE <1>1 DEF CheckCommit
    <2> QED BY <1>a, <1>b, <2>1, <2>2, <2>3
  <1>2. CASE CheckClean(r)
    <2> USE <1>2 DEF CheckClean
    <2>1. Fresh => Fresh'
      BY DEF Fresh, disk
    <2>2. pc'[r] \in Past => pc[r] \in Past
      BY <2>1 DEF Go, TypeOK
    <2>3. pc'[r] \in Reproduced => contents'[r] = Pinned /\ Pinned \in library[r]
      BY DEF Go, TypeOK
    <2> HIDE <1>2 DEF CheckClean
    <2> QED BY <1>a, <1>b, <2>1, <2>2, <2>3
  <1>3. CASE ClearDestination(r)
    <2> USE <1>3 DEF ClearDestination
    <2>1. Fresh \/ pc'[r] \in Past => Fresh'
      BY OracleAssumption DEF Fresh, disk, TypeOK, Empty, Go
    <2>2. pc'[r] \in Past => pc[r] \in Past \/ Fresh'
      BY <2>1 DEF Go, TypeOK
    <2>3. pc'[r] \in Reproduced => contents'[r] = Pinned /\ Pinned \in library[r]
      BY DEF Go, TypeOK
    <2> HIDE <1>3 DEF ClearDestination
    <2> QED BY <1>a, <1>b, <2>1, <2>2, <2>3
  <1>4. CASE Clone(r)
    <2> USE <1>4 DEF Clone
    <2>1. Fresh => Fresh'
      <3>1. CASE files' = files
        BY <3>1 DEF Fresh
      <3>2. CASE files' = [Empty EXCEPT !.git = TRUE, !.commits = source.commits]
        <4>1. /\ files'.tree = None /\ files'.kat_gen = None
              /\ files'.kat_check = None /\ files'.response = None
          BY <3>2, Zenon DEF Empty
        <4> QED BY <4>1 DEF Fresh
      <3> QED BY <3>1, <3>2 DEF disk
    <2>2. pc'[r] \in Past => pc[r] \in Past
      BY <2>1 DEF Go, TypeOK
    <2>3. pc'[r] \in Reproduced => contents'[r] = Pinned /\ Pinned \in library[r]
      BY DEF Go, TypeOK
    <2> HIDE <1>4 DEF Clone
    <2> QED BY <1>a, <1>b, <2>1, <2>2, <2>3
  <1>5. CASE Checkout(r)
    <2> USE <1>5 DEF Checkout
    <2>1. Fresh => Fresh'
      BY OracleAssumption DEF Fresh, disk, TypeOK, Files, Empty
    <2>2. pc'[r] \in Past => pc[r] \in Past
      BY <2>1 DEF Go, TypeOK
    <2>3. pc'[r] \in Reproduced => contents'[r] = Pinned /\ Pinned \in library[r]
      BY DEF Go, TypeOK
    <2> HIDE <1>5 DEF Checkout
    <2> QED BY <1>a, <1>b, <2>1, <2>2, <2>3
  <1>6. CASE Make(r)
    <2> USE <1>6 DEF Make
    <2>1. Fresh => Fresh'
      BY OracleAssumption DEF Fresh, disk, TypeOK, Files, Empty
    <2>2. pc'[r] \in Past => pc[r] \in Past
      BY <2>1 DEF Go, TypeOK
    <2>3. pc'[r] \in Reproduced => contents'[r] = Pinned /\ Pinned \in library[r]
      BY DEF Go, TypeOK
    <2> HIDE <1>6 DEF Make
    <2> QED BY <1>a, <1>b, <2>1, <2>2, <2>3
  <1>7. CASE Generate(r)
    <2> USE <1>7 DEF Generate
    <2>1. Fresh => Fresh'
      BY OracleAssumption DEF Fresh, disk, TypeOK, Files, Empty
    <2>2. pc'[r] \in Past => pc[r] \in Past
      BY <2>1 DEF Go, TypeOK
    <2>3. pc'[r] \in Reproduced => contents'[r] = Pinned /\ Pinned \in library[r]
      BY DEF Go, TypeOK
    <2> HIDE <1>7 DEF Generate
    <2> QED BY <1>a, <1>b, <2>1, <2>2, <2>3
  <1>8. CASE ReadResponse(r)
    <2> USE <1>8 DEF ReadResponse
    <2>1. Fresh => Fresh'
      BY OracleAssumption DEF Fresh, disk, TypeOK, Files, Empty
    <2>2. pc'[r] \in Past => pc[r] \in Past
      BY <2>1 DEF Go, TypeOK
    <2>3. pc'[r] \in Reproduced => contents'[r] = Pinned /\ Pinned \in library[r]
      BY DEF Go, TypeOK, Fresh
    <2> HIDE <1>8 DEF ReadResponse
    <2> QED BY <1>a, <1>b, <2>1, <2>2, <2>3
  <1>9. CASE WriteResponse(r)
    <2> USE <1>9 DEF WriteResponse
    <2>1. Fresh => Fresh'
      BY OracleAssumption DEF Fresh, disk, TypeOK, Files, Empty
    <2>2. pc'[r] \in Past => pc[r] \in Past
      BY <2>1 DEF Go, TypeOK
    <2>3. pc'[r] \in Reproduced => contents'[r] = Pinned /\ Pinned \in library[r]
      BY DEF Go, TypeOK
    <2> HIDE <1>9 DEF WriteResponse
    <2> QED BY <1>a, <1>b, <2>1, <2>2, <2>3
  <1>10. CASE CheckResponse(r)
    <2> USE <1>10 DEF CheckResponse
    <2>1. Fresh => Fresh'
      BY OracleAssumption DEF Fresh, disk, TypeOK, Files, Empty
    <2>2. pc'[r] \in Past => pc[r] \in Past
      BY <2>1 DEF Go, TypeOK
    <2>3. pc'[r] \in Reproduced => contents'[r] = Pinned /\ Pinned \in library[r]
      BY DEF Go, TypeOK
    <2> HIDE <1>10 DEF CheckResponse
    <2> QED BY <1>a, <1>b, <2>1, <2>2, <2>3
  <1> QED BY <1>1, <1>2, <1>3, <1>4, <1>5, <1>6, <1>7, <1>8, <1>9, <1>10 DEF Step

-----------------------------------------------------------------------------
(* A run on its own. *)

LEMMA OthersStage ==
  ASSUME SoleInv, NEW r \in Run, pc[r] \in Running, NEW s \in Run \ overlapped, s # r,
         moved' = moved, pc'[s] = pc[s], checked'[s] = checked[s]
  PROVE  pc'[s] \notin Running /\ Stage(s)'
  <1>1. pc[s] \notin Running
    BY DEF SoleInv
  <1>2. pc'[s] = "ok" => checked'[s] = s
    BY DEF SoleInv, Stage
  <1>3. pc'[s] = "broken" => s \in moved'
    BY DEF SoleInv, Stage
  <1> QED BY <1>1, <1>2, <1>3 DEF Stage, Running, Built

LEMMA SoleStep ==
  ASSUME TypeOK, PinnedInv, SoleInv, NEW r \in Run, Step(r)
  PROVE  SoleInv'
  <1>a. /\ \A s \in Run \ {r} : pc'[s] = pc[s] /\ checked'[s] = checked[s]
        /\ pc[r] \in Running
        /\ overlapped' = overlapped /\ moved' = moved /\ source' = source
        /\ library' = library
    BY DEF Step, Go, TypeOK, CheckCommit, CheckClean, ClearDestination, Clone, Checkout,
           Make, Generate, ReadResponse, WriteResponse, CheckResponse, Running
  <1>b. SUFFICES ASSUME r \notin overlapped PROVE Stage(r)'
    <2>1. ASSUME NEW s \in Run \ overlapped, s # r
          PROVE  pc'[s] \notin Running /\ Stage(s)'
      BY <1>a, <2>1, OthersStage
    <2>2. ASSUME r \notin overlapped
          PROVE  \A s \in Run \ {r} : pc'[s] \notin Running
      BY <1>a, <2>2 DEF SoleInv
    <2> QED BY <1>a, <1>b, <2>1, <2>2 DEF SoleInv
  <1>c. Stage(r)
    BY <1>b DEF SoleInv
  <1>d. Pinned # None /\ Pinned # Partial /\ r # None
    BY OracleAssumption
  <1>1. CASE CheckCommit(r)
    <2> USE <1>1 DEF CheckCommit
    <2>1. pc'[r] = "clean" => source'.head = Pinned
      BY <1>a DEF Go, TypeOK
    <2>2. pc'[r] \in {"clean", "refused"}
      BY DEF Go, TypeOK
    <2> HIDE <1>1 DEF CheckCommit
    <2> QED BY <1>a, <2>1, <2>2 DEF Stage, Built
  <1>2. CASE CheckClean(r)
    <2> USE <1>2 DEF CheckClean
    <2>1. pc'[r] = "clear" => (r \in moved' \/ source'.head = Pinned)
      BY <1>a, <1>c DEF Go, TypeOK, Stage
    <2>2. pc'[r] \in {"clear", "refused"}
      BY DEF Go, TypeOK
    <2> HIDE <1>2 DEF CheckClean
    <2> QED BY <1>a, <2>1, <2>2 DEF Stage, Built
  <1>3. CASE ClearDestination(r)
    <2> USE <1>3 DEF ClearDestination
    <2>1. pc'[r] = "clone" => (r \in moved' \/ source'.head = Pinned)
      BY <1>a, <1>c DEF Go, TypeOK, Stage
    <2>2. pc'[r] = "clone" => place' = "absent"
      BY DEF Go, TypeOK, disk
    <2>3. pc'[r] \in {"clone", "refused"}
      BY DEF Go, TypeOK
    <2> HIDE <1>3 DEF ClearDestination
    <2> QED BY <1>a, <2>1, <2>2, <2>3 DEF Stage, Built
  <1>4. CASE Clone(r)
    <2> USE <1>4 DEF Clone
    <2>1. place = "absent" /\ (r \in moved \/ source.head = Pinned)
      BY <1>c DEF Stage
    <2>2. pc'[r] = "checkout"
      BY <2>1 DEF Go, TypeOK
    <2>3. files'.commits = source.commits
      <3>1. files' = [Empty EXCEPT !.git = TRUE, !.commits = source.commits]
        BY <2>1
      <3> QED BY <3>1, Zenon DEF Empty
    <2>4. r \in moved' \/ Pinned \in files'.commits
      BY <1>a, <2>1, <2>3 DEF TypeOK, Source
    <2>5. pc'[r] \in {"checkout", "broken"}
      BY DEF Go, TypeOK
    <2> HIDE <1>4 DEF Clone
    <2> QED BY <1>a, <2>1, <2>2, <2>3, <2>4, <2>5 DEF Stage, Built
  <1>5. CASE Checkout(r)
    <2> USE <1>5 DEF Checkout
    <2>1. r \in moved \/ Pinned \in files.commits
      BY <1>c DEF Stage
    <2>2. pc'[r] = "make" => files'.tree = Pinned
      BY DEF Go, TypeOK, Files
    <2>3. pc'[r] = "broken" => r \in moved'
      BY <1>a, <2>1 DEF Go, TypeOK
    <2>4. pc'[r] \in {"make", "broken"}
      BY DEF Go, TypeOK
    <2> HIDE <1>5 DEF Checkout
    <2> QED BY <1>a, <2>1, <2>2, <2>3, <2>4 DEF Stage, Built
  <1>6. CASE Make(r)
    <2> USE <1>6 DEF Make
    <2>1. files.tree = Pinned
      BY <1>c DEF Stage
    <2>2. place = "directory"
      BY <1>d, <2>1 DEF TypeOK, Empty
    <2>3. files'.kat_gen = Pinned /\ files'.kat_check = Pinned
      BY <1>d, <2>1 DEF TypeOK, Files
    <2>4. pc'[r] = "generate" /\ place' = place
      BY <1>d, <2>1 DEF Go, TypeOK
    <2>5. pc'[r] \in {"generate", "broken"}
      BY DEF Go, TypeOK
    <2> HIDE <1>6 DEF Make
    <2> QED BY <1>a, <2>1, <2>2, <2>3, <2>4, <2>5 DEF Stage, Built
  <1>7. CASE Generate(r)
    <2> USE <1>7 DEF Generate
    <2>1. files.kat_gen = Pinned /\ files.kat_check = Pinned /\ place = "directory"
      BY <1>c DEF Stage, Built
    <2>2. /\ files'.kat_gen = Pinned /\ files'.kat_check = Pinned
          /\ files'.response = Pinned
      BY <1>d, <2>1 DEF TypeOK, Files
    <2>3. pc'[r] = "read" /\ place' = place
      BY <1>d, <2>1 DEF Go, TypeOK
    <2>4. pc'[r] \in {"read", "broken"}
      BY DEF Go, TypeOK
    <2> HIDE <1>7 DEF Generate
    <2> QED BY <1>a, <2>1, <2>2, <2>3, <2>4 DEF Stage, Built
  <1>8. CASE ReadResponse(r)
    <2> USE <1>8 DEF ReadResponse
    <2>1. files.kat_gen = Pinned /\ files.kat_check = Pinned /\ place = "directory"
      BY <1>c DEF Stage, Built
    <2>2. files.response = Pinned
      BY <1>c DEF Stage
    <2>3. pc'[r] \in {"write", "refused"} /\ files' = files /\ place' = place
      BY <1>d, <2>2 DEF Go, TypeOK, disk
    <2>4. pc'[r] \in {"write", "refused", "broken"}
      BY DEF Go, TypeOK
    <2> HIDE <1>8 DEF ReadResponse
    <2> QED BY <1>a, <2>1, <2>2, <2>3, <2>4 DEF Stage, Built
  <1>9. CASE WriteResponse(r)
    <2> USE <1>9 DEF WriteResponse
    <2>1. files.kat_gen = Pinned /\ files.kat_check = Pinned /\ place = "directory"
      BY <1>c DEF Stage, Built
    <2>2. pc'[r] = "check" /\ place' = place
      BY <2>1 DEF Go, TypeOK
    <2>3. /\ files'.kat_gen = Pinned /\ files'.kat_check = Pinned
          /\ files'.rust = r
      BY <2>1 DEF TypeOK, Files
    <2>4. pc'[r] \in {"check", "broken"}
      BY DEF Go, TypeOK
    <2> HIDE <1>9 DEF WriteResponse
    <2> QED BY <1>a, <2>1, <2>2, <2>3, <2>4 DEF Stage, Built
  <1>10. CASE CheckResponse(r)
    <2> USE <1>10 DEF CheckResponse
    <2>1. files.kat_check = Pinned /\ files.rust = r
      BY <1>c DEF Stage, Built
    <2>2. Pinned \in library[r]
      BY DEF PinnedInv, Reproduced
    <2>3. pc'[r] = "ok"
      BY <1>d, <2>1, <2>2 DEF Go, TypeOK
    <2>4. checked'[r] = r
      BY <2>1 DEF TypeOK
    <2>5. pc'[r] \in {"ok", "broken"}
      BY DEF Go, TypeOK
    <2> HIDE <1>10 DEF CheckResponse
    <2> QED BY <1>a, <2>1, <2>2, <2>3, <2>4, <2>5 DEF Stage, Built
  <1> QED BY <1>1, <1>2, <1>3, <1>4, <1>5, <1>6, <1>7, <1>8, <1>9, <1>10 DEF Step

-----------------------------------------------------------------------------
(* The other steps: a start, an edit of the checkout, a stop. *)

LEMMA StartStep ==
  ASSUME IInv, NEW r \in Run, Start(r)
  PROVE  IInv'
  <1> USE DEF Start, IInv
  <1>1. TypeOK'
    BY DEF TypeOK, Running, Ended, Active, locals, disk
  <1>2. PinnedInv'
    BY DEF TypeOK, PinnedInv, Past, Reproduced, Fresh, locals, disk
  <1>3. SoleInv'
    <2>1. SUFFICES ASSUME NEW s \in Run \ overlapped'
                   PROVE  /\ pc'[s] \in Running => \A t \in Run \ {s} : pc'[t] \notin Running
                          /\ Stage(s)'
      BY DEF SoleInv
    <2>2. s \notin overlapped
      OBVIOUS
    <2>3. CASE s = r
      <3>1. Active = {}
        BY <2>1, <2>3
      <3>2. pc'[s] = "commit" /\ \A t \in Run \ {s} : pc'[t] \notin Running
        BY <2>3, <3>1 DEF Active, TypeOK
      <3> QED BY <3>2 DEF Stage, Built
    <2>4. CASE s # r
      <3>1. pc'[s] = pc[s] /\ pc[s] \notin Running
        BY <2>1, <2>4 DEF Active, TypeOK
      <3>2. Stage(s)
        BY <2>2 DEF SoleInv
      <3> QED BY <3>1, <3>2 DEF Stage, Built, Running, locals
    <2> QED BY <2>3, <2>4
  <1> QED BY <1>1, <1>2, <1>3

LEMMA EditStep == ASSUME IInv, EditSource PROVE IInv'
  <1> USE DEF EditSource, IInv
  <1>1. TypeOK'
    BY DEF TypeOK, Active, locals, disk
  <1>2. PinnedInv'
    BY DEF PinnedInv, Fresh, locals, disk
  <1>3. SoleInv'
    <2>1. ASSUME NEW s \in Run \ overlapped PROVE Stage(s)'
      <3>1. Stage(s)
        BY DEF SoleInv
      <3>2. pc[s] \in Running => s \in moved'
        BY DEF Active
      <3> QED BY <3>1, <3>2 DEF Stage, Running, locals, disk
    <2> QED BY <2>1 DEF SoleInv
  <1> QED BY <1>1, <1>2, <1>3

LEMMA StopStep ==
  ASSUME IInv, NEW r \in Run, Stop(r)
  PROVE  IInv'
  <1> USE DEF Stop, IInv
  <1>1. TypeOK'
    <2>1. /\ place' \in {"absent", "directory", "outside"} /\ files' \in Files
          /\ place' # "directory" => files' = Empty
      BY DebrisTyped DEF TypeOK, disk
    <2> QED BY <2>1 DEF TypeOK, Ended, locals
  <1>2. PinnedInv'
    <2>1. Fresh => Fresh'
      BY DebrisFresh DEF Fresh, disk
    <2> QED BY <2>1 DEF TypeOK, PinnedInv, Past, Reproduced, locals
  <1>3. SoleInv'
    <2>1. ASSUME NEW s \in Run \ overlapped, s # r
          PROVE  pc'[s] \notin Running /\ Stage(s)'
      BY <2>1, OthersStage DEF TypeOK, locals
    <2>2. pc'[r] = "stopped"
      BY DEF TypeOK
    <2>3. Stage(r)'
      BY <2>2 DEF Stage, Built
    <2> QED BY <2>1, <2>2, <2>3 DEF SoleInv, Running
  <1> QED BY <1>1, <1>2, <1>3

LEMMA Invariance == Spec => []IInv
  <1>1. Init => IInv
    <2> SUFFICES ASSUME Init PROVE IInv
      OBVIOUS
    <2>1. TypeOK
      BY OracleAssumption, LeftoverAssumption, EmptyTyped DEF Init, TypeOK
    <2>2. PinnedInv /\ SoleInv
      BY DEF Init, PinnedInv, SoleInv, Past, Reproduced, Running, Stage, Built
    <2> QED BY <2>1, <2>2 DEF IInv
  <1>2. IInv /\ [Next]_vars => IInv'
    <2> SUFFICES ASSUME IInv, [Next]_vars PROVE IInv'
      OBVIOUS
    <2>1. ASSUME NEW r \in Run, Step(r) PROVE IInv'
      BY <2>1, TypeStep, PinnedStep, SoleStep DEF IInv
    <2>2. CASE UNCHANGED vars
      BY <2>2 DEF vars, locals, disk, IInv, TypeOK, PinnedInv, SoleInv, Fresh, Stage
    <2> QED BY <2>1, <2>2, StartStep, EditStep, StopStep DEF Next
  <1> QED BY <1>1, <1>2, PTL DEF Spec

-----------------------------------------------------------------------------
(* The steps of the runs keep their types. *)
THEOREM TypeCorrect == Spec => []TypeOK
  BY Invariance, PTL DEF IInv

(* A run succeeds only against the pinned commit, with any debris, any      *)
(* number of overlapping runs and any edits of the checkout.                *)
THEOREM SuccessCorrect == Spec => []SucceedsOnPinned
  <1>1. IInv => SucceedsOnPinned
    BY DEF IInv, PinnedInv, SucceedsOnPinned, Reproduced
  <1> QED BY <1>1, Invariance, PTL

(* What kat_check accepted of a run on its own is the run's own response.   *)
THEOREM CheckCorrect == Spec => []ChecksOwnResponse
  <1>1. IInv => ChecksOwnResponse
    BY DEF IInv, SoleInv, Stage, ChecksOwnResponse
  <1> QED BY <1>1, Invariance, PTL

(* No debris of stopped runs makes a later run fail.                        *)
THEOREM DebrisHarmless == Spec => []DebrisNeverBlocks
  <1>1. IInv => DebrisNeverBlocks
    BY DEF IInv, SoleInv, Stage, DebrisNeverBlocks
  <1> QED BY <1>1, Invariance, PTL
=============================================================================
