----------------------------- MODULE OracleRun ------------------------------
(***************************************************************************)
(* The oracle command (prepare_oracle) builds the reference implementation *)
(* at a pinned commit from a checkout the operator names, compares its     *)
(* response file with the library and has the reference implementation     *)
(* check the library's own.  It works in one directory of the workspace,   *)
(* without a lock: runs may overlap, stop between or within any two steps  *)
(* and leave their debris to the next, and the operator may go on working  *)
(* in the checkout.                                                        *)
(*                                                                         *)
(* A build or a response is the commit it came from, a response of the     *)
(* library the run that wrote it.  Reading a response is KatResponse.      *)
(* git, make and the reference implementation are modelled from how they   *)
(* are called.                                                             *)
(***************************************************************************)
EXTENDS Integers

CONSTANTS
  Run,
  Commit, Pinned,
  None, Partial,     \* nothing there; a file written in part
  Leftover,          \* contents the destination may have before the runs
  Library            \* the commits whose responses a library reproduces

ASSUME OracleAssumption ==
  /\ Pinned \in Commit /\ Library \subseteq SUBSET Commit
  /\ {None, Partial} \cap (Commit \cup Run) = {} /\ None # Partial

VARIABLES
  pc,                    \* control of each run
  library,               \* the library each run was built with
  contents,              \* the response each run has read
  checked,               \* what kat_check was given, of each run that ended
  source,                \* the operator's checkout
  place,                 \* what is at the destination path
  files,                 \* what is in it when it is a directory
  overlapped, moved      \* history: runs met by another, by an edit of source

locals == <<library, contents, checked>>
disk == <<place, files>>
vars == <<pc, locals, source, disk, overlapped, moved>>

Files ==
  [git : BOOLEAN, commits : SUBSET Commit,  \* a clone, what is reachable in it
   tree : Commit \cup {None},             \* checked out
   kat_gen : Commit \cup {None}, kat_check : Commit \cup {None},
   response : Commit \cup {None, Partial},
   rust : Run \cup {None, Partial}]       \* rust-generated

Empty == [git |-> FALSE, commits |-> {}, tree |-> None,
          kat_gen |-> None, kat_check |-> None, response |-> None, rust |-> None]

ASSUME LeftoverAssumption == Leftover \subseteq Files

Source == {s \in [head : Commit, clean : BOOLEAN, commits : SUBSET Commit] :
             s.head \in s.commits}

Running == {"commit", "clean", "clear", "clone", "checkout", "make", "generate",
            "read", "write", "check"}
Ended == {"ok", "refused", "broken", "stopped"}
Active == {r \in Run : pc[r] \in Running}

Init ==
  /\ pc = [r \in Run |-> "idle"]
  /\ library \in [Run -> Library]
  /\ contents = [r \in Run |-> None] /\ checked = contents
  /\ source \in Source
  /\ place \in {"absent", "directory", "outside"}
  /\ files \in IF place = "directory" THEN Leftover ELSE {Empty}
  /\ overlapped = {} /\ moved = {}

Start(r) ==
  /\ pc[r] = "idle"
  /\ pc' = [pc EXCEPT ![r] = "commit"]
  /\ overlapped' = IF Active = {} THEN overlapped ELSE overlapped \cup Active \cup {r}
  /\ UNCHANGED <<locals, source, disk, moved>>

-----------------------------------------------------------------------------
(* Others: the operator, and whatever ends a run early. *)

EditSource ==
  /\ source' \in Source \ {source}
  /\ moved' = moved \cup Active
  /\ UNCHANGED <<pc, locals, disk, overlapped>>

(* What a step of a run may leave behind when it does not complete. *)
LeaveDebris(r) ==
  \/ /\ pc[r] = "clear" /\ place = "directory" /\ place' = place
     /\ files' \in
          [git : {FALSE, files.git}, commits : {{}, files.commits},
           tree : {None, files.tree},
           kat_gen : {None, files.kat_gen}, kat_check : {None, files.kat_check},
           response : {None, files.response}, rust : {None, files.rust}]
  \/ /\ pc[r] = "clone" /\ place = "absent" /\ place' = "directory"
     /\ files' = [Empty EXCEPT !.git = TRUE]
  \/ /\ pc[r] = "make" /\ files.tree # None /\ place' = place
     /\ \E g, c \in {None, files.tree} :
          files' = [files EXCEPT !.kat_gen = g, !.kat_check = c]
  \/ /\ pc[r] = "generate" /\ files.kat_gen # None /\ place' = place
     /\ files' = [files EXCEPT !.response = Partial]
  \/ /\ pc[r] = "write" /\ place # "outside" /\ place' = "directory"
     /\ files' = [files EXCEPT !.rust = Partial]

(* A process that cannot be run, an input or output error, a kill. *)
Stop(r) ==
  /\ pc[r] \in Running
  /\ pc' = [pc EXCEPT ![r] = "stopped"]
  /\ LeaveDebris(r) \/ UNCHANGED disk
  /\ UNCHANGED <<locals, source, overlapped, moved>>

-----------------------------------------------------------------------------
(* The steps of a run: each guard that fails ends it. *)

Go(r, ok, next, otherwise) ==
  /\ pc' = [pc EXCEPT ![r] = IF ok THEN next ELSE otherwise]
  /\ UNCHANGED <<library, source, overlapped, moved>>

(* git rev-parse, then git diff: two looks at a checkout that may change.  *)
CheckCommit(r) ==
  /\ pc[r] = "commit"
  /\ Go(r, source.head = Pinned, "clean", "refused")
  /\ UNCHANGED <<contents, checked, disk>>

CheckClean(r) ==
  /\ pc[r] = "clean"
  /\ Go(r, source.clean, "clear", "refused")
  /\ UNCHANGED <<contents, checked, disk>>

(* Fault: only a checkout is cleared away, not what a failed clone left.   *)
ClearDestination_OnlyCheckout(r) ==
  /\ pc[r] = "clear"
  /\ Go(r, place # "outside", "clone", "refused")
  /\ IF place = "directory" /\ files.tree # None
     THEN place' = "absent" /\ files' = Empty
     ELSE UNCHANGED disk
  /\ UNCHANGED <<contents, checked>>

ClearDestination(r) ==
  /\ pc[r] = "clear"
  /\ Go(r, place # "outside", "clone", "refused")
  /\ IF place = "directory"
     THEN place' = "absent" /\ files' = Empty
     ELSE UNCHANGED disk
  /\ UNCHANGED <<contents, checked>>

(* git clone --no-checkout: every commit a ref or HEAD reaches; git refuses *)
(* a destination that is not empty.                                         *)
Clone(r) ==
  LET free == place = "absent" \/ (place = "directory" /\ files = Empty)
  IN /\ pc[r] = "clone"
     /\ Go(r, free, "checkout", "broken")
     /\ IF free THEN /\ place' = "directory"
                     /\ files' = [Empty EXCEPT !.git = TRUE, !.commits = source.commits]
                ELSE UNCHANGED disk
     /\ UNCHANGED <<contents, checked>>

(* Fault: whatever branch the clone was left on is checked out.            *)
Checkout_Branch(r) ==
  /\ pc[r] = "checkout"
  /\ Go(r, files.commits # {}, "make", "broken")
  /\ files' \in IF files.commits = {} THEN {files}
                ELSE {[files EXCEPT !.tree = c] : c \in files.commits}
  /\ UNCHANGED <<contents, checked, place>>

Checkout(r) ==
  /\ pc[r] = "checkout"
  /\ Go(r, Pinned \in files.commits, "make", "broken")
  /\ files' = IF Pinned \in files.commits THEN [files EXCEPT !.tree = Pinned] ELSE files
  /\ UNCHANGED <<contents, checked, place>>

Make(r) ==
  /\ pc[r] = "make"
  /\ Go(r, files.tree # None, "generate", "broken")
  /\ files' = IF files.tree = None THEN files ELSE
       [files EXCEPT !.kat_gen = files.tree, !.kat_check = files.tree]
  /\ UNCHANGED <<contents, checked, place>>

Generate(r) ==
  /\ pc[r] = "generate"
  /\ Go(r, files.kat_gen # None, "read", "broken")
  /\ files' = IF files.kat_gen # None THEN [files EXCEPT !.response = files.kat_gen]
                                      ELSE files
  /\ UNCHANGED <<contents, checked, place>>

(* The whole file is read at once, then counted and reproduced.            *)
ReadResponse(r) ==
  /\ pc[r] = "read"
  /\ IF files.response \in {None, Partial}
     THEN Go(r, FALSE, "write", "broken") /\ UNCHANGED contents
     ELSE /\ Go(r, files.response \in library[r], "write", "refused")
          /\ contents' = [contents EXCEPT ![r] = files.response]
  /\ UNCHANGED <<checked, disk>>

(* create_dir_all makes the destination again if it is gone by now.        *)
WriteResponse(r) ==
  /\ pc[r] = "write"
  /\ Go(r, place # "outside", "check", "broken")
  /\ place' = IF place = "absent" THEN "directory" ELSE place
  /\ files' = IF place = "outside" THEN files ELSE [files EXCEPT !.rust = r]
  /\ UNCHANGED <<contents, checked>>

(* Fault: kat_check is run where kat_gen was, on the response it wrote.    *)
CheckResponse_InDestination(r) ==
  /\ pc[r] = "check"
  /\ Go(r, files.kat_check # None /\ files.response = files.kat_check, "ok", "broken")
  /\ checked' = [checked EXCEPT ![r] = files.response]
  /\ UNCHANGED <<contents, disk>>

(* kat_check computes the response anew and compares what it finds.        *)
CheckResponse(r) ==
  /\ pc[r] = "check"
  /\ Go(r, /\ files.kat_check # None /\ files.rust \in Run
           /\ files.kat_check \in library[files.rust], "ok", "broken")
  /\ checked' = [checked EXCEPT ![r] = files.rust]
  /\ UNCHANGED <<contents, disk>>

Step(r) ==
  \/ CheckCommit(r) \/ CheckClean(r) \/ ClearDestination(r) \/ Clone(r)
  \/ Checkout(r) \/ Make(r) \/ Generate(r) \/ ReadResponse(r)
  \/ WriteResponse(r) \/ CheckResponse(r)

Next == EditSource \/ \E r \in Run : Start(r) \/ Step(r) \/ Stop(r)

Spec == Init /\ [][Next]_vars

-----------------------------------------------------------------------------
TypeOK ==
  /\ pc \in [Run -> {"idle"} \cup Running \cup Ended]
  /\ library \in [Run -> Library]
  /\ contents \in [Run -> Commit \cup {None}]
  /\ checked \in [Run -> Run \cup Commit \cup {None, Partial}]
  /\ source \in Source
  /\ place \in {"absent", "directory", "outside"} /\ files \in Files
  /\ place # "directory" => files = Empty
  /\ overlapped \subseteq Run /\ moved \subseteq Run

(* A run succeeds only against the pinned commit, whatever earlier or      *)
(* overlapping runs left and however the checkout moved after it was       *)
(* looked at (README.md:40-41; main.rs:79-97, 122-127).                    *)
SucceedsOnPinned ==
  \A r \in Run : pc[r] = "ok" => contents[r] = Pinned /\ Pinned \in library[r]

(* kat_check accepted what this run's library generated, not the reference *)
(* implementation's own file nor an earlier run's (main.rs:147-153), unless *)
(* another run was under way.                                              *)
ChecksOwnResponse ==
  \A r \in Run \ overlapped : pc[r] = "ok" => checked[r] = r

(* Debris never blocks a run: on its own and with the source left alone, a *)
(* run that is neither stopped nor refused gets to its end from whatever   *)
(* it finds (main.rs:102-116).                                             *)
DebrisNeverBlocks ==
  \A r \in Run \ (overlapped \cup moved) : pc[r] # "broken"
=============================================================================
