---------------------------- MODULE KatResponse -----------------------------
(***************************************************************************)
(* The oracle harness reads the response file of the reference             *)
(* implementation (prepare_oracle's count of cases, then verify_response   *)
(* and verify_case): the cases are counted on the raw lines, then read     *)
(* again line by line into the fields of a case that ends at a blank line, *)
(* where the library has to reproduce it.  One step is one line.           *)
(*                                                                         *)
(* A line is its name and value once trimmed, and whether trimming removed *)
(* anything in front; "blank", "comment", "malformed" and "unknown" stand  *)
(* for the lines without a name the harness knows.  What the library       *)
(* computes for a case is any predicate.                                   *)
(***************************************************************************)
EXTENDS Integers, Sequences, FiniteSets

CONSTANTS
  CaseCount,            \* 100
  Contents,             \* the files that may be read
  Decimal, Text,        \* names parsed as numbers, names kept as they are
  Value, Number, None,  \* values, those that parse, an unset field
  Reproduces(_),        \* keys and signature of a case come out the same
  Mutation,             \* one changed byte of signature, message or key
  Accepts(_, _)         \* verify takes a case with that mutation

Field == Decimal \cup Text
Other == {"blank", "comment", "malformed", "unknown"}
Line == [name : Field \cup Other, value : Value, indented : BOOLEAN]
Case == [Field -> Value \cup {None}]
NoCase == [f \in Field |-> None]

ASSUME ResponseAssumption ==
  /\ CaseCount \in Nat \ {0}
  /\ Contents \subseteq Seq(Line)
  /\ "count" \in Decimal /\ Field \cap Other = {}
  /\ Number \subseteq Value /\ None \notin Value

VARIABLES
  pc, line,    \* control: the pass, the lines it has read
  contents,
  counts,      \* values of the count lines before each line, the first pass
  current,     \* the case being read
  response     \* the cases reproduced, and the line each ended at

vars == <<pc, line, contents, counts, current, response>>

Init ==
  /\ contents \in Contents
  /\ pc = "count" /\ line = 0
  /\ counts = [i \in 0 .. Len(contents) |-> <<>>]
  /\ current = NoCase /\ response = <<>>

-----------------------------------------------------------------------------
(* prepare_oracle counts the lines that start with "count = ", untrimmed.  *)

IsCount(l) == l.name = "count" /\ ~l.indented

CountLine ==
  /\ pc = "count" /\ line < Len(contents)
  /\ LET l == contents[line + 1]
     IN counts' = [counts EXCEPT ![line + 1] =
          IF IsCount(l) THEN Append(counts[line], l.value) ELSE counts[line]]
  /\ line' = line + 1
  /\ UNCHANGED <<pc, contents, current, response>>

(* Fault: more cases than expected pass. *)
CheckCount_AtLeast ==
  /\ pc = "count" /\ line = Len(contents)
  /\ pc' = IF Len(counts[line]) >= CaseCount THEN "read" ELSE "err"
  /\ line' = 0
  /\ UNCHANGED <<contents, counts, current, response>>

CheckCount ==
  /\ pc = "count" /\ line = Len(contents)
  /\ pc' = IF Len(counts[line]) = CaseCount THEN "read" ELSE "err"
  /\ line' = 0
  /\ UNCHANGED <<contents, counts, current, response>>

-----------------------------------------------------------------------------
(* Fault: no blank line is added after the file. *)
LastLine_OfTheFile == Len(contents)

(* The lines of the file and one more blank line. *)
LastLine == Len(contents) + 1
Name(i) == IF i > Len(contents) THEN "blank" ELSE contents[i].name

Reading(names) == pc = "read" /\ line < LastLine /\ Name(line + 1) \in names

RejectsMutations(case) == \A m \in Mutation : ~Accepts(case, m)

(* verify_case; only the first case is tried with mutations. *)
VerifyCase(case) ==
  /\ \A f \in Field : case[f] # None
  /\ Reproduces(case)
  /\ response = <<>> => RejectsMutations(case)

(* Fault: the fields of a case outlive it. *)
EndCase_KeepsFields ==
  /\ Reading({"blank"}) /\ current["count"] # None
  /\ IF VerifyCase(current)
     THEN /\ response' = Append(response, [case |-> current, end |-> line + 1])
          /\ UNCHANGED pc
     ELSE pc' = "err" /\ UNCHANGED response
  /\ line' = line + 1
  /\ UNCHANGED <<contents, counts, current>>

EndCase ==
  /\ Reading({"blank"}) /\ current["count"] # None
  /\ IF VerifyCase(current)
     THEN /\ response' = Append(response, [case |-> current, end |-> line + 1])
          /\ current' = NoCase
          /\ UNCHANGED pc
     ELSE pc' = "err" /\ UNCHANGED <<current, response>>
  /\ line' = line + 1
  /\ UNCHANGED <<contents, counts>>

(* A blank line outside a case, its fields included: they are kept.        *)
SkipLine ==
  /\ \/ Reading({"comment", "unknown"})
     \/ Reading({"blank"}) /\ current["count"] = None
  /\ line' = line + 1
  /\ UNCHANGED <<pc, contents, counts, current, response>>

RefuseLine ==
  /\ \/ Reading({"malformed"})
     \/ Reading(Decimal) /\ contents[line + 1].value \notin Number
  /\ pc' = "err"
  /\ UNCHANGED <<line, contents, counts, current, response>>

SetField ==
  /\ Reading(Field)
  /\ Name(line + 1) \in Decimal => contents[line + 1].value \in Number
  /\ current' = [current EXCEPT ![Name(line + 1)] = contents[line + 1].value]
  /\ line' = line + 1
  /\ UNCHANGED <<pc, contents, counts, response>>

CheckVerified ==
  /\ pc = "read" /\ line = LastLine
  /\ pc' = IF Len(response) = CaseCount THEN "ok" ELSE "err"
  /\ UNCHANGED <<line, contents, counts, current, response>>

Next ==
  \/ CountLine \/ CheckCount
  \/ EndCase \/ SkipLine \/ RefuseLine \/ SetField \/ CheckVerified

Spec == Init /\ [][Next]_vars

-----------------------------------------------------------------------------
Parsed == {c \in Case : \A f \in Decimal : c[f] \in Number \cup {None}}

TypeOK ==
  /\ pc \in {"count", "read", "ok", "err"} /\ line \in 0 .. Len(contents) + 1
  /\ contents \in Seq(Line)
  /\ counts \in [0 .. Len(contents) -> Seq(Value)]
  /\ current \in Parsed
  /\ response \in Seq([case : Parsed, end : 1 .. Len(contents) + 1])

Reproduced == [i \in 1 .. Len(response) |-> response[i].case["count"]]

(* The cases the first pass counts, "expected 100 KAT cases", are the ones *)
(* the second reproduces, "expected 100 cases" (main.rs:137-144, 213-217). *)
(* The code does not see to it, as the counts are of different things.     *)
EveryCountReproduced == pc = "ok" => Reproduced = counts[Len(contents)]

CountLines == {i \in 1 .. Len(contents) : contents[i].name = "count"}
IndentedCounts == {i \in CountLines : contents[i].indented}

(* The count lines that overwrite the count of an unfinished case.         *)
Overwriting ==
  {j \in CountLines : \E i \in CountLines :
     i < j /\ \A k \in i .. j : Name(k) # "blank"}

(* What the code does see to.  One pass counts unindented lines, the other *)
(* blocks with a count line, indented or not.  In a file that passes both, *)
(* a counted case is dropped only where another was not counted: as many   *)
(* count lines overwrite one as are indented, and with none indented the   *)
(* cases are the counted ones, in order (main.rs:135-144, 183-217).        *)
DroppedOnlyForIndented ==
  pc = "ok" =>
    /\ Cardinality(Overwriting) = Cardinality(IndentedCounts)
    /\ IndentedCounts = {} => Reproduced = counts[Len(contents)]

(* What a case is compared with was read since the case before it ended:   *)
(* every field is the last line of that name in between (main.rs:185-193). *)
Start(i) == IF i = 1 THEN 0 ELSE response[i - 1].end
FieldsAreOwn ==
  \A i \in 1 .. Len(response) : \A f \in Field :
    \E j \in Start(i) + 1 .. response[i].end - 1 :
      /\ contents[j].name = f /\ contents[j].value = response[i].case[f]
      /\ \A k \in j + 1 .. response[i].end - 1 : contents[k].name # f

(* A well-formed response: between blank lines, every field once or none,  *)
(* CaseCount times, each reproducible.                                     *)
Blocks ==
  {b \in (0 .. Len(contents)) \X (1 .. Len(contents) + 1) :
     /\ b[1] < b[2] /\ (b[1] = 0 \/ Name(b[1]) = "blank") /\ Name(b[2]) = "blank"
     /\ \A i \in b[1] + 1 .. b[2] - 1 : Name(i) # "blank"}
LinesOf(b, f) == {i \in b[1] + 1 .. b[2] - 1 : contents[i].name = f}

WellFormedBlock(b, first) ==
  /\ \A f \in Field : \E i \in LinesOf(b, f) : LinesOf(b, f) = {i}
  /\ LET case == [f \in Field |-> contents[CHOOSE i \in LinesOf(b, f) : TRUE].value]
     IN Reproduces(case) /\ (first => RejectsMutations(case))

WellFormed ==
  /\ \A i \in 1 .. Len(contents) : LET l == contents[i] IN
       /\ l.name # "malformed" /\ ~l.indented
       /\ l.name \in Decimal => l.value \in Number
  /\ \A b \in Blocks : (\E f \in Field : LinesOf(b, f) # {}) =>
       WellFormedBlock(b, \A i \in 1 .. b[1] : Name(i) \notin Field)

(* No well-formed response with the right number of cases is refused, be   *)
(* there a blank line at its end or not (main.rs:185, 215-219).            *)
WellFormedAccepted ==
  pc = "err" => ~WellFormed \/ Len(counts[Len(contents)]) # CaseCount
=============================================================================
