---------------------------- MODULE FormatProofs -----------------------------
(***************************************************************************)
(* What is written and read back, for every size: the response file of the *)
(* harness, the counter its generator keeps in bytes, the layouts of a key *)
(* and of a signature.                                                     *)
(*                                                                         *)
(* The file.  A response the harness accepts drops a counted case only     *)
(* where another was not counted, and without indented counts none; each   *)
(* case is reproduced from its own lines; and a file that is well-formed   *)
(* is accepted.  The passes are compared line by line: the cases the       *)
(* second has ended, the one it has begun and the counts overwritten are   *)
(* as many as the count lines read, of which the first pass saw those that *)
(* are not indented (CountsBalance).  Where none is, the cases are at most *)
(* the counted lines, and are those in order as long as they are as many   *)
(* (PassesAgree).                                                          *)
(*                                                                         *)
(* The generator counts in bytes what its contract counts in numbers.      *)
(*                                                                         *)
(* Layouts.  The invariant says, of each piece written so far, which bytes *)
(* of its buffer hold it.  A write leaves alone what lies before or behind *)
(* it (WriteHolds), and pieces lie apart because the offsets are sums of   *)
(* the sizes before them (SignatureLayout, OpeningBlocks).  A slice at the *)
(* offset of a piece is then that piece (SliceHolds).                      *)
(***************************************************************************)
EXTENDS KatResponse, KatDrbg, Encodings, SequenceTheorems, FiniteSetTheorems, TLAPS

Unindented == IndentedCounts = {}
UpTo(S, n) == {i \in S : i <= n}
Read == IF line > Len(contents) THEN Len(contents) ELSE line
Begun == IF current["count"] = None THEN 0 ELSE 1
Last == IF response = <<>> THEN 0 ELSE response[Len(response)].end

CountsInv ==
  /\ counts[0] = <<>>
  /\ \A i \in 1 .. IF pc = "count" THEN line ELSE Len(contents) :
       counts[i] = IF IsCount(contents[i]) THEN Append(counts[i - 1], contents[i].value)
                                           ELSE counts[i - 1]
  /\ pc \in {"read", "ok"} => Len(counts[Len(contents)]) = CaseCount
  /\ pc = "count" => line <= Len(contents)

PassesAgree ==
  pc = "read" /\ Unindented =>
    /\ Len(response) + Begun <= Len(counts[Read])
    /\ Len(response) + Begun = Len(counts[Read]) =>
         /\ \A i \in 1 .. Len(response) : counts[Read][i] = response[i].case["count"]
         /\ Begun = 1 => counts[Read][Len(response) + 1] = current["count"]

(* The count of the case being read, if it has one, is in its block.       *)
BegunInBlock ==
  pc = "read" =>
    (Begun = 1 <=> \E i \in CountLines :
                     i <= line /\ \A k \in i .. line : Name(k) # "blank")

(* Every count line read ended a case, began the current one, or was       *)
(* overwritten; the first pass missed the indented ones.                   *)
CountsBalance ==
  pc = "read" =>
    Len(response) + Begun + Cardinality(UpTo(Overwriting, Read))
      = Len(counts[Read]) + Cardinality(UpTo(IndentedCounts, Read))

(* The fields of the case being read come from the lines after the last. *)
CurrentIsOwn ==
  pc = "read" =>
    /\ Last <= line
    /\ \A f \in Field :
         IF current[f] = None
         THEN \A j \in Last + 1 .. line : Name(j) # f
         ELSE \E j \in Last + 1 .. line :
                /\ Name(j) = f /\ contents[j].value = current[f]
                /\ \A k \in j + 1 .. line : Name(k) # f

BeforeReading == pc = "count" => current = NoCase /\ response = <<>>

(* The block being read began after line b: every field since the last     *)
(* case is in it.                                                          *)
BlockFrom(b) ==
  /\ b \in Last .. line
  /\ b = 0 \/ Name(b) = "blank"
  /\ \A i \in b + 1 .. line : Name(i) # "blank"
  /\ \A i \in Last + 1 .. b : Name(i) \notin Field

Twice(b) == \E i, j \in b + 1 .. line : i # j /\ Name(i) = "count" /\ Name(j) = "count"

(* In a well-formed file every count line read has its case, as far as the *)
(* block being read may tell: a count overwritten in it is found malformed *)
(* only with its last line.                                                *)
EveryCountHasCase ==
  pc = "read" /\ WellFormed =>
    \E b \in 0 .. Len(contents) + 1 :
      BlockFrom(b) /\ (Len(response) + Begun = Len(counts[Read]) \/ Twice(b))

IInv ==
  /\ TypeOK /\ CountsInv /\ BeforeReading
  /\ BegunInBlock /\ CountsBalance /\ PassesAgree /\ DroppedOnlyForIndented
  /\ CurrentIsOwn /\ FieldsAreOwn
  /\ EveryCountHasCase /\ WellFormedAccepted

-----------------------------------------------------------------------------
LEMMA NoCaseTyped == NoCase \in Parsed
  BY DEF NoCase, Parsed, Case, Field

LEMMA LineTyped ==
  ASSUME TypeOK, NEW i \in 1 .. Len(contents)
  PROVE  contents[i] \in Line
  BY DEF TypeOK

LEMMA NameBlank == "blank" \notin Field
  BY ResponseAssumption DEF Other

(* A line that names a field is a line of the file. *)
LEMMA NamedLine ==
  ASSUME TypeOK, pc = "read", line < LastLine, Name(line + 1) # "blank"
  PROVE  line + 1 \in 1 .. Len(contents) /\ Name(line + 1) = contents[line + 1].name
  BY DEF TypeOK, Name, LastLine

LEMMA TypeStep == ASSUME TypeOK, Next PROVE TypeOK'
  <1> USE ResponseAssumption DEF TypeOK
  <1>1. CASE CountLine
    <2>1. counts' \in [0 .. Len(contents) -> Seq(Value)]
      <3>a. line + 1 \in 1 .. Len(contents) /\ line \in 0 .. Len(contents)
        BY <1>1 DEF CountLine
      <3>1. contents[line + 1] \in Line /\ counts[line] \in Seq(Value)
        BY <3>a, LineTyped
      <3>2. contents[line + 1].value \in Value
        BY <3>1 DEF Line
      <3>3. Append(counts[line], contents[line + 1].value) \in Seq(Value)
        BY <3>1, <3>2
      <3> QED BY <1>1, <3>1, <3>3 DEF CountLine
    <2> QED BY <1>1, <2>1 DEF CountLine
  <1>2. CASE CheckCount
    BY <1>2 DEF CheckCount
  <1>3. CASE EndCase
    <2>1. line + 1 \in 1 .. Len(contents) + 1
      BY <1>3 DEF EndCase, Reading, LastLine
    <2>2. [case |-> current, end |-> line + 1]
            \in [case : Parsed, end : 1 .. Len(contents) + 1]
      BY <2>1
    <2>3. response' \in Seq([case : Parsed, end : 1 .. Len(contents) + 1])
      <3>1. \/ response' = Append(response, [case |-> current, end |-> line + 1])
            \/ response' = response
        BY <1>3 DEF EndCase
      <3> DEFINE S == [case : Parsed, end : 1 .. Len(contents) + 1]
      <3>2. response \in Seq(S) /\ [case |-> current, end |-> line + 1] \in S
        BY <2>2
      <3> HIDE DEF S
      <3>3. Append(response, [case |-> current, end |-> line + 1]) \in Seq(S)
        BY <3>2, AppendProperties
      <3>4. response' \in Seq(S)
        BY <3>1, <3>2, <3>3
      <3> QED BY <3>4 DEF S
    <2> QED BY <1>3, <2>1, <2>3, NoCaseTyped DEF EndCase
  <1>4. CASE SkipLine
    BY <1>4 DEF SkipLine, Reading, LastLine
  <1>5. CASE RefuseLine
    BY <1>5 DEF RefuseLine
  <1>6. CASE SetField
    <2>1. Name(line + 1) \in Field /\ Name(line + 1) # "blank"
      BY <1>6, NameBlank DEF SetField, Reading
    <2>2. line + 1 \in 1 .. Len(contents)
      BY <1>6, <2>1, NamedLine DEF SetField, Reading
    <2>3. contents[line + 1].value \in Value
      BY <2>2, LineTyped DEF Line
    <2>4. current' \in Parsed
      <3>1. current' = [current EXCEPT ![Name(line + 1)] = contents[line + 1].value]
        BY <1>6 DEF SetField
      <3>2. Name(line + 1) \in Decimal => contents[line + 1].value \in Number
        BY <1>6 DEF SetField
      <3>3. current \in Case /\ \A f \in Decimal : current[f] \in Number \cup {None}
        BY DEF Parsed
      <3>4. current' \in Case
        BY <2>1, <2>3, <3>1, <3>3 DEF Case
      <3>5. \A f \in Decimal : current'[f] \in Number \cup {None}
        BY <2>1, <3>1, <3>2, <3>3 DEF Case, Field
      <3> QED BY <3>4, <3>5 DEF Parsed
    <2> QED BY <1>6, <2>2, <2>4 DEF SetField
  <1>7. CASE CheckVerified
    BY <1>7 DEF CheckVerified
  <1> QED BY <1>1, <1>2, <1>3, <1>4, <1>5, <1>6, <1>7 DEF Next

-----------------------------------------------------------------------------
(* The two passes *)

LEMMA CountsStep == ASSUME TypeOK, CountsInv, Next PROVE CountsInv'
  <1> USE DEF CountsInv
  <1>1. CASE CountLine
    <2>1. /\ line \in 0 .. Len(contents) - 1 /\ line' = line + 1
          /\ pc = "count" /\ pc' = pc /\ contents' = contents
      BY <1>1 DEF CountLine, TypeOK
    <2>2. counts' = [counts EXCEPT ![line + 1] =
            IF IsCount(contents[line + 1])
            THEN Append(counts[line], contents[line + 1].value) ELSE counts[line]]
      BY <1>1 DEF CountLine
    <2>3. /\ counts'[line + 1] =
               IF IsCount(contents[line + 1])
               THEN Append(counts[line], contents[line + 1].value) ELSE counts[line]
          /\ \A i \in 0 .. line : counts'[i] = counts[i]
      BY <2>1, <2>2 DEF TypeOK
    <2>4. ASSUME NEW i \in 1 .. line + 1
          PROVE  counts'[i] = IF IsCount(contents[i])
                              THEN Append(counts'[i - 1], contents[i].value)
                              ELSE counts'[i - 1]
      <3>1. CASE i = line + 1
        BY <2>1, <2>3, <3>1
      <3>2. CASE i # line + 1
        <4>1. i \in 1 .. line /\ i - 1 \in 0 .. line
          BY <2>1, <3>2
        <4>2. counts'[i] = counts[i] /\ counts'[i - 1] = counts[i - 1]
          BY <2>3, <4>1
        <4> QED BY <2>1, <4>1, <4>2
      <3> QED BY <3>1, <3>2
    <2>5. counts'[0] = <<>>
      BY <2>1, <2>3
    <2> QED BY <2>1, <2>4, <2>5 DEF IsCount
  <1>2. CASE CheckCount
    BY <1>2 DEF CheckCount, IsCount, TypeOK
  <1>3. CASE EndCase
    BY <1>3 DEF EndCase, Reading, IsCount
  <1>4. CASE SkipLine
    BY <1>4 DEF SkipLine, Reading, IsCount
  <1>5. CASE RefuseLine
    BY <1>5 DEF RefuseLine, Reading, IsCount
  <1>6. CASE SetField
    BY <1>6 DEF SetField, Reading, IsCount
  <1>7. CASE CheckVerified
    BY <1>7 DEF CheckVerified, IsCount
  <1> QED BY <1>1, <1>2, <1>3, <1>4, <1>5, <1>6, <1>7 DEF Next

(* What the first pass counted up to the next line. *)
LEMMA CountsNext ==
  ASSUME TypeOK, CountsInv, pc = "read", line < LastLine,
         line' = line + 1, contents' = contents, counts' = counts
  PROVE  /\ counts[Read] \in Seq(Value)
         /\ Name(line + 1) # "count" => counts'[Read'] = counts[Read]
         /\ Name(line + 1) = "count" =>
              counts'[Read'] = IF contents[line + 1].indented THEN counts[Read]
                               ELSE Append(counts[Read], contents[line + 1].value)
  <1>1. Read \in 0 .. Len(contents)
    BY DEF Read, TypeOK
  <1>2. CASE line = Len(contents)
    <2>1. Name(line + 1) = "blank" /\ Read' = Read
      BY <1>2 DEF Name, Read, TypeOK
    <2> QED BY <1>1, <2>1 DEF TypeOK
  <1>3. CASE line # Len(contents)
    <2>1. line + 1 \in 1 .. Len(contents) /\ Read = line /\ Read' = line + 1
      BY <1>3 DEF Read, TypeOK, LastLine
    <2>2. counts[line + 1] =
            IF IsCount(contents[line + 1])
            THEN Append(counts[line], contents[line + 1].value) ELSE counts[line]
      <3>1. (line + 1) - 1 = line
        BY DEF TypeOK
      <3> QED BY <2>1, <3>1 DEF CountsInv
    <2>3. Name(line + 1) = contents[line + 1].name
      BY <2>1 DEF Name, TypeOK
    <2> QED BY <1>1, <2>1, <2>2, <2>3 DEF IsCount, TypeOK
  <1> QED BY <1>2, <1>3

LEMMA SameLines ==
  ASSUME contents' = contents
  PROVE  /\ CountLines' = CountLines /\ IndentedCounts' = IndentedCounts
         /\ Overwriting' = Overwriting
         /\ \A i : Name(i)' = Name(i)
  BY DEF CountLines, IndentedCounts, Overwriting, Name

LEMMA LineSets ==
  ASSUME TypeOK
  PROVE  /\ IsFiniteSet(CountLines) /\ CountLines \subseteq 1 .. Len(contents)
         /\ IndentedCounts \subseteq CountLines /\ Overwriting \subseteq CountLines
  <1>1. CountLines \subseteq 1 .. Len(contents) /\ Len(contents) \in Nat
    BY DEF CountLines, TypeOK
  <1>2. IsFiniteSet(1 .. Len(contents))
    BY <1>1, FS_Interval
  <1> QED BY <1>1, <1>2, FS_Subset DEF IndentedCounts, Overwriting

(* One line more of a set of count lines. *)
LEMMA OneLineMore ==
  ASSUME TypeOK, NEW S, S \subseteq CountLines, NEW n \in Nat
  PROVE  /\ Cardinality(UpTo(S, n)) \in Nat
         /\ Cardinality(UpTo(S, n + 1)) =
              IF n + 1 \in S THEN Cardinality(UpTo(S, n)) + 1 ELSE Cardinality(UpTo(S, n))
  <1>1. IsFiniteSet(S) /\ S \subseteq Int
    BY LineSets, FS_Subset DEF TypeOK
  <1>2. IsFiniteSet(UpTo(S, n))
    BY <1>1, FS_Subset DEF UpTo
  <1>3. Cardinality(UpTo(S, n)) \in Nat
    BY <1>2, FS_CardinalityType
  <1>4. CASE n + 1 \in S
    <2>1. UpTo(S, n + 1) = UpTo(S, n) \cup {n + 1} /\ n + 1 \notin UpTo(S, n)
      <3>1. \A i \in Int : i <= n + 1 <=> i <= n \/ i = n + 1
        OBVIOUS
      <3>2. ~(n + 1 <= n)
        OBVIOUS
      <3> QED BY <1>1, <1>4, <3>1, <3>2 DEF UpTo
    <2> QED BY <1>2, <1>3, <1>4, <2>1, FS_AddElement
  <1>5. CASE n + 1 \notin S
    <2>1. UpTo(S, n + 1) = UpTo(S, n)
      <3>1. \A i \in Int : i <= n + 1 <=> i <= n \/ i = n + 1
        OBVIOUS
      <3> QED BY <1>1, <1>5, <3>1 DEF UpTo
    <2> QED BY <1>3, <1>5, <2>1
  <1> QED BY <1>4, <1>5

LEMMA AgreeStep ==
  ASSUME TypeOK, CountsInv, BeforeReading, PassesAgree, Next
  PROVE  PassesAgree'
  <1>1. CASE CountLine
    BY <1>1 DEF CountLine, PassesAgree
  <1>2. CASE CheckCount
    <2>1. response' = <<>> /\ current' = NoCase /\ Read' = 0 /\ counts'[0] = <<>>
      BY <1>2 DEF CheckCount, BeforeReading, Read, CountsInv, TypeOK
    <2>2. Begun' = 0
      BY <2>1, ResponseAssumption DEF Begun, NoCase, Field
    <2> QED BY <2>1, <2>2 DEF PassesAgree
  <1>3. CASE EndCase
    <2>1. SUFFICES ASSUME pc' = "read", Unindented' PROVE PassesAgree'
      BY DEF PassesAgree
    <2>2. /\ pc = "read" /\ line < LastLine /\ Name(line + 1) = "blank"
          /\ line' = line + 1 /\ contents' = contents /\ counts' = counts
          /\ current["count"] # None /\ current' = NoCase /\ Unindented
          /\ response' = Append(response, [case |-> current, end |-> line + 1])
      BY <1>3, <2>1, SameLines DEF EndCase, Reading, Unindented
    <2>3. counts'[Read'] = counts[Read] /\ counts[Read] \in Seq(Value)
      BY <2>2, CountsNext
    <2>4. /\ Len(response') = Len(response) + 1
          /\ \A i \in 1 .. Len(response) : response'[i] = response[i]
          /\ response'[Len(response) + 1].case = current
          /\ Len(response) \in Nat
      BY <2>2 DEF TypeOK
    <2>5. Begun = 1 /\ Begun' = 0
      BY <2>2, ResponseAssumption DEF Begun, NoCase, Field
    <2>6. Len(response) + 1 <= Len(counts[Read])
      BY <2>2, <2>5 DEF PassesAgree
    <2>7. Len(response) + 1 = Len(counts[Read]) =>
            /\ \A i \in 1 .. Len(response) : counts[Read][i] = response[i].case["count"]
            /\ counts[Read][Len(response) + 1] = current["count"]
      BY <2>2, <2>5 DEF PassesAgree
    <2>8. Len(response') = Len(counts[Read]) =>
            \A i \in 1 .. Len(response') : counts[Read][i] = response'[i].case["count"]
      BY <2>4, <2>7
    <2> QED BY <2>3, <2>4, <2>5, <2>6, <2>8 DEF PassesAgree
  <1>4. CASE SkipLine
    <2>1. /\ pc = "read" /\ line < LastLine /\ Name(line + 1) # "count"
          /\ line' = line + 1 /\ contents' = contents /\ counts' = counts
          /\ pc' = pc /\ current' = current /\ response' = response
      BY <1>4, ResponseAssumption DEF SkipLine, Reading, Other, Field
    <2>2. counts'[Read'] = counts[Read]
      BY <2>1, CountsNext
    <2> QED BY <2>1, <2>2, SameLines DEF PassesAgree, Begun, Unindented
  <1>5. CASE RefuseLine
    BY <1>5 DEF RefuseLine, PassesAgree
  <1>6. CASE SetField
    <2>1. /\ pc = "read" /\ line < LastLine /\ Name(line + 1) \in Field
          /\ line' = line + 1 /\ contents' = contents /\ counts' = counts
          /\ pc' = pc /\ response' = response
          /\ current' = [current EXCEPT ![Name(line + 1)] = contents[line + 1].value]
      BY <1>6 DEF SetField, Reading
    <2>2. current \in Case
      BY DEF TypeOK, Parsed
    <2>3. Len(response) \in Nat /\ counts[Read] \in Seq(Value)
      BY <2>1, CountsNext DEF TypeOK
    <2>4. CASE Name(line + 1) = "count"
      <3>1. line + 1 \in 1 .. Len(contents)
        BY <2>1, <2>4, NamedLine
      <3>2. contents[line + 1].value \in Value /\ contents[line + 1].value # None
        BY <3>1, LineTyped, ResponseAssumption DEF Line
      <3>3. current'["count"] = contents[line + 1].value /\ Begun' = 1
        BY <2>1, <2>2, <2>4, <3>2 DEF Begun, Case
      <3>4. SUFFICES ASSUME Unindented PROVE PassesAgree'
        BY <2>1, SameLines DEF PassesAgree, Unindented
      <3>5. counts'[Read'] = Append(counts[Read], contents[line + 1].value)
        <4>1. contents[line + 1].name = "count"
          BY <2>1, <2>4, NamedLine
        <4>2. ~contents[line + 1].indented
          BY <3>1, <3>4, <4>1 DEF Unindented, IndentedCounts, CountLines
        <4> QED BY <2>1, <2>4, <4>2, CountsNext
      <3>6. /\ Len(counts'[Read']) = Len(counts[Read]) + 1
            /\ \A i \in 1 .. Len(counts[Read]) : counts'[Read'][i] = counts[Read][i]
            /\ counts'[Read'][Len(counts[Read]) + 1] = contents[line + 1].value
            /\ Len(counts[Read]) \in Nat
        BY <2>3, <3>2, <3>5, AppendProperties
      <3>7. /\ Len(response) + Begun <= Len(counts[Read])
            /\ Len(response) + Begun = Len(counts[Read]) =>
                 \A i \in 1 .. Len(response) : counts[Read][i] = response[i].case["count"]
        BY <2>1, <3>4 DEF PassesAgree
      <3>8. Begun \in {0, 1}
        BY DEF Begun
      <3>9. Len(response') + Begun' <= Len(counts'[Read'])
        BY <2>1, <2>3, <3>3, <3>6, <3>7, <3>8
      <3>10. ASSUME Len(response') + Begun' = Len(counts'[Read'])
             PROVE  /\ \A i \in 1 .. Len(response') :
                         counts'[Read'][i] = response'[i].case["count"]
                    /\ counts'[Read'][Len(response') + 1] = current'["count"]
        <4>1. Len(response) = Len(counts[Read]) /\ Begun = 0
          BY <2>1, <2>3, <3>3, <3>6, <3>7, <3>8, <3>10
        <4> QED BY <2>1, <3>3, <3>6, <3>7, <4>1
      <3> QED BY <3>9, <3>10 DEF PassesAgree
    <2>5. CASE Name(line + 1) # "count"
      <3>1. counts'[Read'] = counts[Read]
        BY <2>1, <2>5, CountsNext
      <3>2. current'["count"] = current["count"]
        BY <2>1, <2>2, <2>5 DEF Case
      <3> QED BY <2>1, <3>1, <3>2, SameLines DEF PassesAgree, Begun, Unindented
    <2> QED BY <2>4, <2>5
  <1>7. CASE CheckVerified
    BY <1>7 DEF CheckVerified, PassesAgree
  <1> QED BY <1>1, <1>2, <1>3, <1>4, <1>5, <1>6, <1>7 DEF Next

(* What a line read does to the number of cases ended and begun. *)
LEMMA LineRead ==
  ASSUME TypeOK, Next, pc = "read", pc' = "read"
  PROVE  /\ line' = line + 1 /\ line < LastLine /\ contents' = contents /\ counts' = counts
         /\ \/ /\ Name(line + 1) = "blank"
               /\ Begun' = 0 /\ Len(response') = Len(response) + Begun
            \/ /\ Name(line + 1) = "count"
               /\ Begun' = 1 /\ Len(response') = Len(response)
            \/ /\ Name(line + 1) \notin {"blank", "count"}
               /\ Begun' = Begun /\ Len(response') = Len(response)
  <1>0. current \in Case /\ Len(response) \in Nat /\ "count" \in Field /\ NoCase["count"] = None
    BY ResponseAssumption DEF TypeOK, Parsed, NoCase, Field
  <1>1. CASE EndCase
    <2>1. /\ Reading({"blank"}) /\ current["count"] # None /\ current' = NoCase
          /\ response' = Append(response, [case |-> current, end |-> line + 1])
          /\ line' = line + 1 /\ contents' = contents /\ counts' = counts
      BY <1>1 DEF EndCase
    <2>2. Len(response') = Len(response) + 1
      BY <2>1 DEF TypeOK
    <2> QED BY <1>0, <2>1, <2>2 DEF Begun, Reading
  <1>2. CASE SkipLine
    <2>1. Begun' = Begun /\ response' = response
      BY <1>2 DEF SkipLine, Begun
    <2>2. Name(line + 1) = "blank" => Begun = 0
      <3>1. "blank" \notin {"comment", "unknown"}
        OBVIOUS
      <3> QED BY <1>2, <3>1 DEF SkipLine, Reading, Begun
    <2>3. Name(line + 1) # "count"
      BY <1>2, ResponseAssumption DEF SkipLine, Reading, Other, Field
    <2> QED BY <1>0, <1>2, <2>1, <2>2, <2>3 DEF SkipLine, Reading
  <1>3. CASE SetField
    <2>1. /\ Name(line + 1) \in Field /\ line < LastLine
          /\ current' = [current EXCEPT ![Name(line + 1)] = contents[line + 1].value]
          /\ line' = line + 1 /\ contents' = contents /\ counts' = counts /\ response' = response
      BY <1>3 DEF SetField, Reading
    <2>2. Name(line + 1) # "blank"
      BY <2>1, NameBlank
    <2>3. CASE Name(line + 1) = "count"
      <3>1. line + 1 \in 1 .. Len(contents)
        BY <2>1, <2>2, NamedLine
      <3>2. contents[line + 1].value # None
        BY <3>1, LineTyped, ResponseAssumption DEF Line
      <3>3. Begun' = 1
        BY <1>0, <2>1, <2>3, <3>2 DEF Begun, Case
      <3> QED BY <2>1, <2>3, <3>3
    <2>4. CASE Name(line + 1) # "count"
      <3>1. current'["count"] = current["count"]
        BY <1>0, <2>1, <2>4 DEF Case
      <3>2. Begun' = Begun
        BY <3>1 DEF Begun
      <3> QED BY <2>1, <2>2, <2>4, <3>2
    <2> QED BY <2>3, <2>4
  <1> QED BY <1>1, <1>2, <1>3 DEF Next, CountLine, CheckCount, RefuseLine, CheckVerified

LEMMA ReadStarts ==
  ASSUME TypeOK, CountsInv, BeforeReading, Next, pc # "read", pc' = "read"
  PROVE  /\ line' = 0 /\ Read' = 0 /\ Begun' = 0 /\ response' = <<>>
         /\ contents' = contents /\ counts'[Read'] = <<>>
  <1>1. CheckCount
    BY DEF Next, CountLine, EndCase, SkipLine, RefuseLine, SetField, CheckVerified, Reading
  <1>2. response' = <<>> /\ current' = NoCase /\ Read' = 0 /\ counts'[0] = <<>>
    BY <1>1 DEF CheckCount, BeforeReading, Read, CountsInv, TypeOK
  <1> QED BY <1>1, <1>2, ResponseAssumption DEF CheckCount, Begun, NoCase, Field

(* A count line of the file, by its name in either pass. *)
LEMMA CountLineNamed ==
  ASSUME TypeOK, NEW i \in 1 .. Len(contents) + 1
  PROVE  i \in CountLines <=> Name(i) = "count"
  BY DEF CountLines, Name, TypeOK

LEMMA BegunStep ==
  ASSUME TypeOK, CountsInv, BeforeReading, BegunInBlock, Next
  PROVE  BegunInBlock'
  <1>1. SUFFICES ASSUME pc' = "read" PROVE BegunInBlock'
    BY DEF BegunInBlock
  <1>2. CASE pc # "read"
    <2>1. line' = 0 /\ Begun' = 0 /\ contents' = contents
      BY <1>1, <1>2, ReadStarts
    <2>2. \A i \in CountLines' : i > 0
      BY <2>1, SameLines, LineSets
    <2> QED BY <2>1, <2>2, LineSets, SameLines DEF BegunInBlock
  <1>3. CASE pc = "read"
    <2>1. /\ line' = line + 1 /\ line < LastLine /\ contents' = contents
          /\ \/ Name(line + 1) = "blank" /\ Begun' = 0
             \/ Name(line + 1) = "count" /\ Begun' = 1
             \/ Name(line + 1) \notin {"blank", "count"} /\ Begun' = Begun
      BY <1>1, <1>3, LineRead
    <2>2. /\ CountLines' = CountLines /\ \A i : Name(i)' = Name(i)
          /\ CountLines \subseteq 1 .. Len(contents) /\ line \in Nat
          /\ line + 1 \in 1 .. Len(contents) + 1
      BY <2>1, SameLines, LineSets DEF TypeOK, LastLine
    <2> DEFINE Open(n) == \E i \in CountLines : i <= n /\ \A k \in i .. n : Name(k) # "blank"
    <2>3. Begun = 1 <=> Open(line)
      BY <1>3 DEF BegunInBlock
    <2>4. Begun' = 1 <=> Open(line + 1)
      <3>1. CASE Name(line + 1) = "blank"
        <4>1. Begun' = 0
          BY <2>1, <3>1
        <4>2. \A i \in CountLines : i <= line + 1 => line + 1 \in i .. line + 1
          BY <2>2
        <4> QED BY <3>1, <4>1, <4>2
      <3>2. CASE Name(line + 1) = "count"
        <4>1. Begun' = 1
          BY <2>1, <3>2
        <4>2. line + 1 \in CountLines
          BY <2>2, <3>2, CountLineNamed
        <4>3. \A k \in line + 1 .. line + 1 : k = line + 1
          BY <2>2
        <4> QED BY <2>2, <3>2, <4>1, <4>2, <4>3
      <3>3. CASE Name(line + 1) \notin {"blank", "count"}
        <4>1. Begun' = Begun
          BY <2>1, <3>3
        <4>2. line + 1 \notin CountLines
          BY <2>2, <3>3, CountLineNamed
        <4>3. Begun \in {0, 1}
          BY DEF Begun
        <4>4. Open(line) => Open(line + 1)
          <5>1. \A i \in CountLines : \A k \in i .. line + 1 : k \in i .. line \/ k = line + 1
            BY <2>2
          <5> QED BY <2>2, <3>3, <5>1
        <4>5. Open(line + 1) => Open(line)
          <5>1. \A i \in CountLines : i <= line + 1 => i <= line
            BY <2>2, <4>2
          <5>2. \A i \in CountLines : \A k \in i .. line : k \in i .. line + 1
            BY <2>2
          <5> QED BY <5>1, <5>2
        <4> QED BY <2>3, <4>1, <4>4, <4>5
      <3> QED BY <3>1, <3>2, <3>3
    <2> QED BY <2>1, <2>2, <2>4 DEF BegunInBlock
  <1> QED BY <1>2, <1>3

(* A count line overwrites one exactly when a case is under way. *)
LEMMA OverwritesBegun ==
  ASSUME TypeOK, BegunInBlock, pc = "read", line + 1 \in CountLines
  PROVE  line + 1 \in Overwriting <=> Begun = 1
  <1>1. /\ CountLines \subseteq 1 .. Len(contents) /\ line \in Nat
        /\ line + 1 \in 1 .. Len(contents) + 1
    BY LineSets DEF TypeOK
  <1>2. Name(line + 1) # "blank"
    BY <1>1, CountLineNamed
  <1>3. Begun = 1 <=> \E i \in CountLines :
                        i <= line /\ \A k \in i .. line : Name(k) # "blank"
    BY DEF BegunInBlock
  <1>4. ASSUME NEW i \in CountLines
        PROVE  /\ i <= line <=> i < line + 1
               /\ i <= line => ((\A k \in i .. line : Name(k) # "blank")
                                <=> (\A k \in i .. line + 1 : Name(k) # "blank"))
    <2>1. i <= line => \A k : k \in i .. line + 1 <=> k \in i .. line \/ k = line + 1
      BY <1>1
    <2> QED BY <1>1, <1>2, <2>1
  <1> QED BY <1>3, <1>4 DEF Overwriting

LEMMA BalanceStep ==
  ASSUME TypeOK, CountsInv, BeforeReading, BegunInBlock, CountsBalance, Next
  PROVE  CountsBalance'
  <1>1. SUFFICES ASSUME pc' = "read" PROVE CountsBalance'
    BY DEF CountsBalance
  <1> DEFINE O(n) == Cardinality(UpTo(Overwriting, n))
             I(n) == Cardinality(UpTo(IndentedCounts, n))
  <1>a. /\ CountLines \subseteq 1 .. Len(contents) /\ IndentedCounts \subseteq CountLines
        /\ Overwriting \subseteq CountLines
    BY LineSets
  <1>2. CASE pc # "read"
    <2>1. /\ Read' = 0 /\ Begun' = 0 /\ response' = <<>> /\ counts'[Read'] = <<>>
          /\ contents' = contents
      BY <1>1, <1>2, ReadStarts
    <2>2. UpTo(Overwriting, 0) = {} /\ UpTo(IndentedCounts, 0) = {}
      <3>1. \A i \in CountLines : ~(i <= 0)
        BY <1>a
      <3> QED BY <1>a, <3>1 DEF UpTo
    <2>3. O(0) = 0 /\ I(0) = 0
      BY <2>2, FS_EmptySet
    <2>4. UpTo(Overwriting, Read)' = UpTo(Overwriting, 0)
          /\ UpTo(IndentedCounts, Read)' = UpTo(IndentedCounts, 0)
      BY <2>1, SameLines DEF UpTo
    <2>5. Len(response') = 0 /\ Len(counts'[Read']) = 0
      BY <2>1
    <2> QED BY <2>1, <2>3, <2>4, <2>5 DEF CountsBalance
  <1>3. CASE pc = "read"
    <2>1. /\ line' = line + 1 /\ line < LastLine /\ contents' = contents /\ counts' = counts
          /\ \/ /\ Name(line + 1) = "blank"
                /\ Begun' = 0 /\ Len(response') = Len(response) + Begun
             \/ /\ Name(line + 1) = "count"
                /\ Begun' = 1 /\ Len(response') = Len(response)
             \/ /\ Name(line + 1) \notin {"blank", "count"}
                /\ Begun' = Begun /\ Len(response') = Len(response)
      BY <1>1, <1>3, LineRead
    <2>2. /\ counts[Read] \in Seq(Value)
          /\ Name(line + 1) # "count" => counts'[Read'] = counts[Read]
          /\ Name(line + 1) = "count" =>
               counts'[Read'] = IF contents[line + 1].indented THEN counts[Read]
                                ELSE Append(counts[Read], contents[line + 1].value)
      BY <1>3, <2>1, CountsNext
    <2>3. UpTo(Overwriting, Read)' = UpTo(Overwriting, Read')
          /\ UpTo(IndentedCounts, Read)' = UpTo(IndentedCounts, Read')
      BY <2>1, SameLines DEF UpTo
    <2>4. /\ Read \in Nat /\ line \in Nat /\ line + 1 \in 1 .. Len(contents) + 1
          /\ Len(response) \in Nat /\ Begun \in {0, 1} /\ Len(counts[Read]) \in Nat
      BY <2>1, <2>2 DEF TypeOK, Read, Begun, LastLine
    <2>5. /\ O(Read) \in Nat /\ I(Read) \in Nat
          /\ O(Read + 1) = IF Read + 1 \in Overwriting THEN O(Read) + 1 ELSE O(Read)
          /\ I(Read + 1) = IF Read + 1 \in IndentedCounts THEN I(Read) + 1 ELSE I(Read)
      BY <1>a, <2>4, OneLineMore
    <2>6. Len(response) + Begun + O(Read) = Len(counts[Read]) + I(Read)
      BY <1>3 DEF CountsBalance
    <2>7. SUFFICES Len(response') + Begun' + O(Read') = Len(counts'[Read']) + I(Read')
      BY <2>3 DEF CountsBalance
    <2> HIDE DEF O, I
    <2>8. CASE Name(line + 1) = "count"
      <3>1. line + 1 \in 1 .. Len(contents) /\ line + 1 \in CountLines
        BY <1>3, <2>1, <2>4, <2>8, NamedLine, CountLineNamed
      <3>2. Read = line /\ Read' = line + 1
        BY <2>1, <2>4, <3>1 DEF Read, TypeOK
      <3>3. O(Read') = O(Read) + Begun
        BY <1>3, <2>4, <2>5, <3>1, <3>2, OverwritesBegun
      <3>4. line + 1 \in IndentedCounts <=> contents[line + 1].indented
        BY <3>1 DEF IndentedCounts
      <3>5. contents[line + 1].value \in Value
        BY <3>1, LineTyped DEF Line
      <3> DEFINE r == Len(response)  b == Begun  o == O(Read)
                 c == Len(counts[Read])  i == I(Read)
                 rr == Len(response')  bb == Begun'  oo == O(Read')
                 cc == Len(counts'[Read'])  ii == I(Read')
      <3>6. /\ r \in Nat /\ b \in Nat /\ o \in Nat /\ c \in Nat /\ i \in Nat
            /\ r + b + o = c + i
            /\ rr = r /\ bb = 1 /\ oo = o + b
        BY <2>1, <2>4, <2>5, <2>6, <2>8, <3>3
      <3>7. SUFFICES rr + bb + oo = cc + ii
        OBVIOUS
      <3> HIDE DEF r, b, o, c, i, rr, bb, oo, cc, ii
      <3>8. CASE contents[line + 1].indented
        <4>1. counts'[Read'] = counts[Read] /\ I(Read') = I(Read) + 1
          BY <2>2, <2>5, <2>8, <3>2, <3>4, <3>8
        <4>2. cc = c /\ ii = i + 1
          BY <4>1 DEF c, i, cc, ii
        <4> QED BY <3>6, <4>2
      <3>9. CASE ~contents[line + 1].indented
        <4>1. counts'[Read'] = Append(counts[Read], contents[line + 1].value)
              /\ I(Read') = I(Read)
          BY <2>2, <2>5, <2>8, <3>2, <3>4, <3>9
        <4>2. Len(counts'[Read']) = Len(counts[Read]) + 1
          BY <2>2, <3>5, <4>1
        <4>3. cc = c + 1 /\ ii = i
          BY <4>1, <4>2 DEF c, i, cc, ii
        <4> QED BY <3>6, <4>3
      <3> QED BY <3>8, <3>9
    <2>9. CASE Name(line + 1) # "count"
      <3>1. Len(response') + Begun' = Len(response) + Begun
        BY <2>1, <2>4, <2>9
      <3>2. Read' = Read \/ (Read' = Read + 1 /\ Read + 1 = line + 1)
        BY <2>1, <2>4 DEF Read, TypeOK
      <3>3. line + 1 \notin CountLines
        BY <2>4, <2>9, CountLineNamed
      <3>4. O(Read') = O(Read) /\ I(Read') = I(Read)
        BY <1>a, <2>5, <3>2, <3>3
      <3> QED BY <2>2, <2>4, <2>5, <2>6, <2>9, <3>1, <3>4
    <2> QED BY <2>8, <2>9
  <1> QED BY <1>2, <1>3

LEMMA DroppedStep ==
  ASSUME TypeOK, CountsInv, BegunInBlock, CountsBalance, PassesAgree, Next
  PROVE  DroppedOnlyForIndented'
  <1>1. SUFFICES ASSUME pc' = "ok" PROVE DroppedOnlyForIndented'
    BY DEF DroppedOnlyForIndented
  <1>2. CASE pc = "ok"
    BY <1>2 DEF Next, CountLine, CheckCount, EndCase, SkipLine, RefuseLine, SetField,
                CheckVerified, Reading
  <1>3. CASE CheckVerified /\ pc = "read"
    <2>1. /\ pc = "read" /\ line = Len(contents) + 1 /\ Len(response) = CaseCount
          /\ contents' = contents /\ counts' = counts /\ response' = response
      BY <1>1, <1>3 DEF CheckVerified, LastLine
    <2> DEFINE c == counts[Len(contents)]
    <2>2. /\ Read = Len(contents) /\ Len(contents) \in Nat
          /\ c \in Seq(Value) /\ Len(c) = CaseCount /\ CaseCount \in Nat
      BY <2>1, ResponseAssumption DEF CountsInv, Read, TypeOK
    <2>3. Begun = 0
      <3>1. Name(line) = "blank"
        BY <2>1, <2>2 DEF Name
      <3>2. \A i \in CountLines : i <= line => line \in i .. line
        BY <2>1, <2>2, LineSets
      <3>3. Begun # 1
        BY <2>1, <3>1, <3>2 DEF BegunInBlock
      <3> QED BY <3>3 DEF Begun
    <2>4. UpTo(Overwriting, Read) = Overwriting /\ UpTo(IndentedCounts, Read) = IndentedCounts
      <3>1. \A i \in CountLines : i <= Read
        BY <2>2, LineSets
      <3> QED BY <3>1, LineSets DEF UpTo
    <2>5. /\ Cardinality(Overwriting) \in Nat /\ Cardinality(IndentedCounts) \in Nat
      BY LineSets, FS_Subset, FS_CardinalityType
    <2>6. Cardinality(Overwriting) = Cardinality(IndentedCounts)
      BY <2>1, <2>2, <2>3, <2>4, <2>5 DEF CountsBalance
    <2>7. ASSUME Unindented PROVE Reproduced = c
      <3>1. \A i \in 1 .. Len(response) : c[i] = response[i].case["count"]
        BY <2>1, <2>2, <2>3, <2>7 DEF PassesAgree
      <3>2. c = [i \in 1 .. Len(c) |-> c[i]]
        BY <2>2
      <3> HIDE DEF c
      <3> QED BY <2>1, <2>2, <3>1, <3>2 DEF Reproduced
    <2>8. Reproduced' = Reproduced
      BY <2>1 DEF Reproduced
    <2> QED BY <2>1, <2>6, <2>7, <2>8, SameLines DEF DroppedOnlyForIndented, Unindented
  <1> QED BY <1>1, <1>2, <1>3 DEF Next, CountLine, CheckCount, EndCase, SkipLine, RefuseLine,
                                  SetField, CheckVerified, Reading

-----------------------------------------------------------------------------
(* The fields of a case *)

LEMMA LastTyped == ASSUME TypeOK PROVE Last \in 0 .. Len(contents) + 1
  <1>1. CASE response = <<>>
    BY <1>1 DEF Last, TypeOK
  <1>2. CASE response # <<>>
    <2>1. Len(response) \in 1 .. Len(response)
      BY <1>2 DEF TypeOK
    <2> DEFINE S == [case : Parsed, end : 1 .. Len(contents) + 1]
    <2>2. response \in Seq(S)
      BY DEF TypeOK
    <2> HIDE DEF S
    <2>3. response[Len(response)] \in S
      BY <2>1, <2>2
    <2> USE DEF S
    <2>4. response[Len(response)].end \in 1 .. Len(contents) + 1
      BY <2>3
    <2>5. Len(contents) \in Nat
      BY DEF TypeOK
    <2> QED BY <1>2, <2>4, <2>5 DEF Last
  <1> QED BY <1>1, <1>2

LEMMA CurrentStep ==
  ASSUME TypeOK, BeforeReading, CurrentIsOwn, Next
  PROVE  CurrentIsOwn'
  <1>0. SUFFICES ASSUME pc' = "read" PROVE CurrentIsOwn'
    BY DEF CurrentIsOwn
  <1>a. contents' = contents /\ \A i : Name(i)' = Name(i)
    BY DEF Next, CountLine, CheckCount, EndCase, SkipLine, RefuseLine, SetField,
           CheckVerified, Name
  <1>b. Last \in Nat /\ line \in Nat
    BY LastTyped DEF TypeOK
  <1>1. CASE CheckCount
    <2>1. line' = 0 /\ Last' = 0 /\ \A f \in Field : current'[f] = None
      BY <1>1 DEF CheckCount, BeforeReading, Last, NoCase
    <2> QED BY <2>1 DEF CurrentIsOwn
  <1>2. CASE EndCase
    <2>1. /\ line' = line + 1 /\ current' = NoCase
          /\ response' = Append(response, [case |-> current, end |-> line + 1])
      BY <1>0, <1>2 DEF EndCase
    <2>2. Last' = line + 1
      <3>1. /\ Len(response') = Len(response) + 1 /\ Len(response) \in Nat
            /\ response'[Len(response) + 1].end = line + 1
        BY <2>1 DEF TypeOK
      <3>2. response' # <<>>
        BY <3>1
      <3> QED BY <3>1, <3>2 DEF Last
    <2>3. \A f \in Field : current'[f] = None
      BY <2>1 DEF NoCase
    <2> QED BY <1>b, <2>1, <2>2, <2>3 DEF CurrentIsOwn
  <1>3. CASE SkipLine \/ SetField
    <2>1. /\ pc = "read" /\ line' = line + 1 /\ Last' = Last
      BY <1>3 DEF SkipLine, SetField, Reading, Last
    <2>2. Last <= line
      BY <2>1 DEF CurrentIsOwn
    <2>3. ASSUME NEW f \in Field, Name(line + 1) # f, current'[f] = current[f]
          PROVE  IF current'[f] = None
                 THEN \A j \in Last + 1 .. line + 1 : Name(j) # f
                 ELSE \E j \in Last + 1 .. line + 1 :
                        /\ Name(j) = f /\ contents[j].value = current'[f]
                        /\ \A k \in j + 1 .. line + 1 : Name(k) # f
      <3>1. CASE current[f] = None
        <4>1. \A j \in Last + 1 .. line : Name(j) # f
          BY <2>1, <3>1 DEF CurrentIsOwn
        <4>2. \A j \in Last + 1 .. line + 1 : j \in Last + 1 .. line \/ j = line + 1
          BY <1>b
        <4> QED BY <2>3, <3>1, <4>1, <4>2
      <3>2. CASE current[f] # None
        <4>1. PICK j \in Last + 1 .. line :
                /\ Name(j) = f /\ contents[j].value = current[f]
                /\ \A k \in j + 1 .. line : Name(k) # f
          BY <2>1, <3>2 DEF CurrentIsOwn
        <4>2. \A k \in j + 1 .. line + 1 : k \in j + 1 .. line \/ k = line + 1
          BY <1>b
        <4>3. \A k \in j + 1 .. line + 1 : Name(k) # f
          BY <2>3, <4>1, <4>2
        <4>4. j \in Last + 1 .. line + 1
          BY <1>b
        <4> QED BY <2>3, <3>2, <4>1, <4>3, <4>4
      <3> QED BY <3>1, <3>2
    <2>4. ASSUME NEW f \in Field, SetField, Name(line + 1) = f
          PROVE  /\ current'[f] # None
                 /\ \E j \in Last + 1 .. line + 1 :
                      /\ Name(j) = f /\ contents[j].value = current'[f]
                      /\ \A k \in j + 1 .. line + 1 : Name(k) # f
      <3>1. line + 1 \in 1 .. Len(contents)
        BY <2>4, NameBlank, NamedLine DEF SetField, Reading
      <3>2. contents[line + 1].value \in Value
        BY <3>1, LineTyped DEF Line
      <3>3. current'[f] = contents[line + 1].value
        BY <2>4 DEF SetField, TypeOK, Parsed, Case
      <3>4. line + 1 \in Last + 1 .. line + 1 /\ (line + 1) + 1 .. line + 1 = {}
        BY <1>b, <2>2
      <3> QED BY <2>4, <3>2, <3>3, <3>4, ResponseAssumption
    <2>5. ASSUME NEW f \in Field
          PROVE  IF current'[f] = None
                 THEN \A j \in Last + 1 .. line + 1 : Name(j) # f
                 ELSE \E j \in Last + 1 .. line + 1 :
                        /\ Name(j) = f /\ contents[j].value = current'[f]
                        /\ \A k \in j + 1 .. line + 1 : Name(k) # f
      <3>1. CASE SkipLine
        <4>1. Name(line + 1) # f /\ current' = current
          BY <3>1, ResponseAssumption DEF SkipLine, Reading, Other
        <4> QED BY <2>3, <4>1
      <3>2. CASE SetField /\ Name(line + 1) # f
        <4>1. current'[f] = current[f]
          BY <3>2 DEF SetField, TypeOK, Parsed, Case
        <4> QED BY <2>3, <3>2, <4>1
      <3>3. CASE SetField /\ Name(line + 1) = f
        BY <2>4, <3>3
      <3> QED BY <1>3, <3>1, <3>2, <3>3
    <2>6. Last' <= line'
      BY <1>b, <2>1, <2>2
    <2> QED BY <1>a, <2>1, <2>5, <2>6 DEF CurrentIsOwn
  <1> QED BY <1>0, <1>1, <1>2, <1>3
          DEF Next, CountLine, RefuseLine, CheckVerified

LEMMA FieldsStep ==
  ASSUME TypeOK, CurrentIsOwn, FieldsAreOwn, Next
  PROVE  FieldsAreOwn'
  <1>1. contents' = contents
    BY DEF Next, CountLine, CheckCount, EndCase, SkipLine, RefuseLine, SetField,
           CheckVerified
  <1>2. CASE response' = response
    BY <1>1, <1>2 DEF FieldsAreOwn, Start
  <1>3. CASE EndCase /\ response' # response
    <2>1. /\ pc = "read" /\ line \in 0 .. Len(contents) /\ VerifyCase(current)
          /\ response' = Append(response, [case |-> current, end |-> line + 1])
      BY <1>3 DEF EndCase, Reading, LastLine, TypeOK
    <2> DEFINE n == Len(response)
    <2>2. /\ n \in Nat /\ Len(response') = n + 1
          /\ \A i \in 1 .. n : response'[i] = response[i]
          /\ response'[n + 1] = [case |-> current, end |-> line + 1]
      BY <2>1 DEF TypeOK
    <2>3. ASSUME NEW i \in 1 .. n + 1 PROVE Start(i)' = IF i = n + 1 THEN Last ELSE Start(i)
      <3>1. i - 1 \in 1 .. n \/ i = 1
        BY <2>2
      <3>2. i = n + 1 => (i = 1 <=> response = <<>>)
        BY <2>2 DEF TypeOK
      <3> QED BY <2>2, <3>1, <3>2 DEF Start, Last
    <2>4. ASSUME NEW f \in Field
          PROVE  \E j \in Last + 1 .. line :
                   /\ contents[j].name = f /\ contents[j].value = current[f]
                   /\ \A k \in j + 1 .. line : contents[k].name # f
      <3>1. current[f] # None
        BY <2>1 DEF VerifyCase
      <3>2. PICK j \in Last + 1 .. line :
              /\ Name(j) = f /\ contents[j].value = current[f]
              /\ \A k \in j + 1 .. line : Name(k) # f
        BY <2>1, <3>1 DEF CurrentIsOwn
      <3>3. \A k \in Last + 1 .. line : Name(k) = contents[k].name
        BY <2>1, LastTyped DEF Name, TypeOK
      <3>4. \A k \in j + 1 .. line : k \in Last + 1 .. line
        BY <2>1, LastTyped DEF TypeOK
      <3> QED BY <3>2, <3>3, <3>4
    <2>5. ASSUME NEW i \in 1 .. n + 1, NEW f \in Field
          PROVE  \E j \in Start(i)' + 1 .. response'[i].end - 1 :
                   /\ contents[j].name = f /\ contents[j].value = response'[i].case[f]
                   /\ \A k \in j + 1 .. response'[i].end - 1 : contents[k].name # f
      <3>1. CASE i = n + 1
        <4>1. response'[i].end - 1 = line /\ response'[i].case = current
          BY <2>1, <2>2, <3>1
        <4>2. Start(i)' = Last
          BY <2>3, <3>1
        <4> QED BY <2>4, <4>1, <4>2
      <3>2. CASE i # n + 1
        <4>1. i \in 1 .. n
          BY <2>2, <3>2
        <4>2. response'[i] = response[i] /\ Start(i)' = Start(i)
          BY <2>2, <2>3, <3>2, <4>1
        <4> QED BY <4>1, <4>2 DEF FieldsAreOwn
      <3> QED BY <3>1, <3>2
    <2> HIDE DEF n
    <2> QED BY <1>1, <2>2, <2>5 DEF FieldsAreOwn
  <1> QED BY <1>2, <1>3 DEF Next, CountLine, CheckCount, EndCase, SkipLine,
                            RefuseLine, SetField, CheckVerified

-----------------------------------------------------------------------------
(* Well-formed files *)

LEMMA FileStays ==
  ASSUME contents' = contents
  PROVE  WellFormed' = WellFormed /\ \A i : Name(i)' = Name(i)
  BY DEF WellFormed, Blocks, LinesOf, WellFormedBlock, Name, RejectsMutations

(* At a blank line the block before it is a case or has no field at all,   *)
(* and a case has what the file says in the one line of each field.        *)
LEMMA WholeBlock ==
  ASSUME TypeOK, CurrentIsOwn, WellFormed, pc = "read", line < LastLine,
         Name(line + 1) = "blank", NEW b, BlockFrom(b)
  PROVE  /\ current["count"] = None => \A i \in b + 1 .. line : Name(i) \notin Field
         /\ current["count"] # None => VerifyCase(current) /\ ~Twice(b)
  <1> DEFINE block == <<b, line + 1>>
             first == \A i \in 1 .. b : Name(i) \notin Field
             case == [f \in Field |-> contents[CHOOSE i \in LinesOf(block, f) : TRUE].value]
  <1>1. /\ line \in 0 .. Len(contents) /\ Len(contents) \in Nat
        /\ Last \in Nat /\ b \in Last .. line /\ b \in Nat
    BY LastTyped DEF TypeOK, LastLine, BlockFrom
  <1>2. \A i \in b + 1 .. line : i \in 1 .. Len(contents) /\ Name(i) = contents[i].name
    BY <1>1 DEF Name
  <1>3. \A f : LinesOf(block, f) = {i \in b + 1 .. line : Name(i) = f}
    <2>1. (line + 1) - 1 = line
      BY <1>1
    <2> QED BY <1>2, <2>1 DEF LinesOf
  <1>4. block \in Blocks
    <2>1. \A i \in b + 1 .. (line + 1) - 1 : i \in b + 1 .. line
      BY <1>1
    <2>2. /\ b \in 0 .. Len(contents) /\ line + 1 \in 1 .. Len(contents) + 1 /\ b < line + 1
          /\ b = 0 \/ Name(b) = "blank"
          /\ \A i \in b + 1 .. (line + 1) - 1 : Name(i) # "blank"
      BY <1>1, <2>1 DEF BlockFrom
    <2> QED BY <2>2 DEF Blocks
  <1>5. ASSUME NEW f \in Field
        PROVE  /\ current[f] = None <=> LinesOf(block, f) = {}
               /\ current[f] # None =>
                    \E j \in LinesOf(block, f) : contents[j].value = current[f]
    <2>1. CASE current[f] = None
      <3>1. \A j \in Last + 1 .. line : Name(j) # f
        BY <2>1 DEF CurrentIsOwn
      <3>2. \A j \in b + 1 .. line : j \in Last + 1 .. line
        BY <1>1
      <3> QED BY <1>3, <2>1, <3>1, <3>2
    <2>2. CASE current[f] # None
      <3>1. PICK j \in Last + 1 .. line : Name(j) = f /\ contents[j].value = current[f]
        BY <2>2 DEF CurrentIsOwn
      <3>2. ~(j \in Last + 1 .. b)
        BY <3>1 DEF BlockFrom
      <3>3. j \in b + 1 .. line
        BY <1>1, <3>2
      <3>4. j \in LinesOf(block, f)
        BY <1>3, <3>1, <3>3
      <3> QED BY <2>2, <3>1, <3>4
    <2> QED BY <2>1, <2>2
  <1>6. (\E f \in Field : LinesOf(block, f) # {}) =>
          /\ \A f \in Field : \E i \in LinesOf(block, f) : LinesOf(block, f) = {i}
          /\ Reproduces(case) /\ (first => RejectsMutations(case))
    <2>1. block[1] = b
      OBVIOUS
    <2>2. (\E f \in Field : LinesOf(block, f) # {}) =>
            WellFormedBlock(block, \A i \in 1 .. block[1] : Name(i) \notin Field)
      <3> HIDE DEF block
      <3> QED BY <1>4 DEF WellFormed
    <2> HIDE DEF block
    <2> QED BY <2>1, <2>2 DEF WellFormedBlock
  <1> HIDE DEF block
  <1>7. "count" \in Field
    BY ResponseAssumption DEF Field
  <1>8. ASSUME current["count"] = None PROVE \A i \in b + 1 .. line : Name(i) \notin Field
    <2>1. LinesOf(block, "count") = {}
      BY <1>5, <1>7, <1>8
    <2>2. \A f \in Field : LinesOf(block, f) = {}
      BY <1>6, <1>7, <2>1
    <2> QED BY <1>3, <2>2
  <1>9. ASSUME current["count"] # None PROVE VerifyCase(current) /\ ~Twice(b)
    <2>1. LinesOf(block, "count") # {}
      BY <1>5, <1>7, <1>9
    <2>2. /\ \A f \in Field : \E i \in LinesOf(block, f) : LinesOf(block, f) = {i}
          /\ Reproduces(case) /\ (first => RejectsMutations(case))
      BY <1>6, <1>7, <2>1
    <2>3. ASSUME NEW f \in Field PROVE current[f] # None /\ case[f] = current[f]
      <3>1. PICK i \in LinesOf(block, f) : LinesOf(block, f) = {i}
        BY <2>2
      <3>2. current[f] # None /\ \E j \in LinesOf(block, f) : contents[j].value = current[f]
        BY <1>5, <3>1
      <3>3. (CHOOSE j \in LinesOf(block, f) : TRUE) = i
        BY <3>1
      <3> QED BY <3>1, <3>2, <3>3
    <2>4. case = current
      <3>1. current = [f \in Field |-> current[f]]
        BY DEF TypeOK, Parsed, Case
      <3> QED BY <2>3, <3>1
    <2>5. response = <<>> => first
      <3> SUFFICES ASSUME response = <<>> PROVE first
        OBVIOUS
      <3>1. Last + 1 = 1
        BY DEF Last
      <3> QED BY <3>1 DEF BlockFrom
    <2>6. ~Twice(b)
      <3>1. PICK i \in LinesOf(block, "count") : LinesOf(block, "count") = {i}
        BY <1>7, <2>2
      <3>2. \A j \in b + 1 .. line : Name(j) = "count" => j = i
        BY <1>3, <3>1
      <3> QED BY <3>2 DEF Twice
    <2> HIDE DEF case, first
    <2> QED BY <2>2, <2>3, <2>4, <2>5, <2>6 DEF VerifyCase
  <1> QED BY <1>8, <1>9

(* A line that is not blank belongs to the block. *)
LEMMA BlockGrows ==
  ASSUME TypeOK, pc = "read", line < LastLine, Name(line + 1) # "blank",
         line' = line + 1, contents' = contents, response' = response,
         NEW b, BlockFrom(b)
  PROVE  /\ BlockFrom(b)' /\ (Twice(b) => Twice(b)')
         /\ Name(line + 1) = "count" /\ (\E i \in b + 1 .. line : Name(i) = "count") => Twice(b)'
  <1>1. /\ line \in Nat /\ Last \in Nat /\ Last' = Last /\ b \in Last .. line /\ b \in Nat
        /\ \A i : Name(i)' = Name(i)
    BY LastTyped, FileStays DEF TypeOK, BlockFrom, Last
  <1>2. \A i \in b + 1 .. line + 1 : i \in b + 1 .. line \/ i = line + 1
    BY <1>1
  <1>3. /\ \A i \in b + 1 .. line : i \in b + 1 .. line + 1 /\ i # line + 1
        /\ line + 1 \in b + 1 .. line + 1
    BY <1>1
  <1>4. BlockFrom(b)'
    BY <1>1, <1>2 DEF BlockFrom
  <1>5. Twice(b) => Twice(b)'
    BY <1>1, <1>3 DEF Twice
  <1>6. Name(line + 1) = "count" /\ (\E i \in b + 1 .. line : Name(i) = "count") => Twice(b)'
    BY <1>1, <1>3 DEF Twice
  <1> QED BY <1>4, <1>5, <1>6

LEMMA HasCaseStep ==
  ASSUME TypeOK, CountsInv, BeforeReading, CurrentIsOwn, EveryCountHasCase, Next
  PROVE  EveryCountHasCase'
  <1>0. SUFFICES ASSUME pc' = "read", WellFormed'
                 PROVE  \E b \in 0 .. Len(contents)' + 1 :
                          /\ BlockFrom(b)'
                          /\ \/ (Len(response) + Begun = Len(counts[Read]))'
                             \/ Twice(b)'
    BY DEF EveryCountHasCase
  <1>a. contents' = contents /\ WellFormed /\ (\A i : Name(i)' = Name(i)) /\ Len(contents) \in Nat
    <2>1. contents' = contents
      BY DEF Next, CountLine, CheckCount, EndCase, SkipLine, RefuseLine, SetField, CheckVerified
    <2>2. WellFormed' = WellFormed /\ \A i : Name(i)' = Name(i)
      BY <2>1, FileStays
    <2>3. Len(contents) \in Nat
      BY DEF TypeOK
    <2> QED BY <1>0, <2>1, <2>2, <2>3
  <1>b. "count" \in Field /\ "blank" \notin Field
    BY NameBlank, ResponseAssumption DEF Field
  <1>1. CASE CheckCount
    <2>1. /\ response' = <<>> /\ current' = NoCase /\ line' = 0 /\ counts' = counts
          /\ Read' = 0 /\ counts[0] = <<>>
      BY <1>1 DEF CheckCount, BeforeReading, Read, CountsInv, TypeOK
    <2>2. Begun' = 0 /\ Last' = 0
      BY <1>b, <2>1 DEF Begun, NoCase, Last
    <2>3. BlockFrom(0)'
      BY <1>a, <2>1, <2>2 DEF BlockFrom
    <2> QED BY <1>a, <2>1, <2>2, <2>3
  <1>2. ASSUME pc = "read", line < LastLine, line' = line + 1, counts' = counts
        PROVE  /\ counts[Read] \in Seq(Value) /\ line \in 0 .. Len(contents)
               /\ Last \in Nat /\ Len(response) \in Nat
               /\ Name(line + 1) # "count" => counts'[Read'] = counts[Read]
               /\ \E b \in 0 .. Len(contents) + 1 :
                     BlockFrom(b) /\ (Len(response) + Begun = Len(counts[Read]) \/ Twice(b))
    BY <1>a, <1>2, CountsNext, LastTyped DEF EveryCountHasCase, TypeOK, LastLine
  <1>3. CASE EndCase
    <2>1. /\ pc = "read" /\ line < LastLine /\ Name(line + 1) = "blank"
          /\ line' = line + 1 /\ counts' = counts
          /\ current["count"] # None /\ current' = NoCase
          /\ response' = Append(response, [case |-> current, end |-> line + 1])
      BY <1>0, <1>3 DEF EndCase, Reading
    <2>2. PICK b \in 0 .. Len(contents) + 1 :
            BlockFrom(b) /\ (Len(response) + Begun = Len(counts[Read]) \/ Twice(b))
      BY <1>2, <2>1
    <2>3. ~Twice(b)
      BY <1>a, <2>1, <2>2, WholeBlock
    <2>4. Begun = 1 /\ Begun' = 0
      BY <1>b, <2>1 DEF Begun, NoCase
    <2>5. /\ Len(response') = Len(response) + 1 /\ Len(response) \in Nat
          /\ response'[Len(response) + 1].end = line + 1
      BY <2>1 DEF TypeOK
    <2>6. Last' = line + 1
      <3>1. response' # <<>>
        BY <2>5
      <3> QED BY <2>5, <3>1 DEF Last
    <2>7. PICK n \in 0 .. Len(contents) + 1 : n = line + 1
      BY <1>2, <2>1
    <2>8. BlockFrom(n)'
      <3>1. n \in Nat /\ n + 1 .. n = {}
        BY <1>a, <2>7
      <3> QED BY <1>a, <2>1, <2>6, <2>7, <3>1 DEF BlockFrom
    <2>9. counts'[Read'] = counts[Read]
      BY <1>2, <2>1
    <2> QED BY <1>a, <2>2, <2>3, <2>4, <2>5, <2>8, <2>9
  <1>4. CASE SkipLine
    <2>1. /\ pc = "read" /\ line < LastLine /\ line' = line + 1 /\ counts' = counts
          /\ current' = current /\ response' = response
          /\ \/ Name(line + 1) \in {"comment", "unknown"}
             \/ Name(line + 1) = "blank" /\ current["count"] = None
      BY <1>4 DEF SkipLine, Reading
    <2>2. PICK b \in 0 .. Len(contents) + 1 :
            BlockFrom(b) /\ (Len(response) + Begun = Len(counts[Read]) \/ Twice(b))
      BY <1>2, <2>1
    <2>3. Name(line + 1) # "count" /\ Begun' = Begun /\ Last' = Last
      BY <2>1 DEF Begun, Last
    <2>4. counts'[Read'] = counts[Read]
      BY <1>2, <2>1, <2>3
    <2>5. CASE Name(line + 1) # "blank"
      <3>1. BlockFrom(b)' /\ (Twice(b) => Twice(b)')
        BY <1>a, <2>1, <2>2, <2>5, BlockGrows
      <3> QED BY <1>a, <2>1, <2>2, <2>3, <2>4, <3>1
    <2>6. CASE Name(line + 1) = "blank"
      <3>1. \A i \in b + 1 .. line : Name(i) \notin Field
        BY <1>a, <2>1, <2>2, <2>6, WholeBlock
      <3>2. ~Twice(b)
        BY <1>b, <3>1 DEF Twice
      <3>3. b \in Last .. line /\ \A i \in Last + 1 .. b : Name(i) \notin Field
        BY <2>2 DEF BlockFrom
      <3>4. \A i \in Last + 1 .. line + 1 :
              i \in Last + 1 .. b \/ i \in b + 1 .. line \/ i = line + 1
        BY <1>2, <2>1, <3>3
      <3>5. \A i \in Last + 1 .. line + 1 : Name(i) \notin Field
        BY <1>b, <2>6, <3>1, <3>3, <3>4
      <3>6. PICK n \in 0 .. Len(contents) + 1 : n = line + 1
        BY <1>2, <2>1
      <3>7. n \in Last .. n /\ n + 1 .. n = {}
        BY <1>2, <2>1, <3>3, <3>6
      <3>8. BlockFrom(n)'
        BY <1>a, <2>1, <2>3, <2>6, <3>5, <3>6, <3>7 DEF BlockFrom
      <3> QED BY <1>a, <2>1, <2>2, <2>3, <2>4, <3>2, <3>8
    <2> QED BY <2>5, <2>6
  <1>5. CASE SetField
    <2>1. /\ pc = "read" /\ line < LastLine /\ line' = line + 1 /\ counts' = counts
          /\ response' = response /\ Name(line + 1) \in Field
          /\ current' = [current EXCEPT ![Name(line + 1)] = contents[line + 1].value]
      BY <1>5 DEF SetField, Reading
    <2>2. PICK b \in 0 .. Len(contents) + 1 :
            BlockFrom(b) /\ (Len(response) + Begun = Len(counts[Read]) \/ Twice(b))
      BY <1>2, <2>1
    <2>3. current \in Case
      BY DEF TypeOK, Parsed
    <2>4. /\ BlockFrom(b)' /\ (Twice(b) => Twice(b)')
          /\ Name(line + 1) = "count" /\ (\E i \in b + 1 .. line : Name(i) = "count")
               => Twice(b)'
      BY <1>a, <1>b, <2>1, <2>2, BlockGrows
    <2>5. CASE Name(line + 1) # "count"
      <3>1. counts'[Read'] = counts[Read]
        BY <1>2, <2>1, <2>5
      <3>2. current'["count"] = current["count"]
        BY <1>b, <2>1, <2>3, <2>5 DEF Case
      <3>3. Begun' = Begun
        BY <3>2 DEF Begun
      <3> QED BY <1>a, <2>1, <2>2, <2>4, <3>1, <3>3
    <2>6. CASE Name(line + 1) = "count"
      <3>1. line + 1 \in 1 .. Len(contents)
        BY <1>b, <2>1, NamedLine
      <3>2. ~contents[line + 1].indented
        BY <1>a, <3>1 DEF WellFormed
      <3>3. contents[line + 1].value \in Value /\ contents[line + 1].value # None
        BY <3>1, LineTyped, ResponseAssumption DEF Line
      <3>4. counts'[Read'] = Append(counts[Read], contents[line + 1].value)
        BY <1>a, <2>1, <2>6, <3>2, CountsNext
      <3>5. Len(counts'[Read']) = Len(counts[Read]) + 1
        BY <1>2, <2>1, <3>3, <3>4, AppendProperties
      <3>6. Begun' = 1
        BY <1>b, <2>1, <2>3, <2>6, <3>3 DEF Begun, Case
      <3>7. CASE current["count"] = None
        <4>1. Begun = 0
          BY <3>7 DEF Begun
        <4> QED BY <1>2, <1>a, <2>1, <2>2, <2>4, <3>5, <3>6, <4>1
      <3>8. CASE current["count"] # None
        <4>1. PICK i \in Last + 1 .. line : Name(i) = "count"
          BY <1>b, <2>1, <3>8 DEF CurrentIsOwn
        <4>2. b \in Last .. line /\ ~(i \in Last + 1 .. b)
          BY <1>b, <2>2, <4>1 DEF BlockFrom
        <4>3. i \in b + 1 .. line
          BY <1>2, <2>1, <4>2
        <4> QED BY <1>a, <2>4, <2>6, <4>1, <4>3
      <3> QED BY <3>7, <3>8
    <2> QED BY <2>5, <2>6
  <1> QED BY <1>0, <1>1, <1>3, <1>4, <1>5 DEF Next, CountLine, RefuseLine, CheckVerified

LEMMA AcceptedStep ==
  ASSUME TypeOK, CountsInv, CurrentIsOwn, EveryCountHasCase, Next
  PROVE  WellFormedAccepted'
  <1>1. SUFFICES ASSUME pc' = "err", WellFormed', Len(counts[Len(contents)])' = CaseCount
                 PROVE  FALSE
    BY DEF WellFormedAccepted
  <1>2. contents' = contents /\ WellFormed
    <2>1. contents' = contents
      BY DEF Next, CountLine, CheckCount, EndCase, SkipLine, RefuseLine, SetField, CheckVerified
    <2> QED BY <1>1, <2>1, FileStays
  <1>3. CASE CountLine
    BY <1>1, <1>3 DEF CountLine
  <1>4. CASE CheckCount
    BY <1>1, <1>4 DEF CheckCount
  <1>5. CASE EndCase
    <2>1. /\ pc = "read" /\ line < LastLine /\ Name(line + 1) = "blank"
          /\ current["count"] # None /\ ~VerifyCase(current)
      BY <1>1, <1>5 DEF EndCase, Reading
    <2>2. PICK b \in 0 .. Len(contents) + 1 : BlockFrom(b)
      BY <1>2, <2>1 DEF EveryCountHasCase
    <2> QED BY <1>2, <2>1, <2>2, WholeBlock
  <1>6. CASE SkipLine
    BY <1>1, <1>6 DEF SkipLine, Reading
  <1>7. CASE RefuseLine
    <2>1. /\ pc = "read" /\ line < LastLine /\ Name(line + 1) # "blank"
          /\ \/ Name(line + 1) = "malformed"
             \/ Name(line + 1) \in Decimal /\ contents[line + 1].value \notin Number
      BY <1>7, NameBlank DEF RefuseLine, Reading, Field
    <2>2. line + 1 \in 1 .. Len(contents) /\ Name(line + 1) = contents[line + 1].name
      BY <2>1, NamedLine
    <2>3. /\ contents[line + 1].name # "malformed"
          /\ contents[line + 1].name \in Decimal => contents[line + 1].value \in Number
      BY <1>2, <2>2 DEF WellFormed
    <2> QED BY <2>1, <2>2, <2>3
  <1>8. CASE SetField
    BY <1>1, <1>8 DEF SetField, Reading
  <1>9. CASE CheckVerified
    <2>1. /\ pc = "read" /\ line = Len(contents) + 1 /\ Len(response) # CaseCount
          /\ counts' = counts /\ Len(contents) \in Nat
      BY <1>1, <1>9 DEF CheckVerified, LastLine, TypeOK
    <2>2. PICK b \in 0 .. Len(contents) + 1 :
            BlockFrom(b) /\ (Len(response) + Begun = Len(counts[Read]) \/ Twice(b))
      BY <1>2, <2>1 DEF EveryCountHasCase
    <2>3. Name(line) = "blank" /\ line \in Nat
      BY <2>1 DEF Name
    <2>4. b = line
      <3>1. b \in Last .. line /\ ~(line \in b + 1 .. line)
        BY <2>2, <2>3 DEF BlockFrom
      <3> QED BY <2>1, <2>2, <3>1
    <2>5. ~Twice(b)
      BY <2>3, <2>4 DEF Twice
    <2>6. current["count"] = None
      <3>1. "count" \in Field /\ \A i \in Last + 1 .. line : Name(i) \notin Field
        BY <2>2, <2>4, ResponseAssumption DEF BlockFrom, Field
      <3> QED BY <2>1, <3>1 DEF CurrentIsOwn
    <2>7. Begun = 0 /\ Read = Len(contents) /\ Len(response) \in Nat
      BY <2>1, <2>6 DEF Begun, Read, TypeOK
    <2>8. Len(counts[Len(contents)]) = CaseCount
      BY <1>1, <1>2, <2>1
    <2> QED BY <2>1, <2>2, <2>5, <2>7, <2>8
  <1> QED BY <1>3, <1>4, <1>5, <1>6, <1>7, <1>8, <1>9 DEF Next

-----------------------------------------------------------------------------
LEMMA Invariance == Spec => []IInv
  <1>1. Init => IInv
    <2> SUFFICES ASSUME Init PROVE IInv
      OBVIOUS
    <2>1. contents \in Seq(Line) /\ Len(contents) \in Nat
      BY ResponseAssumption DEF Init
    <2>2. <<>> \in Seq(Value)
          /\ <<>> \in Seq([case : Parsed, end : 1 .. Len(contents) + 1])
      OBVIOUS
    <2>3. TypeOK
      BY <2>1, <2>2, NoCaseTyped DEF Init, TypeOK
    <2>4. CountsInv /\ BeforeReading
      BY <2>1 DEF Init, CountsInv, BeforeReading
    <2>5. /\ BegunInBlock /\ CountsBalance /\ PassesAgree /\ DroppedOnlyForIndented
          /\ CurrentIsOwn
      BY DEF Init, BegunInBlock, CountsBalance, PassesAgree, DroppedOnlyForIndented, CurrentIsOwn
    <2>6. FieldsAreOwn
      BY DEF Init, FieldsAreOwn
    <2>7. EveryCountHasCase /\ WellFormedAccepted
      BY DEF Init, EveryCountHasCase, WellFormedAccepted
    <2> QED BY <2>3, <2>4, <2>5, <2>6, <2>7 DEF IInv
  <1>2. IInv /\ [Next]_vars => IInv'
    <2>1. ASSUME IInv, Next PROVE IInv'
      <3>1. BeforeReading'
        BY <2>1 DEF IInv, BeforeReading, Next, CountLine, CheckCount, EndCase, SkipLine,
                    RefuseLine, SetField, CheckVerified, Reading
      <3> QED BY <2>1, <3>1, TypeStep, CountsStep, BegunStep, BalanceStep, AgreeStep,
                 DroppedStep,
                 CurrentStep, FieldsStep, HasCaseStep, AcceptedStep DEF IInv
    <2>2. ASSUME IInv, UNCHANGED vars PROVE IInv'
      <3> USE <2>2 DEF IInv, vars
      <3>1. TypeOK' /\ CountsInv' /\ BeforeReading'
        BY DEF TypeOK, CountsInv, BeforeReading, IsCount
      <3>2. /\ BegunInBlock' /\ CountsBalance' /\ PassesAgree' /\ DroppedOnlyForIndented'
        BY SameLines DEF BegunInBlock, CountsBalance, PassesAgree, DroppedOnlyForIndented,
                         Unindented, Reproduced, UpTo, Read, Begun
      <3>3. CurrentIsOwn' /\ FieldsAreOwn'
        BY DEF CurrentIsOwn, FieldsAreOwn, Last, Name, Start
      <3>4. EveryCountHasCase' /\ WellFormedAccepted'
        <4>1. WellFormed' = WellFormed /\ \A i : Name(i)' = Name(i)
          BY FileStays
        <4>2. \A b : BlockFrom(b)' = BlockFrom(b) /\ Twice(b)' = Twice(b)
          BY <4>1 DEF BlockFrom, Twice, Last
        <4>3. Begun' = Begun /\ Read' = Read
          BY DEF Begun, Read
        <4> QED BY <4>1, <4>2, <4>3 DEF EveryCountHasCase, WellFormedAccepted
      <3> QED BY <3>1, <3>2, <3>3, <3>4
    <2> QED BY <2>1, <2>2
  <1> QED BY <1>1, <1>2, PTL DEF Spec

(* The reader keeps the counted lines, the fields read so far and the cases *)
(* reproduced in their types, a number in every decimal field that is set.  *)
THEOREM TypeCorrect == Spec => []TypeOK
  <1>1. IInv => TypeOK
    BY DEF IInv
  <1> QED BY <1>1, Invariance, PTL

(* In every file that passes both the count of cases (main.rs:135-145) and  *)
(* the reproduction (main.rs:178-219) as many count lines overwrite another *)
(* as are indented and were not counted; without indented ones the cases    *)
(* reproduced are those counted, in order.                                  *)
THEOREM DroppedCorrect == Spec => []DroppedOnlyForIndented
  <1>1. IInv => DroppedOnlyForIndented
    BY DEF IInv
  <1> QED BY <1>1, Invariance, PTL

(* Every field a reproduced case was compared with is the last line of its  *)
(* name since the case before it ended (main.rs:185-193).                   *)
THEOREM OwnFieldsCorrect == Spec => []FieldsAreOwn
  <1>1. IInv => FieldsAreOwn
    BY DEF IInv
  <1> QED BY <1>1, Invariance, PTL

(* No well-formed response with the right number of cases is refused: the  *)
(* harness ends every case, the last one too, and finds its fields as the  *)
(* file has them (main.rs:185, 215-219).                                   *)
THEOREM AcceptedCorrect == Spec => []WellFormedAccepted
  <1>1. IInv => WellFormedAccepted
    BY DEF IInv
  <1> QED BY <1>1, Invariance, PTL

-----------------------------------------------------------------------------
(* The generator of the cases.  A byte counts for a power of ByteSize, and *)
(* one byte raised changes the number by its weight alone (OneByteChanged).*)
(* A carry under way is what Ahead accounts for, so that IncrementByte     *)
(* leaves the counter of the contract alone (CarryKeepsCounter).           *)

Numbers == INSTANCE Folding WITH Summand <- Nat, Neutral <- 0, Op <- +

(* What bytes count adds up. *)
LEMMA NumbersAddUp == Numbers!OpLaws
BY DEF Numbers!OpLaws

(* Remainders. *)
LEMMA ModSame == ASSUME NEW p \in Nat \ {0}, NEW x \in 0 .. p - 1 PROVE x % p = x
OBVIOUS

LEMMA ModBelow == ASSUME NEW p \in Nat \ {0}, NEW x \in 0 .. p - 1 PROVE (x - p) % p = x
OBVIOUS

LEMMA ModRange == ASSUME NEW p \in Nat \ {0}, NEW x \in Int PROVE x % p \in 0 .. p - 1
OBVIOUS

LEMMA ModUnique ==
  ASSUME NEW p \in Nat \ {0}, NEW q \in Int, NEW r \in 0 .. p - 1
  PROVE  (p * q + r) % p = r
OBVIOUS

(* A period less is the same remainder. *)
LEMMA ModShift == ASSUME NEW p \in Nat \ {0}, NEW x \in Int PROVE (x - p) % p = x % p
<1> DEFINE q == x \div p
           r == x - p * q
<1>1. q \in Int /\ r \in 0 .. p - 1
  OBVIOUS
<1>2. x = p * q + r /\ x - p = p * (q - 1) + r /\ q - 1 \in Int
  BY <1>1
<1> HIDE DEF q, r
<1> QED BY <1>1, <1>2, ModUnique

(* The last byte counts for one, each for ByteSize times the next. *)
LEMMA WeightFacts ==
  /\ \A i \in 1 .. Width : Weight(i) \in Nat \ {0}
  /\ Weight(Width) = 1
  /\ \A i \in 2 .. Width : Weight(i - 1) = ByteSize * Weight(i)
  /\ Period = ByteSize * Weight(1) /\ Period \in Nat \ {0}
<1>1. Width \in Nat \ {0} /\ ByteSize \in Nat \ {0}
  BY SizeAssumption
<1>2. \A i \in 1 .. Width : Width - i \in 0 .. Width - 1
  BY <1>1
<1>3. \A i \in 2 .. Width : (Width - i) + 1 = Width - (i - 1)
  BY <1>1
<1>4. (Width - 1) + 1 = Width /\ Width - Width = 0 /\ 1 \in 1 .. Width /\ Width \in 1 .. Width
  BY <1>1
<1>5. \A i \in 1 .. Width : Weight(i) \in Nat \ {0}
  BY <1>2, SizeAssumption DEF Weight
<1>6. \A i \in 2 .. Width : Weight(i - 1) = ByteSize * Weight(i)
  <2>1. SUFFICES ASSUME NEW i \in 2 .. Width PROVE Weight(i - 1) = ByteSize * Weight(i)
    OBVIOUS
  <2>2. i \in 1 .. Width /\ Width - i \in 0 .. Width - 1 /\ (Width - i) + 1 = Width - (i - 1)
    BY <1>1
  <2> QED BY <2>2, SizeAssumption DEF Weight
<1>7. Period = ByteSize * Weight(1)
  BY <1>2, <1>4, SizeAssumption DEF Weight, Period
<1>8. Weight(Width) = 1
  BY <1>4, SizeAssumption DEF Weight
<1>9. Period \in Nat \ {0}
  <2>1. Weight(1) \in Nat \ {0}
    BY <1>4, <1>5
  <2>2. \A a, b \in Nat \ {0} : a * b \in Nat \ {0}
    OBVIOUS
  <2> QED BY <1>1, <1>7, <2>1, <2>2
<1> QED BY <1>5, <1>6, <1>7, <1>8, <1>9

(* What each byte counts. *)
Counted(bytes) == [i \in 1 .. Width |-> bytes[i] * Weight(i)]
Bytes == [1 .. Width -> 0 .. ByteSize - 1]

LEMMA NumberFolds ==
  ASSUME NEW bytes
  PROVE  BigEndian(bytes) = Numbers!Fold(Counted(bytes), 1 .. Width)
BY DEF BigEndian, Counted, SumFunction, SumFunctionOnSet, FoldFunctionOnSet,
       MapThenFoldSet, Numbers!Fold, Numbers!FoldFunctionOnSet, Numbers!MapThenFoldSet

LEMMA CountedTyped ==
  ASSUME NEW bytes \in Bytes
  PROVE  \A i \in 1 .. Width : Counted(bytes)[i] \in Nat /\ bytes[i] \in 0 .. ByteSize - 1
<1>1. SUFFICES ASSUME NEW i \in 1 .. Width
               PROVE  Counted(bytes)[i] \in Nat /\ bytes[i] \in 0 .. ByteSize - 1
  OBVIOUS
<1>2. bytes[i] \in 0 .. ByteSize - 1
  BY DEF Bytes
<1>3. bytes[i] \in Nat /\ Weight(i) \in Nat
  BY <1>2, WeightFacts, SizeAssumption
<1>4. \A a, b \in Nat : a * b \in Nat
  OBVIOUS
<1> QED BY <1>2, <1>3, <1>4 DEF Counted

(* One byte changed: the others count what they did. *)
LEMMA OneByteChanged ==
  ASSUME NEW bytes \in Bytes, NEW p \in 1 .. Width,
         NEW v \in 0 .. ByteSize - 1
  PROVE  /\ [bytes EXCEPT ![p] = v] \in Bytes
         /\ \E rest \in Nat :
              /\ BigEndian(bytes) = bytes[p] * Weight(p) + rest
              /\ BigEndian([bytes EXCEPT ![p] = v]) = v * Weight(p) + rest
<1> DEFINE changed == [bytes EXCEPT ![p] = v]
           S == 1 .. Width
           R == S \ {p}
<1>1. changed \in Bytes
  BY DEF Bytes
<1>2. Numbers!IsFiniteSet(S)
  <2>1. 1 \in Int /\ Width \in Int
    BY SizeAssumption
  <2> QED BY <2>1, Numbers!FS_Interval
<1>3. Numbers!IsFiniteSet(R)
  BY <1>2, Numbers!FS_RemoveElement
<1>4. \A i \in R : Counted(bytes)[i] = Counted(changed)[i]
  BY DEF Counted, Bytes
<1>5. Counted(bytes)[p] = bytes[p] * Weight(p) /\ Counted(changed)[p] = v * Weight(p)
  BY DEF Counted, Bytes
<1>6. /\ \A i \in S : Counted(bytes)[i] \in Nat
      /\ \A i \in S : Counted(changed)[i] \in Nat
  BY <1>1, CountedTyped
<1>7. S = R \cup {p} /\ p \notin R /\ \A i \in R \cup {p} : i \in S
  OBVIOUS
<1> HIDE DEF changed, S, R
<1>8. Numbers!Fold(Counted(bytes), S) = Counted(bytes)[p] + Numbers!Fold(Counted(bytes), R)
  BY <1>3, <1>6, <1>7, NumbersAddUp, Numbers!FoldAdd
<1>9. Numbers!Fold(Counted(changed), S) = Counted(changed)[p] + Numbers!Fold(Counted(changed), R)
  BY <1>3, <1>6, <1>7, NumbersAddUp, Numbers!FoldAdd
<1>10. Numbers!Fold(Counted(bytes), R) = Numbers!Fold(Counted(changed), R)
  BY <1>3, <1>4, Numbers!FoldSame
<1>11. Numbers!Fold(Counted(bytes), R) \in Nat
  <2>1. \A i \in R : Counted(bytes)[i] \in Nat
    BY <1>6, <1>7
  <2> QED BY <1>3, <2>1, NumbersAddUp, Numbers!FoldTyped
<1>12. /\ BigEndian(bytes) = bytes[p] * Weight(p) + Numbers!Fold(Counted(bytes), R)
       /\ BigEndian(changed) = v * Weight(p) + Numbers!Fold(Counted(bytes), R)
  BY <1>5, <1>8, <1>9, <1>10, NumberFolds DEF S
<1> QED BY <1>1, <1>11, <1>12 DEF changed

(* The last n bytes stay below the weight of the one before them, and      *)
(* count nothing when they are zero.                                       *)
LEMMA LastBytes ==
  ASSUME NEW bytes \in Bytes
  PROVE  \A n \in Nat : n <= Width =>
           LET sum == Numbers!Fold(Counted(bytes), Width - n + 1 .. Width)
           IN sum \in Nat /\ sum < ByteSize ^ n
              /\ ((\A i \in 1 .. Width : bytes[i] = 0) => sum = 0)
<1> DEFINE Sum(n) == Numbers!Fold(Counted(bytes), Width - n + 1 .. Width)
           T == {n \in Nat : n <= Width =>
                   /\ Sum(n) \in Nat /\ Sum(n) < ByteSize ^ n
                   /\ (\A i \in 1 .. Width : bytes[i] = 0) => Sum(n) = 0}
<1>1. 0 \in T
  <2>1. Width - 0 + 1 .. Width = {}
    BY SizeAssumption
  <2>2. Sum(0) = 0
    BY <2>1, Numbers!FoldEmpty
  <2>3. 0 < ByteSize ^ 0
    BY SizeAssumption
  <2> QED BY <2>2, <2>3
<1>2. ASSUME NEW n \in Nat, n \in T PROVE n + 1 \in T
  <2>1. SUFFICES ASSUME n + 1 <= Width
                 PROVE  /\ Sum(n + 1) \in Nat /\ Sum(n + 1) < ByteSize ^ (n + 1)
                        /\ (\A i \in 1 .. Width : bytes[i] = 0) => Sum(n + 1) = 0
    OBVIOUS
  <2> DEFINE i == Width - n
             S == i + 1 .. Width
  <2>2. /\ i \in 1 .. Width /\ i \notin S /\ S \cup {i} \subseteq 1 .. Width
        /\ Width - (n + 1) + 1 .. Width = S \cup {i} /\ Width - n + 1 .. Width = S
        /\ Width - i = n /\ n \in 0 .. Width - 1 /\ i + 1 \in Int /\ Width \in Int
    BY <2>1, SizeAssumption
  <2> HIDE DEF i, S
  <2>3. Numbers!IsFiniteSet(S)
    BY <2>2, Numbers!FS_Interval DEF S
  <2>4. \A j \in S \cup {i} : Counted(bytes)[j] \in Nat
    BY <2>2, CountedTyped
  <2>5. Numbers!Fold(Counted(bytes), S \cup {i})
          = Counted(bytes)[i] + Numbers!Fold(Counted(bytes), S)
    BY <2>2, <2>3, <2>4, NumbersAddUp, Numbers!FoldAdd
  <2>6. /\ Numbers!Fold(Counted(bytes), S) \in Nat
        /\ Numbers!Fold(Counted(bytes), S) < ByteSize ^ n
        /\ (\A k \in 1 .. Width : bytes[k] = 0) => Numbers!Fold(Counted(bytes), S) = 0
    BY <1>2, <2>1, <2>2, SizeAssumption
  <2>7. /\ ByteSize ^ n \in Nat \ {0} /\ ByteSize ^ (n + 1) = ByteSize * ByteSize ^ n
        /\ ByteSize \in Nat
    BY <2>2, SizeAssumption
  <2>8. Counted(bytes)[i] = bytes[i] * ByteSize ^ n /\ bytes[i] \in 0 .. ByteSize - 1
    BY <2>2, CountedTyped DEF Counted, Weight
  <2> DEFINE w == ByteSize ^ n
             b == bytes[i]
             s == Numbers!Fold(Counted(bytes), S)
  <2>9. b * w + s < ByteSize * w /\ b * w \in Nat
    <3> HIDE DEF w, b, s
    <3>1. w \in Nat \ {0} /\ b \in 0 .. ByteSize - 1 /\ s \in Nat /\ s < w /\ ByteSize \in Nat
      BY <2>6, <2>7, <2>8 DEF w, b, s
    <3>2. \A x, y \in Nat : x * y \in Nat
      OBVIOUS
    <3>3. (ByteSize - 1 - b) * w \in Nat /\ b * w \in Nat
      BY <3>1, <3>2
    <3>4. (ByteSize - 1 - b) * w = ByteSize * w - w - b * w
      BY <3>1
    <3> QED BY <3>1, <3>3, <3>4
  <2>10. Sum(n + 1) = b * w + s
    BY <2>2, <2>5, <2>8
  <2>11. (\A k \in 1 .. Width : bytes[k] = 0) => b * w = 0 /\ s = 0
    BY <2>2, <2>6, <2>7
  <2> HIDE DEF Sum, b, w, s
  <2>12. s \in Nat /\ ByteSize ^ (n + 1) = ByteSize * w
    BY <2>6, <2>7 DEF s, w
  <2> QED BY <2>9, <2>10, <2>11, <2>12
<1>3. \A n \in Nat : n \in T
  <2> HIDE DEF T
  <2> QED BY <1>1, <1>2, Numbers!NatSetInduction
<1> QED BY <1>3

LEMMA NumberBounded ==
  ASSUME NEW bytes \in Bytes
  PROVE  /\ BigEndian(bytes) \in 0 .. Period - 1
         /\ (\A i \in 1 .. Width : bytes[i] = 0) => BigEndian(bytes) = 0
<1>1. Width \in Nat /\ Width <= Width /\ Width - Width + 1 .. Width = 1 .. Width
  BY SizeAssumption
<1> DEFINE s == Numbers!Fold(Counted(bytes), 1 .. Width)
<1>2. s \in Nat /\ s < ByteSize ^ Width /\ ((\A i \in 1 .. Width : bytes[i] = 0) => s = 0)
  BY <1>1, LastBytes
<1>3. BigEndian(bytes) = s
  BY NumberFolds
<1> HIDE DEF s
<1>4. Period \in Nat /\ Period = ByteSize ^ Width
  BY WeightFacts DEF Period
<1> QED BY <1>2, <1>3, <1>4

-----------------------------------------------------------------------------
(* The two variables of the contract. *)
Counter == (BigEndian(value) + Ahead) % Period
Owed == left + (IF caller = "generate" THEN Rekeying ELSE 0)

(* Types, and what each place in the code knows. *)
DrbgTyped ==
  /\ stage \in {"idle", "increment", "encrypt", "rekey"} /\ caller \in {"generate", "update"}
  /\ value \in Bytes /\ place \in 1 .. Width
  /\ left \in Nat /\ encrypted \in Seq(0 .. Period - 1)
  /\ IF stage \in {"increment", "encrypt"} THEN left > 0 ELSE left = 0 /\ caller = "update"
  /\ stage = "idle" => encrypted = <<>>
  /\ stage = "rekey" => encrypted # <<>>
  /\ stage # "increment" => place = Width

LEMMA AheadFacts ==
  ASSUME DrbgTyped
  PROVE  /\ stage = "increment" => Ahead = Weight(place) - 1
         /\ stage = "encrypt" => Ahead = -1
         /\ stage \in {"idle", "rekey"} => Ahead = 0
BY DEF Ahead, Weight, DrbgTyped

LEMMA CounterTyped ==
  ASSUME DrbgTyped
  PROVE  /\ BigEndian(value) \in 0 .. Period - 1 /\ Ahead \in Int
         /\ Counter \in 0 .. Period - 1 /\ Owed \in Nat
<1>1. BigEndian(value) \in 0 .. Period - 1 /\ Period \in Nat \ {0}
  BY NumberBounded, WeightFacts DEF DrbgTyped
<1>2. Weight(place) \in Nat
  BY WeightFacts DEF DrbgTyped
<1>3. Ahead \in Int
  BY <1>2, AheadFacts DEF DrbgTyped
<1>4. BigEndian(value) + Ahead \in Int
  BY <1>1, <1>3
<1>5. Owed \in Nat
  BY DEF Owed, DrbgTyped, Rekeying
<1> QED BY <1>1, <1>3, <1>4, <1>5, ModRange DEF Counter

LEMMA ContractInit == DrbgInit => DrbgTyped /\ Contract!Init
<1> SUFFICES ASSUME DrbgInit PROVE DrbgTyped /\ Contract!Init
  OBVIOUS
<1>1. value \in Bytes /\ \A i \in 1 .. Width : value[i] = 0
  BY SizeAssumption DEF DrbgInit, Bytes
<1>2. DrbgTyped
  BY <1>1, SizeAssumption DEF DrbgInit, DrbgTyped, Rekeying
<1>3. BigEndian(value) = 0 /\ Period \in Nat \ {0}
  BY <1>1, NumberBounded, WeightFacts
<1>4. Ahead = 0
  BY <1>2, AheadFacts, WeightFacts DEF DrbgInit
<1>5. (0 + 0) % Period = 0
  BY <1>3, ModSame
<1> QED BY <1>2, <1>3, <1>4, <1>5 DEF Contract!Init, DrbgInit, Rekeying

(* While a carry goes on the counter is what it will be. *)
LEMMA CarryKeepsCounter ==
  ASSUME DrbgTyped, IncrementByte
  PROVE  DrbgTyped' /\ Counter' = Counter
<1> DEFINE raised == value[place] + 1
           rest == raised % ByteSize
<1>1. /\ stage = "increment" /\ place \in 1 .. Width /\ value[place] \in 0 .. ByteSize - 1
      /\ ByteSize \in Nat \ {0} /\ Width \in Nat \ {0}
      /\ value \in Bytes
  BY SizeAssumption DEF DrbgTyped, Bytes, IncrementByte
<1>2. /\ raised < ByteSize => rest = raised
      /\ raised = ByteSize => rest = 0
      /\ raised < ByteSize \/ raised = ByteSize
      /\ rest \in 0 .. ByteSize - 1
  <2>1. (1 * ByteSize + 0) % ByteSize = 0
    BY <1>1
  <2> QED BY <1>1, <2>1
<1>3. value' = [value EXCEPT ![place] = rest]
  BY DEF IncrementByte
<1>4. /\ value' \in Bytes
      /\ \E n \in Nat : /\ BigEndian(value) = value[place] * Weight(place) + n
                        /\ BigEndian(value') = rest * Weight(place) + n
  <2> HIDE DEF rest
  <2> QED BY <1>1, <1>2, <1>3, OneByteChanged
<1>5. PICK n \in Nat : /\ BigEndian(value) = value[place] * Weight(place) + n
                       /\ BigEndian(value') = rest * Weight(place) + n
  BY <1>4
<1>6. DrbgTyped'
  BY <1>1, <1>4 DEF DrbgTyped, IncrementByte
<1> DEFINE w == Weight(place)
<1>7. /\ w \in Nat \ {0} /\ Period \in Nat \ {0} /\ Ahead = w - 1
      /\ place = 1 => Period = ByteSize * w
      /\ place > 1 => Weight(place - 1) = ByteSize * w
  BY <1>1, WeightFacts, AheadFacts
<1>8. CASE raised = ByteSize /\ place > 1
  <2>1. stage' = "increment" /\ place' = place - 1
    BY <1>1, <1>8 DEF IncrementByte
  <2>2. Ahead' = ByteSize * w - 1
    BY <1>7, <1>8, <2>1 DEF Ahead, Weight
  <2>3. BigEndian(value') = n /\ BigEndian(value) = ByteSize * w - w + n
    BY <1>1, <1>2, <1>5, <1>7, <1>8
  <2>4. BigEndian(value') + Ahead' = BigEndian(value) + Ahead
    BY <1>1, <1>7, <2>2, <2>3
  <2> QED BY <1>6, <2>4 DEF Counter
<1>9. CASE ~(raised = ByteSize /\ place > 1)
  <2>1. stage' = "encrypt" /\ Ahead' = -1
    BY <1>9 DEF IncrementByte, Ahead
  <2>2. CASE raised < ByteSize
    <3>1. BigEndian(value') = BigEndian(value) + w
      BY <1>1, <1>2, <1>5, <1>7, <2>2
    <3>2. BigEndian(value') + Ahead' = BigEndian(value) + Ahead
      BY <1>7, <2>1, <3>1, CounterTyped
    <3> QED BY <1>6, <3>2 DEF Counter
  <2>3. CASE raised = ByteSize
    <3>1. place = 1
      BY <1>1, <1>9, <2>3
    <3>2. BigEndian(value') = n /\ BigEndian(value) = ByteSize * w - w + n
      BY <1>1, <1>2, <1>5, <1>7, <2>3
    <3> DEFINE x == BigEndian(value) + Ahead
    <3>3. BigEndian(value') + Ahead' = x - Period /\ x \in Int
      BY <1>1, <1>7, <2>1, <3>1, <3>2
    <3>4. (x - Period) % Period = x % Period
      <4> HIDE DEF x
      <4> QED BY <1>7, <3>3, ModShift
    <3> QED BY <1>6, <3>3, <3>4 DEF Counter
  <2> QED BY <1>2, <2>2, <2>3
<1> QED BY <1>8, <1>9

(* A block less is owed, whoever asked for it. *)
LEMMA ProceedOwes ==
  ASSUME DrbgTyped, left > 0, Proceed(left - 1)
  PROVE  /\ stage' \in {"increment", "rekey"} /\ caller' \in {"generate", "update"}
         /\ left' \in Nat
         /\ IF stage' = "increment" THEN left' > 0 ELSE left' = 0 /\ caller' = "update"
         /\ Owed' = Owed - 1
BY DEF DrbgTyped, Proceed, Owed, Rekeying

(* One block: the counter has moved on by one. *)
LEMMA DrawStep ==
  ASSUME DrbgTyped, EncryptBlock
  PROVE  DrbgTyped' /\ Contract!Draw
<1> DEFINE n == BigEndian(value)
           p == Period
<1>1. /\ stage = "encrypt" /\ place = Width /\ left > 0 /\ encrypted \in Seq(0 .. p - 1)
      /\ value' = value /\ place' = place /\ encrypted' = Append(encrypted, n)
      /\ Proceed(left - 1)
  BY DEF DrbgTyped, EncryptBlock
<1>2. n \in 0 .. p - 1 /\ p \in Nat \ {0} /\ Owed \in Nat
  BY NumberBounded, WeightFacts, CounterTyped DEF DrbgTyped
<1>3. encrypted' \in Seq(0 .. p - 1) /\ encrypted' # <<>>
  BY <1>1, <1>2
<1>4. DrbgTyped'
  <2>1. p' = p
    BY DEF Period
  <2> HIDE DEF p
  <2>2. Period' = Period
    BY DEF Period
  <2> QED BY <1>1, <1>3, <2>2, ProceedOwes DEF DrbgTyped, p
<1>5. Ahead = -1 /\ Ahead' = 0
  <2>1. Ahead = -1
    BY <1>1, AheadFacts
  <2>2. stage' \in {"increment", "rekey"}
    BY <1>1, ProceedOwes
  <2>3. Weight(Width) = 1
    BY WeightFacts
  <2>4. Ahead' = 0
    BY <1>1, <2>2, <2>3 DEF Ahead, Weight
  <2> QED BY <2>1, <2>4
<1>6. Counter' = n /\ Counter = (n - 1) % p
  <2>1. BigEndian(value') = n /\ n + 0 = n /\ n + (-1) = n - 1
    BY <1>1, <1>2
  <2>2. n % p = n
    <3> HIDE DEF n, p
    <3> QED BY <1>2, ModSame
  <2> QED BY <1>5, <2>1, <2>2 DEF Counter
<1>7. (Counter + 1) % p = n
  <2> HIDE DEF n, p
  <2>1. CASE n = 0
    <3>1. n - 1 = (p - 1) - p /\ p - 1 \in 0 .. p - 1
      BY <1>2, <2>1
    <3>2. Counter = p - 1
      BY <1>2, <1>6, <3>1, ModBelow
    <3>3. (p * 1 + 0) % p = 0
      BY <1>2, ModUnique
    <3> QED BY <1>2, <2>1, <3>2, <3>3
  <2>2. CASE n # 0
    <3>1. Counter = n - 1
      BY <1>2, <1>6, <2>2, ModSame
    <3> QED BY <1>2, <3>1, ModSame
  <2> QED BY <2>1, <2>2
<1>8. Owed > 0 /\ Owed' = Owed - 1
  BY <1>1, ProceedOwes DEF Owed, Rekeying, DrbgTyped
<1>9. Counter' = (Counter + 1) % p /\ encrypted' = Append(encrypted, Counter')
  BY <1>1, <1>6, <1>7
<1> QED BY <1>4, <1>8, <1>9 DEF Contract!Draw, Counter, Owed

LEMMA AskStep ==
  ASSUME DrbgTyped, Generate
  PROVE  DrbgTyped' /\ Contract!Ask
<1>1. /\ stage = "idle" /\ place = Width /\ left = 0 /\ caller = "update" /\ encrypted = <<>>
      /\ value' = value /\ place' = place /\ encrypted' = encrypted /\ stage' = "increment"
  BY DEF DrbgTyped, Generate
<1>2. PICK n \in Request :
        IF n > 0 THEN caller' = "generate" /\ left' = n
                 ELSE caller' = "update" /\ left' = Rekeying
  BY DEF Generate
<1>3. n \in Nat
  BY RequestAssumption
<1>4. DrbgTyped'
  <2>1. Period' = Period
    BY DEF Period
  <2> QED BY <1>1, <1>2, <1>3, <2>1 DEF DrbgTyped, Rekeying
<1>5. Owed = 0 /\ Owed' = n + Rekeying
  BY <1>1, <1>2, <1>3 DEF Owed, Rekeying
<1>6. Counter' = Counter
  <2>1. Ahead = 0
    BY <1>1, AheadFacts
  <2>2. Weight(Width) = 1
    BY WeightFacts
  <2>3. Ahead' = 0
    BY <1>1, <2>2 DEF Ahead, Weight
  <2> QED BY <1>1, <2>1, <2>3 DEF Counter
<1> QED BY <1>1, <1>4, <1>5, <1>6 DEF Contract!Ask, Counter, Owed

LEMMA RekeyStep ==
  ASSUME DrbgTyped, Rekey
  PROVE  DrbgTyped' /\ Contract!Rekey
<1>1. /\ stage = "rekey" /\ left = 0 /\ caller = "update" /\ encrypted # <<>>
      /\ stage' = "idle" /\ value' \in Bytes /\ place' = place /\ left' = left
      /\ caller' = caller /\ encrypted' = <<>> /\ place = Width
  BY DEF DrbgTyped, Rekey, Bytes
<1>2. DrbgTyped'
  <2>1. Period' = Period
    BY DEF Period
  <2> QED BY <1>1, <2>1 DEF DrbgTyped
<1>3. Owed = 0 /\ Owed' = Owed
  BY <1>1 DEF Owed
<1>4. Counter' \in 0 .. Period - 1
  <2>1. BigEndian(value') \in 0 .. Period - 1 /\ Period \in Nat \ {0}
    BY <1>1, NumberBounded, WeightFacts
  <2>2. Ahead' = 0
    BY <1>1 DEF Ahead
  <2>3. Counter' = (BigEndian(value') + 0) % Period
    BY <2>2 DEF Counter, Period
  <2>4. BigEndian(value') + 0 \in Int
    BY <2>1
  <2> HIDE DEF Counter
  <2> QED BY <2>1, <2>3, <2>4, ModRange
<1> QED BY <1>1, <1>2, <1>3, <1>4 DEF Contract!Rekey, Counter, Owed

LEMMA ContractStep ==
  ASSUME DrbgTyped, [DrbgNext]_(drbgVars)
  PROVE  DrbgTyped' /\ [Contract!Next]_(Contract!vars)
<1>1. CASE Generate
  BY <1>1, AskStep DEF Contract!Next
<1>2. CASE IncrementByte
  <2>1. DrbgTyped' /\ Counter' = Counter
    BY <1>2, CarryKeepsCounter
  <2>2. Owed' = Owed /\ encrypted' = encrypted
    BY <1>2 DEF IncrementByte, Owed
  <2> QED BY <2>1, <2>2 DEF Contract!vars, Counter, Owed
<1>3. CASE EncryptBlock
  BY <1>3, DrawStep DEF Contract!Next
<1>4. CASE Rekey
  BY <1>4, RekeyStep DEF Contract!Next
<1>5. CASE UNCHANGED drbgVars
  <2>1. UNCHANGED <<stage, caller, value, place, left, encrypted>>
    BY <1>5 DEF drbgVars
  <2>2. Counter' = Counter /\ Owed' = Owed
    BY <2>1 DEF Counter, Owed, Ahead
  <2>3. Period' = Period
    BY DEF Period
  <2>4. DrbgTyped'
    BY <2>1, <2>3 DEF DrbgTyped
  <2> QED BY <2>1, <2>2, <2>4 DEF Contract!vars, Counter, Owed
<1> QED BY <1>1, <1>2, <1>3, <1>4, <1>5 DEF DrbgNext

-----------------------------------------------------------------------------
(* The numbers encrypted so far end with the counter and follow each other *)
(* around the period, which is long enough for those still owed.           *)
Consecutive ==
  /\ Len(encrypted) + Owed <= Period
  /\ \A i \in 1 .. Len(encrypted) :
       LET d == Counter - (Len(encrypted) - i)
       IN encrypted[i] = IF d >= 0 THEN d ELSE d + Period

LEMMA ConsecutiveInit == ASSUME DrbgInit PROVE Consecutive
<1>1. encrypted = <<>> /\ Owed = Rekeying /\ Len(encrypted) = 0
  BY DEF DrbgInit, Owed, Rekeying
<1>2. Rekeying <= Period /\ Rekeying \in Nat
  BY RequestAssumption DEF Rekeying
<1> QED BY <1>1, <1>2 DEF Consecutive

LEMMA ConsecutiveDraw ==
  ASSUME DrbgTyped, Consecutive, Contract!Draw
  PROVE  Consecutive'
<1> DEFINE p == Period
           n == Len(encrypted)
           c == Counter
           e == IF c + 1 = p THEN 0 ELSE c + 1
<1>1. p \in Nat \ {0} /\ c \in 0 .. p - 1 /\ Owed \in Nat /\ n \in Nat /\ n + Owed <= p
  BY WeightFacts, CounterTyped DEF DrbgTyped, Consecutive
<1>2. Owed > 0 /\ Owed' = Owed - 1 /\ Counter' = (c + 1) % p /\ encrypted' = Append(encrypted, Counter')
  BY DEF Contract!Draw, Counter, Owed
<1>3. Counter' = e
  <2> HIDE DEF p, c
  <2>1. CASE c + 1 = p
    <3>1. (p * 1 + 0) % p = 0
      BY <1>1, ModUnique
    <3> QED BY <1>1, <1>2, <2>1, <3>1
  <2>2. CASE c + 1 # p
    BY <1>1, <1>2, <2>2, ModSame
  <2> QED BY <2>1, <2>2
<1>4. encrypted \in Seq(0 .. p - 1) /\ \A i \in 1 .. n :
        encrypted[i] = IF c - (n - i) >= 0 THEN c - (n - i) ELSE c - (n - i) + p
  BY DEF DrbgTyped, Consecutive
<1>5. /\ Len(encrypted') = n + 1 /\ encrypted'[n + 1] = e
      /\ \A i \in 1 .. n : encrypted'[i] = encrypted[i]
  <2>1. e \in 0 .. p - 1
    BY <1>1
  <2> HIDE DEF p, e
  <2> QED BY <1>2, <1>3, <1>4, <2>1
<1> HIDE DEF p, n, c, e
<1>6. \A i \in 1 .. n + 1 :
        encrypted'[i] = IF e - (n + 1 - i) >= 0 THEN e - (n + 1 - i) ELSE e - (n + 1 - i) + p
  <2>1. SUFFICES ASSUME NEW i \in 1 .. n + 1
                 PROVE  encrypted'[i] = IF e - (n + 1 - i) >= 0 THEN e - (n + 1 - i)
                                        ELSE e - (n + 1 - i) + p
    OBVIOUS
  <2>2. CASE i = n + 1
    BY <1>1, <1>5, <2>2 DEF e
  <2>3. CASE i \in 1 .. n
    <3>1. encrypted'[i] = IF c - (n - i) >= 0 THEN c - (n - i) ELSE c - (n - i) + p
      BY <1>4, <1>5, <2>3
    <3>2. CASE c + 1 = p
      <4>1. e = 0
        BY <3>2 DEF e
      <4>2. i \in Int /\ 1 <= i /\ i <= n /\ n <= p
        BY <1>1, <2>3
      <4>3. encrypted'[i] = p - 1 - n + i
        BY <1>1, <3>1, <3>2, <4>2
      <4> QED BY <1>1, <4>1, <4>2, <4>3
    <3>3. CASE c + 1 # p
      BY <1>1, <2>3, <3>1, <3>3 DEF e
    <3> QED BY <3>2, <3>3
  <2> QED BY <1>1, <2>1, <2>2, <2>3
<1>7. Len(encrypted') + Owed' <= p
  BY <1>1, <1>2, <1>5
<1>8. Period' = p
  BY DEF Period, p
<1>9. Consecutive' <=>
        /\ Len(encrypted') + Owed' <= p
        /\ \A i \in 1 .. Len(encrypted') :
             encrypted'[i] = IF Counter' - (Len(encrypted') - i) >= 0
                             THEN Counter' - (Len(encrypted') - i)
                             ELSE Counter' - (Len(encrypted') - i) + p
  BY <1>8 DEF Consecutive
<1>10. \A i \in 1 .. Len(encrypted') :
             encrypted'[i] = IF Counter' - (Len(encrypted') - i) >= 0
                             THEN Counter' - (Len(encrypted') - i)
                             ELSE Counter' - (Len(encrypted') - i) + p
  <2> DEFINE m == Len(encrypted')
             d == Counter'
  <2>1. m = n + 1 /\ d = e /\ n \in Int /\ p \in Int /\ e \in Int
    BY <1>1, <1>3, <1>5 DEF e
  <2> HIDE DEF m, d
  <2>2. \A i \in 1 .. m : encrypted'[i] = IF d - (m - i) >= 0 THEN d - (m - i)
                                         ELSE d - (m - i) + p
    BY <1>6, <2>1
  <2> QED BY <2>2 DEF m, d
<1> QED BY <1>7, <1>9, <1>10

LEMMA ConsecutiveStep ==
  ASSUME DrbgTyped, Consecutive, [Contract!Next]_(Contract!vars)
  PROVE  Consecutive'
<1>0. Period' = Period /\ Rekeying' = Rekeying
  BY DEF Period, Rekeying
<1>1. CASE Contract!Ask
  <2>1. encrypted' = <<>> /\ Len(encrypted') = 0
    BY <1>1 DEF Contract!Ask
  <2>2. \E n \in Request : Owed' = n + Rekeying
    BY <1>1 DEF Contract!Ask, Owed
  <2>3. Owed' <= Period /\ Owed' \in Nat
    BY <2>2, RequestAssumption DEF Rekeying
  <2> QED BY <1>0, <2>1, <2>3 DEF Consecutive
<1>2. CASE Contract!Draw
  BY <1>2, ConsecutiveDraw
<1>3. CASE Contract!Rekey
  <2>1. encrypted' = <<>> /\ Len(encrypted') = 0 /\ Owed = 0 /\ Owed' = Owed
    BY <1>3 DEF Contract!Rekey, Owed
  <2>2. Period \in Nat
    BY WeightFacts
  <2> QED BY <1>0, <2>1, <2>2 DEF Consecutive
<1>4. CASE UNCHANGED Contract!vars
  <2>1. Counter' = Counter /\ Owed' = Owed /\ encrypted' = encrypted
    BY <1>4 DEF Contract!vars, Counter, Owed
  <2> QED BY <1>0, <2>1 DEF Consecutive
<1> QED BY <1>1, <1>2, <1>3, <1>4 DEF Contract!Next

(* No number comes up twice on less than a turn. *)
LEMMA ConsecutiveDiffer ==
  ASSUME DrbgTyped, Consecutive PROVE NoCounterTwice
<1> DEFINE p == Period
           n == Len(encrypted)
           c == Counter
<1>1. p \in Nat \ {0} /\ c \in 0 .. p - 1 /\ Owed \in Nat /\ n \in Nat /\ n + Owed <= p
  BY WeightFacts, CounterTyped DEF DrbgTyped, Consecutive
<1>2. \A i \in 1 .. n :
        encrypted[i] = IF c - (n - i) >= 0 THEN c - (n - i) ELSE c - (n - i) + p
  BY DEF Consecutive
<1> HIDE DEF p, c
<1>3. SUFFICES ASSUME NEW i \in 1 .. n, NEW j \in 1 .. n, encrypted[i] = encrypted[j] PROVE i = j
  BY DEF NoCounterTwice
<1> HIDE DEF n
<1> QED BY <1>1, <1>2, <1>3

-----------------------------------------------------------------------------
(* Byte-wise increments are additions, and a request's blocks come with    *)
(* the three of its update before the key changes (main.rs:355-392): the   *)
(* generator implements CounterContract.                                   *)
THEOREM CounterCorrect == DrbgSpec => ContractSpec
<1>1. DrbgInit => DrbgTyped /\ Contract!Init
  BY ContractInit
<1>2. DrbgTyped /\ [DrbgNext]_(drbgVars) => DrbgTyped' /\ [Contract!Next]_(Contract!vars)
  BY ContractStep
<1> QED BY <1>1, <1>2, PTL DEF DrbgSpec, ContractSpec, Contract!Spec

(* No counter is encrypted twice under one key (main.rs:355).              *)
THEOREM CountersDiffer == DrbgSpec => []NoCounterTwice
<1>1. DrbgInit => DrbgTyped /\ Consecutive
  BY ContractInit, ConsecutiveInit
<1>2. DrbgTyped /\ Consecutive /\ [DrbgNext]_(drbgVars) => DrbgTyped' /\ Consecutive'
  BY ContractStep, ConsecutiveStep
<1>3. DrbgTyped /\ Consecutive => NoCounterTwice
  BY ConsecutiveDiffer
<1> QED BY <1>1, <1>2, <1>3, PTL DEF DrbgSpec

-----------------------------------------------------------------------------
(* The layouts.                                                            *)

(* Buffers. *)
IsBuffer(b, n) == b = [i \in 0 .. n - 1 |-> b[i]]

(* The n bytes are in the buffer from first on. *)
Holds(b, first, n, bytes) == \A i \in 0 .. n - 1 : b[first + i] = bytes[i]

LEMMA NotPanicked ==
  ASSUME NEW n \in Nat \ {0}, NEW b, IsBuffer(b, n) PROVE b # Panicked
<1>1. DOMAIN b = 0 .. n - 1
  BY DEF IsBuffer
<1>2. 0 \in DOMAIN b
  BY <1>1
<1> QED BY <1>2 DEF Panicked

(* What is written is there, and what was elsewhere still is. *)
LEMMA WriteHolds ==
  ASSUME NEW n \in Nat, NEW b, IsBuffer(b, n), NEW first \in Nat, NEW last \in Nat, NEW m \in Nat,
         last = first + m, last <= n, NEW bytes, DOMAIN bytes = 0 .. m - 1
  PROVE  /\ IsBuffer(Write(b, first, last, bytes), n)
         /\ Holds(Write(b, first, last, bytes), first, m, bytes)
         /\ \A at, k \in Nat : \A others :
              /\ at + k <= n /\ (at + k <= first \/ last <= at)
              /\ Holds(b, at, k, others)
              => Holds(Write(b, first, last, bytes), at, k, others)
<1> DEFINE w == Write(b, first, last, bytes)
<1>1. DOMAIN b = 0 .. n - 1
  BY DEF IsBuffer
<1>2. /\ IsBuffer(w, n)
      /\ \A i \in 0 .. n - 1 : w[i] = IF i \in first .. last - 1 THEN bytes[i - first] ELSE b[i]
  <2>1. /\ first <= last /\ first .. last - 1 \subseteq DOMAIN b
        /\ DOMAIN bytes = 0 .. last - first - 1
    BY <1>1
  <2>2. w = [i \in 0 .. n - 1 |-> IF i \in first .. last - 1 THEN bytes[i - first] ELSE b[i]]
    BY <1>1, <2>1 DEF Write
  <2> QED BY <2>2 DEF IsBuffer
<1> HIDE DEF w
<1>3. Holds(w, first, m, bytes)
  <2>1. SUFFICES ASSUME NEW i \in 0 .. m - 1 PROVE w[first + i] = bytes[i]
    BY DEF Holds
  <2>2. first + i \in 0 .. n - 1 /\ first + i \in first .. last - 1 /\ (first + i) - first = i
    OBVIOUS
  <2> QED BY <1>2, <2>2
<1>4. ASSUME NEW at \in Nat, NEW k \in Nat, NEW others, at + k <= n,
             at + k <= first \/ last <= at, Holds(b, at, k, others)
      PROVE  Holds(w, at, k, others)
  <2>1. SUFFICES ASSUME NEW i \in 0 .. k - 1 PROVE w[at + i] = others[i]
    BY DEF Holds
  <2>2. at + i \in 0 .. n - 1 /\ at + i \notin first .. last - 1
    BY <1>4
  <2>3. b[at + i] = others[i]
    BY <1>4 DEF Holds
  <2> QED BY <1>2, <2>2, <2>3
<1> QED BY <1>2, <1>3, <1>4 DEF w

LEMMA SliceHolds ==
  ASSUME NEW n \in Nat, NEW b, IsBuffer(b, n), NEW first \in Nat, NEW last \in Nat, NEW m \in Nat,
         last = first + m, last <= n, NEW bytes, IsBuffer(bytes, m), Holds(b, first, m, bytes)
  PROVE  Slice(b, first, last) = bytes
<1>1. Slice(b, first, last) = [i \in 0 .. m - 1 |-> b[first + i]]
  <2>1. DOMAIN b = 0 .. n - 1
    BY DEF IsBuffer
  <2>2. first .. last - 1 \subseteq 0 .. n - 1 /\ first <= last /\ last - first - 1 = m - 1
    OBVIOUS
  <2> QED BY <2>1, <2>2 DEF Slice
<1>2. [i \in 0 .. m - 1 |-> b[first + i]] = [i \in 0 .. m - 1 |-> bytes[i]]
  BY DEF Holds
<1> QED BY <1>1, <1>2 DEF IsBuffer

(* A slice holds what the buffer holds within it. *)
LEMMA SliceKeeps ==
  ASSUME NEW n \in Nat, NEW b, IsBuffer(b, n), NEW first \in Nat, NEW last \in Nat, NEW m \in Nat,
         last = first + m, last <= n
  PROVE  /\ IsBuffer(Slice(b, first, last), m)
         /\ \A at, k \in Nat : \A bytes :
              at + k <= m /\ Holds(b, first + at, k, bytes) => Holds(Slice(b, first, last), at, k, bytes)
<1> DEFINE s == Slice(b, first, last)
<1>1. s = [i \in 0 .. m - 1 |-> b[first + i]]
  <2>1. DOMAIN b = 0 .. n - 1
    BY DEF IsBuffer
  <2>2. first .. last - 1 \subseteq 0 .. n - 1 /\ first <= last /\ last - first - 1 = m - 1
    OBVIOUS
  <2> QED BY <2>1, <2>2 DEF Slice
<1> HIDE DEF s
<1>2. IsBuffer(s, m)
  BY <1>1 DEF IsBuffer
<1>3. ASSUME NEW at \in Nat, NEW k \in Nat, NEW bytes, at + k <= m, Holds(b, first + at, k, bytes)
      PROVE  Holds(s, at, k, bytes)
  <2>1. SUFFICES ASSUME NEW i \in 0 .. k - 1 PROVE s[at + i] = bytes[i]
    BY DEF Holds
  <2>2. at + i \in 0 .. m - 1 /\ first + (at + i) = (first + at) + i
    BY <1>3
  <2>3. s[at + i] = b[first + (at + i)]
    BY <1>1, <2>2
  <2>4. b[(first + at) + i] = bytes[i]
    BY <1>3 DEF Holds
  <2> QED BY <2>2, <2>3, <2>4
<1> QED BY <1>2, <1>3 DEF s

LEMMA PieceFacts ==
  ASSUME NEW name, NEW number, NEW n \in Nat
  PROVE  IsBuffer(Piece(name, number, n), n) /\ DOMAIN Piece(name, number, n) = 0 .. n - 1
BY DEF IsBuffer, Piece

LEMMA ZerosFacts == ASSUME NEW n \in Nat PROVE IsBuffer(Zeros(n), n)
BY DEF IsBuffer, Zeros

-----------------------------------------------------------------------------
(* Sizes and offsets. *)

(* Block t of count blocks of a size ends before the end, and before or    *)
(* after any other block.                                                  *)
LEMMA BlockFits ==
  ASSUME NEW count \in Nat, NEW size \in Nat, NEW t \in 0 .. count - 1
  PROVE  t * size \in Nat /\ t * size + size <= count * size
<1>1. \A a, b \in Nat : a * b \in Nat
  OBVIOUS
<1>2. (count - 1 - t) * size \in Nat /\ t * size \in Nat
  BY <1>1
<1>3. (count - 1 - t) * size = count * size - size - t * size
  OBVIOUS
<1> QED BY <1>1, <1>2, <1>3

LEMMA BlocksApart ==
  ASSUME NEW size \in Nat, NEW t \in Nat, NEW u \in Nat, t < u
  PROVE  t * size + size <= u * size
<1>1. t \in 0 .. u - 1
  OBVIOUS
<1> QED BY <1>1, BlockFits

LEMMA ProductTyped == \A a, b \in Nat : a * b \in Nat
OBVIOUS

LEMMA SizeFacts ==
  /\ SeedSize \in Nat \ {0} /\ SaltSize \in Nat \ {0} /\ DigestSize \in Nat \ {0}
  /\ MqN \in Nat \ {0} /\ EquationCount \in Nat \ {0} /\ Tau \in Nat \ {0} /\ Eta \in Nat \ {0}
  /\ NbEvalsLog \in Nat \ {0}
  /\ VectorSize \in Nat \ {0} /\ MqN = 2 * VectorSize /\ Required = VectorSize
  /\ VectorSize = SeedSize + PartialDeltaSize /\ PartialDeltaSize \in Nat
  /\ EncodedLen = 2 /\ NonceSize = 4
  /\ KeygenSeedSize = 2 * SeedSize
  /\ PublicKeySize \in Nat \ {0} /\ PublicKeySize = KeygenSeedSize + EquationCount * 2
  /\ SecretKeySize \in Nat \ {0} /\ SecretKeySize = PublicKeySize + VectorSize
<1>1. /\ SeedSize \in Nat \ {0} /\ SaltSize \in Nat \ {0} /\ DigestSize \in Nat \ {0}
      /\ MqN \in Nat \ {0} /\ EquationCount \in Nat \ {0} /\ Tau \in Nat \ {0} /\ Eta \in Nat \ {0}
      /\ NbEvalsLog \in Nat \ {0} /\ MqN % 2 = 0 /\ SeedSize <= MqN \div 2
  BY ParamsAssumption
<1>2. /\ VectorSize = MqN \div 2 /\ Required = MqN \div 2 /\ MqN = 2 * (MqN \div 2)
      /\ MqN \div 2 \in Nat \ {0}
  BY <1>1 DEF VectorSize, Required
<1>3. EncodedLen = 2 /\ NonceSize = 4 /\ KeygenSeedSize = 2 * SeedSize
  BY DEF EncodedLen, NonceSize, KeygenSeedSize
<1>4. PublicKeySize \in Nat \ {0} /\ PublicKeySize = KeygenSeedSize + EquationCount * 2
  BY <1>1, <1>3 DEF PublicKeySize
<1>5. SecretKeySize \in Nat \ {0} /\ SecretKeySize = PublicKeySize + VectorSize
  BY <1>2, <1>4 DEF SecretKeySize
<1>6. VectorSize = SeedSize + PartialDeltaSize /\ PartialDeltaSize \in Nat
  BY <1>1, <1>2 DEF PartialDeltaSize
<1> QED BY <1>1, <1>2, <1>3, <1>4, <1>5, <1>6

(* The signature, piece after piece, and the opening inside it. *)
LEMMA OffsetFacts ==
  /\ PathSize \in Nat \ {0} /\ Tau * Eta \in Nat \ {0}
  /\ PathsSize = Tau * PathSize /\ PathsSize \in Nat
  /\ Tau * DigestSize \in Nat \ {0} /\ Tau * PartialDeltaSize \in Nat
  /\ PartialDeltasOffset = PathsSize + Tau * DigestSize /\ PartialDeltasOffset \in Nat
  /\ OpeningSize = PartialDeltasOffset + Tau * PartialDeltaSize /\ OpeningSize \in Nat \ {0}
  /\ FirstOffset = SaltSize /\ SecondOffset = SaltSize + DigestSize
  /\ AlphaOneOffset = SaltSize + 2 * DigestSize
  /\ OpeningOffset = AlphaOneOffset + 2 * (Tau * Eta)
  /\ NonceOffset = OpeningOffset + OpeningSize
  /\ SignatureSize = NonceOffset + 4 /\ SignatureSize \in Nat \ {0}
<1>1. \A a, b \in Nat \ {0} : a * b \in Nat \ {0}
  OBVIOUS
<1>2. PathSize \in Nat \ {0} /\ Tau * Eta \in Nat \ {0} /\ Tau * DigestSize \in Nat \ {0}
  BY <1>1, SizeFacts DEF PathSize
<1>3. PathsSize = Tau * PathSize /\ PathsSize \in Nat
  BY <1>1, <1>2, SizeFacts DEF PathsSize
<1>4. Tau * PartialDeltaSize \in Nat
  BY SizeFacts, ProductTyped
<1>5. PartialDeltasOffset = PathsSize + Tau * DigestSize /\ PartialDeltasOffset \in Nat
  BY <1>2, <1>3 DEF PartialDeltasOffset
<1>6. OpeningSize = Tau * PartialDeltaSize + Tau * PathSize + Tau * DigestSize
  <2>1. \A t, a, b, c \in Nat : t * (a + b + c) = t * a + t * b + t * c
    OBVIOUS
  <2> QED BY <1>2, <2>1, SizeFacts DEF OpeningSize
<1>7. OpeningSize = PartialDeltasOffset + Tau * PartialDeltaSize /\ OpeningSize \in Nat \ {0}
  BY <1>2, <1>3, <1>4, <1>5, <1>6
<1>8. AlphaOneSize = 2 * (Tau * Eta)
  BY <1>2, SizeFacts DEF AlphaOneSize
<1>9. /\ FirstOffset = SaltSize /\ SecondOffset = SaltSize + DigestSize
      /\ AlphaOneOffset = SaltSize + 2 * DigestSize
      /\ OpeningOffset = AlphaOneOffset + 2 * (Tau * Eta)
  BY <1>2, <1>8, SizeFacts DEF FirstOffset, SecondOffset, AlphaOneOffset, OpeningOffset
<1>10. SignatureSize = 4 + 2 * (Tau * Eta) + SaltSize + 2 * DigestSize + OpeningSize
  BY <1>8, SizeFacts DEF SignatureSize
<1>11. /\ NonceOffset = OpeningOffset + OpeningSize
       /\ SignatureSize = NonceOffset + 4 /\ SignatureSize \in Nat \ {0}
  BY <1>2, <1>7, <1>9, <1>10, SizeFacts DEF NonceOffset
<1> QED BY <1>2, <1>3, <1>4, <1>5, <1>7, <1>9, <1>11

-----------------------------------------------------------------------------
Sent == {"import signature", "parse", "parsed"}
FromOpen == {"open"} \cup Sent
FromAlpha == {"alpha"} \cup FromOpen
FromHeader == {"header"} \cup FromAlpha
(* Where the opening of an execution lies. *)
PathAt(e) == e * PathSize
HiddenAt(e) == PathsSize + e * DigestSize
PartialAt(e) == PartialDeltasOffset + e * PartialDeltaSize

(* Coefficients in a signature. *)
AlphaCount == Tau * Eta

BeforeAlpha == {"seed", "output", "import key", "unpack", "pack", "header"}

Buffers ==
  /\ IsBuffer(publicKey, PublicKeySize) /\ IsBuffer(secretKey, SecretKeySize)
  /\ IsBuffer(secret, MqN) /\ IsBuffer(serialized, VectorSize)
  /\ IsBuffer(signature, SignatureSize) /\ IsBuffer(opening, OpeningSize)

Control ==
  /\ phase \in BeforeAlpha \cup FromAlpha \cup {"refused"}
  /\ round \in Nat
  /\ phase = "output" => round <= EquationCount
  /\ phase \in {"unpack", "pack"} => round <= MqN
  /\ phase = "alpha" => round <= AlphaCount
  /\ phase = "open" => round <= Tau
  /\ phase \notin {"output", "unpack", "pack", "alpha", "open"} => round = 0
  /\ phase \in BeforeAlpha => alphaOffset = AlphaOneOffset
  /\ phase = "alpha" => alphaOffset = AlphaOneOffset + 2 * round

SeedHeld == Holds(publicKey, 0, KeygenSeedSize, Piece("seed", 0, KeygenSeedSize))
OutputHeld(q) == Holds(publicKey, KeygenSeedSize + 2 * q, 2, Piece("output", q, 2))

KeyWritten ==
  /\ phase # "seed" => SeedHeld
  /\ \A q \in 0 .. EquationCount - 1 :
       phase # "seed" /\ (phase = "output" => q < round) => OutputHeld(q)
  /\ phase \notin {"seed", "output"} =>
       Holds(secretKey, 0, PublicKeySize, publicKey) /\ Holds(secretKey, PublicKeySize, VectorSize, Vector)

(* The nibble of element k, when the elements below r have been packed. *)
Half(k, r) == IF k < r THEN {k} ELSE {}

VectorKept ==
  /\ phase = "unpack" => \A i \in 0 .. MqN - 1 : i < round => secret[i] = {i}
  /\ phase \in {"pack"} \cup FromHeader => \A i \in 0 .. MqN - 1 : secret[i] = {i}
  /\ phase = "pack" =>
       \A i \in 0 .. VectorSize - 1 :
         serialized[i] = <<"nibbles", Half(2 * i, round), Half(2 * i + 1, round)>>
  /\ phase \in FromHeader => serialized = Vector

AlphaHeld(t) == Holds(signature, AlphaOneOffset + 2 * t, 2, Element(t))
PathHeld(e) == Holds(opening, PathAt(e), PathSize, Piece("path", e, PathSize))
HiddenHeld(e) == Holds(opening, HiddenAt(e), DigestSize, Piece("hidden", e, DigestSize))
PartialHeld(e) == Holds(opening, PartialAt(e), PartialDeltaSize, PartialDelta(e))
OpenedHeld(e) == PathHeld(e) /\ HiddenHeld(e) /\ PartialHeld(e)

OpeningWritten ==
  \A e \in 0 .. Tau - 1 : phase \in FromOpen /\ (phase = "open" => e < round) => OpenedHeld(e)

SignatureWritten ==
  /\ phase \in FromAlpha =>
       /\ Holds(signature, 0, SaltSize, Piece("salt", 0, SaltSize))
       /\ Holds(signature, FirstOffset, DigestSize, Piece("first", 0, DigestSize))
  /\ \A t \in 0 .. AlphaCount - 1 : phase \in FromAlpha /\ (phase = "alpha" => t < round) => AlphaHeld(t)
  /\ phase \in FromOpen => Holds(signature, SecondOffset, DigestSize, Piece("second", 0, DigestSize))
  /\ phase \in Sent =>
       /\ Holds(signature, OpeningOffset, OpeningSize, opening)
       /\ Holds(signature, NonceOffset, 4, Piece("nonce", 0, 4))

EncodingInv ==
  Buffers /\ Control /\ KeyWritten /\ VectorKept /\ OpeningWritten /\ SignatureWritten
    /\ VerifierReadsSigner

-----------------------------------------------------------------------------
LEMMA EncodingInitInv == EncodingInit => EncodingInv
<1> SUFFICES ASSUME EncodingInit PROVE EncodingInv
  OBVIOUS
<1>1. Buffers
  <2>1. /\ IsBuffer(publicKey, PublicKeySize) /\ IsBuffer(secretKey, SecretKeySize)
        /\ IsBuffer(serialized, VectorSize) /\ IsBuffer(signature, SignatureSize)
        /\ IsBuffer(opening, OpeningSize)
    BY SizeFacts, OffsetFacts, ZerosFacts DEF EncodingInit
  <2>2. IsBuffer(secret, MqN)
    BY SizeFacts DEF EncodingInit, IsBuffer
  <2> QED BY <2>1, <2>2 DEF Buffers
<1>2. Control
  BY DEF EncodingInit, Control, BeforeAlpha
<1>3. KeyWritten /\ VectorKept /\ OpeningWritten /\ SignatureWritten /\ VerifierReadsSigner
  BY DEF EncodingInit, KeyWritten, VectorKept, OpeningWritten, SignatureWritten, VerifierReadsSigner,
         FromHeader, FromAlpha, FromOpen, Sent
<1> QED BY <1>1, <1>2, <1>3 DEF EncodingInv

(* Before the signature is begun. *)
LEMMA NothingSigned ==
  ASSUME phase' \notin FromAlpha PROVE OpeningWritten' /\ SignatureWritten' /\ VerifierReadsSigner'
BY DEF OpeningWritten, SignatureWritten, VerifierReadsSigner, FromAlpha, FromOpen, Sent

(* Before the vector is unpacked. *)
LEMMA NothingUnpacked ==
  ASSUME phase' \notin {"unpack", "pack"} \cup FromHeader PROVE VectorKept'
BY DEF VectorKept, FromHeader

LEMMA WriteSeedKeeps == ASSUME EncodingInv, WriteSeed PROVE EncodingInv'
<1>1. /\ phase = "seed" /\ phase' = "output" /\ round' = round
      /\ publicKey' = Write(publicKey, 0, KeygenSeedSize, Piece("seed", 0, KeygenSeedSize))
      /\ UNCHANGED <<secretKey, secret, serialized, alphaOffset, signature, opening, parsed>>
  BY DEF WriteSeed, At, vector, signing
<1>2. /\ KeygenSeedSize \in Nat /\ KeygenSeedSize = 0 + KeygenSeedSize
      /\ KeygenSeedSize <= PublicKeySize /\ PublicKeySize \in Nat
  BY SizeFacts
<1>3. IsBuffer(publicKey', PublicKeySize) /\ SeedHeld'
  BY <1>1, <1>2, WriteHolds, PieceFacts DEF EncodingInv, Buffers, SeedHeld
<1>4. Buffers'
  BY <1>1, <1>3 DEF EncodingInv, Buffers
<1>5. round = 0 /\ Control'
  BY <1>1, SizeFacts DEF EncodingInv, Control, BeforeAlpha, FromAlpha, FromOpen, Sent
<1>6. KeyWritten'
  BY <1>1, <1>3, <1>5 DEF KeyWritten
<1>7. VectorKept' /\ OpeningWritten' /\ SignatureWritten' /\ VerifierReadsSigner'
  BY <1>1, NothingUnpacked, NothingSigned DEF FromHeader, FromAlpha, FromOpen, Sent
<1> QED BY <1>4, <1>5, <1>6, <1>7 DEF EncodingInv

LEMMA WriteOutputKeeps == ASSUME EncodingInv, WriteOutput PROVE EncodingInv'
<1> DEFINE offset == KeygenSeedSize + round * EncodedLen
<1>1. /\ phase = "output" /\ phase' = "output" /\ round < EquationCount /\ round' = round + 1
      /\ publicKey' = Write(publicKey, offset, offset + EncodedLen, Piece("output", round, EncodedLen))
      /\ UNCHANGED <<secretKey, secret, serialized, alphaOffset, signature, opening, parsed>>
  BY DEF WriteOutput, At, vector, signing
<1>2. round \in 0 .. EquationCount - 1
  BY <1>1, SizeFacts DEF EncodingInv, Control
<1>3. /\ offset = KeygenSeedSize + 2 * round /\ EncodedLen = 2
      /\ offset \in Nat /\ offset + 2 \in Nat /\ offset + 2 <= PublicKeySize
      /\ PublicKeySize \in Nat /\ KeygenSeedSize \in Nat
  BY <1>2, SizeFacts
<1> HIDE DEF offset
<1>4. publicKey' = Write(publicKey, offset, offset + 2, Piece("output", round, 2))
  BY <1>1, <1>3
<1>5. /\ IsBuffer(publicKey', PublicKeySize)
      /\ Holds(publicKey', offset, 2, Piece("output", round, 2))
      /\ \A at, k \in Nat : \A others :
           at + k <= PublicKeySize /\ (at + k <= offset \/ offset + 2 <= at) /\ Holds(publicKey, at, k, others)
             => Holds(publicKey', at, k, others)
  BY <1>3, <1>4, WriteHolds, PieceFacts DEF EncodingInv, Buffers
<1>6. Buffers'
  BY <1>1, <1>5 DEF EncodingInv, Buffers
<1>7. Control'
  BY <1>1, <1>2, SizeFacts DEF EncodingInv, Control, BeforeAlpha
<1>8. KeyWritten'
  <2>1. SeedHeld'
    <3>1. 0 + KeygenSeedSize <= PublicKeySize /\ 0 + KeygenSeedSize <= offset
      BY <1>2, <1>3
    <3> QED BY <1>1, <1>3, <1>5, <3>1 DEF EncodingInv, KeyWritten, SeedHeld
  <2>2. ASSUME NEW q \in 0 .. EquationCount - 1, q < round + 1 PROVE OutputHeld(q)'
    <3>1. CASE q = round
      BY <1>3, <1>5, <3>1 DEF OutputHeld
    <3>2. CASE q < round
      <4>1. OutputHeld(q)
        BY <1>1, <3>2 DEF EncodingInv, KeyWritten
      <4>2. /\ KeygenSeedSize + 2 * q \in Nat /\ (KeygenSeedSize + 2 * q) + 2 <= offset
            /\ (KeygenSeedSize + 2 * q) + 2 <= PublicKeySize
        BY <1>2, <1>3, <3>2
      <4> QED BY <1>5, <4>1, <4>2 DEF OutputHeld
    <3> QED BY <1>2, <2>2, <3>1, <3>2
  <2> QED BY <1>1, <2>1, <2>2 DEF KeyWritten
<1>9. VectorKept' /\ OpeningWritten' /\ SignatureWritten' /\ VerifierReadsSigner'
  BY <1>1, NothingUnpacked, NothingSigned DEF FromHeader, FromAlpha, FromOpen, Sent
<1> QED BY <1>6, <1>7, <1>8, <1>9 DEF EncodingInv

LEMMA WriteSecretKeyKeeps == ASSUME EncodingInv, WriteSecretKey PROVE EncodingInv'
<1> DEFINE half == Write(secretKey, 0, PublicKeySize, publicKey)
<1>1. /\ phase = "output" /\ phase' = "import key" /\ round = EquationCount /\ round' = 0
      /\ secretKey' = Write(half, PublicKeySize, SecretKeySize, Vector)
      /\ UNCHANGED <<publicKey, secret, serialized, alphaOffset, signature, opening, parsed>>
  BY DEF WriteSecretKey, At, vector, signing
<1>2. /\ PublicKeySize \in Nat /\ VectorSize \in Nat /\ SecretKeySize \in Nat
      /\ SecretKeySize = PublicKeySize + VectorSize /\ PublicKeySize = 0 + PublicKeySize
      /\ PublicKeySize <= SecretKeySize
  BY SizeFacts
<1>3. DOMAIN publicKey = 0 .. PublicKeySize - 1 /\ DOMAIN Vector = 0 .. VectorSize - 1
  BY DEF EncodingInv, Buffers, IsBuffer, Vector
<1>4. IsBuffer(half, SecretKeySize) /\ Holds(half, 0, PublicKeySize, publicKey)
  BY <1>2, <1>3, WriteHolds DEF EncodingInv, Buffers
<1> HIDE DEF half
<1>5. /\ IsBuffer(secretKey', SecretKeySize)
      /\ Holds(secretKey', PublicKeySize, VectorSize, Vector)
      /\ Holds(secretKey', 0, PublicKeySize, publicKey)
  <2>1. DOMAIN Vector = 0 .. VectorSize - 1 /\ SecretKeySize <= SecretKeySize
    BY <1>2, <1>3
  <2> DEFINE full == Write(half, PublicKeySize, SecretKeySize, Vector)
  <2>2. /\ IsBuffer(full, SecretKeySize)
        /\ Holds(full, PublicKeySize, VectorSize, Vector)
        /\ \A at, k \in Nat : \A others :
             at + k <= SecretKeySize /\ (at + k <= PublicKeySize \/ SecretKeySize <= at)
               /\ Holds(half, at, k, others)
               => Holds(full, at, k, others)
    BY <1>2, <1>4, <2>1, WriteHolds
  <2> HIDE DEF full
  <2>3. Holds(full, 0, PublicKeySize, publicKey)
    BY <1>2, <1>4, <2>2
  <2> QED BY <1>1, <2>2, <2>3 DEF full
<1>6. Buffers'
  BY <1>1, <1>5 DEF EncodingInv, Buffers
<1>7. Control'
  BY <1>1 DEF EncodingInv, Control, BeforeAlpha
<1>8. KeyWritten'
  <2>1. SeedHeld'
    BY <1>1 DEF EncodingInv, KeyWritten, SeedHeld
  <2>2. ASSUME NEW q \in 0 .. EquationCount - 1 PROVE OutputHeld(q)'
    <3>1. q < EquationCount
      BY SizeFacts
    <3>2. OutputHeld(q)
      BY <1>1, <3>1 DEF EncodingInv, KeyWritten
    <3> QED BY <1>1, <3>2 DEF OutputHeld
  <2> QED BY <1>1, <1>5, <2>1, <2>2 DEF KeyWritten, Vector
<1>9. VectorKept' /\ OpeningWritten' /\ SignatureWritten' /\ VerifierReadsSigner'
  BY <1>1, NothingUnpacked, NothingSigned DEF FromHeader, FromAlpha, FromOpen, Sent
<1> QED BY <1>6, <1>7, <1>8, <1>9 DEF EncodingInv

(* After the key is written. *)
LEMMA KeyStands ==
  ASSUME EncodingInv, UNCHANGED keys, phase \notin {"seed", "output"}, phase' \notin {"seed", "output"}
  PROVE  KeyWritten'
<1>1. publicKey' = publicKey /\ secretKey' = secretKey
  BY DEF keys
<1>2. SeedHeld' /\ \A q \in 0 .. EquationCount - 1 : OutputHeld(q)'
  BY <1>1 DEF EncodingInv, KeyWritten, SeedHeld, OutputHeld
<1>3. Holds(secretKey', 0, PublicKeySize, publicKey') /\ Holds(secretKey', PublicKeySize, VectorSize, Vector)
  BY <1>1 DEF EncodingInv, KeyWritten
<1> QED BY <1>2, <1>3 DEF KeyWritten, Vector

LEMMA ImportKeyKeeps == ASSUME EncodingInv, ImportKey PROVE EncodingInv'
<1>1. /\ phase = "import key" /\ round' = round /\ UNCHANGED keys
      /\ UNCHANGED <<publicKey, secretKey, secret, serialized, alphaOffset, signature, opening, parsed>>
  BY DEF ImportKey, At, keys, vector, signing
<1>2. phase' \in {"unpack", "refused"}
  <2>1. Required = SecretKeySize - PublicKeySize
    BY SizeFacts
  <2> QED BY <2>1 DEF ImportKey, Imported
<1>3. round' = 0 /\ alphaOffset' = AlphaOneOffset
  BY <1>1 DEF EncodingInv, Control, BeforeAlpha
<1>4. Buffers'
  BY <1>1 DEF EncodingInv, Buffers
<1>5. Control'
  <2>1. 0 \in Nat /\ 0 <= MqN
    BY SizeFacts
  <2>2. CASE phase' = "unpack"
    BY <1>3, <2>1, <2>2 DEF Control, BeforeAlpha
  <2>3. CASE phase' = "refused"
    BY <1>3, <2>1, <2>3 DEF Control, BeforeAlpha
  <2> QED BY <1>2, <2>2, <2>3
<1>6. KeyWritten'
  BY <1>1, <1>2, KeyStands
<1>7. VectorKept'
  <2>1. \A i \in 0 .. MqN - 1 : ~(i < 0)
    BY SizeFacts
  <2> QED BY <1>2, <1>3, <2>1 DEF VectorKept, FromHeader, FromAlpha, FromOpen, Sent
<1>8. OpeningWritten' /\ SignatureWritten' /\ VerifierReadsSigner'
  BY <1>2, NothingSigned DEF FromAlpha, FromOpen, Sent
<1> QED BY <1>4, <1>5, <1>6, <1>7, <1>8 DEF EncodingInv

LEMMA Nibbles ==
  ASSUME NEW r \in Nat, r < MqN
  PROVE  /\ r \div 2 \in 0 .. VectorSize - 1
         /\ \/ r % 2 = 0 /\ r = 2 * (r \div 2)
            \/ r % 2 = 1 /\ r = 2 * (r \div 2) + 1
BY SizeFacts

LEMMA UnpackElementKeeps == ASSUME EncodingInv, UnpackElement PROVE EncodingInv'
<1> DEFINE nibble == secretKey[PublicKeySize + (round \div 2)][2 + (round % 2)]
<1>1. /\ phase = "unpack" /\ phase' = "unpack" /\ round < MqN /\ round' = round + 1 /\ UNCHANGED keys
      /\ secret' = [secret EXCEPT ![round] = nibble]
      /\ UNCHANGED <<publicKey, secretKey, serialized, alphaOffset, signature, opening, parsed>>
  BY DEF UnpackElement, At, keys, signing
<1>2. round \in Nat /\ MqN \in Nat
  BY SizeFacts DEF EncodingInv, Control
<1>3. nibble = {round}
  <2>1. round \div 2 \in 0 .. VectorSize - 1
    BY <1>1, <1>2, Nibbles
  <2>2. secretKey[PublicKeySize + (round \div 2)] = Vector[round \div 2]
    BY <1>1, <2>1 DEF EncodingInv, KeyWritten, Holds
  <2>3. Vector[round \div 2] = <<"nibbles", {2 * (round \div 2)}, {2 * (round \div 2) + 1}>>
    BY <2>1 DEF Vector
  <2>4. CASE round % 2 = 0
    BY <1>1, <1>2, <2>2, <2>3, <2>4, Nibbles
  <2>5. CASE round % 2 = 1
    BY <1>1, <1>2, <2>2, <2>3, <2>5, Nibbles
  <2> QED BY <1>1, <1>2, <2>4, <2>5, Nibbles
<1> HIDE DEF nibble
<1>4. secret = [i \in 0 .. MqN - 1 |-> secret[i]]
  BY DEF EncodingInv, Buffers, IsBuffer
<1>5. secret' = [i \in 0 .. MqN - 1 |-> IF i = round THEN {round} ELSE secret[i]]
  BY <1>1, <1>3, <1>4
<1>6. Buffers'
  BY <1>1, <1>5 DEF EncodingInv, Buffers, IsBuffer
<1>7. Control'
  BY <1>1, <1>2 DEF EncodingInv, Control, BeforeAlpha
<1>8. KeyWritten'
  BY <1>1, KeyStands
<1>9. VectorKept'
  <2>1. ASSUME NEW i \in 0 .. MqN - 1, i < round + 1 PROVE secret'[i] = {i}
    BY <1>1, <1>2, <1>5, <2>1 DEF EncodingInv, VectorKept
  <2> QED BY <1>1, <2>1 DEF VectorKept, FromHeader, FromAlpha, FromOpen, Sent
<1>10. OpeningWritten' /\ SignatureWritten' /\ VerifierReadsSigner'
  BY <1>1, NothingSigned DEF FromAlpha, FromOpen, Sent
<1> QED BY <1>6, <1>7, <1>8, <1>9, <1>10 DEF EncodingInv

LEMMA UnpackedKeeps == ASSUME EncodingInv, Unpacked PROVE EncodingInv'
<1>1. /\ phase = "unpack" /\ phase' = "pack" /\ round = MqN /\ round' = 0 /\ UNCHANGED keys
      /\ serialized' = [i \in 0 .. VectorSize - 1 |-> <<"nibbles", {}, {}>>]
      /\ UNCHANGED <<publicKey, secretKey, secret, alphaOffset, signature, opening, parsed>>
  BY SizeFacts DEF Unpacked, At, keys, signing
<1>2. Buffers'
  BY <1>1 DEF EncodingInv, Buffers, IsBuffer
<1>3. Control'
  BY <1>1, SizeFacts DEF EncodingInv, Control, BeforeAlpha
<1>4. KeyWritten'
  BY <1>1, KeyStands
<1>5. VectorKept'
  <2>1. \A i \in 0 .. MqN - 1 : secret[i] = {i}
    BY <1>1, SizeFacts DEF EncodingInv, VectorKept
  <2>2. ASSUME NEW i \in 0 .. VectorSize - 1
        PROVE  serialized'[i] = <<"nibbles", Half(2 * i, 0), Half(2 * i + 1, 0)>>
    BY <1>1 DEF Half
  <2> QED BY <1>1, <2>1, <2>2 DEF VectorKept, FromHeader, FromAlpha, FromOpen, Sent
<1>6. OpeningWritten' /\ SignatureWritten' /\ VerifierReadsSigner'
  BY <1>1, NothingSigned DEF FromAlpha, FromOpen, Sent
<1> QED BY <1>2, <1>3, <1>4, <1>5, <1>6 DEF EncodingInv

LEMMA PackElementKeeps == ASSUME EncodingInv, PackElement PROVE EncodingInv'
<1> DEFINE b == round \div 2
           slot == 2 + (round % 2)
           packed(i) == <<"nibbles", Half(2 * i, round + 1), Half(2 * i + 1, round + 1)>>
<1>1. /\ phase = "pack" /\ phase' = "pack" /\ round < MqN /\ round' = round + 1 /\ UNCHANGED keys
      /\ serialized' = [serialized EXCEPT ![b][slot] = @ \cup secret[round]]
      /\ UNCHANGED <<publicKey, secretKey, secret, alphaOffset, signature, opening, parsed>>
  BY DEF PackElement, At, keys, signing
<1>2. round \in Nat /\ MqN \in Nat /\ round \in 0 .. MqN - 1 /\ b \in 0 .. VectorSize - 1
  BY <1>1, SizeFacts, Nibbles DEF EncodingInv, Control
<1>3. /\ serialized = [i \in 0 .. VectorSize - 1 |-> serialized[i]]
      /\ \A i \in 0 .. VectorSize - 1 :
           serialized[i] = <<"nibbles", Half(2 * i, round), Half(2 * i + 1, round)>>
      /\ secret[round] = {round}
  BY <1>1, <1>2 DEF EncodingInv, Buffers, IsBuffer, VectorKept
<1>4. serialized' = [i \in 0 .. VectorSize - 1 |->
                       IF i = b THEN [serialized[b] EXCEPT ![slot] = @ \cup {round}] ELSE serialized[i]]
  BY <1>1, <1>2, <1>3
<1> HIDE DEF slot
<1>5. \A i \in 0 .. VectorSize - 1 : serialized'[i] = packed(i)
  <2>1. ASSUME NEW i \in 0 .. VectorSize - 1, i # b PROVE serialized'[i] = packed(i)
    <3>1. 2 * i # round /\ 2 * i + 1 # round
      BY <1>1, <1>2, <2>1, Nibbles
    <3>2. Half(2 * i, round) = Half(2 * i, round + 1) /\ Half(2 * i + 1, round) = Half(2 * i + 1, round + 1)
      BY <1>2, <3>1 DEF Half
    <3> QED BY <1>3, <1>4, <2>1, <3>2
  <2>2. CASE round % 2 = 0
    <3>1. round = 2 * b
      BY <1>1, <1>2, <2>2, Nibbles
    <3>2. /\ Half(2 * b, round) \cup {round} = Half(2 * b, round + 1)
          /\ Half(2 * b + 1, round) = Half(2 * b + 1, round + 1)
      BY <1>2, <3>1 DEF Half
    <3>3. serialized'[b] = [serialized[b] EXCEPT ![2] = @ \cup {round}]
      <4>1. slot = 2
        BY <2>2 DEF slot
      <4> QED BY <1>2, <1>4, <4>1
    <3>4. serialized'[b] = <<"nibbles", Half(2 * b, round) \cup {round}, Half(2 * b + 1, round)>>
      BY <1>2, <1>3, <3>3
    <3> QED BY <2>1, <3>2, <3>4
  <2>3. CASE round % 2 = 1
    <3>1. round = 2 * b + 1
      BY <1>1, <1>2, <2>3, Nibbles
    <3>2. /\ Half(2 * b, round) = Half(2 * b, round + 1)
          /\ Half(2 * b + 1, round) \cup {round} = Half(2 * b + 1, round + 1)
      BY <1>2, <3>1 DEF Half
    <3>3. serialized'[b] = [serialized[b] EXCEPT ![3] = @ \cup {round}]
      <4>1. slot = 3
        BY <2>3 DEF slot
      <4> QED BY <1>2, <1>4, <4>1
    <3>4. serialized'[b] = <<"nibbles", Half(2 * b, round), Half(2 * b + 1, round) \cup {round}>>
      BY <1>2, <1>3, <3>3
    <3> QED BY <2>1, <3>2, <3>4
  <2> QED BY <1>1, <1>2, <2>2, <2>3, Nibbles
<1>6. Buffers'
  BY <1>1, <1>4 DEF EncodingInv, Buffers, IsBuffer
<1>7. Control'
  BY <1>1, <1>2 DEF EncodingInv, Control, BeforeAlpha
<1>8. KeyWritten'
  BY <1>1, KeyStands
<1>9. VectorKept'
  <2>1. \A i \in 0 .. MqN - 1 : secret'[i] = {i}
    BY <1>1 DEF EncodingInv, VectorKept
  <2> QED BY <1>1, <1>5, <2>1 DEF VectorKept, FromHeader, FromAlpha, FromOpen, Sent
<1>10. OpeningWritten' /\ SignatureWritten' /\ VerifierReadsSigner'
  BY <1>1, NothingSigned DEF FromAlpha, FromOpen, Sent
<1> QED BY <1>6, <1>7, <1>8, <1>9, <1>10 DEF EncodingInv

LEMMA PackedKeeps == ASSUME EncodingInv, Packed PROVE EncodingInv'
<1>1. /\ phase = "pack" /\ phase' = "header" /\ round = MqN /\ round' = 0 /\ UNCHANGED keys
      /\ UNCHANGED <<publicKey, secretKey, secret, serialized, alphaOffset, signature, opening, parsed>>
  BY DEF Packed, At, keys, vector, signing
<1>2. Buffers'
  BY <1>1 DEF EncodingInv, Buffers
<1>3. Control'
  BY <1>1 DEF EncodingInv, Control, BeforeAlpha
<1>4. KeyWritten'
  BY <1>1, KeyStands
<1>5. VectorKept'
  <2>1. \A i \in 0 .. MqN - 1 : secret[i] = {i}
    BY <1>1 DEF EncodingInv, VectorKept
  <2>2. ASSUME NEW i \in 0 .. VectorSize - 1 PROVE serialized[i] = <<"nibbles", {2 * i}, {2 * i + 1}>>
    <3>1. /\ 2 * i < round /\ 2 * i + 1 < round
      BY <1>1, SizeFacts
    <3>2. serialized[i] = <<"nibbles", Half(2 * i, round), Half(2 * i + 1, round)>>
      BY <1>1 DEF EncodingInv, VectorKept
    <3> QED BY <3>1, <3>2 DEF Half
  <2>3. serialized = Vector
    BY <2>2 DEF EncodingInv, Buffers, IsBuffer, Vector
  <2> QED BY <1>1, <2>1, <2>3 DEF VectorKept, Vector
<1>6. OpeningWritten' /\ SignatureWritten' /\ VerifierReadsSigner'
  BY <1>1, NothingSigned DEF FromAlpha, FromOpen, Sent
<1> QED BY <1>2, <1>3, <1>4, <1>5, <1>6 DEF EncodingInv

LEMMA VectorStands ==
  ASSUME EncodingInv, UNCHANGED vector, phase \in FromHeader, phase' \in FromHeader
  PROVE  VectorKept'
<1>1. secret' = secret /\ serialized' = serialized
  BY DEF vector
<1>2. serialized' = Vector /\ \A i \in 0 .. MqN - 1 : secret'[i] = {i}
  BY <1>1 DEF EncodingInv, VectorKept
<1>3. phase' # "unpack" /\ phase' # "pack"
  BY DEF FromHeader, FromAlpha, FromOpen, Sent
<1> QED BY <1>2, <1>3 DEF VectorKept, Vector

LEMMA NotParsed == ASSUME phase' # "parsed" PROVE VerifierReadsSigner'
BY DEF VerifierReadsSigner

LEMMA NothingOpened ==
  ASSUME phase' \notin FromOpen \/ (phase' = "open" /\ round' = 0) PROVE OpeningWritten'
BY DEF OpeningWritten

LEMMA OpeningBlocks ==
  /\ \A e \in 0 .. Tau - 1 :
       /\ PathAt(e) \in Nat /\ PathAt(e) + PathSize <= PathsSize
       /\ HiddenAt(e) \in Nat /\ PathsSize <= HiddenAt(e)
       /\ HiddenAt(e) + DigestSize <= PartialDeltasOffset
       /\ PartialAt(e) \in Nat /\ PartialDeltasOffset <= PartialAt(e)
       /\ PartialAt(e) + PartialDeltaSize <= OpeningSize
  /\ \A f \in 0 .. Tau - 1 : \A e \in 0 .. f - 1 :
       /\ PathAt(e) + PathSize <= PathAt(f)
       /\ HiddenAt(e) + DigestSize <= HiddenAt(f)
       /\ PartialAt(e) + PartialDeltaSize <= PartialAt(f)
<1>1. PathSize \in Nat /\ DigestSize \in Nat /\ PartialDeltaSize \in Nat /\ Tau \in Nat
  BY SizeFacts, OffsetFacts
<1>2. ASSUME NEW e \in 0 .. Tau - 1
      PROVE  /\ e * PathSize \in Nat /\ e * PathSize + PathSize <= Tau * PathSize
             /\ e * DigestSize \in Nat /\ e * DigestSize + DigestSize <= Tau * DigestSize
             /\ e * PartialDeltaSize \in Nat
             /\ e * PartialDeltaSize + PartialDeltaSize <= Tau * PartialDeltaSize
  BY <1>1, BlockFits
<1>3. ASSUME NEW e \in 0 .. Tau - 1
      PROVE  /\ PathAt(e) \in Nat /\ PathAt(e) + PathSize <= PathsSize
             /\ HiddenAt(e) \in Nat /\ PathsSize <= HiddenAt(e)
             /\ HiddenAt(e) + DigestSize <= PartialDeltasOffset
             /\ PartialAt(e) \in Nat /\ PartialDeltasOffset <= PartialAt(e)
             /\ PartialAt(e) + PartialDeltaSize <= OpeningSize
  <2>1. PathAt(e) \in Nat /\ PathAt(e) + PathSize <= PathsSize
    BY <1>2, OffsetFacts DEF PathAt
  <2>2. /\ HiddenAt(e) \in Nat /\ PathsSize <= HiddenAt(e)
        /\ HiddenAt(e) + DigestSize <= PartialDeltasOffset
    BY <1>1, <1>2, OffsetFacts DEF HiddenAt
  <2>3. /\ PartialAt(e) \in Nat /\ PartialDeltasOffset <= PartialAt(e)
        /\ PartialAt(e) + PartialDeltaSize <= OpeningSize
    BY <1>1, <1>2, OffsetFacts DEF PartialAt
  <2> QED BY <2>1, <2>2, <2>3
<1>4. ASSUME NEW f \in 0 .. Tau - 1, NEW e \in 0 .. f - 1
      PROVE  /\ PathAt(e) + PathSize <= PathAt(f)
             /\ HiddenAt(e) + DigestSize <= HiddenAt(f)
             /\ PartialAt(e) + PartialDeltaSize <= PartialAt(f)
  <2>1. f \in Nat /\ e \in Nat /\ e < f
    BY <1>1
  <2>2. /\ e * PathSize + PathSize <= f * PathSize
        /\ e * DigestSize + DigestSize <= f * DigestSize
        /\ e * PartialDeltaSize + PartialDeltaSize <= f * PartialDeltaSize
    BY <1>1, <2>1, BlocksApart
  <2>3. /\ e * DigestSize \in Nat /\ f * DigestSize \in Nat
        /\ e * PartialDeltaSize \in Nat /\ f * PartialDeltaSize \in Nat
    BY <1>1, <2>1, ProductTyped
  <2>4. PathsSize \in Nat /\ PartialDeltasOffset \in Nat
    BY OffsetFacts
  <2> QED BY <1>1, <2>2, <2>3, <2>4 DEF PathAt, HiddenAt, PartialAt
<1> QED BY <1>3, <1>4

LEMMA PartialDeltaFacts ==
  ASSUME IsBuffer(serialized, VectorSize), NEW e
  PROVE  /\ IsBuffer(PartialDelta(e), PartialDeltaSize)
         /\ DOMAIN PartialDelta(e) = 0 .. PartialDeltaSize - 1
         /\ \A i \in 0 .. PartialDeltaSize - 1 :
              PartialDelta(e)[i] = <<"masked", e, serialized[SeedSize + i]>>
<1> DEFINE rest == Slice(serialized, SeedSize, VectorSize)
<1>1. rest = [i \in 0 .. PartialDeltaSize - 1 |-> serialized[SeedSize + i]]
  <2>1. DOMAIN serialized = 0 .. VectorSize - 1
    BY DEF IsBuffer
  <2>2. /\ SeedSize .. VectorSize - 1 \subseteq 0 .. VectorSize - 1 /\ SeedSize <= VectorSize
        /\ VectorSize - SeedSize - 1 = PartialDeltaSize - 1
    BY SizeFacts
  <2> QED BY <2>1, <2>2 DEF Slice
<1>2. PartialDelta(e) = [i \in DOMAIN rest |-> <<"masked", e, rest[i]>>]
  BY DEF PartialDelta
<1> HIDE DEF rest
<1>3. PartialDelta(e) = [i \in 0 .. PartialDeltaSize - 1 |-> <<"masked", e, serialized[SeedSize + i]>>]
  BY <1>1, <1>2
<1> QED BY <1>3 DEF IsBuffer

LEMMA SignatureLayout ==
  /\ SaltSize \in Nat /\ DigestSize \in Nat /\ AlphaCount \in Nat /\ OpeningSize \in Nat
  /\ FirstOffset \in Nat /\ SecondOffset \in Nat /\ AlphaOneOffset \in Nat
  /\ OpeningOffset \in Nat /\ NonceOffset \in Nat /\ SignatureSize \in Nat
  /\ FirstOffset = 0 + SaltSize /\ SecondOffset = FirstOffset + DigestSize
  /\ AlphaOneOffset = SecondOffset + DigestSize /\ OpeningOffset = AlphaOneOffset + 2 * AlphaCount
  /\ NonceOffset = OpeningOffset + OpeningSize /\ SignatureSize = NonceOffset + 4
<1> DEFINE count == Tau * Eta
<1>1. count \in Nat /\ OpeningOffset = AlphaOneOffset + 2 * count
  BY OffsetFacts
<1>2. AlphaCount = count
  BY DEF AlphaCount
<1> HIDE DEF count
<1> QED BY <1>1, <1>2, SizeFacts, OffsetFacts

LEMMA WriteHeaderKeeps == ASSUME EncodingInv, WriteHeader PROVE EncodingInv'
<1> DEFINE salted == Write(signature, 0, SaltSize, Piece("salt", 0, SaltSize))
           headed == Write(salted, FirstOffset, SecondOffset, Piece("first", 0, DigestSize))
<1>1. /\ phase = "header" /\ phase' = "alpha" /\ round' = round /\ UNCHANGED <<keys, vector>>
      /\ signature' = headed
      /\ UNCHANGED <<publicKey, secretKey, secret, serialized, alphaOffset, opening, parsed>>
  BY DEF WriteHeader, At, keys, vector
<1>2. /\ IsBuffer(salted, SignatureSize)
      /\ Holds(salted, 0, SaltSize, Piece("salt", 0, SaltSize))
  BY SignatureLayout, WriteHolds, PieceFacts DEF EncodingInv, Buffers
<1> HIDE DEF salted
<1>3. /\ IsBuffer(headed, SignatureSize)
      /\ Holds(headed, FirstOffset, DigestSize, Piece("first", 0, DigestSize))
      /\ \A at, k \in Nat : \A others :
           /\ at + k <= SignatureSize /\ (at + k <= FirstOffset \/ SecondOffset <= at)
           /\ Holds(salted, at, k, others)
           => Holds(headed, at, k, others)
  BY <1>2, SignatureLayout, WriteHolds, PieceFacts
<1> HIDE DEF headed
<1>4. Holds(headed, 0, SaltSize, Piece("salt", 0, SaltSize))
  <2>1. 0 + SaltSize <= SignatureSize /\ 0 + SaltSize <= FirstOffset /\ 0 \in Nat /\ SaltSize \in Nat
    BY SignatureLayout
  <2> QED BY <1>2, <1>3, <2>1
<1>5. Buffers'
  BY <1>1, <1>3 DEF EncodingInv, Buffers
<1>6. round' = 0 /\ alphaOffset' = AlphaOneOffset
  BY <1>1 DEF EncodingInv, Control, BeforeAlpha
<1>7. Control'
  <2>1. 0 \in Nat /\ 0 <= AlphaCount /\ AlphaOneOffset = AlphaOneOffset + 2 * 0
    BY SignatureLayout
  <2> QED BY <1>1, <1>6, <2>1 DEF Control, BeforeAlpha, FromAlpha
<1>8. KeyWritten' /\ VectorKept' /\ OpeningWritten' /\ VerifierReadsSigner'
  BY <1>1, KeyStands, VectorStands, NothingOpened, NotParsed DEF FromHeader, FromAlpha, FromOpen, Sent
<1>9. SignatureWritten'
  <2>1. \A t \in 0 .. AlphaCount - 1 : ~(t < 0)
    BY SignatureLayout
  <2> QED BY <1>1, <1>3, <1>4, <1>6, <2>1 DEF SignatureWritten, FromOpen, Sent
<1> QED BY <1>5, <1>7, <1>8, <1>9 DEF EncodingInv

LEMMA WriteAlphaKeeps == ASSUME EncodingInv, WriteAlpha PROVE EncodingInv'
<1>1. /\ phase = "alpha" /\ phase' = "alpha" /\ round < AlphaCount /\ round' = round + 1
      /\ signature' = Write(signature, alphaOffset, alphaOffset + EncodedLen, Element(round))
      /\ alphaOffset' = alphaOffset + EncodedLen /\ UNCHANGED <<keys, vector>>
      /\ UNCHANGED <<publicKey, secretKey, secret, serialized, opening, parsed>>
  BY DEF WriteAlpha, At, AlphaCount, keys, vector
<1>2. /\ round \in Nat /\ alphaOffset = AlphaOneOffset + 2 * round
      /\ alphaOffset \in Nat /\ alphaOffset + 2 \in Nat /\ alphaOffset + 2 <= OpeningOffset
      /\ alphaOffset + 2 <= SignatureSize /\ EncodedLen = 2
  BY <1>1, SignatureLayout DEF EncodingInv, Control, EncodedLen
<1>3. /\ IsBuffer(signature', SignatureSize)
      /\ Holds(signature', alphaOffset, 2, Element(round))
      /\ \A at, k \in Nat : \A others :
           /\ at + k <= SignatureSize /\ (at + k <= alphaOffset \/ alphaOffset + 2 <= at)
           /\ Holds(signature, at, k, others)
           => Holds(signature', at, k, others)
  <2> DEFINE last == alphaOffset + 2
  <2>1. DOMAIN Element(round) = 0 .. 2 - 1
    BY <1>2, PieceFacts DEF Element
  <2>2. last \in Nat /\ last = alphaOffset + 2 /\ last <= SignatureSize
    BY <1>2
  <2>3. signature' = Write(signature, alphaOffset, last, Element(round))
    BY <1>1, <1>2
  <2> HIDE DEF last
  <2>4. IsBuffer(signature, SignatureSize) /\ SignatureSize \in Nat
    BY SignatureLayout DEF EncodingInv, Buffers
  <2>5. /\ IsBuffer(signature', SignatureSize)
        /\ Holds(signature', alphaOffset, 2, Element(round))
        /\ \A at, k \in Nat : \A others :
             /\ at + k <= SignatureSize /\ (at + k <= alphaOffset \/ last <= at)
             /\ Holds(signature, at, k, others)
             => Holds(signature', at, k, others)
    BY <1>2, <2>1, <2>2, <2>3, <2>4, WriteHolds
  <2> QED BY <2>2, <2>5
<1>4. Buffers'
  BY <1>1, <1>3 DEF EncodingInv, Buffers
<1>5. Control'
  <2>1. /\ round + 1 \in Nat /\ round + 1 <= AlphaCount
        /\ alphaOffset' = AlphaOneOffset + 2 * (round + 1)
    BY <1>1, <1>2, SignatureLayout
  <2> QED BY <1>1, <2>1 DEF Control, BeforeAlpha, FromAlpha
<1>6. KeyWritten' /\ VectorKept' /\ OpeningWritten' /\ VerifierReadsSigner'
  BY <1>1, KeyStands, VectorStands, NothingOpened, NotParsed DEF FromHeader, FromAlpha, FromOpen, Sent
<1>7. SignatureWritten'
  <2>1. /\ Holds(signature', 0, SaltSize, Piece("salt", 0, SaltSize))
        /\ Holds(signature', FirstOffset, DigestSize, Piece("first", 0, DigestSize))
    <3>1. /\ Holds(signature, 0, SaltSize, Piece("salt", 0, SaltSize))
          /\ Holds(signature, FirstOffset, DigestSize, Piece("first", 0, DigestSize))
      BY <1>1 DEF EncodingInv, SignatureWritten, FromAlpha
    <3>2. /\ 0 + SaltSize <= alphaOffset /\ 0 + SaltSize <= SignatureSize
          /\ FirstOffset + DigestSize <= alphaOffset /\ FirstOffset + DigestSize <= SignatureSize
      BY <1>2, SignatureLayout
    <3> QED BY <1>3, <3>1, <3>2, SignatureLayout
  <2>2. ASSUME NEW t \in 0 .. AlphaCount - 1, t < round + 1 PROVE AlphaHeld(t)'
    <3>1. CASE t = round
      BY <1>2, <1>3, <3>1 DEF AlphaHeld, Element
    <3>2. CASE t < round
      <4>1. AlphaHeld(t)
        BY <1>1, <3>2 DEF EncodingInv, SignatureWritten, FromAlpha
      <4> DEFINE at == AlphaOneOffset + 2 * t
      <4>2. at \in Nat /\ at + 2 <= alphaOffset /\ at + 2 <= SignatureSize
        BY <1>2, <3>2, SignatureLayout
      <4>3. Holds(signature, at, 2, Element(t))
        BY <4>1 DEF AlphaHeld
      <4> HIDE DEF at
      <4>4. Holds(signature', at, 2, Element(t))
        BY <1>3, <4>2, <4>3
      <4> QED BY <4>4 DEF AlphaHeld, Element, at
    <3> QED BY <1>2, <2>2, <3>1, <3>2
  <2> QED BY <1>1, <2>1, <2>2 DEF SignatureWritten, FromOpen, Sent
<1> QED BY <1>4, <1>5, <1>6, <1>7 DEF EncodingInv

LEMMA WriteSecondKeeps == ASSUME EncodingInv, WriteSecond PROVE EncodingInv'
<1>1. /\ phase = "alpha" /\ round = AlphaCount /\ round' = 0 /\ alphaOffset = OpeningOffset
  <2>1. phase = "alpha" /\ round = AlphaCount /\ round' = 0
    BY DEF WriteSecond, At, AlphaCount
  <2> QED BY <2>1, SignatureLayout DEF EncodingInv, Control
<1>2. /\ phase' = "open" /\ UNCHANGED <<keys, vector>>
      /\ signature' = Write(signature, SecondOffset, AlphaOneOffset, Piece("second", 0, DigestSize))
      /\ UNCHANGED <<publicKey, secretKey, secret, serialized, alphaOffset, opening, parsed>>
  BY <1>1 DEF WriteSecond, keys, vector
<1>3. /\ IsBuffer(signature', SignatureSize)
      /\ Holds(signature', SecondOffset, DigestSize, Piece("second", 0, DigestSize))
      /\ \A at, k \in Nat : \A others :
           /\ at + k <= SignatureSize /\ (at + k <= SecondOffset \/ AlphaOneOffset <= at)
           /\ Holds(signature, at, k, others)
           => Holds(signature', at, k, others)
  BY <1>2, SignatureLayout, WriteHolds, PieceFacts DEF EncodingInv, Buffers
<1>4. Buffers'
  BY <1>2, <1>3 DEF EncodingInv, Buffers
<1>5. Control'
  <2>1. 0 \in Nat /\ 0 <= Tau
    BY SizeFacts
  <2> QED BY <1>1, <1>2, <2>1 DEF Control, BeforeAlpha, FromAlpha, FromOpen
<1>6. KeyWritten' /\ VectorKept' /\ OpeningWritten' /\ VerifierReadsSigner'
  BY <1>1, <1>2, KeyStands, VectorStands, NothingOpened, NotParsed DEF FromHeader, FromAlpha, FromOpen, Sent
<1>7. SignatureWritten'
  <2>1. /\ Holds(signature', 0, SaltSize, Piece("salt", 0, SaltSize))
        /\ Holds(signature', FirstOffset, DigestSize, Piece("first", 0, DigestSize))
    <3>1. /\ Holds(signature, 0, SaltSize, Piece("salt", 0, SaltSize))
          /\ Holds(signature, FirstOffset, DigestSize, Piece("first", 0, DigestSize))
      BY <1>1 DEF EncodingInv, SignatureWritten, FromAlpha
    <3>2. /\ 0 + SaltSize <= SecondOffset /\ 0 + SaltSize <= SignatureSize
          /\ FirstOffset + DigestSize <= SecondOffset /\ FirstOffset + DigestSize <= SignatureSize
      BY SignatureLayout
    <3> QED BY <1>3, <3>1, <3>2, SignatureLayout
  <2>2. ASSUME NEW t \in 0 .. AlphaCount - 1 PROVE AlphaHeld(t)'
    <3>1. t < AlphaCount
      BY SignatureLayout
    <3>2. AlphaHeld(t)
      BY <1>1, <3>1 DEF EncodingInv, SignatureWritten, FromAlpha
    <3> DEFINE at == AlphaOneOffset + 2 * t
    <3>3. at \in Nat /\ AlphaOneOffset <= at /\ at + 2 <= SignatureSize
      BY <3>1, SignatureLayout
    <3>4. Holds(signature, at, 2, Element(t))
      BY <3>2 DEF AlphaHeld
    <3> HIDE DEF at
    <3>5. Holds(signature', at, 2, Element(t))
      BY <1>3, <3>3, <3>4
    <3> QED BY <3>5 DEF AlphaHeld, Element, at
  <2> QED BY <1>2, <1>3, <2>1, <2>2 DEF SignatureWritten, Sent
<1> QED BY <1>4, <1>5, <1>6, <1>7 DEF EncodingInv

(* What one write leaves alone. *)
Spares(old, new, n, first, last) ==
  \A at, k \in Nat : \A others :
    at + k <= n /\ (at + k <= first \/ last <= at) /\ Holds(old, at, k, others) => Holds(new, at, k, others)

LEMMA OpenExecutionKeeps == ASSUME EncodingInv, OpenExecution PROVE EncodingInv'
<1> DEFINE first == Write(opening, PathAt(round), PathAt(round) + PathSize, Piece("path", round, PathSize))
           second == Write(first, HiddenAt(round), HiddenAt(round) + DigestSize,
                           Piece("hidden", round, DigestSize))
           third == Write(second, PartialAt(round), PartialAt(round) + PartialDeltaSize,
                          PartialDelta(round))
<1>1. /\ phase = "open" /\ phase' = "open" /\ round < Tau /\ round' = round + 1
      /\ opening' = third /\ UNCHANGED <<keys, vector>>
      /\ UNCHANGED <<publicKey, secretKey, secret, serialized, alphaOffset, signature, parsed>>
  BY DEF OpenExecution, At, keys, vector, PathAt, HiddenAt, PartialAt
<1>2. round \in 0 .. Tau - 1 /\ Tau \in Nat
  BY <1>1, SizeFacts DEF EncodingInv, Control
<1>3. /\ PathSize \in Nat /\ DigestSize \in Nat /\ PartialDeltaSize \in Nat /\ OpeningSize \in Nat
      /\ PathsSize \in Nat /\ PartialDeltasOffset \in Nat
  BY SizeFacts, OffsetFacts
<1>4. /\ PathAt(round) \in Nat /\ PathAt(round) + PathSize <= PathsSize
      /\ HiddenAt(round) \in Nat /\ PathsSize <= HiddenAt(round)
      /\ HiddenAt(round) + DigestSize <= PartialDeltasOffset
      /\ PartialAt(round) \in Nat /\ PartialDeltasOffset <= PartialAt(round)
      /\ PartialAt(round) + PartialDeltaSize <= OpeningSize
  BY <1>2, OpeningBlocks
<1>5. /\ PathAt(round) + PathSize \in Nat /\ PathAt(round) + PathSize <= OpeningSize
      /\ HiddenAt(round) + DigestSize \in Nat /\ HiddenAt(round) + DigestSize <= OpeningSize
      /\ PartialAt(round) + PartialDeltaSize \in Nat
  BY <1>3, <1>4
<1>6. /\ IsBuffer(first, OpeningSize)
      /\ Holds(first, PathAt(round), PathSize, Piece("path", round, PathSize))
      /\ Spares(opening, first, OpeningSize, PathAt(round), PathAt(round) + PathSize)
  <2> DEFINE from == PathAt(round)
             to == PathAt(round) + PathSize
  <2>1. from \in Nat /\ to \in Nat /\ to = from + PathSize /\ to <= OpeningSize
    BY <1>4, <1>5
  <2>2. IsBuffer(opening, OpeningSize) /\ DOMAIN Piece("path", round, PathSize) = 0 .. PathSize - 1
    BY <1>3, PieceFacts DEF EncodingInv, Buffers
  <2>3. first = Write(opening, from, to, Piece("path", round, PathSize))
    OBVIOUS
  <2> HIDE DEF first, from, to
  <2>4. /\ IsBuffer(first, OpeningSize)
        /\ Holds(first, from, PathSize, Piece("path", round, PathSize))
        /\ Spares(opening, first, OpeningSize, from, to)
    BY <1>3, <2>1, <2>2, <2>3, WriteHolds DEF Spares
  <2> QED BY <2>4 DEF from, to
<1> HIDE DEF first
<1>7. /\ IsBuffer(second, OpeningSize)
      /\ Holds(second, HiddenAt(round), DigestSize, Piece("hidden", round, DigestSize))
      /\ Spares(first, second, OpeningSize, HiddenAt(round), HiddenAt(round) + DigestSize)
  <2> DEFINE from == HiddenAt(round)
             to == HiddenAt(round) + DigestSize
  <2>1. from \in Nat /\ to \in Nat /\ to = from + DigestSize /\ to <= OpeningSize
    BY <1>4, <1>5
  <2>2. DOMAIN Piece("hidden", round, DigestSize) = 0 .. DigestSize - 1
    BY <1>3, PieceFacts
  <2>3. second = Write(first, from, to, Piece("hidden", round, DigestSize))
    OBVIOUS
  <2> HIDE DEF second, from, to
  <2>4. /\ IsBuffer(second, OpeningSize)
        /\ Holds(second, from, DigestSize, Piece("hidden", round, DigestSize))
        /\ Spares(first, second, OpeningSize, from, to)
    BY <1>3, <1>6, <2>1, <2>2, <2>3, WriteHolds DEF Spares
  <2> QED BY <2>4 DEF from, to
<1> HIDE DEF second
<1>8. /\ IsBuffer(third, OpeningSize)
      /\ Holds(third, PartialAt(round), PartialDeltaSize, PartialDelta(round))
      /\ Spares(second, third, OpeningSize, PartialAt(round), PartialAt(round) + PartialDeltaSize)
  <2> DEFINE from == PartialAt(round)
             to == PartialAt(round) + PartialDeltaSize
  <2>1. from \in Nat /\ to \in Nat /\ to = from + PartialDeltaSize /\ to <= OpeningSize
    BY <1>4, <1>5
  <2>2. DOMAIN PartialDelta(round) = 0 .. PartialDeltaSize - 1
    BY PartialDeltaFacts DEF EncodingInv, Buffers
  <2>3. third = Write(second, from, to, PartialDelta(round))
    OBVIOUS
  <2> HIDE DEF third, from, to
  <2>4. /\ IsBuffer(third, OpeningSize)
        /\ Holds(third, from, PartialDeltaSize, PartialDelta(round))
        /\ Spares(second, third, OpeningSize, from, to)
    BY <1>3, <1>7, <2>1, <2>2, <2>3, WriteHolds DEF Spares
  <2> QED BY <2>4 DEF from, to
<1> HIDE DEF third
<1>9. Buffers'
  BY <1>1, <1>8 DEF EncodingInv, Buffers
<1>10. Control'
  <2>1. round + 1 \in Nat /\ round + 1 <= Tau
    BY <1>1, <1>2
  <2> QED BY <1>1, <2>1 DEF Control, BeforeAlpha, FromAlpha, FromOpen
<1>11. KeyWritten' /\ VectorKept' /\ VerifierReadsSigner'
  BY <1>1, KeyStands, VectorStands, NotParsed DEF FromHeader, FromAlpha, FromOpen, Sent
<1>12. OpeningWritten'
  <2>1. ASSUME NEW e \in 0 .. Tau - 1, e < round + 1 PROVE OpenedHeld(e)'
    <3>1. /\ PathAt(e) \in Nat /\ PathAt(e) + PathSize <= PathsSize
          /\ HiddenAt(e) \in Nat /\ PathsSize <= HiddenAt(e)
          /\ HiddenAt(e) + DigestSize <= PartialDeltasOffset
          /\ PartialAt(e) \in Nat /\ PartialDeltasOffset <= PartialAt(e)
          /\ PartialAt(e) + PartialDeltaSize <= OpeningSize
      BY OpeningBlocks
    <3>2. /\ PathAt(e) + PathSize <= OpeningSize /\ HiddenAt(e) + DigestSize <= OpeningSize
          /\ PathAt(e) + PathSize <= HiddenAt(round) /\ PathAt(e) + PathSize <= PartialAt(round)
          /\ PathAt(round) + PathSize <= HiddenAt(e) /\ HiddenAt(e) + DigestSize <= PartialAt(round)
          /\ PathAt(round) + PathSize <= PartialAt(e)
          /\ HiddenAt(round) + DigestSize <= PartialAt(e)
      BY <1>3, <1>4, <3>1
    <3>3. CASE e = round
      <4>1. Holds(third, PathAt(e), PathSize, Piece("path", e, PathSize))
        <5>1. Holds(second, PathAt(e), PathSize, Piece("path", e, PathSize))
          BY <1>3, <1>6, <1>7, <3>1, <3>2, <3>3 DEF Spares
        <5> QED BY <1>3, <1>8, <3>1, <3>2, <5>1 DEF Spares
      <4>2. Holds(third, HiddenAt(e), DigestSize, Piece("hidden", e, DigestSize))
        <5>1. Holds(second, HiddenAt(e), DigestSize, Piece("hidden", e, DigestSize))
          BY <1>7, <3>3
        <5> QED BY <1>3, <1>8, <3>1, <3>2, <5>1 DEF Spares
      <4>3. Holds(third, PartialAt(e), PartialDeltaSize, PartialDelta(e))
        BY <1>8, <3>3
      <4> QED BY <1>1, <4>1, <4>2, <4>3 DEF OpenedHeld, PathHeld, HiddenHeld, PartialHeld, PartialDelta
    <3>4. CASE e < round
      <4>1. OpenedHeld(e)
        BY <1>1, <3>4 DEF EncodingInv, OpeningWritten, FromOpen
      <4>2. /\ PathAt(e) + PathSize <= PathAt(round)
            /\ HiddenAt(e) + DigestSize <= HiddenAt(round)
            /\ PartialAt(e) + PartialDeltaSize <= PartialAt(round)
        <5>1. e \in 0 .. round - 1
          BY <1>2, <3>4
        <5> QED BY <1>2, <5>1, OpeningBlocks
      <4>3. Holds(third, PathAt(e), PathSize, Piece("path", e, PathSize))
        <5>1. Holds(first, PathAt(e), PathSize, Piece("path", e, PathSize))
          BY <1>3, <1>6, <3>1, <3>2, <4>1, <4>2 DEF Spares, OpenedHeld, PathHeld
        <5>2. Holds(second, PathAt(e), PathSize, Piece("path", e, PathSize))
          BY <1>3, <1>7, <3>1, <3>2, <5>1 DEF Spares
        <5> QED BY <1>3, <1>8, <3>1, <3>2, <5>2 DEF Spares
      <4>4. Holds(third, HiddenAt(e), DigestSize, Piece("hidden", e, DigestSize))
        <5>1. Holds(first, HiddenAt(e), DigestSize, Piece("hidden", e, DigestSize))
          BY <1>3, <1>6, <3>1, <3>2, <4>1 DEF Spares, OpenedHeld, HiddenHeld
        <5>2. Holds(second, HiddenAt(e), DigestSize, Piece("hidden", e, DigestSize))
          BY <1>3, <1>7, <3>1, <3>2, <4>2, <5>1 DEF Spares
        <5> QED BY <1>3, <1>8, <3>1, <3>2, <5>2 DEF Spares
      <4>5. Holds(third, PartialAt(e), PartialDeltaSize, PartialDelta(e))
        <5>1. Holds(first, PartialAt(e), PartialDeltaSize, PartialDelta(e))
          BY <1>3, <1>6, <3>1, <3>2, <4>1 DEF Spares, OpenedHeld, PartialHeld
        <5>2. Holds(second, PartialAt(e), PartialDeltaSize, PartialDelta(e))
          BY <1>3, <1>7, <3>1, <3>2, <5>1 DEF Spares
        <5> QED BY <1>3, <1>8, <3>1, <4>2, <5>2 DEF Spares
      <4> QED BY <1>1, <4>3, <4>4, <4>5 DEF OpenedHeld, PathHeld, HiddenHeld, PartialHeld, PartialDelta
    <3> QED BY <1>2, <2>1, <3>3, <3>4
  <2> QED BY <1>1, <2>1 DEF OpeningWritten
<1>13. SignatureWritten'
  <2>1. \A t \in 0 .. AlphaCount - 1 : AlphaHeld(t)'
    BY <1>1 DEF EncodingInv, SignatureWritten, AlphaHeld, Element, FromAlpha, FromOpen
  <2> QED BY <1>1, <2>1 DEF EncodingInv, SignatureWritten, FromAlpha, FromOpen, Sent
<1> QED BY <1>9, <1>10, <1>11, <1>12, <1>13 DEF EncodingInv

LEMMA WriteOpeningKeeps == ASSUME EncodingInv, WriteOpening PROVE EncodingInv'
<1> DEFINE filled == Write(signature, OpeningOffset, NonceOffset, opening)
           ended == Write(filled, NonceOffset, SignatureSize, Piece("nonce", 0, NonceSize))
<1>1. /\ phase = "open" /\ phase' = "import signature" /\ round = Tau /\ round' = 0
      /\ signature' = ended /\ UNCHANGED <<keys, vector>>
      /\ UNCHANGED <<publicKey, secretKey, secret, serialized, alphaOffset, opening, parsed>>
  BY DEF WriteOpening, At, keys, vector
<1>2. DOMAIN opening = 0 .. OpeningSize - 1
  BY DEF EncodingInv, Buffers, IsBuffer
<1>3. NonceOffset <= SignatureSize /\ SignatureSize <= SignatureSize /\ 4 \in Nat /\ NonceSize = 4
  BY SignatureLayout DEF NonceSize
<1>4. /\ IsBuffer(filled, SignatureSize)
      /\ Holds(filled, OpeningOffset, OpeningSize, opening)
      /\ Spares(signature, filled, SignatureSize, OpeningOffset, NonceOffset)
  BY <1>2, <1>3, SignatureLayout, WriteHolds DEF EncodingInv, Buffers, Spares
<1> HIDE DEF filled
<1>5. DOMAIN Piece("nonce", 0, 4) = 0 .. 4 - 1
  BY <1>3, PieceFacts
<1>6. /\ IsBuffer(ended, SignatureSize)
      /\ Holds(ended, NonceOffset, 4, Piece("nonce", 0, 4))
      /\ Spares(filled, ended, SignatureSize, NonceOffset, SignatureSize)
  <2>1. ended = Write(filled, NonceOffset, SignatureSize, Piece("nonce", 0, 4))
    BY <1>3
  <2>2. NonceOffset \in Nat /\ SignatureSize \in Nat /\ SignatureSize = NonceOffset + 4
    BY SignatureLayout
  <2> HIDE DEF ended
  <2> QED BY <1>3, <1>4, <1>5, <2>1, <2>2, WriteHolds DEF Spares
<1> HIDE DEF ended
<1>7. ASSUME NEW at \in Nat, NEW k \in Nat, NEW others, at + k <= OpeningOffset, Holds(signature, at, k, others)
      PROVE  Holds(ended, at, k, others)
  <2>1. at + k <= NonceOffset /\ at + k <= SignatureSize
    BY <1>7, SignatureLayout
  <2>2. Holds(filled, at, k, others)
    BY <1>4, <1>7, <2>1 DEF Spares
  <2> QED BY <1>6, <2>1, <2>2 DEF Spares
<1>8. Holds(ended, OpeningOffset, OpeningSize, opening)
  <2>1. OpeningOffset + OpeningSize <= NonceOffset /\ OpeningOffset + OpeningSize <= SignatureSize
    BY SignatureLayout
  <2> QED BY <1>4, <1>6, <2>1, SignatureLayout DEF Spares
<1>9. Buffers'
  BY <1>1, <1>6 DEF EncodingInv, Buffers
<1>10. Control'
  BY <1>1 DEF Control, BeforeAlpha, FromAlpha, FromOpen, Sent
<1>11. KeyWritten' /\ VectorKept' /\ VerifierReadsSigner'
  BY <1>1, KeyStands, VectorStands, NotParsed DEF FromHeader, FromAlpha, FromOpen, Sent
<1>12. OpeningWritten'
  <2>1. ASSUME NEW e \in 0 .. Tau - 1 PROVE OpenedHeld(e)'
    <3>1. e < Tau
      BY SizeFacts
    <3>2. OpenedHeld(e)
      BY <1>1, <3>1 DEF EncodingInv, OpeningWritten, FromOpen
    <3> QED BY <1>1, <3>2 DEF OpenedHeld, PathHeld, HiddenHeld, PartialHeld, PartialDelta
  <2> QED BY <2>1 DEF OpeningWritten
<1>13. SignatureWritten'
  <2>1. /\ Holds(ended, 0, SaltSize, Piece("salt", 0, SaltSize))
        /\ Holds(ended, FirstOffset, DigestSize, Piece("first", 0, DigestSize))
        /\ Holds(ended, SecondOffset, DigestSize, Piece("second", 0, DigestSize))
    <3>1. /\ Holds(signature, 0, SaltSize, Piece("salt", 0, SaltSize))
          /\ Holds(signature, FirstOffset, DigestSize, Piece("first", 0, DigestSize))
          /\ Holds(signature, SecondOffset, DigestSize, Piece("second", 0, DigestSize))
      BY <1>1 DEF EncodingInv, SignatureWritten, FromAlpha, FromOpen
    <3>2. /\ 0 + SaltSize <= OpeningOffset /\ FirstOffset + DigestSize <= OpeningOffset
          /\ SecondOffset + DigestSize <= OpeningOffset
      BY SignatureLayout
    <3> QED BY <1>7, <3>1, <3>2, SignatureLayout
  <2>2. ASSUME NEW t \in 0 .. AlphaCount - 1 PROVE AlphaHeld(t)'
    <3>1. AlphaHeld(t)
      BY <1>1 DEF EncodingInv, SignatureWritten, FromAlpha, FromOpen
    <3> DEFINE at == AlphaOneOffset + 2 * t
    <3>2. at \in Nat /\ at + 2 <= OpeningOffset
      BY SignatureLayout
    <3>3. Holds(signature, at, 2, Element(t))
      BY <3>1 DEF AlphaHeld
    <3> HIDE DEF at
    <3>4. Holds(ended, at, 2, Element(t))
      BY <1>7, <3>2, <3>3
    <3> QED BY <1>1, <3>4 DEF AlphaHeld, Element, at
  <2> QED BY <1>1, <1>6, <1>8, <2>1, <2>2 DEF SignatureWritten
<1> QED BY <1>9, <1>10, <1>11, <1>12, <1>13 DEF EncodingInv

LEMMA ImportSignatureKeeps == ASSUME EncodingInv, ImportSignature PROVE EncodingInv'
<1>1. /\ phase = "import signature" /\ round' = round /\ UNCHANGED <<keys, vector>>
      /\ UNCHANGED <<publicKey, secretKey, secret, serialized, alphaOffset, signature, opening, parsed>>
  BY DEF ImportSignature, At, keys, vector, signing
<1>2. phase' \in {"parse", "refused"}
  BY DEF ImportSignature, Imported
<1>3. round' = 0
  BY <1>1 DEF EncodingInv, Control
<1>4. Buffers'
  BY <1>1 DEF EncodingInv, Buffers
<1>5. Control'
  BY <1>2, <1>3 DEF Control, BeforeAlpha, FromAlpha, FromOpen, Sent
<1>6. KeyWritten' /\ VerifierReadsSigner'
  BY <1>1, <1>2, KeyStands, NotParsed
<1>7. VectorKept'
  BY <1>1, <1>2, VectorStands, NothingUnpacked DEF FromHeader, FromAlpha, FromOpen, Sent
<1>8. OpeningWritten'
  <2>1. \A e \in 0 .. Tau - 1 : OpenedHeld(e)'
    BY <1>1 DEF EncodingInv, OpeningWritten, FromOpen, Sent,
                OpenedHeld, PathHeld, HiddenHeld, PartialHeld, PartialDelta
  <2> QED BY <2>1 DEF OpeningWritten
<1>9. SignatureWritten'
  <2>1. \A t \in 0 .. AlphaCount - 1 : AlphaHeld(t)'
    BY <1>1 DEF EncodingInv, SignatureWritten, AlphaHeld, Element, FromAlpha, FromOpen, Sent
  <2> QED BY <1>1, <2>1 DEF EncodingInv, SignatureWritten, FromAlpha, FromOpen, Sent
<1> QED BY <1>4, <1>5, <1>6, <1>7, <1>8, <1>9 DEF EncodingInv

(* The coefficient of an execution and a component. *)
LEMMA ReadAlpha ==
  ASSUME NEW alpha, IsBuffer(alpha, 2 * AlphaCount),
         \A t \in 0 .. AlphaCount - 1 : Holds(alpha, 2 * t, 2, Element(t)),
         NEW e \in 0 .. Tau - 1, NEW c \in 0 .. Eta - 1
  PROVE  Coefficients(alpha, e)[c] = Element(e * Eta + c)
<1> DEFINE begin == e * Eta
           t == begin + c
           from == 2 * begin
           to == 2 * begin + 2 * Eta
           chunk == Slice(alpha, from, to)
<1>1. begin \in Nat /\ begin + Eta <= AlphaCount /\ AlphaCount \in Nat /\ Eta \in Nat
  BY SizeFacts, BlockFits, SignatureLayout DEF AlphaCount
<1>2. e * Eta * EncodedLen = from /\ (e + 1) * Eta * EncodedLen = to /\ c * EncodedLen = 2 * c
  <2>1. Eta \in Int /\ e \in Int
    BY SizeFacts
  <2>2. (e + 1) * Eta = begin + Eta
    BY <2>1
  <2> HIDE DEF begin
  <2> QED BY <1>1, <2>2 DEF EncodedLen, begin
<1> HIDE DEF begin
<1>3. Coefficients(alpha, e)[c] = Slice(chunk, 2 * c, 2 * c + 2)
  BY <1>2 DEF Coefficients, EncodedLen
<1>4. /\ t \in 0 .. AlphaCount - 1 /\ from \in Nat /\ to \in Nat /\ to = from + 2 * Eta
      /\ to <= 2 * AlphaCount /\ 2 * t = from + 2 * c /\ 2 * AlphaCount \in Nat /\ 2 * Eta \in Nat
      /\ 2 * c \in Nat /\ 2 * c + 2 \in Nat /\ 2 * c + 2 <= 2 * Eta
  BY <1>1
<1>5. Holds(alpha, from + 2 * c, 2, Element(t))
  BY <1>4
<1>6. IsBuffer(Element(t), 2)
  BY PieceFacts DEF Element, EncodedLen
<1> HIDE DEF t, from, to
<1>7. IsBuffer(chunk, 2 * Eta) /\ Holds(chunk, 2 * c, 2, Element(t))
  <2> DEFINE whole == 2 * AlphaCount
             part == 2 * Eta
             at == 2 * c
  <2>1. whole \in Nat /\ part \in Nat /\ at \in Nat /\ at + 2 <= part /\ to = from + part /\ to <= whole
    BY <1>4
  <2>2. IsBuffer(alpha, whole) /\ Holds(alpha, from + at, 2, Element(t))
    BY <1>5
  <2> HIDE DEF whole, part, at
  <2>3. IsBuffer(chunk, part) /\ Holds(chunk, at, 2, Element(t))
    BY <1>4, <2>1, <2>2, SliceKeeps
  <2> QED BY <2>3 DEF part, at
<1> HIDE DEF chunk
<1>8. Slice(chunk, 2 * c, 2 * c + 2) = Element(t)
  <2> DEFINE part == 2 * Eta
             at == 2 * c
             last == 2 * c + 2
  <2>1. part \in Nat /\ at \in Nat /\ last \in Nat /\ last = at + 2 /\ last <= part
    BY <1>4
  <2>2. IsBuffer(chunk, part) /\ Holds(chunk, at, 2, Element(t))
    BY <1>7
  <2> HIDE DEF part, at, last
  <2>3. Slice(chunk, at, last) = Element(t)
    BY <1>6, <2>1, <2>2, SliceHolds
  <2> QED BY <2>3 DEF at, last
<1> QED BY <1>3, <1>8 DEF t, begin

(* What one execution reads from an opening. *)
LEMMA ReadOpened ==
  ASSUME IsBuffer(opening, OpeningSize), IsBuffer(serialized, VectorSize),
         NEW e \in 0 .. Tau - 1, OpenedHeld(e)
  PROVE  Opened(opening, e) = [path |-> Piece("path", e, PathSize),
                               hidden |-> Piece("hidden", e, DigestSize), partial |-> PartialDelta(e)]
<1>1. /\ PathSize \in Nat /\ DigestSize \in Nat /\ PartialDeltaSize \in Nat /\ OpeningSize \in Nat
      /\ PathsSize \in Nat /\ PartialDeltasOffset \in Nat
  BY SizeFacts, OffsetFacts
<1>2. /\ PathAt(e) \in Nat /\ PathAt(e) + PathSize \in Nat /\ PathAt(e) + PathSize <= OpeningSize
      /\ HiddenAt(e) \in Nat /\ HiddenAt(e) + DigestSize \in Nat
      /\ HiddenAt(e) + DigestSize <= OpeningSize
      /\ PartialAt(e) \in Nat /\ PartialAt(e) + PartialDeltaSize \in Nat
      /\ PartialAt(e) + PartialDeltaSize <= OpeningSize
  <2>1. /\ PathAt(e) \in Nat /\ PathAt(e) + PathSize <= PathsSize
        /\ HiddenAt(e) \in Nat /\ PathsSize <= HiddenAt(e)
        /\ HiddenAt(e) + DigestSize <= PartialDeltasOffset
        /\ PartialAt(e) \in Nat /\ PartialDeltasOffset <= PartialAt(e)
        /\ PartialAt(e) + PartialDeltaSize <= OpeningSize
    BY OpeningBlocks
  <2> QED BY <1>1, <2>1
<1>3. /\ IsBuffer(Piece("path", e, PathSize), PathSize)
      /\ IsBuffer(Piece("hidden", e, DigestSize), DigestSize)
      /\ IsBuffer(PartialDelta(e), PartialDeltaSize)
  BY <1>1, PieceFacts, PartialDeltaFacts
<1>4. Slice(opening, PathAt(e), PathAt(e) + PathSize) = Piece("path", e, PathSize)
  <2> DEFINE last == PathAt(e) + PathSize
  <2>1. last \in Nat /\ last = PathAt(e) + PathSize /\ last <= OpeningSize
    BY <1>2
  <2> HIDE DEF last
  <2>2. Slice(opening, PathAt(e), last) = Piece("path", e, PathSize)
    BY <1>1, <1>2, <1>3, <2>1, SliceHolds DEF OpenedHeld, PathHeld
  <2> QED BY <2>2 DEF last
<1>5. Slice(opening, HiddenAt(e), HiddenAt(e) + DigestSize) = Piece("hidden", e, DigestSize)
  <2> DEFINE last == HiddenAt(e) + DigestSize
  <2>1. last \in Nat /\ last = HiddenAt(e) + DigestSize /\ last <= OpeningSize
    BY <1>2
  <2> HIDE DEF last
  <2>2. Slice(opening, HiddenAt(e), last) = Piece("hidden", e, DigestSize)
    BY <1>1, <1>2, <1>3, <2>1, SliceHolds DEF OpenedHeld, HiddenHeld
  <2> QED BY <2>2 DEF last
<1>6. Slice(opening, PartialAt(e), PartialAt(e) + PartialDeltaSize) = PartialDelta(e)
  <2> DEFINE last == PartialAt(e) + PartialDeltaSize
  <2>1. last \in Nat /\ last = PartialAt(e) + PartialDeltaSize /\ last <= OpeningSize
    BY <1>2
  <2> HIDE DEF last
  <2>2. Slice(opening, PartialAt(e), last) = PartialDelta(e)
    BY <1>1, <1>2, <1>3, <2>1, SliceHolds DEF OpenedHeld, PartialHeld
  <2> QED BY <2>2 DEF last
<1> QED BY <1>4, <1>5, <1>6 DEF Opened, PathAt, HiddenAt, PartialAt

(* What the commitment absorbs for that execution. *)
LEMMA ReadCommitted ==
  ASSUME IsBuffer(opening, OpeningSize), IsBuffer(serialized, VectorSize),
         NEW e \in 0 .. Tau - 1, OpenedHeld(e)
  PROVE  Slice(Slice(opening, PartialDeltasOffset, OpeningSize),
               e * PartialDeltaSize, (e + 1) * PartialDeltaSize) = PartialDelta(e)
<1> DEFINE committed == Slice(opening, PartialDeltasOffset, OpeningSize)
           size == PartialDeltaSize
           all == Tau * PartialDeltaSize
           at == e * PartialDeltaSize
           last == e * PartialDeltaSize + PartialDeltaSize
<1>1. /\ size \in Nat /\ all \in Nat /\ at \in Nat /\ last \in Nat /\ last = at + size /\ last <= all
      /\ (e + 1) * PartialDeltaSize = last
  <2>1. PartialDeltaSize \in Nat /\ Tau \in Nat
    BY SizeFacts
  <2>2. at \in Nat /\ at + size <= all
    BY <2>1, BlockFits
  <2>3. (e + 1) * PartialDeltaSize = last
    BY <2>1
  <2>4. all \in Nat
    BY <2>1, ProductTyped
  <2> HIDE DEF at, all
  <2> QED BY <2>1, <2>2, <2>3, <2>4 DEF at
<1>2. /\ PartialDeltasOffset \in Nat /\ OpeningSize \in Nat /\ OpeningSize = PartialDeltasOffset + all
      /\ OpeningSize <= OpeningSize
  BY OffsetFacts
<1>3. Holds(opening, PartialDeltasOffset + at, size, PartialDelta(e))
  BY DEF OpenedHeld, PartialHeld, PartialAt
<1>4. IsBuffer(PartialDelta(e), size)
  BY PartialDeltaFacts
<1> HIDE DEF size, all, at, last
<1>5. IsBuffer(committed, all) /\ Holds(committed, at, size, PartialDelta(e))
  <2>1. at + size <= all
    BY <1>1
  <2> QED BY <1>1, <1>2, <1>3, <2>1, SliceKeeps
<1> HIDE DEF committed
<1>6. Slice(committed, at, last) = PartialDelta(e)
  BY <1>1, <1>4, <1>5, SliceHolds
<1> QED BY <1>1, <1>6 DEF committed, at, last

LEMMA ParseKeeps == ASSUME EncodingInv, Parse PROVE EncodingInv'
<1> DEFINE alpha == Slice(signature, AlphaOneOffset, OpeningOffset)
           received == Slice(signature, OpeningOffset, NonceOffset)
<1>1. /\ phase = "parse" /\ phase' = "parsed" /\ round' = round /\ UNCHANGED <<keys, vector>>
      /\ UNCHANGED <<publicKey, secretKey, secret, serialized, alphaOffset, signature, opening>>
  BY DEF Parse, At, keys, vector, signing
<1>2. /\ parsed'.salt = Slice(signature, 0, SaltSize)
      /\ parsed'.first = Slice(signature, FirstOffset, FirstOffset + DigestSize)
      /\ parsed'.second = Slice(signature, SecondOffset, SecondOffset + DigestSize)
      /\ parsed'.alpha = [e \in 0 .. Tau - 1 |-> Coefficients(alpha, e)]
      /\ parsed'.opened = [e \in 0 .. Tau - 1 |-> Opened(received, e)]
      /\ parsed'.committed = Slice(received, PartialDeltasOffset, OpeningSize)
      /\ parsed'.nonce = Slice(signature, NonceOffset, SignatureSize)
  BY DEF Parse
<1>3. /\ IsBuffer(signature, SignatureSize) /\ IsBuffer(opening, OpeningSize)
      /\ IsBuffer(serialized, VectorSize)
  BY DEF EncodingInv, Buffers
<1>4. /\ Holds(signature, 0, SaltSize, Piece("salt", 0, SaltSize))
      /\ Holds(signature, FirstOffset, DigestSize, Piece("first", 0, DigestSize))
      /\ Holds(signature, SecondOffset, DigestSize, Piece("second", 0, DigestSize))
      /\ Holds(signature, OpeningOffset, OpeningSize, opening)
      /\ Holds(signature, NonceOffset, 4, Piece("nonce", 0, 4))
      /\ \A t \in 0 .. AlphaCount - 1 : AlphaHeld(t)
      /\ \A e \in 0 .. Tau - 1 : OpenedHeld(e)
  BY <1>1 DEF EncodingInv, SignatureWritten, OpeningWritten, FromAlpha, FromOpen, Sent
<1>5. Slice(signature, 0, SaltSize) = Piece("salt", 0, SaltSize)
  <2>1. SaltSize = 0 + SaltSize /\ SaltSize <= SignatureSize /\ 0 \in Nat
    BY SignatureLayout
  <2> QED BY <1>3, <1>4, <2>1, SignatureLayout, PieceFacts, SliceHolds
<1>6. Slice(signature, FirstOffset, SecondOffset) = Piece("first", 0, DigestSize)
  <2>1. SecondOffset <= SignatureSize
    BY SignatureLayout
  <2> QED BY <1>3, <1>4, <2>1, SignatureLayout, PieceFacts, SliceHolds
<1>7. Slice(signature, SecondOffset, AlphaOneOffset) = Piece("second", 0, DigestSize)
  <2>1. AlphaOneOffset <= SignatureSize
    BY SignatureLayout
  <2> QED BY <1>3, <1>4, <2>1, SignatureLayout, PieceFacts, SliceHolds
<1>8. Slice(signature, NonceOffset, SignatureSize) = Piece("nonce", 0, NonceSize)
  <2>1. 4 \in Nat /\ NonceSize = 4 /\ SignatureSize <= SignatureSize
    BY SignatureLayout DEF NonceSize
  <2>2. IsBuffer(Piece("nonce", 0, 4), 4)
    BY <2>1, PieceFacts
  <2>3. NonceOffset \in Nat /\ SignatureSize \in Nat /\ SignatureSize = NonceOffset + 4
    BY SignatureLayout
  <2>4. Slice(signature, NonceOffset, SignatureSize) = Piece("nonce", 0, 4)
    BY <1>3, <1>4, <2>1, <2>2, <2>3, SliceHolds
  <2> QED BY <2>1, <2>4
<1>9. received = opening
  <2>1. /\ OpeningOffset \in Nat /\ NonceOffset \in Nat /\ OpeningSize \in Nat /\ SignatureSize \in Nat
        /\ NonceOffset = OpeningOffset + OpeningSize /\ NonceOffset <= SignatureSize
    BY SignatureLayout
  <2> QED BY <1>3, <1>4, <2>1, SliceHolds
<1>10. ASSUME NEW e \in 0 .. Tau - 1, NEW c \in 0 .. Eta - 1
       PROVE  Coefficients(alpha, e)[c] = Element(e * Eta + c)
  <2> DEFINE whole == 2 * AlphaCount
  <2>1. /\ AlphaOneOffset \in Nat /\ OpeningOffset \in Nat /\ whole \in Nat /\ SignatureSize \in Nat
        /\ OpeningOffset = AlphaOneOffset + whole /\ OpeningOffset <= SignatureSize
    BY SignatureLayout
  <2>2. ASSUME NEW t \in 0 .. AlphaCount - 1
        PROVE  /\ 2 * t \in Nat /\ 2 * t + 2 <= whole
               /\ Holds(signature, AlphaOneOffset + 2 * t, 2, Element(t))
    BY <1>4, SignatureLayout DEF AlphaHeld
  <2> HIDE DEF whole
  <2>3. /\ IsBuffer(alpha, whole)
        /\ \A at, k \in Nat : \A bytes :
             at + k <= whole /\ Holds(signature, AlphaOneOffset + at, k, bytes)
               => Holds(alpha, at, k, bytes)
    BY <1>3, <2>1, SliceKeeps
  <2> HIDE DEF alpha
  <2>4. \A t \in 0 .. AlphaCount - 1 : Holds(alpha, 2 * t, 2, Element(t))
    BY <2>2, <2>3
  <2> QED BY <2>3, <2>4, ReadAlpha DEF whole
<1>11. ASSUME NEW e \in 0 .. Tau - 1
       PROVE  /\ Opened(received, e) = [path |-> Piece("path", e, PathSize),
                                        hidden |-> Piece("hidden", e, DigestSize),
                                        partial |-> PartialDelta(e)]
              /\ Slice(Slice(received, PartialDeltasOffset, OpeningSize),
                       e * PartialDeltaSize, (e + 1) * PartialDeltaSize) = PartialDelta(e)
  BY <1>3, <1>4, <1>9, ReadOpened, ReadCommitted
<1> HIDE DEF alpha, received
<1>12. VerifierReadsSigner'
  <2>1. \A e \in 0 .. Tau - 1 : PartialDelta(e)' = PartialDelta(e)
    BY <1>1 DEF PartialDelta
  <2>2. FirstOffset + DigestSize = SecondOffset /\ SecondOffset + DigestSize = AlphaOneOffset
    BY SignatureLayout
  <2>3. /\ parsed'.salt = Piece("salt", 0, SaltSize) /\ parsed'.nonce = Piece("nonce", 0, NonceSize)
        /\ parsed'.first = Piece("first", 0, DigestSize) /\ parsed'.second = Piece("second", 0, DigestSize)
    BY <1>2, <1>5, <1>6, <1>7, <1>8, <2>2
  <2>4. \A e \in 0 .. Tau - 1, c \in 0 .. Eta - 1 : parsed'.alpha[e][c] = Element(e * Eta + c)
    BY <1>2, <1>10
  <2>5. \A e \in 0 .. Tau - 1 :
          /\ parsed'.opened[e] = [path |-> Piece("path", e, PathSize),
                                  hidden |-> Piece("hidden", e, DigestSize), partial |-> PartialDelta(e)]
          /\ Slice(parsed'.committed, e * PartialDeltaSize, (e + 1) * PartialDeltaSize) = PartialDelta(e)
    BY <1>2, <1>11
  <2> QED BY <2>1, <2>3, <2>4, <2>5 DEF VerifierReadsSigner, Element
<1>13. Buffers'
  BY <1>1 DEF EncodingInv, Buffers
<1>14. round' = 0 /\ Control'
  BY <1>1 DEF EncodingInv, Control, BeforeAlpha, FromAlpha, FromOpen, Sent
<1>15. KeyWritten' /\ VectorKept'
  BY <1>1, KeyStands, VectorStands DEF FromHeader, FromAlpha, FromOpen, Sent
<1>16. OpeningWritten'
  <2>1. \A e \in 0 .. Tau - 1 : OpenedHeld(e)'
    BY <1>1, <1>4 DEF OpenedHeld, PathHeld, HiddenHeld, PartialHeld, PartialDelta
  <2> QED BY <2>1 DEF OpeningWritten
<1>17. SignatureWritten'
  <2>1. \A t \in 0 .. AlphaCount - 1 : AlphaHeld(t)'
    BY <1>1, <1>4 DEF AlphaHeld, Element
  <2> QED BY <1>1, <1>4, <2>1 DEF SignatureWritten
<1> QED BY <1>12, <1>13, <1>14, <1>15, <1>16, <1>17 DEF EncodingInv

LEMMA EncodingStep == EncodingInv /\ [EncodingNext]_encodingVars => EncodingInv'
<1> SUFFICES ASSUME EncodingInv, [EncodingNext]_encodingVars PROVE EncodingInv'
  OBVIOUS
<1>1. CASE WriteSeed BY <1>1, WriteSeedKeeps
<1>2. CASE WriteOutput BY <1>2, WriteOutputKeeps
<1>3. CASE WriteSecretKey BY <1>3, WriteSecretKeyKeeps
<1>4. CASE ImportKey BY <1>4, ImportKeyKeeps
<1>5. CASE UnpackElement BY <1>5, UnpackElementKeeps
<1>6. CASE Unpacked BY <1>6, UnpackedKeeps
<1>7. CASE PackElement BY <1>7, PackElementKeeps
<1>8. CASE Packed BY <1>8, PackedKeeps
<1>9. CASE WriteHeader BY <1>9, WriteHeaderKeeps
<1>10. CASE WriteAlpha BY <1>10, WriteAlphaKeeps
<1>11. CASE WriteSecond BY <1>11, WriteSecondKeeps
<1>12. CASE OpenExecution BY <1>12, OpenExecutionKeeps
<1>13. CASE WriteOpening BY <1>13, WriteOpeningKeeps
<1>14. CASE ImportSignature BY <1>14, ImportSignatureKeeps
<1>15. CASE Parse BY <1>15, ParseKeeps
<1>16. CASE UNCHANGED encodingVars
  <2>1. UNCHANGED <<phase, round, publicKey, secretKey, secret, serialized,
                    alphaOffset, signature, opening, parsed>>
    BY <1>16 DEF encodingVars
  <2>2. Buffers' /\ Control'
    BY <2>1 DEF EncodingInv, Buffers, Control
  <2>3. KeyWritten' /\ VectorKept'
    BY <2>1 DEF EncodingInv, KeyWritten, VectorKept, SeedHeld, OutputHeld, Vector, Half
  <2>4. \A e \in 0 .. Tau - 1 : PartialDelta(e)' = PartialDelta(e)
    BY <2>1 DEF PartialDelta
  <2>5. OpeningWritten'
    BY <2>1, <2>4 DEF EncodingInv, OpeningWritten, OpenedHeld, PathHeld, HiddenHeld, PartialHeld
  <2>6. SignatureWritten'
    BY <2>1 DEF EncodingInv, SignatureWritten, AlphaHeld, Element
  <2>7. VerifierReadsSigner'
    BY <2>1, <2>4 DEF EncodingInv, VerifierReadsSigner, Element
  <2> QED BY <2>2, <2>3, <2>5, <2>6, <2>7 DEF EncodingInv
<1> QED BY <1>1, <1>2, <1>3, <1>4, <1>5, <1>6, <1>7, <1>8, <1>9, <1>10, <1>11, <1>12, <1>13, <1>14,
           <1>15, <1>16 DEF EncodingNext

-----------------------------------------------------------------------------
LEMMA InvNeverPanics == EncodingInv => NeverPanics
<1> SUFFICES ASSUME EncodingInv PROVE NeverPanics
  OBVIOUS
<1>1. /\ publicKey # Panicked /\ secretKey # Panicked /\ signature # Panicked /\ opening # Panicked
  BY SizeFacts, OffsetFacts, NotPanicked DEF EncodingInv, Buffers
<1>2. phase # "none"
  BY DEF EncodingInv, Control, BeforeAlpha, FromAlpha, FromOpen, Sent
<1> QED BY <1>1, <1>2 DEF NeverPanics, Running

(* The vector's half of a secret key. *)
LEMMA KeyHoldsVector ==
  ASSUME EncodingInv, phase \notin {"seed", "output"}
  PROVE  \A i \in 0 .. VectorSize - 1 : secretKey[PublicKeySize + i] = Vector[i]
BY DEF EncodingInv, KeyWritten, Holds

LEMMA InvPackUndoesUnpack == EncodingInv => PackUndoesUnpack
<1> SUFFICES ASSUME EncodingInv, phase = "header"
             PROVE  /\ \A i \in 0 .. MqN - 1 : secret[i] = {i}
                    /\ Delta = Slice(secretKey, PublicKeySize, PublicKeySize + SeedSize)
                    /\ \A e \in 0 .. Tau - 1, i \in 0 .. PartialDeltaSize - 1 :
                         PartialDelta(e)[i][3] = secretKey[PublicKeySize + SeedSize + i]
  BY DEF PackUndoesUnpack
<1>1. serialized = Vector /\ \A i \in 0 .. MqN - 1 : secret[i] = {i}
  BY DEF EncodingInv, VectorKept, FromHeader
<1>2. IsBuffer(serialized, VectorSize) /\ IsBuffer(secretKey, SecretKeySize)
  BY DEF EncodingInv, Buffers
<1>3. \A i \in 0 .. VectorSize - 1 : secretKey[PublicKeySize + i] = Vector[i]
  BY KeyHoldsVector
<1>4. Delta = Slice(secretKey, PublicKeySize, PublicKeySize + SeedSize)
  <2> DEFINE last == PublicKeySize + SeedSize
  <2>1. /\ SeedSize \in Nat /\ VectorSize \in Nat /\ SeedSize = 0 + SeedSize /\ SeedSize <= VectorSize
        /\ PublicKeySize \in Nat /\ SecretKeySize \in Nat /\ last \in Nat /\ 0 \in Nat
        /\ last = PublicKeySize + SeedSize /\ last <= SecretKeySize
    BY SizeFacts
  <2> HIDE DEF last
  <2> DEFINE delta == Slice(secretKey, PublicKeySize, last)
  <2>2. IsBuffer(delta, SeedSize)
    BY <1>2, <2>1, SliceKeeps
  <2>3. \A i \in 0 .. SeedSize - 1 : delta[i] = secretKey[PublicKeySize + i]
    <3>1. DOMAIN secretKey = 0 .. SecretKeySize - 1
      BY <1>2 DEF IsBuffer
    <3>2. PublicKeySize <= last /\ PublicKeySize .. last - 1 \subseteq 0 .. SecretKeySize - 1
          /\ last - PublicKeySize - 1 = SeedSize - 1
      BY <2>1
    <3> QED BY <3>1, <3>2 DEF Slice
  <2> HIDE DEF delta
  <2>4. Holds(serialized, 0, SeedSize, delta)
    <3>1. ASSUME NEW i \in 0 .. SeedSize - 1 PROVE serialized[0 + i] = delta[i]
      <4>1. i \in 0 .. VectorSize - 1 /\ 0 + i = i
        BY <2>1
      <4> QED BY <1>1, <1>3, <2>3, <4>1
    <3> QED BY <3>1 DEF Holds
  <2>5. Slice(serialized, 0, SeedSize) = delta
    BY <1>2, <2>1, <2>2, <2>4, SliceHolds
  <2> QED BY <2>5 DEF Delta, delta, last
<1>5. ASSUME NEW e \in 0 .. Tau - 1, NEW i \in 0 .. PartialDeltaSize - 1
      PROVE  PartialDelta(e)[i][3] = secretKey[PublicKeySize + SeedSize + i]
  <2>1. PartialDelta(e)[i] = <<"masked", e, serialized[SeedSize + i]>>
    BY <1>2, PartialDeltaFacts
  <2>2. SeedSize + i \in 0 .. VectorSize - 1 /\ PublicKeySize + (SeedSize + i) = PublicKeySize + SeedSize + i
    BY SizeFacts
  <2>3. secretKey[PublicKeySize + (SeedSize + i)] = Vector[SeedSize + i]
    BY <1>3, <2>2
  <2> QED BY <1>1, <2>1, <2>2, <2>3
<1> QED BY <1>1, <1>4, <1>5

LEMMA InvKeyReadAsWritten == EncodingInv => KeyReadAsWritten
<1> SUFFICES ASSUME EncodingInv, phase = "unpack"
             PROVE  /\ Slice(secretKey, 0, PublicKeySize) = publicKey
                    /\ Slice(secretKey, 0, KeygenSeedSize) = Piece("seed", 0, KeygenSeedSize)
                    /\ \A q \in 0 .. EquationCount - 1 :
                         Slice(secretKey, KeygenSeedSize + q * EncodedLen,
                               (KeygenSeedSize + q * EncodedLen) + EncodedLen) = Piece("output", q, EncodedLen)
                    /\ Slice(secretKey, PublicKeySize, SecretKeySize) = Vector
  BY DEF KeyReadAsWritten
<1>1. /\ IsBuffer(secretKey, SecretKeySize) /\ IsBuffer(publicKey, PublicKeySize)
      /\ IsBuffer(Vector, VectorSize)
  BY DEF EncodingInv, Buffers, IsBuffer, Vector
<1>2. /\ Holds(secretKey, 0, PublicKeySize, publicKey) /\ Holds(secretKey, PublicKeySize, VectorSize, Vector)
      /\ SeedHeld /\ \A q \in 0 .. EquationCount - 1 : OutputHeld(q)
  BY DEF EncodingInv, KeyWritten
<1>3. /\ PublicKeySize \in Nat /\ SecretKeySize \in Nat /\ VectorSize \in Nat /\ KeygenSeedSize \in Nat
      /\ 0 \in Nat /\ PublicKeySize = 0 + PublicKeySize /\ PublicKeySize <= SecretKeySize
      /\ SecretKeySize = PublicKeySize + VectorSize /\ SecretKeySize <= SecretKeySize
      /\ KeygenSeedSize = 0 + KeygenSeedSize /\ KeygenSeedSize <= PublicKeySize
      /\ KeygenSeedSize <= SecretKeySize
  BY SizeFacts
<1>4. ASSUME NEW at \in Nat, NEW k \in Nat, NEW others, at + k <= PublicKeySize,
             Holds(publicKey, at, k, others)
      PROVE  Holds(secretKey, at, k, others)
  <2>1. ASSUME NEW i \in 0 .. k - 1 PROVE secretKey[at + i] = others[i]
    <3>1. at + i \in 0 .. PublicKeySize - 1 /\ 0 + (at + i) = at + i
      BY <1>3, <1>4
    <3>2. secretKey[at + i] = publicKey[at + i]
      BY <1>2, <3>1 DEF Holds
    <3> QED BY <1>4, <3>2 DEF Holds
  <2> QED BY <2>1 DEF Holds
<1>5. Slice(secretKey, 0, PublicKeySize) = publicKey
  BY <1>1, <1>2, <1>3, SliceHolds
<1>6. Slice(secretKey, PublicKeySize, SecretKeySize) = Vector
  BY <1>1, <1>2, <1>3, SliceHolds
<1>7. Slice(secretKey, 0, KeygenSeedSize) = Piece("seed", 0, KeygenSeedSize)
  <2>1. Holds(secretKey, 0, KeygenSeedSize, Piece("seed", 0, KeygenSeedSize))
    BY <1>2, <1>3, <1>4 DEF SeedHeld
  <2> QED BY <1>1, <1>3, <2>1, PieceFacts, SliceHolds
<1>8. ASSUME NEW q \in 0 .. EquationCount - 1
      PROVE  Slice(secretKey, KeygenSeedSize + q * EncodedLen, (KeygenSeedSize + q * EncodedLen) + EncodedLen)
               = Piece("output", q, EncodedLen)
  <2> DEFINE at == KeygenSeedSize + 2 * q
             last == at + 2
  <2>1. /\ at \in Nat /\ last \in Nat /\ last = at + 2 /\ last <= PublicKeySize /\ last <= SecretKeySize
        /\ KeygenSeedSize + q * EncodedLen = at /\ EncodedLen = 2 /\ 2 \in Nat
    BY <1>3, SizeFacts
  <2>2. Holds(publicKey, at, 2, Piece("output", q, 2)) /\ IsBuffer(Piece("output", q, 2), 2)
    BY <1>2, <2>1, PieceFacts DEF OutputHeld
  <2> HIDE DEF at, last
  <2>3. Holds(secretKey, at, 2, Piece("output", q, 2))
    BY <1>4, <2>1, <2>2
  <2>4. Slice(secretKey, at, last) = Piece("output", q, 2)
    BY <1>1, <1>3, <2>1, <2>2, <2>3, SliceHolds
  <2> QED BY <2>1, <2>4
<1> QED BY <1>5, <1>6, <1>7, <1>8

LEMMA EncodingInvariance == EncodingSpec => []EncodingInv
BY EncodingInitInv, EncodingStep, PTL DEF EncodingSpec

-----------------------------------------------------------------------------
(* Whatever the sizes, no copy is between slices of different lengths,     *)
(* none leaves its buffer, and no check of a length or an offset fails     *)
(* (sign.rs:171, sign.rs:207, blc.rs:390).                                 *)
THEOREM PanicFree == EncodingSpec => []NeverPanics
<1>1. EncodingInv => NeverPanics
  BY InvNeverPanics
<1> QED BY <1>1, EncodingInvariance, PTL

(* The vector packed again is the one of the key, both nibbles of every    *)
(* byte, for a vector of any even length (field.rs:395-424).               *)
THEOREM NibblesSurvive == EncodingSpec => []PackUndoesUnpack
<1>1. EncodingInv => PackUndoesUnpack
  BY InvPackUndoesUnpack
<1> QED BY <1>1, EncodingInvariance, PTL

(* A key is read where it was written: seed, outputs, vector and the       *)
(* public half (keygen.rs:47, keygen.rs:63).                               *)
THEOREM KeyReadCorrect == EncodingSpec => []KeyReadAsWritten
<1>1. EncodingInv => KeyReadAsWritten
  BY InvKeyReadAsWritten
<1> QED BY <1>1, EncodingInvariance, PTL

(* verify finds every piece of a signature, and in the opening every piece *)
(* of every execution, where sign and open put it (verify.rs:128-141,      *)
(* blc.rs:422-430).                                                        *)
THEOREM SignatureReadCorrect == EncodingSpec => []VerifierReadsSigner
<1>1. EncodingInv => VerifierReadsSigner
  BY DEF EncodingInv
<1> QED BY <1>1, EncodingInvariance, PTL
=============================================================================
