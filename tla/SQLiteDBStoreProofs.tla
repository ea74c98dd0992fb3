------------------------- MODULE SQLiteDBStoreProofs -------------------------
(***************************************************************************)
(* What a write() none of whose statements failed leaves in the file.      *)
(***************************************************************************)
EXTENDS SQLiteDBIdProofs

-----------------------------------------------------------------------------
(* How far a process has come.                                             *)

\* The order in which write() calls its functions when none fails.
Rank ==
  [ schema |-> 1, elf |-> 2, elf_again |-> 3, artifacts |-> 4, macros |-> 5,
    encodings |-> 6, symbols |-> 7, targets |-> 8, fields |-> 9,
    dimensions |-> 10, enumerations |-> 11, variables |-> 12, sections |-> 13,
    elf_symbols |-> 14, done |-> 15 ]

\* Process w is past item i of the loop of function s.
Passed(w, s, i) ==
  /\ Running(w)
  /\ \/ Rank[s] < Rank[pc[w]]
     \/ pc[w] = s /\ i < item[w]

Items(img, s) == 1 .. Loop(img)[s]

LEMMA RankType ==
  /\ \A s \in Stages \cup {"done"} : Rank[s] \in Nat
  /\ \A s \in Stages : Rank[s] >= 1 /\ Rank[s] < Rank["done"]
BY DEF Rank, Stages

LEMMA RankOrder ==
  ASSUME NEW s \in Stages, NEW u \in Stages
  PROVE  /\ Rank[s] = Rank[u] => s = u
         /\ OnSuccess[s] \in Stages \cup {"done"}
         /\ Rank[OnSuccess[s]] = Rank[s] + 1
<1>1. OnSuccess[s] \in Stages \cup {"done"}
  BY DEF OnSuccess, Stages
<1>2. Rank[OnSuccess[s]] = Rank[s] + 1
  BY DEF OnSuccess, Rank, Stages
<1>3. Rank[s] = Rank[u] => s = u
  BY DEF Rank, Stages
<1> QED
  BY <1>1, <1>2, <1>3

LEMMA LoopType ==
  ASSUME NEW img \in Images, NEW s \in Stages PROVE Loop(img)[s] \in Nat
<1>1. IsImage(img)
  BY ImagesAssumption
<1>2. /\ Len(img.symbols) \in Nat /\ Len(img.macros) \in Nat
      /\ Len(img.fields) \in Nat /\ Len(img.dims) \in Nat
      /\ Len(img.enums) \in Nat /\ Len(img.variables) \in Nat
      /\ Len(img.sections) \in Nat /\ Len(img.elfsymbols) \in Nat
  BY <1>1, LenProperties DEF IsImage
<1>3. Len(Encodings) \in Nat
  BY EncodingsAssumption, LenProperties
<1>4. Len(Schema) \in Nat
  BY DEF Schema
<1> QED
  <2> DEFINE L == Loop(img)
  <2>1. /\ L["schema"] \in Nat /\ L["elf"] \in Nat /\ L["elf_again"] \in Nat
        /\ L["artifacts"] \in Nat /\ L["macros"] \in Nat /\ L["encodings"] \in Nat
        /\ L["symbols"] \in Nat
    BY <1>2, <1>3, <1>4 DEF Loop
  <2>2. /\ L["targets"] \in Nat /\ L["fields"] \in Nat /\ L["dimensions"] \in Nat
        /\ L["enumerations"] \in Nat /\ L["variables"] \in Nat /\ L["sections"] \in Nat
        /\ L["elf_symbols"] \in Nat
    BY <1>2, <1>3, <1>4 DEF Loop
  <2> HIDE DEF L
  <2>3. L[s] \in Nat
    BY <2>1, <2>2 DEF Stages
  <2> QED
    BY <2>3 DEF L

\* The items of each loop are the objects it writes.
LEMMA ItemsAre ==
  ASSUME NEW img \in Images
  PROVE  /\ Items(img, "artifacts") = DOMAIN img.symbols
         /\ Items(img, "symbols") = DOMAIN img.symbols
         /\ Items(img, "targets") = DOMAIN img.symbols
         /\ Items(img, "macros") = DOMAIN img.macros
         /\ Items(img, "encodings") = DOMAIN Encodings
         /\ Items(img, "fields") = DOMAIN img.fields
         /\ Items(img, "dimensions") = DOMAIN img.dims
         /\ Items(img, "enumerations") = DOMAIN img.enums
         /\ Items(img, "variables") = DOMAIN img.variables
         /\ Items(img, "sections") = DOMAIN img.sections
         /\ Items(img, "elf_symbols") = DOMAIN img.elfsymbols
         /\ Items(img, "elf") = {1}
<1>1. IsImage(img)
  BY ImagesAssumption
<1>2. \A S : \A q \in Seq(S) : 1 .. Len(q) = DOMAIN q
  BY LenProperties
<1>3. /\ 1 .. Len(img.symbols) = DOMAIN img.symbols
      /\ 1 .. Len(img.macros) = DOMAIN img.macros
      /\ 1 .. Len(img.fields) = DOMAIN img.fields
      /\ 1 .. Len(img.dims) = DOMAIN img.dims
      /\ 1 .. Len(img.enums) = DOMAIN img.enums
      /\ 1 .. Len(img.variables) = DOMAIN img.variables
      /\ 1 .. Len(img.sections) = DOMAIN img.sections
      /\ 1 .. Len(img.elfsymbols) = DOMAIN img.elfsymbols
  BY <1>1, <1>2 DEF IsImage
<1>4. 1 .. Len(Encodings) = DOMAIN Encodings
  BY <1>2, EncodingsAssumption
<1> QED
  BY <1>3, <1>4 DEF Items, Loop

\* A step of another process changes nothing of w.
SameProcess(w) ==
  /\ pc'[w] = pc[w] /\ item'[w] = item[w] /\ found'[w] = found[w]
  /\ rc'[w] = rc[w] /\ image'[w] = image[w] /\ held'[w] = held[w]
  /\ failed'[w] = failed[w]

\* How a statement of process w changes what belongs to processes.
LEMMA StatementScope ==
  ASSUME NEW w \in Writer, Step(w), ~ Finish(w), ~ FailToCreateTable(w), ~ Return(w)
  PROVE  /\ pc' = pc /\ image' = image
         /\ \/ item' = item
            \/ item' = [item EXCEPT ![w] = @ + 1]
            \/ item' = [item EXCEPT ![w] = Len(Encodings) + 1]
         /\ found' = found \/ \E a : found' = [found EXCEPT ![w] = a]
         /\ rc' = rc \/ \E r : rc' = [rc EXCEPT ![w] = r]
         /\ NoFault \/ Fault(w)
         /\ runs' = runs
<1>1. CASE CreateTable(w)
  BY <1>1 DEF CreateTable, NoFault
<1>2. CASE WriteElf(w)
  BY <1>2 DEF WriteElf, Advance, Report, Insert
<1>3. CASE CheckArtifact(w) \/ CheckEncodings(w) \/ CheckSymbol(w)
  BY <1>3 DEF CheckArtifact, CheckEncodings, CheckSymbol, Count
<1>4. CASE SelectArtifact(w)
  BY <1>4 DEF SelectArtifact, Advance
<1>5. CASE InsertArtifact(w)
  BY <1>5 DEF InsertArtifact, Advance, Report, Insert
<1>6. CASE WriteMacro(w)
  BY <1>6 DEF WriteMacro, Advance, Insert
<1>7. CASE SelectEncodings(w)
  BY <1>7 DEF SelectEncodings
<1>8. CASE WriteEncoding(w)
  BY <1>8 DEF WriteEncoding, Advance, Insert
<1>9. CASE SelectSymbol(w)
  BY <1>9 DEF SelectSymbol, Advance
<1>10. CASE InsertSymbol(w)
  BY <1>10 DEF InsertSymbol, Advance, Insert
<1>11. CASE UpdateTarget(w)
  BY <1>11 DEF UpdateTarget, Advance
<1>12. CASE WriteField(w)
  BY <1>12 DEF WriteField, Advance, Report, Insert
<1>13. CASE WriteDimension(w)
  BY <1>13 DEF WriteDimension, Advance, Insert
<1>14. CASE WriteEnumeration(w)
  BY <1>14 DEF WriteEnumeration, Advance, Report, Insert
<1>15. CASE WriteVariable(w)
  BY <1>15 DEF WriteVariable, Advance, Report, Insert
<1>16. CASE WriteElfSection(w)
  BY <1>16 DEF WriteElfSection, Advance, Report, Insert
<1>17. CASE WriteElfSymbol(w)
  BY <1>17 DEF WriteElfSymbol, Advance, Report, Insert
<1> QED
  BY <1>1, <1>2, <1>3, <1>4, <1>5, <1>6, <1>7, <1>8, <1>9, <1>10, <1>11,
     <1>12, <1>13, <1>14, <1>15, <1>16, <1>17 DEF Step

\* What a statement does to the id members of its process.
LEMMA StatementIds ==
  ASSUME NEW w \in Writer, Step(w), ~ Finish(w), ~ FailToCreateTable(w)
  PROVE  \/ held' = held
         \/ \E id : held' = [held EXCEPT ![w].elf = id] /\ WriteElf(w)
         \/ \E id : /\ held' = [held EXCEPT ![w].artifact[item[w]] = id]
                    /\ At(w, "artifacts")
         \/ \E id : /\ held' = [held EXCEPT ![w].symbol[item[w]] = id]
                    /\ At(w, "symbols")
         \/ \E E : held' = [held EXCEPT ![w].encoding = E] /\ SelectEncodings(w)
         \/ \E id : /\ held' = [held EXCEPT ![w].encoding[item[w]] = id]
                    /\ WriteEncoding(w)
         \/ \E id : held' = [held EXCEPT ![w].field[item[w]] = id] /\ WriteField(w)
<1>1. CASE CreateTable(w) \/ Return(w)
  BY <1>1 DEF CreateTable, Return
<1>2. CASE WriteElf(w)
  BY <1>2 DEF WriteElf
<1>3. CASE CheckArtifact(w) \/ CheckEncodings(w) \/ CheckSymbol(w)
  BY <1>3 DEF CheckArtifact, CheckEncodings, CheckSymbol
<1>4. CASE SelectArtifact(w)
  BY <1>4 DEF SelectArtifact
<1>5. CASE InsertArtifact(w)
  BY <1>5 DEF InsertArtifact
<1>6. CASE SelectEncodings(w)
  BY <1>6 DEF SelectEncodings
<1>7. CASE WriteEncoding(w)
  BY <1>7 DEF WriteEncoding
<1>8. CASE SelectSymbol(w)
  BY <1>8 DEF SelectSymbol
<1>9. CASE InsertSymbol(w)
  BY <1>9 DEF InsertSymbol
<1>10. CASE WriteField(w)
  BY <1>10 DEF WriteField
<1>11. CASE \/ WriteMacro(w) \/ UpdateTarget(w) \/ WriteDimension(w)
            \/ WriteEnumeration(w) \/ WriteVariable(w) \/ WriteElfSection(w)
            \/ WriteElfSymbol(w)
  BY <1>11 DEF WriteMacro, UpdateTarget, WriteDimension, WriteEnumeration,
     WriteVariable, WriteElfSection, WriteElfSymbol
<1> QED
  BY <1>1, <1>2, <1>3, <1>4, <1>5, <1>6, <1>7, <1>8, <1>9, <1>10, <1>11 DEF Step

LEMMA OthersKeep ==
  ASSUME TypeOK, NEW v \in Writer, NEW w \in Writer, v # w,
         Start(v) \/ Step(v) \/ Crash(v)
  PROVE  SameProcess(w)
<1>1. /\ pc \in [Writer -> Stages \cup {"idle", "done"}]
      /\ item \in [Writer -> Nat \ {0}]
      /\ found \in [Writer -> {"unasked", "absent", "present"}]
      /\ rc \in [Writer -> {OK, ERROR, RAW}]
      /\ image \in [Writer -> Images] /\ DOMAIN held = Writer
      /\ failed \in [Writer -> BOOLEAN]
  BY DEF TypeOK, ControlTypeOK, MemoryTypeOK, BoundsTypeOK
<1>2. ASSUME NEW p, NEW img, Begin(v, p, img),
             failed' = failed \/ failed' = [failed EXCEPT ![v] = FALSE]
      PROVE  SameProcess(w)
  BY <1>1, <1>2, Zenon DEF Begin, SameProcess
<1>3. CASE Start(v) \/ Crash(v) \/ Finish(v) \/ FailToCreateTable(v)
  BY <1>2, <1>3 DEF Start, Crash, Finish, Exit, FailToCreateTable
<1>4. CASE Return(v)
  BY <1>1, <1>4 DEF Return, SameProcess
<1>5. ASSUME Step(v), ~ Finish(v), ~ FailToCreateTable(v), ~ Return(v)
      PROVE  SameProcess(w)
  <2>1. held'[w] = held[w]
    BY <1>1, <1>5, StatementIds, ZenonT(30)
  <2>2. pc'[w] = pc[w] /\ image'[w] = image[w]
    BY <1>5, StatementScope, Zenon
  <2>3. ASSUME NEW f, NEW f1, DOMAIN f = Writer,
               f1 = f \/ \E x : f1 = [f EXCEPT ![v] = x]
        PROVE  f1[w] = f[w]
    BY <2>3
  <2>4. /\ item' = item \/ \E x : item' = [item EXCEPT ![v] = x]
        /\ found' = found \/ \E x : found' = [found EXCEPT ![v] = x]
        /\ rc' = rc \/ \E x : rc' = [rc EXCEPT ![v] = x]
        /\ failed' = failed \/ \E x : failed' = [failed EXCEPT ![v] = x]
    BY <1>5, StatementScope DEF NoFault, Fault
  <2>5. /\ DOMAIN item = Writer /\ DOMAIN found = Writer
        /\ DOMAIN rc = Writer /\ DOMAIN failed = Writer
    BY <1>1
  <2>6. item'[w] = item[w] /\ found'[w] = found[w]
    BY <2>3, <2>4, <2>5
  <2>7. rc'[w] = rc[w] /\ failed'[w] = failed[w]
    BY <2>3, <2>4, <2>5
  <2> QED
    BY <2>1, <2>2, <2>6, <2>7 DEF SameProcess
<1> QED
  BY <1>3, <1>4, <1>5

LEMMA StepsGrow ==
  ASSUME TypeOK, NEW w \in Writer, Start(w) \/ Step(w) \/ Crash(w)
  PROVE  Grows(db, db')
<1>1. CASE \/ Start(w) \/ Crash(w) \/ Finish(w) \/ CreateTable(w)
           \/ FailToCreateTable(w) \/ Return(w)
  BY <1>1, UnchangedGrows DEF Start, Crash, Finish, Exit, CreateTable,
     FailToCreateTable, Return
<1>2. CASE \/ CheckArtifact(w) \/ CheckEncodings(w) \/ CheckSymbol(w)
           \/ SelectArtifact(w) \/ SelectEncodings(w) \/ SelectSymbol(w)
  BY <1>2, UnchangedGrows DEF CheckArtifact, CheckEncodings, CheckSymbol, Count,
     SelectArtifact, SelectEncodings, SelectSymbol
<1>3. CASE UpdateTarget(w)
  BY <1>3, SetTargetGrows, UnchangedGrows DEF TypeOK, UpdateTarget
<1>4. CASE \E t \in Tables : \E row, res : Insert(w, t, row, res)
  BY <1>4, InsertGrows DEF TypeOK
<1>5. CASE \/ WriteElf(w) \/ InsertArtifact(w) \/ WriteMacro(w)
           \/ WriteEncoding(w) \/ InsertSymbol(w) \/ WriteField(w)
           \/ WriteDimension(w)
  BY <1>4, <1>5, TableNames DEF WriteElf, InsertArtifact, WriteMacro,
     WriteEncoding, InsertSymbol, WriteField, WriteDimension
<1>6. CASE \/ WriteEnumeration(w) \/ WriteVariable(w) \/ WriteElfSection(w)
           \/ WriteElfSymbol(w)
  BY <1>4, <1>6, TableNames DEF WriteEnumeration, WriteVariable,
     WriteElfSection, WriteElfSymbol
<1> QED
  BY <1>1, <1>2, <1>3, <1>5, <1>6 DEF Step

\* An item w has passed after a step without failure, it had passed before or
\* the step was its statement.
LEMMA PassedStep ==
  ASSUME TypeOK, ErrorsAreFaults, NEW w \in Writer, Step(w), Running(w)',
         ~ failed'[w]
  PROVE  /\ image'[w] = image[w] /\ Running(w) /\ ~ failed[w]
         /\ \A s \in Stages : \A i \in Items(image[w], s) :
              Passed(w, s, i)' =>
                \/ Passed(w, s, i)
                \/ At(w, s) /\ i = item[w] /\ item'[w] = item[w] + 1
                \/ s = "encodings" /\ SelectEncodings(w)
<1> DEFINE Goal == \A s \in Stages : \A i \in Items(image[w], s) :
              Passed(w, s, i)' =>
                \/ Passed(w, s, i)
                \/ At(w, s) /\ i = item[w] /\ item'[w] = item[w] + 1
                \/ s = "encodings" /\ SelectEncodings(w)
<1>1. /\ pc \in [Writer -> Stages \cup {"idle", "done"}]
      /\ item \in [Writer -> Nat \ {0}]
      /\ rc \in [Writer -> {OK, ERROR, RAW}]
      /\ failed \in [Writer -> BOOLEAN]
      /\ image[w] \in Images
  BY DEF TypeOK, ControlTypeOK, MemoryTypeOK, BoundsTypeOK
<1>2. ~ Finish(w) /\ ~ FailToCreateTable(w)
  <2>1. ASSUME NEW img, Begin(w, "idle", img) PROVE FALSE
    BY <1>1, <2>1 DEF Begin, Running
  <2> QED
    BY <2>1 DEF Finish, Exit, FailToCreateTable
<1>3. CASE Return(w)
  <2>1. /\ image' = image /\ failed' = failed /\ pc[w] \in Stages
        /\ pc'[w] = After(pc[w], rc[w]) /\ item'[w] = 1
        /\ item[w] > Loop(image[w])[pc[w]]
    BY <1>1, <1>3 DEF Return
  <2>2. Running(w)
    BY <2>1 DEF Running, Stages
  <2>3. rc[w] # ERROR
    BY <2>1 DEF ErrorsAreFaults
  <2>4. pc'[w] = OnSuccess[pc[w]]
    BY <2>1, <2>3 DEF After
  <2>5. /\ Rank[pc'[w]] = Rank[pc[w]] + 1 /\ Rank[pc[w]] \in Nat
    BY <2>1, <2>4, RankOrder, RankType
  <2>6. ASSUME NEW s \in Stages, NEW i \in Items(image[w], s), Passed(w, s, i)'
        PROVE  Passed(w, s, i)
    <3>1. i \in Nat /\ i >= 1 /\ i <= Loop(image[w])[s] /\ Loop(image[w])[s] \in Nat
      BY <1>1, <2>6, LoopType DEF Items
    <3>2. Rank[s] < Rank[pc'[w]]
      BY <2>1, <2>6, <3>1 DEF Passed
    <3>3. Rank[s] \in Nat /\ (Rank[s] < Rank[pc[w]] \/ Rank[s] = Rank[pc[w]])
      BY <2>5, <3>2, RankType
    <3>4. CASE Rank[s] < Rank[pc[w]]
      BY <2>2, <3>4 DEF Passed
    <3>5. CASE Rank[s] = Rank[pc[w]]
      <4>1. pc[w] = s
        BY <2>1, <3>5, RankOrder
      <4>2. i < item[w]
        BY <1>1, <2>1, <3>1, <4>1
      <4> QED
        BY <2>2, <4>1, <4>2 DEF Passed
    <3> QED
      BY <3>3, <3>4, <3>5
  <2> QED
    BY <2>1, <2>2, <2>6
<1>4. CASE ~ Return(w)
  <2>1. /\ pc' = pc /\ image' = image
        /\ \/ item'[w] = item[w]
           \/ item'[w] = item[w] + 1
           \/ item'[w] = Len(Encodings) + 1
        /\ failed' = failed \/ failed' = [failed EXCEPT ![w] = TRUE]
    BY <1>1, <1>2, <1>4, StatementScope DEF NoFault, Fault
  <2>2. ~ failed[w] /\ Running(w)
    BY <1>1, <2>1 DEF Running
  <2>3. CASE ~ SelectEncodings(w)
    <3>1. item'[w] = item[w] \/ item'[w] = item[w] + 1
      <4>1. Step(w) /\ ~ SelectEncodings(w) => item' = item \/ item' = [item EXCEPT ![w] = @ + 1]
        BY <1>2, <1>4
        DEF Step, CreateTable, WriteElf, CheckArtifact, SelectArtifact,
            InsertArtifact, WriteMacro, CheckEncodings, WriteEncoding,
            CheckSymbol, SelectSymbol, InsertSymbol, UpdateTarget, WriteField,
            WriteDimension, WriteEnumeration, WriteVariable, WriteElfSection,
            WriteElfSymbol, Advance
      <4> QED
        BY <1>1, <2>3, <4>1
    <3>2. ASSUME NEW s \in Stages, NEW i \in Items(image[w], s), Passed(w, s, i)'
          PROVE  \/ Passed(w, s, i)
                 \/ At(w, s) /\ i = item[w] /\ item'[w] = item[w] + 1
      <4>1. CASE Rank[s] < Rank[pc[w]]
        BY <2>2, <4>1 DEF Passed
      <4>2. CASE pc[w] = s /\ i < item'[w]
        <5>1. i \in Nat /\ item[w] \in Nat
          BY <1>1, <3>2, LoopType DEF Items
        <5>2. i < item[w] \/ (i = item[w] /\ item'[w] = item[w] + 1)
          BY <3>1, <4>2, <5>1
        <5> QED
          BY <2>2, <3>2, <4>2, <5>2 DEF Passed, At, Items
      <4> QED
        BY <2>1, <3>2, <4>1, <4>2 DEF Passed
    <3> QED
      BY <2>1, <2>2, <3>2
  <2>4. CASE SelectEncodings(w)
    <3>1. pc[w] = "encodings"
      BY <2>4 DEF SelectEncodings, At
    <3>2. ASSUME NEW s \in Stages, NEW i \in Items(image[w], s), Passed(w, s, i)',
                 s # "encodings"
          PROVE  Passed(w, s, i)
      BY <2>1, <2>2, <3>1, <3>2 DEF Passed
    <3> QED
      BY <2>1, <2>2, <2>4, <3>2
  <2> QED
    BY <2>3, <2>4
<1> QED
  BY <1>3, <1>4

\* A process that starts has passed nothing.
LEMMA NothingPassed ==
  ASSUME TypeOK, NEW w \in Writer, Start(w), NEW s \in Stages,
         NEW i \in Nat \ {0}
  PROVE  ~ Passed(w, s, i)'
<1>1. pc'[w] = "schema" /\ item'[w] = 1
  BY DEF Start, Begin, TypeOK, ControlTypeOK
<1>2. Rank["schema"] = 1
  BY DEF Rank
<1>3. Rank[s] \in Nat /\ Rank[s] >= 1
  BY RankType
<1> QED
  BY <1>1, <1>2, <1>3 DEF Passed

-----------------------------------------------------------------------------
(* Names.                                                                  *)

\* The name that item i of function s brings is in file d.
NameStored(d, img, s, i) ==
  /\ s = "elf" => \E r \in DOMAIN d["elfs"] : d["elfs"][r].name = img.path
  /\ s = "artifacts" => \E r \in DOMAIN d["artifacts"] :
                          d["artifacts"][r].path = img.symbols[i].source
  /\ s = "macros" => \E r \in DOMAIN d["macros"] :
                       d["macros"][r] = img.macros[i]
  /\ s = "symbols" => \E r \in DOMAIN d["symbols"] :
                        d["symbols"][r].name = img.symbols[i].name

\* The inductive strengthening of CleanWriteStoresNames: a process without a
\* failure has stored the name of each item it has passed.
NamesInv ==
  \A w \in Writer : Running(w) /\ ~ failed[w] =>
    \A s \in Stages : \A i \in Items(image[w], s) :
      Passed(w, s, i) => NameStored(db, image[w], s, i)

LEMMA NameStoredGrows ==
  ASSUME NEW d, NEW e, Grows(d, e), NEW img, NEW s, NEW i,
         NameStored(d, img, s, i)
  PROVE  NameStored(e, img, s, i)
<1>1. \A t \in {"elfs", "artifacts", "macros"} :
        \A r \in DOMAIN d[t] : r \in DOMAIN e[t] /\ e[t][r] = d[t][r]
  BY TableNames DEF Grows
<1>2. \A r \in DOMAIN d["symbols"] :
        r \in DOMAIN e["symbols"] /\ e["symbols"][r].name = d["symbols"][r].name
  BY DEF Grows
<1> QED
  BY <1>1, <1>2 DEF NameStored

\* A failed statement marks the run.
LEMMA FaultMarks ==
  ASSUME TypeOK, NEW w \in Writer, Fault(w) PROVE failed'[w]
BY DEF TypeOK, BoundsTypeOK, Fault

\* After an INSERT that does not fail the table has the row, or one that
\* agrees with it on the columns of the UNIQUE constraint.
LEMMA InsertStores ==
  ASSUME TypeOK, NEW w \in Writer, NEW t \in Tables, NEW row, NEW res,
         Insert(w, t, row, res), ~ failed'[w]
  PROVE  \E r \in DOMAIN db'[t] :
           \/ db'[t][r] = row
           \/ /\ t \in DOMAIN Unique
              /\ \A c \in Unique[t] : db'[t][r][c] = row[c]
<1>1. res # "error"
  BY FaultMarks DEF Insert
<1>2. CASE res = "ok"
  BY <1>2, InsertGrows DEF TypeOK
<1>3. CASE res = "unique"
  BY <1>3 DEF Insert, Clashes
<1> QED
  BY <1>1, <1>2, <1>3 DEF Insert

\* The statements of each function.
LEMMA StageActions ==
  ASSUME TypeOK, NEW w \in Writer, Step(w), NEW s \in Stages, At(w, s),
         item'[w] = item[w] + 1
  PROVE  /\ s \in {"elf", "elf_again"} => WriteElf(w)
         /\ s = "artifacts" => SelectArtifact(w) \/ InsertArtifact(w)
         /\ s = "macros" => WriteMacro(w)
         /\ s = "encodings" => SelectEncodings(w) \/ WriteEncoding(w)
         /\ s = "symbols" => SelectSymbol(w) \/ InsertSymbol(w)
         /\ s = "targets" => UpdateTarget(w)
         /\ s = "fields" => WriteField(w)
         /\ s = "dimensions" => WriteDimension(w)
         /\ s = "enumerations" => WriteEnumeration(w)
         /\ s = "variables" => WriteVariable(w)
         /\ s = "sections" => WriteElfSection(w)
         /\ s = "elf_symbols" => WriteElfSymbol(w)
<1>1. /\ pc[w] = s /\ item[w] \in Nat \ {0} /\ item'[w] # item[w]
      /\ item[w] \in 1 .. Loop(image[w])[s]
      /\ item \in [Writer -> Nat \ {0}] /\ s # "done" /\ s # "idle"
  BY DEF At, TypeOK, ControlTypeOK, Stages
<1>2. ~ Return(w)
  <2>1. image[w] \in Images
    BY DEF TypeOK, MemoryTypeOK
  <2>2. Loop(image[w])[s] \in Nat
    BY <2>1, LoopType
  <2> QED
    BY <1>1, <2>2 DEF Return
<1>3. ~ Finish(w)
  BY <1>1 DEF Finish
<1>4. ~ CheckArtifact(w) /\ ~ CheckEncodings(w) /\ ~ CheckSymbol(w)
  BY <1>1 DEF CheckArtifact, CheckEncodings, CheckSymbol
<1>5. /\ CreateTable(w) \/ FailToCreateTable(w) => s = "schema"
      /\ WriteElf(w) => s = "elf" \/ s = "elf_again"
      /\ SelectArtifact(w) \/ InsertArtifact(w) => s = "artifacts"
      /\ WriteMacro(w) => s = "macros"
      /\ SelectEncodings(w) \/ WriteEncoding(w) => s = "encodings"
      /\ SelectSymbol(w) \/ InsertSymbol(w) => s = "symbols"
      /\ UpdateTarget(w) => s = "targets"
  BY <1>1 DEF At, CreateTable, FailToCreateTable, WriteElf, SelectArtifact,
     InsertArtifact, WriteMacro, SelectEncodings, WriteEncoding, SelectSymbol,
     InsertSymbol, UpdateTarget
<1>6. /\ WriteField(w) => s = "fields"
      /\ WriteDimension(w) => s = "dimensions"
      /\ WriteEnumeration(w) => s = "enumerations"
      /\ WriteVariable(w) => s = "variables"
      /\ WriteElfSection(w) => s = "sections"
      /\ WriteElfSymbol(w) => s = "elf_symbols"
  BY <1>1 DEF At, WriteField, WriteDimension, WriteEnumeration, WriteVariable,
     WriteElfSection, WriteElfSymbol
<1> QED
  BY <1>2, <1>3, <1>4, <1>5, <1>6 DEF Step

\* The statement of an item that does not fail stores its name.
LEMMA StatementStoresName ==
  ASSUME TypeOK, NoColumnNames, NEW w \in Writer, Step(w), ~ failed'[w],
         NEW s \in Stages, At(w, s), item'[w] = item[w] + 1
  PROVE  NameStored(db', image[w], s, item[w])
<1> DEFINE img == image[w]
           i == item[w]
<1>1. img \in Images /\ Grows(db, db')
  BY StepsGrow DEF TypeOK, MemoryTypeOK
<1>2. /\ Unique["elfs"] = {"name"} /\ "elfs" \in Tables
      /\ Unique["artifacts"] = {"path", "md5"} /\ "artifacts" \in Tables
      /\ Unique["macros"] = {"name", "value"} /\ "macros" \in Tables
      /\ Unique["symbols"] = {"name"} /\ "symbols" \in Tables
  BY TableNames DEF Unique
<1>3. CASE s = "elf"
  <2>1. PICK res \in Results :
          Insert(w, "elfs", [name |-> img.path, md5 |-> img.md5], res)
    BY <1>3, StageActions DEF WriteElf
  <2>2. \E r \in DOMAIN db'["elfs"] : db'["elfs"][r].name = img.path
    BY <1>2, <2>1, InsertStores
  <2> QED
    BY <1>3, <2>2 DEF NameStored
<1>4. CASE s = "artifacts"
  <2> DEFINE source == img.symbols[i].source
  <2>1. CASE SelectArtifact(w)
    <3>1. ~ Fault(w)
      BY FaultMarks
    <3>2. db' = db /\ \E id \in ArtifactRows(source) : TRUE
      BY <2>1, <3>1 DEF SelectArtifact
    <3> QED
      BY <1>4, <3>2 DEF ArtifactRows, NameStored
  <2>2. CASE InsertArtifact(w)
    <3>1. PICK res \in Results :
            Insert(w, "artifacts", [elf |-> held[w].elf, path |-> source,
                                    md5 |-> img.symbols[i].md5], res)
      BY <2>2 DEF InsertArtifact
    <3>2. \E r \in DOMAIN db'["artifacts"] : db'["artifacts"][r].path = source
      BY <1>2, <3>1, InsertStores
    <3> QED
      BY <1>4, <3>2 DEF NameStored
  <2> QED
    BY <1>4, <2>1, <2>2, StageActions
<1>5. CASE s = "macros"
  <2>1. PICK res \in Results : Insert(w, "macros", img.macros[i], res)
    BY <1>5, StageActions DEF WriteMacro
  <2>2. img.macros[i] \in [name : STRING, value : STRING]
    BY <1>5, EntryType DEF TypeOK
  <2>3. PICK r \in DOMAIN db'["macros"] :
          \/ db'["macros"][r] = img.macros[i]
          \/ /\ db'["macros"][r].name = img.macros[i].name
             /\ db'["macros"][r].value = img.macros[i].value
    BY <1>2, <2>1, InsertStores
  <2>4. db'["macros"][r] \in [name : STRING, value : STRING]
    <3>1. FileTypeOK'
      BY <1>5, StageActions, MacroType DEF TypeOK
    <3>2. db'["macros"] \in Seq(RowOf["macros"])
      BY <1>2, <3>1 DEF FileTypeOK
    <3>3. db'["macros"][r] \in RowOf["macros"]
      BY <2>3, <3>2
    <3> QED
      BY <3>3 DEF RowOf
  <2> QED
    BY <1>5, <2>2, <2>3, <2>4 DEF NameStored
<1>6. CASE s = "symbols"
  <2> DEFINE name == img.symbols[i].name
  <2>1. CASE SelectSymbol(w)
    <3>1. ~ Fault(w)
      BY FaultMarks
    <3>2. db' = db /\ \E id \in SymbolRows(name) : TRUE
      BY <2>1, <3>1 DEF SelectSymbol
    <3>3. i \in DOMAIN img.symbols /\ name # "name"
      BY <1>1, <1>6, EntryType DEF TypeOK, NoColumnNames
    <3> QED
      BY <1>6, <3>2, <3>3 DEF SymbolRows, NameStored
  <2>2. CASE InsertSymbol(w)
    <3> DEFINE row(e, a) ==
          [elf |-> held[w].elf, name |-> name,
           byte_size |-> img.symbols[i].byte_size, encoding |-> e,
           artifact |-> a, target |-> Null]
    <3>0. PICK res \in Results, e \in EncodingIds(w, img.symbols[i]),
               a \in Read(held[w].artifact[i]) :
            Insert(w, "symbols", row(e, a), res)
      BY <2>2 DEF InsertSymbol
    <3>1. row(e, a).name = name
      OBVIOUS
    <3> HIDE DEF row
    <3>2. \E r \in DOMAIN db'["symbols"] : db'["symbols"][r].name = name
      BY <1>2, <3>0, <3>1, InsertStores
    <3> QED
      BY <1>6, <3>2 DEF NameStored
  <2> QED
    BY <1>6, <2>1, <2>2, StageActions
<1>7. CASE s \notin {"elf", "artifacts", "macros", "symbols"}
  BY <1>7 DEF NameStored
<1> QED
  BY <1>3, <1>4, <1>5, <1>6, <1>7

LEMMA NextNames ==
  ASSUME NoColumnNames
  PROVE  TypeOK /\ ErrorsAreFaults /\ NamesInv /\ [Next]_vars => NamesInv'
<1> SUFFICES ASSUME TypeOK, ErrorsAreFaults, NamesInv, [Next]_vars,
                    NEW w \in Writer, Running(w)', ~ failed'[w],
                    NEW s \in Stages, NEW i \in Items(image[w], s)',
                    Passed(w, s, i)'
             PROVE  NameStored(db', image'[w], s, i)
  BY DEF NamesInv
<1>1. ASSUME SameProcess(w), Grows(db, db')
      PROVE  NameStored(db', image'[w], s, i)
  <2>1. /\ Running(w) /\ ~ failed[w] /\ i \in Items(image[w], s)
        /\ Passed(w, s, i)
    BY <1>1 DEF SameProcess, Running, Items, Passed
  <2> QED
    BY <1>1, <2>1, NameStoredGrows DEF NamesInv, SameProcess
<1>2. CASE UNCHANGED vars \/ Quiet
  BY <1>1, <1>2, UnchangedGrows DEF vars, Quiet, SameProcess
<1>3. ASSUME NEW v \in Writer \ {w}, Start(v) \/ Step(v) \/ Crash(v)
      PROVE  NameStored(db', image'[w], s, i)
  BY <1>1, <1>3, OthersKeep, StepsGrow
<1>4. CASE Start(w)
  <2>1. i \in Nat \ {0}
    <3>1. image'[w] \in Images
      BY <1>4, NextType DEF TypeOK, MemoryTypeOK
    <3> QED
      BY <3>1, LoopType DEF Items
  <2> QED
    BY <1>4, <2>1, NothingPassed
<1>5. CASE Crash(w)
  <2>1. pc'[w] = "idle"
    BY <1>5 DEF Crash, Exit, Begin, TypeOK, ControlTypeOK
  <2> QED
    BY <2>1 DEF Running
<1>6. CASE Step(w)
  <2>1. /\ image'[w] = image[w] /\ Running(w) /\ ~ failed[w]
        /\ i \in Items(image[w], s)
    BY <1>6, PassedStep DEF Items
  <2>2. \/ Passed(w, s, i)
        \/ At(w, s) /\ i = item[w] /\ item'[w] = item[w] + 1
        \/ s = "encodings"
    BY <1>6, <2>1, PassedStep
  <2>3. CASE Passed(w, s, i)
    BY <1>6, <2>1, <2>3, StepsGrow, NameStoredGrows DEF NamesInv
  <2>4. CASE At(w, s) /\ i = item[w] /\ item'[w] = item[w] + 1
    BY <1>6, <2>1, <2>4, StatementStoresName
  <2>5. CASE s = "encodings"
    BY <2>5 DEF NameStored
  <2> QED
    BY <2>2, <2>3, <2>4, <2>5
<1> QED
  BY <1>2, <1>3, <1>4, <1>5, <1>6 DEF Next

\* A process that is done has passed everything.
LEMMA DonePassed ==
  ASSUME NEW w \in Writer, pc[w] = "done", NEW s \in Stages, NEW i
  PROVE  Passed(w, s, i)
BY RankType DEF Passed, Running

\* Whatever other processes store meanwhile, a write() none of whose
\* statements failed does not answer SQLITEDB_ERROR and has stored the names
\* of its ElfFile, its symbols, its source files and its macros.
THEOREM CleanNames ==
  ASSUME NoColumnNames PROVE Spec => []CleanWriteStoresNames
<1>1. Init => NamesInv
  BY DEF Init, NamesInv, Running
<1>2. Init => ErrorsAreFaults
  BY DEF Init, ErrorsAreFaults, OK, ERROR
<1>3. TypeOK /\ ErrorsAreFaults /\ NamesInv => CleanWriteStoresNames
  <2> SUFFICES ASSUME TypeOK, ErrorsAreFaults, NamesInv, NEW w \in Writer,
                      pc[w] = "done", ~ failed[w]
               PROVE  rc[w] # ERROR /\ NamesStored(image[w])
    BY DEF CleanWriteStoresNames
  <2>1. rc[w] # ERROR
    BY DEF ErrorsAreFaults
  <2>2. image[w] \in Images
    BY DEF TypeOK, MemoryTypeOK
  <2>3. \A s \in Stages : \A i \in Items(image[w], s) :
          NameStored(db, image[w], s, i)
    BY DonePassed DEF NamesInv, Running
  <2>4. {"elf", "artifacts", "macros", "symbols"} \subseteq Stages
    BY DEF Stages
  <2>5. HasRow("elfs", LAMBDA r : r.name = image[w].path)
    BY <2>2, <2>3, <2>4, ItemsAre DEF NameStored, HasRow
  <2>6. \A i \in DOMAIN image[w].symbols :
          /\ HasRow("symbols", LAMBDA r : r.name = image[w].symbols[i].name)
          /\ HasRow("artifacts", LAMBDA r : r.path = image[w].symbols[i].source)
    BY <2>2, <2>3, <2>4, ItemsAre DEF NameStored, HasRow
  <2>7. \A i \in DOMAIN image[w].macros :
          HasRow("macros", LAMBDA r : r = image[w].macros[i])
    BY <2>2, <2>3, <2>4, ItemsAre DEF NameStored, HasRow
  <2> QED
    BY <2>1, <2>5, <2>6, <2>7 DEF NamesStored
<1> QED
  BY <1>1, <1>2, <1>3, TypeCorrect, NextErrors, NextNames, PTL DEF Spec

-----------------------------------------------------------------------------
(* Which statements change which table.                                    *)

LEMMA InsertTable ==
  ASSUME FileTypeOK, NEW w, NEW t \in Tables, NEW row, NEW res,
         Insert(w, t, row, res)
  PROVE  \A u \in Tables \ {t} : db'[u] = db[u]
BY DEF Insert, FileTypeOK

LEMMA SymbolsWritten ==
  ASSUME TypeOK, NEW w \in Writer, Start(w) \/ Step(w) \/ Crash(w)
  PROVE  /\ ~ InsertSymbol(w) => DOMAIN db'["symbols"] = DOMAIN db["symbols"]
         /\ ~ InsertSymbol(w) /\ ~ UpdateTarget(w) => db'["symbols"] = db["symbols"]
<1>1. CASE \/ Start(w) \/ Crash(w) \/ Finish(w) \/ CreateTable(w)
           \/ FailToCreateTable(w) \/ Return(w)
  BY <1>1 DEF Start, Crash, Finish, Exit, CreateTable, FailToCreateTable, Return
<1>2. CASE \/ CheckArtifact(w) \/ CheckEncodings(w) \/ CheckSymbol(w)
           \/ SelectArtifact(w) \/ SelectEncodings(w) \/ SelectSymbol(w)
  BY <1>2 DEF CheckArtifact, CheckEncodings, CheckSymbol, Count,
     SelectArtifact, SelectEncodings, SelectSymbol
<1>3. CASE UpdateTarget(w)
  <2>1. DOMAIN db = Tables /\ "symbols" \in Tables
    BY TableNames DEF TypeOK, FileTypeOK
  <2>2. ASSUME NEW i, NEW t, SetTarget(i, t)
        PROVE  DOMAIN db'["symbols"] = DOMAIN db["symbols"]
    BY <2>1, <2>2 DEF SetTarget
  <2> QED
    BY <1>3, <2>2 DEF UpdateTarget
<1>4. CASE \E t \in Tables \ {"symbols"} : \E row, res : Insert(w, t, row, res)
  BY <1>4, InsertTable, TableNames DEF TypeOK
<1>5. CASE \/ WriteElf(w) \/ InsertArtifact(w) \/ WriteMacro(w)
           \/ WriteEncoding(w) \/ WriteField(w) \/ WriteDimension(w)
  BY <1>4, <1>5, TableNames DEF WriteElf, InsertArtifact, WriteMacro,
     WriteEncoding, WriteField, WriteDimension
<1>6. CASE \/ WriteEnumeration(w) \/ WriteVariable(w) \/ WriteElfSection(w)
           \/ WriteElfSymbol(w)
  BY <1>4, <1>6, TableNames DEF WriteEnumeration, WriteVariable,
     WriteElfSection, WriteElfSymbol
<1> QED
  BY <1>1, <1>2, <1>3, <1>5, <1>6 DEF Step

-----------------------------------------------------------------------------
(* One process at a time.                                                  *)

Alone == \A v, w \in Writer : Running(v) /\ Running(w) => v = w

\* A step that leaves w running, and alone, was a step of w.
LEMMA OwnStep ==
  ASSUME TypeOK, Alone, Alone', [Next]_vars, NEW w \in Writer, Running(w)'
  PROVE  Start(w) \/ Step(w) \/ UNCHANGED vars
<1>1. ASSUME NEW v \in Writer \ {w}, Start(v) \/ Step(v) \/ Crash(v) PROVE FALSE
  <2>1. Running(w)
    BY <1>1, OthersKeep DEF SameProcess, Running
  <2>2. ~ Running(v)
    BY <2>1 DEF Alone
  <2>3. Start(v)
    <3>1. pc[v] = "idle"
      BY <2>2 DEF Running
    <3> QED
      BY <1>1, <3>1 DEF Step, Crash, CreateTable, FailToCreateTable, Return,
         Finish, Stages, At, WriteElf, CheckArtifact, SelectArtifact,
         InsertArtifact, WriteMacro, CheckEncodings, SelectEncodings,
         WriteEncoding, CheckSymbol, SelectSymbol, InsertSymbol, UpdateTarget,
         WriteField, WriteDimension, WriteEnumeration, WriteVariable,
         WriteElfSection, WriteElfSymbol
  <2>4. Running(v)'
    BY <2>3 DEF Start, Begin, TypeOK, ControlTypeOK, Running
  <2> QED
    BY <2>4 DEF Alone
<1>2. ASSUME Crash(w) PROVE FALSE
  BY <1>2 DEF Crash, Exit, Begin, TypeOK, ControlTypeOK, Running
<1> QED
  BY <1>1, <1>2 DEF Next, Quiet

\* What item i of function s brings is in file d and its ids in h.
ItemStored(d, img, h, s, i) ==
  /\ s = "artifacts" => h.artifact[i] # Unset
  /\ s = "encodings" => d["encodings"] # << >>
  /\ s = "symbols" => h.symbol[i] # Unset
  /\ s = "targets" /\ img.symbols[i].target # 0 =>
       d["symbols"][h.symbol[i]].target = h.symbol[img.symbols[i].target]
  /\ s = "fields" =>
       \E r \in DOMAIN d["fields"] :
         /\ d["fields"][r].name = img.fields[i].name
         /\ d["fields"][r].symbol = h.symbol[img.fields[i].symbol]
  /\ s = "enumerations" =>
       \E r \in DOMAIN d["enumerations"] :
         /\ d["enumerations"][r].name = img.enums[i].name
         /\ d["enumerations"][r].symbol = h.symbol[img.enums[i].symbol]
  /\ s = "variables" =>
       \E r \in DOMAIN d["variables"] :
         /\ d["variables"][r].name = img.variables[i].name
         /\ d["variables"][r].type = h.symbol[img.variables[i].type]
  /\ s = "sections" =>
       \E r \in DOMAIN d["elf_sections"] :
         d["elf_sections"][r].name = img.sections[i]
  /\ s = "elf_symbols" =>
       \E r \in DOMAIN d["elf_symbol_table"] :
         d["elf_symbol_table"][r].name = img.elfsymbols[i]

\* The answer of the last SELECT COUNT query is still true.
Answers(w) ==
  /\ At(w, "artifacts") /\ found[w] = "absent" =>
       ArtifactRows(image[w].symbols[item[w]].source) = {}
  /\ At(w, "symbols") /\ found[w] = "absent" =>
       SymbolRows(image[w].symbols[item[w]].name) = {}
  /\ At(w, "encodings") /\ found[w] = "present" => db["encodings"] # << >>

\* The inductive strengthening of CleanWriteStoresAll while processes do not
\* overlap: a process without a failure has stored each item it has passed.
StoreInv ==
  \A w \in Writer : Running(w) /\ ~ failed[w] =>
    /\ Answers(w)
    /\ \A s \in Stages : \A i \in Items(image[w], s) :
         Passed(w, s, i) => ItemStored(db, image[w], held[w], s, i)

\* What holds of a process without a failure that is past the symbols.
LEMMA SymbolsHeld ==
  ASSUME TypeOK, IdInv, StoreInv, NEW w \in Writer, Running(w), ~ failed[w],
         Rank["symbols"] < Rank[pc[w]], NEW i \in DOMAIN image[w].symbols
  PROVE  /\ held[w].symbol[i] # Unset
         /\ Read(held[w].symbol[i]) = {held[w].symbol[i]}
         /\ held[w].symbol[i] \in DOMAIN db["symbols"]
         /\ db["symbols"][held[w].symbol[i]].name = image[w].symbols[i].name
<1>1. image[w] \in Images
  BY DEF TypeOK, MemoryTypeOK
<1>2. i \in Items(image[w], "symbols") /\ "symbols" \in Stages
  BY <1>1, ItemsAre DEF Stages
<1>3. held[w].symbol[i] # Unset
  BY <1>2 DEF StoreInv, Passed, ItemStored
<1> QED
  BY <1>3 DEF IdInv, IdsName, SymbolIdsName, Read

LEMMA PastSymbols ==
  \A s \in {"targets", "fields", "dimensions", "enumerations", "variables",
            "sections", "elf_symbols", "done"} : Rank["symbols"] < Rank[s]
BY DEF Rank

\* Past the symbols the ids of symbols stay.
LEMMA SymbolIdsStay ==
  ASSUME TypeOK, NEW w \in Writer, Step(w), Running(w)', pc[w] # "symbols"
  PROVE  held'[w].symbol = held[w].symbol
<1>1. ~ Finish(w) /\ ~ FailToCreateTable(w)
  BY DEF Finish, FailToCreateTable, Exit, Begin, TypeOK, ControlTypeOK, Running
<1>2. DOMAIN held = Writer /\ held[w] \in IdsOf(image[w])
  BY DEF TypeOK, MemoryTypeOK
<1>3. ASSUME NEW x, held' = [held EXCEPT ![w].elf = x]
      PROVE  held'[w].symbol = held[w].symbol
  BY <1>2, <1>3 DEF IdsOf
<1>4. ASSUME NEW x, \/ held' = [held EXCEPT ![w].artifact[item[w]] = x]
                    \/ held' = [held EXCEPT ![w].field[item[w]] = x]
      PROVE  held'[w].symbol = held[w].symbol
  BY <1>2, <1>4 DEF IdsOf
<1>5. ASSUME NEW x, \/ held' = [held EXCEPT ![w].encoding = x]
                    \/ held' = [held EXCEPT ![w].encoding[item[w]] = x]
      PROVE  held'[w].symbol = held[w].symbol
  BY <1>2, <1>5 DEF IdsOf
<1>6. ~ At(w, "symbols")
  BY DEF At
<1> QED
  BY <1>1, <1>3, <1>4, <1>5, <1>6, StatementIds

\* A process that goes on does not write the id of an item it has passed.
LEMMA PassedIdsStay ==
  ASSUME TypeOK, NEW w \in Writer, Step(w), Running(w)', NEW i \in Nat
  PROVE  /\ Passed(w, "artifacts", i) => held'[w].artifact[i] = held[w].artifact[i]
         /\ Passed(w, "symbols", i) => held'[w].symbol[i] = held[w].symbol[i]
         /\ Passed(w, "fields", i) => held'[w].field[i] = held[w].field[i]
<1> DEFINE Stay(h) ==
             /\ Passed(w, "artifacts", i) => h.artifact[i] = held[w].artifact[i]
             /\ Passed(w, "symbols", i) => h.symbol[i] = held[w].symbol[i]
             /\ Passed(w, "fields", i) => h.field[i] = held[w].field[i]
<1>1. ~ Finish(w) /\ ~ FailToCreateTable(w)
  BY DEF Finish, FailToCreateTable, Exit, Begin, TypeOK, ControlTypeOK, Running
<1>2. DOMAIN held = Writer /\ held[w] \in IdsOf(image[w])
  BY DEF TypeOK, MemoryTypeOK
<1>3. \A s \in Stages : At(w, s) /\ Passed(w, s, i) => i # item[w]
  BY RankType DEF At, Passed, TypeOK, ControlTypeOK
<1>4. {"artifacts", "symbols", "fields"} \subseteq Stages
  BY DEF Stages
<1>5. CASE held' = held
  BY <1>5
<1>6. ASSUME NEW x, held' = [held EXCEPT ![w].elf = x] PROVE Stay(held'[w])
  BY <1>2, <1>6 DEF IdsOf
<1>7. ASSUME NEW x, held' = [held EXCEPT ![w].artifact[item[w]] = x],
             At(w, "artifacts")
      PROVE  Stay(held'[w])
  <2>1. Passed(w, "artifacts", i) => i # item[w]
    BY <1>3, <1>4, <1>7
  <2>2. /\ held'[w].artifact = [held[w].artifact EXCEPT ![item[w]] = x]
        /\ held'[w].symbol = held[w].symbol /\ held'[w].field = held[w].field
    BY <1>2, <1>7 DEF IdsOf
  <2> QED
    BY <2>1, <2>2
<1>8. ASSUME NEW x, held' = [held EXCEPT ![w].symbol[item[w]] = x],
             At(w, "symbols")
      PROVE  Stay(held'[w])
  <2>1. Passed(w, "symbols", i) => i # item[w]
    BY <1>3, <1>4, <1>8
  <2>2. /\ held'[w].symbol = [held[w].symbol EXCEPT ![item[w]] = x]
        /\ held'[w].artifact = held[w].artifact /\ held'[w].field = held[w].field
    BY <1>2, <1>8 DEF IdsOf
  <2> QED
    BY <2>1, <2>2
<1>9. ASSUME NEW x, \/ held' = [held EXCEPT ![w].encoding = x]
                    \/ held' = [held EXCEPT ![w].encoding[item[w]] = x]
      PROVE  Stay(held'[w])
  BY <1>2, <1>9 DEF IdsOf
<1>10. ASSUME NEW x, held' = [held EXCEPT ![w].field[item[w]] = x],
              WriteField(w)
       PROVE  Stay(held'[w])
  <2>1. Passed(w, "fields", i) => i # item[w]
    BY <1>3, <1>4, <1>10 DEF WriteField
  <2>2. /\ held'[w].field = [held[w].field EXCEPT ![item[w]] = x]
        /\ held'[w].artifact = held[w].artifact /\ held'[w].symbol = held[w].symbol
    BY <1>2, <1>10 DEF IdsOf
  <2> QED
    BY <2>1, <2>2
<1> QED
  BY <1>1, <1>5, <1>6, <1>7, <1>8, <1>9, <1>10, StatementIds

\* What is stored stays stored: UPDATE only touches the row of its own
\* symbol, whose id is that of no other.
LEMMA ItemKept ==
  ASSUME TypeOK, IdInv, StoreInv, NEW w \in Writer, Step(w), Running(w),
         ~ failed[w], Running(w)',
         NEW s \in Stages, NEW i \in Items(image[w], s), Passed(w, s, i)
  PROVE  ItemStored(db', image[w], held'[w], s, i)
<1> DEFINE img == image[w]
           h == held[w]
<1>1. ItemStored(db, img, h, s, i) /\ img \in Images /\ IsImage(img)
  BY ImageType DEF StoreInv, TypeOK, MemoryTypeOK
<1>2. i \in Nat
  BY <1>1, LoopType DEF Items
<1>3. \A t \in Tables \ {"symbols"} : \A r \in DOMAIN db[t] :
        r \in DOMAIN db'[t] /\ db'[t][r] = db[t][r]
  BY StepsGrow DEF Grows
<1>4. {"encodings", "fields", "enumerations", "variables", "elf_sections",
       "elf_symbol_table"} \subseteq Tables \ {"symbols"}
  BY TableNames
<1>5. s \in {"targets", "fields", "enumerations", "variables", "sections",
             "elf_symbols"} =>
        pc[w] # "symbols" /\ Rank["symbols"] < Rank[pc[w]]
  <2>1. s \in {"targets", "fields", "enumerations", "variables", "sections",
               "elf_symbols"} => Rank["symbols"] < Rank[s]
    BY PastSymbols
  <2>2. Rank[s] < Rank[pc[w]] \/ Rank[s] = Rank[pc[w]]
    BY DEF Passed
  <2>3. pc[w] \in Stages \cup {"done"}
    BY DEF Running, TypeOK, ControlTypeOK
  <2>4. Rank[s] \in Nat /\ Rank["symbols"] \in Nat /\ Rank[pc[w]] \in Nat
    BY <2>3, RankType DEF Stages
  <2> QED
    BY <2>1, <2>2, <2>4
<1>6. CASE s \in {"artifacts", "symbols"}
  BY <1>1, <1>2, <1>6, PassedIdsStay DEF ItemStored
<1>7. CASE s = "encodings"
  <2>1. db["encodings"] # << >> /\ FileTypeOK
    BY <1>1, <1>7 DEF ItemStored, TypeOK
  <2>2. db["encodings"] \in Seq(RowOf["encodings"])
    BY <1>4, <2>1 DEF FileTypeOK
  <2>3. 1 \in DOMAIN db["encodings"]
    BY <2>1, <2>2
  <2>4. 1 \in DOMAIN db'["encodings"]
    BY <1>3, <1>4, <2>3
  <2> QED
    BY <1>7, <2>4 DEF ItemStored
<1>8. CASE s = "targets"
  <2> DEFINE t == img.symbols[i].target
  <2> SUFFICES ASSUME t # 0
               PROVE  db'["symbols"][held'[w].symbol[i]].target = held'[w].symbol[t]
    BY <1>8 DEF ItemStored
  <2>1. held'[w].symbol = h.symbol
    BY <1>5, <1>8, SymbolIdsStay
  <2>2. db["symbols"][h.symbol[i]].target = h.symbol[t]
    BY <1>1, <1>8 DEF ItemStored
  <2>3. i \in DOMAIN img.symbols
    BY <1>1, <1>8, ItemsAre
  <2>4. /\ h.symbol[i] \in DOMAIN db["symbols"]
        /\ db["symbols"][h.symbol[i]].name = img.symbols[i].name
    BY <1>5, <1>8, <2>3, SymbolsHeld
  <2>5. CASE ~ UpdateTarget(w)
    <3>1. ~ InsertSymbol(w)
      BY <1>5, <1>8 DEF InsertSymbol, At
    <3> QED
      BY <2>1, <2>2, <2>5, <3>1, SymbolsWritten
  <2>6. CASE UpdateTarget(w)
    <3> DEFINE j == item[w]
    <3>1. At(w, "targets")
      BY <2>6 DEF UpdateTarget
    <3>2. j \in DOMAIN img.symbols /\ i # j
      <4>1. ~ Rank["targets"] < Rank["targets"]
        BY RankType DEF Stages
      <4> QED
        BY <1>8, <3>1, <4>1, EntryType DEF TypeOK, ControlTypeOK, At, Passed
    <3>3. /\ Read(h.symbol[j]) = {h.symbol[j]}
          /\ h.symbol[j] \in DOMAIN db["symbols"]
          /\ db["symbols"][h.symbol[j]].name = img.symbols[j].name
      BY <1>5, <1>8, <3>2, SymbolsHeld
    <3>4. img.symbols[i].name # img.symbols[j].name
      BY <1>1, <2>3, <3>2 DEF IsImage
    <3>5. h.symbol[i] # h.symbol[j]
      BY <2>4, <3>3, <3>4
    <3>6. CASE db' = db
      BY <2>1, <2>2, <3>6
    <3>7. ASSUME NEW x, SetTarget(h.symbol[j], x)
          PROVE  db'["symbols"][h.symbol[i]] = db["symbols"][h.symbol[i]]
      <4>1. DOMAIN db = Tables /\ "symbols" \in Tables
        BY TableNames DEF TypeOK, FileTypeOK
      <4> QED
        BY <2>4, <3>5, <3>7, <4>1 DEF SetTarget
    <3>8. db' = db \/ \E x : SetTarget(h.symbol[j], x)
      BY <2>6, <3>3 DEF UpdateTarget
    <3> QED
      BY <2>1, <2>2, <3>6, <3>7, <3>8
  <2> QED
    BY <2>5, <2>6
<1>9. CASE s \in {"fields", "enumerations", "variables", "sections", "elf_symbols"}
  <2>1. held'[w].symbol = h.symbol
    BY <1>5, <1>9, SymbolIdsStay
  <2> QED
    BY <1>1, <1>3, <1>4, <1>9, <2>1 DEF ItemStored
<1>10. CASE s \in {"schema", "elf", "elf_again", "macros", "dimensions"}
  BY <1>10 DEF ItemStored
<1> QED
  BY <1>6, <1>7, <1>8, <1>9, <1>10 DEF Stages

\* With the answer still true the INSERT after it stores its row.
LEMMA InsertAbsent ==
  ASSUME TypeOK, NEW w \in Writer, NEW t \in Tables, NEW row, NEW res,
         Insert(w, t, row, res), ~ failed'[w], ~ Clashes(t, row)
  PROVE  res = "ok" /\ NextId(t) # Unset
<1>1. res # "error"
  BY FaultMarks DEF Insert
<1>2. NextId(t) # 0
  BY NextIdType DEF TypeOK
<1> QED
  BY <1>1, <1>2 DEF Insert, Unset

\* A statement without failure stores its item, when nobody else writes.
LEMMA ArtifactStored ==
  ASSUME TypeOK, NEW w \in Writer, Answers(w), ~ failed'[w],
         SelectArtifact(w) \/ InsertArtifact(w)
  PROVE  held'[w].artifact[item[w]] # Unset
<1> DEFINE i == item[w]
           s == image[w].symbols[i]
           row == [elf |-> held[w].elf, path |-> s.source, md5 |-> s.md5]
<1>1. /\ DOMAIN held = Writer /\ held[w] \in IdsOf(image[w])
      /\ At(w, "artifacts") /\ i \in DOMAIN image[w].symbols
  BY EntryType DEF TypeOK, MemoryTypeOK, SelectArtifact, InsertArtifact
<1>2. ASSUME NEW id, held' = [held EXCEPT ![w].artifact[i] = id]
      PROVE  held'[w].artifact[i] = id
  BY <1>1, <1>2 DEF IdsOf
<1>3. CASE SelectArtifact(w)
  <2>1. ~ Fault(w)
    BY FaultMarks
  <2>2. PICK id \in ArtifactRows(s.source) :
          held' = [held EXCEPT ![w].artifact[i] = id]
    BY <1>3, <2>1 DEF SelectArtifact
  <2>3. id # Unset
    BY TableNames DEF ArtifactRows, TypeOK, FileTypeOK, Unset
  <2> QED
    BY <1>2, <2>2, <2>3
<1>4. CASE InsertArtifact(w)
  <2>1. PICK res \in Results :
          /\ Insert(w, "artifacts", row, res)
          /\ res = "ok" => held' = [held EXCEPT ![w].artifact[i] = NextId("artifacts")]
    BY <1>4 DEF InsertArtifact
  <2>2. ArtifactRows(s.source) = {}
    BY <1>1, <1>4 DEF InsertArtifact, Answers
  <2>3. ~ Clashes("artifacts", row)
    BY <2>2 DEF Clashes, Unique, ArtifactRows
  <2> HIDE DEF row
  <2>4. res = "ok" /\ NextId("artifacts") # Unset
    BY <2>1, <2>3, InsertAbsent, TableNames
  <2> QED
    BY <1>2, <2>1, <2>4
<1> QED
  BY <1>3, <1>4

LEMMA SymbolStored ==
  ASSUME TypeOK, NEW w \in Writer, Answers(w), ~ failed'[w],
         SelectSymbol(w) \/ InsertSymbol(w)
  PROVE  held'[w].symbol[item[w]] # Unset
<1> DEFINE i == item[w]
           s == image[w].symbols[i]
           row(e, a) ==
             [elf |-> held[w].elf, name |-> s.name, byte_size |-> s.byte_size,
              encoding |-> e, artifact |-> a, target |-> Null]
<1>1. /\ DOMAIN held = Writer /\ held[w] \in IdsOf(image[w])
      /\ At(w, "symbols") /\ i \in DOMAIN image[w].symbols
  BY EntryType DEF TypeOK, MemoryTypeOK, SelectSymbol, InsertSymbol
<1>2. ASSUME NEW id, held' = [held EXCEPT ![w].symbol[i] = id]
      PROVE  held'[w].symbol[i] = id
  BY <1>1, <1>2 DEF IdsOf
<1>3. CASE SelectSymbol(w)
  <2>1. ~ Fault(w)
    BY FaultMarks
  <2>2. PICK id \in SymbolRows(s.name) :
          held' = [held EXCEPT ![w].symbol[i] = id]
    BY <1>3, <2>1 DEF SelectSymbol
  <2>3. id # Unset
    BY TableNames DEF SymbolRows, TypeOK, FileTypeOK, Unset
  <2> QED
    BY <1>2, <2>2, <2>3
<1>4. CASE InsertSymbol(w)
  <2>1. PICK res \in Results, e \in EncodingIds(w, s),
             a \in Read(held[w].artifact[i]) :
          /\ Insert(w, "symbols", row(e, a), res)
          /\ res = "ok" => held' = [held EXCEPT ![w].symbol[i] = NextId("symbols")]
    BY <1>4 DEF InsertSymbol
  <2>2. SymbolRows(s.name) = {}
    BY <1>1, <1>4 DEF InsertSymbol, Answers
  <2>3. ~ Clashes("symbols", row(e, a))
    BY <2>2 DEF Clashes, Unique, SymbolRows
  <2> HIDE DEF row
  <2>4. res = "ok" /\ NextId("symbols") # Unset
    BY <2>1, <2>3, InsertAbsent, TableNames
  <2> QED
    BY <1>2, <2>1, <2>4
<1> QED
  BY <1>3, <1>4

LEMMA EncodingStored ==
  ASSUME TypeOK, NEW w \in Writer, Answers(w), ~ failed'[w],
         SelectEncodings(w) \/ WriteEncoding(w)
  PROVE  db'["encodings"] # << >>
<1>1. "encodings" \in Tables
  BY TableNames
<1>2. CASE SelectEncodings(w)
  BY <1>2 DEF SelectEncodings, Answers
<1>3. CASE WriteEncoding(w)
  <2>1. PICK row, res : Insert(w, "encodings", row, res)
    BY <1>3 DEF WriteEncoding
  <2>2. \E r \in DOMAIN db'["encodings"] : TRUE
    BY <1>1, <2>1, InsertStores
  <2> QED
    BY <2>2
<1> QED
  BY <1>2, <1>3

\* UPDATE gives the row of the symbol the id of its target.
LEMMA TargetStored ==
  ASSUME TypeOK, IdInv, StoreInv, NEW w \in Writer, UpdateTarget(w),
         Running(w), ~ failed[w], ~ failed'[w],
         image[w].symbols[item[w]].target # 0
  PROVE  db'["symbols"][held[w].symbol[item[w]]].target =
           held[w].symbol[image[w].symbols[item[w]].target]
<1> DEFINE i == item[w]
           t == image[w].symbols[i].target
           h == held[w]
<1>1. i \in DOMAIN image[w].symbols /\ t \in DOMAIN image[w].symbols
  BY EntryType DEF TypeOK, UpdateTarget
<1>2. Rank["symbols"] < Rank[pc[w]]
  BY PastSymbols DEF UpdateTarget, At
<1>3. /\ Read(h.symbol[i]) = {h.symbol[i]} /\ Read(h.symbol[t]) = {h.symbol[t]}
      /\ h.symbol[i] \in DOMAIN db["symbols"]
  BY <1>1, <1>2, SymbolsHeld
<1>4. ~ Fault(w)
  BY FaultMarks
<1>5. SetTarget(h.symbol[i], h.symbol[t])
  BY <1>3, <1>4 DEF UpdateTarget
<1>6. /\ DOMAIN db = Tables /\ "symbols" \in Tables
      /\ db["symbols"][h.symbol[i]] \in RowOf["symbols"]
  BY <1>3, TableNames DEF TypeOK, FileTypeOK
<1> QED
  BY <1>3, <1>5, <1>6 DEF SetTarget, RowOf

LEMMA FieldStored ==
  ASSUME TypeOK, IdInv, StoreInv, NEW w \in Writer, WriteField(w),
         Running(w), ~ failed[w], ~ failed'[w]
  PROVE  \E r \in DOMAIN db'["fields"] :
           /\ db'["fields"][r].name = image[w].fields[item[w]].name
           /\ db'["fields"][r].symbol = held[w].symbol[image[w].fields[item[w]].symbol]
<1> DEFINE f == image[w].fields[item[w]]
           row(s, t) == [symbol |-> s, name |-> f.name,
                         byte_offset |-> f.offset, type |-> t]
<1>1. f.symbol \in DOMAIN image[w].symbols
  BY EntryType DEF TypeOK, WriteField
<1>2. Rank["symbols"] < Rank[pc[w]]
  BY PastSymbols DEF WriteField, At
<1>3. Read(held[w].symbol[f.symbol]) = {held[w].symbol[f.symbol]}
  BY <1>1, <1>2, SymbolsHeld
<1>4. PICK res \in Results, s \in Read(held[w].symbol[f.symbol]),
           t \in Read(held[w].symbol[f.type]) :
        Insert(w, "fields", row(s, t), res)
  BY DEF WriteField
<1>5. row(s, t).name = f.name /\ row(s, t).symbol = s
  OBVIOUS
<1> HIDE DEF row
<1>6. Unique["fields"] = {"symbol", "name"} /\ "fields" \in Tables
  BY TableNames DEF Unique
<1>7. \E r \in DOMAIN db'["fields"] :
        db'["fields"][r].name = f.name /\ db'["fields"][r].symbol = s
  <2>1. PICK r \in DOMAIN db'["fields"] :
          \/ db'["fields"][r] = row(s, t)
          \/ \A c \in Unique["fields"] : db'["fields"][r][c] = row(s, t)[c]
    BY <1>4, <1>6, InsertStores
  <2> QED
    BY <1>5, <1>6, <2>1
<1> QED
  BY <1>3, <1>7

LEMMA EnumeratorStored ==
  ASSUME TypeOK, IdInv, StoreInv, NEW w \in Writer, WriteEnumeration(w),
         Running(w), ~ failed[w], ~ failed'[w]
  PROVE  \E r \in DOMAIN db'["enumerations"] :
           /\ db'["enumerations"][r].name = image[w].enums[item[w]].name
           /\ db'["enumerations"][r].symbol = held[w].symbol[image[w].enums[item[w]].symbol]
<1> DEFINE e == image[w].enums[item[w]]
           row(s) == [symbol |-> s, name |-> e.name, value |-> e.value]
<1>1. e.symbol \in DOMAIN image[w].symbols
  BY EntryType DEF TypeOK, WriteEnumeration
<1>2. Rank["symbols"] < Rank[pc[w]]
  BY PastSymbols DEF WriteEnumeration, At
<1>3. Read(held[w].symbol[e.symbol]) = {held[w].symbol[e.symbol]}
  BY <1>1, <1>2, SymbolsHeld
<1>4. PICK res \in Results, s \in Read(held[w].symbol[e.symbol]) :
        Insert(w, "enumerations", row(s), res)
  BY DEF WriteEnumeration
<1>5. row(s).name = e.name /\ row(s).symbol = s
  OBVIOUS
<1> HIDE DEF row
<1>6. Unique["enumerations"] = {"symbol", "name"} /\ "enumerations" \in Tables
  BY TableNames DEF Unique
<1>7. \E r \in DOMAIN db'["enumerations"] :
        db'["enumerations"][r].name = e.name /\ db'["enumerations"][r].symbol = s
  BY <1>4, <1>5, <1>6, InsertStores
<1> QED
  BY <1>3, <1>7

LEMMA VariableStored ==
  ASSUME TypeOK, IdInv, StoreInv, NEW w \in Writer, WriteVariable(w),
         Running(w), ~ failed[w], ~ failed'[w]
  PROVE  \E r \in DOMAIN db'["variables"] :
           /\ db'["variables"][r].name = image[w].variables[item[w]].name
           /\ db'["variables"][r].type = held[w].symbol[image[w].variables[item[w]].type]
<1> DEFINE v == image[w].variables[item[w]]
           row(t) == [name |-> v.name, elf |-> held[w].elf, type |-> t]
<1>1. v.type \in DOMAIN image[w].symbols
  BY EntryType DEF TypeOK, WriteVariable
<1>2. Rank["symbols"] < Rank[pc[w]]
  BY PastSymbols DEF WriteVariable, At
<1>3. Read(held[w].symbol[v.type]) = {held[w].symbol[v.type]}
  BY <1>1, <1>2, SymbolsHeld
<1>4. PICK res \in Results, t \in Read(held[w].symbol[v.type]) :
        Insert(w, "variables", row(t), res)
  BY DEF WriteVariable
<1>5. row(t).name = v.name /\ row(t).type = t
  OBVIOUS
<1> HIDE DEF row
<1>6. Unique["variables"] = {"name", "type", "elf"} /\ "variables" \in Tables
  BY TableNames DEF Unique
<1>7. \E r \in DOMAIN db'["variables"] :
        db'["variables"][r].name = v.name /\ db'["variables"][r].type = t
  BY <1>4, <1>5, <1>6, InsertStores
<1> QED
  BY <1>3, <1>7

LEMMA StatementStores ==
  ASSUME TypeOK, IdInv, StoreInv, NEW w \in Writer, Step(w), Running(w),
         ~ failed[w], Running(w)', ~ failed'[w],
         NEW s \in Stages, At(w, s), item'[w] = item[w] + 1
  PROVE  ItemStored(db', image[w], held'[w], s, item[w])
<1>1. Answers(w)
  BY DEF StoreInv
<1>2. CASE s = "artifacts"
  BY <1>1, <1>2, StageActions, ArtifactStored DEF ItemStored
<1>3. CASE s = "encodings"
  BY <1>1, <1>3, StageActions, EncodingStored DEF ItemStored
<1>4. CASE s = "symbols"
  BY <1>1, <1>4, StageActions, SymbolStored DEF ItemStored
<1>5. CASE s \in {"targets", "fields", "enumerations", "variables"}
  <2>1. held'[w].symbol = held[w].symbol
    BY <1>5, SymbolIdsStay DEF At
  <2>2. CASE s = "targets"
    BY <2>1, <2>2, StageActions, TargetStored DEF ItemStored
  <2>3. CASE s = "fields"
    BY <2>1, <2>3, StageActions, FieldStored DEF ItemStored
  <2>4. CASE s = "enumerations"
    BY <2>1, <2>4, StageActions, EnumeratorStored DEF ItemStored
  <2>5. CASE s = "variables"
    BY <2>1, <2>5, StageActions, VariableStored DEF ItemStored
  <2> QED
    BY <1>5, <2>2, <2>3, <2>4, <2>5
<1>6. CASE s = "sections"
  <2>1. PICK res \in Results :
          Insert(w, "elf_sections",
                 [name |-> image[w].sections[item[w]], elf |-> held[w].elf], res)
    BY <1>6, StageActions DEF WriteElfSection
  <2>2. "elf_sections" \notin DOMAIN Unique /\ "elf_sections" \in Tables
    BY TableNames DEF Unique
  <2>3. \E r \in DOMAIN db'["elf_sections"] :
          db'["elf_sections"][r].name = image[w].sections[item[w]]
    BY <2>1, <2>2, InsertStores
  <2> QED
    BY <1>6, <2>3 DEF ItemStored
<1>7. CASE s = "elf_symbols"
  <2>1. PICK res \in Results :
          Insert(w, "elf_symbol_table",
                 [name |-> image[w].elfsymbols[item[w]], elf |-> held[w].elf], res)
    BY <1>7, StageActions DEF WriteElfSymbol
  <2>2. "elf_symbol_table" \notin DOMAIN Unique /\ "elf_symbol_table" \in Tables
    BY TableNames DEF Unique
  <2>3. \E r \in DOMAIN db'["elf_symbol_table"] :
          db'["elf_symbol_table"][r].name = image[w].elfsymbols[item[w]]
    BY <2>1, <2>2, InsertStores
  <2> QED
    BY <1>7, <2>3 DEF ItemStored
<1>8. CASE s \in {"schema", "elf", "elf_again", "macros", "dimensions"}
  BY <1>8 DEF ItemStored
<1> QED
  BY <1>2, <1>3, <1>4, <1>5, <1>6, <1>7, <1>8 DEF Stages

\* Between the SELECT COUNT of a process and its next statement nobody else
\* changes what it counted.
LEMMA AnswersStep ==
  ASSUME TypeOK, NEW w \in Writer, Step(w), ~ failed'[w], Running(w)'
  PROVE  Answers(w)'
<1>1. /\ pc \in [Writer -> Stages \cup {"idle", "done"}]
      /\ item \in [Writer -> Nat \ {0}] /\ DOMAIN found = Writer
  BY DEF TypeOK, ControlTypeOK
<1>2. ~ Finish(w) /\ ~ FailToCreateTable(w)
  BY DEF Finish, FailToCreateTable, Exit, Begin, TypeOK, ControlTypeOK, Running
<1>3. ~ Fault(w)
  BY FaultMarks
<1>4. ASSUME NEW rows, Count(w, rows)
      PROVE  found'[w] = IF rows = {} THEN "absent" ELSE "present"
  BY <1>1, <1>3, <1>4 DEF Count
<1>5. CASE CheckArtifact(w)
  <2>1. /\ At(w, "artifacts") /\ pc' = pc /\ item' = item /\ image' = image
        /\ db' = db
        /\ Count(w, ArtifactRows(image[w].symbols[item[w]].source))
    BY <1>5 DEF CheckArtifact
  <2>2. found'[w] = "absent" => ArtifactRows(image[w].symbols[item[w]].source) = {}
    BY <1>4, <2>1
  <2> QED
    BY <2>1, <2>2 DEF Answers, At, ArtifactRows
<1>6. CASE CheckSymbol(w)
  <2>1. /\ At(w, "symbols") /\ pc' = pc /\ item' = item /\ image' = image
        /\ db' = db
        /\ Count(w, SymbolRows(image[w].symbols[item[w]].name))
    BY <1>6 DEF CheckSymbol
  <2>2. found'[w] = "absent" => SymbolRows(image[w].symbols[item[w]].name) = {}
    BY <1>4, <2>1
  <2> QED
    BY <2>1, <2>2 DEF Answers, At, SymbolRows
<1>7. CASE CheckEncodings(w)
  <2>1. /\ At(w, "encodings") /\ pc' = pc /\ item' = item /\ image' = image
        /\ db' = db
        /\ Count(w, DOMAIN db["encodings"])
    BY <1>7 DEF CheckEncodings
  <2>2. found'[w] = "present" => DOMAIN db["encodings"] # {}
    BY <1>4, <2>1
  <2>3. found'[w] = "present" => db["encodings"] # << >>
    BY <2>2
  <2> QED
    BY <2>1, <2>3 DEF Answers, At
<1>8. CASE \/ SelectArtifact(w) \/ InsertArtifact(w) \/ SelectSymbol(w)
           \/ InsertSymbol(w) \/ Return(w)
  <2>1. found'[w] = "unasked"
    BY <1>1, <1>8 DEF SelectArtifact, InsertArtifact, SelectSymbol,
       InsertSymbol, Return
  <2> QED
    BY <2>1 DEF Answers
<1>9. CASE WriteEncoding(w)
  <2>1. found'[w] = "absent" /\ pc'[w] = "encodings"
    BY <1>9 DEF WriteEncoding, Advance, At
  <2> QED
    BY <2>1 DEF Answers, At
<1>10. CASE SelectEncodings(w)
  <2>1. /\ pc'[w] = "encodings" /\ item'[w] = Len(Encodings) + 1
        /\ image' = image
    BY <1>1, <1>10 DEF SelectEncodings, At
  <2>2. Len(Encodings) \in Nat
    BY EncodingsAssumption, LenProperties
  <2>3. ~ At(w, "encodings")'
    BY <2>1, <2>2 DEF At, Loop
  <2> QED
    BY <2>1, <2>3 DEF Answers, At
<1>11. CASE \/ CreateTable(w) \/ WriteElf(w) \/ WriteMacro(w) \/ UpdateTarget(w)
            \/ WriteField(w) \/ WriteDimension(w) \/ WriteEnumeration(w)
            \/ WriteVariable(w) \/ WriteElfSection(w) \/ WriteElfSymbol(w)
  <2>1. pc'[w] \notin {"artifacts", "symbols", "encodings"}
    BY <1>11 DEF At, CreateTable, WriteElf, WriteMacro, UpdateTarget,
       WriteField, WriteDimension, WriteEnumeration, WriteVariable,
       WriteElfSection, WriteElfSymbol, Advance
  <2> QED
    BY <2>1 DEF Answers, At
<1> QED
  BY <1>2, <1>5, <1>6, <1>7, <1>8, <1>9, <1>10, <1>11 DEF Step

LEMMA NextStore ==
  ASSUME NoColumnNames
  PROVE  /\ TypeOK /\ ErrorsAreFaults /\ IdInv /\ StoreInv
         /\ Alone /\ Alone' /\ [Next]_vars
         => StoreInv'
<1> SUFFICES ASSUME TypeOK, ErrorsAreFaults, IdInv, StoreInv, Alone, Alone',
                    [Next]_vars, NEW w \in Writer, Running(w)', ~ failed'[w]
             PROVE  /\ Answers(w)'
                    /\ \A s \in Stages : \A i \in Items(image'[w], s) :
                         Passed(w, s, i)' =>
                           ItemStored(db', image'[w], held'[w], s, i)
  BY DEF StoreInv, Items
<1>1. CASE UNCHANGED vars
  BY <1>1 DEF vars, StoreInv, Running, Answers, ArtifactRows, SymbolRows, At,
     Passed
<1>2. CASE Start(w)
  <2>1. found'[w] = "unasked"
    BY <1>2 DEF Start, Begin, TypeOK, ControlTypeOK
  <2>2. image'[w] \in Images
    BY <1>2, NextType DEF TypeOK, MemoryTypeOK
  <2>3. \A s \in Stages : \A i \in Items(image'[w], s) : i \in Nat \ {0}
    BY <2>2, LoopType DEF Items
  <2> QED
    BY <1>2, <2>1, <2>3, NothingPassed DEF Answers
<1>3. CASE Step(w)
  <2>1. Answers(w)'
    BY <1>3, AnswersStep
  <2>2. image'[w] = image[w] /\ Running(w) /\ ~ failed[w]
    BY <1>3, PassedStep
  <2>3. ASSUME NEW s \in Stages, NEW i \in Items(image[w], s), Passed(w, s, i)'
        PROVE  ItemStored(db', image[w], held'[w], s, i)
    <3>1. \/ Passed(w, s, i)
          \/ At(w, s) /\ i = item[w] /\ item'[w] = item[w] + 1
          \/ s = "encodings" /\ SelectEncodings(w)
      BY <1>3, <2>3, PassedStep
    <3>2. CASE Passed(w, s, i)
      BY <1>3, <2>2, <2>3, <3>2, ItemKept
    <3>3. CASE At(w, s) /\ i = item[w] /\ item'[w] = item[w] + 1
      BY <1>3, <2>2, <3>3, StatementStores
    <3>4. CASE s = "encodings" /\ SelectEncodings(w)
      BY <2>2, <3>4, EncodingStored DEF StoreInv, ItemStored
    <3> QED
      BY <3>1, <3>2, <3>3, <3>4
  <2> QED
    BY <2>1, <2>2, <2>3
<1> QED
  BY <1>1, <1>2, <1>3, OwnStep

-----------------------------------------------------------------------------
(* A symbol has one row.                                                   *)

NamesUnique ==
  \A i, j \in DOMAIN db["symbols"] :
    db["symbols"][i].name = db["symbols"][j].name => i = j

LEMMA NextUnique == TypeOK /\ NamesUnique /\ [Next]_vars => NamesUnique'
<1> SUFFICES ASSUME TypeOK, NamesUnique, [Next]_vars PROVE NamesUnique'
  OBVIOUS
<1>1. ASSUME Grows(db, db'), DOMAIN db'["symbols"] = DOMAIN db["symbols"]
      PROVE  NamesUnique'
  BY <1>1 DEF Grows, NamesUnique
<1>2. CASE UNCHANGED vars \/ Quiet
  BY <1>2 DEF vars, Quiet, NamesUnique
<1>3. ASSUME NEW w \in Writer, InsertSymbol(w) PROVE NamesUnique'
  <2>1. PICK row, res : Insert(w, "symbols", row, res)
    BY <1>3 DEF InsertSymbol
  <2>2. CASE db' = db
    BY <2>2 DEF NamesUnique
  <2>3. CASE /\ ~ Clashes("symbols", row)
             /\ db' = [db EXCEPT !["symbols"] = Append(@, row)]
    <3>1. /\ db["symbols"] \in Seq(RowOf["symbols"]) /\ DOMAIN db = Tables
          /\ "symbols" \in Tables
      BY TableNames DEF TypeOK, FileTypeOK
    <3>2. db'["symbols"] = Append(db["symbols"], row)
      BY <2>3, <3>1
    <3>3. /\ DOMAIN db["symbols"] = 1 .. Len(db["symbols"])
          /\ DOMAIN db'["symbols"] = 1 .. Len(db["symbols"]) + 1
          /\ Len(db["symbols"]) \in Nat
      BY <3>1, <3>2
    <3>4. /\ db'["symbols"][Len(db["symbols"]) + 1] = row
          /\ \A i \in DOMAIN db["symbols"] : db'["symbols"][i] = db["symbols"][i]
      BY <3>1, <3>2, AppendKeeps
    <3>5. \A i \in DOMAIN db["symbols"] : db["symbols"][i].name # row.name
      BY <2>3 DEF Clashes, Unique
    <3> QED
      BY <3>3, <3>4, <3>5 DEF NamesUnique
  <2> QED
    BY <2>1, <2>2, <2>3 DEF Insert
<1>4. ASSUME NEW w \in Writer, Start(w) \/ Step(w) \/ Crash(w) PROVE NamesUnique'
  BY <1>1, <1>3, <1>4, StepsGrow, SymbolsWritten
<1> QED
  BY <1>2, <1>4 DEF Next

\* So the row of a symbol is the one whose id the process holds.
LEMMA SymbolIdHeld ==
  ASSUME NamesUnique, NEW img, NEW i, NEW id \in DOMAIN db["symbols"],
         db["symbols"][id].name = img.symbols[i].name
  PROVE  SymbolId(img, i) = id
BY DEF NamesUnique, SymbolId

-----------------------------------------------------------------------------
(* The result.                                                             *)

\* The last function of write() leaves no raw SQLite code in rc.
RawInv ==
  \A w \in Writer : pc[w] \in {"elf_symbols", "done"} => rc[w] # RAW

LEMMA NextRaw == TypeOK /\ RawInv /\ [Next]_vars => RawInv'
<1> SUFFICES ASSUME TypeOK, RawInv, [Next]_vars, NEW w \in Writer,
                    pc'[w] \in {"elf_symbols", "done"}
             PROVE  rc'[w] # RAW
  BY DEF RawInv
<1>1. /\ pc \in [Writer -> Stages \cup {"idle", "done"}]
      /\ rc \in [Writer -> {OK, ERROR, RAW}]
  BY DEF TypeOK, ControlTypeOK
<1>2. OK # RAW /\ ERROR # RAW
  BY DEF OK, ERROR, RAW
<1>3. CASE SameProcess(w)
  BY <1>3 DEF SameProcess, RawInv
<1>4. CASE UNCHANGED vars \/ Quiet
  BY <1>3, <1>4 DEF vars, Quiet, SameProcess
<1>5. ASSUME NEW v \in Writer \ {w}, Start(v) \/ Step(v) \/ Crash(v)
      PROVE  rc'[w] # RAW
  BY <1>3, <1>5, OthersKeep
<1>6. CASE Start(w) \/ Crash(w) \/ Finish(w) \/ FailToCreateTable(w)
  BY <1>1, <1>2, <1>6 DEF Start, Crash, Finish, Exit, FailToCreateTable, Begin
<1>7. CASE Return(w)
  <2> DEFINE next == After(pc[w], rc[w])
  <2>1. /\ pc[w] \in Stages /\ next \in {"elf_symbols", "done"}
        /\ rc'[w] = IF pc[w] = "symbols" \/ next \in {"dimensions", "done"}
                    THEN rc[w] ELSE OK
    BY <1>1, <1>7 DEF Return
  <2>2. pc[w] # "symbols"
    BY <2>1 DEF After, OnSuccess, OnError
  <2>3. next = "done" => pc[w] = "elf_symbols" \/ rc[w] = ERROR
    BY <2>1 DEF After, OnSuccess, OnError, Stages
  <2> HIDE DEF next
  <2> QED
    BY <1>2, <2>1, <2>2, <2>3 DEF RawInv
<1>8. CASE Step(w) /\ ~ Finish(w) /\ ~ FailToCreateTable(w) /\ ~ Return(w)
  <2>1. pc' = pc
    BY <1>8, StatementScope
  <2>2. CASE rc' = rc
    BY <2>1, <2>2 DEF RawInv
  <2>3. CASE WriteElfSymbol(w)
    BY <1>1, <1>2, <2>3 DEF WriteElfSymbol, Report
  <2>4. WriteElfSymbol(w) \/ rc' = rc
    BY <1>8, <2>1
    DEF Step, CreateTable, WriteElf, CheckArtifact, SelectArtifact,
        InsertArtifact, WriteMacro, CheckEncodings, WriteEncoding,
        SelectEncodings, CheckSymbol, SelectSymbol, InsertSymbol, UpdateTarget,
        WriteField, WriteDimension, WriteEnumeration, WriteVariable,
        WriteElfSection, At
  <2> QED
    BY <2>2, <2>3, <2>4
<1> QED
  BY <1>4, <1>5, <1>6, <1>7, <1>8 DEF Next

-----------------------------------------------------------------------------

LEMMA AllStored ==
  ASSUME TypeOK, IdInv, NamesInv, StoreInv, NamesUnique,
         NEW w \in Writer, pc[w] = "done", ~ failed[w]
  PROVE  Stored(image[w])
<1> DEFINE img == image[w]
           h == held[w]
<1>1. Running(w) /\ img \in Images /\ IsImage(img)
  BY ImageType DEF TypeOK, MemoryTypeOK, Running
<1>2. \A s \in Stages : \A i \in Items(img, s) :
        NameStored(db, img, s, i) /\ ItemStored(db, img, h, s, i)
  BY <1>1, DonePassed DEF NamesInv, StoreInv
<1>3. { "elf", "artifacts", "macros", "symbols", "targets", "fields",
        "enumerations", "variables", "sections", "elf_symbols" } \subseteq Stages
  BY DEF Stages
<1>4. \A i \in DOMAIN img.symbols : SymbolId(img, i) = h.symbol[i]
  <2>1. Rank["symbols"] < Rank[pc[w]]
    BY PastSymbols
  <2> SUFFICES ASSUME NEW i \in DOMAIN img.symbols
               PROVE  SymbolId(img, i) = h.symbol[i]
    OBVIOUS
  <2>2. /\ h.symbol[i] \in DOMAIN db["symbols"]
        /\ db["symbols"][h.symbol[i]].name = img.symbols[i].name
    BY <1>1, <2>1, SymbolsHeld
  <2> QED
    BY <2>2, SymbolIdHeld
<1>5. NamesStored(img)
  <2>1. HasRow("elfs", LAMBDA r : r.name = img.path)
    BY <1>1, <1>2, <1>3, ItemsAre DEF NameStored, HasRow
  <2>2. \A i \in DOMAIN img.symbols :
          /\ HasRow("symbols", LAMBDA r : r.name = img.symbols[i].name)
          /\ HasRow("artifacts", LAMBDA r : r.path = img.symbols[i].source)
    BY <1>1, <1>2, <1>3, ItemsAre DEF NameStored, HasRow
  <2>3. \A i \in DOMAIN img.macros : HasRow("macros", LAMBDA r : r = img.macros[i])
    BY <1>1, <1>2, <1>3, ItemsAre DEF NameStored, HasRow
  <2> QED
    BY <2>1, <2>2, <2>3 DEF NamesStored
<1>6. \A i \in DOMAIN img.symbols : img.symbols[i].target # 0 =>
        db["symbols"][SymbolId(img, i)].target = SymbolId(img, img.symbols[i].target)
  <2> SUFFICES ASSUME NEW i \in DOMAIN img.symbols, img.symbols[i].target # 0
               PROVE  db["symbols"][SymbolId(img, i)].target =
                        SymbolId(img, img.symbols[i].target)
    OBVIOUS
  <2>1. img.symbols[i].target \in DOMAIN img.symbols
    BY <1>1 DEF IsImage
  <2>2. db["symbols"][h.symbol[i]].target = h.symbol[img.symbols[i].target]
    BY <1>1, <1>2, <1>3, ItemsAre DEF ItemStored
  <2> QED
    BY <1>4, <2>1, <2>2
<1>7. \A f \in { img.fields[k] : k \in DOMAIN img.fields } :
        HasRow("fields", LAMBDA r :
                 r.name = f.name /\ r.symbol = SymbolId(img, f.symbol))
  <2> SUFFICES ASSUME NEW f \in { img.fields[k] : k \in DOMAIN img.fields }
               PROVE  HasRow("fields", LAMBDA r : r.name = f.name /\ r.symbol = SymbolId(img, f.symbol))
    OBVIOUS
  <2>1. PICK k \in DOMAIN img.fields : f = img.fields[k]
    OBVIOUS
  <2>2. f.symbol \in DOMAIN img.symbols
    BY <1>1, <2>1 DEF IsImage
  <2>3. \E r \in DOMAIN db["fields"] :
          /\ db["fields"][r].name = f.name
          /\ db["fields"][r].symbol = h.symbol[f.symbol]
    BY <1>1, <1>2, <1>3, <2>1, ItemsAre DEF ItemStored
  <2> QED
    BY <1>4, <2>2, <2>3 DEF HasRow
<1>8. \A e \in { img.enums[k] : k \in DOMAIN img.enums } :
        HasRow("enumerations", LAMBDA r :
                 r.name = e.name /\ r.symbol = SymbolId(img, e.symbol))
  <2> SUFFICES ASSUME NEW e \in { img.enums[k] : k \in DOMAIN img.enums }
               PROVE  HasRow("enumerations", LAMBDA r : r.name = e.name /\ r.symbol = SymbolId(img, e.symbol))
    OBVIOUS
  <2>1. PICK k \in DOMAIN img.enums : e = img.enums[k]
    OBVIOUS
  <2>2. e.symbol \in DOMAIN img.symbols
    BY <1>1, <2>1 DEF IsImage
  <2>3. \E r \in DOMAIN db["enumerations"] :
          /\ db["enumerations"][r].name = e.name
          /\ db["enumerations"][r].symbol = h.symbol[e.symbol]
    BY <1>1, <1>2, <1>3, <2>1, ItemsAre DEF ItemStored
  <2> QED
    BY <1>4, <2>2, <2>3 DEF HasRow
<1>9. \A v \in { img.variables[k] : k \in DOMAIN img.variables } :
        HasRow("variables", LAMBDA r :
                 r.name = v.name /\ r.type = SymbolId(img, v.type))
  <2> SUFFICES ASSUME NEW v \in { img.variables[k] : k \in DOMAIN img.variables }
               PROVE  HasRow("variables", LAMBDA r : r.name = v.name /\ r.type = SymbolId(img, v.type))
    OBVIOUS
  <2>1. PICK k \in DOMAIN img.variables : v = img.variables[k]
    OBVIOUS
  <2>2. v.type \in DOMAIN img.symbols
    BY <1>1, <2>1 DEF IsImage
  <2>3. \E r \in DOMAIN db["variables"] :
          /\ db["variables"][r].name = v.name
          /\ db["variables"][r].type = h.symbol[v.type]
    BY <1>1, <1>2, <1>3, <2>1, ItemsAre DEF ItemStored
  <2> QED
    BY <1>4, <2>2, <2>3 DEF HasRow
<1>10. \A k \in DOMAIN img.sections :
         HasRow("elf_sections", LAMBDA r : r.name = img.sections[k])
  BY <1>1, <1>2, <1>3, ItemsAre DEF ItemStored, HasRow
<1>11. \A k \in DOMAIN img.elfsymbols :
         HasRow("elf_symbol_table", LAMBDA r : r.name = img.elfsymbols[k])
  BY <1>1, <1>2, <1>3, ItemsAre DEF ItemStored, HasRow
<1> QED
  BY <1>5, <1>6, <1>7, <1>8, <1>9, <1>10, <1>11 DEF Stored

\* While no two processes run at the same time, a write() none of whose
\* statements failed answers SQLITEDB_OK and has stored its whole ElfFile,
\* whatever earlier processes that crashed or failed left in the file.
THEOREM CleanWrites ==
  ASSUME NoColumnNames PROVE Spec /\ []Alone => []CleanWriteStoresAll
<1>1. Init => ErrorsAreFaults
  BY DEF Init, ErrorsAreFaults, OK, ERROR
<1>2. Init => IdInv
  BY DEF Init, IdInv, Running, BeforeFields, NoFieldIds
<1>3. Init => NamesInv
  BY DEF Init, NamesInv, Running
<1>4. Init => StoreInv
  BY DEF Init, StoreInv, Running
<1>5. Init => NamesUnique
  BY TableNames DEF Init, NamesUnique
<1>6. Init => RawInv
  BY DEF Init, RawInv
<1>7. /\ TypeOK /\ ErrorsAreFaults /\ IdInv /\ NamesInv /\ StoreInv
      /\ NamesUnique /\ RawInv
      => CleanWriteStoresAll
  <2> SUFFICES ASSUME TypeOK, ErrorsAreFaults, IdInv, NamesInv, StoreInv,
                      NamesUnique, RawInv,
                      NEW w \in Writer, pc[w] = "done", ~ failed[w]
               PROVE  rc[w] = OK /\ Stored(image[w])
    BY DEF CleanWriteStoresAll
  <2>1. rc[w] \in {OK, ERROR, RAW} /\ rc[w] # ERROR /\ rc[w] # RAW
    BY DEF TypeOK, ControlTypeOK, ErrorsAreFaults, RawInv
  <2> QED
    BY <2>1, AllStored
<1> QED
  BY <1>1, <1>2, <1>3, <1>4, <1>5, <1>6, <1>7, TypeCorrect, NextErrors, NextIds,
     NextNames, NextStore, NextUnique, NextRaw, PTL DEF Spec
=============================================================================
