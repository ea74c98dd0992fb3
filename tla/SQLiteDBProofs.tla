--------------------------- MODULE SQLiteDBProofs ---------------------------
(***************************************************************************)
(* What holds of SQLiteDB for every number of processes, every ElfFile and *)
(* every number of runs and of failing statements.                         *)
(***************************************************************************)
EXTENDS SQLiteDB, SequenceTheorems, TLAPS

USE DEF Unset, Null, OK, ERROR, RAW

-----------------------------------------------------------------------------
(* Type correctness.                                                       *)

LEMMA Successor == \A n \in Nat : n + 1 \in Nat \ {0}
OBVIOUS

LEMMA TableNames ==
  Tables = { "elfs", "symbols", "fields", "dimension_lists", "enumerations",
             "artifacts", "macros", "variables", "elf_sections",
             "elf_symbol_table", "encodings" }
<1>1. Len(Schema) = 11 /\ DOMAIN Schema = 1 .. 11
  BY DEF Schema
<1> QED
  BY <1>1 DEF Tables, Schema

\* What a read of an id member returns is a number.
LEMMA ReadType == ASSUME NEW id \in Nat PROVE Read(id) \subseteq Nat
BY JunkAssumption DEF Read

\* A statement moves the fault counters within their bounds.
LEMMA FaultType ==
  ASSUME BoundsTypeOK, NEW w \in Writer, NoFault \/ Fault(w), runs' = runs
  PROVE  BoundsTypeOK'
<1>1. CASE NoFault
  BY <1>1 DEF NoFault, BoundsTypeOK
<1>2. CASE Fault(w)
  <2>1. /\ faults < MaxFaults /\ faults' = faults + 1
        /\ faults \in 0 .. MaxFaults /\ runs' \in 0 .. MaxRuns
        /\ failed' = [failed EXCEPT ![w] = TRUE]
        /\ failed \in [Writer -> BOOLEAN]
    BY <1>2 DEF Fault, BoundsTypeOK
  <2>2. failed' \in [Writer -> BOOLEAN]
    BY <2>1, Zenon
  <2>3. faults' \in 0 .. MaxFaults
    BY <2>1, BoundsAssumption
  <2> QED
    BY <2>1, <2>2, <2>3 DEF BoundsTypeOK
<1> QED
  BY <1>1, <1>2

LEMMA NextIdType ==
  ASSUME FileTypeOK, NEW t \in Tables PROVE NextId(t) \in Nat \ {0}
BY LenProperties DEF FileTypeOK, NextId

\* What an INSERT of a row that fits its table does, whatever its result.
LEMMA InsertType ==
  ASSUME FileTypeOK, BoundsTypeOK, NEW w \in Writer, NEW t \in Tables,
         NEW row \in RowOf[t], NEW res, Insert(w, t, row, res),
         tables' = tables, runs' = runs
  PROVE  FileTypeOK' /\ BoundsTypeOK'
<1>1. BoundsTypeOK'
  BY FaultType DEF Insert
<1>2. CASE db' = db
  BY <1>1, <1>2 DEF FileTypeOK
<1>3. CASE db' = [db EXCEPT ![t] = Append(@, row)]
  <2>1. Append(db[t], row) \in Seq(RowOf[t])
    BY AppendProperties DEF FileTypeOK
  <2> QED
    BY <1>1, <1>3, <2>1 DEF FileTypeOK
<1> QED
  BY <1>2, <1>3 DEF Insert

\* Setting an id member to a number.
LEMMA SetIdType ==
  ASSUME MemoryTypeOK, NEW w \in Writer, NEW id \in Nat, NEW i,
         image' = image,
         \/ held' = held
         \/ held' = [held EXCEPT ![w].elf = id]
         \/ held' = [held EXCEPT ![w].artifact[i] = id]
         \/ held' = [held EXCEPT ![w].symbol[i] = id]
         \/ held' = [held EXCEPT ![w].encoding[i] = id]
         \/ held' = [held EXCEPT ![w].field[i] = id]
  PROVE  MemoryTypeOK'
<1>1. held[w] \in IdsOf(image[w])
  BY DEF MemoryTypeOK
<1>2. CASE held' = held
  BY <1>2 DEF MemoryTypeOK
<1>3. ASSUME NEW h \in IdsOf(image[w]), held' = [held EXCEPT ![w] = h]
      PROVE  MemoryTypeOK'
  BY <1>3 DEF MemoryTypeOK
<1>4. CASE held' = [held EXCEPT ![w].elf = id]
  <2>1. [held[w] EXCEPT !.elf = id] \in IdsOf(image[w])
    BY <1>1 DEF IdsOf
  <2> QED
    BY <1>3, <1>4, <2>1
<1>5. CASE held' = [held EXCEPT ![w].artifact[i] = id]
  <2>1. [held[w] EXCEPT !.artifact[i] = id] \in IdsOf(image[w])
    BY <1>1 DEF IdsOf
  <2> QED
    BY <1>3, <1>5, <2>1
<1>6. CASE held' = [held EXCEPT ![w].symbol[i] = id]
  <2>1. [held[w] EXCEPT !.symbol[i] = id] \in IdsOf(image[w])
    BY <1>1 DEF IdsOf
  <2> QED
    BY <1>3, <1>6, <2>1
<1>7. CASE held' = [held EXCEPT ![w].encoding[i] = id]
  <2>1. [held[w] EXCEPT !.encoding[i] = id] \in IdsOf(image[w])
    BY <1>1 DEF IdsOf
  <2> QED
    BY <1>3, <1>7, <2>1
<1>8. CASE held' = [held EXCEPT ![w].field[i] = id]
  <2>1. [held[w] EXCEPT !.field[i] = id] \in IdsOf(image[w])
    BY <1>1 DEF IdsOf
  <2> QED
    BY <1>3, <1>8, <2>1
<1> QED
  BY <1>2, <1>4, <1>5, <1>6, <1>7, <1>8

\* The work of the current item is done.
LEMMA AdvanceType ==
  ASSUME ControlTypeOK, NEW w \in Writer, Advance(w),
         \/ rc' = rc
         \/ \E r \in {OK, ERROR, RAW} : rc' = [rc EXCEPT ![w] = r],
         found' = found \/ found' = [found EXCEPT ![w] = "unasked"]
  PROVE  ControlTypeOK' /\ tables' = tables /\ runs' = runs /\ image' = image
<1>1. item' \in [Writer -> Nat \ {0}]
  <2>1. item \in [Writer -> Nat \ {0}] /\ item' = [item EXCEPT ![w] = @ + 1]
    BY DEF ControlTypeOK, Advance
  <2>2. \A n \in Nat : n + 1 \in Nat \ {0}
    BY Successor
  <2>3. item[w] \in Nat
    BY <2>1
  <2> QED
    BY <2>1, <2>2, <2>3, Zenon
<1>2. rc' \in [Writer -> {OK, ERROR, RAW}]
  BY DEF ControlTypeOK
<1>3. found' \in [Writer -> {"unasked", "absent", "present"}]
  BY DEF ControlTypeOK
<1> QED
  BY <1>1, <1>2, <1>3 DEF ControlTypeOK, Advance

LEMMA NoIdsType == ASSUME NEW img \in Images PROVE NoIds(img) \in IdsOf(img)
BY DEF NoIds, IdsOf

LEMMA AnyImageType == AnyImage \in Images
BY ImagesAssumption DEF AnyImage

LEMMA BeginType ==
  ASSUME ControlTypeOK, MemoryTypeOK, NEW w \in Writer, NEW img \in Images,
         NEW p \in {"schema", "idle"}, Begin(w, p, img)
  PROVE  ControlTypeOK' /\ MemoryTypeOK'
<1>1. ControlTypeOK'
  <2>1. pc' \in [Writer -> Stages \cup {"idle", "done"}]
    BY DEF ControlTypeOK, Begin, Stages
  <2>2. item' \in [Writer -> Nat \ {0}]
    <3>1. item \in [Writer -> Nat \ {0}] /\ item' = [item EXCEPT ![w] = 1]
      BY DEF ControlTypeOK, Begin
    <3>2. 1 \in Nat \ {0}
      OBVIOUS
    <3> QED
      BY <3>1, <3>2, Zenon
  <2>3. found' \in [Writer -> {"unasked", "absent", "present"}]
    BY DEF ControlTypeOK, Begin
  <2>4. rc' \in [Writer -> {OK, ERROR, RAW}]
    BY DEF ControlTypeOK, Begin
  <2> QED
    BY <2>1, <2>2, <2>3, <2>4 DEF ControlTypeOK
<1>2. MemoryTypeOK'
  BY NoIdsType DEF MemoryTypeOK, Begin
<1> QED
  BY <1>1, <1>2

LEMMA InitType == Init => TypeOK
<1> SUFFICES ASSUME Init PROVE TypeOK
  OBVIOUS
<1>1. FileTypeOK
  <2>1. << >> \in Seq(RowOf["elfs"])
    OBVIOUS
  <2> QED
    BY TableNames DEF Init, FileTypeOK
<1>2. ControlTypeOK
  BY DEF Init, ControlTypeOK
<1>3. MemoryTypeOK
  BY AnyImageType, NoIdsType DEF Init, MemoryTypeOK
<1>4. BoundsTypeOK
  BY BoundsAssumption DEF Init, BoundsTypeOK
<1> QED
  BY <1>1, <1>2, <1>3, <1>4 DEF TypeOK

LEMMA ImageType ==
  ASSUME MemoryTypeOK, NEW w \in Writer PROVE IsImage(image[w])
BY ImagesAssumption DEF MemoryTypeOK

\* Entries at the loop position of a process.
LEMMA SeqElement ==
  \A S : \A s \in Seq(S) : \A i \in 1 .. Len(s) : i \in DOMAIN s /\ s[i] \in S
OBVIOUS

\* A process at an item of a loop has an item to write.
LEMMA LoopRange ==
  ASSUME NEW w \in Writer
  PROVE  /\ At(w, "artifacts") => item[w] \in 1 .. Len(image[w].symbols)
         /\ At(w, "symbols") => item[w] \in 1 .. Len(image[w].symbols)
         /\ At(w, "targets") => item[w] \in 1 .. Len(image[w].symbols)
         /\ At(w, "macros") => item[w] \in 1 .. Len(image[w].macros)
         /\ At(w, "fields") => item[w] \in 1 .. Len(image[w].fields)
         /\ At(w, "dimensions") => item[w] \in 1 .. Len(image[w].dims)
         /\ At(w, "enumerations") => item[w] \in 1 .. Len(image[w].enums)
         /\ At(w, "variables") => item[w] \in 1 .. Len(image[w].variables)
         /\ At(w, "sections") => item[w] \in 1 .. Len(image[w].sections)
         /\ At(w, "elf_symbols") => item[w] \in 1 .. Len(image[w].elfsymbols)
         /\ At(w, "encodings") => item[w] \in 1 .. Len(Encodings)
         /\ At(w, "schema") => item[w] \in 1 .. Len(Schema)
BY DEF At, Loop

LEMMA EntryType ==
  ASSUME MemoryTypeOK, NEW w \in Writer
  PROVE  /\ At(w, "artifacts") \/ At(w, "symbols") \/ At(w, "targets") =>
              /\ item[w] \in DOMAIN image[w].symbols
              /\ image[w].symbols[item[w]] \in SymbolEntry
              /\ image[w].symbols[item[w]].target \in {0} \cup DOMAIN image[w].symbols
         /\ At(w, "macros") =>
              image[w].macros[item[w]] \in [name : STRING, value : STRING]
         /\ At(w, "fields") =>
              /\ item[w] \in DOMAIN image[w].fields
              /\ image[w].fields[item[w]] \in FieldEntry
              /\ image[w].fields[item[w]].symbol \in DOMAIN image[w].symbols
              /\ image[w].fields[item[w]].type \in DOMAIN image[w].symbols
         /\ At(w, "dimensions") =>
              /\ image[w].dims[item[w]] \in DimEntry
              /\ image[w].dims[item[w]].field \in DOMAIN image[w].fields
         /\ At(w, "enumerations") =>
              /\ image[w].enums[item[w]] \in EnumEntry
              /\ image[w].enums[item[w]].symbol \in DOMAIN image[w].symbols
         /\ At(w, "variables") =>
              /\ image[w].variables[item[w]] \in [name : STRING, type : Nat]
              /\ image[w].variables[item[w]].type \in DOMAIN image[w].symbols
         /\ At(w, "sections") => image[w].sections[item[w]] \in STRING
         /\ At(w, "elf_symbols") => image[w].elfsymbols[item[w]] \in STRING
         /\ At(w, "encodings") =>
              /\ item[w] \in DOMAIN Encodings
              /\ Encodings[item[w]] \in STRING
<1> DEFINE img == image[w]
<1>1. IsImage(img)
  BY ImageType
<1>2. /\ img.symbols \in Seq(SymbolEntry)
      /\ img.macros \in Seq([name : STRING, value : STRING])
      /\ img.fields \in Seq(FieldEntry)
      /\ img.dims \in Seq(DimEntry)
      /\ img.enums \in Seq(EnumEntry)
      /\ img.variables \in Seq([name : STRING, type : Nat])
      /\ img.sections \in Seq(STRING) /\ img.elfsymbols \in Seq(STRING)
  BY <1>1 DEF IsImage
<1>3. /\ \A i \in DOMAIN img.symbols :
            img.symbols[i].target \in {0} \cup DOMAIN img.symbols
      /\ \A i \in DOMAIN img.fields :
            /\ img.fields[i].symbol \in DOMAIN img.symbols
            /\ img.fields[i].type \in DOMAIN img.symbols
      /\ \A i \in DOMAIN img.dims : img.dims[i].field \in DOMAIN img.fields
      /\ \A i \in DOMAIN img.enums : img.enums[i].symbol \in DOMAIN img.symbols
      /\ \A i \in DOMAIN img.variables :
            img.variables[i].type \in DOMAIN img.symbols
  BY <1>1 DEF IsImage
<1> HIDE DEF img
<1>4. At(w, "artifacts") \/ At(w, "symbols") \/ At(w, "targets") =>
        item[w] \in DOMAIN img.symbols /\ img.symbols[item[w]] \in SymbolEntry
  BY <1>2, LoopRange, SeqElement DEF img
<1>5. At(w, "macros") =>
        item[w] \in DOMAIN img.macros /\ img.macros[item[w]] \in [name : STRING, value : STRING]
  BY <1>2, LoopRange, SeqElement DEF img
<1>6. At(w, "fields") =>
        item[w] \in DOMAIN img.fields /\ img.fields[item[w]] \in FieldEntry
  BY <1>2, LoopRange, SeqElement DEF img
<1>7. At(w, "dimensions") =>
        item[w] \in DOMAIN img.dims /\ img.dims[item[w]] \in DimEntry
  BY <1>2, LoopRange, SeqElement DEF img
<1>8. At(w, "enumerations") =>
        item[w] \in DOMAIN img.enums /\ img.enums[item[w]] \in EnumEntry
  BY <1>2, LoopRange, SeqElement DEF img
<1>9. At(w, "variables") =>
        item[w] \in DOMAIN img.variables /\ img.variables[item[w]] \in [name : STRING, type : Nat]
  BY <1>2, LoopRange, SeqElement DEF img
<1>10. At(w, "sections") =>
        item[w] \in DOMAIN img.sections /\ img.sections[item[w]] \in STRING
  BY <1>2, LoopRange, SeqElement DEF img
<1>11. At(w, "elf_symbols") =>
        item[w] \in DOMAIN img.elfsymbols /\ img.elfsymbols[item[w]] \in STRING
  BY <1>2, LoopRange, SeqElement DEF img
<1>12. At(w, "encodings") =>
         item[w] \in DOMAIN Encodings /\ Encodings[item[w]] \in STRING \ {""}
  BY EncodingsAssumption, LoopRange, SeqElement
<1> QED
  BY <1>3, <1>4, <1>5, <1>6, <1>7, <1>8, <1>9, <1>10, <1>11, <1>12 DEF img

LEMMA HeldType ==
  ASSUME MemoryTypeOK, NEW w \in Writer
  PROVE  /\ held[w].elf \in Nat
         /\ \A i \in DOMAIN image[w].symbols :
               held[w].artifact[i] \in Nat /\ held[w].symbol[i] \in Nat
         /\ \A k \in DOMAIN Encodings : held[w].encoding[k] \in Nat
         /\ \A k \in DOMAIN image[w].fields : held[w].field[k] \in Nat
<1>1. held[w] \in IdsOf(image[w])
  BY DEF MemoryTypeOK
<1> QED
  BY <1>1 DEF IdsOf

LEMMA WriteElfType ==
  ASSUME TypeOK, NEW w \in Writer, WriteElf(w) PROVE TypeOK'
<1>1. PICK res \in Results :
        /\ Insert(w, "elfs", [name |-> image[w].path, md5 |-> image[w].md5], res)
        /\ Report(w, res)
        /\ held' = IF res = "ok" THEN [held EXCEPT ![w].elf = NextId("elfs")]
                   ELSE held
  BY DEF WriteElf
<1>2. Advance(w) /\ found' = found
  BY DEF WriteElf
<1>3. [name |-> image[w].path, md5 |-> image[w].md5] \in RowOf["elfs"]
  BY ImageType DEF TypeOK, IsImage, RowOf
<1>4. ControlTypeOK' /\ tables' = tables /\ runs' = runs /\ image' = image
  BY <1>1, <1>2, AdvanceType DEF TypeOK, Report
<1>5. FileTypeOK' /\ BoundsTypeOK'
  BY <1>1, <1>3, <1>4, InsertType, TableNames DEF TypeOK
<1>6. MemoryTypeOK'
  BY <1>1, <1>4, SetIdType, NextIdType, TableNames DEF TypeOK
<1> QED
  BY <1>4, <1>5, <1>6 DEF TypeOK

\* SELECT COUNT changes no table.
LEMMA CountType ==
  ASSUME TypeOK, NEW w \in Writer, NEW rows, Count(w, rows),
         UNCHANGED << db, tables, pc, item, rc, image, held, runs >>
  PROVE  TypeOK'
<1>1. BoundsTypeOK'
  BY FaultType DEF TypeOK, Count
<1>2. found' \in [Writer -> {"unasked", "absent", "present"}]
  BY DEF TypeOK, ControlTypeOK, Count
<1> QED
  BY <1>1, <1>2 DEF TypeOK, FileTypeOK, ControlTypeOK, MemoryTypeOK

LEMMA ArtifactType ==
  ASSUME TypeOK, NEW w \in Writer, SelectArtifact(w) \/ InsertArtifact(w)
  PROVE  TypeOK'
<1> DEFINE i == item[w]
           s == image[w].symbols[i]
<1>1. i \in DOMAIN image[w].symbols /\ s \in SymbolEntry
  BY EntryType DEF TypeOK, SelectArtifact, InsertArtifact
<1>2. CASE SelectArtifact(w)
  <2>1. ControlTypeOK' /\ tables' = tables /\ runs' = runs /\ image' = image
    BY <1>2, AdvanceType DEF TypeOK, SelectArtifact
  <2>2. FileTypeOK' /\ BoundsTypeOK'
    BY <1>2, <2>1, FaultType DEF TypeOK, FileTypeOK, SelectArtifact
  <2>3. ArtifactRows(s.source) \subseteq Nat
    BY TableNames DEF TypeOK, FileTypeOK, ArtifactRows
  <2>4. MemoryTypeOK'
    BY <1>2, <2>1, <2>3, SetIdType, ZenonT(40) DEF TypeOK, SelectArtifact
  <2> QED
    BY <2>1, <2>2, <2>4 DEF TypeOK
<1>3. CASE InsertArtifact(w)
  <2> DEFINE row == [elf |-> held[w].elf, path |-> s.source, md5 |-> s.md5]
  <2>1. PICK res \in Results :
          /\ Insert(w, "artifacts", row, res)
          /\ Report(w, res)
          /\ held' = IF res = "ok"
                     THEN [held EXCEPT ![w].artifact[i] = NextId("artifacts")]
                     ELSE held
    BY <1>3 DEF InsertArtifact
  <2>2. row \in RowOf["artifacts"]
    BY <1>1, HeldType DEF TypeOK, SymbolEntry, RowOf
  <2>3. ControlTypeOK' /\ tables' = tables /\ runs' = runs /\ image' = image
    BY <1>3, <2>1, AdvanceType DEF TypeOK, Report, InsertArtifact
  <2> HIDE DEF row
  <2>4. FileTypeOK' /\ BoundsTypeOK'
    BY <2>1, <2>2, <2>3, InsertType, TableNames DEF TypeOK
  <2>5. MemoryTypeOK'
    BY <2>1, <2>3, SetIdType, NextIdType, TableNames DEF TypeOK
  <2> QED
    BY <2>3, <2>4, <2>5 DEF TypeOK
<1> QED
  BY <1>2, <1>3

LEMMA MacroType ==
  ASSUME TypeOK, NEW w \in Writer, WriteMacro(w) PROVE TypeOK'
<1>1. PICK res \in Results : Insert(w, "macros", image[w].macros[item[w]], res)
  BY DEF WriteMacro
<1>2. image[w].macros[item[w]] \in RowOf["macros"]
  BY EntryType DEF TypeOK, WriteMacro, RowOf
<1>3. ControlTypeOK' /\ tables' = tables /\ runs' = runs /\ image' = image
  BY AdvanceType DEF TypeOK, WriteMacro
<1>4. FileTypeOK' /\ BoundsTypeOK'
  BY <1>1, <1>2, <1>3, InsertType, TableNames DEF TypeOK
<1>5. MemoryTypeOK'
  BY <1>3 DEF TypeOK, MemoryTypeOK, WriteMacro
<1> QED
  BY <1>3, <1>4, <1>5 DEF TypeOK

LEMMA EncodingType ==
  ASSUME TypeOK, NEW w \in Writer, WriteEncoding(w) \/ SelectEncodings(w)
  PROVE  TypeOK'
<1>1. item[w] \in DOMAIN Encodings /\ Encodings[item[w]] \in STRING
  BY EntryType DEF TypeOK, WriteEncoding, SelectEncodings
<1>2. CASE WriteEncoding(w)
  <2> DEFINE row == [encoding |-> Encodings[item[w]]]
  <2>1. PICK res \in Results :
          /\ Insert(w, "encodings", row, res)
          /\ \/ held' = [held EXCEPT ![w].encoding[item[w]] = NextId("encodings")]
             \/ held' = held
    BY <1>2 DEF WriteEncoding
  <2>2. row \in RowOf["encodings"]
    BY <1>1 DEF RowOf
  <2>3. ControlTypeOK' /\ tables' = tables /\ runs' = runs /\ image' = image
    BY <1>2, AdvanceType DEF TypeOK, WriteEncoding
  <2> HIDE DEF row
  <2>4. FileTypeOK' /\ BoundsTypeOK'
    BY <2>1, <2>2, <2>3, InsertType, TableNames DEF TypeOK
  <2>5. MemoryTypeOK'
    BY <2>1, <2>3, SetIdType, NextIdType, TableNames DEF TypeOK
  <2> QED
    BY <2>3, <2>4, <2>5 DEF TypeOK
<1>3. CASE SelectEncodings(w)
  <2> DEFINE ids(k) == { i \in DOMAIN db["encodings"] :
                           db["encodings"][i].encoding = Encodings[k] }
             e == [k \in DOMAIN Encodings |->
                     IF HasBranch(Encodings[k]) /\ ids(k) # {}
                     THEN CHOOSE i \in ids(k) : TRUE ELSE held[w].encoding[k]]
  <2>1. \/ held' = [held EXCEPT ![w].encoding = e] /\ NoFault
        \/ held' = held /\ Fault(w)
    BY <1>3 DEF SelectEncodings
  <2>2. e \in [DOMAIN Encodings -> Nat]
    <3>1. \A k : ids(k) \subseteq Nat
      BY TableNames DEF TypeOK, FileTypeOK
    <3>2. ASSUME NEW k \in DOMAIN Encodings
          PROVE  (IF HasBranch(Encodings[k]) /\ ids(k) # {}
                  THEN CHOOSE i \in ids(k) : TRUE ELSE held[w].encoding[k]) \in Nat
      <4>1. ids(k) # {} => (CHOOSE i \in ids(k) : TRUE) \in ids(k)
        OBVIOUS
      <4> QED
        BY <3>1, <4>1, HeldType DEF TypeOK
    <3> QED
      BY <3>2
  <2> HIDE DEF e
  <2>3. MemoryTypeOK'
    <3>1. held[w] \in IdsOf(image[w])
      BY DEF TypeOK, MemoryTypeOK
    <3>2. [held[w] EXCEPT !.encoding = e] \in IdsOf(image[w])
      BY <2>2, <3>1 DEF IdsOf
    <3> QED
      BY <1>3, <2>1, <3>2 DEF TypeOK, MemoryTypeOK, SelectEncodings
  <2>4. BoundsTypeOK' /\ FileTypeOK'
    BY <1>3, <2>1, FaultType DEF TypeOK, FileTypeOK, SelectEncodings
  <2>5. item' \in [Writer -> Nat \ {0}]
    <3>1. Len(Encodings) + 1 \in Nat \ {0}
      BY EncodingsAssumption, LenProperties, Successor
    <3>2. /\ item' = [item EXCEPT ![w] = Len(Encodings) + 1]
          /\ item \in [Writer -> Nat \ {0}]
      BY <1>3 DEF TypeOK, ControlTypeOK, SelectEncodings
    <3> QED
      BY <3>1, <3>2, Zenon
  <2>6. ControlTypeOK'
    BY <1>3, <2>5 DEF TypeOK, ControlTypeOK, SelectEncodings
  <2> QED
    BY <2>3, <2>4, <2>6 DEF TypeOK
<1> QED
  BY <1>2, <1>3

LEMMA SymbolType ==
  ASSUME TypeOK, NEW w \in Writer, SelectSymbol(w) \/ InsertSymbol(w)
  PROVE  TypeOK'
<1> DEFINE i == item[w]
           s == image[w].symbols[i]
<1>1. i \in DOMAIN image[w].symbols /\ s \in SymbolEntry
  BY EntryType DEF TypeOK, SelectSymbol, InsertSymbol
<1>2. CASE SelectSymbol(w)
  <2>1. ControlTypeOK' /\ tables' = tables /\ runs' = runs /\ image' = image
    BY <1>2, AdvanceType DEF TypeOK, SelectSymbol
  <2>2. FileTypeOK' /\ BoundsTypeOK'
    BY <1>2, <2>1, FaultType DEF TypeOK, FileTypeOK, SelectSymbol
  <2>3. SymbolRows(s.name) \subseteq Nat
    BY TableNames DEF TypeOK, FileTypeOK, SymbolRows
  <2>4. MemoryTypeOK'
    BY <1>2, <2>1, <2>3, SetIdType, ZenonT(40) DEF TypeOK, SelectSymbol
  <2> QED
    BY <2>1, <2>2, <2>4 DEF TypeOK
<1>3. CASE InsertSymbol(w)
  <2> DEFINE row(e, a) == [elf |-> held[w].elf, name |-> s.name,
                           byte_size |-> s.byte_size, encoding |-> e,
                           artifact |-> a, target |-> Null]
  <2>1. PICK res \in Results, e \in EncodingIds(w, s), a \in Read(held[w].artifact[i]) :
          /\ Insert(w, "symbols", row(e, a), res)
          /\ rc' = [rc EXCEPT ![w] = IF res = "ok" THEN OK ELSE RAW]
          /\ held' = IF res = "ok"
                     THEN [held EXCEPT ![w].symbol[i] = NextId("symbols")]
                     ELSE held
    BY <1>3 DEF InsertSymbol
  <2>2. e \in Nat \cup {Null}
    <3>1. \A k \in DOMAIN Encodings : Read(held[w].encoding[k]) \subseteq Nat
      BY HeldType, ReadType DEF TypeOK
    <3> QED
      BY <3>1 DEF EncodingIds
  <2>3. a \in Nat
    BY <1>1, HeldType, ReadType DEF TypeOK
  <2>4. row(e, a) \in RowOf["symbols"]
    BY <1>1, <2>2, <2>3, HeldType DEF TypeOK, SymbolEntry, RowOf
  <2>5. ControlTypeOK' /\ tables' = tables /\ runs' = runs /\ image' = image
    BY <1>3, <2>1, AdvanceType DEF TypeOK, InsertSymbol
  <2> HIDE DEF row
  <2>6. FileTypeOK' /\ BoundsTypeOK'
    BY <2>1, <2>4, <2>5, InsertType, TableNames DEF TypeOK
  <2>7. MemoryTypeOK'
    BY <2>1, <2>5, SetIdType, NextIdType, TableNames DEF TypeOK
  <2> QED
    BY <2>5, <2>6, <2>7 DEF TypeOK
<1> QED
  BY <1>2, <1>3

\* UPDATE keeps the number of rows and every column but target.
LEMMA TargetRows ==
  ASSUME FileTypeOK, NEW i, NEW t \in Nat, SetTarget(i, t), tables' = tables
  PROVE  /\ FileTypeOK'
         /\ \A u \in Tables \ {"symbols"} : db'[u] = db[u]
         /\ DOMAIN db'["symbols"] = DOMAIN db["symbols"]
         /\ \A k \in DOMAIN db["symbols"] :
               db'["symbols"][k].name = db["symbols"][k].name
<1>1. "symbols" \in Tables /\ db["symbols"] \in Seq(RowOf["symbols"])
  BY TableNames DEF FileTypeOK
<1>2. CASE i \notin DOMAIN db["symbols"]
  BY <1>2 DEF SetTarget, FileTypeOK
<1>3. CASE i \in DOMAIN db["symbols"]
  <2> DEFINE new == [db["symbols"] EXCEPT ![i].target = t]
  <2>1. db' = [db EXCEPT !["symbols"] = new]
    BY <1>3 DEF SetTarget
  <2>2. db["symbols"][i] \in RowOf["symbols"]
    BY <1>1, <1>3
  <2>3. [db["symbols"][i] EXCEPT !.target = t] \in RowOf["symbols"]
    BY <2>2 DEF RowOf
  <2>4. new \in Seq(RowOf["symbols"])
    BY <1>1, <1>3, <2>3
  <2>5. /\ DOMAIN new = DOMAIN db["symbols"]
        /\ \A k \in DOMAIN db["symbols"] : new[k].name = db["symbols"][k].name
    BY <1>1, <2>2 DEF RowOf
  <2> HIDE DEF new
  <2>6. db'["symbols"] = new /\ \A u \in Tables \ {"symbols"} : db'[u] = db[u]
    BY <1>1, <2>1 DEF FileTypeOK
  <2> QED
    BY <1>1, <2>1, <2>4, <2>5, <2>6 DEF FileTypeOK
<1> QED
  BY <1>2, <1>3

LEMMA UpdateTargetType ==
  ASSUME TypeOK, NEW w \in Writer, UpdateTarget(w) PROVE TypeOK'
<1> DEFINE s == image[w].symbols[item[w]]
<1>1. item[w] \in DOMAIN image[w].symbols /\ s.target \in {0} \cup DOMAIN image[w].symbols
  BY EntryType DEF TypeOK, UpdateTarget
<1>2. ControlTypeOK' /\ tables' = tables /\ runs' = runs /\ image' = image
  BY AdvanceType DEF TypeOK, UpdateTarget
<1>3. BoundsTypeOK'
  BY <1>2, FaultType DEF TypeOK, UpdateTarget
<1>4. MemoryTypeOK'
  BY <1>2 DEF TypeOK, MemoryTypeOK, UpdateTarget
<1>5. FileTypeOK'
  <2>1. CASE db' = db
    BY <1>2, <2>1 DEF TypeOK, FileTypeOK
  <2>2. ASSUME s.target # 0,
               NEW i, NEW t \in Read(held[w].symbol[s.target]), SetTarget(i, t)
        PROVE  FileTypeOK'
    <3>1. t \in Nat
      BY <1>1, <2>2, HeldType, ReadType DEF TypeOK
    <3> QED
      BY <1>2, <2>2, <3>1, TargetRows DEF TypeOK
  <2> QED
    BY <2>1, <2>2 DEF UpdateTarget
<1> QED
  BY <1>2, <1>3, <1>4, <1>5 DEF TypeOK

LEMMA FieldType ==
  ASSUME TypeOK, NEW w \in Writer, WriteField(w) PROVE TypeOK'
<1> DEFINE f == image[w].fields[item[w]]
           row(s, t) == [symbol |-> s, name |-> f.name,
                         byte_offset |-> f.offset, type |-> t]
<1>1. /\ item[w] \in DOMAIN image[w].fields /\ f \in FieldEntry
      /\ f.symbol \in DOMAIN image[w].symbols /\ f.type \in DOMAIN image[w].symbols
  BY EntryType DEF TypeOK, WriteField
<1>2. PICK res \in Results, s \in Read(held[w].symbol[f.symbol]),
           t \in Read(held[w].symbol[f.type]) :
        /\ Insert(w, "fields", row(s, t), res)
        /\ Report(w, res)
        /\ held' = IF res = "ok"
                   THEN [held EXCEPT ![w].field[item[w]] = NextId("fields")]
                   ELSE held
  BY DEF WriteField
<1>3. s \in Nat /\ t \in Nat
  BY <1>1, HeldType, ReadType DEF TypeOK
<1>4. row(s, t) \in RowOf["fields"]
  BY <1>1, <1>3 DEF FieldEntry, RowOf
<1>5. ControlTypeOK' /\ tables' = tables /\ runs' = runs /\ image' = image
  BY <1>2, AdvanceType DEF TypeOK, Report, WriteField
<1> HIDE DEF row
<1>6. FileTypeOK' /\ BoundsTypeOK'
  BY <1>2, <1>4, <1>5, InsertType, TableNames DEF TypeOK
<1>7. MemoryTypeOK'
  BY <1>2, <1>5, SetIdType, NextIdType, TableNames DEF TypeOK
<1> QED
  BY <1>5, <1>6, <1>7 DEF TypeOK

LEMMA DimensionType ==
  ASSUME TypeOK, NEW w \in Writer, WriteDimension(w) PROVE TypeOK'
<1> DEFINE d == image[w].dims[item[w]]
           row == [field_id |-> held[w].field[d.field], dim_order |-> d.order,
                   upper_bound |-> d.upper_bound]
<1>1. d \in DimEntry /\ d.field \in DOMAIN image[w].fields
  BY EntryType DEF TypeOK, WriteDimension
<1>2. PICK res \in Results : Insert(w, "dimension_lists", row, res)
  BY DEF WriteDimension
<1>3. row \in RowOf["dimension_lists"]
  BY <1>1, HeldType DEF TypeOK, DimEntry, RowOf
<1>4. ControlTypeOK' /\ tables' = tables /\ runs' = runs /\ image' = image
  BY AdvanceType DEF TypeOK, WriteDimension
<1> HIDE DEF row
<1>5. FileTypeOK' /\ BoundsTypeOK'
  BY <1>2, <1>3, <1>4, InsertType, TableNames DEF TypeOK
<1>6. MemoryTypeOK'
  BY <1>4 DEF TypeOK, MemoryTypeOK, WriteDimension
<1> QED
  BY <1>4, <1>5, <1>6 DEF TypeOK

LEMMA EnumerationType ==
  ASSUME TypeOK, NEW w \in Writer, WriteEnumeration(w) PROVE TypeOK'
<1> DEFINE e == image[w].enums[item[w]]
           row(s) == [symbol |-> s, name |-> e.name, value |-> e.value]
<1>1. e \in EnumEntry /\ e.symbol \in DOMAIN image[w].symbols
  BY EntryType DEF TypeOK, WriteEnumeration
<1>2. PICK res \in Results, s \in Read(held[w].symbol[e.symbol]) :
        Insert(w, "enumerations", row(s), res) /\ Report(w, res)
  BY DEF WriteEnumeration
<1>3. s \in Nat
  BY <1>1, HeldType, ReadType DEF TypeOK
<1>4. row(s) \in RowOf["enumerations"]
  BY <1>1, <1>3 DEF EnumEntry, RowOf
<1>5. ControlTypeOK' /\ tables' = tables /\ runs' = runs /\ image' = image
  BY <1>2, AdvanceType DEF TypeOK, Report, WriteEnumeration
<1> HIDE DEF row
<1>6. FileTypeOK' /\ BoundsTypeOK'
  BY <1>2, <1>4, <1>5, InsertType, TableNames DEF TypeOK
<1>7. MemoryTypeOK'
  BY <1>5 DEF TypeOK, MemoryTypeOK, WriteEnumeration
<1> QED
  BY <1>5, <1>6, <1>7 DEF TypeOK

LEMMA VariableType ==
  ASSUME TypeOK, NEW w \in Writer, WriteVariable(w) PROVE TypeOK'
<1> DEFINE v == image[w].variables[item[w]]
           row(t) == [name |-> v.name, elf |-> held[w].elf, type |-> t]
<1>1. v \in [name : STRING, type : Nat] /\ v.type \in DOMAIN image[w].symbols
  BY EntryType DEF TypeOK, WriteVariable
<1>2. PICK res \in Results, t \in Read(held[w].symbol[v.type]) :
        Insert(w, "variables", row(t), res) /\ Report(w, res)
  BY DEF WriteVariable
<1>3. t \in Nat /\ held[w].elf \in Nat
  BY <1>1, HeldType, ReadType DEF TypeOK
<1>4. row(t) \in RowOf["variables"]
  BY <1>1, <1>3 DEF RowOf
<1>5. ControlTypeOK' /\ tables' = tables /\ runs' = runs /\ image' = image
  BY <1>2, AdvanceType DEF TypeOK, Report, WriteVariable
<1> HIDE DEF row
<1>6. FileTypeOK' /\ BoundsTypeOK'
  BY <1>2, <1>4, <1>5, InsertType, TableNames DEF TypeOK
<1>7. MemoryTypeOK'
  BY <1>5 DEF TypeOK, MemoryTypeOK, WriteVariable
<1> QED
  BY <1>5, <1>6, <1>7 DEF TypeOK

LEMMA SectionType ==
  ASSUME TypeOK, NEW w \in Writer, WriteElfSection(w) PROVE TypeOK'
<1> DEFINE row == [name |-> image[w].sections[item[w]], elf |-> held[w].elf]
<1>1. PICK res \in Results : Insert(w, "elf_sections", row, res) /\ Report(w, res)
  BY DEF WriteElfSection
<1>2. row \in RowOf["elf_sections"]
  BY EntryType, HeldType DEF TypeOK, WriteElfSection, RowOf
<1>3. ControlTypeOK' /\ tables' = tables /\ runs' = runs /\ image' = image
  BY <1>1, AdvanceType DEF TypeOK, Report, WriteElfSection
<1> HIDE DEF row
<1>4. FileTypeOK' /\ BoundsTypeOK'
  BY <1>1, <1>2, <1>3, InsertType, TableNames DEF TypeOK
<1>5. MemoryTypeOK'
  BY <1>3 DEF TypeOK, MemoryTypeOK, WriteElfSection
<1> QED
  BY <1>3, <1>4, <1>5 DEF TypeOK

LEMMA ElfSymbolType ==
  ASSUME TypeOK, NEW w \in Writer, WriteElfSymbol(w) PROVE TypeOK'
<1> DEFINE row == [name |-> image[w].elfsymbols[item[w]], elf |-> held[w].elf]
<1>1. PICK res \in Results : Insert(w, "elf_symbol_table", row, res) /\ Report(w, res)
  BY DEF WriteElfSymbol
<1>2. row \in RowOf["elf_symbol_table"]
  BY EntryType, HeldType DEF TypeOK, WriteElfSymbol, RowOf
<1>3. ControlTypeOK' /\ tables' = tables /\ runs' = runs /\ image' = image
  BY <1>1, AdvanceType DEF TypeOK, Report, WriteElfSymbol
<1> HIDE DEF row
<1>4. FileTypeOK' /\ BoundsTypeOK'
  BY <1>1, <1>2, <1>3, InsertType, TableNames DEF TypeOK
<1>5. MemoryTypeOK'
  BY <1>3 DEF TypeOK, MemoryTypeOK, WriteElfSymbol
<1> QED
  BY <1>3, <1>4, <1>5 DEF TypeOK

LEMMA AfterType ==
  ASSUME NEW s \in Stages, NEW r PROVE After(s, r) \in Stages \cup {"done"}
<1>1. OnSuccess \in [Stages -> Stages \cup {"done"}]
  BY DEF OnSuccess, Stages
<1>2. \A q \in DOMAIN OnError : OnError[q] \in Stages \cup {"done"}
  BY DEF OnError, Stages
<1> QED
  BY <1>1, <1>2 DEF After

\* Starting and ending processes, and the way from one function to the next.
LEMMA LifecycleType ==
  ASSUME TypeOK, NEW w \in Writer,
         Start(w) \/ Finish(w) \/ Crash(w) \/ CreateTable(w)
           \/ FailToCreateTable(w) \/ Return(w)
  PROVE  TypeOK'
<1>1. CASE Start(w)
  <2>1. FileTypeOK'
    BY <1>1 DEF TypeOK, FileTypeOK, Start
  <2>2. runs' \in 0 .. MaxRuns
    <3>1. runs \in 0 .. MaxRuns /\ runs < MaxRuns /\ runs' = runs + 1
      BY <1>1 DEF TypeOK, BoundsTypeOK, Start
    <3> QED
      BY <3>1, BoundsAssumption
  <2>3. BoundsTypeOK'
    BY <1>1, <2>2 DEF TypeOK, BoundsTypeOK, Start
  <2>4. ControlTypeOK' /\ MemoryTypeOK'
    BY <1>1, BeginType DEF TypeOK, Start
  <2> QED
    BY <2>1, <2>3, <2>4 DEF TypeOK
<1>2. CASE Exit(w)
  <2>1. ControlTypeOK' /\ MemoryTypeOK'
    BY <1>2, BeginType, AnyImageType DEF TypeOK, Exit
  <2>2. failed' \in [Writer -> BOOLEAN]
    <3>1. failed' = [failed EXCEPT ![w] = FALSE] /\ failed \in [Writer -> BOOLEAN]
      BY <1>2 DEF TypeOK, BoundsTypeOK, Exit
    <3> QED
      BY <3>1, Zenon
  <2> QED
    BY <1>2, <2>1, <2>2 DEF TypeOK, FileTypeOK, BoundsTypeOK, Exit
<1>3. CASE CreateTable(w)
  <2>1. Schema[item[w]] \in Tables
    <3>1. item[w] \in 1 .. Len(Schema)
      BY <1>3, LoopRange DEF CreateTable
    <3> QED
      BY <3>1 DEF Tables, Schema
  <2>2. item' \in [Writer -> Nat \ {0}]
    <3>1. item \in [Writer -> Nat \ {0}] /\ item' = [item EXCEPT ![w] = @ + 1]
      BY <1>3 DEF TypeOK, ControlTypeOK, CreateTable
    <3>2. item[w] \in Nat
      BY <3>1
    <3> QED
      BY <3>1, <3>2, Successor, Zenon
  <2>3. FileTypeOK'
    BY <1>3, <2>1 DEF TypeOK, FileTypeOK, CreateTable
  <2> QED
    BY <1>3, <2>2, <2>3
    DEF TypeOK, ControlTypeOK, MemoryTypeOK, BoundsTypeOK, CreateTable
<1>4. CASE FailToCreateTable(w)
  <2>1. ControlTypeOK' /\ MemoryTypeOK'
    BY <1>4, BeginType, AnyImageType DEF TypeOK, FailToCreateTable
  <2>2. faults' \in 0 .. MaxFaults
    <3>1. faults \in 0 .. MaxFaults /\ faults < MaxFaults /\ faults' = faults + 1
      BY <1>4 DEF TypeOK, BoundsTypeOK, FailToCreateTable
    <3> QED
      BY <3>1, BoundsAssumption
  <2> QED
    BY <1>4, <2>1, <2>2 DEF TypeOK, FileTypeOK, BoundsTypeOK, FailToCreateTable
<1>5. CASE Return(w)
  <2> DEFINE next == After(pc[w], rc[w])
  <2>1. next \in Stages \cup {"idle", "done"}
    <3>1. pc[w] \in Stages
      BY <1>5 DEF Return
    <3> QED
      BY <3>1, AfterType
  <2> HIDE DEF next
  <2>2. /\ pc' = [pc EXCEPT ![w] = next]
        /\ rc' = rc \/ rc' = [rc EXCEPT ![w] = OK]
        /\ item' = [item EXCEPT ![w] = 1]
        /\ found' = [found EXCEPT ![w] = "unasked"]
    BY <1>5 DEF Return, next
  <2>3. pc' \in [Writer -> Stages \cup {"idle", "done"}]
    BY <2>1, <2>2 DEF TypeOK, ControlTypeOK
  <2>4. rc' \in [Writer -> {OK, ERROR, RAW}]
    BY <2>2 DEF TypeOK, ControlTypeOK
  <2>5. found' \in [Writer -> {"unasked", "absent", "present"}]
    BY <2>2 DEF TypeOK, ControlTypeOK
  <2>6. item' \in [Writer -> Nat \ {0}]
    <3>1. 1 \in Nat \ {0}
      OBVIOUS
    <3>2. item \in [Writer -> Nat \ {0}]
      BY DEF TypeOK, ControlTypeOK
    <3> QED
      BY <2>2, <3>1, <3>2, Zenon
  <2> QED
    BY <1>5, <2>3, <2>4, <2>5, <2>6
    DEF TypeOK, FileTypeOK, ControlTypeOK, MemoryTypeOK, BoundsTypeOK, Return
<1> QED
  BY <1>1, <1>2, <1>3, <1>4, <1>5 DEF Finish, Crash

LEMMA StutterType == ASSUME TypeOK, UNCHANGED vars PROVE TypeOK'
BY DEF TypeOK, FileTypeOK, ControlTypeOK, MemoryTypeOK, BoundsTypeOK, vars

LEMMA NextType == TypeOK /\ [Next]_vars => TypeOK'
<1> SUFFICES ASSUME TypeOK, [Next]_vars PROVE TypeOK'
  OBVIOUS
<1>1. CASE UNCHANGED vars
  BY <1>1, StutterType
<1>2. CASE Quiet
  BY <1>2, StutterType DEF Quiet
<1>3. ASSUME NEW w \in Writer, Start(w) \/ Crash(w) PROVE TypeOK'
  BY <1>3, LifecycleType
<1>4. ASSUME NEW w \in Writer, Step(w) PROVE TypeOK'
  <2>1. CASE CheckArtifact(w) \/ CheckEncodings(w) \/ CheckSymbol(w)
    BY <2>1, CountType DEF CheckArtifact, CheckEncodings, CheckSymbol
  <2> QED
    BY <1>4, <2>1, LifecycleType, WriteElfType, ArtifactType, MacroType,
       EncodingType, SymbolType, UpdateTargetType, FieldType, DimensionType,
       EnumerationType, VariableType, SectionType, ElfSymbolType
    DEF Step
<1> QED
  BY <1>1, <1>2, <1>3, <1>4 DEF Next

\* Every variable keeps its type: in particular each row stored in a table
\* has the columns of that table, whichever ids it was built from.
THEOREM TypeCorrect == Spec => []TypeOK
BY InitType, NextType, PTL DEF Spec

-----------------------------------------------------------------------------
(* SQLITEDB_ERROR is never reported without a cause.                       *)

\* The inductive strengthening of ErrorMeansFault: it holds all along the
\* way, not only at the end of write().
ErrorsAreFaults == \A w \in Writer : rc[w] = ERROR => failed[w]

\* A step of w that reports no error, or reports one it has recorded.
LEMMA ReportStep ==
  ASSUME TypeOK, ErrorsAreFaults, NEW w \in Writer, NEW r \in {OK, ERROR, RAW},
         rc' = rc \/ rc' = [rc EXCEPT ![w] = r],
         NoFault \/ Fault(w),
         r = ERROR => Fault(w)
  PROVE  ErrorsAreFaults'
<1>1. /\ rc \in [Writer -> {OK, ERROR, RAW}]
      /\ failed \in [Writer -> BOOLEAN]
  BY DEF TypeOK, ControlTypeOK, BoundsTypeOK
<1>2. /\ failed' = failed \/ failed' = [failed EXCEPT ![w] = TRUE]
      /\ r = ERROR => failed' = [failed EXCEPT ![w] = TRUE]
  BY DEF NoFault, Fault
<1> SUFFICES ASSUME NEW v \in Writer, rc'[v] = ERROR PROVE failed'[v]
  BY DEF ErrorsAreFaults
<1>3. CASE v = w /\ r = ERROR
  BY <1>1, <1>2, <1>3, Zenon
<1>4. CASE rc[v] = ERROR
  <2>1. failed[v]
    BY <1>4 DEF ErrorsAreFaults
  <2> QED
    BY <1>1, <1>2, <2>1, Zenon
<1> QED
  BY <1>1, <1>3, <1>4

\* An INSERT whose result decides what is reported.
LEMMA InsertReport ==
  ASSUME TypeOK, ErrorsAreFaults, NEW w \in Writer, NEW t, NEW row,
         NEW res \in Results, Insert(w, t, row, res), Report(w, res)
  PROVE  ErrorsAreFaults'
<1>1. (NoFault \/ Fault(w)) /\ (res = "error" => Fault(w))
  BY DEF Insert
<1>2. rc' = [rc EXCEPT ![w] = IF res = "error" THEN ERROR ELSE OK]
  BY DEF Report
<1>3. CASE res = "error"
  BY <1>1, <1>2, <1>3, ReportStep
<1>4. CASE res # "error"
  BY <1>1, <1>2, <1>4, ReportStep
<1> QED
  BY <1>3, <1>4

\* An INSERT of which only the log hears.
LEMMA InsertSilently ==
  ASSUME TypeOK, ErrorsAreFaults, NEW w \in Writer, NEW t, NEW row,
         NEW res, Insert(w, t, row, res), NEW r \in {OK, RAW},
         rc' = rc \/ rc' = [rc EXCEPT ![w] = r]
  PROVE  ErrorsAreFaults'
BY ReportStep DEF Insert

LEMMA ReportingActions ==
  ASSUME TypeOK, ErrorsAreFaults, NEW w \in Writer,
         \/ WriteElf(w) \/ InsertArtifact(w) \/ WriteField(w)
         \/ WriteEnumeration(w) \/ WriteVariable(w) \/ WriteElfSection(w)
         \/ WriteElfSymbol(w)
  PROVE  ErrorsAreFaults'
BY InsertReport DEF WriteElf, InsertArtifact, WriteField, WriteEnumeration,
   WriteVariable, WriteElfSection, WriteElfSymbol

LEMMA SilentActions ==
  ASSUME TypeOK, ErrorsAreFaults, NEW w \in Writer,
         \/ WriteMacro(w) \/ WriteEncoding(w) \/ WriteDimension(w)
         \/ InsertSymbol(w) \/ SelectArtifact(w) \/ SelectSymbol(w)
         \/ SelectEncodings(w) \/ UpdateTarget(w) \/ CheckArtifact(w)
         \/ CheckEncodings(w) \/ CheckSymbol(w)
  PROVE  ErrorsAreFaults'
<1>1. CASE WriteMacro(w) \/ WriteEncoding(w) \/ WriteDimension(w)
  BY <1>1, InsertSilently DEF WriteMacro, WriteEncoding, WriteDimension
<1>2. CASE InsertSymbol(w)
  <2>1. PICK res \in Results :
          /\ NoFault \/ Fault(w)
          /\ rc' = [rc EXCEPT ![w] = IF res = "ok" THEN OK ELSE RAW]
    BY <1>2 DEF InsertSymbol, Insert
  <2>2. CASE res = "ok"
    BY <2>1, <2>2, ReportStep
  <2>3. CASE res # "ok"
    BY <2>1, <2>3, ReportStep
  <2> QED
    BY <2>2, <2>3
<1>3. CASE SelectArtifact(w)
  BY <1>3, ReportStep DEF SelectArtifact
<1>4. CASE SelectSymbol(w)
  BY <1>4, ReportStep DEF SelectSymbol
<1>5. CASE SelectEncodings(w)
  BY <1>5, ReportStep DEF SelectEncodings
<1>6. CASE UpdateTarget(w)
  BY <1>6, ReportStep DEF UpdateTarget
<1>7. CASE CheckArtifact(w) \/ CheckEncodings(w) \/ CheckSymbol(w)
  BY <1>7, ReportStep DEF CheckArtifact, CheckEncodings, CheckSymbol, Count
<1> QED
  BY <1>1, <1>2, <1>3, <1>4, <1>5, <1>6, <1>7

\* A process starts and ends with SQLITEDB_OK and no failure.
LEMMA LifecycleErrors ==
  ASSUME TypeOK, ErrorsAreFaults, NEW w \in Writer,
         \/ Start(w) \/ Crash(w) \/ Finish(w) \/ CreateTable(w)
         \/ FailToCreateTable(w) \/ Return(w)
  PROVE  ErrorsAreFaults'
<1>1. /\ rc \in [Writer -> {OK, ERROR, RAW}]
      /\ failed \in [Writer -> BOOLEAN]
  BY DEF TypeOK, ControlTypeOK, BoundsTypeOK
<1>2. CASE Exit(w)
  <2>1. /\ rc' = [rc EXCEPT ![w] = OK]
        /\ failed' = [failed EXCEPT ![w] = FALSE]
    BY <1>2 DEF Exit, Begin
  <2> SUFFICES ASSUME NEW v \in Writer, rc'[v] = ERROR PROVE failed'[v]
    BY DEF ErrorsAreFaults
  <2>2. v # w /\ rc[v] = ERROR
    BY <1>1, <2>1
  <2>3. failed[v]
    BY <2>2 DEF ErrorsAreFaults
  <2> QED
    BY <1>1, <2>1, <2>2, <2>3, Zenon
<1>3. ASSUME failed' = failed, rc' = rc \/ rc' = [rc EXCEPT ![w] = OK]
      PROVE  ErrorsAreFaults'
  BY <1>1, <1>3 DEF ErrorsAreFaults
<1>4. CASE Start(w)
  BY <1>3, <1>4 DEF Start, Begin
<1>5. CASE CreateTable(w)
  BY <1>3, <1>5 DEF CreateTable
<1>6. CASE FailToCreateTable(w)
  BY <1>3, <1>6 DEF FailToCreateTable, Begin
<1>7. CASE Return(w)
  BY <1>3, <1>7 DEF Return
<1> QED
  BY <1>2, <1>4, <1>5, <1>6, <1>7 DEF Crash, Finish

LEMMA NextErrors == TypeOK /\ ErrorsAreFaults /\ [Next]_vars => ErrorsAreFaults'
<1> SUFFICES ASSUME TypeOK, ErrorsAreFaults, [Next]_vars PROVE ErrorsAreFaults'
  OBVIOUS
<1>1. CASE UNCHANGED vars \/ Quiet
  BY <1>1 DEF ErrorsAreFaults, Quiet, vars
<1>2. ASSUME NEW w \in Writer, Start(w) \/ Step(w) \/ Crash(w)
      PROVE  ErrorsAreFaults'
  BY <1>2, LifecycleErrors, ReportingActions, SilentActions DEF Step
<1> QED
  BY <1>1, <1>2 DEF Next

\* write() answers SQLITEDB_ERROR only if a statement of this run failed,
\* whatever rows other runs and other processes stored before or meanwhile.
THEOREM ErrorsHaveCauses == Spec => []ErrorMeansFault
<1>1. Init => ErrorsAreFaults
  BY DEF Init, ErrorsAreFaults
<1>2. ErrorsAreFaults => ErrorMeansFault
  BY DEF ErrorsAreFaults, ErrorMeansFault
<1> QED
  BY <1>1, <1>2, TypeCorrect, NextErrors, PTL DEF Spec

=============================================================================
