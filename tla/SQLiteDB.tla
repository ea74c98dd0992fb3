------------------------------ MODULE SQLiteDB ------------------------------
(***************************************************************************)
(* The SQLite writer of juicer (src/SQLiteDB.cpp): what one juicer process *)
(* does to a database file from IDataContainer::Create to the return of    *)
(* SQLiteDB::write, one action per SQL statement.                          *)
(*                                                                         *)
(* No transaction is ever opened, so SQLite commits each statement on its  *)
(* own: a process may be killed between any two statements, and statements *)
(* of several processes on one file interleave.  Rows are never deleted,   *)
(* so the INTEGER PRIMARY KEY of a row is its position in the table and a  *)
(* table is a sequence of rows.                                            *)
(***************************************************************************)
EXTENDS Integers, Sequences

CONSTANTS
  Writer,      \* juicer processes that have the database file open
  Images,      \* the ElfFile objects Juicer::readCUList may hand to write()
  Encodings,   \* the names in ElfFile::encodingsMap, in iteration order
  Junk,        \* what an id member that was never assigned may contain
  MaxRuns,     \* bound: processes started on the file
  MaxFaults    \* bound: statements that fail for a reason other than UNIQUE

-----------------------------------------------------------------------------
(* The schema (the CREATE TABLE strings of SQLiteDB.h).                    *)

\* The order in which createSchemas() creates the tables.
Schema == << "elfs", "symbols", "fields", "dimension_lists", "enumerations",
             "artifacts", "macros", "variables", "elf_sections",
             "elf_symbol_table", "encodings" >>

Tables == { Schema[i] : i \in DOMAIN Schema }

\* Faulty variant: the schema forgets the constraint of macros.
UniqueWithoutMacros ==
  [ elfs            |-> {"name"},
    symbols         |-> {"name"},
    fields          |-> {"symbol", "name"},
    dimension_lists |-> {"field_id", "dim_order", "upper_bound"},
    enumerations    |-> {"symbol", "name"},
    artifacts       |-> {"path", "md5"},
    variables       |-> {"name", "type", "elf"},
    encodings       |-> {"encoding"} ]

\* The columns of each table's UNIQUE constraint.  elf_sections and
\* elf_symbol_table have none.
Unique ==
  [ elfs            |-> {"name"},
    symbols         |-> {"name"},
    fields          |-> {"symbol", "name"},
    dimension_lists |-> {"field_id", "dim_order", "upper_bound"},
    enumerations    |-> {"symbol", "name"},
    artifacts       |-> {"path", "md5"},
    macros          |-> {"name", "value"},
    variables       |-> {"name", "type", "elf"},
    encodings       |-> {"encoding"} ]

-----------------------------------------------------------------------------
(* The in-memory model that write() walks (ElfFile and what it owns).      *)
(* Objects refer to each other by their position in these sequences; "" is *)
(* a symbol with no encoding and 0 a symbol with no target.                *)

SymbolEntry == [name : STRING, byte_size : Nat, source : STRING,
                md5 : STRING, encoding : STRING, target : Nat]
FieldEntry  == [symbol : Nat, name : STRING, offset : Nat, type : Nat]
DimEntry    == [field : Nat, order : Nat, upper_bound : Nat]
EnumEntry   == [symbol : Nat, name : STRING, value : Nat]

IsImage(img) ==
  /\ img.path \in STRING /\ img.md5 \in STRING
  /\ img.symbols \in Seq(SymbolEntry)
  /\ img.macros \in Seq([name : STRING, value : STRING])
  /\ img.fields \in Seq(FieldEntry)
  /\ img.dims \in Seq(DimEntry)
  /\ img.enums \in Seq(EnumEntry)
  /\ img.variables \in Seq([name : STRING, type : Nat])
  /\ img.sections \in Seq(STRING) /\ img.elfsymbols \in Seq(STRING)
  \* Every reference is to an object of the same ElfFile.
  /\ \A i \in DOMAIN img.symbols :
        /\ img.symbols[i].target \in {0} \cup DOMAIN img.symbols
        /\ img.symbols[i].encoding \in
              {""} \cup { Encodings[k] : k \in DOMAIN Encodings }
  /\ \A i \in DOMAIN img.fields :
        {img.fields[i].symbol, img.fields[i].type} \subseteq DOMAIN img.symbols
  /\ \A i \in DOMAIN img.dims : img.dims[i].field \in DOMAIN img.fields
  /\ \A i \in DOMAIN img.enums : img.enums[i].symbol \in DOMAIN img.symbols
  /\ \A i \in DOMAIN img.variables :
        img.variables[i].type \in DOMAIN img.symbols
  \* ElfFile::addSymbol and Symbol::addField keep the first of a name.  Only
  \* the paddings _spareN, which have no dimensions, are inserted without a
  \* look (Juicer.cpp:3895) and may repeat a name.
  /\ \A i, j \in DOMAIN img.symbols :
        img.symbols[i].name = img.symbols[j].name => i = j
  /\ \A i, j \in DOMAIN img.fields :
        /\ img.fields[i].symbol = img.fields[j].symbol
        /\ img.fields[i].name = img.fields[j].name
        => i = j \/ \A k \in DOMAIN img.dims : img.dims[k].field \notin {i, j}

ASSUME ImagesAssumption == Images # {} /\ \A img \in Images : IsImage(img)
ASSUME EncodingsAssumption ==
  /\ Encodings \in Seq(STRING \ {""})
  /\ \A i, j \in DOMAIN Encodings : Encodings[i] = Encodings[j] => i = j
ASSUME JunkAssumption == Junk \subseteq Nat /\ Junk # {}
ASSUME BoundsAssumption == MaxRuns \in Nat /\ MaxFaults \in Nat

-----------------------------------------------------------------------------
VARIABLES
  db,        \* [Tables -> sequence of rows]: the file's contents
  tables,    \* the tables CREATE TABLE has made so far
  pc,        \* the function each process is in
  item,      \* its loop position in that function
  found,     \* the answer of the last SELECT COUNT query
  rc,        \* write()'s variable rc
  image,     \* the ElfFile it writes
  held,      \* the id members of the ElfFile's objects
  failed,    \* history: has a statement of this run failed?
  faults,    \* failed statements so far, for the bound MaxFaults
  runs       \* processes started so far, for the bound MaxRuns

file == << db, tables >>
vars == << db, tables, pc, item, found, rc, image, held, failed, faults, runs >>

\* An id member never assigned.  Row ids start at 1, so 0 marks it.
Unset == 0
Null  == -1

OK    == "SQLITEDB_OK"
ERROR == "SQLITEDB_ERROR"
RAW   == "positive SQLite result code"

\* The id members of a freshly parsed ElfFile.
NoIds(img) ==
  [ elf      |-> 0,
    artifact |-> [i \in DOMAIN img.symbols |-> Unset],
    symbol   |-> [i \in DOMAIN img.symbols |-> Unset],
    encoding |-> [i \in DOMAIN Encodings |-> Unset],
    field    |-> [i \in DOMAIN img.fields |-> 0] ]

\* What a read of an id member may return.  ElfFile::id and Field::id have
\* the initializer {0}; Symbol::id, Artifact::id and Encoding::id have none,
\* so reading one before it is assigned yields whatever memory held.
Read(id) == IF id = Unset THEN Junk ELSE {id}

-----------------------------------------------------------------------------
(* SQL statements.                                                         *)

Fault(w) ==
  /\ faults < MaxFaults
  /\ faults' = faults + 1
  /\ failed' = [failed EXCEPT ![w] = TRUE]

NoFault == UNCHANGED << faults, failed >>

\* Faulty variant: the id of the row before the new one.
PreviousId(t) == Len(db[t])

NextId(t) == Len(db[t]) + 1

Clashes(t, row) ==
  /\ t \in DOMAIN Unique
  /\ \E i \in DOMAIN db[t] : \A c \in Unique[t] : db[t][i][c] = row[c]

\* INSERT: the row is stored, the UNIQUE constraint rejects it, or the
\* statement fails (SQLITE_BUSY, SQLITE_FULL, SQLITE_IOERR, ...).
Insert(w, t, row, res) ==
  \/ res = "ok" /\ ~Clashes(t, row)
     /\ db' = [db EXCEPT ![t] = Append(@, row)] /\ NoFault
  \/ res = "unique" /\ Clashes(t, row)
     /\ UNCHANGED db /\ NoFault
  \/ res = "error" /\ UNCHANGED db /\ Fault(w)

Results == {"ok", "unique", "error"}

\* SELECT COUNT(*): a failing query leaves row_count at 0, so "absent".
Count(w, rows) ==
  \/ /\ found' = [found EXCEPT ![w] = IF rows = {} THEN "absent" ELSE "present"]
     /\ NoFault
  \/ found' = [found EXCEPT ![w] = "absent"] /\ Fault(w)

\* WHERE name="...": the double quotes make SQLite read the text as a column
\* name when the table has a column so called, and name=name is true of
\* every row.  (The other columns of symbols never equal their own name.)
SymbolRows(name) ==
  { i \in DOMAIN db["symbols"] :
      name = "name" \/ db["symbols"][i].name = name }

ArtifactRows(path) ==
  { i \in DOMAIN db["artifacts"] : db["artifacts"][i].path = path }

-----------------------------------------------------------------------------
(* Control flow of write().                                                *)

\* How often the loop of each function runs.
Loop(img) ==
  [ schema       |-> Len(Schema),
    elf          |-> 1,
    elf_again    |-> 1,
    artifacts    |-> Len(img.symbols),
    macros       |-> Len(img.macros),
    encodings    |-> Len(Encodings),
    symbols      |-> Len(img.symbols),
    targets      |-> Len(img.symbols),
    fields       |-> Len(img.fields),
    dimensions   |-> Len(img.dims),
    enumerations |-> Len(img.enums),
    variables    |-> Len(img.variables),
    sections     |-> Len(img.sections),
    elf_symbols  |-> Len(img.elfsymbols) ]

Stages == { "schema", "elf", "elf_again", "artifacts", "macros", "encodings",
            "symbols", "targets", "fields", "dimensions", "enumerations",
            "variables", "sections", "elf_symbols" }

\* The function write() enters after each one if that one reports success.
\* writeElfToDatabase is called twice; "targets" is the second loop of
\* writeSymbolsToDatabase.
OnSuccess ==
  [ schema |-> "elf", elf |-> "elf_again", elf_again |-> "artifacts",
    artifacts |-> "macros", macros |-> "encodings", encodings |-> "symbols",
    symbols |-> "targets", targets |-> "fields", fields |-> "dimensions",
    dimensions |-> "enumerations", enumerations |-> "variables",
    variables |-> "sections", sections |-> "elf_symbols",
    elf_symbols |-> "done" ]

\* And if it reports SQLITEDB_ERROR, where that makes a difference: failing
\* to write artifacts only skips the macros, and the dimension lists are
\* written even if the fields were not.
OnError ==
  [ elf |-> "done", elf_again |-> "encodings", artifacts |-> "encodings",
    targets |-> "done", dimensions |-> "done", enumerations |-> "done",
    variables |-> "done", sections |-> "done" ]

After(s, r) ==
  IF r = ERROR /\ s \in DOMAIN OnError THEN OnError[s] ELSE OnSuccess[s]

At(w, s) == pc[w] = s /\ item[w] \in 1 .. Loop(image[w])[s]

\* Faulty variant: the loop counts down.
Retreat(w) ==
  /\ item' = [item EXCEPT ![w] = @ - 1]
  /\ UNCHANGED << tables, pc, image, runs >>

Advance(w) ==
  /\ item' = [item EXCEPT ![w] = @ + 1]
  /\ UNCHANGED << tables, pc, image, runs >>

\* The loop of the current function is over: return to write(), which calls
\* the next one.  A function starts with rc = SQLITEDB_OK of its own, except
\* writeDimensionsListToDatabase, which leaves write()'s rc as it is.
Return(w) ==
  /\ pc[w] \in Stages
  /\ item[w] > Loop(image[w])[pc[w]]
  /\ LET next == After(pc[w], rc[w]) IN
       /\ pc' = [pc EXCEPT ![w] = next]
       /\ rc' = IF pc[w] = "symbols" \/ next \in {"dimensions", "done"}
                THEN rc ELSE [rc EXCEPT ![w] = OK]
  /\ item' = [item EXCEPT ![w] = 1]
  /\ found' = [found EXCEPT ![w] = "unasked"]
  /\ UNCHANGED << db, tables, image, held, failed, faults, runs >>

\* A process begins in initialize() with the ElfFile it will have parsed.
Begin(w, p, img) ==
  /\ pc' = [pc EXCEPT ![w] = p]
  /\ image' = [image EXCEPT ![w] = img]
  /\ held' = [held EXCEPT ![w] = NoIds(img)]
  /\ item' = [item EXCEPT ![w] = 1]
  /\ found' = [found EXCEPT ![w] = "unasked"]
  /\ rc' = [rc EXCEPT ![w] = OK]

Start(w) ==
  /\ pc[w] = "idle" /\ runs < MaxRuns
  /\ runs' = runs + 1
  /\ \E img \in Images : Begin(w, "schema", img)
  /\ UNCHANGED << db, tables, failed, faults >>

\* Between processes: some image, nothing held.
AnyImage == CHOOSE img \in Images : TRUE

\* The process ends, by itself after write() has returned or killed before,
\* and its memory is gone.
Exit(w) ==
  /\ Begin(w, "idle", AnyImage)
  /\ failed' = [failed EXCEPT ![w] = FALSE]
  /\ UNCHANGED << db, tables, faults, runs >>

Finish(w) == pc[w] = "done" /\ Exit(w)
Crash(w)  == pc[w] \notin {"idle", "done"} /\ Exit(w)

-----------------------------------------------------------------------------
(* initialize(): CREATE TABLE IF NOT EXISTS for each table.  After a       *)
(* failure IDataContainer::Create returns no container and Juicer::parse   *)
(* does nothing: the process ends without a write().                       *)

CreateTable(w) ==
  /\ At(w, "schema")
  /\ tables' = tables \cup {Schema[item[w]]}
  /\ item' = [item EXCEPT ![w] = @ + 1]
  /\ UNCHANGED << db, pc, found, rc, image, held, failed, faults, runs >>

FailToCreateTable(w) ==
  /\ At(w, "schema")
  /\ faults < MaxFaults /\ faults' = faults + 1
  /\ Begin(w, "idle", AnyImage)
  /\ UNCHANGED << db, tables, failed, runs >>

-----------------------------------------------------------------------------
(* The write...ToDatabase functions.  All but the ones for macros,         *)
(* encodings and symbols treat a UNIQUE violation as success and report    *)
(* any other failure; a later item's result overwrites an earlier one's.   *)

\* Faulty variant: a row that exists already is an error.
ReportUniqueToo(w, res) ==
  rc' = [rc EXCEPT ![w] = IF res # "ok" THEN ERROR ELSE OK]

Report(w, res) ==
  rc' = [rc EXCEPT ![w] = IF res = "error" THEN ERROR ELSE OK]

WriteElf(w) ==
  /\ At(w, "elf") \/ At(w, "elf_again")
  /\ \E res \in Results :
       /\ Insert(w, "elfs", [name |-> image[w].path, md5 |-> image[w].md5], res)
       /\ Report(w, res)
       /\ held' = IF res = "ok" THEN [held EXCEPT ![w].elf = NextId("elfs")]
                  ELSE held
  /\ Advance(w) /\ UNCHANGED found

\* doesArtifactExist()
CheckArtifact(w) ==
  /\ At(w, "artifacts") /\ found[w] = "unasked"
  /\ Count(w, ArtifactRows(image[w].symbols[item[w]].source))
  /\ UNCHANGED << db, tables, pc, item, rc, image, held, runs >>

SelectArtifact(w) ==
  /\ At(w, "artifacts") /\ found[w] = "present"
  /\ LET s == image[w].symbols[item[w]] IN
       \/ /\ \E id \in ArtifactRows(s.source) :
               held' = [held EXCEPT ![w].artifact[item[w]] = id]
          /\ rc' = [rc EXCEPT ![w] = OK] /\ NoFault
       \/ rc' = [rc EXCEPT ![w] = RAW] /\ UNCHANGED held /\ Fault(w)
  /\ found' = [found EXCEPT ![w] = "unasked"]
  /\ Advance(w) /\ UNCHANGED db

InsertArtifact(w) ==
  /\ At(w, "artifacts") /\ found[w] = "absent"
  /\ LET s == image[w].symbols[item[w]] IN
     \E res \in Results :
       /\ Insert(w, "artifacts",
                 [elf |-> held[w].elf, path |-> s.source, md5 |-> s.md5], res)
       /\ Report(w, res)
       /\ held' = IF res = "ok"
                  THEN [held EXCEPT ![w].artifact[item[w]] = NextId("artifacts")]
                  ELSE held
  /\ found' = [found EXCEPT ![w] = "unasked"]
  /\ Advance(w)

\* Whatever comes of it, write() does not look.
WriteMacro(w) ==
  /\ At(w, "macros")
  /\ \E res \in Results : Insert(w, "macros", image[w].macros[item[w]], res)
  /\ Advance(w) /\ UNCHANGED << found, rc, held >>

\* doEncodingsExist()
CheckEncodings(w) ==
  /\ At(w, "encodings") /\ found[w] = "unasked"
  /\ Count(w, DOMAIN db["encodings"])
  /\ UNCHANGED << db, tables, pc, item, rc, image, held, runs >>

\* The chains of string comparisons that store an id know every encoding but
\* DW_ATE_UTF.
HasBranch(name) == name # "DW_ATE_UTF"

WriteEncoding(w) ==
  /\ At(w, "encodings") /\ found[w] = "absent"
  /\ LET name == Encodings[item[w]] IN
     \E res \in Results :
       /\ Insert(w, "encodings", [encoding |-> name], res)
       /\ held' = IF res = "ok" /\ HasBranch(name)
                  THEN [held EXCEPT ![w].encoding[item[w]] = NextId("encodings")]
                  ELSE held
  /\ Advance(w) /\ UNCHANGED << found, rc >>

\* Faulty variant: the branch for existing encodings never leaves the loop.
SelectEncodingsForEver(w) ==
  /\ At(w, "encodings") /\ found[w] = "present"
  /\ UNCHANGED << vars >>

\* The ids of the encodings the table has; the others stay as they are.
SelectEncodings(w) ==
  /\ At(w, "encodings") /\ found[w] = "present"
  /\ \/ /\ held' = [held EXCEPT ![w].encoding =
                      [k \in DOMAIN Encodings |->
                         LET ids == { i \in DOMAIN db["encodings"] :
                                       db["encodings"][i].encoding = Encodings[k] }
                         IN IF HasBranch(Encodings[k]) /\ ids # {}
                            THEN CHOOSE i \in ids : TRUE
                            ELSE held[w].encoding[k]]]
        /\ NoFault
     \/ UNCHANGED held /\ Fault(w)
  /\ item' = [item EXCEPT ![w] = Len(Encodings) + 1]
  /\ UNCHANGED << db, tables, pc, found, rc, image, runs >>

\* doesSymbolExist()
CheckSymbol(w) ==
  /\ At(w, "symbols") /\ found[w] = "unasked"
  /\ Count(w, SymbolRows(image[w].symbols[item[w]].name))
  /\ UNCHANGED << db, tables, pc, item, rc, image, held, runs >>

\* Faulty variant: a symbol found in the table does not take the row's id.
SelectSymbolForgetsId(w) ==
  /\ At(w, "symbols") /\ found[w] = "present"
  /\ rc' = [rc EXCEPT ![w] = OK]
  /\ found' = [found EXCEPT ![w] = "unasked"]
  /\ Advance(w) /\ UNCHANGED << db, held >> /\ NoFault

\* With several rows the one whose id comes last as a string wins.
SelectSymbol(w) ==
  /\ At(w, "symbols") /\ found[w] = "present"
  /\ \/ /\ \E id \in SymbolRows(image[w].symbols[item[w]].name) :
             held' = [held EXCEPT ![w].symbol[item[w]] = id]
        /\ rc' = [rc EXCEPT ![w] = OK] /\ NoFault
     \/ rc' = [rc EXCEPT ![w] = RAW] /\ UNCHANGED held /\ Fault(w)
  /\ found' = [found EXCEPT ![w] = "unasked"]
  /\ Advance(w) /\ UNCHANGED db

\* What the encoding column of symbol s is given.
EncodingIds(w, s) ==
  IF s.encoding = "" THEN {Null}
  ELSE UNION { Read(held[w].encoding[k]) :
                 k \in { j \in DOMAIN Encodings : Encodings[j] = s.encoding } }

\* Faulty variant: the id is taken without a look at the result.
InsertSymbolAssumesStored(w) ==
  /\ At(w, "symbols") /\ found[w] = "absent"
  /\ LET s == image[w].symbols[item[w]] IN
     \E res \in Results, e \in EncodingIds(w, s),
        a \in Read(held[w].artifact[item[w]]) :
       /\ Insert(w, "symbols",
                 [elf |-> held[w].elf, name |-> s.name, byte_size |-> s.byte_size,
                  encoding |-> e, artifact |-> a, target |-> Null], res)
       /\ rc' = [rc EXCEPT ![w] = IF res = "ok" THEN OK ELSE RAW]
       /\ held' = [held EXCEPT ![w].symbol[item[w]] = NextId("symbols")]
  /\ found' = [found EXCEPT ![w] = "unasked"]
  /\ Advance(w)

\* Faulty variant: setId() is missing.
InsertSymbolForgetsId(w) ==
  /\ At(w, "symbols") /\ found[w] = "absent"
  /\ LET s == image[w].symbols[item[w]] IN
     \E res \in Results, e \in EncodingIds(w, s),
        a \in Read(held[w].artifact[item[w]]) :
       /\ Insert(w, "symbols",
                 [elf |-> held[w].elf, name |-> s.name, byte_size |-> s.byte_size,
                  encoding |-> e, artifact |-> a, target |-> Null], res)
       /\ rc' = [rc EXCEPT ![w] = IF res = "ok" THEN OK ELSE RAW]
  /\ found' = [found EXCEPT ![w] = "unasked"]
  /\ Advance(w) /\ UNCHANGED held

\* Any failure, the UNIQUE one too, is only logged and leaves Symbol::id.
InsertSymbol(w) ==
  /\ At(w, "symbols") /\ found[w] = "absent"
  /\ LET s == image[w].symbols[item[w]] IN
     \E res \in Results, e \in EncodingIds(w, s),
        a \in Read(held[w].artifact[item[w]]) :
       /\ Insert(w, "symbols",
                 [elf |-> held[w].elf, name |-> s.name, byte_size |-> s.byte_size,
                  encoding |-> e, artifact |-> a, target |-> Null], res)
       /\ rc' = [rc EXCEPT ![w] = IF res = "ok" THEN OK ELSE RAW]
       /\ held' = IF res = "ok"
                  THEN [held EXCEPT ![w].symbol[item[w]] = NextId("symbols")]
                  ELSE held
  /\ found' = [found EXCEPT ![w] = "unasked"]
  /\ Advance(w)

\* UPDATE symbols SET target_symbol = t WHERE id = i
SetTarget(i, t) ==
  db' = IF i \in DOMAIN db["symbols"]
        THEN [db EXCEPT !["symbols"] = [@ EXCEPT ![i].target = t]] ELSE db

UpdateTarget(w) ==
  /\ At(w, "targets")
  /\ LET target == image[w].symbols[item[w]].target IN
       \/ target = 0 /\ UNCHANGED << db, rc >> /\ NoFault
       \/ /\ target # 0
          /\ \E i \in Read(held[w].symbol[item[w]]),
                t \in Read(held[w].symbol[target]) : SetTarget(i, t)
          /\ rc' = [rc EXCEPT ![w] = OK] /\ NoFault
       \/ /\ target # 0
          /\ rc' = [rc EXCEPT ![w] = RAW] /\ UNCHANGED db /\ Fault(w)
  /\ Advance(w) /\ UNCHANGED << found, held >>

WriteField(w) ==
  /\ At(w, "fields")
  /\ LET f == image[w].fields[item[w]] IN
     \E res \in Results, s \in Read(held[w].symbol[f.symbol]),
        t \in Read(held[w].symbol[f.type]) :
       /\ Insert(w, "fields", [symbol |-> s, name |-> f.name,
                               byte_offset |-> f.offset, type |-> t], res)
       /\ Report(w, res)
       /\ held' = IF res = "ok"
                  THEN [held EXCEPT ![w].field[item[w]] = NextId("fields")]
                  ELSE held
  /\ Advance(w) /\ UNCHANGED found

\* Field::id is read with its initial 0 if the field's INSERT stored no row.
WriteDimension(w) ==
  /\ At(w, "dimensions")
  /\ LET d == image[w].dims[item[w]] IN
     \E res \in Results :
       Insert(w, "dimension_lists",
              [field_id |-> held[w].field[d.field], dim_order |-> d.order,
               upper_bound |-> d.upper_bound], res)
  /\ Advance(w) /\ UNCHANGED << found, rc, held >>

WriteEnumeration(w) ==
  /\ At(w, "enumerations")
  /\ LET e == image[w].enums[item[w]] IN
     \E res \in Results, s \in Read(held[w].symbol[e.symbol]) :
       /\ Insert(w, "enumerations",
                 [symbol |-> s, name |-> e.name, value |-> e.value], res)
       /\ Report(w, res)
  /\ Advance(w) /\ UNCHANGED << found, held >>

WriteVariable(w) ==
  /\ At(w, "variables")
  /\ LET v == image[w].variables[item[w]] IN
     \E res \in Results, t \in Read(held[w].symbol[v.type]) :
       /\ Insert(w, "variables",
                 [name |-> v.name, elf |-> held[w].elf, type |-> t], res)
       /\ Report(w, res)
  /\ Advance(w) /\ UNCHANGED << found, held >>

WriteElfSection(w) ==
  /\ At(w, "sections")
  /\ \E res \in Results :
       /\ Insert(w, "elf_sections",
                 [name |-> image[w].sections[item[w]], elf |-> held[w].elf], res)
       /\ Report(w, res)
  /\ Advance(w) /\ UNCHANGED << found, held >>

WriteElfSymbol(w) ==
  /\ At(w, "elf_symbols")
  /\ \E res \in Results :
       /\ Insert(w, "elf_symbol_table",
                 [name |-> image[w].elfsymbols[item[w]], elf |-> held[w].elf], res)
       /\ Report(w, res)
  /\ Advance(w) /\ UNCHANGED << found, held >>

-----------------------------------------------------------------------------
Init ==
  /\ db = [t \in Tables |-> << >>]
  /\ tables = {}
  /\ pc = [w \in Writer |-> "idle"]
  /\ item = [w \in Writer |-> 1]
  /\ found = [w \in Writer |-> "unasked"]
  /\ rc = [w \in Writer |-> OK]
  /\ image = [w \in Writer |-> AnyImage]
  /\ held = [w \in Writer |-> NoIds(AnyImage)]
  /\ failed = [w \in Writer |-> FALSE]
  /\ faults = 0 /\ runs = 0

\* One step of a running process that is not killed.
Step(w) ==
  \/ CreateTable(w) \/ FailToCreateTable(w) \/ Return(w) \/ Finish(w)
  \/ WriteElf(w)
  \/ CheckArtifact(w) \/ SelectArtifact(w) \/ InsertArtifact(w)
  \/ WriteMacro(w)
  \/ CheckEncodings(w) \/ SelectEncodings(w) \/ WriteEncoding(w)
  \/ CheckSymbol(w) \/ SelectSymbol(w) \/ InsertSymbol(w)
  \/ UpdateTarget(w)
  \/ WriteField(w) \/ WriteDimension(w) \/ WriteEnumeration(w)
  \/ WriteVariable(w) \/ WriteElfSection(w) \/ WriteElfSymbol(w)

\* Every process the bound allows has ended.
Quiet ==
  /\ \A w \in Writer : pc[w] = "idle"
  /\ runs = MaxRuns
  /\ UNCHANGED vars

Next == (\E w \in Writer : Start(w) \/ Step(w) \/ Crash(w)) \/ Quiet

Spec == Init /\ [][Next]_vars

\* No process is killed.
UninterruptedSpec ==
  Init /\ [][(\E w \in Writer : Start(w) \/ Step(w)) \/ Quiet]_vars

\* A process that runs goes on running; being started or killed is up to its
\* environment.
FairSpec == Spec /\ \A w \in Writer : WF_vars(Step(w))

-----------------------------------------------------------------------------
(* Properties.                                                             *)

RowOf ==
  [ elfs            |-> [name : STRING, md5 : STRING],
    symbols         |-> [elf : Nat, name : STRING, byte_size : Nat,
                         encoding : Nat \cup {Null}, artifact : Nat,
                         target : Nat \cup {Null}],
    fields          |-> [symbol : Nat, name : STRING, byte_offset : Nat, type : Nat],
    dimension_lists |-> [field_id : Nat, dim_order : Nat, upper_bound : Nat],
    enumerations    |-> [symbol : Nat, name : STRING, value : Nat],
    artifacts       |-> [elf : Nat, path : STRING, md5 : STRING],
    macros          |-> [name : STRING, value : STRING],
    variables       |-> [name : STRING, elf : Nat, type : Nat],
    elf_sections    |-> [name : STRING, elf : Nat],
    elf_symbol_table |-> [name : STRING, elf : Nat],
    encodings       |-> [encoding : STRING] ]

IdsOf(img) ==
  [ elf      : Nat,
    artifact : [DOMAIN img.symbols -> Nat],
    symbol   : [DOMAIN img.symbols -> Nat],
    encoding : [DOMAIN Encodings -> Nat],
    field    : [DOMAIN img.fields -> Nat] ]

FileTypeOK ==
  /\ DOMAIN db = Tables
  /\ \A t \in Tables : db[t] \in Seq(RowOf[t])
  /\ tables \subseteq Tables

ControlTypeOK ==
  /\ pc \in [Writer -> Stages \cup {"idle", "done"}]
  /\ item \in [Writer -> Nat \ {0}]
  /\ found \in [Writer -> {"unasked", "absent", "present"}]
  /\ rc \in [Writer -> {OK, ERROR, RAW}]

MemoryTypeOK ==
  /\ image \in [Writer -> Images]
  /\ DOMAIN held = Writer
  /\ \A w \in Writer : held[w] \in IdsOf(image[w])

BoundsTypeOK ==
  /\ failed \in [Writer -> BOOLEAN]
  /\ faults \in 0 .. MaxFaults
  /\ runs \in 0 .. MaxRuns

TypeOK == FileTypeOK /\ ControlTypeOK /\ MemoryTypeOK /\ BoundsTypeOK

Running(w) == pc[w] # "idle"

\* No symbol is spelled like the column that doesSymbolExist() compares.
NoColumnNames ==
  \A img \in Images : \A i \in DOMAIN img.symbols : img.symbols[i].name # "name"

\* The assigned id members of an ElfFile are ids of the right rows of file d.
ElfIdNames(d, img, h) ==
  h.elf # 0 => h.elf \in DOMAIN d["elfs"] /\ d["elfs"][h.elf].name = img.path

ArtifactIdsName(d, img, h) ==
  \A i \in DOMAIN img.symbols : h.artifact[i] # Unset =>
    /\ h.artifact[i] \in DOMAIN d["artifacts"]
    /\ d["artifacts"][h.artifact[i]].path = img.symbols[i].source

SymbolIdsName(d, img, h) ==
  \A i \in DOMAIN img.symbols : h.symbol[i] # Unset =>
    /\ h.symbol[i] \in DOMAIN d["symbols"]
    /\ d["symbols"][h.symbol[i]].name = img.symbols[i].name

EncodingIdsName(d, h) ==
  \A k \in DOMAIN Encodings : h.encoding[k] # Unset =>
    /\ h.encoding[k] \in DOMAIN d["encodings"]
    /\ d["encodings"][h.encoding[k]].encoding = Encodings[k]

\* A field's row also holds the ids of the symbols the field belongs to and
\* is of, where those were assigned.
FieldIdsName(d, img, h) ==
  \A k \in DOMAIN img.fields : h.field[k] # 0 =>
    /\ h.field[k] \in DOMAIN d["fields"]
    /\ LET r == d["fields"][h.field[k]]
           f == img.fields[k]
       IN  /\ r.name = f.name
           /\ r.symbol \in Read(h.symbol[f.symbol])
           /\ r.type \in Read(h.symbol[f.type])

\* Whatever other processes store in between and whichever statements fail,
\* an id member that write() has assigned is the id of the row that holds
\* its object: sqlite3_last_insert_rowid() and the ids SELECT returns are
\* never those of another row.
HeldIdsNameTheirRows ==
  \A w \in Writer : Running(w) =>
    /\ ElfIdNames(db, image[w], held[w])
    /\ ArtifactIdsName(db, image[w], held[w])
    /\ SymbolIdsName(db, image[w], held[w])
    /\ EncodingIdsName(db, held[w])
    /\ FieldIdsName(db, image[w], held[w])

\* write() answers SQLITEDB_ERROR only if one of its statements failed: rows
\* that exist already, from an earlier process or one that runs at the same
\* time, are not an error (the comment on write()).
ErrorMeansFault ==
  \A w \in Writer : pc[w] = "done" /\ rc[w] = ERROR => failed[w]

HasRow(t, P(_)) == \E i \in DOMAIN db[t] : P(db[t][i])

\* The rows with a name of their own are in the file.
NamesStored(img) ==
  /\ HasRow("elfs", LAMBDA r : r.name = img.path)
  /\ \A i \in DOMAIN img.symbols :
       /\ HasRow("symbols", LAMBDA r : r.name = img.symbols[i].name)
       /\ HasRow("artifacts", LAMBDA r : r.path = img.symbols[i].source)
  /\ \A i \in DOMAIN img.macros :
       HasRow("macros", LAMBDA r : r = img.macros[i])

\* A write() none of whose statements failed has stored every name, even if
\* another process stored some of them between its SELECT COUNT and INSERT.
CleanWriteStoresNames ==
  \A w \in Writer : pc[w] = "done" /\ ~ failed[w] =>
    rc[w] # ERROR /\ NamesStored(image[w])

\* The id of the row of symbol i.
SymbolId(img, i) ==
  CHOOSE id \in DOMAIN db["symbols"] :
    db["symbols"][id].name = img.symbols[i].name

\* All of the ElfFile is in the file with its references, short of its
\* dimension lists and the elf and encoding columns.
Stored(img) ==
  /\ NamesStored(img)
  /\ \A i \in DOMAIN img.symbols : img.symbols[i].target # 0 =>
       db["symbols"][SymbolId(img, i)].target = SymbolId(img, img.symbols[i].target)
  /\ \A f \in { img.fields[k] : k \in DOMAIN img.fields } :
       HasRow("fields", LAMBDA r :
                r.name = f.name /\ r.symbol = SymbolId(img, f.symbol))
  /\ \A e \in { img.enums[k] : k \in DOMAIN img.enums } :
       HasRow("enumerations", LAMBDA r :
                r.name = e.name /\ r.symbol = SymbolId(img, e.symbol))
  /\ \A v \in { img.variables[k] : k \in DOMAIN img.variables } :
       HasRow("variables", LAMBDA r :
                r.name = v.name /\ r.type = SymbolId(img, v.type))
  /\ \A k \in DOMAIN img.sections :
       HasRow("elf_sections", LAMBDA r : r.name = img.sections[k])
  /\ \A k \in DOMAIN img.elfsymbols :
       HasRow("elf_symbol_table", LAMBDA r : r.name = img.elfsymbols[k])

\* With one process at a time, a write() none of whose statements failed has
\* stored all of its ElfFile, whatever crashed or failed writes of this or
\* another version of the binary left in the file before it.
CleanWriteStoresAll ==
  \A w \in Writer : pc[w] = "done" /\ ~ failed[w] =>
    rc[w] = OK /\ Stored(image[w])

\* With one process at a time, writing again what the file holds already adds
\* no row to the tables whose rows have a key of their own.  (A file without
\* any symbol is stored before write() comes to the encodings.)
RerunAddsNothing ==
  [][\A w \in Writer :
       Running(w) /\ image[w].symbols # << >> /\ Stored(image[w]) =>
       \A t \in {"elfs", "symbols", "fields", "enumerations", "artifacts",
                 "macros", "encodings"} : DOMAIN db[t]' = DOMAIN db[t]]_vars

\* Foreign keys: every reference in the file is to a row (SQLite does not
\* check them: PRAGMA foreign_keys is off unless a connection turns it on).
Resolves(t, column, parent) ==
  \A i \in DOMAIN db[t] : db[t][i][column] \in DOMAIN db[parent] \cup {Null}

ElfReferences ==
  \A t \in {"symbols", "artifacts", "variables", "elf_sections",
            "elf_symbol_table"} : Resolves(t, "elf", "elfs")

DimensionReferences == Resolves("dimension_lists", "field_id", "fields")

EncodingReferences == Resolves("symbols", "encoding", "encodings")

\* The first process on an empty file leaves no dangling reference at any
\* moment, so a crash of it leaves none either.  (The id of an encoding
\* without a branch is never assigned.)
FirstRunReferences ==
  runs <= 1 /\ faults = 0 =>
    /\ ElfReferences /\ DimensionReferences
    /\ (\A k \in DOMAIN Encodings : HasBranch(Encodings[k])) => EncodingReferences
    /\ Resolves("symbols", "artifact", "artifacts")
    /\ Resolves("symbols", "target", "symbols")
    /\ Resolves("fields", "symbol", "symbols")
    /\ Resolves("fields", "type", "symbols")

\* A process that is not killed ends.
ProcessEnds == \A w \in Writer : Running(w) ~> ~ Running(w)

-----------------------------------------------------------------------------
(* What comments of the code and the README say, for the runs that show    *)
(* what the code does instead.                                             *)

\* "SQLITE_OK if it was able to write the all of data to the database"
OkMeansStored ==
  \A w \in Writer : pc[w] = "done" /\ rc[w] = OK => NamesStored(image[w])

-----------------------------------------------------------------------------
(* The catalog a reader of the file sees: ids replaced by symbol names.    *)

SymbolName(id) ==
  IF id \in DOMAIN db["symbols"] THEN db["symbols"][id].name ELSE "no symbol"

Rows(t) == { db[t][i] : i \in DOMAIN db[t] }

SymbolNames == { r.name : r \in Rows("symbols") }

FieldNames ==
  { << SymbolName(r.symbol), r.name, SymbolName(r.type) >> : r \in Rows("fields") }

EnumeratorNames ==
  { << SymbolName(r.symbol), r.name, r.value >> : r \in Rows("enumerations") }

VariableNames == { << r.name, SymbolName(r.type) >> : r \in Rows("variables") }

TargetNames ==
  { << r.name, SymbolName(r.target) >> :
      r \in { q \in Rows("symbols") : q.target # Null } }

\* What some ElfFile declares.
DeclaredSymbols ==
  UNION { { img.symbols[i].name : i \in DOMAIN img.symbols } : img \in Images }

DeclaredFields ==
  UNION { { << img.symbols[f.symbol].name, f.name, img.symbols[f.type].name >> :
              f \in { img.fields[k] : k \in DOMAIN img.fields } } : img \in Images }

DeclaredEnumerators ==
  UNION { { << img.symbols[e.symbol].name, e.name, e.value >> :
              e \in { img.enums[k] : k \in DOMAIN img.enums } } : img \in Images }

DeclaredVariables ==
  UNION { { << v.name, img.symbols[v.type].name >> :
              v \in { img.variables[k] : k \in DOMAIN img.variables } } :
          img \in Images }

DeclaredTargets ==
  UNION { { << s.name, img.symbols[s.target].name >> :
              s \in { img.symbols[i] : i \in { j \in DOMAIN img.symbols :
                                                 img.symbols[j].target # 0 } } } :
          img \in Images }

Catalog == INSTANCE SymbolCatalog WITH
  symbols     <- SymbolNames,
  fields      <- FieldNames,
  enumerators <- EnumeratorNames,
  variables   <- VariableNames,
  targets     <- TargetNames,
  Symbol      <- DeclaredSymbols,
  Field       <- DeclaredFields,
  Enumerator  <- DeclaredEnumerators,
  Variable    <- DeclaredVariables,
  Target      <- DeclaredTargets

\* With one process at a time and no failing statement, every step of the
\* writer, crashes and repeated runs included, is one step of the catalog or
\* none: the ids it stores in one statement still mean what they meant when
\* it read them.
ImplementsCatalog == Catalog!Spec
=============================================================================
