# A verification of juicer in TLA+

juicer reads the DWARF debug information of an ELF file and stores its types,
variables, macros, sections and symbol table in a SQLite database. It is one
single-threaded C++ process per ELF file; several processes, one after the
other or at the same time, may be pointed at one database file
(`src/README.md:173`). This directory models its two halves that carry state of
consequence, the *reader* (the way through the ELF file, the symbols made of
type DIEs, the layout of structs) and the *SQLite writer* that puts the result
into the file; it checks them with TLC and proves the properties that matter
most with TLAPS. All source paths below are relative to `src/src/` unless they
begin with `src/`.

    tlc -workers 2 -config JuicerParse_walk.cfg   MCJuicerParse
    tlc -workers 2 -config DwarfTypes_mixed.cfg   MCDwarfTypes
    tlc -workers 2 -config StructFields_plain.cfg MCStructFields
    tlc -workers 2 -config SQLiteDB_rerun.cfg     MCSQLiteDB
    tlapm SQLiteDBIdProofs.tla

`PROJECT.json` lists every run, the faulty variants that each property rejects,
the source lines of every definition, the findings, the hazards and the
theorems.


## 1. Inventory

| component | source | state it keeps | operations | modelled in |
|---|---|---|---|---|
| command line | `main.cpp` | the options | create a container, `parse`, end; ignores the result | the life of a process in `SQLiteDB`, the first steps of `JuicerParse` |
| container factory | `IDataContainer.cpp` | none | `Create`: `new SQLiteDB`, `initialize`, null after an error | `Start`, `CreateTable`, `FailToCreateTable` in `SQLiteDB` |
| parse and CU loop | `Juicer.cpp` 245-427, 4033-4232, 5125-5223 | libdwarf's cursor, `dbgSourceFiles`, `dwarfVersion`, `return_value` | for each compilation unit: macros, source files, a walk over all DIEs; then `write()` | `JuicerParse` |
| type reader | `Juicer.cpp` 462-1361, 3108-3537 | the symbols of the `ElfFile` | one handler per DWARF tag, recursive along `DW_AT_type` | `DwarfTypes` |
| struct reader and padding | `Juicer.cpp` 3546-3995, `Symbol.cpp`, `Field.cpp` | fields of one symbol, loop positions, nested calls | read members, insert `_spareN`, append `_spare_end` | `StructFields` |
| macros | `Juicer.cpp` 74-240 | `ElfFile`'s macro list | walk over macro operations, recursive for imports | `JuicerParse`; written by `SQLiteDB` |
| variables | `Juicer.cpp` 797-915 | `ElfFile`'s variables | only with `--extras` | `DwarfTypes`; written by `SQLiteDB` |
| ELF sections and symbols | `Juicer.cpp` 4338-5017 | lists of rows | translate libelf's tables | `JuicerParse`; written by `SQLiteDB` |
| in-memory model | `ElfFile`, `Symbol`, `Field`, `DimensionList`, `Enumeration`, `Variable`, `DefineMacro`, `Artifact`, `Encoding` | symbols by name, fields in order, ids that the writer assigns | `addSymbol`, `addField`, ... (the first of a name stays), `getArraySize`, `isBitField` | the part each component uses, in its module |
| SQLite writer | `SQLiteDB.cpp`, `SQLiteDB.h` | the database file; ids in the `ElfFile` | `initialize`, `write` and its twelve `write...ToDatabase` | `SQLiteDB`, `SymbolCatalog` |
| logger | `Logger.cpp`, `LoggerInstance.cpp` | a log level and a file | print | not modelled: nobody reads its state |
| query script | `src/query_symbols.py` | none | read a finished database | not modelled |

**How they interact.** Everything is a direct call in one thread: `main` calls
`Create`, then `Juicer::parse`; `parse` fills one `ElfFile` and hands it to
`SQLiteDB::write`. Two things are shared beyond that. Inside a process, the
symbols: every reader finds types *by name* in the `ElfFile`, so what one DIE
stored is what the next DIE of that name continues. Between processes, the
database file: no transaction is ever opened, so SQLite commits each statement
by itself, and the steps of several processes interleave statement by statement.

**What is hard here.**

* *Repeated and nested reading.* A struct DIE is read by the traversal and again
  by every member, typedef or array that has its type; reading it again must add
  neither fields nor padding, although the fields now include the padding of the
  first time. Reading a member suspends the outer struct at that member.
* *A loop over a sequence it inserts into*, with offsets in wrap-around
  `uint32_t` arithmetic (`addPaddingToStruct`).
* *Check, then act* across two statements (`doesSymbolExist`, then `INSERT`)
  against a file that other processes write.
* *Ids in memory that name rows of the file*: assigned by
  `sqlite3_last_insert_rowid` or by a `SELECT`, uninitialised otherwise.
* *Being killed* between two statements, and being run again on what is there.
* *Result codes that overwrite each other*, in `write()` and in `readCUList`.

**What makes each component correct.** Parse: without an error
all is read; an error costs what lies below its DIE, or its unit and those after
it, and nothing else; symbols get the source file their own unit means, and the
run ends. Type reader: each symbol refers to
symbols of the same `ElfFile` (the assumption `IsImage` of the writer), and
typedefs and fields name what their DIEs mean in whatever order those are read.
Struct reader: the fields of a struct tile its bytes, whatever was read before,
and nothing stored is ever lost. Writer: ids mean the rows they were taken for;
a write without a failing statement leaves the whole `ElfFile` in the file
whatever happened before; running again adds nothing; an error is reported only
for a reason; every process ends.


## 2. The modules, and what is left

| module | proofs | composed with the others by |
|---|---|---|
| `JuicerParse` | `JuicerParseProofs` | a handler is the sequence of symbols it adds; `DwarfTypes` and `StructFields` say how |
| `DwarfTypes` | `DwarfTypesProofs` | `ReferencesAreStored` is what the assumption `IsImage` of `SQLiteDB` says of symbols, fields and variables; a struct's members are read without offsets, which are in `StructFields` |
| `StructFields` | `StructFieldsProofs`, `StructLayoutProofs` | types other than structs are leaves with a size; `DwarfTypes` says when they have a symbol |
| `SQLiteDB`, `SymbolCatalog` | `SQLiteDBProofs`, `SQLiteDBIdProofs`, `SQLiteDBStoreProofs`, `SQLiteDBCatalogProofs`, each on top of the one before | its `Images` are `ElfFile`s as the reader leaves them |

The `MC` modules hold the instances. The parts are joined by what one promises
and the next assumes, not by one specification of everything: reading and
writing do not overlap in time (`write()` is called once, after the last DIE),
so their product has no interleavings that the parts do not have.

What is proved of each module is at the end of its section, what only TLC
checks in section 7. Still worth doing, in this order:

1. the layout of structs with bit fields, for which the model has to say what
   `DW_AT_data_bit_offset` means, an attribute the code does not read;
2. targets in a database that two versions of a binary were written to: the
   chains that end in an `ElfFile` (`TypedefsNameEarlierSymbols`) may not end
   in the file.


## 3. The SQLite writer

### `SQLiteDB.tla`: one action per statement

| in the module | in the code |
|---|---|
| `db` | the rows of the eleven tables; rows are never deleted, so a row's id is its position |
| `tables` | the tables `createSchemas` has created |
| `pc`, `item` | the `write...ToDatabase` function a process is in and its loop position |
| `found` | the answer of the last `does...Exist` query |
| `rc` | the result variable of `write()` |
| `image`, `held` | the `ElfFile` and the `id` members of its objects |
| `failed`, `faults`, `runs` | a history variable and two counters for the bounds |

A process starts (`Start`: `main` and `Create`), creates tables, runs through
the functions in the order of `write()` and ends. `Return` is the way from one
function to the next: `After` is `write()`'s chain of `if`s, with its
quirks (artifacts that fail skip only the macros; the dimension lists are
written even if the fields failed; `writeElfToDatabase` is called twice).
`Insert` has three outcomes: stored, rejected by the table's `UNIQUE`
constraint, or failed for any other reason (busy, full, I/O). `Crash` ends a
process anywhere. An `id` member that was never assigned reads as some value of
`Junk`, because `Symbol::id`, `Artifact::id` and `Encoding::id` have no
initialiser; those of `ElfFile` and `Field` start as 0.

Abstracted: column values that no property tells apart (long descriptions, bit
sizes, section addresses), the text of statements, and the `SELECT`s that read
back a row are the set of rows they can return. `PRAGMA foreign_keys` is not
set by the code, so references are not checked by `Insert`.

`IsImage` says what an `ElfFile` is like when it is written. Names of symbols are
unique, as `addSymbol` makes them. Names of fields are, too, except those of
paddings, which are inserted without a look (`Juicer.cpp:3895`) and may be there
twice in a struct; the second row then breaks the `UNIQUE` constraint. A padding
has no dimension list. Left out: a member of the source with dimensions that is
itself called `_spareN`.

### `SymbolCatalog.tla`: what a reader of the file is promised

With names in place of ids, the database is a catalog that only grows: a
declaration enters after the symbols it refers to, the first one of an
(owner, name) pair stays, only the target of a typedef or pointer may be
replaced, and nothing enters that no binary declared. `SQLiteDB` implements it
by the mapping at its end (`Catalog`), which looks ids up in the file (`SymbolName`
and the `...Names` operators, one for each kind of declaration): a step
that stored an id which does not mean what the process took it for would be
no step of the catalog.

### Runs

| run | instance | what it shows |
|---|---|---|
| `SQLiteDB_rerun` | 1 process at a time, killed anywhere, 3 starts, two versions of a binary | types; a first run leaves no dangling reference at any moment; a clean write stores everything whatever crashed before; a repeated one adds nothing; every step implements the catalog |
| `SQLiteDB_faults` | 2 starts, 2 failing statements | ids name their rows; an error is reported only after a failure; a clean write repairs what failed ones left out; a process that is scheduled ends |
| `SQLiteDB_race` | 2 processes at once, killed anywhere | ids name their rows although another process stores the same symbols between `SELECT` and `INSERT`; all names are stored |
| `SQLiteDB_ok`, `_dims` | the smallest instance each | a comment of the code or a sentence of the README that the code does not keep, see section 8 |

*Bounds.* The two versions of the binary in `MCSQLiteDB` have one object of
every kind of row and every kind of reference, and differ in ids, order, types
and targets; in `SQLiteDB_rerun` the second also has two paddings of one name. Three starts are a crash, a repair and a repetition; a fourth
meets nothing new, because what a start sees of its predecessors is the set of
rows, and those of both versions are there after two. Two processes suffice for
the races, which are all between one process's query and its insert. Two faults
are one that is masked and one that masks it.
`Junk = {0, 1}` is a value that names no row and one that does. Processes are
symmetric in `SQLiteDB_race`.

*Fairness.* `FairSpec` is weak fairness of `Step(w)`: a process that is running
and not killed executes its next statement at some time. That is the operating
system's scheduler and nothing of juicer's: there is no lock to wait for in the
model, a busy database being a statement that fails. Starting and killing
processes is not fair.

### Proofs

`SQLiteDBProofs.tla`, for any set of processes, any images, any encodings and
any bounds, from the named assumptions of the module only:

* `TypeCorrect`: `Spec => []TypeOK`. `TypeOK` is the conjunction of
  `FileTypeOK`, `ControlTypeOK`, `MemoryTypeOK` and `BoundsTypeOK` and is
  inductive as it stands; there is one lemma per action.
* `ErrorsHaveCauses`: `Spec => []ErrorMeansFault`. Strengthened to "in every
  stage `rc = ERROR` implies `failed`", because the result travels from the
  statement to the end of `write()`.

`SQLiteDBIdProofs.tla`:

* `IdsNameRows`: `NoColumnNames => (Spec => []HeldIdsNameTheirRows)`. The
  argument is that the file only grows (`Grows`: every row stays under its id,
  a symbol's row keeps its name), so a fact that relates held ids to rows
  survives every step of every *other* process, and a process's own steps
  assign ids of rows just inserted or just found. A field's row holds the
  symbol ids of its owner and its type, so the inductive invariant also says
  where in `write()` symbol ids stop changing. `NoColumnNames` is needed: for a
  symbol spelled `name` the query of `doesSymbolExist` is `WHERE name="name"`,
  the double quotes make that a column, and every row satisfies it (`SymbolRows`).

`SQLiteDBStoreProofs.tla` says what a `write()` none of whose statements failed
leaves in the file:

* `CleanNames`: `NoColumnNames => (Spec => []CleanWriteStoresNames)`, whatever
  other processes do at the same time. The invariant `NamesInv` says of each item
  a process has passed (`Passed`: by the stage and the position in its loop) that
  its name is in the file; a file that `Grows` keeps it there.
* `CleanWrites`: `NoColumnNames => (Spec /\ []Alone => []CleanWriteStoresAll)`.
  `Alone` (no two processes run at the same time) is needed: of two writers the
  later may find a row the earlier has only half the references of, which
  `SQLiteDB_race` leaves out for the same reason. Crashes and earlier failures are
  not excluded. The invariant `StoreInv` has two parts. What a process has passed
  is stored with its references; and what its last query answered is still true
  (`Answers`), which is where `Alone` is used. `RawInv` says that the last
  function of `write()` leaves no raw SQLite code in `rc`.

`SQLiteDBCatalogProofs.tla` adds that no statement fails (`NoFailure`: after
a failed insert of a symbol, what refers to it is stored all the same, section 8):

* `WriterImplementsCatalog`: `Spec /\ []Alone /\ []NoFailure =>
  ImplementsCatalog`, the refinement, step by step: one lemma per statement says
  which step of `SymbolCatalog` it is, or that no reader sees it. A reader sees
  names, so each lemma needs that the ids just stored are those of the rows meant
  (`HeldIdsNameTheirRows`), that names of symbols are unique (`NamesUnique`), and
  that a row's own references resolve (`RefsResolve`).
* `ReferencesResolve`: `RefsResolve` itself, which is worth stating: targets,
  owners, types and enumerators are rows at every moment, also between two
  statements and after a kill.
* `RerunsAddNothing`: `RerunAddsNothing` under the same hypotheses. The property
  speaks of a process that runs while the file already holds its whole `ElfFile`
  (`Stored`), whoever wrote it. It is about an `ElfFile` with at least one symbol,
  which the proof showed to be needed: one without is `Stored` before `write()`
  comes to the encodings, and then adds those. That no encoding is added
  otherwise rests on `EncodingsFirst`: no symbol is in the file before the
  encodings are, which every process takes for complete when it finds one.
  `StoredClashes` is the lemma that what is `Stored` cannot be inserted, because it
  clashes with its own row on the key of the table.
* `FirstRunsReferences`: `NoColumnNames => (Spec => []FirstRunReferences)`.
  Without `Alone` or `NoFailure`: the property has them as its premise, a first
  run being alone. `FirstInv` says that in a first run the ids of the `ElfFile`,
  its encodings and its fields are assigned when they are used (later runs do not
  assign the first, section 8). Of fields it says so for those with a dimension
  list (`HasDimensions`), whose names are unique.


## 4. The struct reader

### `StructFields.tla`

| in the module | in the code |
|---|---|
| `Dies` | the struct DIEs of the binary with their members |
| `symbols`, `paddings` | the `ElfFile`'s struct symbols with their fields, and the padding types `_paddingN` |
| `todo` | the struct and typedef DIEs `getDieAndSiblings` has still to come to |
| `stack` | the nested calls of `process_DW_TAG_structure_type`; a frame has the child DIE it is at and the variables of the padding loop |
| `read`, `errors` | a history variable, a counter for the bound |

`VisitStruct` and `VisitTypedef` are the two ways the traversal starts a
reading. `SkipMember`, `ReadMember` and `EnterStruct` are one child of the DIE;
`Return` comes back from a nested struct and stores the field that waited for
it. `PadGap` is one iteration of `addPaddingToStruct`, `PadEnd` is
`addPaddingEndToStruct`, `SiblingError` a failing `dwarf_siblingof`. All
arithmetic is modulo `Modulus` (2^32 in the code). The DIEs are visited in any
order, because the order of units is the linker's.

Modelling decisions: a typedef of a struct that a member refers to is looked
through as `getBaseTypeSymbol` does when it takes the struct's size and fields,
and only its name remains (`alias`); types for which
`getBaseTypeSymbol` answers null are `"none"` (volatile, union, class,
reference, and a struct that is met through a DIE without `DW_AT_decl_file`, such
as an array or a const type); every other type is a `"leaf"` with a size. A const
member (`constant`) of a typedef'd struct reads that struct and is then skipped
(`Juicer.cpp:1311`); of a struct without a typedef it reads nothing, as the const
DIE has no `DW_AT_decl_file`. `TypedefsAssumption` leaves out typedefs of one name
for different structs, of which the code keeps the first one's size. The type of
a field is then the name of a struct symbol or one of the `Markers`, which are no
names of structs (`Names`). `Visits` is what the traversal of all units comes to.
`Layout` and `Plain` speak of a struct's data members by their positions and as a
set, so that they can be reasoned about without recursion.
The `byteSize` of `getDieAndSiblings` is not initialised and stays so for a
declaration: some value of `Junk`.

### Runs

| run | instance | what it shows |
|---|---|---|
| `StructFields_plain` | 6 DIEs in two units, nested to depth 3, one failing call | the fields of a symbol tile its bytes from the end of its first reading on; a field's type is read before the field is stored; reading again adds nothing; reading ends |
| `StructFields_mixed` | 7 DIEs: bit fields, a const member of a typedef'd struct, a flexible array, two structs of one name and a declaration beside two plain structs; one failing call | no field is ever lost, changed or reordered; no readable member is left out because of one that is not; the plain structs still tile, and no padding type another one made has the wrong size for them |
| `StructFields_tail`, `_sizes` | 2 or 3 DIEs | a sentence of the README and a test that the code does not keep, see section 8 |

`FieldsTileStruct` and `ReadAgainAddsNothing` speak of *plain* structs: members
in order without overlap, of types that are read, no bit fields, no flexible
array, no padding behind a trailing array, one layout per name. `Plain` is
defined from the DIE alone. What it excludes is what juicer does not
lay out correctly. `StructFields_tail` shows one of them. The others
are the two structs of one name, which share a symbol (and get two `_spare0`,
section 8); the wrapped size behind a flexible array (the dimension of an array without
an upper bound becomes 2^32 and `getArraySize()` 0, so `byteSize - symbolSize`
is negative), and the members that are skipped and become padding (const,
volatile, unions, bit fields of DWARF 5, which have no
`DW_AT_data_member_location`). `FieldsAreKept` and `ReadableMembersStored` are
about every struct, those included.

*Bounds.* The structs have every kind of gap (none, after a scalar, after an
array, after a nested struct, at the end), an anonymous struct, a typedef'd one,
an array of structs, an empty one and a member function. `Modulus = 4096` is
larger than any bit size of a struct in the instances, as 2^32 is for real ones,
and small enough that sizes really wrap around (the flexible array of
`StructFields_mixed`). One failing call
puts an incompletely read struct before every continuation.
`CHECK_DEADLOCK FALSE`: the reader stops when all is read.

*Fairness.* `WF_vars(Next)`: one thread that does nothing else.

### Proofs

`StructFieldsProofs.tla`, for any DIEs that satisfy `DiesAssumption`:

* `CallsCorrect`: `Spec => []CallsOK` (a conjunct of `TypeOK`): however structs
  nest, each call points into its DIE and into its symbol's fields, and each
  waiting call stands at the member whose type is read.
* `NoFieldIsLost`: `Spec => FieldsAreKept`.

The invariant is `IsTable(symbols) /\ StackOK(stack, symbols) /\ TodoOK(todo)`.
It is needed for both: that the padding loop inserts *inside* the fields rests
on its position being between 2 and their number, that rests on `count`
being their number, and that, for a call that is suspended, on the
nested calls not being in a padding loop of their own below it. The lemmas are
stated for two arbitrary symbol tables, one of which `Grows` into the other, so
that each action needs only one argument about the table and one about the stack.

* `MembersAreStored`: `Spec => []ReadableMembersStored`. The invariant `MInv`
  adds that the readable members each call has passed are fields of its symbol,
  that a call in its padding loop has passed them all, and the same of every
  complete reading. A suspended call has *not* passed the member it waits for:
  the proof of `Return` is the place where the field of the nested struct is
  there before the call moves on. The table only `Grows`, so what the other
  calls and readings stored stays stored.

`StructLayoutProofs.tla` is about numbers and types:

* `TypesCorrect`: `Spec => []TypeOK`. That padding types have a size in
  `1 .. Modulus - 1` rests on the guards of `PadGap` and `PadEnd` and on the
  arithmetic staying in range, and that on `ArraySize`, a fold over any number of
  dimensions. The theorems about folds take an operator as a parameter and cannot
  be used; the module therefore unfolds one itself (`FoldDefined`, `FoldStep`), by
  induction over the *set* of the lengths for which it is defined
  (`NatSetInduction`, from `WFMin`, which has no operator parameter). `DimsFacts` is the
  result: the product of the dimensions in `Nat`, and in `uint32_t`, and that they
  agree where nothing wraps around.
* `TypesAreReadFirst`: `Spec => []FieldTypesAreRead`.

The invariant `TInv` adds to `MInv`: each waiting call waits for the struct that
the call above it reads, under the name that the member's type has (`Links`);
each field's type is a symbol that has been read, unless there was an error
(`TableOK`, `Types`); a symbol has the size of a DIE of its name (`SizeKnown`),
or any for `""`, which a typedef of a declaration makes; and a call that is done
has been entered in `read` (the last conjunct), which is what makes `Return` store the
field of a type that is read.

The layout is the longest argument of the project. Its two hypotheses:

* `PaddingNames`, a fact about names that the provers cannot derive (`ToString`
  has no definition they can use) and the code relies on: `_spare0`, `_spare1`, ... and
  `_spare_end` are different, and no member is called so. A member that is
  would be taken by `addField` for the padding.
* `[]PaddingsFit`: no padding type has a name that says another size than a plain
  struct needs. It is a theorem for the programs below, and a property of
  `StructFields_mixed`, where flexible arrays, skipped members and homonyms make
  padding types too. It is not a theorem for all DIEs: members that overlap give
  a gap that wraps around, and eight times a number of 2^29 and more wraps around
  onto the name of a smaller one.

The results, all under `PaddingNames`:

* `PaddingTiles`: `Spec /\ []PaddingsFit => []FieldsTileStruct`.
* `ReadingIsIdempotent`: `Spec /\ []PaddingsFit => ReadAgainAddsNothing`.
* `PaddingTypesFit`: `PlainOrPacked => (Spec => []PaddingsFit)`. `PlainOrPacked`
  says that every struct with members is plain, or has a readable bit field that
  `addBitFields` takes for one (`Packed`), under each name it may be read by.
* `PlainProgramTiles`: `PlainOrPacked => (Spec => []FieldsTileStruct)` and
  `ReadAgainAddsNothing`, so in such a program the second hypothesis is not needed.
  The instance of `StructFields_plain` is one, all its structs being plain.

`FieldsTileStruct` is not inductive. The invariant `LInv` says of each plain
struct, by what the DIE says in unbounded numbers (`Items`), which of three shapes
its fields have (`Laid`): *unpadded*, members only, in order, and what is
missing comes behind; being *padded*, all members and spares, without a gap up
to the position of the loop (`Padding`), which exists only while a call for it
is in its padding loop on top of the stack (`InGaps`); or *tiled*. A reading of a tiled struct changes
nothing: every `addField` finds its name, every gap is zero. A reading that ended
in an error leaves an unpadded struct, and the next one completes it. The loop
inserts in front of the position and moves on by two, which `FillGap` shows to
keep `Padding`; `Gaps` and `Ends` show that for a plain layout the `uint32_t` arithmetic of
the code is that of numbers. Two DIEs of one name with one layout share a symbol and
the argument; those of different layouts are not plain. `PaddingTypesFit` adds that
each padding type has the size its name says, and that a struct in
the padding loop has members (`PInv`). For a plain struct that is arithmetic: its
gaps are smaller than the struct. For a packed one no padding type is made at
all, which needs an invariant of its own (`BitsInv`): a field with the name of the
recognised bit field is a bit field, whichever DIE of the symbol's name made it, so
the loop over the gaps is entered with a count of 0.

`Plain` leaves out what is known not to be laid out right: bit fields, flexible
arrays, an array in front of padding at the end (`StructFields_tail`), members that are
skipped.

Only model-checked: `ReadingEnds`, and that `PaddingsFit` holds beside structs that
are neither plain nor packed.


## 5. The type reader

### `DwarfTypes.tla`

| in the module | in the code |
|---|---|
| `Dies` | the DIEs: tag, name, `DW_AT_type`, size, whether they have `DW_AT_decl_file`, members, enumerators, dimensions |
| `symbols`, `variables` | the `ElfFile`'s symbols by name, with size, target, fields and enumerators, and its variables |
| `todo` | the DIEs that `getDieAndSiblings` has yet to come to |
| `stack` | the calls of `getBaseTypeSymbol` and the `process_DW_TAG_...` functions |
| `answer` | the `Symbol*` and the dimensions that the call that ended last returns |
| `aborted` | the program wrote through a null pointer (`process_DW_TAG_base_type`) |

`VisitDie` is the traversal coming to a DIE it handles. `NoType`, `PointerType`,
`StructType`, `EnumType`, `BaseType`, `TypedefType` and `ElementType` are the
branches of `getBaseTypeSymbol`, `ProcessBaseType`, `ProcessTypedef`,
`ProcessStruct` and `ProcessVariable` the functions it and the traversal call.
Any type may be read from any place, also while it is being read further out.

The DIEs are read in any order. That is more than the orders the linker can
produce (a unit's DIEs keep their order), and the properties hold all the same.
`Range32` is 2^32 in the code. Left out: the numbers of encodings, offsets and
padding (`StructFields`), and `process_DW_TAG_array_type`, whose result nobody
uses.

A step in which calls of libdwarf fail may have several failures (`Fail`), and
goes where the code then goes, which is not always an error: a failure that the
next call overwrites leaves a named struct or enumeration under the name of the
DIE that refers to it (`Juicer.cpp:985`, `1142`; `TypeNames`), a pointer whose type cannot be
read is taken for a `void*` and may be stored under both names (`Juicer.cpp:653`,
`749`; `AddPointers`), a base type without a readable size is written through a null
pointer (`aborted`), dimensions are read in part (`PartlyRead`). What is then in the symbols, the properties about
meaning do not claim.

Several things are modelled as they are although the documentation suggests
something else: a const type is read and then dropped (`Juicer.cpp:1311`), so a
member, typedef or variable of such a type has no symbol and is left out; a
typedef does not keep the dimensions of an array; a pointer is named by the
first name it leads to, so one to an unnamed function has no symbol; a union has
one only if another DIE made a symbol of its name before. `Meaning` is the
result of these rules, computed from the DIEs alone.

A nameless struct or enumeration is stored under the name of the DIE that refers to
it, and under several when several do (`NamesOf`); a name is a DIE's own (`Owns`) if
no other DIE puts a symbol under it, except a typedef of that DIE, which comes
second if the DIE has a size. The properties about what is stored under a name are
about names that a DIE owns.

### Run

`DwarfTypes_mixed`: 24 DIEs, a struct that points to its own typedef, with
members of array, const, void pointer, function pointer and nested unnamed
struct type, an enumeration without a name behind a typedef and a member, a union, a struct
that is only declared, and a variable; one step whose calls fail. It shows that every
reference is to a stored symbol, that targets were there before what refers to
them, that typedefs (as long as no call has failed), fields and enumerators (if none
fails) are those of the DIEs in whatever order they are read and however often, and
that reading ends, in a crash or with all read, although types are circular. Each kind of reference occurs in front of and behind what it refers to
(any order of the 7 DIEs that are visited), so more DIEs of the same kinds add nothing. `Range32 = 16`
makes the second enumerator wrap around.

*Fairness.* `WF_vars(Next)`: one thread that does nothing else.

### Proofs

`DwarfTypesProofs.tla`, for any DIEs that satisfy `DiesAssumption`, whatever they
refer to, in circles too:

* `ReferencesStored`: `Spec => []ReferencesAreStored`.
* `TypedefSizes`: `Spec => []TypedefHasSizeOfTarget`.
* `TargetsComeFirst`: `Spec => TypedefsNameEarlierSymbols`.
* `TypesCorrect`: `Spec => []TypeOK`.

The invariant says of the calls what the code relies on: the symbol an answer
names is in the table, a struct's call fills a symbol that is there, an answer
exists only while an outer call waits for it, and a function is called only for
DIEs it can handle. The table never loses a name nor changes a size or target
(`AddSymbol` keeps the first), which carries the facts about suspended calls
over the steps of the inner ones.

What the symbols mean is the second half of the module:

* `TypedefsRight`: `Spec => []TypedefsNameTheirTypes`.
* `FieldsRight`: `Spec => []FieldsNameTheirTypes`.
* `EnumeratorsRight`: `Spec => []EnumeratorsAreTheDies`.

`CallInv` is the argument for all three: a call in progress works on the type the
call below it waits for (`WorksOn`), and an answer is the `Meaning` of that type
(`Meets`), as long as no call has failed. The answer of an inner call is then
what `Meaning` of the outer DIE is made of (`Meant`), however the calls nest and
whatever was read before. `TypedefInv` and `EnumInv` say that of the symbol under
a name a DIE owns, once it is there; it must be there when the traversal has come to
the DIE and no call works on it any more. The fields are the hard case, because a
struct may be read again, from inside itself or under another name, while a reading
is half done: `StructInv` says that the fields are those of the first `p` members,
that some call goes on behind `p` if they are not all, and that no call has come
further, so that what an inner call adds is found by the outer one later.

Two facts about DIEs are assumed. `ChainsAssumption`: following typedefs and arrays
ends, as C has no other way to declare one than from a type declared before (the
code would follow a circle of them for ever). `NamesAssumption`: no DIE has the name
that the code makes for the symbol of a pointer, which ends in `*`; no identifier
does. The recursions of `Meaning` and of `upto` in `MeantFields` are shown to be
defined (`RecursionIsDefined`, `NatSetInduction`): by induction over the *set* of
DIEs for which they are.

The three are about runs, or the beginnings of runs, without a failing call; with one
a symbol may go under the name of what refers to it, and a typedef name it. The proof
also corrected the properties: `TypedefsNameTheirTypes` and
`FieldsNameTheirTypes` left out the typedefs that share a name with their struct
and the structs without a name. In the instance of `DwarfTypes_mixed` no typedef has the
name of its struct and the nameless struct holds a union; that part of the two
properties rests on the theorems.

Only model-checked: `ReadingEnds`.


## 6. The way through an ELF file

### `JuicerParse.tla`

| in the module | in the code |
|---|---|
| `Units`, `Dies`, `Imports`, `Sections` | what libdwarf and libelf answer: units with version, source files, macro operations and root DIE; trees of DIEs; imported macro units; sections with symbol tables |
| `pc`, `options` | where `main()`, `parse()` and `readCUList` are; the container, `-x` and what the file says of class and byte order |
| `headers`, `symbolTable`, `entries` | section headers, symbol table entries, and those still to be read |
| `defineMacros`, `macroStack` | the macros, and the loops of `readCUList` and `getDefineMacro` |
| `symbols`, `dbgSourceFiles`, `dwarfVersion` | symbols with their source file, the vector of all units' files, the version that decides how it is indexed |
| `stack` | the calls of `getDieAndSiblings`, each at a DIE, with what its handler has yet to add |
| `return_value`, `written` | the result of `readCUList`; `write()` was called |

One action per library call or loop step. Every action with a `Fail` has the
outcome of a failing call beside the good one, and goes where the code then
goes: an unreadable header is asked for again, an error of a unit makes the loop
pass over all later ones, `DW_DLV_NO_ENTRY` at their end overwrites the error, an
error of `dwarf_siblingof` continues with a null DIE, from which libdwarf
answers the root of the unit, an unchecked context of a macro import is
whatever the memory held. The program crashes (`aborted`) where the code uses an answer
without a check: the ELF header in `getEndianness` and `getObjDataFromElf`
(`Juicer.cpp:5033`, `4353`), sections, their headers and contents (4371, 4430, 4472), an entry size of
0 (4401), an uninitialized macro context (192), a null symbol in a handler (3257); and where
`std::vector::at` throws, which no one catches. A file of neither ELF class
(`"no_class"`) has no sections, and its byte order is what an uninitialised
variable says.

A handler of a DIE is abstracted to the symbols it adds and the file number each
of them looks up; when calls inside it fail, a symbol may be lost, have no file, or
the program crash. What other symbol there may be in its place is in `DwarfTypes`.
Failures of one DIE that change nothing but the result of the walk
(`dwarf_dieoffset`, `dwarf_tag`, `dwarf_child`, `dwarf_siblingof`) each count as one.

### Runs

| run | instance | what it shows |
|---|---|---|
| `JuicerParse_walk` | two units (DWARF 4 and 5) of 5 and 3 DIEs, nested imports of macros, a symbol table; all options; any two calls fail | without a failure all is read, in order, once; with one, nothing after the failing unit and everything in a unit that is walked but what lies below a failing call; symbols keep the source file of their own unit, whose number is always found; unless the program crashes only early errors keep `write()` from being called; the run ends |
| `JuicerParse_void` | one unit with one source file | the byte size of a `void*` is taken for a file number and the program ends, see section 8 |

*Bounds.* Both versions count files differently and are in one vector, so two
units have every combination of a symbol and a list that is not its own. Two
failures are an error and one that masks or meets it, e.g. a header of the
second unit after an error in the first. A DIE with two levels below it and
siblings on both sides has every place at which a walk can fail.

*Fairness.* `WF_vars(Next)`, one thread. `ParseEnds` rests on the bound
`MaxErrors` as well: a header that can never be read would be asked for without
end (`Juicer.cpp:276`), and a null DIE whose siblings fail for ever likewise.

### Proofs

`JuicerParseProofs.tla`, for any file that satisfies the assumptions of the
module. `Below` is the DIEs below a DIE as the least set closed under children,
and `DiesOf` those of a unit; written so, and not by recursion, a walk can be
proved to have seen them. The proof found one assumption the code makes of
a file that was not stated at first: every unit has a CU DIE of its own (two
units with one root would be walked once as seen and twice as expected).

* `EarlyErrors`: `Spec => []OnlyEarlyErrorsPreventWrite`. Each step to `"exit"`
  comes from one of few places, and `failed` is only appended to.
* `TypesCorrect`: `Spec => []TypeOK`, by the invariant `Inv`: which loops and
  calls are in progress follows from `pc`, each loop is inside its operations
  and each call inside its DIEs, and what a handler has yet to add is a suffix
  of what its DIE makes it add.
* `SourceFiles`: `Spec => []SymbolFilesAreTheirUnits`. The lists of all units are
  in one vector, newest first. The invariant adds that during a walk the list of
  the unit is in front, unless reading it failed (`OwnListInFront`), and that
  `dwarfVersion` is the unit's while a handler runs, unless reading it failed
  (`VersionIsKnown`). A number within the unit's own list then finds a file of it.

* `NothingAfterError`: `Spec => []NothingReadAfterFailedUnit`. `ResultInv` says
  what `return_value` knows of the units before, at each place of the loop:
  it is `OK` inside a unit only if none before failed. `SeenInv` says that what was
  seen is of units that were walked.
* `MissedDies`: `Spec => []MissedOnlyBelowFailedCall`. A DIE is `Accounted` for
  when it was seen, or it or one above it had a call that failed. `WalkInv` says of
  the calls in progress that each is at a child of the call below it, and
  that the earlier siblings with all that is below them are accounted for; an
  error of `dwarf_siblingof` makes a call begin again at the root, so `MadeFor` lets
  any call go through the whole tree instead of some children. `DoneInv` keeps it for the units that
  are finished.
* `LookupsInRange`: `Spec => []LookupsAreInRange`, from `FilesInv` (whose list is in
  front) and `UnitsInv` (a walk only takes place in a unit without an error). Which other
  answers crash the program is in the model and not claimed.

* `CleanRunsStoreAll`: `Spec => []CleanParseStoresAll`.
* `MacrosExpanded`: `Spec => []MacrosAreExpanded`.

Both are about runs in which no call fails, and have one form: what was handed over
so far, followed by what the calls and loops in progress and the units to come
have yet to do, is all of the file, in order. `CleanWalk` is that for the DIEs
(the rest of a walk is, for each call from the innermost out, what is below
its DIE and behind it), `CleanSymbols` for the symbols of the handlers, `CleanElf` for
sections and symbol tables, `CleanMacros` for macros. There it is `Distinct` of them
that is compared, because the code hands each macro over twice and of equal ones the
database keeps the first (`UNIQUE (name, value)`). `Order` says which loops are over when the
program is where it is. At the end nothing is left to do, and what was
handed over is all.

What is all of the file is a recursion over trees (`PreOrder`) and over imports
(`Expanded`). That these recursive functions are defined is proved from
`NestingAssumption`, by induction over the set of DIEs or offsets for which they
are (`RecursionIsDefined`). The assumption says that DIEs are nested in the file and that
no macro unit imports itself, not even through others; `getDefineMacro` would call
itself for ever in one that does, as it does not look where it came from
(`Juicer.cpp:220`).

Only model-checked: `ParseEnds`.


## 7. What the provers cannot do here

Liveness under fairness and `ENABLED` stay with TLC (`ProcessEnds`,
`ReadingEnds`, `ParseEnds`). Every other property of a passing run is a theorem, of the
specification or under the hypotheses its section names. Where a recursion was only a way to
say "all of these", the model says it as a least set or by positions (`Below`,
`Plain`). Where it is the point (the order of a walk, the expansion of macros, the
type that types lead to, the product of dimensions), the library's induction
theorems cannot be used, as they take an operator as a parameter; the proofs
use induction over the set of arguments for which the recursion is defined.

| module | property | why it stays with TLC |
|---|---|---|
| `StructFields` | `PaddingsFit` beside structs that are neither plain nor packed | false for DIEs with overlapping members or gaps of 2^29 bytes |
| all | what must happen in the end | liveness |


## 8. Where the code and its documentation disagree

Each is a run that ends in a counterexample, and an entry under `findings`.

| run | what happens |
|---|---|
| `SQLiteDB_ok` | a failed insert of a symbol is only logged and `write()` answers `SQLITEDB_OK` (`SQLiteDB.cpp:275` promises the opposite) |
| `SQLiteDB_dims` | the dimension list of a field another binary stored before refers to field 0 |
| `StructFields_tail` | padding behind a trailing array is stored on top of its second element |
| `StructFields_sizes` | a declaration that comes first gives the symbol an uninitialised size |
| `JuicerParse_void` | a pointer without a type ends the program in a unit with few source files (`Juicer.cpp:675`), where `src/README.md:339` says it is a `void*` |

Seen while modelling, in the model, and not claimed by any property:

* a second run on the same binary stores new rows with elf 0, because
  `ElfFile::id` is only assigned by an insert that stores a row;
* `DW_ATE_UTF` has no branch in the chains that assign encoding ids, so a
  `char16_t` symbol gets an uninitialised one, and the query for a symbol
  spelled `name` is true of every row. For these reasons `FirstRunReferences`
  speaks of a first run and of encodings with a branch;
* two processes store an artifact of one path twice, with two checksums
  (`SQLiteDB.cpp:1053` says that paths are unique; the table's constraint is on
  path and checksum, and the query for the path comes before the insert);
* two structs of one name share a symbol, and each reading begins to count its
  padding at `_spare0` (`Juicer.cpp:3895`);
* const types are listed as supported (`src/README.md:321`), and what is read of
  them is dropped with a TODO (`Juicer.cpp:1311`): their typedefs, members and
  variables have no symbol;
* `main()` does not use the result of `parse()` (`main.cpp:385`): a run that was
  cut short ends like a complete one;
* answers of libelf and libdwarf that are used without a check crash the program
  (section 6), also for files in order: a symbol of `SHN_ABS` with a size
  (`Juicer.cpp:4472`) or a symbol table that says 0 for the size of its entries (4401);
* a run after one that was killed while it stored the encodings never stores the
  rest of them (`SQLiteDB.cpp:1583`);
* the README (`src/README.md:189`) calls the padding at the end of a struct
  `_padding_end`; the code's name for it is `_spare_end`.


## 9. Not modelled

* Pure text: argument parsing, logging (the logger's state is read by no other
  component) and the wording of SQL statements. `DisplayDie` and what it calls
  (`Juicer.cpp` 1363-3106) only log the attributes of a DIE.
* `process_DW_TAG_array_type`: its result is not used. The
  numbers of encodings: no property of the reader tells them apart, the writer
  has them as indices into its `Encodings`.
* The bytes that initialised ELF symbols point to (`symbolToData`), which no
  other component reads.
* libdwarf, libelf and SQLite themselves: they are the outcomes of their calls.
* `src/query_symbols.py`, a reader of a finished database without state, the
  tests and their subjects, and `IDataContainer`'s second format, CCDD, which the
  code does not implement.
* Accessors and copy constructors of the in-memory model.
