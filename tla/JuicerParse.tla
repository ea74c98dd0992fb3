---------------------------- MODULE JuicerParse -----------------------------
(***************************************************************************)
(* How one run of juicer goes through an ELF file: main() and parse(), the *)
(* section headers and symbol tables (getObjDataFromElf), the loop over    *)
(* the compilation units (readCUList) with their macros (getDefineMacro)   *)
(* and source files (getdbgSourceFile), and the walk over the DIEs of a    *)
(* unit (getDieAndSiblings), with libdwarf and libelf calls that fail.     *)
(*                                                                         *)
(* What the handler of a DIE makes of it is abstracted to the symbols it   *)
(* adds, each with the file number it looks up; how types and fields are   *)
(* made is in DwarfTypes and StructFields, how the result is stored is in  *)
(* SQLiteDB.                                                               *)
(***************************************************************************)
EXTENDS Integers, Sequences, SequencesExt, FiniteSets

CONSTANTS
  Units,      \* the compilation units, in the order of .debug_info
  Dies,       \* the DIEs: a function from ids to DIE records
  Imports,    \* the macro units that DW_MACRO_import names, by offset
  Sections,   \* the sections of the ELF file but the null section 0, in order
  Absent,     \* an attribute that a DIE does not have
  MaxErrors   \* bound: library calls that fail in a run

-----------------------------------------------------------------------------
(* The file.                                                               *)

\* A symbol that the handler of a DIE adds: its name, and the number it
\* looks up in the list of source files.  That is DW_AT_decl_file, but for
\* a void pointer it is the byte size (`decl' is FALSE): the attribute read
\* last is DW_AT_byte_size.  A handler that adds none: an empty sequence.
IsAdd(a) == /\ a.name \in STRING /\ a.number \in Nat \cup {Absent}
            /\ a.decl \in BOOLEAN

IsMacroOp(op) ==
  \/ op.op = "define" /\ op.name \in STRING \ {""} /\ op.value \in STRING
  \/ op.op = "undef"  /\ op.name \in STRING \ {""}
  \/ op.op = "import" /\ op.offset \in {0} \cup DOMAIN Imports
  \/ op.op = "other"   \* the end, the start and end of a file, strx, sup

IsSeq(s) == s \in Seq(Range(s))

ASSUME DiesAssumption ==
  \A d \in DOMAIN Dies :
    /\ IsSeq(Dies[d].adds) /\ \A k \in DOMAIN Dies[d].adds : IsAdd(Dies[d].adds[k])
    /\ Dies[d].children \in Seq(DOMAIN Dies)

\* Every unit has a CU DIE of its own.
ASSUME UnitsAssumption ==
  /\ Absent \notin Nat /\ MaxErrors \in Nat /\ IsSeq(Units)
  /\ \A u \in DOMAIN Units :
       /\ Units[u].version \in {4, 5}
       /\ IsSeq(Units[u].files)
       /\ Units[u].root \in DOMAIN Dies
       /\ IsSeq(Units[u].macros)
       /\ \A k \in DOMAIN Units[u].macros : IsMacroOp(Units[u].macros[k])
       /\ \A v \in DOMAIN Units : Units[v].root = Units[u].root => v = u
  /\ 0 \notin DOMAIN Imports
  /\ \A o \in DOMAIN Imports :
       IsSeq(Imports[o]) /\ \A k \in DOMAIN Imports[o] : IsMacroOp(Imports[o][k])

\* The section of an entry of a symbol table may be in the file, or special
\* as SHN_UNDEF (0), SHN_ABS and SHN_COMMON are.
Common == 65522   \* 0xfff2
ASSUME SectionsAssumption ==
  /\ IsSeq(Sections)
  /\ \A s \in DOMAIN Sections :
       /\ Sections[s].type \in {"SHT_SYMTAB", "other"}
       /\ Sections[s].link \in Nat /\ Sections[s].entsize \in Nat
       /\ IsSeq(Sections[s].symbols)
       /\ \A k \in DOMAIN Sections[s].symbols :
            LET sym == Sections[s].symbols[k]
            IN  sym.name \in STRING /\ sym.size \in Nat /\ sym.shndx \in Nat

-----------------------------------------------------------------------------
VARIABLES
  pc,             \* where the program is
  options,        \* what it was started with: [container, extras, data]
  headers,        \* ElfFile: the section headers
  symbolTable,    \* ElfFile: the entries of the symbol tables
  little_endian,  \* ElfFile
  defineMacros,   \* ElfFile: the macros
  symbols,        \* ElfFile: the symbols, with the DIE and unit they are from
  dbgSourceFiles, \* Juicer: the source files of all units so far
  dwarfVersion,   \* Juicer: the version of the DIE last visited, 0: unknown
  return_value,   \* of readCUList
  unit,           \* the units whose header was read
  macroStack,     \* the loops over macro operations, innermost first
  stack,          \* the calls of getDieAndSiblings, innermost first
  entries,        \* the entries of the symbol table that are still to read
  written,        \* the data container's write was called
  seen,           \* history: the DIEs visited
  failed          \* history: the calls that failed, << call, where >>

elfVars   == << headers, symbolTable, entries, little_endian >>
walkVars  == << defineMacros, symbols, dbgSourceFiles, dwarfVersion,
                return_value, unit, macroStack, stack, seen >>
vars == << pc, options, elfVars, walkVars, written, failed >>

\* A library call fails; those that fail together in one step count as one.
Fail(call, where) == /\ Len(failed) < MaxErrors
                     /\ failed' = Append(failed, << call, where >>)

Goto(place) == pc' = place

-----------------------------------------------------------------------------
(* main() and parse().                                                     *)

\* What EI_DATA may say.
ByteOrders == {"ELFDATA2LSB", "ELFDATA2MSB", "unknown"}

\* IDataContainer::Create may answer null, -x asks for the extras, and
\* the byte order is what EI_DATA says; a file whose EI_CLASS is neither
\* that of 32 nor of 64 bits is never asked for it.
Init ==
  /\ pc = "main"
  /\ options \in [ container : BOOLEAN, extras : BOOLEAN,
                   data : ByteOrders \cup {"no_class"} ]
  /\ headers = << >> /\ symbolTable = << >> /\ entries = << >>
  /\ little_endian = TRUE /\ written = FALSE /\ failed = << >>
  /\ defineMacros = << >> /\ symbols = << >>
  /\ dbgSourceFiles = << >> /\ dwarfVersion = 0
  /\ return_value = "OK" /\ unit = 0
  /\ macroStack = << >> /\ stack = << >> /\ seen = << >>

\* parse() without a data container does nothing and answers JUICER_OK.
Open ==
  /\ pc = "main"
  /\ \/ ~ options.container /\ Goto("exit") /\ UNCHANGED failed
     \/ options.container /\ Goto("init") /\ UNCHANGED failed
     \/ options.container /\ Goto("exit") /\ Fail("open", 0)
  /\ UNCHANGED << options, elfVars, walkVars, written >>

\* dwarf_init_b, and the calls of getEndianness: what libelf answers them is
\* used without a check, and is null when one fails.
InitDwarf ==
  /\ pc = "init"
  /\ \/ /\ Goto(IF options.extras THEN "sections" ELSE "endianness")
        /\ UNCHANGED failed
     \/ Goto("exit") /\ Fail("dwarf_init_b", 0)
     \/ Goto("aborted") /\ Fail("elf_header", 0)
  /\ UNCHANGED << options, elfVars, walkVars, written >>

\* What getEndianness answered: it is not initialized for a file of neither
\* class.  An unknown byte order ends the parse: after the extras were read.
CheckEndianness ==
  /\ pc = "endianness"
  /\ \E data \in IF options.data = "no_class" THEN ByteOrders ELSE {options.data} :
       /\ little_endian' = (data # "ELFDATA2MSB")
       /\ Goto(IF data = "unknown" THEN "exit" ELSE "headers")
  /\ UNCHANGED << options, headers, symbolTable, entries, walkVars, written, failed >>

\* dwarf_finish only warns when it fails.
Write ==
  /\ pc = "write" /\ Goto("exit") /\ written' = TRUE
  /\ UNCHANGED << options, elfVars, walkVars, failed >>

-----------------------------------------------------------------------------
(* getObjDataFromElf: the sections and symbol tables.                      *)

\* A section is known by its number; a symbol table whose data cannot be
\* had is passed over.  The section and its header are used without a check,
\* and so is the size of the entries that the size of a table is divided by:
\* without them, or by 0, the program crashes.
ReadSection ==
  /\ pc = "sections" /\ entries = << >> /\ Len(headers) < Len(Sections)
  /\ options.data # "no_class"
  /\ LET s == Len(headers) + 1
         isTable == Sections[s].type = "SHT_SYMTAB"
     IN  \/ /\ isTable => Sections[s].entsize # 0
            /\ headers' = Append(headers, s)
            /\ \/ /\ entries' = IF isTable THEN Sections[s].symbols ELSE << >>
                  /\ UNCHANGED failed
               \/ isTable /\ Fail("elf_getdata", s) /\ UNCHANGED entries
            /\ UNCHANGED pc
         \/ /\ IF isTable /\ Sections[s].entsize = 0 THEN UNCHANGED failed
               ELSE Fail("elf_getshdr", s)
            /\ Goto("aborted") /\ UNCHANGED << headers, entries >>
  /\ UNCHANGED << options, symbolTable, little_endian, walkVars, written >>

\* A file of neither class has no sections, nor has one whose number of them
\* cannot be had.  When elf_getident or elf64_getehdr fails here, the program
\* crashes before the first or after the last one.
EndSections ==
  /\ pc = "sections" /\ entries = << >>
  /\ \/ /\ Len(headers) = Len(Sections) \/ options.data = "no_class"
        /\ Goto("endianness") /\ UNCHANGED failed
     \/ /\ headers = << >> /\ Fail("elf_getshdrnum", 0) /\ Goto("endianness")
     \/ /\ headers = << >> \/ Len(headers) = Len(Sections)
        /\ Fail("elf_header", 0) /\ Goto("aborted")
  /\ UNCHANGED << options, elfVars, walkVars, written >>

\* Only these symbols get the file offsets of their string table and their
\* section; an offset is modelled by the number of the section, or 0.
HasOffsets(sym) == sym.size > 0 /\ sym.shndx # Common /\ sym.name # ""

AddElfSymbol(sym, strtab, section) ==
  /\ symbolTable' = Append(symbolTable,
                      [symbol |-> sym, strtab |-> strtab, section |-> section])
  /\ entries' = Tail(entries)
  /\ UNCHANGED pc

\* The sections whose header or contents are then used without a check.
SectionsUsed(sym, link) ==
  IF sym.size = 0 \/ sym.shndx = Common THEN {}
  ELSE IF sym.name = "" THEN {link} ELSE {link, sym.shndx}

\* addElf32SymbolTableSymbol and addElf64SymbolTableSymbol.  When a section
\* is not in the file, or cannot be had, the program crashes; of section 0
\* libelf may have the contents or not.
ReadElfSymbol ==
  /\ pc = "sections" /\ entries # << >>
  /\ LET sym  == Head(entries)
         link == Sections[Len(headers)].link
         used == SectionsUsed(sym, link)
     IN  \/ /\ HasOffsets(sym) /\ used \subseteq DOMAIN Sections \cup {0}
            /\ AddElfSymbol(sym, link, sym.shndx) /\ UNCHANGED failed
         \/ /\ HasOffsets(sym) /\ link \in DOMAIN Sections \cup {0}
            /\ Fail("elf_strptr", Len(headers)) /\ AddElfSymbol(sym, 0, 0)
         \/ /\ used # {}
            /\ IF used \subseteq DOMAIN Sections THEN Fail("symbol_data", Len(headers))
               ELSE UNCHANGED failed
            /\ Goto("aborted") /\ UNCHANGED << symbolTable, entries >>
         \/ /\ ~ HasOffsets(sym) /\ used \subseteq DOMAIN Sections \cup {0}
            /\ AddElfSymbol(sym, 0, 0) /\ UNCHANGED failed
  /\ UNCHANGED << options, headers, little_endian, walkVars, written >>

-----------------------------------------------------------------------------
(* readCUList: the compilation units.                                      *)

\* Faulty variant: the first operation is left out.
MacroLoopFromSecond(ops) == [ops |-> ops, i |-> 2]

MacroLoop(ops) == [ops |-> ops, i |-> 1]

\* A header is read, and after an earlier error nothing more is done about
\* it; without one its CU DIE and macro context are read.
NextUnit ==
  /\ pc = "headers" /\ unit < Len(Units)
  /\ unit' = unit + 1
  /\ \/ /\ return_value = "ERROR"
        /\ UNCHANGED << pc, macroStack, return_value, failed >>
     \/ /\ return_value = "OK" /\ Goto("macros")
        /\ macroStack' = << MacroLoop(Units[unit + 1].macros) >>
        /\ UNCHANGED << return_value, failed >>
     \/ /\ return_value = "OK" /\ Goto("files") /\ Fail("macro_context", unit + 1)
        /\ UNCHANGED << macroStack, return_value >>
     \/ /\ return_value = "OK" /\ return_value' = "ERROR"
        /\ Fail("cu_die", unit + 1) /\ UNCHANGED << pc, macroStack >>
  /\ UNCHANGED << options, elfVars, defineMacros, symbols, dbgSourceFiles,
                  dwarfVersion, stack, written, seen >>

\* Faulty variant: a header that cannot be read is asked for again, no more.
HeaderErrorForgotten ==
  /\ pc = "headers" /\ Fail("header", unit + 1)
  /\ UNCHANGED << pc, options, elfVars, walkVars, written >>

\* The loop goes on after an error and asks for the same header again.
HeaderFails ==
  /\ pc = "headers" /\ Fail("header", unit + 1)
  /\ return_value' = "ERROR"
  /\ UNCHANGED << pc, options, elfVars, defineMacros, symbols, dbgSourceFiles,
                  dwarfVersion, unit, macroStack, stack, written, seen >>

\* Faulty variant: an error of a unit is the result of the loop.
EndUnitsWithError ==
  /\ pc = "headers" /\ unit = Len(Units)
  /\ Goto(IF return_value = "OK" THEN "write" ELSE "exit")
  /\ UNCHANGED << options, elfVars, walkVars, written, failed >>

\* DW_DLV_NO_ENTRY overwrites an earlier error.
EndUnits ==
  /\ pc = "headers" /\ unit = Len(Units)
  /\ return_value' = "OK" /\ Goto("write")
  /\ UNCHANGED << options, elfVars, defineMacros, symbols, dbgSourceFiles,
                  dwarfVersion, unit, macroStack, stack, written, seen, failed >>

-----------------------------------------------------------------------------
(* Macros: the loop of readCUList is the outermost one, the loops of       *)
(* getDefineMacro over imported macro units are inside it.                 *)

Loop     == Head(macroStack)
Op       == Loop.ops[Loop.i]
InUnit   == Len(macroStack) = 1
IsLastOp == Loop.i = Len(Loop.ops)
AtOp     == pc = "macros" /\ Loop.i <= Len(Loop.ops)

Advanced == << [Loop EXCEPT !.i = @ + 1] >> \o Tail(macroStack)
NextOp   == macroStack' = Advanced

macroRest == << options, elfVars, symbols, dbgSourceFiles, dwarfVersion, unit,
                stack, written, seen >>

\* getDefineMacroFromString: an #undef has no space, and then name and value
\* are both the whole string.
Macro(op) == [ name  |-> op.name,
               value |-> IF op.op = "undef" THEN op.name ELSE op.value ]

\* getDefineMacro adds the macro, and so does the loop that it answers to.
DefineMacro ==
  /\ AtOp /\ Op.op \in {"define", "undef"} /\ NextOp
  /\ \/ defineMacros' = defineMacros \o << Macro(Op), Macro(Op) >> /\ UNCHANGED failed
     \/ Fail("macro_defundef", unit) /\ UNCHANGED defineMacros
  /\ UNCHANGED << pc, return_value, macroRest >>

OtherOp ==
  /\ AtOp /\ Op.op = "other" /\ NextOp
  /\ UNCHANGED << pc, return_value, defineMacros, failed, macroRest >>

\* An offset of zero is taken for nothing to import.
ImportMacros ==
  /\ AtOp /\ Op.op = "import"
  /\ \/ Op.offset = 0 /\ NextOp /\ UNCHANGED << pc, failed >>
     \/ NextOp /\ Fail("macro_import", unit) /\ UNCHANGED pc
     \/ /\ Op.offset # 0
        /\ macroStack' = << MacroLoop(Imports[Op.offset]) >> \o Advanced
        /\ UNCHANGED << pc, failed >>
     \* Not checked: the context and the number of operations are then not
     \* initialized, and are none, what an earlier import left, or wild.
     \/ /\ Op.offset # 0 /\ Fail("import_context", unit)
        /\ \/ NextOp /\ UNCHANGED pc
           \/ \E o \in DOMAIN Imports :
                /\ macroStack' = << MacroLoop(Imports[o]) >> \o Advanced
                /\ UNCHANGED pc
           \/ Goto("aborted") /\ UNCHANGED macroStack
  /\ UNCHANGED << return_value, defineMacros, macroRest >>

\* dwarf_get_macro_op fails.  An import is given up; the loop of a unit
\* goes on, but what the call answered for its last operation is taken for
\* that of dwarf_siblingof.
MacroOpFails ==
  /\ AtOp
  /\ \/ /\ ~ InUnit /\ Fail("macro_op", unit)
        /\ macroStack' = Tail(macroStack) /\ UNCHANGED << pc, return_value >>
     \/ /\ InUnit /\ ~ IsLastOp /\ Fail("macro_op", unit)
        /\ NextOp /\ UNCHANGED << pc, return_value >>
     \/ /\ InUnit /\ IsLastOp /\ Fail("last_macro_op", unit)
        /\ macroStack' = << >> /\ Goto("headers") /\ return_value' = "ERROR"
  /\ UNCHANGED << defineMacros, macroRest >>

\* Faulty variant: the end of an import is the end of the unit's macros.
EndImportEndsUnit ==
  /\ pc = "macros" /\ Loop.i > Len(Loop.ops)
  /\ macroStack' = Tail(macroStack) /\ Goto("files")
  /\ UNCHANGED << return_value, defineMacros, failed, macroRest >>

EndMacroLoop ==
  /\ pc = "macros" /\ Loop.i > Len(Loop.ops)
  /\ macroStack' = Tail(macroStack)
  /\ Goto(IF InUnit THEN "files" ELSE "macros")
  /\ UNCHANGED << return_value, defineMacros, failed, macroRest >>

-----------------------------------------------------------------------------
(* getDieAndSiblings.                                                      *)

\* A call for a DIE and its siblings: the loop is at DIE i of `dies', or at
\* a null DIE when i is 0; `adds' is what its handler has yet to add, `ok'
\* the return value.
Frame(dies) == [ dies |-> dies, i |-> 1, phase |-> "visit", adds |-> << >>,
                 ok |-> TRUE ]

Top       == Head(stack)
Die       == Top.dies[Top.i]
AtTop     == Len(stack) = 1
AtDie(phase)  == pc = "walk" /\ Top.i # 0 /\ Top.phase = phase
SetTop(frame) == stack' = << frame >> \o Tail(stack)

walkRest == << options, elfVars, defineMacros, unit, macroStack, written >>

\* Where the call of a failing one is in the walk: errors of the first level
\* are reported to readCUList, others are not.
Level(call) ==
  LET top == [ offset |-> "top_offset", tag |-> "top_tag", child |-> "top_child",
               sibling |-> "top_sibling" ]
  IN  IF AtTop THEN top[call] ELSE call

\* Faulty variant: they are put behind the earlier ones.
AppendSourceFiles ==
  /\ pc = "files" /\ Goto("walk")
  /\ stack' = << Frame(<< Units[unit].root >>) >>
  /\ dbgSourceFiles' = dbgSourceFiles \o Units[unit].files
  /\ UNCHANGED << symbols, dwarfVersion, return_value, seen, failed, walkRest >>

\* The source files of the unit are put in front of those of earlier units.
ReadSourceFiles ==
  /\ pc = "files" /\ Goto("walk")
  /\ stack' = << Frame(<< Units[unit].root >>) >>
  /\ \/ /\ dbgSourceFiles' = Units[unit].files \o dbgSourceFiles
        /\ UNCHANGED failed
     \/ Fail("srcfiles", unit) /\ UNCHANGED dbgSourceFiles
  /\ UNCHANGED << symbols, dwarfVersion, return_value, seen, walkRest >>

\* The version is read before the handler is chosen by the tag: without a
\* tag there is neither.  The offset of the DIE is only read to be logged:
\* when that fails the walk goes on, and answers JUICER_ERROR.
VisitDie ==
  /\ AtDie("visit")
  /\ \/ /\ SetTop([Top EXCEPT !.phase = "handle", !.adds = Dies[Die].adds])
        /\ seen' = Append(seen, Die)
        /\ \/ dwarfVersion' = Units[unit].version /\ UNCHANGED failed
           \/ dwarfVersion' = 0 /\ Fail("version", Die)
     \/ /\ SetTop([Top EXCEPT !.ok = FALSE]) /\ Fail(Level("offset"), Die)
        /\ UNCHANGED << seen, dwarfVersion >>
     \/ /\ SetTop([Top EXCEPT !.phase = "handle", !.ok = FALSE])
        /\ Fail(Level("tag"), Die)
        /\ UNCHANGED << seen, dwarfVersion >>
  /\ UNCHANGED << pc, symbols, dbgSourceFiles, return_value, walkRest >>

Missing(n) == n \in {0, Absent}
NotFound   == "NOT_FOUND"

\* getdbgSourceFile: DWARF 4 counts the files from 1, 5 from 0; a version
\* that is not known is treated as 5.  A position counts from 1.
Position(version, n) == IF version = 4 THEN n ELSE n + 1

SourceFile(n) == IF Missing(n) THEN NotFound
                 ELSE dbgSourceFiles[Position(dwarfVersion, n)]

NewSymbol(a) == [ name |-> a.name, file |-> SourceFile(a.number), add |-> a,
                  die |-> Die, unit |-> unit ]

\* Faulty variant: a name may be there more than once.
AddSymbolAgain(a) == symbols' = Append(symbols, NewSymbol(a))

\* ElfFile::addSymbol: the first symbol of a name stays.
AddSymbol(a) ==
  symbols' = IF \E k \in DOMAIN symbols : symbols[k].name = a.name THEN symbols
             ELSE Append(symbols, NewSymbol(a))

\* Faulty variant: DWARF 4 counts from 0, too.
InRangeFromZero(n) == ~ Missing(n) => n + 1 \in DOMAIN dbgSourceFiles

\* std::vector::at throws when there is no such file, and nothing catches.
InRange(n) == ~ Missing(n) => Position(dwarfVersion, n) \in DOMAIN dbgSourceFiles

\* When calls of the handler fail, the symbol may be lost, it may have no file
\* number, or a null pointer is used (see DwarfTypes, also for what other
\* symbol there may be in its place).
HandleDie ==
  /\ AtDie("handle") /\ Top.adds # << >>
  /\ LET add  == Head(Top.adds)
         done == SetTop([Top EXCEPT !.adds = Tail(@)])
     IN  \/ /\ InRange(add.number) /\ AddSymbol(add) /\ done
            /\ UNCHANGED << pc, failed >>
         \/ /\ AddSymbol([add EXCEPT !.number = 0]) /\ done
            /\ Fail("handler", Die) /\ UNCHANGED pc
         \/ /\ done /\ Fail("handler", Die) /\ UNCHANGED << pc, symbols >>
         \/ /\ IF InRange(add.number) THEN Fail("handler", Die) ELSE UNCHANGED failed
            /\ Goto("aborted") /\ UNCHANGED << symbols, stack >>
  /\ UNCHANGED << dbgSourceFiles, dwarfVersion, return_value, seen, walkRest >>

\* dwarf_child, and the recursive call, whose result is not used.
VisitChildren ==
  /\ AtDie("handle") /\ Top.adds = << >>
  /\ \/ /\ stack' = (IF Dies[Die].children = << >> THEN << >>
                     ELSE << Frame(Dies[Die].children) >>)
                    \o << [Top EXCEPT !.phase = "sibling"] >> \o Tail(stack)
        /\ UNCHANGED failed
     \/ /\ SetTop([Top EXCEPT !.phase = "sibling", !.ok = FALSE])
        /\ Fail(Level("child"), Die)
  /\ UNCHANGED << pc, symbols, dbgSourceFiles, dwarfVersion, return_value, seen, walkRest >>

\* dwarf_siblingof; when it fails, the loop goes on with a null DIE.
NextSibling ==
  /\ AtDie("sibling")
  /\ \/ /\ Top.i < Len(Top.dies)
        /\ SetTop([Top EXCEPT !.i = @ + 1, !.phase = "visit"])
        /\ UNCHANGED << pc, return_value, failed >>
     \/ /\ Top.i = Len(Top.dies) /\ stack' = Tail(stack)
        /\ Goto(IF AtTop THEN "headers" ELSE "walk")
        /\ return_value' = IF ~ AtTop THEN return_value
                           ELSE IF Top.ok THEN "OK" ELSE "ERROR"
        /\ UNCHANGED failed
     \/ /\ SetTop([Top EXCEPT !.i = 0, !.ok = FALSE])
        /\ Fail(Level("sibling"), Die)
        /\ UNCHANGED << pc, return_value >>
  /\ UNCHANGED << symbols, dbgSourceFiles, dwarfVersion, seen, walkRest >>

\* Faulty variant: an error of dwarf_siblingof ends the level.
EndAtNull ==
  /\ pc = "walk" /\ Top.i = 0
  /\ stack' = Tail(stack)
  /\ IF AtTop THEN Goto("headers") /\ return_value' = "ERROR"
     ELSE UNCHANGED << pc, return_value >>
  /\ UNCHANGED << symbols, dbgSourceFiles, dwarfVersion, seen, failed, walkRest >>

\* Faulty variant: the null DIE has no sibling and is not the last.
StayAtNull == pc = "walk" /\ Top.i = 0 /\ UNCHANGED vars

\* Of a null DIE nothing can be read, and dwarf_siblingof answers the CU DIE.
RestartAtRoot ==
  /\ pc = "walk" /\ Top.i = 0
  /\ \/ SetTop([Frame(<< Units[unit].root >>) EXCEPT !.ok = FALSE]) /\ UNCHANGED failed
     \/ Fail(Level("sibling"), Units[unit].root) /\ UNCHANGED stack
  /\ UNCHANGED << pc, symbols, dbgSourceFiles, dwarfVersion, return_value, seen, walkRest >>

-----------------------------------------------------------------------------
Next ==
  \/ Open \/ InitDwarf \/ CheckEndianness \/ Write
  \/ ReadSection \/ ReadElfSymbol \/ EndSections
  \/ NextUnit \/ HeaderFails \/ EndUnits
  \/ DefineMacro \/ ImportMacros \/ OtherOp \/ MacroOpFails \/ EndMacroLoop
  \/ ReadSourceFiles \/ VisitDie \/ HandleDie \/ VisitChildren
  \/ NextSibling \/ RestartAtRoot

Spec == Init /\ [][Next]_vars

\* One thread, which runs until it ends.
FairSpec == Spec /\ WF_vars(Next)

-----------------------------------------------------------------------------
(* What there is to read.                                                  *)

\* DIEs are nested in the file, and no macro unit imports itself, not even
\* through others.
ASSUME NestingAssumption ==
  /\ \A S \in SUBSET DOMAIN Dies :
       S # {} => \E d \in S : Range(Dies[d].children) \cap S = {}
  /\ \A S \in SUBSET DOMAIN Imports :
       S # {} => \E o \in S : \A k \in DOMAIN Imports[o] :
                    Imports[o][k].op = "import" => Imports[o][k].offset \notin S

\* A DIE and all below it, in document order.
PreOrder[d \in DOMAIN Dies] ==
  << d >> \o FlattenSeq([ k \in DOMAIN Dies[d].children |->
                            PreOrder[Dies[d].children[k]] ])

UnitDies(u) == PreOrder[Units[u].root]

\* The same as a set: the least one that has the DIE and the children of
\* its elements.
Below == [ d \in DOMAIN Dies |->
  { x \in DOMAIN Dies :
      \A S \in SUBSET DOMAIN Dies :
        d \in S /\ (\A e \in S : Range(Dies[e].children) \subseteq S) => x \in S } ]

DiesOf(u) == Below[Units[u].root]

\* The file numbers of a unit's declarations are in its list, which DWARF 4
\* counts from 1 and DWARF 5 from 0.
ASSUME FilesAssumption ==
  \A u \in DOMAIN Units : \A d \in DiesOf(u) :
    \A k \in DOMAIN Dies[d].adds :
      LET a == Dies[d].adds[k]
      IN  a.decl /\ ~ Missing(a.number) =>
            Position(Units[u].version, a.number) \in DOMAIN Units[u].files

\* The macros of a sequence of operations, those of imported units in place.
MacrosOf(op, imported) ==
  CASE op.op \in {"define", "undef"} -> << Macro(op) >>
    [] op.op = "import" /\ op.offset # 0 -> imported[op.offset]
    [] OTHER -> << >>

ImportedMacros[o \in DOMAIN Imports] ==
  FlattenSeq([ k \in DOMAIN Imports[o] |-> MacrosOf(Imports[o][k], ImportedMacros) ])

AllUnits(Part(_)) == FlattenSeq([ u \in DOMAIN Units |-> Part(u) ])

AllMacros ==
  LET OfUnit(u) == FlattenSeq([ k \in DOMAIN Units[u].macros |->
                                  MacrosOf(Units[u].macros[k], ImportedMacros) ])
  IN  AllUnits(OfUnit)

AllDies == AllUnits(UnitDies)

AllAdds == FlattenSeq([ k \in DOMAIN AllDies |-> Dies[AllDies[k]].adds ])

AllElfSymbols ==
  FlattenSeq([ s \in DOMAIN Sections |->
                 IF Sections[s].type = "SHT_SYMTAB" THEN Sections[s].symbols
                 ELSE << >> ])

\* What is kept of a sequence when the first of each value stays.
AndIfNew(t, x) == IF Contains(t, x) THEN t ELSE Append(t, x)

Distinct(s) ==
  LET upto[k \in 0 .. Len(s)] == IF k = 0 THEN << >> ELSE AndIfNew(upto[k - 1], s[k])
  IN  upto[Len(s)]

Names(s)    == [ k \in DOMAIN s |-> s[k].name ]
Failed(x)   == x \in Range(failed)

\* The failures that keep a unit from being walked, and those that make the
\* walk of it answer JUICER_ERROR.
UnitFails(u) == \E call \in {"header", "cu_die", "last_macro_op"} : Failed(<< call, u >>)
WalkFails(u) == \E call \in {"top_offset", "top_tag", "top_child", "top_sibling"} :
                  Failed(<< call, Units[u].root >>)
Walked(u)    == /\ ~ UnitFails(u)
                /\ \A v \in 1 .. u - 1 : ~ UnitFails(v) /\ ~ WalkFails(v)

-----------------------------------------------------------------------------
(* Properties.                                                             *)

IsFrame(f) == /\ f.dies \in Seq(DOMAIN Dies) /\ f.i \in 0 .. Len(f.dies)
              /\ f.phase \in {"visit", "handle", "sibling"} /\ f.ok \in BOOLEAN
              /\ f.i # 0 /\ f.phase = "handle" =>
                   \E k \in 0 .. Len(Dies[f.dies[f.i]].adds) :
                     f.adds = SubSeq(Dies[f.dies[f.i]].adds, k + 1,
                                     Len(Dies[f.dies[f.i]].adds))

\* The variables stay in their types, and a walk is under way exactly while
\* there are calls of getDieAndSiblings, likewise the loops over macros.
TypeOK ==
  /\ pc \in {"main", "init", "sections", "endianness", "headers", "macros",
             "files", "walk", "write", "exit", "aborted"}
  /\ headers \in Seq(DOMAIN Sections)
  /\ little_endian \in BOOLEAN /\ written \in BOOLEAN
  /\ dwarfVersion \in {0, 4, 5} /\ return_value \in {"OK", "ERROR"}
  /\ unit \in 0 .. Len(Units)
  /\ \A k \in DOMAIN stack : IsFrame(stack[k])
  /\ \A k \in DOMAIN macroStack : macroStack[k].i \in 1 .. Len(macroStack[k].ops) + 1
  /\ pc # "aborted" => /\ (stack # << >>) = (pc = "walk")
                       /\ (macroStack # << >>) = (pc = "macros")
  /\ seen \in Seq(DOMAIN Dies)
  /\ Len(failed) <= MaxErrors

\* When no call fails, what is handed to the data container is all of the
\* file: every DIE was visited, once and in document order, the first symbol
\* of each name is there, and with the extras every section and entry of a
\* symbol table; and it is handed over, if there is a container.  Of a file of
\* neither class only the DIEs are claimed.
CleanParseStoresAll ==
  /\ written /\ failed = << >> =>
       /\ seen = AllDies
       /\ Names(symbols) = Distinct(Names(AllAdds))
       /\ options.data = "no_class" \/ little_endian = (options.data = "ELFDATA2LSB")
       /\ options.extras /\ options.data # "no_class" =>
            /\ Len(headers) = Len(Sections)
            /\ Len(symbolTable) = Len(AllElfSymbols)
            /\ \A k \in DOMAIN symbolTable : symbolTable[k].symbol = AllElfSymbols[k]
  /\ pc = "exit" /\ failed = << >> /\ options.container =>
       written \/ options.data \in {"unknown", "no_class"}

\* Macros are handed over twice and again at every import, but what a data
\* container keeps, the first of each name and value, are those of the source
\* in their order, with the imports expanded in place.
MacrosAreExpanded ==
  written /\ failed = << >> => Distinct(defineMacros) = Distinct(AllMacros)

\* A unit is walked unless it or an earlier one failed, though the loop goes
\* on over all units: nothing after the first error is read.
NothingReadAfterFailedUnit ==
  \A k \in DOMAIN seen : \E u \in 1 .. unit : Walked(u) /\ seen[k] \in DiesOf(u)

\* Of a unit that is walked a DIE is missed only if its tag could not be
\* read or dwarf_child failed for one above it.  A dwarf_siblingof that
\* fails loses nothing: the unit is walked again from its root.
MissedOnlyBelowFailedCall ==
  written =>
    \A u \in {v \in DOMAIN Units : Walked(v)} : \A d \in DiesOf(u) :
      \/ d \in Range(seen)
      \/ Failed(<< "tag", d >>) \/ Failed(<< "top_tag", d >>)
      \/ \E a \in DiesOf(u) \ {d} :
           /\ d \in Below[a]
           /\ Failed(<< "child", a >>) \/ Failed(<< "top_child", a >>)

\* A symbol has the source file of its own unit's list, although the lists
\* of all units are in one vector: unless the list of that unit, or the
\* DWARF version of the DIE, could not be read.
SymbolFilesAreTheirUnits ==
  \A k \in DOMAIN symbols :
    LET s == symbols[k]
        i == Position(Units[s.unit].version, s.add.number)
    IN  /\ ~ Missing(s.add.number) /\ i \in DOMAIN Units[s.unit].files
        /\ ~ Failed(<< "srcfiles", s.unit >>) /\ ~ Failed(<< "version", s.die >>)
        => s.file = Units[s.unit].files[i]

\* The file number of a declaration is in the list when it is looked up, so
\* that std::vector::at does not throw: whatever the lists of the units before
\* have made of the vector, and wherever in the walk the DIE is met again.
\* Unless the list of its own unit, or its DWARF version, could not be read.
LookupsAreInRange ==
  AtDie("handle") /\ Top.adds # << >> /\ Head(Top.adds).decl =>
    \/ InRange(Head(Top.adds).number)
    \/ Failed(<< "srcfiles", unit >>) \/ Failed(<< "version", Die >>)

\* Only a file that cannot be opened, that libdwarf refuses or that has no
\* known class or byte order is not written; every error after that, main()
\* and parse() treat like none, unless it crashes the program.
OnlyEarlyErrorsPreventWrite ==
  pc = "exit" /\ ~ written =>
    \/ ~ options.container \/ options.data \in {"unknown", "no_class"}
    \/ Failed(<< "open", 0 >>) \/ Failed(<< "dwarf_init_b", 0 >>)

\* A run ends, if the calls fail a bounded number of times: the loop over the
\* units asks again for a header that cannot be read.
ParseEnds == <>(pc \in {"exit", "aborted"})

\* Not so: a pointer without a type is assumed to be of the void* type
\* (README.md:339).  Its size is looked up as the number of a source file,
\* and in a file with fewer of them that ends the program.
VoidPointersAreRead ==
  failed = << >> =>
    \A k \in DOMAIN seen : \A j \in DOMAIN Dies[seen[k]].adds :
      LET a == Dies[seen[k]].adds[j]
      IN  pc \in {"exit", "aborted"} /\ ~ a.decl =>
            \E n \in DOMAIN symbols : symbols[n].name = a.name
=============================================================================
