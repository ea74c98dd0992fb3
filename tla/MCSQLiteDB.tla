----------------------------- MODULE MCSQLiteDB -----------------------------
(***************************************************************************)
(* Instances of SQLiteDB for TLC: a few small ELF files, chosen so that    *)
(* every kind of row and every kind of reference occurs.                   *)
(***************************************************************************)
EXTENDS SQLiteDB, TLC

\* One base type with an encoding, and a typedef or struct that refers to it.
IntType(enc) == [name |-> "int", byte_size |-> 4, source |-> "main.c",
             md5 |-> "m1", encoding |-> enc, target |-> 0]

Word(target) == [name |-> "word", byte_size |-> 4, source |-> "main.c",
                 md5 |-> "m1", encoding |-> "", target |-> target]

\* struct { int xs[2]; } word with an enumerator, a macro, a variable, a
\* section and a symbol-table entry.
Full ==
  [ path |-> "app", md5 |-> "a1",
    symbols    |-> << IntType("DW_ATE_signed"), Word(1) >>,
    macros     |-> << [name |-> "N", value |-> "1"] >>,
    fields     |-> << [symbol |-> 2, name |-> "xs", offset |-> 0, type |-> 1] >>,
    dims       |-> << [field |-> 1, order |-> 0, upper_bound |-> 1] >>,
    enums      |-> << [symbol |-> 2, name |-> "E", value |-> 0] >>,
    variables  |-> << [name |-> "v", type |-> 2] >>,
    sections   |-> << ".data" >>,
    elfsymbols |-> << "v" >> ]

\* The next version of the same binary: its symbols come in another order,
\* the field has another type, the typedef another target.
Changed ==
  [ Full EXCEPT
      !.md5 = "a2",
      !.symbols = << [Word(0) EXCEPT !.byte_size = 8],
                     [name |-> "ref", byte_size |-> 8, source |-> "ref.c",
                      md5 |-> "r1", encoding |-> "", target |-> 1] >>,
      !.fields = << [symbol |-> 1, name |-> "xs", offset |-> 0, type |-> 2],
                    [symbol |-> 2, name |-> "p", offset |-> 0, type |-> 1] >>,
      !.dims = << [field |-> 2, order |-> 0, upper_bound |-> 1] >>,
      !.enums = << [symbol |-> 1, name |-> "E", value |-> 1] >>,
      !.variables = << [name |-> "v", type |-> 2] >> ]

\* The same, with two paddings of one struct under one name.
Spare(offset) == [symbol |-> 2, name |-> "_spare0", offset |-> offset, type |-> 1]

Padded == [Changed EXCEPT !.fields = @ \o << Spare(4), Spare(6) >>]

\* Another binary that uses the same header.
Other == [ Full EXCEPT !.path = "lib", !.md5 = "l1" ]

\* Only what the writers of one run race for: two names and a field.
Small(path) ==
  [ path |-> path, md5 |-> "f1",
    symbols    |-> << IntType(""), Word(1) >>,
    macros     |-> << >>,
    fields     |-> << [symbol |-> 2, name |-> "x", offset |-> 0, type |-> 1] >>,
    dims |-> << >>, enums |-> << >>, variables |-> << >>, sections |-> << >>,
    elfsymbols |-> << >> ]

\* Without the tables that only the last stages write, for the run with the
\* most failures.
Lean(img) == [ img EXCEPT !.sections = << >>, !.elfsymbols = << >> ]

WriterSymmetry == Permutations(Writer)

FullAndPadded   == {Full, Padded}
LeanAndChanged  == {Lean(Full), Lean(Changed)}
FullAndOther    == {Full, Other}
SmallPair       == {Small("app"), Small("lib")}
SmallOnly       == {Small("app")}

TwoEncodings    == << "DW_ATE_boolean", "DW_ATE_signed" >>
OneEncoding     == << "DW_ATE_signed" >>
=============================================================================
