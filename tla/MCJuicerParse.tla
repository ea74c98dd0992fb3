--------------------------- MODULE MCJuicerParse ----------------------------
(* Small ELF files for TLC, see JuicerParse.                               *)
EXTENDS JuicerParse, TLC

A(name, number) == [name |-> name, number |-> number, decl |-> TRUE]

\* A pointer of four bytes to void: the file number looked up is 4.
VoidPointer == [name |-> "void*", number |-> 4, decl |-> FALSE]

D(adds, children) == [adds |-> adds, children |-> children]

Define(name, value) == [op |-> "define", name |-> name, value |-> value]
Undef(name)         == [op |-> "undef", name |-> name]
Import(offset)      == [op |-> "import", offset |-> offset]
Other               == [op |-> "other"]

U(version, files, macros, root) ==
  [version |-> version, files |-> files, macros |-> macros, root |-> root]

Symbol(name, size, shndx) == [name |-> name, size |-> size, shndx |-> shndx]
Section(type, link, syms) == [type |-> type, link |-> link, entsize |-> 24, symbols |-> syms]

\* Two units, of DWARF 4 and 5, that both have a typedef of a name and one
\* of void*; the second has fewer files than a pointer has bytes, and finds
\* one of the first.
TwoDies ==
  "r1" :> D(<< >>, << "t1", "f1", "s1" >>)
  @@ "t1" :> D(<< VoidPointer, A("T", 2) >>, << >>)
  @@ "f1" :> D(<< >>, << "b1" >>)
  @@ "b1" :> D(<< A("B", 1) >>, << >>)
  @@ "s1" :> D(<< A("int", Absent), A("S", 4) >>, << >>)
  @@ "r2" :> D(<< >>, << "t2", "v2" >>)
  @@ "t2" :> D(<< A("T", 0) >>, << >>)
  @@ "v2" :> D(<< A("V", 1), VoidPointer >>, << >>)

TwoUnits ==
  << U(4, << "a.c", "a.h", "x.h", "y.h" >>,
       << Define("X", "1"), Import(1), Other >>, "r1"),
     U(5, << "b.c", "b.h" >>,
       << Undef("Z"), Import(0), Import(2), Define("X", "2"), Other >>, "r2") >>

\* The first imports the second.
TwoImports == << << Define("Y", "1"), Import(2) >>, << Define("Z", "1") >> >>

TwoSections ==
  << Section("other", 0, << >>),
     Section("SHT_SYMTAB", 3, << Symbol("", 0, 0), Symbol("g", 4, 1),
                                 Symbol("c", 4, Common) >>),
     Section("other", 0, << >>) >>

\* One unit of one file.
OneDies == "r" :> D(<< >>, << "p" >>) @@ "p" :> D(<< VoidPointer, A("P", 1) >>, << >>)
OneUnit == << U(4, << "a.c" >>, << Other >>, "r") >>
NoImports  == << >>
NoSections == << >>
=============================================================================
