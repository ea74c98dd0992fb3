--------------------------- MODULE MCStructFields ---------------------------
(***************************************************************************)
(* Instances of StructFields for TLC: small C files as struct DIEs.        *)
(***************************************************************************)
EXTENDS StructFields, TLC

Member(name, location, type, size) ==
  [ tag |-> "member", name |-> name, location |-> location, type |-> type,
    alias |-> "", constant |-> FALSE, size |-> size, dims |-> << >>,
    bit_size |-> 0, bit_offset |-> Absent ]

Array(name, location, size, dims) ==
  [Member(name, location, "leaf", size) EXCEPT !.dims = dims]

\* A member function, or another child that is not a data member.
Method == [Member("f", Absent, "leaf", 0) EXCEPT !.tag = "other"]

Struct(name, byte_size, members) ==
  [name |-> name, byte_size |-> byte_size, typedefs |-> {}, members |-> members]

\* struct Inner { char a; int b; };
Inner == Struct("Inner", 8, << Member("a", 0, "leaf", 1), Member("b", 4, "leaf", 4) >>)

\* typedef struct { char c; struct Inner in; char xs[3]; short s; } Outer;
\* with padding after c, xs and s.
Outer ==
  [ Struct("", 20, << Member("c", 0, "leaf", 1), Method, Member("in", 4, "inner", 0),
                      Array("xs", 12, 1, << 2 >>), Member("s", 16, "leaf", 2) >>)
      EXCEPT !.typedefs = {"Outer"} ]

\* struct Nest { struct { char p; short q; } part; Outer o[2]; struct {} e; };
Part == Struct("", 4, << Member("p", 0, "leaf", 1), Member("q", 2, "leaf", 2) >>)
Nest ==
  Struct("Nest", 44,
    << Member("part", 0, "part", 0),
       [Member("o", 4, "outer", 0) EXCEPT !.alias = "Outer", !.dims = << 1 >>],
       Member("e", 44, "empty", 0) >>)
Empty == [Struct("Empty", 0, << >>) EXCEPT !.typedefs = {"Nothing"}]

\* struct Tail { int n; char xs[6]; };  with two bytes of padding behind xs.
Tailed == Struct("Tail", 12, << Member("n", 0, "leaf", 4), Array("xs", 4, 1, << 5 >>) >>)

\* struct Flex { int n; char d[]; };
Flex == Struct("Flex", 4, << Member("n", 0, "leaf", 4), Array("d", 4, 1, << NoUpperBound >>) >>)

\* struct Inner again, another one, in another compilation unit.
OtherInner ==
  Struct("Inner", 16, << Member("a", 0, "leaf", 1), Member("k", 8, "leaf", 8) >>)

\* struct Const { const Outer id; int n; };
Const ==
  Struct("Const", 24,
    << [Member("id", 0, "outer", 0) EXCEPT !.alias = "Outer", !.constant = TRUE],
       Member("n", 20, "leaf", 4) >>)

\* struct Inner;  typedef struct Inner Handle;
Declaration == [Struct("Inner", Absent, << >>) EXCEPT !.typedefs = {"Handle"}]

\* The struct of README.md, Bitfields, in DWARF 4, where bit offsets count
\* from the top of the int.  Its last bit field is as DWARF 5 has it, without
\* DW_AT_data_member_location.
Bit(name, location, bit_size, bit_offset) ==
  [Member(name, location, "leaf", 4) EXCEPT !.bit_size = bit_size, !.bit_offset = bit_offset]

Bits ==
  Struct("S", 8,
    << Member("before", 0, "leaf", 1), Bit("j", 0, 5, 19), Bit("k", 0, 6, 13),
       Bit("m", 0, 5, 8), Member("p", 3, "leaf", 1), Bit("n", Absent, 8, Absent),
       Member("after", 5, "leaf", 1) >>)

\* A program of well-behaved structs in two compilation units.
PlainProgram ==
  [ inner |-> Inner, inner2 |-> Inner, outer |-> Outer, part |-> Part,
    nest |-> Nest, empty |-> Empty ]

\* One that also has everything else.
MixedProgram ==
  [ inner |-> Inner, outer |-> Outer, homonym |-> [OtherInner EXCEPT !.name = "Const"],
    opaque |-> [Declaration EXCEPT !.name = "Opaque"],
    constant |-> Const, bits |-> Bits, flex |-> Flex ]

OpaqueProgram == [ decl |-> Declaration, inner |-> Inner, outer |-> Outer ]
TailProgram  == [ tail |-> Tailed, inner |-> Inner, outer |-> Outer ]
=============================================================================
