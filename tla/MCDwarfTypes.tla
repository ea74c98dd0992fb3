---------------------------- MODULE MCDwarfTypes ----------------------------
(* Type DIEs for TLC, see DwarfTypes.                                      *)
EXTENDS DwarfTypes, TLC

Die(tag, name, type, size) ==
  [ tag |-> tag, name |-> name, type |-> type, size |-> size, decl_file |-> TRUE,
    members |-> << >>, enumerators |-> << >>, dims |-> << >> ]

NoFile(d)         == [d EXCEPT !.decl_file = FALSE]
Base(name, size)  == NoFile(Die("base_type", name, Null, size))
Struct(name, size, members) ==
  [Die("structure_type", name, Null, size) EXCEPT !.members = members]
Enum(name, enumerators) ==
  [Die("enumeration_type", name, Null, 4) EXCEPT !.enumerators = enumerators]
Typedef(name, type)  == Die("typedef", name, type, Null)
Member(name, type)   == Die("member", name, type, Null)
Variable(name, type) == Die("variable", name, type, Null)
Pointer(type)     == NoFile(Die("pointer_type", "", type, 4))
Const(type)       == NoFile(Die("const_type", "", type, Null))
Array(type, dims) == [NoFile(Die("array_type", "", type, Null)) EXCEPT !.dims = dims]

\* struct S { int a[3]; S_t *next; const int c; R_t r; void *p; } S_t, where
\* struct { Color col; void (*cb)(void); union { int i; } un; } R_t and
\* enum { RED = 1, BIG = 9 } Color; struct X is declared and has no definition
\* where extern struct X g is declared.
\* The type of col is the enumeration itself (__typeof__), which gets two names
\* that way.
MixedDies ==
  "int" :> Base("int", 4)
  @@ "S" :> Struct("S", 32, << "a", "next", "c", "r", "p" >>)
  @@ "a" :> Member("a", "int3") @@ "int3" :> Array("int", << 2 >>)
  @@ "next" :> Member("next", "S_t*") @@ "S_t*" :> Pointer("S_t")
  @@ "c" :> Member("c", "const") @@ "const" :> Const("int")
  @@ "r" :> Member("r", "R_t")
  @@ "p" :> Member("p", "void*") @@ "void*" :> Pointer(Null)
  @@ "S_t" :> Typedef("S_t", "S")
  @@ "R" :> Struct("", 8, << "col", "cb", "un" >>)
  @@ "col" :> Member("col", "color")
  @@ "cb" :> Member("cb", "f*") @@ "f*" :> Pointer("f")
  @@ "f" :> Die("other", "", Null, Null)
  @@ "R_t" :> Typedef("R_t", "R")
  @@ "Color" :> Typedef("Color", "color")
  @@ "color" :> Enum("", << [name |-> "RED", value |-> 1], [name |-> "BIG", value |-> 9] >>)
  @@ "X" :> Struct("X", Null, << >>)
  @@ "U" :> Die("union_type", "", Null, 4)
  @@ "un" :> Member("un", "U")
  @@ "g" :> Variable("g", "X")
=============================================================================
