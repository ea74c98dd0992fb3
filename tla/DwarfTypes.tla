----------------------------- MODULE DwarfTypes -----------------------------
(***************************************************************************)
(* How juicer turns type DIEs and variables into the symbols of an ELF     *)
(* file (src/Juicer.cpp: getBaseTypeSymbol and the process_DW_TAG_...      *)
(* functions that call each other through it, getFirstAncestorName;        *)
(* ElfFile::addSymbol, Symbol::addField and addEnumeration).               *)
(*                                                                         *)
(* The walk over the DIEs comes to each base type, typedef, struct and     *)
(* variable once, and each of them is read again wherever a type refers to *)
(* it.  Symbols are found by name.  What is added under a name depends on  *)
(* what was there before, so the order of the DIEs matters: here it is any.*)
(* Offsets and padding of fields are in StructFields.                      *)
(***************************************************************************)
EXTENDS Integers, Sequences, SequencesExt, FiniteSets

CONSTANTS
  Dies,       \* the DIEs: a function from ids to DIE records
  Null,       \* no type, no size; a null pointer
  Junk,       \* what the uninitialized byteSize of getDieAndSiblings may hold
  Range32,    \* 2^32: an enumerator's value is stored as an int32_t
  MaxErrors   \* bound: steps in which calls of libdwarf fail

-----------------------------------------------------------------------------
(* The debug information.                                                  *)

Tags == { "base_type", "typedef", "structure_type", "enumeration_type",
          "pointer_type", "const_type", "array_type", "union_type",
          "other",                  \* volatile, class, reference, function
          "member", "variable" }

IsDie(d) ==
  /\ d.tag \in Tags
  /\ d.name \in STRING                       \* "": no DW_AT_name
  /\ d.type \in DOMAIN Dies \cup {Null}
  /\ d.size \in Nat \cup {Null}
  /\ d.decl_file \in BOOLEAN                 \* it has DW_AT_decl_file
  /\ d.members \in Seq(DOMAIN Dies)          \* of a struct
  /\ d.enumerators \in Seq([name : STRING, value : Int])
  /\ d.dims \in Seq(Nat)                     \* of an array; see getDimList

ASSUME DiesAssumption ==
  /\ Null \notin STRING \cup Nat
  /\ \A d \in DOMAIN Dies :
       /\ IsDie(Dies[d])
       /\ Dies[d].tag = "member" => Dies[d].name # ""
       /\ Dies[d].tag \in {"base_type", "typedef"} => Dies[d].name # ""
       \* A base type has its encoding and size, an enumeration its size
       \* and, since DWARF 4 came with GCC, the encoding of its values.
       /\ Dies[d].tag \in {"base_type", "enumeration_type"} => Dies[d].size # Null
       /\ Range(Dies[d].members) \subseteq {m \in DOMAIN Dies : Dies[m].tag = "member"}
ASSUME BoundsAssumption ==
  /\ Junk \subseteq Nat /\ Junk # {} /\ MaxErrors \in Nat
  /\ Range32 \in Nat \ {0} /\ Range32 % 2 = 0

\* The DIEs that getDieAndSiblings handles; variables only with the extras.
IsVisited(d) == \/ Dies[d].tag \in {"base_type", "typedef", "variable"}
                \/ Dies[d].tag = "structure_type" /\ Dies[d].name # ""

\* getFirstAncestorName: the first name along the types that d refers to.
FirstAncestorName[d \in DOMAIN Dies] ==
  LET t == Dies[d].type
  IN  IF t = Null THEN Null
      ELSE IF Dies[t].name # "" THEN Dies[t].name ELSE FirstAncestorName[t]

PointerTo(name) == name \o "*"

\* The conversion of an enumerator's value to int32_t.
ToInt32(v) == LET half == Range32 \div 2
              IN  ((v + half) % Range32) - half

-----------------------------------------------------------------------------
VARIABLES
  symbols,    \* ElfFile: name -> [size, target, fields, enumerators]
  variables,  \* ElfFile: the variables, a sequence of [name, type]
  todo,       \* the DIEs that getDieAndSiblings has yet to come to
  stack,      \* the calls of the functions above, innermost first
  answer,     \* << what the call that ended last answers >>, until it is used
  errors,     \* steps so far in which calls failed, for the bound MaxErrors
  aborted     \* the program has crashed

elfVars == << symbols, variables >>
vars == << symbols, variables, todo, stack, answer, errors, aborted >>

\* A call for a DIE; `symbol' and `next' are those of a struct, which is
\* filling a symbol and has come to that member.
Call(function, d) == [function |-> function, die |-> d, symbol |-> "", next |-> 1]
FillStruct(d, symbol) == [Call("structure_type", d) EXCEPT !.symbol = symbol]

Top         == Head(stack)
TopDie      == Dies[Top.die]
Running(function) == /\ ~ aborted /\ stack # << >> /\ Top.function = function
Waiting     == answer # << >>
Answer      == Head(answer)

Push(call)  == stack' = << call >> \o stack /\ answer' = << >>

\* Faulty variant: what getDieAndSiblings ignores is left for the next call.
ReturnAlways(symbol, dims) ==
  stack' = Tail(stack) /\ answer' = << [symbol |-> symbol, dims |-> dims] >>

\* A call answers the one below it; getDieAndSiblings ignores its answer.
Return(symbol, dims) ==
  /\ stack' = Tail(stack)
  /\ answer' = IF Len(stack) = 1 THEN << >>
               ELSE << [symbol |-> symbol, dims |-> dims] >>

TailCall(call) == stack' = << call >> \o Tail(stack) /\ answer' = << >>

\* Calls of libdwarf fail in this step: one or more of them.
Fail == errors < MaxErrors /\ errors' = errors + 1

-----------------------------------------------------------------------------
(* The in-memory model.                                                    *)

NewSymbol(size, target) ==
  [size |-> size, target |-> target, fields |-> << >>, enumerators |-> << >>]

With(name, symbol) ==
  [n \in DOMAIN symbols \cup {name} |-> IF n = name THEN symbol ELSE symbols[n]]

\* Faulty variant: a typedef that is found gets its target again.
AddSymbolAgain(name, size, target) ==
  IF name \in DOMAIN symbols THEN [symbols EXCEPT ![name].target = target]
  ELSE With(name, NewSymbol(size, target))

\* ElfFile::addSymbol: the first symbol of a name stays.
AddSymbol(name, size, target) ==
  IF name \in DOMAIN symbols THEN symbols ELSE With(name, NewSymbol(size, target))

\* Symbol::addField: so does the first field.
AddField(fields, f) ==
  IF \E k \in DOMAIN fields : fields[k].name = f.name THEN fields
  ELSE Append(fields, f)

-----------------------------------------------------------------------------
(* getDieAndSiblings comes to a DIE.  DIEs that have no name, or whose tag *)
(* or name cannot be read, and variables whose type leads to no name, it   *)
(* passes over.                                                            *)

\* Whether the size could be read is not looked at.
VisitStruct(d) ==
  /\ \/ /\ Dies[d].size # Null
        /\ symbols' = AddSymbol(Dies[d].name, Dies[d].size, Null) /\ UNCHANGED errors
     \/ /\ \E size \in Junk : symbols' = AddSymbol(Dies[d].name, size, Null)
        /\ IF Dies[d].size = Null THEN UNCHANGED errors ELSE Fail
  /\ Push(FillStruct(d, Dies[d].name))

VisitDie(d) ==
  /\ ~ aborted /\ stack = << >> /\ d \in todo
  /\ todo' = todo \ {d}
  /\ \/ /\ Dies[d].tag = "structure_type" /\ VisitStruct(d)
     \/ /\ Dies[d].tag \in {"base_type", "typedef"}
        /\ Push(Call(Dies[d].tag, d)) /\ UNCHANGED << symbols, errors >>
     \/ /\ Dies[d].tag = "variable" /\ UNCHANGED << symbols, errors >>
        /\ IF Dies[d].name # "" /\ FirstAncestorName[d] # Null
           THEN Push(Call("variable", d)) ELSE UNCHANGED << stack, answer >>
     \/ Fail /\ UNCHANGED << symbols, stack, answer >>
  /\ UNCHANGED << variables, aborted >>

-----------------------------------------------------------------------------
(* getBaseTypeSymbol: the symbol for the type of the DIE it is called for, *)
(* which may be made under that DIE's own name.                            *)

Type      == Dies[TopDie.type]
AtType(tags) == /\ Running("type") /\ TopDie.type # Null /\ Type.tag \in tags

\* There is no type, or an attribute on the way to it cannot be read.
NoType ==
  /\ Running("type") /\ ~ Waiting
  /\ Return(Null, << >>)
  /\ \/ TopDie.type = Null /\ UNCHANGED errors
     \/ TopDie.type # Null /\ Type.tag = "other" /\ UNCHANGED errors
     \/ Fail
  /\ UNCHANGED << elfVars, todo, aborted >>

\* process_DW_TAG_pointer_type: named by the first name it leads to; what it
\* points to is not read.  When its type cannot be read it is taken for one
\* to void; then getFirstAncestorName forgets that, whether or not it finds
\* the name, and the symbol of that name may be added as well and answered.
AddPointers(names, size) ==
  [n \in DOMAIN symbols \cup names |->
     IF n \in DOMAIN symbols THEN symbols[n] ELSE NewSymbol(size, Null)]

PointerType ==
  LET pointee == FirstAncestorName[TopDie.type]
      named   == IF pointee = Null THEN {} ELSE {PointerTo(pointee)}
  IN  /\ AtType({"pointer_type"})
      /\ IF Type.size = Null
         THEN Return(Null, << >>) /\ UNCHANGED << symbols, errors >>
         ELSE \E names \in SUBSET ({"void*"} \cup named) :
                /\ \/ /\ names = IF Type.type = Null THEN {"void*"} ELSE named
                      /\ UNCHANGED errors
                   \/ Fail
                /\ symbols' = AddPointers(names, Type.size)
                /\ \/ \E n \in names \cap named : Return(n, << >>)
                   \/ names \cap named = {} /\ "void*" \in names /\ Return("void*", << >>)
                   \/ names = {} /\ Return(Null, << >>)
      /\ UNCHANGED << variables, todo, aborted >>

\* Faulty variant: the DIE that refers to it comes first.
TypeNameOfUser == IF TopDie.name # "" THEN TopDie.name ELSE Type.name

\* The name of a struct or enumeration, or of the DIE that refers to it.
TypeName == IF Type.name # "" THEN Type.name ELSE TopDie.name

\* That name, if calls fail: when the type cannot be asked whether it has one,
\* the next answer overwrites the error and the DIE that refers to it is
\* asked.  "": no name, or it cannot be read.
TypeNames == {TypeName, TopDie.name, ""}

\* A struct without a size or any name, or whose name or size cannot be read,
\* gives the symbol "".  One that is met through a DIE without
\* DW_AT_decl_file, such as an array, gives none, nor does one whose
\* DW_AT_decl_file cannot be read.
StructType ==
  /\ AtType({"structure_type"})
  /\ \E name \in TypeNames, file \in {TopDie.decl_file, FALSE} :
       /\ \/ name = TypeName /\ file = TopDie.decl_file /\ UNCHANGED errors
          \/ Fail
       /\ \/ /\ name = "" \/ Type.size = Null
             /\ symbols' = AddSymbol("", 0, Null) /\ Return("", << >>)
          \/ /\ name # "" /\ Type.size # Null /\ file
             /\ symbols' = AddSymbol(name, Type.size, Null)
             /\ TailCall(FillStruct(TopDie.type, name))
          \/ /\ name # "" /\ Type.size # Null /\ ~ file
             /\ Return(Null, << >>) /\ UNCHANGED symbols
  /\ UNCHANGED << variables, todo, aborted >>

\* Faulty variant: the loop ends before the last one is added.
WithoutLastEnumerator(table, name, count) ==
  [table EXCEPT ![name].enumerators =
     @ \o [ k \in 1 .. count - 1 |-> [Type.enumerators[k] EXCEPT !.value = ToInt32(@)] ]]

\* process_DW_TAG_enumeration_type: `count' enumerators are appended, whether
\* or not they are there.
WithEnumerators(table, name, count) ==
  [table EXCEPT ![name].enumerators =
     @ \o [ k \in 1 .. count |-> [Type.enumerators[k] EXCEPT !.value = ToInt32(@)] ]]

\* Without a name, or when its name or size cannot be read, there is no
\* symbol; any other failure ends the loop over the enumerators.
EnumType ==
  /\ AtType({"enumeration_type"})
  /\ \E name \in TypeNames, count \in 0 .. Len(Type.enumerators) :
       /\ \/ name = TypeName /\ count = Len(Type.enumerators) /\ UNCHANGED errors
          \/ Fail
       /\ IF name = "" THEN Return(Null, << >>) /\ UNCHANGED symbols
          ELSE /\ Return(name, << >>)
               /\ symbols' = WithEnumerators(AddSymbol(name, Type.size, Null), name, count)
  /\ UNCHANGED << variables, todo, aborted >>

\* A union is read like a base type.
BaseType ==
  /\ AtType({"base_type", "union_type"})
  /\ TailCall(Call("base_type", TopDie.type))
  /\ UNCHANGED << elfVars, todo, errors, aborted >>

TypedefType ==
  /\ AtType({"typedef"})
  /\ TailCall(Call("typedef", TopDie.type))
  /\ UNCHANGED << elfVars, todo, errors, aborted >>

\* Faulty variant: the dimensions are those of the element.
DimensionsOfElement ==
  /\ AtType({"array_type", "const_type"})
  /\ IF Waiting
     THEN IF Type.tag = "array_type" THEN Return(Answer.symbol, Answer.dims)
          ELSE Return(Null, << >>)
     ELSE Push(Call("type", TopDie.type))
  /\ UNCHANGED << elfVars, todo, errors, aborted >>

\* Faulty variant: since its answer is not used, const is never done with it.
ConstAsksAgain ==
  /\ AtType({"array_type", "const_type"})
  /\ IF Waiting /\ Type.tag = "array_type" THEN Return(Answer.symbol, Type.dims)
     ELSE Push(Call("type", TopDie.type))
  /\ UNCHANGED << elfVars, todo, errors, aborted >>

\* getDimList: a bound that cannot be read counts as 0 less 1, and children
\* that cannot be had are left out.
PartlyRead(dims) ==
  { [ k \in 1 .. count |-> IF k \in unread THEN Range32 - 1 ELSE dims[k] ] :
      count \in 0 .. Len(dims), unread \in SUBSET DOMAIN dims }

\* An array answers its element type and its own dimensions; what a const
\* type stands for is read, and not used.
ElementType ==
  /\ AtType({"array_type", "const_type"})
  /\ IF ~ Waiting THEN Push(Call("type", TopDie.type)) /\ UNCHANGED errors
     ELSE \/ Type.tag = "const_type" /\ Return(Null, << >>) /\ UNCHANGED errors
          \/ Type.tag = "array_type" /\ Return(Answer.symbol, Type.dims) /\ UNCHANGED errors
          \/ /\ Type.tag = "array_type" /\ Fail
             /\ \E dims \in PartlyRead(Type.dims) : Return(Answer.symbol, dims)
  /\ UNCHANGED << elfVars, todo, aborted >>

-----------------------------------------------------------------------------
(* The functions that process one kind of DIE.                             *)

\* Faulty variant: a base type is answered, and not added.
BaseTypeNotAdded ==
  /\ Running("base_type")
  /\ Return(IF TopDie.tag = "union_type" THEN Null ELSE TopDie.name, << >>)
  /\ UNCHANGED << elfVars, todo, errors, aborted >>

\* A symbol of that name is taken as it is, whatever it is of; a name that
\* cannot be read is "".  A union has no encoding and is not added, nor is
\* a base type whose encoding cannot be read.  When its size or only its
\* name cannot be read, a null pointer is used.
ProcessBaseType ==
  /\ Running("base_type")
  /\ \/ \E name \in {TopDie.name, ""} \cap DOMAIN symbols :
          /\ IF name = TopDie.name THEN UNCHANGED errors ELSE Fail
          /\ Return(name, << >>) /\ UNCHANGED << symbols, aborted >>
     \/ /\ TopDie.name \notin DOMAIN symbols /\ TopDie.tag = "union_type"
        /\ Return(Null, << >>) /\ UNCHANGED << symbols, errors, aborted >>
     \/ /\ TopDie.name \notin DOMAIN symbols /\ TopDie.tag = "base_type"
        /\ symbols' = AddSymbol(TopDie.name, TopDie.size, Null)
        /\ Return(TopDie.name, << >>) /\ UNCHANGED << errors, aborted >>
     \/ /\ {TopDie.name, ""} \ DOMAIN symbols # {} /\ Fail
        /\ Return(Null, << >>) /\ UNCHANGED << symbols, aborted >>
     \/ /\ {TopDie.name, ""} \ DOMAIN symbols # {} /\ TopDie.tag = "base_type"
        /\ Fail /\ aborted' = TRUE /\ UNCHANGED << symbols, stack, answer >>
  /\ UNCHANGED << variables, todo >>

\* Faulty variant: byteSize stays what it is initialized to.
SizeNotRead(symbol) == 0

SizeOf(symbol) == symbols[symbol].size

\* The dimensions of an array are not kept; a typedef without
\* DW_AT_decl_file, or whose DW_AT_decl_file cannot be read, or without a
\* symbol for its type is not added.
ProcessTypedef ==
  /\ Running("typedef")
  /\ IF ~ Waiting THEN Push(Call("type", Top.die)) /\ UNCHANGED << symbols, errors >>
     ELSE \/ /\ Answer.symbol # Null /\ TopDie.decl_file
             /\ symbols' = AddSymbol(TopDie.name, SizeOf(Answer.symbol), Answer.symbol)
             /\ Return(TopDie.name, << >>) /\ UNCHANGED errors
          \/ /\ IF Answer.symbol = Null \/ ~ TopDie.decl_file THEN UNCHANGED errors ELSE Fail
             /\ Return(Null, << >>) /\ UNCHANGED symbols
  /\ UNCHANGED << variables, todo, aborted >>

\* The members in turn; see StructFields for where they are placed.  A member
\* that cannot be read is like one without a symbol for its type; when the
\* next one cannot be had the loop ends.
ProcessStruct ==
  /\ Running("structure_type")
  /\ LET next == Top.next
         m == Dies[TopDie.members[next]]
     IN  \/ /\ next > Len(TopDie.members)
            /\ Return(Top.symbol, << >>) /\ UNCHANGED << symbols, errors >>
         \/ /\ next <= Len(TopDie.members) /\ ~ Waiting /\ Fail
            /\ Return(Top.symbol, << >>) /\ UNCHANGED symbols
         \/ /\ next <= Len(TopDie.members) /\ ~ Waiting
            /\ Push(Call("type", TopDie.members[next])) /\ UNCHANGED << symbols, errors >>
         \/ /\ next <= Len(TopDie.members) /\ Waiting
            /\ TailCall([Top EXCEPT !.next = @ + 1]) /\ UNCHANGED errors
            /\ symbols' = IF Answer.symbol = Null THEN symbols
                          ELSE [symbols EXCEPT ![Top.symbol].fields =
                                  AddField(@, [ name |-> m.name, type |-> Answer.symbol,
                                                dims |-> Answer.dims ])]
  /\ UNCHANGED << variables, todo, aborted >>

ProcessVariable ==
  /\ Running("variable")
  /\ IF ~ Waiting THEN Push(Call("type", Top.die)) /\ UNCHANGED variables
     ELSE /\ Return(Null, << >>)
          /\ variables' = IF Answer.symbol = Null THEN variables
               ELSE Append(variables, [name |-> TopDie.name, type |-> Answer.symbol])
  /\ UNCHANGED << symbols, todo, errors, aborted >>

-----------------------------------------------------------------------------
Init ==
  /\ symbols = << >> /\ variables = << >>
  /\ todo = {d \in DOMAIN Dies : IsVisited(d)}
  /\ stack = << >> /\ answer = << >> /\ errors = 0 /\ aborted = FALSE

Next ==
  \/ \E d \in DOMAIN Dies : VisitDie(d)
  \/ NoType \/ PointerType \/ StructType \/ EnumType
  \/ BaseType \/ TypedefType \/ ElementType
  \/ ProcessBaseType \/ ProcessTypedef \/ ProcessStruct \/ ProcessVariable

Spec == Init /\ [][Next]_vars

\* One thread, which runs until it ends.
FairSpec == Spec /\ WF_vars(Next)

-----------------------------------------------------------------------------
(* What the DIEs mean.                                                     *)

\* Typedefs and arrays are of a type in the end: C has no circle of them.
ASSUME ChainsAssumption ==
  LET leadOn == {d \in DOMAIN Dies : /\ Dies[d].type # Null
                                      /\ Dies[Dies[d].type].tag \in {"typedef", "array_type"}}
  IN  \A S \in SUBSET leadOn : S # {} => \E d \in S : Dies[d].type \notin S

\* No name is spelled like that of the symbol of a pointer.
ASSUME NamesAssumption ==
  \A d \in DOMAIN Dies :
    /\ Dies[d].name # "void*"
    /\ \A e \in DOMAIN Dies :
         FirstAncestorName[e] # Null => Dies[d].name # PointerTo(FirstAncestorName[e])

\* The symbol for the type of d, if m is that for the type of this type.
Meant(d, m) ==
  LET t == Dies[d].type
      T == Dies[t]
      name == IF T.name # "" THEN T.name ELSE Dies[d].name
  IN  IF t = Null THEN Null
      ELSE CASE T.tag = "base_type" -> T.name
             [] T.tag = "typedef" -> IF T.decl_file /\ m # Null THEN T.name ELSE Null
             [] T.tag = "structure_type" ->
                  IF name = "" \/ T.size = Null THEN ""
                  ELSE IF Dies[d].decl_file THEN name ELSE Null
             [] T.tag = "enumeration_type" -> IF name = "" THEN Null ELSE name
             [] T.tag = "pointer_type" ->
                  IF T.size = Null THEN Null
                  ELSE IF T.type = Null THEN "void*"
                  ELSE IF FirstAncestorName[t] = Null THEN Null
                  ELSE PointerTo(FirstAncestorName[t])
             [] T.tag = "array_type" -> m
             [] OTHER -> Null

\* That symbol, whatever was read before: that of a union is left open.
Meaning[d \in DOMAIN Dies] == Meant(d, Meaning[Dies[d].type])

\* Does the type of d lead to a union?
LeadsToUnion[d \in DOMAIN Dies] ==
  LET t == Dies[d].type
  IN  /\ t # Null
      /\ \/ Dies[t].tag = "union_type"
         \/ Dies[t].tag \in {"typedef", "array_type"} /\ LeadsToUnion[t]

\* The DIEs that put symbols under names that other DIEs have, too, and the
\* names under which DIE d may put one.
Makers == {"base_type", "typedef", "structure_type", "enumeration_type"}

NamesOf(d) ==
  IF Dies[d].tag \in {"structure_type", "enumeration_type"} /\ Dies[d].name = ""
  THEN {Dies[e].name : e \in {f \in DOMAIN Dies : Dies[f].type = d}}
  ELSE {Dies[d].name}

\* No other DIE puts a symbol under name n of d, except typedefs of a struct
\* or enumeration d, which is there before them if it has a size.
Owns(d, n) ==
  /\ n # "" /\ n \in NamesOf(d)
  /\ \A e \in DOMAIN Dies \ {d} :
       Dies[e].tag \in Makers /\ n \in NamesOf(e) =>
         /\ Dies[e].tag = "typedef" /\ Dies[e].type = d
         /\ Dies[d].tag # "typedef" /\ Dies[d].size # Null

\* The typedefs whose symbol can be told from theirs alone.
PlainTypedefs ==
  {d \in DOMAIN Dies : /\ Dies[d].tag = "typedef" /\ Owns(d, Dies[d].name)
                       /\ ~ LeadsToUnion[d]}

\* The structs with no unions in them.  The members of a struct have names
\* of their own.
PlainStructs ==
  {d \in DOMAIN Dies :
     LET ms == Dies[d].members
     IN  /\ Dies[d].tag = "structure_type"
         /\ \A k \in DOMAIN ms : ~ LeadsToUnion[ms[k]]
         /\ \A j, k \in DOMAIN ms : Dies[ms[j]].name = Dies[ms[k]].name => j = k}

Enumerations == {d \in DOMAIN Dies : Dies[d].tag = "enumeration_type"}

\* The dimensions that the type of d brings.
DimsAt(d) == IF Dies[d].type # Null /\ Dies[Dies[d].type].tag = "array_type"
             THEN Dies[Dies[d].type].dims ELSE << >>

\* The fields that the first k members of d mean, for each k.
MeantField(m) == [name |-> Dies[m].name, type |-> Meaning[m], dims |-> DimsAt(m)]

AndMeantField(fields, m) ==
  IF Meaning[m] = Null THEN fields ELSE Append(fields, MeantField(m))

MeantFields(d) ==
  LET upto[k \in 0 .. Len(Dies[d].members)] ==
        IF k = 0 THEN << >> ELSE AndMeantField(upto[k - 1], Dies[d].members[k])
  IN  upto

Done == stack = << >> /\ todo = {} /\ ~ aborted
Read == Done /\ errors = 0

-----------------------------------------------------------------------------
(* Properties.                                                             *)

IsSymbol(s) ==
  /\ s.size \in Nat
  /\ s.fields \in Seq(Range(s.fields)) /\ s.enumerators \in Seq(Range(s.enumerators))

\* The variables stay in their types; a call has an answer to use only if it
\* waits for one.
TypeOK ==
  /\ \A n \in DOMAIN symbols : IsSymbol(symbols[n])
  /\ todo \subseteq DOMAIN Dies
  /\ \A k \in DOMAIN stack : stack[k].die \in DOMAIN Dies
  /\ Waiting => stack # << >> /\ Top.function # "base_type"
  /\ errors \in 0 .. MaxErrors /\ aborted \in BOOLEAN

\* Every symbol that a typedef, a field or a variable refers to is in the
\* ElfFile: what the writer needs to store their foreign keys.
ReferencesAreStored ==
  /\ \A n \in DOMAIN symbols :
       /\ symbols[n].target # Null => symbols[n].target \in DOMAIN symbols
       /\ \A k \in DOMAIN symbols[n].fields :
            symbols[n].fields[k].type \in DOMAIN symbols
  /\ \A k \in DOMAIN variables : variables[k].type \in DOMAIN symbols

\* The target of a typedef was there before it and is never changed: the
\* chain of targets ends, whatever DIEs share a name.
TypedefsNameEarlierSymbols ==
  [][ \A n \in DOMAIN symbols' :
        IF n \in DOMAIN symbols THEN symbols'[n].target = symbols[n].target
        ELSE symbols'[n].target # Null => symbols'[n].target \in DOMAIN symbols ]_vars

\* A typedef has the size of its target, also when that was made before its
\* definition was read: sizes do not change any more.
TypedefHasSizeOfTarget ==
  \A n \in DOMAIN symbols :
    symbols[n].target # Null => symbols[n].size = symbols[symbols[n].target].size

\* In whatever order the DIEs are read, as long as no call failed, a typedef
\* that is there names what its type means, and in the end it is there just if
\* that is a symbol.  This is so of typedefs that do not lead to a union.
TypedefsNameTheirTypes ==
  errors = 0 =>
    \A d \in PlainTypedefs :
      /\ Dies[d].name \in DOMAIN symbols => symbols[Dies[d].name].target = Meaning[d]
      /\ Done => (Dies[d].name \in DOMAIN symbols)
                   = (Dies[d].decl_file /\ Meaning[d] # Null)

\* So with the fields of a struct, under each name it has: those members whose
\* type means a symbol, in the order of the members, each with the dimensions
\* of its array, however often and from wherever the struct was read.
FieldsNameTheirTypes ==
  Read => \A d \in PlainStructs : \A n \in NamesOf(d) : Owns(d, n) =>
    /\ n = Dies[d].name => n \in DOMAIN symbols
    /\ n \in DOMAIN symbols =>
         symbols[n].fields = MeantFields(d)[Len(Dies[d].members)]

\* However often it was read, the symbol of an enumeration has its
\* enumerators and no others, with the values of those that fit an int32_t.
EnumeratorsAreTheDies ==
  Read => \A d \in Enumerations : \A n \in NamesOf(d) :
    LET meant  == Range(Dies[d].enumerators)
        stored == Range(symbols[n].enumerators)
    IN  Owns(d, n) /\ n \in DOMAIN symbols =>
          /\ {f.name : f \in stored} = {f.name : f \in meant}
          /\ \A f \in meant :
               f.value \in -(Range32 \div 2) .. (Range32 \div 2) - 1 => f \in stored

\* Reading ends, though types refer to each other in circles.
ReadingEnds == <>(Done \/ aborted)
=============================================================================
