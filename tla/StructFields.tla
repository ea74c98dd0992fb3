---------------------------- MODULE StructFields ----------------------------
(***************************************************************************)
(* How juicer turns the struct DIEs of one ELF file into symbols with      *)
(* fields (src/Juicer.cpp: the DW_TAG_structure_type cases of              *)
(* getDieAndSiblings and getBaseTypeSymbol, process_DW_TAG_structure_type, *)
(* addPaddingToStruct and addPaddingEndToStruct).                          *)
(*                                                                         *)
(* Every struct DIE is visited once by the traversal of its compilation    *)
(* unit and again each time a member has it as its type, so one symbol is  *)
(* usually read several times, sometimes while another struct is half      *)
(* read: the call stack is part of the state.  Symbols are found by name,  *)
(* so DIEs of the same name share one symbol.                              *)
(***************************************************************************)
EXTENDS Integers, Sequences, SequencesExt

CONSTANTS
  Dies,       \* the struct DIEs: a function from ids to DIE records
  Absent,     \* an attribute that a DIE does not have
  Junk,       \* what the uninitialized byteSize of getDieAndSiblings may hold
  Modulus,    \* 2^32: the code computes sizes and offsets in uint32_t
  MaxErrors   \* bound: calls of dwarf_siblingof that fail

-----------------------------------------------------------------------------
(* The debug information.                                                  *)

\* The type of a field is the name of a struct symbol or one of these, for
\* any other symbol; no struct of an instance has such a name.
Markers == {"leaf", "padding"}

Names == STRING \ (Markers \cup {""})

\* What getBaseTypeSymbol makes of a member's type: a symbol that is there
\* or is made at once ("leaf": base type, enumeration, pointer), a null
\* pointer ("none": volatile, class, reference, union, or a struct met through
\* a DIE without DW_AT_decl_file, such as an array or const), or a struct DIE
\* to read.  What a const type stands for is read too, and not used.
IsMember(m) ==
  /\ m.tag \in {"member", "other"}
  /\ m.name \in Names \cup {""}              \* "": no DW_AT_name
  /\ m.location \in Nat \cup {Absent}
  /\ m.type \in {"leaf", "none"} \cup DOMAIN Dies
  /\ m.alias \in Names \cup {""}             \* the typedef it is named by, or ""
  /\ m.constant \in BOOLEAN
  /\ m.constant /\ m.type \in DOMAIN Dies => m.alias # ""
  /\ m.size \in Nat                         \* byte size of a leaf
  /\ m.dims \in Seq(0 .. Modulus - 1)       \* upper bounds; see getDimList
  /\ m.bit_size \in Nat
  /\ m.bit_offset \in Nat \cup {Absent}

IsDie(d) == /\ d.name \in Names \cup {""}    \* "": no DW_AT_name
            /\ d.byte_size \in {Absent} \cup 0 .. Modulus - 1
            \* A declaration (struct X;) has no size and no members, and
            \* nothing is a member by value of its type.
            /\ d.byte_size = Absent => d.members = << >>
            /\ d.typedefs \subseteq Names
            /\ d.members \in Seq(Range(d.members))
            /\ \A k \in DOMAIN d.members :
                 /\ IsMember(d.members[k])
                 /\ d.members[k].type \in DOMAIN Dies =>
                      Dies[d.members[k].type].byte_size # Absent

ASSUME DiesAssumption ==
  /\ Absent \notin Nat
  /\ \A d \in DOMAIN Dies : IsDie(Dies[d]) /\ d \notin {"leaf", "none"}
ASSUME BoundsAssumption ==
  /\ Modulus \in Nat \ {0} /\ MaxErrors \in Nat
  /\ Junk \subseteq 0 .. Modulus - 1 /\ Junk # {}

\* A typedef that names the struct of a member leads to one symbol wherever
\* its name is used, and so has the size of this symbol, which a field of its
\* type is given here in its place.  Of homonyms that lead to different ones
\* the code keeps the first, with its size; they are left out.
ASSUME TypedefsAssumption ==
  \A d \in DOMAIN Dies : \A m \in Range(Dies[d].members) :
    m.type \in DOMAIN Dies /\ m.alias # "" =>
      /\ \A e \in DOMAIN Dies :
           /\ m.alias \in Dies[e].typedefs =>
                Dies[e].byte_size # Absent /\ Dies[e].name = Dies[m.type].name
           /\ m.alias = Dies[e].name => Dies[m.type].name \in {"", m.alias}
           /\ \A n \in Range(Dies[e].members) :
                n.type \in DOMAIN Dies /\ n.alias = m.alias =>
                  Dies[n.type].name = Dies[m.type].name

\* What calcArraySizeForDimension() - 1 is for a subrange without an upper
\* bound, as in a flexible array member: 0 - 1 in uint32_t.
NoUpperBound == Modulus - 1

-----------------------------------------------------------------------------
VARIABLES
  symbols,    \* struct symbols: name -> [byte_size, fields]
  paddings,   \* padding types: the bits in the name -> byte size
  todo,       \* DIEs that getDieAndSiblings has yet to visit: << d, "" >> a
              \* struct DIE, << d, name >> a typedef DIE of it
  stack,      \* the calls of process_DW_TAG_structure_type, innermost first
  read,       \* history: << DIE, symbol >> of the readings that were complete
  errors      \* failed calls so far, for the bound MaxErrors

vars == << symbols, paddings, todo, stack, read, errors >>

\* The name of the symbol for struct DIE d, met through a DIE named `via'.
SymbolName(d, via) == IF Dies[d].name # "" THEN Dies[d].name ELSE via

Minus(a, b) == (a - b) % Modulus
Plus(a, b)  == (a + b) % Modulus
Times(a, b) == (a * b) % Modulus

\* Field::isArray() and Field::getArraySize().
IsArray(f)   == f.dims # << >>
ArraySize(f) ==
  IF IsArray(f) THEN FoldLeft(LAMBDA n, ub : Times(n, Plus(ub, 1)), 1, f.dims)
  ELSE 0

IsBitField(f) == f.bit_size > 0 /\ f.bit_offset > 0
HasBitFields(fields) == \E k \in DOMAIN fields : IsBitField(fields[k])

\* Faulty variant: a field is added whether or not it is there.
AddFieldAgain(fields, f) == Append(fields, f)

\* Symbol::addField: the first field of a name stays.
AddField(fields, f) ==
  IF \E k \in DOMAIN fields : fields[k].name = f.name THEN fields
  ELSE Append(fields, f)

\* What dwarf_bytesize leaves in byteSize.
SizesRead(d) == IF Dies[d].byte_size = Absent THEN Junk ELSE {Dies[d].byte_size}

\* ElfFile::addSymbol: so does the first symbol of a name.
AddSymbol(name, size) ==
  symbols' = IF name \in DOMAIN symbols THEN symbols
             ELSE [ n \in DOMAIN symbols \cup {name} |->
                      IF n = name THEN [byte_size |-> size, fields |-> << >>]
                      ELSE symbols[n] ]

\* Faulty variant: the size of the type is taken from its name.
AddPaddingTypeInBits(size) ==
  LET bits == Times(size, 8)
  IN  paddings' = [ b \in DOMAIN paddings \cup {bits} |->
                      IF b \in DOMAIN paddings THEN paddings[b] ELSE bits ]

\* The padding type for a number of bytes: its name has the number of bits.
AddPaddingType(size) ==
  LET bits == Times(size, 8)
  IN  paddings' = [ b \in DOMAIN paddings \cup {bits} |->
                      IF b \in DOMAIN paddings THEN paddings[b] ELSE size ]

PaddingSize(size) ==
  LET bits == Times(size, 8)
  IN  IF bits \in DOMAIN paddings THEN paddings[bits] ELSE size

-----------------------------------------------------------------------------
(* Calls.                                                                  *)

\* A call for DIE d that fills the symbol `name'.  In phase "gaps" the
\* for loop of addPaddingToStruct is at position i (from 1) of `count'
\* fields and has made `spares' of them.
Frame(d, name) ==
  [ die |-> d, symbol |-> name, phase |-> "members", next |-> 1,
    i |-> 0, count |-> 0, spares |-> 0 ]

Top     == Head(stack)
Fields  == symbols[Top.symbol].fields
Members == Dies[Top.die].members

Goto(frame) == stack' = << frame >> \o Tail(stack)

SetFields(fields) ==
  symbols' = [symbols EXCEPT ![Top.symbol].fields = fields]

\* getDieAndSiblings comes to a struct DIE.  One without a name is left to
\* those that refer to it; a declaration leaves byteSize uninitialized.
VisitStruct(d) ==
  /\ stack = << >> /\ << d, "" >> \in todo
  /\ todo' = todo \ {<< d, "" >>}
  /\ IF Dies[d].name = ""
     THEN UNCHANGED << symbols, stack >>
     ELSE /\ \E size \in SizesRead(d) : AddSymbol(Dies[d].name, size)
          /\ stack' = << Frame(d, Dies[d].name) >>
  /\ UNCHANGED << paddings, read, errors >>

\* It comes to a typedef of a struct, and process_DW_TAG_typedef calls
\* getBaseTypeSymbol, which makes a symbol "" of a declaration.
VisitTypedef(d, via) ==
  /\ stack = << >> /\ via # "" /\ << d, via >> \in todo
  /\ todo' = todo \ {<< d, via >>}
  /\ IF Dies[d].byte_size = Absent
     THEN AddSymbol("", 0) /\ UNCHANGED stack
     ELSE /\ AddSymbol(SymbolName(d, via), Dies[d].byte_size)
          /\ stack' = << Frame(d, SymbolName(d, via)) >>
  /\ UNCHANGED << paddings, read, errors >>

-----------------------------------------------------------------------------
(* process_DW_TAG_structure_type: one iteration per child of the DIE.      *)

\* addBitFields: DW_AT_bit_offset only counts beside DW_AT_bit_size, and
\* DW_AT_data_bit_offset is not read.
BitOffset(m) == IF m.bit_size = 0 \/ m.bit_offset = Absent THEN 0
                ELSE m.bit_offset

NewField(m, type, size) ==
  [ name |-> m.name, offset |-> m.location % Modulus, type |-> type,
    size |-> size, dims |-> m.dims, bit_size |-> m.bit_size,
    bit_offset |-> BitOffset(m) ]

\* The children whose type is looked for, those that have a struct read, and
\* those that become fields.
HasPlace(m)   == m.tag = "member" /\ m.name # "" /\ m.location # Absent
IsOfStruct(m) == HasPlace(m) /\ m.type \in DOMAIN Dies
Readable(m)   == HasPlace(m) /\ m.type # "none" /\ ~ m.constant

AtMember == /\ stack # << >> /\ Top.phase = "members"
            /\ Top.next <= Len(Members)

\* Faulty variant: memberDie is not moved on.
SameMember == Top

NextMember == [Top EXCEPT !.next = @ + 1]

\* Faulty variant: the loop ends at a child that cannot be read, as that of
\* process_DW_TAG_enumeration_type does.
SkipTheRest ==
  /\ AtMember /\ ~ Readable(Members[Top.next]) /\ ~ IsOfStruct(Members[Top.next])
  /\ Goto([Top EXCEPT !.next = Len(Members) + 1])
  /\ UNCHANGED << symbols, paddings, todo, read, errors >>

\* Whatever stopped the reading of this child, the loop goes on.
SkipMember ==
  /\ AtMember /\ ~ Readable(Members[Top.next]) /\ ~ IsOfStruct(Members[Top.next])
  /\ Goto(NextMember)
  /\ UNCHANGED << symbols, paddings, todo, read, errors >>

ReadMember ==
  /\ AtMember
  /\ LET m == Members[Top.next]
     IN  /\ Readable(m) /\ m.type = "leaf"
         /\ SetFields(AddField(Fields, NewField(m, "leaf", m.size)))
  /\ Goto(NextMember)
  /\ UNCHANGED << paddings, todo, read, errors >>

\* Faulty variant: the struct itself is left for getDieAndSiblings to read.
EnterStructLater ==
  /\ AtMember
  /\ LET m == Members[Top.next]
         d == m.type
         name == SymbolName(d, IF m.alias # "" THEN m.alias ELSE m.name)
         f == NewField(m, name, Dies[d].byte_size)
     IN  /\ IsOfStruct(m) /\ ~ m.constant
         /\ symbols' = [ n \in DOMAIN symbols \cup {name} |->
              IF n = Top.symbol THEN [symbols[n] EXCEPT !.fields = AddField(@, f)]
              ELSE IF n \in DOMAIN symbols THEN symbols[n]
              ELSE [byte_size |-> Dies[d].byte_size, fields |-> << >>] ]
         /\ Goto(NextMember)
  /\ UNCHANGED << paddings, todo, read, errors >>

\* The type of the member is a struct: getBaseTypeSymbol first reads that,
\* under the name of the typedef or the member when it has none of its own.
EnterStruct ==
  /\ AtMember
  /\ LET m == Members[Top.next]
         d == m.type
         name == SymbolName(d, IF m.alias # "" THEN m.alias ELSE m.name)
     IN  /\ IsOfStruct(m)
         /\ AddSymbol(name, Dies[d].byte_size)
         /\ stack' = << Frame(d, name) >> \o stack
  /\ UNCHANGED << paddings, todo, read, errors >>

\* Faulty variant: the loop counts the children of the DIE.
LastMemberCountsChildren ==
  /\ stack # << >> /\ Top.phase = "members"
  /\ Members # << >> /\ Top.next > Len(Members)
  /\ Goto([Top EXCEPT !.phase = "gaps", !.i = 2, !.count = Len(Members)])
  /\ UNCHANGED << symbols, paddings, todo, read, errors >>

\* dwarf_siblingof finds no other child: the padding is next.
LastMember ==
  /\ stack # << >> /\ Top.phase = "members"
  /\ Members # << >> /\ Top.next > Len(Members)
  /\ Goto([Top EXCEPT !.phase = "gaps", !.i = 2,
             !.count = IF HasBitFields(Fields) THEN 0 ELSE Len(Fields)])
  /\ UNCHANGED << symbols, paddings, todo, read, errors >>

\* dwarf_siblingof fails after a child: no more children and no padding.
SiblingError ==
  /\ stack # << >> /\ Top.phase = "members" /\ Top.next > 1
  /\ errors < MaxErrors
  /\ errors' = errors + 1
  /\ Goto([Top EXCEPT !.phase = "done"])
  /\ UNCHANGED << symbols, paddings, todo, read >>

\* dwarf_child finds no child: the loop is left without a call of
\* addPaddingToStruct.
NoMembers ==
  /\ stack # << >> /\ Top.phase = "members" /\ Members = << >>
  /\ Goto([Top EXCEPT !.phase = "done"])
  /\ read' = read \cup {<< Top.die, Top.symbol >>}
  /\ UNCHANGED << symbols, paddings, todo, errors >>

-----------------------------------------------------------------------------
(* addPaddingToStruct: one iteration per pair of neighbours.               *)

Spare(n) == "_spare" \o ToString(n)

\* Faulty variant: the elements of an array are not counted.
ExtentOfElement(f) == f.size

\* The bytes a field takes, as the loop sees it.
Extent(f) == IF IsArray(f) THEN Times(ArraySize(f), f.size) ELSE f.size

SpareField(name, offset, size) ==
  [ name |-> name, offset |-> offset, type |-> "padding", size |-> size,
    dims |-> << >>, bit_size |-> 0, bit_offset |-> 0 ]

AtGap == stack # << >> /\ Top.phase = "gaps" /\ Top.i <= Top.count

\* Faulty variant: the spare takes the place of the next field.
ReplaceField(fields, i, f) == [fields EXCEPT ![i] = f]

\* vector::insert: nothing checks that the name is new.
InsertField(fields, i, f) == InsertAt(fields, i, f)

PadGap ==
  /\ AtGap
  /\ LET previous == Fields[Top.i - 1]
         delta == Minus(Fields[Top.i].offset, previous.offset)
         gap == Minus(delta, Extent(previous))
     IN  IF delta > Extent(previous)
         THEN /\ AddPaddingType(gap)
              /\ SetFields(InsertField(Fields, Top.i,
                   SpareField(Spare(Top.spares),
                     Plus(previous.offset, Extent(previous)), PaddingSize(gap))))
              /\ Goto([Top EXCEPT !.i = @ + 2, !.count = @ + 1, !.spares = @ + 1])
         ELSE /\ Goto([Top EXCEPT !.i = @ + 1])
              /\ UNCHANGED << symbols, paddings >>
  /\ UNCHANGED << todo, read, errors >>

\* addPaddingEndToStruct.  The size of the last field counts its elements,
\* its end does not.
PadEnd ==
  /\ stack # << >> /\ Top.phase = "gaps" /\ Top.i > Top.count
  /\ Goto([Top EXCEPT !.phase = "done"])
  /\ read' = read \cup {<< Top.die, Top.symbol >>}
  /\ IF Fields = << >> \/ HasBitFields(Fields)
     THEN UNCHANGED << symbols, paddings >>
     ELSE LET back == Last(Fields)
              size == IF ArraySize(back) > 0 THEN Times(back.size, ArraySize(back))
                      ELSE back.size
              delta == Minus(symbols[Top.symbol].byte_size, Plus(back.offset, size))
          IN  IF delta > 0
              THEN /\ AddPaddingType(delta)
                   /\ SetFields(AddField(Fields,
                        SpareField("_spare_end", Plus(back.offset, back.size),
                                   PaddingSize(delta))))
              ELSE UNCHANGED << symbols, paddings >>
  /\ UNCHANGED << todo, errors >>

\* The call returns.  If it came from getBaseTypeSymbol, the member that
\* needed the struct is added to the struct being read there; a const one is
\* not, since for it getBaseTypeSymbol answers a null pointer.
Return ==
  /\ stack # << >> /\ Top.phase = "done"
  /\ IF Len(stack) = 1
     THEN stack' = << >> /\ UNCHANGED symbols
     ELSE LET caller == stack[2]
              m == Dies[caller.die].members[caller.next]
              f == NewField(m, Top.symbol, symbols[Top.symbol].byte_size)
          IN  /\ stack' = << [caller EXCEPT !.next = @ + 1] >> \o Tail(Tail(stack))
              /\ symbols' = [symbols EXCEPT ![caller.symbol].fields =
                              IF m.constant THEN @ ELSE AddField(@, f)]
  /\ UNCHANGED << paddings, todo, read, errors >>

-----------------------------------------------------------------------------
\* What the traversal of all compilation units comes to.
Visits == UNION { {d} \X ({""} \cup Dies[d].typedefs) : d \in DOMAIN Dies }

Init ==
  /\ symbols = << >> /\ paddings = << >>
  /\ todo = Visits
  /\ stack = << >> /\ read = {} /\ errors = 0

Next ==
  \/ \E d \in DOMAIN Dies : VisitStruct(d)
  \/ \E t \in todo : VisitTypedef(t[1], t[2])
  \/ SkipMember \/ ReadMember \/ EnterStruct
  \/ LastMember \/ SiblingError \/ NoMembers
  \/ PadGap \/ PadEnd \/ Return

Spec == Init /\ [][Next]_vars

\* The reader is one thread that does nothing but this.
FairSpec == Spec /\ WF_vars(Next)

-----------------------------------------------------------------------------
(* What the debug information says, to state the properties with: the      *)
(* layout of a struct in unbounded numbers, from its DIE alone.            *)

\* The places of its data members among its children.
DataMembers(d) ==
  { k \in DOMAIN Dies[d].members : Dies[d].members[k].tag = "member" }

Elements(dims) == FoldLeft(LAMBDA n, ub : n * (ub + 1), 1, dims)
SizeOf(m) == IF m.type \in DOMAIN Dies THEN Dies[m.type].byte_size ELSE m.size
EndOf(m)  == m.location + Elements(m.dims) * SizeOf(m)

\* The symbol names a struct DIE is read under.
NamesOf(d) ==
  { SymbolName(d, via) :
      via \in Dies[d].typedefs \cup
              { IF m.alias # "" THEN m.alias ELSE m.name :
                  m \in { x \in UNION { Range(Dies[e].members) : e \in DOMAIN Dies } :
                            x.type = d } } }
  \cup ({Dies[d].name} \ {""})

DiesOf(n) == { d \in DOMAIN Dies : n \in NamesOf(d) }

Layout(d) ==
  << Dies[d].byte_size,
     { LET m == Dies[d].members[k] IN << m.name, m.location, SizeOf(m), m.dims >> :
         k \in DataMembers(d) } >>

\* A struct without what juicer is known not to handle: members that it
\* skips, bit fields, flexible arrays, an array before padding at the end.
Plain(d) ==
  LET ms == Dies[d].members
      ks == DataMembers(d)
      size == Dies[d].byte_size
  IN  /\ \A k \in ks :
           /\ Readable(ms[k]) /\ ms[k].bit_size = 0
           /\ NoUpperBound \notin Range(ms[k].dims)
           /\ ms[k].type \in DOMAIN Dies =>
                \A n \in NamesOf(ms[k].type) : \A e \in DiesOf(n) :
                  Dies[e].byte_size = Dies[ms[k].type].byte_size
           /\ EndOf(ms[k]) <= size
           /\ \A j \in ks : j < k =>
                ms[j].name # ms[k].name /\ EndOf(ms[j]) <= ms[k].location
           /\ ms[k].dims # << >> =>
                \/ EndOf(ms[k]) = size
                \/ \E j \in ks : j # k /\ EndOf(ms[k]) <= ms[j].location
      /\ \E k \in ks : ms[k].location = 0
      /\ size * 8 < Modulus

\* A symbol whose DIEs all agree on one plain layout.
PlainSymbol(n) ==
  \A d, e \in DiesOf(n) : Plain(d) /\ Layout(d) = Layout(e)

HasBeenRead(n) == \E r \in read : r[2] = n

FieldEnd(f) == f.offset + Elements(f.dims) * f.size
Bytes(f)    == f.offset .. (FieldEnd(f) - 1)

-----------------------------------------------------------------------------
(* Properties.                                                             *)

SymbolsOK ==
  /\ \A n \in DOMAIN symbols :
       /\ symbols[n].byte_size \in 0 .. Modulus - 1
       /\ \A k \in DOMAIN symbols[n].fields :
            LET f == symbols[n].fields[k]
            IN  /\ {f.offset, f.size, f.bit_size, f.bit_offset} \subseteq Nat
                /\ f.type \in Markers \cup DOMAIN symbols
  /\ \A b \in DOMAIN paddings : paddings[b] \in 1 .. Modulus - 1

CallsOK ==
  \A k \in DOMAIN stack :
    LET c == stack[k]
        fields == symbols[c.symbol].fields
    IN  /\ c.die \in DOMAIN Dies /\ c.symbol \in DOMAIN symbols
        /\ c.phase \in {"members", "gaps", "done"}
        /\ c.next \in 1 .. Len(Dies[c.die].members) + 1
        /\ c.phase = "gaps" => /\ c.i \in 2 .. Len(fields) + 2
                               /\ c.count \in {0, Len(fields)}
        /\ k > 1 => /\ c.phase = "members"
                    /\ c.next <= Len(Dies[c.die].members)

\* Symbols and padding types have the form the code gives them; the calls in
\* progress point into their DIEs and into the fields of their symbols, and
\* all but the innermost stand at a member whose type is being read.
TypeOK ==
  /\ SymbolsOK /\ CallsOK /\ todo \subseteq Visits
  /\ read \subseteq (DOMAIN Dies) \X (DOMAIN symbols) /\ errors \in 0 .. MaxErrors

\* addPaddingToStruct accounts for every byte: from the end of its first
\* complete reading on, the fields of a plain struct follow each other
\* without gap or overlap from byte 0 to its byte size, under different
\* names - also in the middle of any later reading of it.
FieldsTileStruct ==
  \A n \in DOMAIN symbols :
    PlainSymbol(n) /\ HasBeenRead(n) =>
      LET fs == symbols[n].fields
      IN  /\ fs[1].offset = 0
          /\ \A k \in 2 .. Len(fs) : fs[k].offset = FieldEnd(fs[k - 1])
          /\ FieldEnd(Last(fs)) = symbols[n].byte_size
          /\ \A j, k \in DOMAIN fs : fs[j].name = fs[k].name => j = k

\* Padding types are shared by all structs and found by a name that has the
\* number of their bits in uint32_t: what other structs have made, however odd
\* their gaps, never gives a plain struct padding of another size than the gap
\* it fills.  (A gap of 2^29 bytes and more could: its bits wrap around.)
PaddingsFit ==
  \A d \in DOMAIN Dies : Plain(d) =>
    \A s \in 1 .. Dies[d].byte_size : s * 8 \in DOMAIN paddings => paddings[s * 8] = s

\* Reading a plain struct again - from another member, typedef or
\* compilation unit - adds no field and no padding type.
ReadAgainAddsNothing ==
  [][ \A n \in DOMAIN symbols :
        PlainSymbol(n) /\ HasBeenRead(n)
          => /\ symbols'[n] = symbols[n]
             /\ stack # << >> /\ Top.symbol = n => paddings' = paddings ]_vars

\* One field was added, somewhere, and the others kept their order.
AddsOne(old, new) ==
  /\ Len(new) = Len(old) + 1
  /\ \E i \in DOMAIN new :
       \A k \in DOMAIN old : old[k] = new[IF k < i THEN k ELSE k + 1]

\* Neither reading nor padding, nor reading again what was padded before,
\* ever drops, changes or reorders a field, in whatever struct, plain or not.
FieldsAreKept ==
  [][ \A n \in DOMAIN symbols :
        /\ n \in DOMAIN symbols'
        /\ symbols'[n].byte_size = symbols[n].byte_size
        /\ \/ symbols'[n].fields = symbols[n].fields
           \/ AddsOne(symbols[n].fields, symbols'[n].fields) ]_vars

\* A field never has the type of a struct that is still to be read: when a
\* member is stored, the nested reading of its type has ended.
FieldTypesAreRead ==
  errors = 0 =>
    \A n \in DOMAIN symbols : \A k \in DOMAIN symbols[n].fields :
      LET f == symbols[n].fields[k]
      IN  f.type \in DOMAIN symbols => HasBeenRead(f.type)

\* A child that cannot be read never costs its struct another member: after
\* a complete reading, of whatever struct, every readable member is a field.
ReadableMembersStored ==
  \A r \in read : \A m \in Range(Dies[r[1]].members) :
    Readable(m) => \E f \in Range(symbols[r[2]].fields) : f.name = m.name

\* However deep structs nest and whatever padding is inserted into the
\* sequence the loop runs over, the reading of the file ends.
ReadingEnds == <>[](todo = {} /\ stack = << >>)

-----------------------------------------------------------------------------
(* What the documentation says and the code does not do.                   *)

\* README.md, Padding: the field at the end of the struct is padding, so no
\* byte of it is a byte of a member.
EndPaddingIsFree ==
  \A n \in DOMAIN symbols :
    LET fs == symbols[n].fields
    IN  \A j, k \in DOMAIN fs :
          fs[j].name = "_spare_end" /\ j # k => Bytes(fs[j]) \cap Bytes(fs[k]) = {}

\* unit-test/main_test.cpp:321: the byte_size of a struct is its sizeof.
SizesAreSizeof ==
  \A r \in read :
    (\A e \in DiesOf(r[2]) : Dies[e].byte_size \in {Absent, Dies[r[1]].byte_size})
      => Dies[r[1]].byte_size \in {Absent, symbols[r[2]].byte_size}
=============================================================================
