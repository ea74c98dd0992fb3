------------------------- MODULE StructFieldsProofs -------------------------
(***************************************************************************)
(* Proofs about StructFields, for every set of struct DIEs: calls in       *)
(* progress always point into their DIEs and symbols, no field is ever     *)
(* lost, changed or moved past another, and a complete reading leaves out  *)
(* no member that can be read.                                             *)
(***************************************************************************)
EXTENDS StructFields, SequenceTheorems, TLAPS

\* What the elements of a sequence of fields are does not matter here.
IsSeq(s) == \E S : s \in Seq(S)

Kept(old, new) == new = old \/ AddsOne(old, new)

-----------------------------------------------------------------------------
(* Sequences with one more element.                                        *)

\* Appending keeps what is there.
LEMMA AppendAddsOne ==
  ASSUME NEW s, NEW e, IsSeq(s)
  PROVE  IsSeq(Append(s, e)) /\ AddsOne(s, Append(s, e))
<1>1. PICK S : s \in Seq(S)
  BY DEF IsSeq
<1> DEFINE T == S \cup {e}
<1>2. s \in Seq(T)
  BY <1>1
<1>3. Append(s, e) \in Seq(T)
  BY <1>2
<1>4. /\ Len(Append(s, e)) = Len(s) + 1
      /\ \A k \in 1 .. Len(s) : Append(s, e)[k] = s[k]
      /\ DOMAIN s = 1 .. Len(s) /\ Len(s) \in Nat
      /\ DOMAIN Append(s, e) = 1 .. Len(s) + 1
  BY <1>2, <1>3
<1>5. AddsOne(s, Append(s, e))
  <2>1. Len(s) + 1 \in DOMAIN Append(s, e)
    BY <1>4
  <2>2. \A k \in DOMAIN s :
          s[k] = Append(s, e)[IF k < Len(s) + 1 THEN k ELSE k + 1]
    BY <1>4
  <2>3. QED
    BY <1>4, <2>1, <2>2 DEF AddsOne
<1>6. QED
  BY <1>3, <1>5 DEF IsSeq

\* Inserting moves what is behind by one.
LEMMA InsertAddsOne ==
  ASSUME NEW s, NEW e, IsSeq(s), NEW i \in 1 .. Len(s) + 1
  PROVE  IsSeq(InsertAt(s, i, e)) /\ AddsOne(s, InsertAt(s, i, e))
<1>1. PICK S : s \in Seq(S)
  BY DEF IsSeq
<1> DEFINE T == S \cup {e}
           a == SubSeq(s, 1, i - 1)
           b == a \o << e >>
           c == SubSeq(s, i, Len(s))
           t == b \o c
<1>2. s \in Seq(T) /\ Len(s) \in Nat /\ DOMAIN s = 1 .. Len(s) /\ i \in Nat \ {0}
  BY <1>1
<1>3. \A k \in 1 .. Len(s) : s[k] \in T
  BY <1>2
<1>4. a \in Seq(T) /\ Len(a) = i - 1 /\ \A k \in 1 .. i - 1 : a[k] = s[k]
  <2>1. \A k \in 1 .. i - 1 : s[k] \in T
    BY <1>2, <1>3
  <2>2. QED
    BY <2>1, <1>2, SubSeqProperties
<1>5. c \in Seq(T) /\ Len(c) = Len(s) - i + 1
      /\ \A k \in 1 .. Len(s) - i + 1 : c[k] = s[i + k - 1]
  <2>1. \A k \in i .. Len(s) : s[k] \in T
    BY <1>2, <1>3
  <2>2. QED
    BY <2>1, <1>2, SubSeqProperties
<1>6. b \in Seq(T) /\ Len(b) = i /\ \A k \in 1 .. i - 1 : b[k] = s[k]
  <2>1. << e >> \in Seq(T) /\ Len(<< e >>) = 1
    OBVIOUS
  <2> HIDE DEF a
  <2>2. QED
    BY <1>2, <1>4, <2>1, ConcatProperties
<1>7. /\ t \in Seq(T) /\ Len(t) = Len(s) + 1 /\ DOMAIN t = 1 .. Len(s) + 1
      /\ \A k \in DOMAIN s : s[k] = t[IF k < i THEN k ELSE k + 1]
  <2> HIDE DEF b, c
  <2>1. /\ t \in Seq(T) /\ Len(t) = Len(s) + 1
        /\ \A k \in 1 .. Len(s) + 1 : t[k] = IF k <= i THEN b[k] ELSE c[k - i]
    BY <1>2, <1>5, <1>6, ConcatProperties
  <2> HIDE DEF t
  <2>2. ASSUME NEW k \in 1 .. Len(s), k < i PROVE t[k] = s[k]
    BY <2>1, <2>2, <1>2, <1>6
  <2>3. ASSUME NEW k \in 1 .. Len(s), ~(k < i) PROVE t[k + 1] = s[k]
    <3>1. k + 1 \in 1 .. Len(s) + 1 /\ ~(k + 1 <= i) /\ k + 1 - i \in 1 .. Len(s) - i + 1
          /\ i + (k + 1 - i) - 1 = k
      BY <2>3, <1>2
    <3>2. t[k + 1] = c[k + 1 - i] /\ c[k + 1 - i] = s[i + (k + 1 - i) - 1]
      BY <3>1, <2>1, <1>5
    <3>3. QED
      BY <3>1, <3>2
  <2>4. DOMAIN t = 1 .. Len(s) + 1
    BY <2>1, <1>2
  <2>5. QED
    BY <2>1, <2>2, <2>3, <2>4, <1>2
<1>8. AddsOne(s, t)
  <2> HIDE DEF t
  <2>1. i \in DOMAIN t
    BY <1>7, <1>2
  <2>2. QED
    BY <1>7, <2>1 DEF AddsOne
<1>9. t = InsertAt(s, i, e)
  BY DEF InsertAt
<1>10. QED
  BY <1>7, <1>8, <1>9 DEF IsSeq

\* Symbol::addField appends or does nothing.
LEMMA AddFieldKeeps ==
  ASSUME NEW s, NEW f, IsSeq(s)
  PROVE  IsSeq(AddField(s, f)) /\ Kept(s, AddField(s, f))
BY AppendAddsOne DEF AddField, Kept

-----------------------------------------------------------------------------
(* The symbol table.                                                       *)

IsSymbol(y) ==
  /\ y = [byte_size |-> y.byte_size, fields |-> y.fields]
  /\ IsSeq(y.fields)

IsTable(T) ==
  /\ T = [n \in DOMAIN T |-> T[n]]
  /\ \A n \in DOMAIN T : IsSymbol(T[n])

Grows(T, U) ==
  \A n \in DOMAIN T :
    /\ n \in DOMAIN U
    /\ U[n].byte_size = T[n].byte_size
    /\ Kept(T[n].fields, U[n].fields)

LEMMA SameTableGrows == ASSUME NEW T PROVE Grows(T, T)
BY DEF Grows, Kept

\* ElfFile::addSymbol leaves the symbols that are there alone.
LEMMA AddSymbolGrows ==
  ASSUME IsTable(symbols), NEW name, NEW size, AddSymbol(name, size)
  PROVE  /\ IsTable(symbols') /\ Grows(symbols, symbols')
         /\ DOMAIN symbols' = DOMAIN symbols \cup {name}
<1>1. CASE name \in DOMAIN symbols
  <2>1. symbols' = symbols
    BY <1>1 DEF AddSymbol
  <2>2. QED
    BY <2>1, <1>1, SameTableGrows
<1>2. CASE name \notin DOMAIN symbols
  <2> DEFINE new == [byte_size |-> size, fields |-> << >>]
             U == [ n \in DOMAIN symbols \cup {name} |-> IF n = name THEN new ELSE symbols[n] ]
  <2>1. symbols' = U
    BY <1>2 DEF AddSymbol
  <2>2. IsSymbol(new)
    <3>1. << >> \in Seq({})
      OBVIOUS
    <3>2. QED
      BY <3>1 DEF IsSymbol, IsSeq
  <2>3. \A n \in DOMAIN symbols : U[n] = symbols[n]
    BY <1>2
  <2>4. DOMAIN U = DOMAIN symbols \cup {name} /\ U[name] = new
    OBVIOUS
  <2>5. U = [n \in DOMAIN U |-> U[n]]
    OBVIOUS
  <2> HIDE DEF U, new
  <2>6. IsTable(U)
    BY <2>2, <2>3, <2>4, <2>5 DEF IsTable
  <2>7. Grows(symbols, U)
    BY <2>3, <2>4 DEF Grows, Kept
  <2>8. QED
    BY <2>1, <2>4, <2>6, <2>7
<1>3. QED
  BY <1>1, <1>2

\* So does a change of one symbol's fields that keeps them.
LEMMA FieldsGrow ==
  ASSUME NEW T, IsTable(T), NEW n \in DOMAIN T, NEW fs, IsSeq(fs), Kept(T[n].fields, fs)
  PROVE  LET U == [T EXCEPT ![n].fields = fs]
         IN  /\ IsTable(U) /\ Grows(T, U)
             /\ DOMAIN U = DOMAIN T /\ U[n].fields = fs
<1> DEFINE U == [T EXCEPT ![n].fields = fs]
<1>1. T = [m \in DOMAIN T |-> T[m]] /\ IsSymbol(T[n])
  BY DEF IsTable
<1>2. U = [m \in DOMAIN T |-> IF m = n THEN [T[n] EXCEPT !.fields = fs] ELSE T[m]]
  BY <1>1
<1>3. [T[n] EXCEPT !.fields = fs] = [byte_size |-> T[n].byte_size, fields |-> fs]
  BY <1>1 DEF IsSymbol
<1>4. /\ DOMAIN U = DOMAIN T
      /\ U[n] = [byte_size |-> T[n].byte_size, fields |-> fs]
      /\ \A m \in DOMAIN T : m # n => U[m] = T[m]
      /\ U = [m \in DOMAIN U |-> U[m]]
  BY <1>2, <1>3
<1> HIDE DEF U
<1>5. U[n].byte_size = T[n].byte_size /\ U[n].fields = fs /\ IsSymbol(U[n])
  BY <1>4 DEF IsSymbol
<1>6. IsTable(U)
  BY <1>4, <1>5 DEF IsTable
<1>7. Grows(T, U)
  BY <1>4, <1>5 DEF Grows, Kept
<1>8. QED
  BY <1>4, <1>5, <1>6, <1>7 DEF U

LEMMA SetFieldsGrows ==
  ASSUME IsTable(symbols), Top.symbol \in DOMAIN symbols,
         NEW fs, IsSeq(fs), Kept(Fields, fs), SetFields(fs)
  PROVE  /\ IsTable(symbols') /\ Grows(symbols, symbols')
         /\ DOMAIN symbols' = DOMAIN symbols /\ symbols'[Top.symbol].fields = fs
BY FieldsGrow DEF SetFields, Fields

-----------------------------------------------------------------------------
(* The calls.                                                              *)

Frames ==
  [ die : DOMAIN Dies, symbol : Names, phase : {"members", "gaps", "done"},
    next : Nat \ {0}, i : Nat, count : Nat, spares : Nat ]

\* A call in progress, given the symbols.
CallOK(c, T) ==
  /\ c \in Frames
  /\ c.symbol \in DOMAIN T
  /\ c.next <= Len(Dies[c.die].members) + 1
  /\ c.phase = "gaps" => /\ c.i \in 2 .. Len(T[c.symbol].fields) + 2
                         /\ c.count \in {0, Len(T[c.symbol].fields)}

\* A call that waits for the reading of a member's type.
WaitOK(c, T) ==
  /\ CallOK(c, T)
  /\ c.phase = "members" /\ c.next <= Len(Dies[c.die].members)

StackOK(st, T) ==
  /\ st \in Seq(Frames)
  /\ st # << >> => CallOK(st[1], T)
  /\ \A k \in 2 .. Len(st) : WaitOK(st[k], T)

\* The visits to come.
TodoOK(visits) ==
  \A t \in visits : t[1] \in DOMAIN Dies /\ t[2] \in {""} \cup Dies[t[1]].typedefs

\* The inductive invariant.
IInv ==
  /\ IsTable(symbols)
  /\ StackOK(stack, symbols)
  /\ TodoOK(todo)

LEMMA DieFacts ==
  ASSUME NEW d \in DOMAIN Dies
  PROVE  /\ Len(Dies[d].members) \in Nat
         /\ \A k \in 1 .. Len(Dies[d].members) :
              Dies[d].members[k].type \in {"leaf", "none"} \cup DOMAIN Dies
<1>1. IsDie(Dies[d])
  BY DiesAssumption
<1>2. DOMAIN Dies[d].members = 1 .. Len(Dies[d].members) /\ Len(Dies[d].members) \in Nat
  <2>1. Dies[d].members \in Seq(Range(Dies[d].members))
    BY <1>1 DEF IsDie
  <2>2. QED
    BY <2>1
<1>3. QED
  BY <1>1, <1>2 DEF IsDie, IsMember

LEMMA NameFacts ==
  ASSUME NEW d \in DOMAIN Dies
  PROVE  /\ Dies[d].name \in Names \cup {""}
         /\ Dies[d].typedefs \subseteq Names
         /\ \A k \in 1 .. Len(Dies[d].members) :
              /\ Dies[d].members[k].name \in Names \cup {""}
              /\ Dies[d].members[k].alias \in Names \cup {""}
<1>1. IsDie(Dies[d])
  BY DiesAssumption
<1>2. DOMAIN Dies[d].members = 1 .. Len(Dies[d].members)
  <2>1. Dies[d].members \in Seq(Range(Dies[d].members))
    BY <1>1 DEF IsDie
  <2>2. QED
    BY <2>1
<1>3. QED
  BY <1>1, <1>2 DEF IsDie, IsMember

\* Waiting calls do not mind that the table grows.
LEMMA WaitStays ==
  ASSUME NEW T, NEW U, Grows(T, U), NEW c, WaitOK(c, T)
  PROVE  WaitOK(c, U)
BY DEF WaitOK, CallOK, Grows

LEMMA PushOK ==
  ASSUME NEW T, NEW U, Grows(T, U), NEW st, StackOK(st, T), NEW c, CallOK(c, U),
         st # << >> => WaitOK(st[1], T)
  PROVE  StackOK(<< c >> \o st, U)
<1>1. st \in Seq(Frames) /\ Len(st) \in Nat /\ c \in Frames
  BY DEF StackOK, CallOK
<1>2. << c >> \o st \in Seq(Frames) /\ Len(<< c >> \o st) = Len(st) + 1
      /\ (<< c >> \o st)[1] = c
  BY <1>1
<1>3. ASSUME NEW k \in 2 .. Len(st) + 1
      PROVE  WaitOK((<< c >> \o st)[k], U)
  <2>1. (<< c >> \o st)[k] = st[k - 1] /\ k - 1 \in 1 .. Len(st)
    BY <1>1, <1>3
  <2>2. WaitOK(st[k - 1], T)
    <3>1. CASE k = 2
      <4>1. st # << >> /\ st[k - 1] = st[1]
        BY <3>1, <2>1, <1>1
      <4>2. QED
        BY <4>1
    <3>2. CASE k # 2
      <4>1. k - 1 \in 2 .. Len(st)
        BY <3>2, <1>1, <1>3
      <4>2. QED
        BY <4>1 DEF StackOK
    <3>3. QED
      BY <3>1, <3>2
  <2>3. QED
    BY <2>1, <2>2, WaitStays
<1>4. QED
  BY <1>2, <1>3 DEF StackOK

LEMMA GotoOK ==
  ASSUME NEW T, NEW U, Grows(T, U), NEW st, StackOK(st, T), st # << >>, NEW c, CallOK(c, U)
  PROVE  StackOK(<< c >> \o Tail(st), U)
<1>1. st \in Seq(Frames) /\ Len(st) \in Nat \ {0} /\ c \in Frames
  BY DEF StackOK, CallOK
<1>2. /\ Tail(st) \in Seq(Frames) /\ Len(Tail(st)) = Len(st) - 1
      /\ \A k \in 1 .. Len(st) - 1 : Tail(st)[k] = st[k + 1]
  BY <1>1
<1>3. /\ << c >> \o Tail(st) \in Seq(Frames)
      /\ Len(<< c >> \o Tail(st)) = Len(st)
      /\ (<< c >> \o Tail(st))[1] = c
  BY <1>1, <1>2
<1>4. ASSUME NEW k \in 2 .. Len(st)
      PROVE  WaitOK((<< c >> \o Tail(st))[k], U)
  <2>1. (<< c >> \o Tail(st))[k] = Tail(st)[k - 1] /\ k - 1 \in 1 .. Len(st) - 1
    BY <1>1, <1>2, <1>4
  <2>2. Tail(st)[k - 1] = st[k]
    BY <2>1, <1>2, <1>1
  <2>3. QED
    BY <2>1, <2>2, WaitStays DEF StackOK
<1>5. QED
  BY <1>3, <1>4 DEF StackOK

LEMMA PopOK ==
  ASSUME NEW T, NEW st, StackOK(st, T), st # << >>
  PROVE  StackOK(Tail(st), T)
<1>1. st \in Seq(Frames) /\ Len(st) \in Nat \ {0}
  BY DEF StackOK
<1>2. /\ Tail(st) \in Seq(Frames) /\ Len(Tail(st)) = Len(st) - 1
      /\ \A k \in 1 .. Len(st) - 1 : Tail(st)[k] = st[k + 1]
  BY <1>1
<1>3. \A k \in 1 .. Len(st) - 1 : WaitOK(Tail(st)[k], T)
  BY <1>1, <1>2 DEF StackOK
<1>4. QED
  BY <1>2, <1>3 DEF StackOK, WaitOK

LEMMA EmptyOK == ASSUME NEW T PROVE StackOK(<< >>, T)
<1>1. << >> \in Seq(Frames) /\ Len(<< >>) = 0
  OBVIOUS
<1>2. 2 .. Len(<< >>) = {}
  BY <1>1
<1>3. QED
  BY <1>1, <1>2 DEF StackOK

LEMMA OneOK ==
  ASSUME NEW T, NEW c, CallOK(c, T)
  PROVE  StackOK(<< c >>, T)
BY DEF StackOK, CallOK

\* A new call for a symbol that is in the table.
LEMMA FrameOK ==
  ASSUME NEW d \in DOMAIN Dies, NEW name \in Names, NEW T, name \in DOMAIN T
  PROVE  CallOK(Frame(d, name), T)
BY DieFacts DEF CallOK, Frame, Frames

-----------------------------------------------------------------------------
(* Every action keeps the invariant and only adds fields.                  *)

Good == IInv' /\ Grows(symbols, symbols')

LEMMA TopFacts ==
  ASSUME IInv, stack # << >>
  PROVE  /\ CallOK(Top, symbols) /\ Top = stack[1]
         /\ IsSeq(Fields) /\ Fields = symbols[Top.symbol].fields
         /\ Top.symbol \in DOMAIN symbols
<1>1. stack \in Seq(Frames) /\ CallOK(stack[1], symbols)
  BY DEF IInv, StackOK
<1>2. Top = stack[1]
  BY <1>1 DEF Top
<1>3. QED
  BY <1>1, <1>2 DEF CallOK, Fields, IInv, IsTable, IsSymbol

LEMMA VisitStructGood ==
  ASSUME IInv, NEW d \in DOMAIN Dies, VisitStruct(d) PROVE Good
<1>1. TodoOK(todo')
  BY DEF IInv, TodoOK, VisitStruct
<1>2. CASE Dies[d].name = ""
  <2>1. UNCHANGED << symbols, stack >>
    BY <1>2 DEF VisitStruct
  <2>2. QED
    BY <2>1, <1>1, SameTableGrows DEF IInv, Good
<1>3. CASE Dies[d].name # ""
  <2>1. PICK size : AddSymbol(Dies[d].name, size)
    BY <1>3 DEF VisitStruct
  <2>2. /\ IsTable(symbols') /\ Grows(symbols, symbols')
        /\ Dies[d].name \in DOMAIN symbols'
    <3> DEFINE name == Dies[d].name
    <3>1. AddSymbol(name, size) /\ IsTable(symbols)
      BY <2>1 DEF IInv
    <3> HIDE DEF name
    <3>2. IsTable(symbols') /\ Grows(symbols, symbols') /\ name \in DOMAIN symbols'
      BY <3>1, AddSymbolGrows
    <3>3. QED
      BY <3>2 DEF name
  <2>3. stack' = << Frame(d, Dies[d].name) >>
    BY <1>3 DEF VisitStruct
  <2>4. StackOK(stack', symbols')
    <3>1. Dies[d].name \in Names
      BY <1>3, NameFacts
    <3>2. QED
      BY <2>2, <2>3, <3>1, FrameOK, OneOK
  <2>5. QED
    BY <1>1, <2>2, <2>4 DEF IInv, Good
<1>4. QED
  BY <1>2, <1>3

LEMMA VisitTypedefGood ==
  ASSUME IInv, NEW t \in todo, VisitTypedef(t[1], t[2]) PROVE Good
<1> DEFINE d == t[1]
           via == t[2]
<1>1. d \in DOMAIN Dies /\ via \in Names
  <2>1. d \in DOMAIN Dies /\ via \in {""} \cup Dies[d].typedefs
    BY DEF IInv, TodoOK
  <2>2. via # ""
    BY DEF VisitTypedef
  <2>3. QED
    BY <2>1, <2>2, NameFacts
<1>2. TodoOK(todo')
  BY DEF IInv, TodoOK, VisitTypedef
<1>3. CASE Dies[d].byte_size = Absent
  <2>1. AddSymbol("", 0) /\ stack' = stack /\ stack = << >>
    BY <1>3 DEF VisitTypedef
  <2>2. IsTable(symbols') /\ Grows(symbols, symbols')
    BY <2>1, AddSymbolGrows DEF IInv
  <2>3. StackOK(stack', symbols')
    BY <2>1, EmptyOK
  <2>4. QED
    BY <1>2, <2>2, <2>3 DEF IInv, Good
<1>4. CASE Dies[d].byte_size # Absent
  <2>1. /\ AddSymbol(SymbolName(d, via), Dies[d].byte_size)
        /\ stack' = << Frame(d, SymbolName(d, via)) >>
    BY <1>4 DEF VisitTypedef
  <2>2. SymbolName(d, via) \in Names
    BY <1>1, NameFacts DEF SymbolName
  <2>3. /\ IsTable(symbols') /\ Grows(symbols, symbols')
        /\ SymbolName(d, via) \in DOMAIN symbols'
    BY <2>1, AddSymbolGrows DEF IInv
  <2>4. StackOK(stack', symbols')
    BY <1>1, <2>1, <2>2, <2>3, FrameOK, OneOK
  <2>5. QED
    BY <1>2, <2>3, <2>4 DEF IInv, Good
<1>5. QED
  BY <1>3, <1>4

\* An action that moves the innermost call on, with the table as it is.
LEMMA GotoGood ==
  ASSUME IInv, stack # << >>, NEW c, CallOK(c, symbols), Goto(c),
         UNCHANGED << symbols, todo >>
  PROVE  Good
<1>1. StackOK(stack', symbols')
  BY GotoOK, SameTableGrows DEF IInv, Goto
<1>2. QED
  BY <1>1, SameTableGrows DEF IInv, Good

LEMMA NextMemberOK ==
  ASSUME IInv, AtMember, NEW T, Grows(symbols, T)
  PROVE  CallOK(NextMember, T)
<1>1. CallOK(Top, symbols) /\ Top.phase = "members" /\ Top.next <= Len(Members)
  BY TopFacts DEF AtMember
<1>2. Top \in Frames /\ Top.symbol \in DOMAIN T
  BY <1>1 DEF CallOK, Grows
<1>3. NextMember = [Top EXCEPT !.next = Top.next + 1]
  BY DEF NextMember
<1>4. /\ NextMember \in Frames /\ NextMember.symbol = Top.symbol
      /\ NextMember.die = Top.die /\ NextMember.phase = "members"
      /\ NextMember.next = Top.next + 1
  BY <1>1, <1>2, <1>3 DEF Frames
<1>5. Len(Members) \in Nat /\ Members = Dies[Top.die].members
  BY <1>2, DieFacts DEF Members, Frames
<1>6. NextMember.next <= Len(Dies[NextMember.die].members) + 1
  BY <1>1, <1>2, <1>4, <1>5 DEF Frames
<1>7. QED
  BY <1>2, <1>4, <1>6 DEF CallOK

LEMMA SkipMemberGood == ASSUME IInv, SkipMember PROVE Good
<1>1. stack # << >> /\ CallOK(NextMember, symbols)
  BY NextMemberOK, SameTableGrows DEF SkipMember, AtMember
<1>2. QED
  BY <1>1, GotoGood DEF SkipMember

LEMMA ReadMemberGood == ASSUME IInv, ReadMember PROVE Good
<1>1. stack # << >> /\ AtMember /\ Goto(NextMember) /\ todo' = todo
  BY DEF ReadMember, AtMember
<1>2. PICK f : SetFields(AddField(Fields, f))
  BY DEF ReadMember
<1>3. IsTable(symbols') /\ Grows(symbols, symbols')
  BY <1>1, <1>2, TopFacts, AddFieldKeeps, SetFieldsGrows DEF IInv
<1>4. CallOK(NextMember, symbols')
  BY <1>1, <1>3, NextMemberOK
<1>5. StackOK(stack', symbols')
  BY <1>1, <1>3, <1>4, GotoOK DEF IInv, Goto
<1>6. QED
  BY <1>1, <1>3, <1>5 DEF IInv, Good

LEMMA EnterStructGood == ASSUME IInv, EnterStruct PROVE Good
<1> DEFINE m == Members[Top.next]
           d == m.type
           name == SymbolName(d, IF m.alias # "" THEN m.alias ELSE m.name)
<1>1. /\ AtMember /\ IsOfStruct(m) /\ todo' = todo
      /\ AddSymbol(name, Dies[d].byte_size)
      /\ stack' = << Frame(d, name) >> \o stack
  BY DEF EnterStruct
<1>2. /\ CallOK(Top, symbols) /\ Top = stack[1] /\ stack # << >>
      /\ Top.phase = "members" /\ Top.next <= Len(Members)
  BY <1>1, TopFacts DEF AtMember
<1>3. d \in DOMAIN Dies /\ name \in Names
  <2>1. Top.die \in DOMAIN Dies /\ Top.next \in Nat \ {0} /\ Members = Dies[Top.die].members
    BY <1>2 DEF CallOK, Frames, Members
  <2>2. /\ m.name \in Names \cup {""} /\ m.alias \in Names \cup {""}
        /\ d \in {"leaf", "none"} \cup DOMAIN Dies
    <3>1. Top.next \in 1 .. Len(Dies[Top.die].members)
      BY <1>2, <2>1, DieFacts
    <3>2. m = Dies[Top.die].members[Top.next]
      BY <2>1
    <3> HIDE DEF m, d
    <3>3. m.name \in Names \cup {""} /\ m.alias \in Names \cup {""}
      BY <2>1, <3>1, <3>2, NameFacts
    <3>4. d \in {"leaf", "none"} \cup DOMAIN Dies
      BY <2>1, <3>1, <3>2, DieFacts DEF d
    <3>5. QED
      BY <3>3, <3>4
  <2>3. d \in DOMAIN Dies
    BY <1>1 DEF IsOfStruct
  <2>4. m.name # ""
    BY <1>1 DEF IsOfStruct, HasPlace
  <2>5. (IF m.alias # "" THEN m.alias ELSE m.name) \in Names
    BY <2>2, <2>4
  <2>6. QED
    BY <2>3, <2>5, NameFacts DEF SymbolName
<1>4. IsTable(symbols') /\ Grows(symbols, symbols') /\ name \in DOMAIN symbols'
  BY <1>1, AddSymbolGrows DEF IInv
<1>5. CallOK(Frame(d, name), symbols')
  BY <1>3, <1>4, FrameOK
<1>6. WaitOK(stack[1], symbols)
  BY <1>2 DEF WaitOK, Members
<1>7. StackOK(stack', symbols')
  <2> HIDE DEF m, d, name
  <2>1. QED
    BY <1>1, <1>4, <1>5, <1>6, PushOK DEF IInv
<1>8. QED
  BY <1>1, <1>4, <1>7 DEF IInv, Good

LEMMA LenOfSeq == ASSUME NEW s, IsSeq(s) PROVE Len(s) \in Nat /\ DOMAIN s = 1 .. Len(s)
BY DEF IsSeq

LEMMA LastMemberGood == ASSUME IInv, LastMember PROVE Good
<1> DEFINE c == [Top EXCEPT !.phase = "gaps", !.i = 2,
                   !.count = IF HasBitFields(Fields) THEN 0 ELSE Len(Fields)]
<1>1. stack # << >> /\ Goto(c) /\ UNCHANGED << symbols, todo >>
  BY DEF LastMember
<1>2. CallOK(Top, symbols) /\ Fields = symbols[Top.symbol].fields /\ Len(Fields) \in Nat
  BY <1>1, TopFacts, LenOfSeq
<1>3. /\ c \in Frames /\ c.symbol = Top.symbol /\ c.die = Top.die /\ c.next = Top.next
      /\ c.i = 2 /\ c.count \in {0, Len(Fields)}
  BY <1>2 DEF CallOK, Frames
<1>4. CallOK(c, symbols)
  <2> HIDE DEF c
  <2>1. QED
    BY <1>2, <1>3 DEF CallOK
<1>5. QED
  BY <1>1, <1>4, GotoGood

\* Ending a call.
LEMMA DoneOK ==
  ASSUME IInv, stack # << >>, NEW T, Grows(symbols, T)
  PROVE  CallOK([Top EXCEPT !.phase = "done"], T)
<1> DEFINE c == [Top EXCEPT !.phase = "done"]
<1>1. CallOK(Top, symbols)
  BY TopFacts
<1>2. /\ c \in Frames /\ c.symbol = Top.symbol /\ c.die = Top.die /\ c.next = Top.next
      /\ c.phase = "done"
  BY <1>1 DEF CallOK, Frames
<1> HIDE DEF c
<1>3. CallOK(c, T)
  BY <1>1, <1>2 DEF CallOK, Grows
<1>4. QED
  BY <1>3 DEF c

LEMMA SiblingErrorGood == ASSUME IInv, SiblingError PROVE Good
BY DoneOK, SameTableGrows, GotoGood DEF SiblingError

LEMMA NoMembersGood == ASSUME IInv, NoMembers PROVE Good
BY DoneOK, SameTableGrows, GotoGood DEF NoMembers

LEMMA MovedFrame ==
  ASSUME NEW t \in Frames
  PROVE  LET c == [t EXCEPT !.i = @ + 2, !.count = @ + 1, !.spares = @ + 1]
         IN  /\ c \in Frames /\ c.symbol = t.symbol /\ c.die = t.die
             /\ c.next = t.next /\ c.phase = t.phase
             /\ c.i = t.i + 2 /\ c.count = t.count + 1
<1> DEFINE u == [t EXCEPT !.i = @ + 2]
           v == [u EXCEPT !.count = @ + 1]
           c == [v EXCEPT !.spares = @ + 1]
<1>1. /\ u \in Frames /\ u.symbol = t.symbol /\ u.die = t.die /\ u.next = t.next
      /\ u.phase = t.phase /\ u.i = t.i + 2 /\ u.count = t.count
  BY DEF Frames
<1>2. u = [t EXCEPT !.i = @ + 2]
  OBVIOUS
<1> HIDE DEF u
<1>3. /\ v \in Frames /\ v.symbol = u.symbol /\ v.die = u.die /\ v.next = u.next
      /\ v.phase = u.phase /\ v.i = u.i /\ v.count = u.count + 1
  BY <1>1 DEF Frames
<1>4. v = [t EXCEPT !.i = @ + 2, !.count = @ + 1]
  BY <1>2
<1> HIDE DEF v
<1>5. /\ c \in Frames /\ c.symbol = v.symbol /\ c.die = v.die /\ c.next = v.next
      /\ c.phase = v.phase /\ c.i = v.i /\ c.count = v.count
  BY <1>3 DEF Frames
<1>6. c = [t EXCEPT !.i = @ + 2, !.count = @ + 1, !.spares = @ + 1]
  BY <1>4
<1> HIDE DEF c
<1>7. QED
  BY <1>1, <1>3, <1>5, <1>6

LEMMA PadGapGood == ASSUME IInv, PadGap PROVE Good
<1>1. /\ stack # << >> /\ Top.phase = "gaps" /\ Top.i <= Top.count /\ todo' = todo
      /\ CallOK(Top, symbols) /\ IsSeq(Fields) /\ Top.symbol \in DOMAIN symbols
      /\ Fields = symbols[Top.symbol].fields /\ Len(Fields) \in Nat
  BY TopFacts, LenOfSeq DEF PadGap, AtGap
<1>2. /\ Top \in Frames /\ Top.i \in Nat /\ Top.i >= 2
      /\ Top.count = Len(Fields) /\ Top.i <= Len(Fields)
  BY <1>1 DEF CallOK, Frames
<1> DEFINE previous == Fields[Top.i - 1]
           delta == Minus(Fields[Top.i].offset, previous.offset)
<1>3. CASE delta > Extent(previous)
  <2> DEFINE c == [Top EXCEPT !.i = @ + 2, !.count = @ + 1, !.spares = @ + 1]
  <2>1. PICK f : SetFields(InsertField(Fields, Top.i, f)) /\ Goto(c)
    BY <1>3 DEF PadGap
  <2> DEFINE fs == InsertField(Fields, Top.i, f)
  <2>2. IsSeq(fs) /\ AddsOne(Fields, fs) /\ Len(fs) = Len(Fields) + 1
    <3>1. Top.i \in 1 .. Len(Fields) + 1
      BY <1>1, <1>2
    <3>2. IsSeq(fs) /\ AddsOne(Fields, fs)
      BY <1>1, <3>1, InsertAddsOne DEF InsertField
    <3>3. QED
      BY <3>2 DEF AddsOne
  <2> HIDE DEF fs
  <2>3. SetFields(fs) /\ Kept(Fields, fs)
    BY <2>1, <2>2 DEF Kept, fs
  <2>4. /\ IsTable(symbols') /\ Grows(symbols, symbols')
        /\ DOMAIN symbols' = DOMAIN symbols /\ symbols'[Top.symbol].fields = fs
    BY <1>1, <2>2, <2>3, SetFieldsGrows DEF IInv
  <2>5. /\ c \in Frames /\ c.symbol = Top.symbol /\ c.die = Top.die /\ c.next = Top.next
        /\ c.phase = "gaps" /\ c.i = Top.i + 2 /\ c.count = Top.count + 1
    <3>1. Top \in Frames /\ Top.phase = "gaps"
      BY <1>1, <1>2
    <3>2. QED
      BY <3>1, MovedFrame
  <2> HIDE DEF c
  <2>6. c.i \in 2 .. Len(fs) + 2 /\ c.count \in {0, Len(fs)}
    BY <1>1, <1>2, <2>2, <2>5
  <2>7. CallOK(c, symbols')
    BY <1>1, <2>4, <2>5, <2>6 DEF CallOK
  <2>8. StackOK(stack', symbols')
    BY <1>1, <2>1, <2>4, <2>7, GotoOK DEF IInv, Goto
  <2>9. QED
    BY <1>1, <2>4, <2>8 DEF IInv, Good
<1>4. CASE ~(delta > Extent(previous))
  <2> DEFINE c == [Top EXCEPT !.i = @ + 1]
  <2>1. Goto(c) /\ symbols' = symbols
    BY <1>4 DEF PadGap
  <2>2. /\ c \in Frames /\ c.symbol = Top.symbol /\ c.die = Top.die /\ c.next = Top.next
        /\ c.phase = "gaps" /\ c.i = Top.i + 1 /\ c.count = Top.count
    BY <1>1, <1>2 DEF Frames
  <2> HIDE DEF c
  <2>3. c.i \in 2 .. Len(Fields) + 2 /\ c.count \in {0, Len(Fields)}
    BY <1>1, <1>2, <2>2
  <2>4. CallOK(c, symbols)
    BY <1>1, <2>2, <2>3 DEF CallOK
  <2>5. QED
    BY <1>1, <2>1, <2>4, GotoGood
<1>5. QED
  BY <1>3, <1>4

LEMMA PadEndGood == ASSUME IInv, PadEnd PROVE Good
<1> DEFINE c == [Top EXCEPT !.phase = "done"]
<1>1. stack # << >> /\ Goto(c) /\ todo' = todo
  BY DEF PadEnd
<1>2. IsSeq(Fields) /\ Top.symbol \in DOMAIN symbols
  BY <1>1, TopFacts
<1>3. symbols' = symbols \/ \E f : SetFields(AddField(Fields, f))
  BY DEF PadEnd
<1>4. IsTable(symbols') /\ Grows(symbols, symbols')
  <2>1. CASE symbols' = symbols
    BY <2>1, SameTableGrows DEF IInv
  <2>2. CASE \E f : SetFields(AddField(Fields, f))
    <3>1. PICK f : SetFields(AddField(Fields, f))
      BY <2>2
    <3>2. QED
      BY <3>1, <1>2, AddFieldKeeps, SetFieldsGrows DEF IInv
  <2>3. QED
    BY <1>3, <2>1, <2>2
<1>5. CallOK(c, symbols')
  BY <1>1, <1>4, DoneOK
<1>6. StackOK(stack', symbols')
  <2> HIDE DEF c
  <2>1. QED
    BY <1>1, <1>4, <1>5, GotoOK DEF IInv, Goto
<1>7. QED
  BY <1>1, <1>4, <1>6 DEF IInv, Good

LEMMA ReturnGood == ASSUME IInv, Return PROVE Good
<1>1. stack # << >> /\ todo' = todo /\ stack \in Seq(Frames) /\ Len(stack) \in Nat \ {0}
  BY DEF Return, IInv, StackOK
<1>2. CASE Len(stack) = 1
  <2>1. stack' = << >> /\ symbols' = symbols
    BY <1>2 DEF Return
  <2>2. QED
    BY <1>1, <2>1, EmptyOK, SameTableGrows DEF IInv, Good
<1>3. CASE Len(stack) # 1
  <2> DEFINE caller == stack[2]
             m == Dies[caller.die].members[caller.next]
             c == [caller EXCEPT !.next = @ + 1]
  <2>1. PICK f :
          /\ stack' = << c >> \o Tail(Tail(stack))
          /\ symbols' = [symbols EXCEPT ![caller.symbol].fields =
                            IF m.constant THEN @ ELSE AddField(@, f)]
    <3>1. \E f : /\ stack' = << c >> \o Tail(Tail(stack))
                 /\ symbols' = [symbols EXCEPT ![caller.symbol].fields =
                                  IF m.constant THEN @ ELSE AddField(@, f)]
      <4> HIDE DEF c
      <4>1. QED
        BY <1>3 DEF Return, c
    <3>2. QED
      BY <3>1
  <2> HIDE DEF c
  <2>2. WaitOK(caller, symbols)
    <3>1. 2 \in 2 .. Len(stack)
      <4> DEFINE l == Len(stack)
      <4>1. l \in Nat \ {0} /\ l # 1
        BY <1>1, <1>3
      <4> HIDE DEF l
      <4>2. 2 \in 2 .. l
        BY <4>1
      <4>3. QED
        BY <4>2 DEF l
    <3>2. QED
      BY <3>1 DEF IInv, StackOK
  <2>3. /\ caller \in Frames /\ caller.symbol \in DOMAIN symbols
        /\ caller.phase = "members" /\ caller.next \in Nat \ {0}
        /\ caller.die \in DOMAIN Dies
        /\ caller.next <= Len(Dies[caller.die].members)
    BY <2>2 DEF WaitOK, CallOK, Frames
  <2>4. /\ c \in Frames /\ c.symbol = caller.symbol /\ c.die = caller.die
        /\ c.phase = "members" /\ c.next = caller.next + 1
    BY <2>3 DEF Frames, c
  <2>5. Tail(stack) # << >> /\ StackOK(Tail(stack), symbols)
    <3>1. Len(Tail(stack)) = Len(stack) - 1 /\ Tail(stack) \in Seq(Frames)
      BY <1>1
    <3>2. Tail(stack) # << >>
      <4>1. Len(Tail(stack)) # 0
        BY <3>1, <1>1, <1>3
      <4>2. Len(<< >>) = 0
        OBVIOUS
      <4>3. QED
        BY <4>1, <4>2
    <3>3. QED
      BY <1>1, <3>2, PopOK DEF IInv
  <2> HIDE DEF caller, m
  <2> DEFINE old == symbols[caller.symbol].fields
             fs  == IF m.constant THEN old ELSE AddField(old, f)
  <2>6. IsSeq(symbols[caller.symbol].fields)
    BY <2>3 DEF IInv, IsTable, IsSymbol
  <2>7. IsSeq(fs) /\ Kept(symbols[caller.symbol].fields, fs)
    BY <2>6, AddFieldKeeps DEF Kept
  <2>8. symbols' = [symbols EXCEPT ![caller.symbol].fields = fs]
    BY <2>1
  <2> HIDE DEF fs
  <2>9. IsTable(symbols') /\ Grows(symbols, symbols') /\ DOMAIN symbols' = DOMAIN symbols
    BY <2>3, <2>7, <2>8, FieldsGrow DEF IInv
  <2>10. CallOK(c, symbols')
    <3>1. c.next <= Len(Dies[c.die].members) + 1
      BY <2>3, <2>4, DieFacts
    <3>2. QED
      BY <2>3, <2>4, <2>9, <3>1 DEF CallOK
  <2>11. StackOK(stack', symbols')
    BY <2>1, <2>5, <2>9, <2>10, GotoOK
  <2>12. QED
    BY <1>1, <2>9, <2>11 DEF IInv, Good
<1>4. QED
  BY <1>2, <1>3

-----------------------------------------------------------------------------
(* Theorems.                                                               *)

\* What the traversal comes to.
LEMMA VisitsFacts == TodoOK(Visits)
<1> SUFFICES ASSUME NEW t \in Visits
             PROVE  t[1] \in DOMAIN Dies /\ t[2] \in {""} \cup Dies[t[1]].typedefs
  BY DEF TodoOK
<1>1. PICK d \in DOMAIN Dies : t \in {d} \X ({""} \cup Dies[d].typedefs)
  BY DEF Visits
<1>2. t[1] = d /\ t[2] \in {""} \cup Dies[d].typedefs
  BY <1>1
<1>3. QED
  BY <1>2

LEMMA InitIInv == Init => IInv
<1> SUFFICES ASSUME Init PROVE IInv
  OBVIOUS
<1>1. DOMAIN symbols = {} /\ symbols = [n \in DOMAIN symbols |-> symbols[n]]
  <2>1. << >> = [n \in {} |-> << >>[n]] /\ DOMAIN << >> = {}
    OBVIOUS
  <2>2. QED
    BY <2>1 DEF Init
<1>2. IsTable(symbols)
  BY <1>1 DEF IsTable
<1>3. TodoOK(todo)
  BY VisitsFacts DEF Init
<1>4. QED
  BY <1>2, <1>3, EmptyOK DEF Init, IInv

LEMMA StepGood == IInv /\ [Next]_vars => Good
<1> SUFFICES ASSUME IInv, [Next]_vars PROVE Good
  OBVIOUS
<1>1. ASSUME NEW d \in DOMAIN Dies, VisitStruct(d) PROVE Good
  BY <1>1, VisitStructGood
<1>2. ASSUME NEW t \in todo, VisitTypedef(t[1], t[2]) PROVE Good
  BY <1>2, VisitTypedefGood
<1>3. CASE SkipMember
  BY <1>3, SkipMemberGood
<1>4. CASE ReadMember
  BY <1>4, ReadMemberGood
<1>5. CASE EnterStruct
  BY <1>5, EnterStructGood
<1>6. CASE LastMember
  BY <1>6, LastMemberGood
<1>7. CASE SiblingError
  BY <1>7, SiblingErrorGood
<1>8. CASE NoMembers
  BY <1>8, NoMembersGood
<1>9. CASE PadGap
  BY <1>9, PadGapGood
<1>10. CASE PadEnd
  BY <1>10, PadEndGood
<1>11. CASE Return
  BY <1>11, ReturnGood
<1>12. CASE UNCHANGED vars
  BY <1>12, SameTableGrows DEF vars, IInv, Good
<1>13. QED
  BY <1>1, <1>2, <1>3, <1>4, <1>5, <1>6, <1>7, <1>8, <1>9, <1>10, <1>11, <1>12
     DEF Next

\* Calls in progress always point into their DIEs and into the fields of
\* their symbols, and every outer call stands at the member whose type is
\* being read, however structs nest.
THEOREM CallsCorrect == Spec => []CallsOK
<1>1. IInv => CallsOK
  <2> SUFFICES ASSUME IInv PROVE CallsOK
    OBVIOUS
  <2>1. stack \in Seq(Frames) /\ DOMAIN stack = 1 .. Len(stack) /\ Len(stack) \in Nat
    BY DEF IInv, StackOK
  <2>2. ASSUME NEW k \in DOMAIN stack
        PROVE  CallOK(stack[k], symbols) /\ (k > 1 => WaitOK(stack[k], symbols))
    <3>1. CASE k = 1
      BY <2>1, <3>1 DEF IInv, StackOK
    <3>2. CASE k # 1
      BY <2>1, <3>2 DEF IInv, StackOK, WaitOK
    <3>3. QED
      BY <3>1, <3>2
  <2>3. ASSUME NEW k \in DOMAIN stack
        PROVE  LET c == stack[k]
               IN  c.next \in 1 .. Len(Dies[c.die].members) + 1
    BY <2>2, DieFacts DEF CallOK, Frames
  <2>4. QED
    BY <2>2, <2>3 DEF CallsOK, CallOK, WaitOK, Frames, IInv
<1>2. IInv /\ [Next]_vars => IInv'
  BY StepGood DEF Good
<1>3. QED
  BY InitIInv, <1>1, <1>2, PTL DEF Spec

\* No step ever drops, changes or reorders a field of a symbol or changes
\* its byte size, and it adds at most one field - in whatever file, with
\* DIEs of any names, types and layouts.
THEOREM NoFieldIsLost == Spec => FieldsAreKept
<1>1. IInv /\ [Next]_vars => IInv' /\ Grows(symbols, symbols')
  BY StepGood DEF Good
<1>2. Grows(symbols, symbols') =>
        \A n \in DOMAIN symbols :
          /\ n \in DOMAIN symbols'
          /\ symbols'[n].byte_size = symbols[n].byte_size
          /\ \/ symbols'[n].fields = symbols[n].fields
             \/ AddsOne(symbols[n].fields, symbols'[n].fields)
  BY DEF Grows, Kept
<1>3. QED
  BY InitIInv, <1>1, <1>2, PTL DEF Spec, FieldsAreKept

-----------------------------------------------------------------------------
(* A complete reading of a struct DIE stores every member that can be      *)
(* read, however the readings of other structs come in between.            *)
(*                                                                         *)
(* The invariant says of every call in progress that the readable members  *)
(* it has passed are fields of its symbol.  It is kept because fields are  *)
(* never lost and because a call only moves on past a readable member with *)
(* the field in place: at once for a leaf, on the return of the nested     *)
(* call for a struct.                                                      *)

Stored(fields, name) == \E k \in DOMAIN fields : fields[k].name = name

\* The first `last' children of DIE d are stored in the symbol n, as far as
\* they can be read.
StoredUpTo(d, last, n, T) ==
  \A j \in 1 .. Len(Dies[d].members) :
    j <= last /\ Readable(Dies[d].members[j])
      => Stored(T[n].fields, Dies[d].members[j].name)

CallStores(c, T) ==
  /\ StoredUpTo(c.die, c.next - 1, c.symbol, T)
  /\ c.phase = "gaps" => c.next > Len(Dies[c.die].members)

StackStores(st, T) == \A k \in 1 .. Len(st) : CallStores(st[k], T)

ReadStores(r, T) ==
  /\ r[1] \in DOMAIN Dies /\ r[2] \in DOMAIN T
  /\ StoredUpTo(r[1], Len(Dies[r[1]].members), r[2], T)

ReadsStore(rs, T) == \A r \in rs : ReadStores(r, T)

\* The inductive invariant.
MInv == IInv /\ StackStores(stack, symbols) /\ ReadsStore(read, symbols)

-----------------------------------------------------------------------------
(* What is stored stays stored.                                            *)

LEMMA AddFieldStores ==
  ASSUME NEW s, NEW f, IsSeq(s)
  PROVE  Stored(AddField(s, f), f.name)
<1>1. CASE \E k \in DOMAIN s : s[k].name = f.name
  BY <1>1 DEF AddField, Stored
<1>2. CASE ~ \E k \in DOMAIN s : s[k].name = f.name
  <2>1. PICK S : s \in Seq(S)
    BY DEF IsSeq
  <2>2. s \in Seq(S \cup {f})
    BY <2>1
  <2>3. /\ Len(s) + 1 \in DOMAIN Append(s, f)
        /\ Append(s, f)[Len(s) + 1] = f
    BY <2>2
  <2>4. AddField(s, f) = Append(s, f)
    BY <1>2 DEF AddField
  <2>5. QED
    BY <2>3, <2>4 DEF Stored
<1>3. QED
  BY <1>1, <1>2

LEMMA StoredStays ==
  ASSUME NEW old, NEW new, NEW x, IsSeq(old), IsSeq(new), Kept(old, new), Stored(old, x)
  PROVE  Stored(new, x)
<1>1. CASE new = old
  BY <1>1
<1>2. CASE AddsOne(old, new)
  <2>1. PICK k \in DOMAIN old : old[k].name = x
    BY DEF Stored
  <2>2. PICK i \in DOMAIN new :
          \A j \in DOMAIN old : old[j] = new[IF j < i THEN j ELSE j + 1]
    BY <1>2 DEF AddsOne
  <2>3. /\ DOMAIN old = 1 .. Len(old) /\ Len(old) \in Nat
        /\ DOMAIN new = 1 .. Len(old) + 1
    BY <1>2, LenOfSeq DEF AddsOne
  <2>4. (IF k < i THEN k ELSE k + 1) \in DOMAIN new
    BY <2>3, <2>1, <2>2
  <2>5. new[IF k < i THEN k ELSE k + 1].name = x
    BY <2>1, <2>2
  <2>6. QED
    BY <2>4, <2>5 DEF Stored
<1>3. QED
  BY <1>1, <1>2 DEF Kept

LEMMA StoredUpToStays ==
  ASSUME NEW T, NEW U, IsTable(T), IsTable(U), Grows(T, U),
         NEW d, NEW last, NEW n \in DOMAIN T, StoredUpTo(d, last, n, T)
  PROVE  StoredUpTo(d, last, n, U)
<1>1. IsSeq(T[n].fields) /\ IsSeq(U[n].fields) /\ Kept(T[n].fields, U[n].fields)
  BY DEF IsTable, IsSymbol, Grows
<1>2. QED
  BY <1>1, StoredStays DEF StoredUpTo

LEMMA ReadsStay ==
  ASSUME NEW T, NEW U, IsTable(T), IsTable(U), Grows(T, U), NEW rs, ReadsStore(rs, T)
  PROVE  ReadsStore(rs, U)
BY StoredUpToStays DEF ReadsStore, ReadStores, Grows

-----------------------------------------------------------------------------
(* The calls.                                                              *)

LEMMA StackStays ==
  ASSUME NEW T, NEW U, IsTable(T), IsTable(U), Grows(T, U),
         NEW st, StackOK(st, T), StackStores(st, T)
  PROVE  StackStores(st, U)
<1> SUFFICES ASSUME NEW k \in 1 .. Len(st) PROVE CallStores(st[k], U)
  BY DEF StackStores
<1>1. st \in Seq(Frames) /\ Len(st) \in Nat
  BY DEF StackOK
<1>2. st[k].symbol \in DOMAIN T
  <2>1. CASE k = 1
    <3>1. st # << >>
      BY <1>1
    <3>2. QED
      BY <2>1, <3>1 DEF StackOK, CallOK
  <2>2. CASE k # 1
    <3>1. k \in 2 .. Len(st)
      BY <2>2, <1>1
    <3>2. QED
      BY <3>1 DEF StackOK, WaitOK, CallOK
  <2>3. QED
    BY <2>1, <2>2
<1>3. CallStores(st[k], T)
  BY DEF StackStores
<1>4. QED
  BY <1>2, <1>3, StoredUpToStays DEF CallStores

LEMMA PushStores ==
  ASSUME NEW U, NEW st, st \in Seq(Frames), StackStores(st, U),
         NEW c \in Frames, CallStores(c, U)
  PROVE  StackStores(<< c >> \o st, U)
<1>1. Len(st) \in Nat /\ Len(<< c >> \o st) = Len(st) + 1 /\ (<< c >> \o st)[1] = c
  OBVIOUS
<1>2. ASSUME NEW k \in 1 .. Len(st) + 1, k # 1
      PROVE  CallStores((<< c >> \o st)[k], U)
  <2>1. (<< c >> \o st)[k] = st[k - 1] /\ k - 1 \in 1 .. Len(st)
    BY <1>1, <1>2
  <2>2. QED
    BY <2>1 DEF StackStores
<1>3. QED
  BY <1>1, <1>2 DEF StackStores

LEMMA PopStores ==
  ASSUME NEW U, NEW st, st \in Seq(Frames), st # << >>, StackStores(st, U)
  PROVE  Tail(st) \in Seq(Frames) /\ StackStores(Tail(st), U)
<1>1. /\ Tail(st) \in Seq(Frames) /\ Len(Tail(st)) = Len(st) - 1
      /\ \A k \in 1 .. Len(st) - 1 : Tail(st)[k] = st[k + 1]
      /\ Len(st) \in Nat \ {0}
  OBVIOUS
<1>2. ASSUME NEW k \in 1 .. Len(st) - 1 PROVE CallStores(Tail(st)[k], U)
  BY <1>1 DEF StackStores
<1>3. QED
  BY <1>1, <1>2 DEF StackStores

LEMMA GotoStores ==
  ASSUME NEW U, NEW st, st \in Seq(Frames), st # << >>, StackStores(st, U),
         NEW c \in Frames, CallStores(c, U)
  PROVE  StackStores(<< c >> \o Tail(st), U)
BY PopStores, PushStores

\* A new call has passed no member.
LEMMA FrameStores ==
  ASSUME NEW d, NEW name, NEW U
  PROVE  CallStores(Frame(d, name), U)
BY DEF CallStores, StoredUpTo, Frame

-----------------------------------------------------------------------------
(* Every action.                                                           *)

\* What an action leaves to show: the call it moves on or begins, and the
\* reading it completes.
LEMMA Carried ==
  ASSUME MInv, Good
  PROVE  /\ StackStores(stack, symbols') /\ ReadsStore(read, symbols')
         /\ stack \in Seq(Frames)
BY StackStays, ReadsStay DEF MInv, Good, IInv, StackOK

LEMMA GotoKeeps ==
  ASSUME MInv, Good, stack # << >>, NEW c \in Frames, Goto(c),
         CallStores(c, symbols'), ReadsStore(read', symbols')
  PROVE  MInv'
<1>1. StackStores(stack', symbols')
  BY Carried, GotoStores DEF Goto
<1>2. QED
  BY <1>1 DEF MInv, Good

LEMMA TopStores ==
  ASSUME MInv, Good, stack # << >>
  PROVE  /\ CallStores(Top, symbols') /\ Top \in Frames /\ Top.symbol \in DOMAIN symbols'
         /\ Top.symbol \in DOMAIN symbols /\ Members = Dies[Top.die].members
         /\ Top.die \in DOMAIN Dies /\ Top.next \in Nat \ {0}
<1>1. CallOK(Top, symbols) /\ Top = stack[1]
  BY TopFacts DEF MInv
<1>2. 1 \in 1 .. Len(stack)
  BY DEF MInv, IInv, StackOK
<1>3. CallStores(Top, symbols')
  BY <1>1, <1>2, Carried DEF StackStores
<1>4. Top \in Frames /\ Top.symbol \in DOMAIN symbols
  BY <1>1 DEF CallOK
<1>5. QED
  BY <1>3, <1>4 DEF Good, Grows, Frames, Members

\* Moving on past a member that is stored or cannot be read.
LEMMA MovedOn ==
  ASSUME NEW U, NEW c \in Frames, NEW e, CallStores(c, U),
         e = [c EXCEPT !.next = @ + 1], c.phase = "members",
         Readable(Dies[c.die].members[c.next])
           => Stored(U[c.symbol].fields, Dies[c.die].members[c.next].name)
  PROVE  e \in Frames /\ CallStores(e, U)
<1>1. c.next \in Nat \ {0}
  BY DEF Frames
<1>2. /\ e \in Frames /\ e.die = c.die /\ e.symbol = c.symbol /\ e.next = c.next + 1
      /\ e.phase = "members"
  BY DEF Frames
<1>3. StoredUpTo(e.die, e.next - 1, e.symbol, U)
  <2> SUFFICES ASSUME NEW j \in 1 .. Len(Dies[c.die].members), j <= c.next,
                      Readable(Dies[c.die].members[j])
               PROVE  Stored(U[c.symbol].fields, Dies[c.die].members[j].name)
    BY <1>1, <1>2 DEF StoredUpTo
  <2>1. CASE j = c.next
    BY <2>1
  <2>2. CASE j # c.next
    <3>1. j <= c.next - 1
      BY <2>2, <1>1
    <3>2. QED
      BY <3>1 DEF CallStores, StoredUpTo
  <2>3. QED
    BY <2>1, <2>2
<1>4. QED
  BY <1>2, <1>3 DEF CallStores

\* A change of phase or of the position in addPaddingToStruct.
LEMMA SamePlace ==
  ASSUME NEW U, NEW c, NEW e, CallStores(c, U),
         e.die = c.die, e.symbol = c.symbol, e.next = c.next,
         e.phase = "gaps" => c.phase = "gaps" \/ c.next > Len(Dies[c.die].members)
  PROVE  CallStores(e, U)
BY DEF CallStores

LEMMA DoneFrame ==
  ASSUME NEW c \in Frames
  PROVE  LET e == [c EXCEPT !.phase = "done"]
         IN  /\ e \in Frames /\ e.die = c.die /\ e.symbol = c.symbol /\ e.next = c.next
             /\ e.phase = "done"
BY DEF Frames

\* The name under which a member is stored.
LEMMA StoresMember ==
  ASSUME NEW s, IsSeq(s), NEW m, NEW type, NEW size
  PROVE  Stored(AddField(s, NewField(m, type, size)), m.name)
<1>1. NewField(m, type, size).name = m.name
  BY DEF NewField
<1>2. QED
  BY <1>1, AddFieldStores

LEMMA VisitStructStores == ASSUME MInv, NEW d \in DOMAIN Dies, VisitStruct(d) PROVE MInv'
<1>1. Good /\ read' = read
  BY VisitStructGood DEF MInv, VisitStruct
<1>2. stack' = stack \/ stack' = << Frame(d, Dies[d].name) >>
  BY DEF VisitStruct
<1>3. StackStores(stack', symbols')
  BY <1>1, <1>2, Carried, FrameStores DEF StackStores
<1>4. QED
  BY <1>1, <1>3, Carried DEF MInv, Good

LEMMA VisitTypedefStores ==
  ASSUME MInv, NEW t \in todo, VisitTypedef(t[1], t[2]) PROVE MInv'
<1>1. Good /\ read' = read
  BY VisitTypedefGood DEF MInv, VisitTypedef
<1>2. stack' = stack \/ stack' = << Frame(t[1], SymbolName(t[1], t[2])) >>
  BY DEF VisitTypedef
<1>3. StackStores(stack', symbols')
  BY <1>1, <1>2, Carried, FrameStores DEF StackStores
<1>4. QED
  BY <1>1, <1>3, Carried DEF MInv, Good

LEMMA SkipMemberStores == ASSUME MInv, SkipMember PROVE MInv'
<1>1. Good /\ read' = read /\ stack # << >> /\ Goto(NextMember)
      /\ Top.phase = "members" /\ ~ Readable(Members[Top.next])
  BY SkipMemberGood DEF MInv, SkipMember, AtMember
<1>2. /\ CallStores(Top, symbols') /\ Top \in Frames
      /\ ~Readable(Dies[Top.die].members[Top.next])
  BY <1>1, TopStores
<1>3. NextMember \in Frames /\ CallStores(NextMember, symbols')
  BY <1>1, <1>2, MovedOn DEF NextMember
<1>4. QED
  BY <1>1, <1>3, Carried, GotoKeeps

LEMMA ReadMemberStores == ASSUME MInv, ReadMember PROVE MInv'
<1> DEFINE m == Members[Top.next]
           fs == AddField(Fields, NewField(m, "leaf", m.size))
<1>1. Good /\ read' = read /\ stack # << >> /\ Goto(NextMember)
      /\ Top.phase = "members" /\ SetFields(fs)
  BY ReadMemberGood DEF MInv, ReadMember, AtMember
<1>2. /\ IsTable(symbols) /\ IsSeq(Fields) /\ Top.symbol \in DOMAIN symbols
  BY <1>1, TopFacts DEF MInv, IInv
<1>3. IsSeq(fs) /\ Kept(Fields, fs) /\ Stored(fs, m.name)
  BY <1>2, AddFieldKeeps, StoresMember
<1> HIDE DEF fs
<1>4. symbols'[Top.symbol].fields = fs
  BY <1>1, <1>2, <1>3, SetFieldsGrows
<1>5. /\ CallStores(Top, symbols') /\ Top \in Frames
      /\ Stored(symbols'[Top.symbol].fields, Dies[Top.die].members[Top.next].name)
  BY <1>1, <1>3, <1>4, TopStores
<1>6. NextMember \in Frames /\ CallStores(NextMember, symbols')
  BY <1>1, <1>5, MovedOn DEF NextMember
<1>7. QED
  BY <1>1, <1>6, Carried, GotoKeeps

LEMMA EnterStructStores == ASSUME MInv, EnterStruct PROVE MInv'
<1>1. Good /\ read' = read
  BY EnterStructGood DEF MInv, EnterStruct
<1>2. PICK c : stack' = << c >> \o stack /\ CallStores(c, symbols')
  BY FrameStores DEF EnterStruct
<1>3. c \in Frames
  <2>1. stack' \in Seq(Frames) /\ stack \in Seq(Frames)
    BY <1>1 DEF Good, IInv, StackOK, MInv
  <2>2. (<< c >> \o stack)[1] = c /\ 1 \in 1 .. Len(<< c >> \o stack)
    BY <2>1
  <2>3. QED
    BY <1>2, <2>1, <2>2
<1>4. StackStores(stack', symbols')
  BY <1>1, <1>2, <1>3, Carried, PushStores
<1>5. QED
  BY <1>1, <1>4, Carried DEF MInv, Good

LEMMA LastMemberStores == ASSUME MInv, LastMember PROVE MInv'
<1> DEFINE n == IF HasBitFields(Fields) THEN 0 ELSE Len(Fields)
           c == [Top EXCEPT !.phase = "gaps", !.i = 2, !.count = n]
<1>1. Good /\ read' = read /\ stack # << >> /\ Goto(c) /\ Top.next > Len(Members)
  BY LastMemberGood DEF MInv, LastMember
<1>2. CallStores(Top, symbols') /\ Top \in Frames /\ Top.next > Len(Dies[Top.die].members)
  BY <1>1, TopStores
<1>3. n \in Nat
  BY <1>1, TopFacts, LenOfSeq DEF MInv
<1> HIDE DEF n
<1>4. c \in Frames /\ c.die = Top.die /\ c.symbol = Top.symbol /\ c.next = Top.next
  BY <1>2, <1>3 DEF Frames
<1> HIDE DEF c
<1>5. CallStores(c, symbols')
  BY <1>2, <1>4, SamePlace
<1>6. QED
  BY <1>1, <1>4, <1>5, Carried, GotoKeeps

LEMMA SiblingErrorStores == ASSUME MInv, SiblingError PROVE MInv'
<1> DEFINE c == [Top EXCEPT !.phase = "done"]
<1>1. Good /\ read' = read /\ stack # << >> /\ Goto(c)
  BY SiblingErrorGood DEF MInv, SiblingError
<1>2. c \in Frames /\ CallStores(c, symbols')
  BY <1>1, TopStores, DoneFrame, SamePlace
<1> HIDE DEF c
<1>3. QED
  BY <1>1, <1>2, Carried, GotoKeeps

\* A reading that is complete.
LEMMA DoneStores ==
  ASSUME MInv, Good, stack # << >>, Goto([Top EXCEPT !.phase = "done"]),
         read' = read \cup {<< Top.die, Top.symbol >>},
         StoredUpTo(Top.die, Len(Dies[Top.die].members), Top.symbol, symbols')
  PROVE  MInv'
<1> DEFINE c == [Top EXCEPT !.phase = "done"]
<1>1. c \in Frames /\ CallStores(c, symbols')
  BY TopStores, DoneFrame, SamePlace
<1>2. ReadsStore(read', symbols')
  BY Carried, TopStores DEF ReadsStore, ReadStores
<1>3. Goto(c)
  OBVIOUS
<1> HIDE DEF c
<1>4. QED
  BY <1>1, <1>2, <1>3, GotoKeeps

LEMMA NoMembersStores == ASSUME MInv, NoMembers PROVE MInv'
<1>1. /\ Good /\ stack # << >> /\ Goto([Top EXCEPT !.phase = "done"]) /\ Members = << >>
      /\ read' = read \cup {<< Top.die, Top.symbol >>}
  BY NoMembersGood DEF MInv, NoMembers
<1>2. Len(Dies[Top.die].members) = 0
  <2>1. Len(<< >>) = 0
    OBVIOUS
  <2>2. QED
    BY <2>1, <1>1, TopStores
<1>3. StoredUpTo(Top.die, Len(Dies[Top.die].members), Top.symbol, symbols')
  BY <1>2 DEF StoredUpTo
<1>4. QED
  BY <1>1, <1>3, DoneStores

LEMMA PadGapStores == ASSUME MInv, PadGap PROVE MInv'
<1>1. Good /\ read' = read /\ stack # << >> /\ Top.phase = "gaps"
  BY PadGapGood DEF MInv, PadGap, AtGap
<1>2. CallStores(Top, symbols') /\ Top \in Frames
  BY <1>1, TopStores
<1>3. PICK c : /\ Goto(c) /\ c \in Frames
               /\ c.die = Top.die /\ c.symbol = Top.symbol /\ c.next = Top.next
  <2> DEFINE u == [Top EXCEPT !.i = @ + 2, !.count = @ + 1, !.spares = @ + 1]
             v == [Top EXCEPT !.i = @ + 1]
  <2>1. Goto(u) \/ Goto(v)
    BY DEF PadGap
  <2>2. u \in Frames /\ u.die = Top.die /\ u.symbol = Top.symbol /\ u.next = Top.next
    BY <1>2, MovedFrame
  <2>3. v \in Frames /\ v.die = Top.die /\ v.symbol = Top.symbol /\ v.next = Top.next
    BY <1>2 DEF Frames
  <2> HIDE DEF u, v
  <2>4. QED
    BY <2>1, <2>2, <2>3
<1>4. CallStores(c, symbols')
  BY <1>1, <1>2, <1>3, SamePlace
<1>5. QED
  BY <1>1, <1>3, <1>4, Carried, GotoKeeps

LEMMA PadEndStores == ASSUME MInv, PadEnd PROVE MInv'
<1>1. /\ Good /\ stack # << >> /\ Top.phase = "gaps" /\ Goto([Top EXCEPT !.phase = "done"])
      /\ read' = read \cup {<< Top.die, Top.symbol >>}
  BY PadEndGood DEF MInv, PadEnd
<1>2. CallStores(Top, symbols') /\ Top.next \in Nat \ {0} /\ Top.die \in DOMAIN Dies
  BY <1>1, TopStores
<1>3. StoredUpTo(Top.die, Len(Dies[Top.die].members), Top.symbol, symbols')
  BY <1>1, <1>2, DieFacts DEF CallStores, StoredUpTo
<1>4. QED
  BY <1>1, <1>3, DoneStores

LEMMA Second ==
  ASSUME NEW n \in Nat, n # 0, n # 1 PROVE 2 \in 2 .. n /\ 2 \in 1 .. n
OBVIOUS

LEMMA ReturnStores == ASSUME MInv, Return PROVE MInv'
<1>1. /\ Good /\ read' = read /\ stack # << >> /\ StackStores(stack, symbols')
      /\ ReadsStore(read, symbols')
  BY ReturnGood, Carried DEF MInv, Return
<1>2. /\ stack \in Seq(Frames) /\ Len(stack) \in Nat \ {0}
      /\ Len(stack) # 1 => 2 \in 2 .. Len(stack) /\ 2 \in 1 .. Len(stack)
  <2>1. stack \in Seq(Frames)
    BY <1>1, Carried
  <2>2. Len(stack) \in Nat \ {0}
    BY <2>1, <1>1
  <2>3. QED
    BY <2>1, <2>2, Second
<1>3. CASE Len(stack) = 1
  <2>1. stack' = << >> /\ Len(<< >>) = 0
    BY <1>3 DEF Return
  <2>2. StackStores(stack', symbols')
    BY <2>1 DEF StackStores
  <2>3. QED
    BY <1>1, <2>2 DEF MInv, Good
<1>4. CASE Len(stack) # 1
  <2> DEFINE caller == stack[2]
             m == Dies[caller.die].members[caller.next]
             f == NewField(m, Top.symbol, symbols[Top.symbol].byte_size)
             c == [caller EXCEPT !.next = @ + 1]
             old == symbols[caller.symbol].fields
             fs == IF m.constant THEN old ELSE AddField(old, f)
  <2>1. /\ stack' = << c >> \o Tail(Tail(stack))
        /\ symbols' = [symbols EXCEPT ![caller.symbol].fields = fs]
    BY <1>4 DEF Return
  <2>2. WaitOK(caller, symbols) /\ CallStores(caller, symbols')
    <3>1. 2 \in 2 .. Len(stack) /\ 2 \in 1 .. Len(stack)
      BY <1>2, <1>4
    <3>2. QED
      BY <3>1, <1>1 DEF MInv, IInv, StackOK, StackStores
  <2>3. /\ caller \in Frames /\ caller.symbol \in DOMAIN symbols
        /\ caller.phase = "members" /\ IsTable(symbols)
        /\ IsSeq(symbols[caller.symbol].fields)
    BY <2>2 DEF WaitOK, CallOK, MInv, IInv, IsTable, IsSymbol
  <2>4. /\ IsSeq(fs) /\ Kept(symbols[caller.symbol].fields, fs)
        /\ Readable(m) => Stored(fs, m.name)
    BY <2>3, AddFieldKeeps, StoresMember DEF Readable, Kept
  <2> HIDE DEF fs
  <2>5. symbols'[caller.symbol].fields = fs
    BY <2>1, <2>3, <2>4, FieldsGrow
  <2>6. c \in Frames /\ CallStores(c, symbols')
    BY <2>2, <2>3, <2>4, <2>5, MovedOn
  <2>7. /\ Tail(stack) \in Seq(Frames) /\ Tail(stack) # << >>
        /\ StackStores(Tail(stack), symbols')
    <3>1. Len(Tail(stack)) = Len(stack) - 1 /\ Len(<< >>) = 0
      BY <1>2, <1>1
    <3>2. Tail(stack) # << >>
      <4>1. Len(Tail(stack)) # 0
        BY <3>1, <1>2, <1>4
      <4>2. QED
        BY <4>1, <3>1
    <3>3. QED
      BY <3>2, <1>2, <1>1, PopStores
  <2> HIDE DEF c
  <2>8. StackStores(stack', symbols')
    BY <2>1, <2>6, <2>7, GotoStores
  <2>9. QED
    BY <1>1, <2>8 DEF MInv, Good
<1>5. QED
  BY <1>3, <1>4

-----------------------------------------------------------------------------
(* The theorem.                                                            *)

LEMMA InitMInv == Init => MInv
<1> SUFFICES ASSUME Init PROVE MInv
  OBVIOUS
<1>1. stack = << >> /\ Len(<< >>) = 0 /\ read = {}
  BY DEF Init
<1>2. QED
  BY <1>1, InitIInv DEF MInv, StackStores, ReadsStore

LEMMA StepMInv == MInv /\ [Next]_vars => MInv'
<1> SUFFICES ASSUME MInv, [Next]_vars PROVE MInv'
  OBVIOUS
<1>1. ASSUME NEW d \in DOMAIN Dies, VisitStruct(d) PROVE MInv'
  BY <1>1, VisitStructStores
<1>2. ASSUME NEW t \in todo, VisitTypedef(t[1], t[2]) PROVE MInv'
  BY <1>2, VisitTypedefStores
<1>3. CASE SkipMember
  BY <1>3, SkipMemberStores
<1>4. CASE ReadMember
  BY <1>4, ReadMemberStores
<1>5. CASE EnterStruct
  BY <1>5, EnterStructStores
<1>6. CASE LastMember
  BY <1>6, LastMemberStores
<1>7. CASE SiblingError
  BY <1>7, SiblingErrorStores
<1>8. CASE NoMembers
  BY <1>8, NoMembersStores
<1>9. CASE PadGap
  BY <1>9, PadGapStores
<1>10. CASE PadEnd
  BY <1>10, PadEndStores
<1>11. CASE Return
  BY <1>11, ReturnStores
<1>12. CASE UNCHANGED vars
  BY <1>12 DEF vars, MInv, IInv
<1>13. QED
  BY <1>1, <1>2, <1>3, <1>4, <1>5, <1>6, <1>7, <1>8, <1>9, <1>10, <1>11, <1>12
     DEF Next

\* After a complete reading of a struct DIE every member of it that can be
\* read is a field of its symbol, whatever other children it has, however
\* its members' types nest and whichever DIEs share its name.
THEOREM MembersAreStored == Spec => []ReadableMembersStored
<1>1. MInv => ReadableMembersStored
  <2> SUFFICES ASSUME MInv, NEW r \in read, NEW m \in Range(Dies[r[1]].members), Readable(m)
               PROVE  \E f \in Range(symbols[r[2]].fields) : f.name = m.name
    BY DEF ReadableMembersStored
  <2>1. ReadStores(r, symbols)
    BY DEF MInv, ReadsStore
  <2>2. PICK j \in DOMAIN Dies[r[1]].members : Dies[r[1]].members[j] = m
    BY DEF Range
  <2>3. /\ DOMAIN Dies[r[1]].members = 1 .. Len(Dies[r[1]].members)
        /\ Len(Dies[r[1]].members) \in Nat
    <3>1. IsDie(Dies[r[1]])
      BY <2>1, DiesAssumption DEF ReadStores
    <3>2. Dies[r[1]].members \in Seq(Range(Dies[r[1]].members))
      BY <3>1 DEF IsDie
    <3>3. QED
      BY <3>2
  <2>4. Stored(symbols[r[2]].fields, m.name)
    BY <2>1, <2>2, <2>3 DEF ReadStores, StoredUpTo
  <2>5. QED
    BY <2>4 DEF Stored, Range
<1>2. QED
  BY InitMInv, StepMInv, <1>1, PTL DEF Spec

=============================================================================
