-------------------------- MODULE DwarfTypesProofs --------------------------
(***************************************************************************)
(* Proofs about DwarfTypes, for any DIEs in any order and any failing      *)
(* calls: what a symbol or variable refers to is stored, a typedef names a *)
(* symbol that was there before it and has its size.  As long as no call   *)
(* failed, the name that the symbol of a typedef stands for, the types of  *)
(* a struct's fields and the enumerators of an enumeration are those of    *)
(* their DIEs.                                                             *)
(***************************************************************************)
EXTENDS DwarfTypes, SequenceTheorems, WellFoundedInduction, TLAPS

-----------------------------------------------------------------------------
(* The symbol table.                                                       *)

Enumerator  == [name : STRING, value : Int]
FieldOf(T)  == [name : STRING, type : DOMAIN T, dims : Seq(Nat)]

\* A typedef refers to a symbol of the table that has its size, a field to
\* any symbol of it.
SymbolOf(y, T) ==
  /\ y = [ size |-> y.size, target |-> y.target, fields |-> y.fields,
           enumerators |-> y.enumerators ]
  /\ y.size \in Nat
  /\ y.fields \in Seq(FieldOf(T))
  /\ y.enumerators \in Seq(Enumerator)
  /\ y.target # Null => y.target \in DOMAIN T /\ T[y.target].size = y.size

IsTable(T) == /\ T = [n \in DOMAIN T |-> T[n]]
              /\ \A n \in DOMAIN T : SymbolOf(T[n], T)

\* Symbols keep their size and target, and new ones refer to earlier ones.
Grows(T, U) ==
  /\ \A n \in DOMAIN T : /\ n \in DOMAIN U
                         /\ U[n].size = T[n].size
                         /\ U[n].target = T[n].target
  /\ \A n \in DOMAIN U \ DOMAIN T : U[n].target # Null => U[n].target \in DOMAIN T

LEMMA SameGrows == ASSUME NEW T PROVE Grows(T, T)
BY DEF Grows

LEMMA FieldsGrow ==
  ASSUME NEW T, NEW U, Grows(T, U), NEW f \in Seq(FieldOf(T))
  PROVE  f \in Seq(FieldOf(U))
<1>1. FieldOf(T) \subseteq FieldOf(U)
  BY DEF FieldOf, Grows
<1>2. QED
  BY <1>1, SeqMonotonic

\* What a symbol of a table refers to is also in a larger table.
LEMMA SymbolGrows ==
  ASSUME NEW T, NEW U, Grows(T, U), NEW y, SymbolOf(y, T)
  PROVE  SymbolOf(y, U)
<1>1. y.fields \in Seq(FieldOf(U))
  BY FieldsGrow DEF SymbolOf
<1>2. y.target # Null => y.target \in DOMAIN U /\ U[y.target].size = y.size
  BY DEF SymbolOf, Grows
<1>3. QED
  BY <1>1, <1>2 DEF SymbolOf

LEMMA AddSymbolGrows ==
  ASSUME IsTable(symbols), NEW name, NEW size \in Nat, NEW target,
         target # Null => target \in DOMAIN symbols /\ symbols[target].size = size
  PROVE  /\ IsTable(AddSymbol(name, size, target))
         /\ Grows(symbols, AddSymbol(name, size, target))
         /\ DOMAIN AddSymbol(name, size, target) = DOMAIN symbols \cup {name}
<1>1. CASE name \in DOMAIN symbols
  <2>1. AddSymbol(name, size, target) = symbols
    BY <1>1 DEF AddSymbol
  <2>2. DOMAIN symbols = DOMAIN symbols \cup {name}
    BY <1>1
  <2>3. QED
    BY <2>1, <2>2, SameGrows
<1>2. CASE name \notin DOMAIN symbols
  <2> DEFINE y == NewSymbol(size, target)
             U == With(name, y)
  <2>1. AddSymbol(name, size, target) = U
    BY <1>2 DEF AddSymbol
  <2>2. /\ U = [n \in DOMAIN U |-> U[n]]
        /\ DOMAIN U = DOMAIN symbols \cup {name}
        /\ U[name] = y
        /\ \A n \in DOMAIN symbols : U[n] = symbols[n]
    BY <1>2 DEF With
  <2>3. /\ y = [ size |-> y.size, target |-> y.target, fields |-> y.fields,
                 enumerators |-> y.enumerators ]
        /\ y.size = size /\ y.target = target
        /\ y.fields = << >> /\ y.enumerators = << >>
    BY DEF NewSymbol
  <2> HIDE DEF U, y
  <2>4. Grows(symbols, U)
    BY <2>2, <2>3 DEF Grows
  <2>5. SymbolOf(y, symbols)
    BY <2>3, EmptySeq DEF SymbolOf
  <2>6. \A n \in DOMAIN U : SymbolOf(U[n], symbols)
    BY <2>2, <2>5 DEF IsTable
  <2>7. \A n \in DOMAIN U : SymbolOf(U[n], U)
    BY <2>4, <2>6, SymbolGrows
  <2>8. IsTable(U)
    BY <2>2, <2>7 DEF IsTable
  <2>9. QED
    BY <2>1, <2>2, <2>4, <2>8
<1>3. QED
  BY <1>1, <1>2

\* A table where one symbol has other fields and enumerators.
LEMMA ReplaceGrows ==
  ASSUME NEW T, IsTable(T), NEW n \in DOMAIN T, NEW y, NEW U,
         U = [T EXCEPT ![n] = y],
         y = [ size |-> T[n].size, target |-> T[n].target, fields |-> y.fields,
               enumerators |-> y.enumerators ],
         y.fields \in Seq(FieldOf(T)), y.enumerators \in Seq(Enumerator)
  PROVE  IsTable(U) /\ Grows(T, U) /\ DOMAIN U = DOMAIN T
<1>1. /\ DOMAIN U = DOMAIN T /\ U = [m \in DOMAIN U |-> U[m]]
      /\ U[n] = y /\ \A m \in DOMAIN T \ {n} : U[m] = T[m]
  BY DEF IsTable
<1>2. y.size = T[n].size /\ y.target = T[n].target
  OBVIOUS
<1>3. Grows(T, U)
  BY <1>1, <1>2 DEF Grows
<1>4. SymbolOf(y, T)
  BY <1>2 DEF IsTable, SymbolOf
<1>5. \A m \in DOMAIN U : SymbolOf(U[m], T)
  BY <1>1, <1>4 DEF IsTable
<1>6. \A m \in DOMAIN U : SymbolOf(U[m], U)
  BY <1>3, <1>5, SymbolGrows
<1>7. QED
  BY <1>1, <1>3, <1>6 DEF IsTable

LEMMA GrowsTransitive ==
  ASSUME NEW T, NEW U, NEW V, Grows(T, U), Grows(U, V), DOMAIN V = DOMAIN U
  PROVE  Grows(T, V)
BY DEF Grows

\* Symbol::addField.
LEMMA AddFieldGrows ==
  ASSUME IsTable(symbols), NEW n \in DOMAIN symbols, NEW f \in FieldOf(symbols), NEW U,
         U = [symbols EXCEPT ![n].fields = AddField(@, f)]
  PROVE  IsTable(U) /\ Grows(symbols, U) /\ DOMAIN U = DOMAIN symbols
<1> DEFINE fs == AddField(symbols[n].fields, f)
           y  == [symbols[n] EXCEPT !.fields = fs]
<1>1. fs \in Seq(FieldOf(symbols))
  <2>1. symbols[n].fields \in Seq(FieldOf(symbols))
    BY DEF IsTable, SymbolOf
  <2>2. QED
    BY <2>1, AppendProperties DEF AddField
<1> HIDE DEF fs
<1>2. y = [ size |-> symbols[n].size, target |-> symbols[n].target, fields |-> y.fields,
            enumerators |-> y.enumerators ]
      /\ y.fields = fs /\ y.enumerators = symbols[n].enumerators
  <2>1. \A a, b, c, d :
          [[size |-> a, target |-> b, fields |-> c, enumerators |-> d] EXCEPT !.fields = fs]
            = [size |-> a, target |-> b, fields |-> fs, enumerators |-> d]
    OBVIOUS
  <2>2. symbols[n] = [ size |-> symbols[n].size, target |-> symbols[n].target,
                       fields |-> symbols[n].fields,
                       enumerators |-> symbols[n].enumerators ]
    BY DEF IsTable, SymbolOf
  <2>3. y = [ size |-> symbols[n].size, target |-> symbols[n].target, fields |-> fs,
              enumerators |-> symbols[n].enumerators ]
    BY <2>1, <2>2
  <2> HIDE DEF y
  <2>4. QED
    BY <2>3
<1>3. U = [symbols EXCEPT ![n] = y]
  BY DEF fs
<1>4. y.enumerators \in Seq(Enumerator)
  BY <1>2 DEF IsTable, SymbolOf
<1> HIDE DEF y
<1>5. QED
  BY <1>1, <1>2, <1>3, <1>4, ReplaceGrows

\* The conversion to int32_t gives a number.
LEMMA ToInt32Type == ASSUME NEW v \in Int PROVE ToInt32(v) \in Int
<1>1. Range32 \in Nat \ {0}
  BY BoundsAssumption
<1>2. Range32 \div 2 \in Int
  BY <1>1
<1> DEFINE half == Range32 \div 2
<1> HIDE DEF half
<1>3. (v + half) % Range32 \in Int
  BY <1>1, <1>2 DEF half
<1>4. ((v + half) % Range32) - half \in Int
  BY <1>2, <1>3 DEF half
<1>5. QED
  BY <1>4 DEF ToInt32, half

\* process_DW_TAG_enumeration_type appends enumerators to one symbol.
LEMMA WithEnumeratorsGrows ==
  ASSUME NEW T, IsTable(T), NEW n \in DOMAIN T, Type.enumerators \in Seq(Enumerator),
         NEW count \in 0 .. Len(Type.enumerators), NEW U, U = WithEnumerators(T, n, count)
  PROVE  IsTable(U) /\ Grows(T, U) /\ DOMAIN U = DOMAIN T
<1> DEFINE es == Type.enumerators
           new == [ k \in 1 .. count |-> [es[k] EXCEPT !.value = ToInt32(@)] ]
           all == T[n].enumerators \o new
           y == [T[n] EXCEPT !.enumerators = all]
<1>1. count \in Nat /\ \A k \in 1 .. count : k \in 1 .. Len(es)
  OBVIOUS
<1>2. new \in Seq(Enumerator)
  <2>1. ASSUME NEW k \in 1 .. count
        PROVE  [es[k] EXCEPT !.value = ToInt32(@)] \in Enumerator
    <3>1. es[k] \in Enumerator
      BY <1>1, ElementOfSeq
    <3>2. ToInt32(es[k].value) \in Int
      BY <3>1, ToInt32Type DEF Enumerator
    <3>3. QED
      BY <3>1, <3>2 DEF Enumerator
  <2>2. new \in [1 .. count -> Enumerator]
    BY <2>1
  <2> HIDE DEF new
  <2>3. QED
    BY <1>1, <2>2
<1>3. all \in Seq(Enumerator)
  <2> HIDE DEF new
  <2>1. T[n].enumerators \in Seq(Enumerator)
    BY DEF IsTable, SymbolOf
  <2>2. QED
    BY <1>2, <2>1, ConcatProperties
<1>4. U = [T EXCEPT ![n] = y]
  BY DEF WithEnumerators
<1> HIDE DEF all, new
<1>5. y = [ size |-> T[n].size, target |-> T[n].target, fields |-> T[n].fields,
            enumerators |-> all ]
  <2>1. \A a, b, c, d :
          [[size |-> a, target |-> b, fields |-> c, enumerators |-> d]
              EXCEPT !.enumerators = all]
            = [size |-> a, target |-> b, fields |-> c, enumerators |-> all]
    OBVIOUS
  <2>2. T[n] = [ size |-> T[n].size, target |-> T[n].target,
                 fields |-> T[n].fields, enumerators |-> T[n].enumerators ]
    BY DEF IsTable, SymbolOf
  <2>3. QED
    BY <2>1, <2>2
<1> HIDE DEF y
<1>6. T[n].fields \in Seq(FieldOf(T))
  BY DEF IsTable, SymbolOf
<1>7. /\ y = [ size |-> T[n].size, target |-> T[n].target, fields |-> y.fields,
               enumerators |-> y.enumerators ]
      /\ y.fields \in Seq(FieldOf(T)) /\ y.enumerators \in Seq(Enumerator)
  BY <1>3, <1>5, <1>6
<1>8. QED
  BY <1>4, <1>7, ReplaceGrows

-----------------------------------------------------------------------------
(* The calls in progress.                                                  *)

Functions == {"type", "base_type", "typedef", "structure_type", "variable"}

\* A call for a DIE; that of a struct is filling a symbol of the table.
Calls(T) ==
  { c \in [ function : Functions, die : DOMAIN Dies, symbol : DOMAIN T \cup {""},
            next : Nat \ {0} ] :
      c.function = "structure_type" => c.symbol \in DOMAIN T }

\* The function for base types calls no other.
IsStack(s, T) == /\ s \in Seq(Calls(T))
                 /\ \A k \in 2 .. Len(s) : s[k].function # "base_type"

Answers(T) == [symbol : DOMAIN T \cup {Null}, dims : Seq(Nat)]

Control(s, a, T) ==
  /\ IsStack(s, T)
  /\ a \in Seq(Answers(T))
  /\ a # << >> => s # << >> /\ s[1].function # "base_type"

LEMMA StackGrows ==
  ASSUME NEW T, NEW U, Grows(T, U), NEW s, IsStack(s, T)
  PROVE  IsStack(s, U)
<1>1. DOMAIN T \subseteq DOMAIN U
  BY DEF Grows
<1>2. Calls(T) \subseteq Calls(U)
  BY <1>1 DEF Calls
<1>3. QED
  BY <1>2, SeqMonotonic DEF IsStack

LEMMA ControlGrows ==
  ASSUME NEW T, NEW U, Grows(T, U), NEW s, NEW a, Control(s, a, T)
  PROVE  Control(s, a, U)
<1>1. Answers(T) \subseteq Answers(U)
  BY DEF Answers, Grows
<1>2. a \in Seq(Answers(U))
  BY <1>1, SeqMonotonic DEF Control
<1>3. QED
  BY <1>2, StackGrows DEF Control

\* A sequence with another first element before a part of it.
LEMMA ConsProperties ==
  ASSUME NEW S, NEW s \in Seq(S), NEW c \in S
  PROVE  /\ << c >> \o s \in Seq(S) /\ << c >> \o s # << >>
         /\ Len(<< c >> \o s) = Len(s) + 1 /\ (<< c >> \o s)[1] = c
         /\ \A k \in 2 .. Len(s) + 1 : (<< c >> \o s)[k] = s[k - 1]
<1>1. << c >> \in Seq(S) /\ Len(<< c >>) = 1 /\ << c >>[1] = c
  OBVIOUS
<1> DEFINE h == << c >>
           t == h \o s
<1> HIDE DEF h
<1>2. /\ t \in Seq(S) /\ Len(t) = 1 + Len(s) /\ Len(s) \in Nat
      /\ \A i \in 1 .. 1 + Len(s) : t[i] = IF i <= 1 THEN h[i] ELSE s[i - 1]
  BY <1>1, ConcatProperties, LenProperties DEF h
<1> HIDE DEF t
<1>3. t[1] = c /\ \A k \in 2 .. Len(s) + 1 : t[k] = s[k - 1]
  BY <1>1, <1>2 DEF h
<1>4. t # << >>
  BY <1>2
<1>5. QED
  BY <1>2, <1>3, <1>4 DEF t, h

LEMMA PushControl ==
  ASSUME NEW T, IsStack(stack, T), NEW call \in Calls(T), Push(call),
         stack # << >> => Top.function # "base_type"
  PROVE  Control(stack', answer', T)
<1> DEFINE t == << call >> \o stack
<1>1. stack \in Seq(Calls(T)) /\ stack' = t /\ answer' = << >> /\ Len(stack) \in Nat
  BY LenProperties DEF IsStack, Push
<1>2. /\ t \in Seq(Calls(T)) /\ Len(t) = Len(stack) + 1
      /\ \A k \in 2 .. Len(stack) + 1 : t[k] = stack[k - 1]
  BY <1>1, ConsProperties
<1> HIDE DEF t
<1>3. \A k \in 1 .. Len(stack) : stack[k].function # "base_type"
  <2>1. stack # << >> => Top = stack[1]
    BY <1>1 DEF Top
  <2>2. ASSUME NEW k \in 1 .. Len(stack) PROVE stack[k].function # "base_type"
    <3>1. CASE k = 1
      BY <2>1, <3>1, <1>1
    <3>2. CASE k # 1
      BY <3>2, <1>1 DEF IsStack
    <3>3. QED
      BY <3>1, <3>2
  <2>3. QED
    BY <2>2
<1>4. \A k \in 2 .. Len(t) : t[k].function # "base_type"
  BY <1>1, <1>2, <1>3
<1>5. QED
  BY <1>1, <1>2, <1>4, EmptySeq DEF Control, IsStack

LEMMA TailStack ==
  ASSUME NEW T, IsStack(stack, T), stack # << >>
  PROVE  /\ IsStack(Tail(stack), T) /\ Len(Tail(stack)) = Len(stack) - 1
         /\ \A k \in 1 .. Len(Tail(stack)) : Tail(stack)[k].function # "base_type"
<1>1. /\ Tail(stack) \in Seq(Calls(T)) /\ Len(Tail(stack)) = Len(stack) - 1
      /\ Len(stack) \in Nat
      /\ \A k \in 1 .. Len(Tail(stack)) : Tail(stack)[k] = stack[k + 1]
  BY HeadTailProperties, LenProperties DEF IsStack
<1>2. \A k \in 1 .. Len(Tail(stack)) : Tail(stack)[k].function # "base_type"
  BY <1>1 DEF IsStack
<1>3. QED
  BY <1>1, <1>2 DEF IsStack

LEMMA TailCallControl ==
  ASSUME NEW T, IsStack(stack, T), stack # << >>, NEW call \in Calls(T), TailCall(call)
  PROVE  Control(stack', answer', T)
<1> DEFINE s == Tail(stack)
           t == << call >> \o s
<1>1. /\ s \in Seq(Calls(T)) /\ Len(s) \in Nat
      /\ \A k \in 1 .. Len(s) : s[k].function # "base_type"
      /\ stack' = t /\ answer' = << >>
  BY TailStack, LenProperties DEF IsStack, TailCall
<1> HIDE DEF s
<1>2. /\ t \in Seq(Calls(T)) /\ Len(t) = Len(s) + 1
      /\ \A k \in 2 .. Len(s) + 1 : t[k] = s[k - 1]
  BY <1>1, ConsProperties
<1> HIDE DEF t
<1>3. \A k \in 2 .. Len(t) : t[k].function # "base_type"
  BY <1>1, <1>2
<1>4. QED
  BY <1>1, <1>2, <1>3, EmptySeq DEF Control, IsStack

LEMMA ReturnControl ==
  ASSUME NEW T, IsStack(stack, T), stack # << >>, NEW symbol \in DOMAIN T \cup {Null},
         NEW dims \in Seq(Nat), Return(symbol, dims)
  PROVE  Control(stack', answer', T)
<1> DEFINE s == Tail(stack)
           x == [symbol |-> symbol, dims |-> dims]
<1>1. /\ IsStack(s, T) /\ stack' = s /\ Len(s) = Len(stack) - 1
      /\ Len(stack) \in Nat \ {0} /\ s \in Seq(Calls(T))
      /\ \A k \in 1 .. Len(s) : s[k].function # "base_type"
  BY TailStack, EmptySeq DEF IsStack, Return
<1>2. x \in Answers(T)
  BY DEF Answers
<1>3. << x >> \in Seq(Answers(T)) /\ << >> \in Seq(Answers(T))
  BY <1>2
<1> HIDE DEF s, x
<1>4. answer' = IF Len(stack) = 1 THEN << >> ELSE << x >>
  BY DEF Return, x
<1>5. answer' # << >> => s # << >> /\ s[1].function # "base_type"
  <2>1. ASSUME answer' # << >> PROVE Len(s) >= 1
    BY <2>1, <1>1, <1>4
  <2>2. Len(<< >>) = 0
    OBVIOUS
  <2>3. QED
    BY <1>1, <2>1, <2>2
<1>6. QED
  BY <1>1, <1>3, <1>4, <1>5 DEF Control

-----------------------------------------------------------------------------
(* The inductive invariant: the table, the calls and their answers refer   *)
(* to symbols of the table only.                                           *)

Inv ==
  /\ IsTable(symbols)
  /\ variables \in Seq([name : STRING, type : DOMAIN symbols])
  /\ Control(stack, answer, symbols)
  /\ todo \subseteq DOMAIN Dies
  /\ errors \in 0 .. MaxErrors /\ aborted \in BOOLEAN

\* A step that changes neither variables nor what is left to visit.
LEMMA StepInv ==
  ASSUME Inv, IsTable(symbols'), Grows(symbols, symbols'),
         Control(stack', answer', symbols'), variables' = variables,
         todo' \subseteq todo, errors' = errors \/ Fail, aborted' \in BOOLEAN
  PROVE  Inv' /\ Grows(symbols, symbols')
<1>1. DOMAIN symbols \subseteq DOMAIN symbols'
  BY DEF Grows
<1>2. [name : STRING, type : DOMAIN symbols] \subseteq [name : STRING, type : DOMAIN symbols']
  BY <1>1
<1>3. variables' \in Seq([name : STRING, type : DOMAIN symbols'])
  BY <1>2, SeqMonotonic DEF Inv
<1>4. errors' \in 0 .. MaxErrors
  BY BoundsAssumption DEF Inv, Fail
<1>5. todo' \subseteq DOMAIN Dies
  BY DEF Inv
<1>6. QED
  BY <1>3, <1>4, <1>5 DEF Inv

LEMMA InitInv == ASSUME Init PROVE Inv
<1>1. IsTable(symbols)
  <2>1. DOMAIN << >> = {} /\ << >> = [n \in DOMAIN << >> |-> << >>[n]]
    OBVIOUS
  <2>2. QED
    BY <2>1 DEF Init, IsTable
<1>2. Control(stack, answer, symbols)
  <2>1. << >> \in Seq(Calls(symbols)) /\ << >> \in Seq(Answers(symbols)) /\ Len(<< >>) = 0
    OBVIOUS
  <2>2. QED
    BY <2>1 DEF Init, Control, IsStack
<1>3. variables \in Seq([name : STRING, type : DOMAIN symbols])
  <2>1. variables = << >>
    BY DEF Init
  <2>2. QED
    BY <2>1
<1>4. todo \subseteq DOMAIN Dies
  BY DEF Init
<1>5. errors \in 0 .. MaxErrors /\ aborted \in BOOLEAN
  <2>1. MaxErrors \in Nat
    BY BoundsAssumption
  <2>2. errors = 0 /\ aborted = FALSE
    BY DEF Init
  <2>3. 0 \in 0 .. MaxErrors
    BY <2>1
  <2>4. QED
    BY <2>2, <2>3, Zenon
<1>6. QED
  BY <1>1, <1>2, <1>3, <1>4, <1>5 DEF Inv

\* The call on top is for a DIE, and so is the type of it.
LEMMA TopCall ==
  ASSUME Inv, stack # << >>
  PROVE  /\ IsStack(stack, symbols) /\ Top \in Calls(symbols) /\ Top = stack[1]
         /\ Top.die \in DOMAIN Dies /\ IsDie(TopDie)
         /\ TopDie.tag = "base_type" => TopDie.size \in Nat
         /\ TopDie.type # Null => /\ TopDie.type \in DOMAIN Dies /\ IsDie(Type)
                                  /\ Type.tag = "enumeration_type" => Type.size \in Nat
                                  /\ Type.size # Null => Type.size \in Nat
<1>1. IsStack(stack, symbols)
  BY DEF Inv, Control
<1>2. Top \in Calls(symbols) /\ Top = stack[1]
  BY <1>1, HeadTailProperties DEF IsStack, Top
<1>3. Top.die \in DOMAIN Dies
  BY <1>2 DEF Calls
<1>4. \A d \in DOMAIN Dies :
        /\ IsDie(Dies[d])
        /\ Dies[d].tag \in {"base_type", "enumeration_type"} => Dies[d].size \in Nat
        /\ Dies[d].size # Null => Dies[d].size \in Nat
  BY DiesAssumption DEF IsDie
<1>5. TopDie.type # Null => TopDie.type \in DOMAIN Dies
  BY <1>3, <1>4 DEF TopDie, IsDie
<1>6. QED
  BY <1>1, <1>2, <1>3, <1>4, <1>5 DEF TopDie, Type

LEMMA GivenAnswer ==
  ASSUME Inv, Waiting
  PROVE  Answer \in Answers(symbols) /\ Top.function # "base_type"
<1>1. answer # << >> /\ answer \in Seq(Answers(symbols))
  BY DEF Inv, Control, Waiting
<1>2. Answer \in Answers(symbols)
  BY <1>1, HeadTailProperties DEF Answer
<1>3. stack # << >> /\ stack[1].function # "base_type"
  BY <1>1 DEF Inv, Control
<1>4. QED
  BY <1>2, <1>3, TopCall

\* A call that answers or calls another without a new symbol.
LEMMA SameSymbolsInv ==
  ASSUME Inv, symbols' = symbols, Control(stack', answer', symbols),
         UNCHANGED << variables, todo, aborted >>, errors' = errors \/ Fail
  PROVE  Inv' /\ Grows(symbols, symbols')
<1>1. Grows(symbols, symbols')
  BY SameGrows
<1>2. IsTable(symbols') /\ todo' \subseteq todo /\ aborted' \in BOOLEAN
  BY DEF Inv
<1>3. QED
  BY <1>1, <1>2, StepInv

LEMMA ReturnNullInv ==
  ASSUME Inv, symbols' = symbols, stack # << >>, Return(Null, << >>),
         UNCHANGED << variables, todo, aborted >>, errors' = errors \/ Fail
  PROVE  Inv' /\ Grows(symbols, symbols')
<1>1. IsStack(stack, symbols) /\ << >> \in Seq(Nat)
  BY TopCall
<1>2. Control(stack', answer', symbols)
  BY <1>1, ReturnControl
<1>3. QED
  BY <1>2, SameSymbolsInv

\* A call that adds a symbol without a target, and answers it.
LEMMA AddAndReturnInv ==
  ASSUME Inv, stack # << >>, NEW name, NEW size \in Nat, NEW target,
         target # Null => target \in DOMAIN symbols /\ symbols[target].size = size,
         symbols' = AddSymbol(name, size, target), Return(name, << >>),
         UNCHANGED << variables, todo, aborted >>, errors' = errors \/ Fail
  PROVE  Inv' /\ Grows(symbols, symbols')
<1>1. IsTable(symbols)
  BY DEF Inv
<1>2. IsTable(symbols') /\ Grows(symbols, symbols') /\ name \in DOMAIN symbols'
  BY <1>1, AddSymbolGrows
<1>3. IsStack(stack, symbols') /\ << >> \in Seq(Nat)
  BY <1>2, TopCall, StackGrows
<1>4. Control(stack', answer', symbols')
  BY <1>2, <1>3, ReturnControl
<1>5. todo' \subseteq todo /\ aborted' \in BOOLEAN
  BY DEF Inv
<1>6. QED
  BY <1>2, <1>4, <1>5, StepInv

-----------------------------------------------------------------------------
(* The actions.                                                            *)

LEMMA CallType ==
  ASSUME NEW T, NEW f \in Functions, NEW d \in DOMAIN Dies, NEW n \in DOMAIN T \cup {""},
         NEW k \in Nat \ {0}, f = "structure_type" => n \in DOMAIN T
  PROVE  [function |-> f, die |-> d, symbol |-> n, next |-> k] \in Calls(T)
<1> DEFINE c == [function |-> f, die |-> d, symbol |-> n, next |-> k]
<1>1. /\ c \in [ function : Functions, die : DOMAIN Dies, symbol : DOMAIN T \cup {""},
                 next : Nat \ {0} ]
      /\ c.function = f /\ c.symbol = n
  OBVIOUS
<1> HIDE DEF c
<1>2. c \in Calls(T)
  BY <1>1 DEF Calls
<1>3. QED
  BY <1>2 DEF c

LEMMA NewCalls ==
  ASSUME NEW T, NEW d \in DOMAIN Dies
  PROVE  /\ \A f \in Functions \ {"structure_type"} : Call(f, d) \in Calls(T)
         /\ \A n \in DOMAIN T : FillStruct(d, n) \in Calls(T)
<1>1. 1 \in Nat \ {0}
  OBVIOUS
<1>2. ASSUME NEW f \in Functions \ {"structure_type"} PROVE Call(f, d) \in Calls(T)
  <2> DEFINE m == ""
  <2>1. m \in DOMAIN T \cup {""} /\ f # "structure_type"
    OBVIOUS
  <2> HIDE DEF m
  <2>2. [function |-> f, die |-> d, symbol |-> m, next |-> 1] \in Calls(T)
    BY <1>1, <2>1, CallType
  <2>3. QED
    BY <2>2 DEF Call, m
<1>3. ASSUME NEW n \in DOMAIN T PROVE FillStruct(d, n) \in Calls(T)
  <2>1. \A f, m, k : [[function |-> f, die |-> d, symbol |-> m, next |-> k]
                         EXCEPT !.symbol = n]
                       = [function |-> f, die |-> d, symbol |-> n, next |-> k]
    OBVIOUS
  <2>2. FillStruct(d, n)
          = [function |-> "structure_type", die |-> d, symbol |-> n, next |-> 1]
    BY <2>1 DEF FillStruct, Call
  <2>3. "structure_type" \in Functions
    BY DEF Functions
  <2>4. QED
    BY <1>1, <2>2, <2>3, CallType
<1>4. QED
  BY <1>2, <1>3

LEMMA VisitStep ==
  ASSUME Inv, NEW d \in DOMAIN Dies, VisitDie(d)
  PROVE  Inv' /\ Grows(symbols, symbols')
<1>1. /\ stack = << >> /\ IsTable(symbols) /\ IsStack(stack, symbols)
      /\ Control(stack, answer, symbols)
  BY DEF Inv, Control, VisitDie
<1>2. /\ variables' = variables /\ todo' \subseteq todo /\ (errors' = errors \/ Fail)
      /\ aborted' = aborted
  BY DEF VisitDie, VisitStruct
<1>3. CASE Dies[d].tag = "structure_type" /\ VisitStruct(d)
  <2> DEFINE n == Dies[d].name
  <2>1. \/ Dies[d].size # Null /\ symbols' = AddSymbol(n, Dies[d].size, Null)
        \/ \E size \in Junk : symbols' = AddSymbol(n, size, Null)
    BY <1>3 DEF VisitStruct
  <2>2. (Dies[d].size # Null => Dies[d].size \in Nat) /\ Junk \subseteq Nat
    BY DiesAssumption, BoundsAssumption DEF IsDie
  <2>3. PICK size \in Nat : symbols' = AddSymbol(n, size, Null)
    BY <2>1, <2>2
  <2>4. IsTable(symbols') /\ Grows(symbols, symbols') /\ n \in DOMAIN symbols'
    BY <1>1, <2>3, AddSymbolGrows, ZenonT(30)
  <2>5. Push(FillStruct(d, n)) /\ FillStruct(d, n) \in Calls(symbols')
    BY <1>3, <2>4, NewCalls DEF VisitStruct
  <2>6. IsStack(stack, symbols')
    BY <1>1, <2>4, StackGrows
  <2>7. Control(stack', answer', symbols')
    BY <1>1, <2>5, <2>6, PushControl
  <2>8. QED
    BY <1>2, <2>4, <2>7, StepInv DEF Inv
<1>4. CASE Dies[d].tag \in {"base_type", "typedef"} /\ Push(Call(Dies[d].tag, d))
           /\ UNCHANGED symbols
  <2>1. Call(Dies[d].tag, d) \in Calls(symbols)
    BY <1>4, NewCalls DEF Functions
  <2>2. Control(stack', answer', symbols)
    BY <1>1, <1>4, <2>1, PushControl
  <2>3. QED
    BY <1>1, <1>2, <1>4, <2>2, SameGrows, StepInv DEF Inv
<1>5. CASE UNCHANGED symbols /\ Push(Call("variable", d))
  <2>1. Call("variable", d) \in Calls(symbols)
    BY NewCalls DEF Functions
  <2>2. Control(stack', answer', symbols)
    BY <1>1, <1>5, <2>1, PushControl
  <2>3. QED
    BY <1>1, <1>2, <1>5, <2>2, SameGrows, StepInv DEF Inv
<1>6. CASE UNCHANGED << symbols, stack, answer >>
  BY <1>1, <1>2, <1>6, SameGrows, StepInv DEF Inv
<1>7. QED
  BY <1>3, <1>4, <1>5, <1>6 DEF VisitDie

LEMMA NoTypeStep == ASSUME Inv, NoType PROVE Inv' /\ Grows(symbols, symbols')
<1>1. /\ stack # << >> /\ Return(Null, << >>) /\ symbols' = symbols
      /\ UNCHANGED << variables, todo, aborted >> /\ (errors' = errors \/ Fail)
  BY DEF NoType, Running, elfVars
<1>2. QED
  BY <1>1, ReturnNullInv

\* Symbols under several names, which is what a pointer with a failed call
\* may add.
LEMMA AddPointersGrows ==
  ASSUME IsTable(symbols), NEW names, NEW size \in Nat
  PROVE  /\ IsTable(AddPointers(names, size))
         /\ Grows(symbols, AddPointers(names, size))
         /\ DOMAIN AddPointers(names, size) = DOMAIN symbols \cup names
<1> DEFINE U == AddPointers(names, size)
           y == NewSymbol(size, Null)
<1>1. /\ U = [n \in DOMAIN U |-> U[n]]
      /\ DOMAIN U = DOMAIN symbols \cup names
      /\ \A n \in DOMAIN symbols : U[n] = symbols[n]
      /\ \A n \in names \ DOMAIN symbols : U[n] = y
  BY DEF AddPointers
<1>2. /\ y = [ size |-> y.size, target |-> y.target, fields |-> y.fields,
               enumerators |-> y.enumerators ]
      /\ y.size = size /\ y.target = Null
      /\ y.fields = << >> /\ y.enumerators = << >>
  BY DEF NewSymbol
<1> HIDE DEF U, y
<1>3. Grows(symbols, U)
  BY <1>1, <1>2 DEF Grows
<1>4. SymbolOf(y, symbols)
  BY <1>2, EmptySeq DEF SymbolOf
<1>5. \A n \in DOMAIN U : SymbolOf(U[n], symbols)
  BY <1>1, <1>4 DEF IsTable
<1>6. \A n \in DOMAIN U : SymbolOf(U[n], U)
  BY <1>3, <1>5, SymbolGrows
<1>7. IsTable(U)
  BY <1>1, <1>6 DEF IsTable
<1>8. QED
  BY <1>1, <1>3, <1>7 DEF U

LEMMA PointerStep == ASSUME Inv, PointerType PROVE Inv' /\ Grows(symbols, symbols')
<1>1. /\ stack # << >> /\ TopDie.type # Null
      /\ UNCHANGED << variables, todo, aborted >> /\ (errors' = errors \/ Fail)
  BY DEF PointerType, AtType, Running
<1>2. CASE Return(Null, << >>) /\ symbols' = symbols
  BY <1>1, <1>2, ReturnNullInv
<1>3. ASSUME Type.size # Null, NEW names, NEW n \in names \cup {Null},
             symbols' = AddPointers(names, Type.size), Return(n, << >>)
      PROVE  Inv' /\ Grows(symbols, symbols')
  <2>1. Type.size \in Nat /\ IsTable(symbols) /\ IsStack(stack, symbols)
    BY <1>1, <1>3, TopCall DEF Inv
  <2>2. /\ IsTable(symbols') /\ Grows(symbols, symbols')
        /\ n \in DOMAIN symbols' \cup {Null}
    BY <1>3, <2>1, AddPointersGrows
  <2>3. IsStack(stack, symbols') /\ << >> \in Seq(Nat)
    BY <2>1, <2>2, StackGrows
  <2>4. Control(stack', answer', symbols')
    BY <1>1, <1>3, <2>2, <2>3, ReturnControl
  <2>5. QED
    BY <1>1, <2>2, <2>4, StepInv DEF Inv
<1>4. \/ Return(Null, << >>) /\ symbols' = symbols
      \/ /\ Type.size # Null
         /\ \E names : /\ symbols' = AddPointers(names, Type.size)
                       /\ \E n \in names \cup {Null} : Return(n, << >>)
  BY DEF PointerType
<1>5. QED
  BY <1>2, <1>3, <1>4

LEMMA StructStep == ASSUME Inv, StructType PROVE Inv' /\ Grows(symbols, symbols')
<1>1. /\ stack # << >> /\ TopDie.type # Null /\ TopDie.type \in DOMAIN Dies
      /\ UNCHANGED << variables, todo, aborted >> /\ (errors' = errors \/ Fail)
  BY TopCall DEF StructType, AtType, Running
<1>2. CASE symbols' = AddSymbol("", 0, Null) /\ Return("", << >>)
  BY <1>1, <1>2, AddAndReturnInv
<1>3. ASSUME NEW n, Type.size # Null, symbols' = AddSymbol(n, Type.size, Null),
             TailCall(FillStruct(TopDie.type, n))
      PROVE  Inv' /\ Grows(symbols, symbols')
  <2>1. Type.size \in Nat /\ IsTable(symbols) /\ IsStack(stack, symbols)
    BY <1>1, <1>3, TopCall DEF Inv
  <2>2. IsTable(symbols') /\ Grows(symbols, symbols') /\ n \in DOMAIN symbols'
    BY <1>3, <2>1, AddSymbolGrows, ZenonT(30)
  <2>3. FillStruct(TopDie.type, n) \in Calls(symbols')
    BY <1>1, <2>2, NewCalls
  <2>4. Control(stack', answer', symbols')
    BY <1>1, <1>3, <2>1, <2>2, <2>3, StackGrows, TailCallControl
  <2>5. QED
    BY <1>1, <2>2, <2>4, StepInv DEF Inv
<1>4. CASE Return(Null, << >>) /\ UNCHANGED symbols
  BY <1>1, <1>4, ReturnNullInv
<1>5. QED
  BY <1>2, <1>3, <1>4 DEF StructType

LEMMA EnumStep == ASSUME Inv, EnumType PROVE Inv' /\ Grows(symbols, symbols')
<1>1. /\ stack # << >> /\ TopDie.type # Null /\ Type.tag = "enumeration_type"
      /\ UNCHANGED << variables, todo, aborted >> /\ (errors' = errors \/ Fail)
  BY DEF EnumType, AtType, Running
<1>2. CASE Return(Null, << >>) /\ UNCHANGED symbols
  BY <1>1, <1>2, ReturnNullInv
<1>3. ASSUME NEW n, NEW count \in 0 .. Len(Type.enumerators), Return(n, << >>),
             symbols' = WithEnumerators(AddSymbol(n, Type.size, Null), n, count)
      PROVE  Inv' /\ Grows(symbols, symbols')
  <2> DEFINE T == AddSymbol(n, Type.size, Null)
  <2>1. /\ Type.size \in Nat /\ IsTable(symbols) /\ IsStack(stack, symbols)
        /\ Type.enumerators \in Seq(Enumerator)
    BY <1>1, TopCall DEF Inv, IsDie, Enumerator
  <2>2. IsTable(T) /\ Grows(symbols, T) /\ n \in DOMAIN T
    BY <2>1, AddSymbolGrows, ZenonT(60)
  <2>3. symbols' = WithEnumerators(T, n, count)
    BY <1>3
  <2> HIDE DEF T
  <2>4. IsTable(symbols') /\ Grows(T, symbols') /\ DOMAIN symbols' = DOMAIN T
    BY <2>1, <2>2, <2>3, WithEnumeratorsGrows
  <2>5. Grows(symbols, symbols') /\ n \in DOMAIN symbols'
    BY <2>2, <2>4, GrowsTransitive
  <2>6. IsStack(stack, symbols') /\ << >> \in Seq(Nat)
    BY <2>1, <2>5, StackGrows
  <2>7. Control(stack', answer', symbols')
    BY <1>1, <1>3, <2>5, <2>6, ReturnControl
  <2>8. QED
    BY <1>1, <2>4, <2>5, <2>7, StepInv DEF Inv
<1>4. QED
  BY <1>2, <1>3 DEF EnumType

LEMMA TailCallInv ==
  ASSUME Inv, stack # << >>, symbols' = symbols, NEW call \in Calls(symbols),
         TailCall(call), UNCHANGED << variables, todo, aborted, errors >>
  PROVE  Inv' /\ Grows(symbols, symbols')
<1>1. Control(stack', answer', symbols)
  BY TopCall, TailCallControl
<1>2. QED
  BY <1>1, SameSymbolsInv

\* A call, that is not for a base type, for the type of a DIE.
LEMMA CallTypeInv ==
  ASSUME Inv, stack # << >>, Top.function # "base_type", symbols' = symbols,
         NEW d \in DOMAIN Dies, Push(Call("type", d)),
         UNCHANGED << variables, todo, aborted, errors >>
  PROVE  Inv' /\ Grows(symbols, symbols')
<1>1. Call("type", d) \in Calls(symbols)
  BY NewCalls DEF Functions
<1>2. Control(stack', answer', symbols)
  BY <1>1, TopCall, PushControl
<1>3. QED
  BY <1>2, SameSymbolsInv

LEMMA BaseTypeStep == ASSUME Inv, BaseType PROVE Inv' /\ Grows(symbols, symbols')
<1>1. /\ stack # << >> /\ TopDie.type \in DOMAIN Dies /\ symbols' = symbols
      /\ UNCHANGED << variables, todo, aborted, errors >>
      /\ TailCall(Call("base_type", TopDie.type))
  BY TopCall DEF BaseType, AtType, Running, elfVars
<1>2. Call("base_type", TopDie.type) \in Calls(symbols)
  BY <1>1, NewCalls DEF Functions
<1>3. QED
  BY <1>1, <1>2, TailCallInv

LEMMA TypedefTypeStep == ASSUME Inv, TypedefType PROVE Inv' /\ Grows(symbols, symbols')
<1>1. /\ stack # << >> /\ TopDie.type \in DOMAIN Dies /\ symbols' = symbols
      /\ UNCHANGED << variables, todo, aborted, errors >>
      /\ TailCall(Call("typedef", TopDie.type))
  BY TopCall DEF TypedefType, AtType, Running, elfVars
<1>2. Call("typedef", TopDie.type) \in Calls(symbols)
  BY <1>1, NewCalls DEF Functions
<1>3. QED
  BY <1>1, <1>2, TailCallInv

\* The dimensions of an array, however badly they are read, are numbers.
LEMMA PartlyReadType ==
  ASSUME NEW dims \in Seq(Nat), NEW read \in PartlyRead(dims)
  PROVE  read \in Seq(Nat)
<1> DEFINE f(count, unread) ==
             [ k \in 1 .. count |-> IF k \in unread THEN Range32 - 1 ELSE dims[k] ]
<1>1. PartlyRead(dims) = {f(count, unread) : count \in 0 .. Len(dims), unread \in SUBSET DOMAIN dims}
  BY DEF PartlyRead
<1> HIDE DEF f
<1>2. PICK count \in 0 .. Len(dims), unread \in SUBSET DOMAIN dims : read = f(count, unread)
  BY <1>1
<1>3. Range32 - 1 \in Nat
  BY BoundsAssumption
<1>4. count \in Nat /\ \A k \in 1 .. count : dims[k] \in Nat
  BY ElementOfSeq, LenProperties
<1>5. read \in [1 .. count -> Nat]
  BY <1>2, <1>3, <1>4 DEF f
<1>6. QED
  BY <1>4, <1>5

LEMMA ElementTypeStep == ASSUME Inv, ElementType PROVE Inv' /\ Grows(symbols, symbols')
<1>1. /\ stack # << >> /\ Top.function = "type" /\ symbols' = symbols
      /\ TopDie.type \in DOMAIN Dies /\ IsDie(Type) /\ IsStack(stack, symbols)
      /\ UNCHANGED << variables, todo, aborted >> /\ (errors' = errors \/ Fail)
  BY TopCall DEF ElementType, AtType, Running, elfVars
<1>2. ASSUME Waiting, NEW dims \in Seq(Nat), Return(Answer.symbol, dims)
      PROVE  Inv' /\ Grows(symbols, symbols')
  <2>1. Answer.symbol \in DOMAIN symbols \cup {Null}
    BY <1>2, GivenAnswer DEF Answers
  <2>2. Control(stack', answer', symbols)
    BY <1>1, <1>2, <2>1, ReturnControl
  <2>3. QED
    BY <1>1, <2>2, SameSymbolsInv
<1>3. CASE Return(Null, << >>)
  BY <1>1, <1>3, ReturnNullInv
<1>4. CASE Push(Call("type", TopDie.type)) /\ errors' = errors
  BY <1>1, <1>4, CallTypeInv
<1>5. Type.dims \in Seq(Nat) /\ \A dims \in PartlyRead(Type.dims) : dims \in Seq(Nat)
  BY <1>1, PartlyReadType DEF IsDie
<1>6. QED
  BY <1>2, <1>3, <1>4, <1>5 DEF ElementType

LEMMA BaseTypeError == ASSUME ProcessBaseType PROVE errors' = errors \/ Fail
<1>1. ASSUME NEW name, IF name = TopDie.name THEN UNCHANGED errors ELSE Fail
      PROVE  errors' = errors \/ Fail
  BY <1>1
<1>2. QED
  BY <1>1, Zenon DEF ProcessBaseType

LEMMA BaseTypeProcessed ==
  ASSUME Inv, ProcessBaseType PROVE Inv' /\ Grows(symbols, symbols')
<1>1. /\ stack # << >> /\ IsStack(stack, symbols) /\ << >> \in Seq(Nat)
      /\ UNCHANGED << variables, todo >>
      /\ TopDie.tag = "base_type" => TopDie.size \in Nat
  <2>1. stack # << >> /\ UNCHANGED << variables, todo >>
    BY Zenon DEF ProcessBaseType, Running
  <2>2. QED
    BY <2>1, TopCall
<1>2. errors' = errors \/ Fail
  BY BaseTypeError
<1>3. ASSUME NEW name \in DOMAIN symbols, Return(name, << >>), UNCHANGED << symbols, aborted >>
      PROVE  Inv' /\ Grows(symbols, symbols')
  <2>1. Control(stack', answer', symbols)
    BY <1>1, <1>2, <1>3, ReturnControl
  <2>2. QED
    BY <1>1, <1>2, <1>3, <2>1, SameSymbolsInv
<1>4. CASE Return(Null, << >>) /\ UNCHANGED << symbols, aborted >>
  BY <1>1, <1>2, <1>4, ReturnNullInv
<1>5. CASE /\ TopDie.tag = "base_type"
           /\ symbols' = AddSymbol(TopDie.name, TopDie.size, Null)
           /\ Return(TopDie.name, << >>) /\ UNCHANGED aborted
  BY <1>1, <1>2, <1>5, AddAndReturnInv
<1>6. CASE aborted' = TRUE /\ UNCHANGED << symbols, stack, answer >>
  <2>1. IsTable(symbols') /\ Grows(symbols, symbols') /\ Control(stack', answer', symbols')
    BY <1>6, SameGrows DEF Inv
  <2>2. todo' \subseteq todo /\ variables' = variables /\ aborted' \in BOOLEAN
    BY <1>1, <1>2, <1>6
  <2>3. QED
    BY <1>1, <1>2, <2>1, <2>2, StepInv
<1>7. QED
  BY <1>3, <1>4, <1>5, <1>6 DEF ProcessBaseType

LEMMA TypedefProcessed ==
  ASSUME Inv, ProcessTypedef PROVE Inv' /\ Grows(symbols, symbols')
<1>1. /\ stack # << >> /\ Top.function # "base_type" /\ Top.die \in DOMAIN Dies
      /\ UNCHANGED << variables, todo, aborted >> /\ (errors' = errors \/ Fail)
  BY TopCall DEF ProcessTypedef, Running
<1>2. CASE Push(Call("type", Top.die)) /\ UNCHANGED << symbols, errors >>
  BY <1>1, <1>2, CallTypeInv
<1>3. CASE /\ Waiting /\ Answer.symbol # Null
           /\ symbols' = AddSymbol(TopDie.name, SizeOf(Answer.symbol), Answer.symbol)
           /\ Return(TopDie.name, << >>)
  <2> DEFINE target == Answer.symbol
             size == symbols[target].size
  <2>1. target \in DOMAIN symbols /\ target # Null
    BY <1>3, GivenAnswer DEF Answers
  <2>2. size \in Nat
    BY <2>1 DEF Inv, IsTable, SymbolOf
  <2>3. symbols' = AddSymbol(TopDie.name, size, target)
    BY <1>3 DEF SizeOf
  <2>4. QED
    BY <1>1, <1>3, <2>1, <2>2, <2>3, AddAndReturnInv
<1>4. CASE Return(Null, << >>) /\ UNCHANGED symbols
  BY <1>1, <1>4, ReturnNullInv
<1>5. QED
  BY <1>2, <1>3, <1>4 DEF ProcessTypedef

LEMMA NextMember ==
  ASSUME NEW T, NEW c \in Calls(T) PROVE [c EXCEPT !.next = @ + 1] \in Calls(T)
<1> DEFINE R == [ function : Functions, die : DOMAIN Dies, symbol : DOMAIN T \cup {""},
                  next : Nat \ {0} ]
           e == [c EXCEPT !.next = @ + 1]
<1>1. c \in R /\ (c.function = "structure_type" => c.symbol \in DOMAIN T)
  BY DEF Calls
<1>2. e \in R /\ e.function = c.function /\ e.symbol = c.symbol
  <2>1. \A f, d, n, k :
          [[function |-> f, die |-> d, symbol |-> n, next |-> k] EXCEPT !.next = @ + 1]
            = [function |-> f, die |-> d, symbol |-> n, next |-> k + 1]
    OBVIOUS
  <2>2. c = [function |-> c.function, die |-> c.die, symbol |-> c.symbol, next |-> c.next]
    BY <1>1
  <2>3. e = [function |-> c.function, die |-> c.die, symbol |-> c.symbol, next |-> c.next + 1]
    BY <2>1, <2>2
  <2>4. c.next + 1 \in Nat \ {0}
    <3>1. c.next \in Nat \ {0}
      BY <1>1
    <3>2. \A k \in Nat \ {0} : k + 1 \in Nat \ {0}
      OBVIOUS
    <3>3. QED
      BY <3>1, <3>2
  <2> HIDE DEF e
  <2>5. e.function = c.function /\ e.symbol = c.symbol
    BY <2>3
  <2>6. /\ c.function \in Functions /\ c.die \in DOMAIN Dies
        /\ c.symbol \in DOMAIN T \cup {""}
    BY <1>1
  <2>7. e \in R
    BY <2>3, <2>4, <2>6
  <2>8. QED
    BY <2>5, <2>7
<1> HIDE DEF e
<1>3. e \in Calls(T)
  BY <1>1, <1>2 DEF Calls
<1>4. QED
  BY <1>3 DEF e

\* Storing the field of a member.
LEMMA FieldStored ==
  ASSUME Inv, stack # << >>, Top.function = "structure_type", Waiting,
         Top.next \in 1 .. Len(TopDie.members),
         TailCall([Top EXCEPT !.next = @ + 1]),
         UNCHANGED << variables, todo, aborted, errors >>,
         symbols' = IF Answer.symbol = Null THEN symbols
                    ELSE [symbols EXCEPT ![Top.symbol].fields =
                            AddField(@, [ name |-> Dies[TopDie.members[Top.next]].name,
                                          type |-> Answer.symbol, dims |-> Answer.dims ])]
  PROVE  Inv' /\ Grows(symbols, symbols')
<1> DEFINE call == [Top EXCEPT !.next = @ + 1]
           m == TopDie.members[Top.next]
           f == [name |-> Dies[m].name, type |-> Answer.symbol, dims |-> Answer.dims]
<1>1. /\ Top \in Calls(symbols) /\ IsStack(stack, symbols) /\ IsTable(symbols)
      /\ IsDie(TopDie) /\ Top.symbol \in DOMAIN symbols
  BY TopCall DEF Calls, Inv
<1>2. call \in Calls(symbols)
  BY <1>1, NextMember
<1>3. m \in DOMAIN Dies
  BY <1>1, ElementOfSeq DEF IsDie
<1>4. Dies[m].name \in STRING
  BY <1>3, DiesAssumption DEF IsDie
<1>5. Answer.symbol \in DOMAIN symbols \cup {Null} /\ Answer.dims \in Seq(Nat)
  BY GivenAnswer DEF Answers
<1>6. IsTable(symbols') /\ Grows(symbols, symbols')
  <2>1. CASE Answer.symbol = Null
    BY <1>1, <2>1, SameGrows
  <2>2. CASE Answer.symbol # Null
    <3>1. f \in FieldOf(symbols)
      BY <1>4, <1>5, <2>2 DEF FieldOf
    <3> HIDE DEF f, m
    <3>2. symbols' = [symbols EXCEPT ![Top.symbol].fields = AddField(@, f)]
      BY <2>2 DEF f, m
    <3>3. QED
      BY <1>1, <3>1, <3>2, AddFieldGrows
  <2>3. QED
    BY <2>1, <2>2
<1> HIDE DEF call
<1>7. call \in Calls(symbols') /\ TailCall(call)
  <2>1. Calls(symbols) \subseteq Calls(symbols')
    BY <1>6 DEF Grows, Calls
  <2>2. QED
    BY <1>2, <2>1 DEF call
<1>8. Control(stack', answer', symbols')
  BY <1>1, <1>6, <1>7, StackGrows, TailCallControl
<1>9. QED
  BY <1>6, <1>8, StepInv DEF Inv

LEMMA StructProcessed ==
  ASSUME Inv, ProcessStruct PROVE Inv' /\ Grows(symbols, symbols')
<1> DEFINE next == Top.next
           m == TopDie.members[next]
<1>1. /\ stack # << >> /\ Top.function = "structure_type" /\ Top \in Calls(symbols)
      /\ Top.symbol \in DOMAIN symbols /\ IsStack(stack, symbols) /\ IsDie(TopDie)
      /\ next \in Nat \ {0}
      /\ UNCHANGED << variables, todo, aborted >> /\ (errors' = errors \/ Fail)
  BY TopCall DEF ProcessStruct, Running, Calls
<1>2. Len(TopDie.members) \in Nat
  BY <1>1, LenProperties DEF IsDie
<1>3. CASE Return(Top.symbol, << >>) /\ symbols' = symbols
  <2>1. << >> \in Seq(Nat)
    OBVIOUS
  <2>2. Control(stack', answer', symbols)
    BY <1>1, <1>3, <2>1, ReturnControl
  <2>3. QED
    BY <1>1, <1>3, <2>2, SameSymbolsInv
<1>4. CASE /\ next <= Len(TopDie.members)
           /\ Push(Call("type", m)) /\ UNCHANGED << symbols, errors >>
  <2>1. next \in 1 .. Len(TopDie.members) /\ m \in DOMAIN Dies
    BY <1>1, <1>2, <1>4, ElementOfSeq DEF IsDie
  <2>2. QED
    BY <1>1, <1>4, <2>1, CallTypeInv
<1>5. CASE /\ next <= Len(TopDie.members) /\ Waiting
           /\ TailCall([Top EXCEPT !.next = @ + 1]) /\ UNCHANGED errors
           /\ symbols' = IF Answer.symbol = Null THEN symbols
                         ELSE [symbols EXCEPT ![Top.symbol].fields =
                                 AddField(@, [ name |-> Dies[m].name,
                                               type |-> Answer.symbol, dims |-> Answer.dims ])]
  <2>1. next \in 1 .. Len(TopDie.members)
    BY <1>1, <1>2, <1>5
  <2>2. QED
    BY <1>1, <1>5, <2>1, FieldStored
<1>6. QED
  BY <1>3, <1>4, <1>5 DEF ProcessStruct

LEMMA VariableProcessed ==
  ASSUME Inv, ProcessVariable PROVE Inv' /\ Grows(symbols, symbols')
<1> DEFINE V == [name : STRING, type : DOMAIN symbols]
           v == [name |-> TopDie.name, type |-> Answer.symbol]
<1>1. /\ stack # << >> /\ Top.function # "base_type" /\ Top.die \in DOMAIN Dies
      /\ IsDie(TopDie) /\ IsStack(stack, symbols)
      /\ UNCHANGED << symbols, todo, aborted, errors >>
  BY TopCall DEF ProcessVariable, Running
<1>2. CASE Push(Call("type", Top.die)) /\ variables' = variables
  BY <1>1, <1>2, CallTypeInv
<1>3. CASE /\ Waiting /\ Return(Null, << >>)
           /\ variables' = IF Answer.symbol = Null THEN variables ELSE Append(variables, v)
  <2>1. Answer.symbol \in DOMAIN symbols \cup {Null} /\ TopDie.name \in STRING
    BY <1>1, <1>3, GivenAnswer DEF Answers, IsDie
  <2>2. variables \in Seq(V)
    BY DEF Inv
  <2>3. Answer.symbol # Null => v \in V
    BY <2>1
  <2> HIDE DEF v, V
  <2>4. variables' \in Seq(V)
    BY <1>3, <2>2, <2>3, AppendProperties
  <2>5. << >> \in Seq(Nat) /\ Null \in DOMAIN symbols \cup {Null}
    OBVIOUS
  <2>6. Control(stack', answer', symbols)
    BY <1>1, <1>3, <2>5, ReturnControl
  <2>7. QED
    BY <1>1, <2>4, <2>6, SameGrows DEF Inv, V
<1>4. QED
  BY <1>2, <1>3 DEF ProcessVariable

-----------------------------------------------------------------------------
(* The specification.                                                      *)

LEMMA NextInv == ASSUME Inv, Next PROVE Inv' /\ Grows(symbols, symbols')
<1>1. ASSUME NEW d \in DOMAIN Dies, VisitDie(d) PROVE Inv' /\ Grows(symbols, symbols')
  BY <1>1, VisitStep
<1>2. QED
  BY <1>1, NoTypeStep, PointerStep, StructStep, EnumStep, BaseTypeStep,
     TypedefTypeStep, ElementTypeStep, BaseTypeProcessed, TypedefProcessed,
     StructProcessed, VariableProcessed DEF Next

LEMMA StepKeepsInv == ASSUME Inv, [Next]_vars PROVE Inv' /\ Grows(symbols, symbols')
<1>1. CASE Next
  BY <1>1, NextInv
<1>2. CASE UNCHANGED vars
  <2>1. /\ symbols' = symbols /\ variables' = variables /\ todo' = todo /\ stack' = stack
        /\ answer' = answer /\ errors' = errors /\ aborted' = aborted
    BY <1>2 DEF vars, elfVars
  <2>2. QED
    BY <2>1, SameGrows DEF Inv
<1>3. QED
  BY <1>1, <1>2

LEMMA AlwaysInv == Spec => []Inv
<1>1. Inv /\ [Next]_vars => Inv'
  BY StepKeepsInv
<1>2. QED
  BY <1>1, InitInv, PTL DEF Spec

LEMMA ElementAt == ASSUME NEW S, NEW s \in Seq(S), NEW k \in DOMAIN s PROVE s[k] \in S
<1>1. k \in 1 .. Len(s)
  BY LenProperties
<1>2. QED
  BY <1>1, ElementOfSeq

\* In any file, in any order of the DIEs and with any failing calls, what a
\* typedef, a field or a variable refers to is a symbol of the ElfFile.
THEOREM ReferencesStored == Spec => []ReferencesAreStored
<1>1. ASSUME Inv PROVE ReferencesAreStored
  <2>1. ASSUME NEW n \in DOMAIN symbols
        PROVE  /\ symbols[n].target # Null => symbols[n].target \in DOMAIN symbols
               /\ \A k \in DOMAIN symbols[n].fields :
                    symbols[n].fields[k].type \in DOMAIN symbols
    <3>1. SymbolOf(symbols[n], symbols)
      BY <1>1 DEF Inv, IsTable
    <3>2. ASSUME NEW k \in DOMAIN symbols[n].fields
          PROVE  symbols[n].fields[k].type \in DOMAIN symbols
      <4>1. symbols[n].fields[k] \in FieldOf(symbols)
        BY <3>1, ElementAt DEF SymbolOf
      <4>2. QED
        BY <4>1 DEF FieldOf
    <3>3. QED
      BY <3>1, <3>2 DEF SymbolOf
  <2>2. ASSUME NEW k \in DOMAIN variables PROVE variables[k].type \in DOMAIN symbols
    <3>1. variables[k] \in [name : STRING, type : DOMAIN symbols]
      BY <1>1, ElementAt DEF Inv
    <3>2. QED
      BY <3>1
  <2>3. QED
    BY <2>1, <2>2 DEF ReferencesAreStored
<1>2. QED
  BY <1>1, AlwaysInv, PTL

\* A typedef has the size its target has, in every state.
THEOREM TypedefSizes == Spec => []TypedefHasSizeOfTarget
<1>1. Inv => TypedefHasSizeOfTarget
  BY DEF Inv, IsTable, SymbolOf, TypedefHasSizeOfTarget
<1>2. QED
  BY <1>1, AlwaysInv, PTL

\* No step changes the target of a symbol, and a symbol gets one only if
\* that is there before it: the targets of typedefs form no circle.
THEOREM TargetsComeFirst == Spec => TypedefsNameEarlierSymbols
<1> DEFINE A == \A n \in DOMAIN symbols' :
                  IF n \in DOMAIN symbols THEN symbols'[n].target = symbols[n].target
                  ELSE symbols'[n].target # Null => symbols'[n].target \in DOMAIN symbols
<1>1. Grows(symbols, symbols') => A
  BY DEF Grows
<1>2. Inv /\ [Next]_vars => [A]_vars
  BY <1>1, StepKeepsInv
<1>3. QED
  BY <1>2, AlwaysInv, PTL DEF Spec, TypedefsNameEarlierSymbols

\* The variables stay in their types: the calls in progress are for DIEs, and
\* only a call that waits for an answer has one.
THEOREM TypesCorrect == Spec => []TypeOK
<1>1. ASSUME NEW S, NEW s \in Seq(S) PROVE s \in Seq(Range(s))
  <2>1. Len(s) \in Nat /\ s \in [1 .. Len(s) -> Range(s)]
    BY LenProperties DEF Range
  <2>2. QED
    BY <2>1
<1>2. ASSUME Inv PROVE TypeOK
  <2>1. ASSUME NEW n \in DOMAIN symbols PROVE IsSymbol(symbols[n])
    BY <1>1, <1>2 DEF Inv, IsTable, SymbolOf, IsSymbol
  <2>2. ASSUME NEW k \in DOMAIN stack PROVE stack[k].die \in DOMAIN Dies
    <3>1. stack[k] \in Calls(symbols)
      BY <1>2, ElementAt DEF Inv, Control, IsStack
    <3>2. QED
      BY <3>1 DEF Calls
  <2>3. Waiting => stack # << >> /\ Top.function # "base_type"
    <3>1. Waiting => stack # << >>
      BY <1>2 DEF Inv, Control, Waiting
    <3>2. QED
      BY <1>2, <3>1, GivenAnswer
  <2>4. QED
    BY <1>2, <2>1, <2>2, <2>3 DEF TypeOK, Inv
<1>3. QED
  BY <1>2, AlwaysInv, PTL
-----------------------------------------------------------------------------
(* Recursive definitions.                                                  *)

\* `next' leads to an end from everywhere; `step' gives a value for d from
\* those for next[d]; g has these values.
Ends(D, next) == /\ next \in [D -> SUBSET D]
                 /\ \A S \in SUBSET D : S # {} => \E d \in S : next[d] \cap S = {}
StepsIn(D, next, V, step) == \A d \in D : \A h \in [next[d] -> V] : step[<< d, h >>] \in V
Follows(g, D, next, step) ==
  \A d \in D : g[d] = step[<< d, [e \in next[d] |-> g[e]] >>]

\* A function that is defined by such a recursion exists.
LEMMA RecursionIsDefined ==
  ASSUME NEW D, NEW V, NEW next, NEW step, Ends(D, next), StepsIn(D, next, V, step)
  PROVE  \E g \in [D -> V] : Follows(g, D, next, step)
<1> USE DEF Ends, StepsIn, Follows
<1> DEFINE Closed(T) == T \in SUBSET D /\ \A d \in T : next[d] \subseteq T
           At(g, d) == [e \in next[d] |-> g[e]]
           Solves(g, T) == \A d \in T : g[d] \in V /\ g[d] = step[<< d, At(g, d) >>]
           W == {d \in D : \E T, g : Closed(T) /\ d \in T /\ Solves(g, T)}
           IsValue(d, v) == \E T, g : Closed(T) /\ d \in T /\ Solves(g, T) /\ v = g[d]
           val == [d \in D |-> CHOOSE v : IsValue(d, v)]
<1>1. ASSUME NEW T, NEW U, NEW g, NEW h, Closed(T), Closed(U), Solves(g, T), Solves(h, U),
             NEW d \in T \cap U
      PROVE  g[d] = h[d]
  <2> DEFINE S == {e \in T \cap U : g[e] # h[e]}
  <2>1. ASSUME NEW e \in S, next[e] \cap S = {} PROVE FALSE
    <3>1. e \in T /\ e \in U /\ g[e] # h[e] /\ next[e] \subseteq T \cap U
      BY <1>1, <2>1
    <3>2. \A x \in next[e] : g[x] = h[x]
      BY <2>1, <3>1
    <3>3. At(g, e) = At(h, e)
      BY <3>2
    <3> HIDE DEF At
    <3>4. g[e] = h[e]
      BY <1>1, <3>1, <3>3
    <3>5. QED
      BY <3>1, <3>4
  <2>2. S \in SUBSET D
    BY <1>1
  <2>3. S = {}
    BY <2>1, <2>2
  <2>4. QED
    BY <1>1, <2>3
<1>2. ASSUME NEW T, NEW g, Closed(T), Solves(g, T), NEW d \in T
      PROVE  d \in W /\ val[d] = g[d]
  <2>1. d \in D /\ d \in W /\ IsValue(d, g[d])
    BY <1>2
  <2>2. ASSUME NEW v, IsValue(d, v) PROVE v = g[d]
    <3>1. PICK U, h : Closed(U) /\ d \in U /\ Solves(h, U) /\ v = h[d]
      BY <2>2
    <3> HIDE DEF Closed, Solves
    <3>2. QED
      BY <1>1, <1>2, <3>1
  <2> HIDE DEF IsValue, W
  <2>3. IsValue(d, val[d])
    BY <2>1
  <2> HIDE DEF val
  <2>4. QED
    BY <2>1, <2>2, <2>3
<1>3. Closed(W) /\ Solves(val, W)
  <2>1. ASSUME NEW d \in W
        PROVE  next[d] \subseteq W /\ val[d] \in V /\ val[d] = step[<< d, At(val, d) >>]
    <3>1. PICK T, g : Closed(T) /\ d \in T /\ Solves(g, T)
      BY <2>1
    <3> HIDE DEF W, val
    <3>2. \A e \in T : e \in W /\ val[e] = g[e]
      BY <1>2, <3>1, Zenon
    <3>3. next[d] \subseteq T
      BY <3>1
    <3>4. At(val, d) = At(g, d)
      BY <3>2, <3>3
    <3>5. g[d] \in V /\ g[d] = step[<< d, At(g, d) >>]
      BY <3>1, Zenon
    <3> HIDE DEF At
    <3>6. QED
      BY <3>1, <3>2, <3>3, <3>4, <3>5
  <2> HIDE DEF val
  <2>2. W \in SUBSET D
    OBVIOUS
  <2> HIDE DEF W
  <2>3. QED
    BY <2>1, <2>2
<1>4. W = D
  <2> HIDE DEF val
  <2>1. ASSUME NEW d \in D \ W, next[d] \subseteq W PROVE FALSE
    <3> DEFINE v == step[<< d, At(val, d) >>]
               g == [e \in D |-> IF e = d THEN v ELSE val[e]]
               T == W \cup {d}
    <3> HIDE DEF W
    <3>1. W \in SUBSET D /\ \A e \in W : next[e] \subseteq W /\ d \notin next[e]
      BY <1>3, <2>1
    <3>2. \A e \in T : At(g, e) = At(val, e)
      <4>1. ASSUME NEW e \in T, NEW x \in next[e] PROVE g[x] = val[x]
        BY <2>1, <3>1, <4>1
      <4> HIDE DEF g
      <4>2. QED
        BY <4>1
    <3>3. At(val, d) \in [next[d] -> V]
      BY <1>3, <2>1
    <3>4. v \in V
      <4> HIDE DEF At
      <4>1. QED
        BY <2>1, <3>3
    <3>5. \A e \in W : g[e] = val[e]
      BY <2>1, <3>1
    <3>6. g[d] = v
      BY <2>1
    <3>7. ASSUME NEW e \in T PROVE g[e] \in V /\ g[e] = step[<< e, At(g, e) >>]
      <4> HIDE DEF g, At
      <4>1. CASE e = d
        BY <3>2, <3>4, <3>6, <4>1
      <4>2. CASE e \in W
        BY <1>3, <3>2, <3>5, <4>2
      <4>3. QED
        BY <3>7, <4>1, <4>2
    <3>8. Closed(T)
      BY <2>1, <3>1
    <3>9. Solves(g, T) /\ d \in T
      <4> HIDE DEF g, At
      <4>1. QED
        BY <3>7
    <3> HIDE DEF g, T, Closed, Solves
    <3>10. d \in W
      BY <3>8, <3>9, <1>2
    <3>11. QED
      BY <2>1, <3>10
  <2>2. D \ W \in SUBSET D /\ W \subseteq D
    OBVIOUS
  <2> HIDE DEF W
  <2>3. QED
    BY <2>1, <2>2
<1>5. val \in [D -> V] /\ \A d \in D : val[d] = step[<< d, At(val, d) >>]
  <2> HIDE DEF W
  <2>1. \A d \in D : val[d] \in V /\ val[d] = step[<< d, At(val, d) >>]
    <3> HIDE DEF val, At
    <3>1. QED
      BY <1>3, <1>4
  <2>2. QED
    BY <2>1
<1> HIDE DEF val
<1>6. QED
  BY <1>5

\* What the definition of LeadsToUnion says of d, with m for what it is at the
\* type of d.
MeetsUnion(d, m) ==
  LET t == Dies[d].type
  IN  /\ t # Null
      /\ \/ Dies[t].tag = "union_type"
         \/ Dies[t].tag \in {"typedef", "array_type"} /\ m

\* The DIEs whose type is a typedef or an array, which lead on to its type.
LeadOn  == {d \in DOMAIN Dies : /\ Dies[d].type # Null
                                /\ Dies[Dies[d].type].tag \in {"typedef", "array_type"}}
NextDie == [d \in DOMAIN Dies |-> IF d \in LeadOn THEN {Dies[d].type} ELSE {}]

LEMMA NextDieEnds == Ends(DOMAIN Dies, NextDie)
<1>1. \A d \in LeadOn : d \in DOMAIN Dies /\ Dies[d].type \in DOMAIN Dies
  BY DiesAssumption DEF LeadOn, IsDie
<1>2. \A S \in SUBSET LeadOn : S # {} => \E d \in S : Dies[d].type \notin S
  BY ChainsAssumption DEF LeadOn
<1>3. ASSUME NEW S \in SUBSET DOMAIN Dies, S # {}
      PROVE  \E d \in S : NextDie[d] \cap S = {}
  <2>1. CASE S \subseteq LeadOn
    <3>1. PICK d \in S : Dies[d].type \notin S
      BY <1>2, <1>3, <2>1
    <3>2. NextDie[d] = {Dies[d].type}
      BY <2>1, <1>3 DEF NextDie
    <3>3. QED
      BY <3>1, <3>2
  <2>2. CASE ~ (S \subseteq LeadOn)
    <3>1. PICK d \in S : d \notin LeadOn
      BY <2>2
    <3>2. NextDie[d] = {}
      BY <1>3, <3>1 DEF NextDie
    <3>3. QED
      BY <3>1, <3>2
  <2>3. QED
    BY <2>1, <2>2
<1>4. NextDie \in [DOMAIN Dies -> SUBSET DOMAIN Dies]
  BY <1>1 DEF NextDie
<1>5. QED
  BY <1>3, <1>4 DEF Ends

\* All that a type can mean.
Meanings == {Null, "", "void*"} \cup {Dies[d].name : d \in DOMAIN Dies}
            \cup {PointerTo(FirstAncestorName[d]) : d \in DOMAIN Dies}

LEMMA MeantType ==
  ASSUME NEW d \in DOMAIN Dies, NEW m \in Meanings PROVE Meant(d, m) \in Meanings
<1> DEFINE t == Dies[d].type
<1>1. t # Null => t \in DOMAIN Dies
  BY DiesAssumption DEF IsDie
<1>2. Null \in Meanings /\ "" \in Meanings /\ "void*" \in Meanings /\ Dies[d].name \in Meanings
  BY DEF Meanings
<1>3. t # Null => /\ Dies[t].name \in Meanings
                  /\ PointerTo(FirstAncestorName[t]) \in Meanings
  BY <1>1 DEF Meanings
<1> HIDE DEF Meanings
<1>4. CASE t = Null
  BY <1>2, <1>4 DEF Meant
<1>5. CASE t # Null
  <2>1. DEFINE T == Dies[t]
  <2>2. CASE T.tag \in {"base_type", "typedef"}
    BY <1>2, <1>3, <1>5, <2>2 DEF Meant
  <2>3. CASE T.tag \in {"structure_type", "enumeration_type"}
    BY <1>2, <1>3, <1>5, <2>3 DEF Meant
  <2>4. CASE T.tag \in {"pointer_type", "array_type"}
    BY <1>2, <1>3, <1>5, <2>4 DEF Meant
  <2>5. CASE T.tag \notin {"base_type", "typedef", "structure_type", "enumeration_type",
                           "pointer_type", "array_type"}
    BY <1>2, <1>3, <1>5, <2>5 DEF Meant
  <2>6. QED
    BY <2>2, <2>3, <2>4, <2>5
<1>6. QED
  BY <1>4, <1>5

LEMMA MeaningDefined == \A d \in DOMAIN Dies : Meaning[d] = Meant(d, Meaning[Dies[d].type])
<1> DEFINE F(g) == g = [d \in DOMAIN Dies |-> Meant(d, g[Dies[d].type])]
           A == UNION {{d} \X [NextDie[d] -> Meanings] : d \in DOMAIN Dies}
           step == [p \in A |-> Meant(p[1], IF p[1] \in LeadOn THEN p[2][Dies[p[1]].type]
                                            ELSE Null)]
<1>1. Meaning = CHOOSE g : F(g)
  BY Zenon DEF Meaning
<1>2. ASSUME NEW d \in DOMAIN Dies, NEW h \in [NextDie[d] -> Meanings]
      PROVE  /\ step[<< d, h >>] = Meant(d, IF d \in LeadOn THEN h[Dies[d].type] ELSE Null)
             /\ step[<< d, h >>] \in Meanings
  <2>1. << d, h >> \in A
    OBVIOUS
  <2>2. d \in LeadOn => h[Dies[d].type] \in Meanings
    BY DEF NextDie
  <2>3. Null \in Meanings
    BY DEF Meanings
  <2> HIDE DEF A
  <2>4. step[<< d, h >>] = Meant(d, IF d \in LeadOn THEN h[Dies[d].type] ELSE Null)
    BY <2>1
  <2> HIDE DEF step
  <2>5. QED
    BY <2>2, <2>3, <2>4, MeantType
<1> HIDE DEF step, A
<1>3. PICK g \in [DOMAIN Dies -> Meanings] : Follows(g, DOMAIN Dies, NextDie, step)
  <2>1. StepsIn(DOMAIN Dies, NextDie, Meanings, step)
    BY <1>2 DEF StepsIn
  <2>2. QED
    BY <2>1, NextDieEnds, RecursionIsDefined
<1>4. ASSUME NEW d \in DOMAIN Dies PROVE g[d] = Meant(d, g[Dies[d].type])
  <2> DEFINE h == [e \in NextDie[d] |-> g[e]]
  <2>1. h \in [NextDie[d] -> Meanings] /\ (d \in LeadOn => h[Dies[d].type] = g[Dies[d].type])
    BY NextDieEnds DEF NextDie, Ends
  <2> HIDE DEF h
  <2>2. g[d] = step[<< d, h >>]
    BY <1>3 DEF h, Follows
  <2>3. CASE d \in LeadOn
    BY <1>2, <2>1, <2>2, <2>3
  <2>4. CASE d \notin LeadOn
    <3>1. \A m, n : Meant(d, m) = Meant(d, n)
      BY <2>4 DEF Meant, LeadOn
    <3>2. QED
      BY <1>2, <2>1, <2>2, <3>1
  <2>5. QED
    BY <2>3, <2>4
<1>5. F(g)
  BY <1>4
<1> HIDE DEF F
<1>6. F(Meaning)
  BY <1>1, <1>5
<1>7. QED
  BY <1>6 DEF F

LEMMA LeadsToUnionDefined ==
  \A d \in DOMAIN Dies : LeadsToUnion[d] = MeetsUnion(d, LeadsToUnion[Dies[d].type])
<1> DEFINE F(g) == g = [d \in DOMAIN Dies |-> MeetsUnion(d, g[Dies[d].type])]
           A == UNION {{d} \X [NextDie[d] -> BOOLEAN] : d \in DOMAIN Dies}
           step == [p \in A |-> MeetsUnion(p[1], IF p[1] \in LeadOn
                                                 THEN p[2][Dies[p[1]].type] ELSE FALSE)]
<1>1. LeadsToUnion = CHOOSE g : F(g)
  BY Zenon DEF LeadsToUnion, MeetsUnion
<1>2. ASSUME NEW d \in DOMAIN Dies, NEW h \in [NextDie[d] -> BOOLEAN]
      PROVE  /\ step[<< d, h >>]
                  = MeetsUnion(d, IF d \in LeadOn THEN h[Dies[d].type] ELSE FALSE)
             /\ step[<< d, h >>] \in BOOLEAN
  <2>1. << d, h >> \in A
    OBVIOUS
  <2> HIDE DEF A
  <2>2. step[<< d, h >>] = MeetsUnion(d, IF d \in LeadOn THEN h[Dies[d].type] ELSE FALSE)
    BY <2>1
  <2>3. QED
    BY <2>2 DEF MeetsUnion
<1> HIDE DEF step, A
<1>3. PICK g \in [DOMAIN Dies -> BOOLEAN] : Follows(g, DOMAIN Dies, NextDie, step)
  <2>1. StepsIn(DOMAIN Dies, NextDie, BOOLEAN, step)
    BY <1>2 DEF StepsIn
  <2>2. QED
    BY <2>1, NextDieEnds, RecursionIsDefined
<1>4. ASSUME NEW d \in DOMAIN Dies PROVE g[d] = MeetsUnion(d, g[Dies[d].type])
  <2> DEFINE h == [e \in NextDie[d] |-> g[e]]
  <2>1. h \in [NextDie[d] -> BOOLEAN] /\ (d \in LeadOn => h[Dies[d].type] = g[Dies[d].type])
    BY NextDieEnds DEF NextDie, Ends
  <2> HIDE DEF h
  <2>2. g[d] = step[<< d, h >>]
    BY <1>3 DEF h, Follows
  <2>3. CASE d \in LeadOn
    BY <1>2, <2>1, <2>2, <2>3
  <2>4. CASE d \notin LeadOn
    <3>1. \A m, n : MeetsUnion(d, m) = MeetsUnion(d, n)
      BY <2>4 DEF MeetsUnion, LeadOn
    <3>2. QED
      BY <1>2, <2>1, <2>2, <3>1
  <2>5. QED
    BY <2>3, <2>4
<1>5. F(g)
  BY <1>4
<1> HIDE DEF F
<1>6. F(LeadsToUnion)
  BY <1>1, <1>5
<1>7. QED
  BY <1>6 DEF F
-----------------------------------------------------------------------------
(* The fields that the members of a struct mean.                           *)

\* Induction over the natural numbers for a set.
LEMMA NatSetInduction ==
  ASSUME NEW T, 0 \in T, \A n \in Nat : n \in T => n + 1 \in T
  PROVE  Nat \subseteq T
<1> DEFINE R == OpToRel(<, Nat)
           M == Nat \ T
<1>1. SUFFICES ASSUME M # {} PROVE FALSE
  OBVIOUS
<1>2. IsWellFoundedOn(R, Nat)
  BY NatLessThanWellFounded
<1>3. R = {ss \in Nat \X Nat : ss[1] < ss[2]}
  BY DEF OpToRel
<1> HIDE DEF R
<1>4. M \subseteq Nat
  OBVIOUS
<1> HIDE DEF M
<1>5. PICK n \in M : \A y \in M : ~ (<< y, n >> \in R)
  BY <1>1, <1>2, <1>4, WFMin
<1>6. n \in Nat /\ n # 0 /\ n - 1 \in Nat
  BY <1>5, <1>4 DEF M
<1>7. << n - 1, n >> \in R
  <2>1. << n - 1, n >> \in Nat \X Nat
    BY <1>6
  <2>2. n - 1 < n
    BY <1>6
  <2>3. QED
    BY <1>3, <2>1, <2>2
<1>8. n - 1 \in T
  BY <1>5, <1>6, <1>7 DEF M
<1>9. n \in T
  BY <1>6, <1>8
<1>10. QED
  BY <1>5, <1>9 DEF M

\* The fields that members of ms can mean.
FieldsOf(ms) == {MeantField(ms[k]) : k \in 1 .. Len(ms)}

LEMMA MeantFieldsDefined ==
  ASSUME NEW d \in DOMAIN Dies
  PROVE  LET ms == Dies[d].members
         IN  /\ MeantFields(d)[0] = << >>
             /\ \A k \in 1 .. Len(ms) :
                  MeantFields(d)[k] = AndMeantField(MeantFields(d)[k - 1], ms[k])
             /\ \A k \in 0 .. Len(ms) : MeantFields(d)[k] \in Seq(FieldsOf(ms))
<1> DEFINE ms == Dies[d].members
           n == Len(ms)
           D == 0 .. n
           F(g) == g = [k \in D |-> IF k = 0 THEN << >> ELSE AndMeantField(g[k - 1], ms[k])]
           V == Seq(FieldsOf(ms))
           next == [k \in D |-> IF k = 0 THEN {} ELSE {k - 1}]
           A == UNION {{k} \X [next[k] -> V] : k \in D}
           step == [p \in A |-> IF p[1] = 0 THEN << >>
                                ELSE AndMeantField(p[2][p[1] - 1], ms[p[1]])]
<1>1. MeantFields(d) = CHOOSE g : F(g)
  BY Zenon DEF MeantFields
<1>2. n \in Nat
  BY DiesAssumption, LenProperties DEF IsDie
<1> HIDE DEF n
<1>3. Ends(D, next)
  <2>1. ASSUME NEW S \in SUBSET D, \A k \in S : next[k] \cap S # {} PROVE S = {}
    <3> DEFINE T == {k \in Nat : k \notin S}
    <3>1. 0 \in T
      BY <1>2, <2>1
    <3>2. ASSUME NEW k \in Nat, k \in T PROVE k + 1 \in T
      <4>1. SUFFICES ASSUME k + 1 \in S PROVE FALSE
        OBVIOUS
      <4>2. k + 1 \in D /\ k + 1 # 0 /\ (k + 1) - 1 = k
        BY <4>1
      <4>3. next[k + 1] = {k}
        BY <4>2
      <4>4. k \in S
        BY <2>1, <4>1, <4>3
      <4>5. QED
        BY <3>2, <4>4
    <3> HIDE DEF T
    <3>3. Nat \subseteq T
      BY <3>1, <3>2, NatSetInduction
    <3>4. QED
      BY <1>2, <2>1, <3>3 DEF T
  <2>2. next \in [D -> SUBSET D]
    BY <1>2
  <2> HIDE DEF next, D
  <2>3. QED
    BY <2>1, <2>2 DEF Ends
<1>4. ASSUME NEW fs \in V, NEW k \in 1 .. n PROVE AndMeantField(fs, ms[k]) \in V
  <2>1. MeantField(ms[k]) \in FieldsOf(ms)
    BY <1>4 DEF FieldsOf, n
  <2>2. Append(fs, MeantField(ms[k])) \in V
    BY <2>1, AppendProperties
  <2>3. QED
    BY <2>2 DEF AndMeantField
<1>5. ASSUME NEW k \in D, NEW h \in [next[k] -> V]
      PROVE  /\ step[<< k, h >>] = IF k = 0 THEN << >> ELSE AndMeantField(h[k - 1], ms[k])
             /\ step[<< k, h >>] \in V
  <2>1. << k, h >> \in A
    <3> HIDE DEF V, D, next
    <3>1. << k, h >> \in {k} \X [next[k] -> V]
      OBVIOUS
    <3>2. QED
      BY <3>1
  <2>2. k # 0 => k \in 1 .. n /\ h[k - 1] \in V
    BY <1>2
  <2>3. << >> \in V
    OBVIOUS
  <2> HIDE DEF A, V, D, next
  <2>4. step[<< k, h >>] = IF k = 0 THEN << >> ELSE AndMeantField(h[k - 1], ms[k])
    BY <2>1
  <2> HIDE DEF step
  <2>5. QED
    BY <1>4, <2>2, <2>3, <2>4
<1> HIDE DEF step, A, V
<1>6. PICK g \in [D -> V] : Follows(g, D, next, step)
  <2> HIDE DEF D, next
  <2>1. StepsIn(D, next, V, step)
    BY <1>5 DEF StepsIn
  <2>2. QED
    BY <1>3, <2>1, RecursionIsDefined
<1>7. ASSUME NEW k \in D
      PROVE  g[k] = IF k = 0 THEN << >> ELSE AndMeantField(g[k - 1], ms[k])
  <2> DEFINE h == [j \in next[k] |-> g[j]]
  <2>1. h \in [next[k] -> V] /\ (k # 0 => h[k - 1] = g[k - 1])
    BY <1>2, <1>6
  <2> HIDE DEF h
  <2>2. g[k] = step[<< k, h >>]
    BY <1>6 DEF h, Follows
  <2>3. QED
    BY <1>5, <2>1, <2>2
<1>8. F(g)
  BY <1>6, <1>7
<1> HIDE DEF F
<1>9. F(MeantFields(d))
  BY <1>1, <1>8
<1>10. MeantFields(d) = g
  <2>1. \A f, e : F(f) /\ F(e) => f = e
    <3> SUFFICES ASSUME NEW f, NEW e, F(f), F(e) PROVE f = e
      OBVIOUS
    <3>1. /\ f = [k \in D |-> f[k]] /\ e = [k \in D |-> e[k]]
          /\ f[0] = << >> /\ e[0] = << >>
          /\ \A k \in 1 .. n : /\ f[k] = AndMeantField(f[k - 1], ms[k])
                               /\ e[k] = AndMeantField(e[k - 1], ms[k])
      BY <1>2 DEF F
    <3> DEFINE T == {k \in Nat : k <= n => f[k] = e[k]}
    <3>2. 0 \in T
      BY <3>1
    <3>3. ASSUME NEW k \in Nat, k \in T PROVE k + 1 \in T
      <4>1. CASE k + 1 <= n
        <5>1. k + 1 \in 1 .. n /\ (k + 1) - 1 = k /\ f[k] = e[k]
          BY <1>2, <3>3, <4>1
        <5>2. f[k + 1] = e[k + 1]
          BY <3>1, <5>1
        <5>3. QED
          BY <5>2
      <4>2. CASE ~ (k + 1 <= n)
        BY <4>2
      <4>3. QED
        BY <4>1, <4>2
    <3> HIDE DEF T
    <3>4. Nat \subseteq T
      BY <3>2, <3>3, NatSetInduction
    <3>5. \A k \in D : f[k] = e[k]
      BY <1>2, <3>4 DEF T
    <3>6. QED
      BY <3>1, <3>5
  <2>2. QED
    BY <1>8, <1>9, <2>1
<1>11. /\ g[0] = << >> /\ \A k \in 1 .. n : g[k] = AndMeantField(g[k - 1], ms[k])
       /\ \A k \in 0 .. n : g[k] \in V
  <2>1. 0 \in D /\ \A k \in 1 .. n : k \in D /\ k # 0
    BY <1>2
  <2>2. QED
    BY <1>6, <1>7, <2>1
<1>12. QED
  BY <1>10, <1>11 DEF V, n
-----------------------------------------------------------------------------
(* What the calls in progress are for, as long as no call of libdwarf has   *)
(* failed.                                                                 *)

\* The name that a struct or enumeration has when its type is asked for w.
NameVia(w) == IF Dies[Dies[w].type].name # "" THEN Dies[Dies[w].type].name ELSE Dies[w].name

\* A call is for a DIE of its function's kind.
GoodCall(c) ==
  /\ c.function = "typedef" => Dies[c.die].tag = "typedef"
  /\ c.function = "base_type" => Dies[c.die].tag \in {"base_type", "union_type"}
  /\ c.function = "structure_type" =>
       /\ Dies[c.die].tag = "structure_type" /\ c.symbol \in NamesOf(c.die)
       /\ c.next <= Len(Dies[c.die].members) + 1

\* A call that waits for a type, and the DIE whose type that is.
Waits(c) ==
  /\ c.function = "type" => /\ Dies[c.die].type # Null
                            /\ Dies[Dies[c.die].type].tag \in {"array_type", "const_type"}
  /\ c.function = "structure_type" => c.next <= Len(Dies[c.die].members)

AskedFor(c) == IF c.function = "type" THEN Dies[c.die].type
               ELSE IF c.function = "structure_type" THEN Dies[c.die].members[c.next]
               ELSE c.die

\* A call that will answer the type of w.
WorksOn(c, w) ==
  /\ w \in DOMAIN Dies
  /\ \/ c.function = "type" /\ c.die = w
     \/ /\ c.function \in {"typedef", "base_type", "structure_type"}
        /\ Dies[w].type # Null /\ Dies[w].type = c.die
        /\ c.function = "structure_type" =>
             /\ c.symbol = NameVia(w) /\ NameVia(w) # ""
             /\ Dies[w].decl_file /\ Dies[c.die].size # Null

\* The answer a is right for the type of w.
Meets(a, w) ==
  /\ LeadsToUnion[w] \/ a.symbol = Meaning[w]
  /\ a.dims = DimsAt(w)

GoodCalls(s) ==
  /\ \A k \in 1 .. Len(s) : GoodCall(s[k])
  /\ \A k \in 2 .. Len(s) : Waits(s[k]) /\ WorksOn(s[k - 1], AskedFor(s[k]))

GoodAnswer(s, a) ==
  a # << >> => Waits(s[1]) /\ AskedFor(s[1]) \in DOMAIN Dies /\ Meets(a[1], AskedFor(s[1]))

CallInv == GoodCalls(stack) /\ GoodAnswer(stack, answer)

LEMMA PushCalls ==
  ASSUME Inv, CallInv, NEW call, call \in Calls(symbols'), stack \in Seq(Calls(symbols')),
         Push(call), GoodCall(call),
         stack # << >> => Waits(stack[1]) /\ WorksOn(call, AskedFor(stack[1]))
  PROVE  CallInv'
<1> DEFINE t == << call >> \o stack
<1>1. stack' = t /\ answer' = << >> /\ Len(stack) \in Nat
  BY LenProperties DEF Push
<1>2. /\ Len(t) = Len(stack) + 1 /\ t[1] = call
      /\ \A k \in 2 .. Len(stack) + 1 : t[k] = stack[k - 1]
  BY ConsProperties
<1> HIDE DEF t
<1>3. \A k \in 1 .. Len(t) : GoodCall(t[k])
  BY <1>1, <1>2 DEF CallInv, GoodCalls
<1>4. ASSUME NEW k \in 2 .. Len(t) PROVE Waits(t[k]) /\ WorksOn(t[k - 1], AskedFor(t[k]))
  <2>1. k - 1 \in 1 .. Len(stack) /\ t[k] = stack[k - 1]
    BY <1>1, <1>2
  <2>2. CASE k = 2
    <3>1. stack # << >> /\ t[k - 1] = call /\ t[k] = stack[1]
      BY <1>1, <1>2, <2>1, <2>2
    <3>2. QED
      BY <3>1
  <2>3. CASE k # 2
    <3>1. k - 1 \in 2 .. Len(stack) /\ t[k - 1] = stack[(k - 1) - 1]
      BY <1>1, <1>2, <2>1, <2>3
    <3>2. QED
      BY <2>1, <3>1 DEF CallInv, GoodCalls
  <2>4. QED
    BY <2>2, <2>3
<1>5. QED
  BY <1>1, <1>3, <1>4 DEF CallInv, GoodCalls, GoodAnswer

\* What is left when the call on top ends.
LEMMA TailCalls ==
  ASSUME Inv, CallInv, stack # << >>
  PROVE  LET s == Tail(stack)
         IN  /\ s \in Seq(Calls(symbols)) /\ Len(s) = Len(stack) - 1 /\ Len(s) \in Nat
             /\ GoodCalls(s) /\ \A k \in 1 .. Len(s) : s[k] = stack[k + 1]
             /\ s # << >> => Waits(s[1]) /\ WorksOn(Top, AskedFor(s[1]))
<1> DEFINE s == Tail(stack)
<1>1. Top = stack[1] /\ stack \in Seq(Calls(symbols))
  BY TopCall DEF IsStack
<1>2. /\ s \in Seq(Calls(symbols)) /\ Len(s) = Len(stack) - 1 /\ Len(s) \in Nat
      /\ \A k \in 1 .. Len(s) : s[k] = stack[k + 1]
  BY <1>1, HeadTailProperties, LenProperties
<1>3. s # << >> => Len(s) >= 1
  BY <1>2, EmptySeq
<1> HIDE DEF s
<1>4. \A k \in 1 .. Len(s) : GoodCall(s[k])
  BY <1>2 DEF CallInv, GoodCalls
<1>5. ASSUME NEW k \in 2 .. Len(s) PROVE Waits(s[k]) /\ WorksOn(s[k - 1], AskedFor(s[k]))
  <2>1. k + 1 \in 2 .. Len(stack) /\ s[k] = stack[k + 1] /\ s[k - 1] = stack[(k + 1) - 1]
    BY <1>2
  <2>2. QED
    BY <2>1 DEF CallInv, GoodCalls
<1>6. ASSUME s # << >> PROVE Waits(s[1]) /\ WorksOn(Top, AskedFor(s[1]))
  <2>1. 2 \in 2 .. Len(stack) /\ s[1] = stack[2] /\ 2 - 1 = 1
    BY <1>2, <1>3, <1>6
  <2>2. QED
    BY <1>1, <2>1 DEF CallInv, GoodCalls
<1>7. QED
  BY <1>2, <1>4, <1>5, <1>6 DEF GoodCalls, s

LEMMA TailCallCalls ==
  ASSUME Inv, CallInv, stack # << >>, NEW call, call \in Calls(symbols'),
         Calls(symbols) \subseteq Calls(symbols'), TailCall(call), GoodCall(call),
         \A w : WorksOn(Top, w) => WorksOn(call, w)
  PROVE  CallInv'
<1> DEFINE s == Tail(stack)
           t == << call >> \o s
<1>1. /\ s \in Seq(Calls(symbols)) /\ Len(s) \in Nat /\ GoodCalls(s)
      /\ s # << >> => Waits(s[1]) /\ WorksOn(Top, AskedFor(s[1]))
      /\ stack' = t /\ answer' = << >>
  BY TailCalls DEF TailCall
<1> HIDE DEF s
<1>2. s \in Seq(Calls(symbols'))
  BY <1>1, SeqMonotonic
<1>3. /\ Len(t) = Len(s) + 1 /\ t[1] = call
      /\ \A k \in 2 .. Len(s) + 1 : t[k] = s[k - 1]
  BY <1>2, ConsProperties
<1> HIDE DEF t
<1>4. \A k \in 1 .. Len(t) : GoodCall(t[k])
  BY <1>1, <1>3 DEF GoodCalls
<1>5. ASSUME NEW k \in 2 .. Len(t) PROVE Waits(t[k]) /\ WorksOn(t[k - 1], AskedFor(t[k]))
  <2>1. k - 1 \in 1 .. Len(s) /\ t[k] = s[k - 1]
    BY <1>1, <1>3
  <2>2. CASE k = 2
    <3>1. s # << >> /\ t[k - 1] = call /\ t[k] = s[1]
      BY <1>1, <1>3, <2>1, <2>2
    <3>2. QED
      BY <1>1, <3>1
  <2>3. CASE k # 2
    <3>1. k - 1 \in 2 .. Len(s) /\ t[k - 1] = s[(k - 1) - 1]
      BY <1>1, <1>3, <2>1, <2>3
    <3>2. QED
      BY <1>1, <2>1, <3>1 DEF GoodCalls
  <2>4. QED
    BY <2>2, <2>3
<1>6. QED
  BY <1>1, <1>4, <1>5 DEF CallInv, GoodCalls, GoodAnswer

LEMMA ReturnCalls ==
  ASSUME Inv, CallInv, stack # << >>, NEW symbol, NEW dims, Return(symbol, dims),
         \A w : WorksOn(Top, w) => Meets([symbol |-> symbol, dims |-> dims], w)
  PROVE  CallInv'
<1> DEFINE s == Tail(stack)
           x == [symbol |-> symbol, dims |-> dims]
<1>1. /\ Len(s) \in Nat /\ Len(s) = Len(stack) - 1 /\ GoodCalls(s)
      /\ s # << >> => Waits(s[1]) /\ WorksOn(Top, AskedFor(s[1]))
      /\ stack' = s /\ answer' = IF Len(stack) = 1 THEN << >> ELSE << x >>
      /\ Len(stack) \in Nat
  BY TailCalls, TopCall, LenProperties DEF Return, IsStack
<1> HIDE DEF s
<1>2. ASSUME answer' # << >>
      PROVE  /\ Waits(s[1]) /\ AskedFor(s[1]) \in DOMAIN Dies
             /\ Meets(answer'[1], AskedFor(s[1]))
  <2>1. answer' = << x >> /\ s # << >>
    BY <1>1, <1>2
  <2>2. answer'[1] = x
    BY <2>1
  <2>3. WorksOn(Top, AskedFor(s[1])) /\ Waits(s[1])
    BY <1>1, <2>1
  <2>4. AskedFor(s[1]) \in DOMAIN Dies
    BY <2>3 DEF WorksOn
  <2>5. QED
    BY <2>2, <2>3, <2>4
<1> HIDE DEF x
<1>3. QED
  BY <1>1, <1>2 DEF CallInv, GoodAnswer

LEMMA TopGood ==
  ASSUME Inv, CallInv, stack # << >>
  PROVE  /\ GoodCall(Top)
         /\ Waiting => /\ Waits(Top) /\ AskedFor(Top) \in DOMAIN Dies
                       /\ Meets(Answer, AskedFor(Top))
<1>1. Top = stack[1] /\ 1 \in 1 .. Len(stack)
  BY TopCall, EmptySeq, LenProperties DEF IsStack
<1>2. Waiting => Answer = answer[1]
  BY HeadTailProperties DEF Inv, Control, Waiting, Answer
<1>3. QED
  BY <1>1, <1>2 DEF CallInv, GoodCalls, GoodAnswer, Waiting

LEMMA MoreCalls ==
  ASSUME Grows(symbols, symbols') PROVE Calls(symbols) \subseteq Calls(symbols')
BY DEF Grows, Calls

\* A type call asks for the type of its DIE.
LEMMA TypeAnswers ==
  ASSUME Inv, CallInv, stack # << >>, Top.function = "type", NEW symbol, NEW dims,
         Return(symbol, dims), Meets([symbol |-> symbol, dims |-> dims], Top.die)
  PROVE  CallInv'
<1>1. \A w : WorksOn(Top, w) => w = Top.die
  BY DEF WorksOn
<1>2. QED
  BY <1>1, ReturnCalls

\* No type is right if there is none.
LEMMA MeetsNull ==
  ASSUME Meaning[Top.die] = Null, TopDie.type # Null => Type.tag # "array_type"
  PROVE  Meets([symbol |-> Null, dims |-> << >>], Top.die)
BY DEF Meets, DimsAt, TopDie, Type

LEMMA AskType ==
  ASSUME Inv, CallInv, stack # << >>, Waits(Top), AskedFor(Top) \in DOMAIN Dies,
         symbols' = symbols, Push(Call("type", AskedFor(Top)))
  PROVE  CallInv'
<1> DEFINE call == Call("type", AskedFor(Top))
<1>1. call.function = "type" /\ call.die = AskedFor(Top)
  BY DEF Call
<1>2. call \in Calls(symbols)
  BY NewCalls DEF Functions
<1> HIDE DEF call
<1>3. GoodCall(call) /\ WorksOn(call, AskedFor(Top))
  BY <1>1 DEF GoodCall, WorksOn
<1>4. Top = stack[1] /\ stack \in Seq(Calls(symbols'))
  BY TopCall DEF IsStack
<1>5. QED
  BY <1>2, <1>3, <1>4, PushCalls DEF call

LEMMA VisitCalls ==
  ASSUME Inv, CallInv, ~ Fail, NEW d \in DOMAIN Dies, VisitDie(d),
         \A e \in todo : IsVisited(e)
  PROVE  CallInv'
<1>1. /\ stack = << >> /\ stack \in Seq(Calls(symbols'))
  BY EmptySeq DEF VisitDie
<1>2. CASE Dies[d].tag = "structure_type" /\ VisitStruct(d)
  <2> DEFINE n == Dies[d].name
             call == FillStruct(d, n)
  <2>1. PICK size : symbols' = AddSymbol(n, size, Null)
    BY <1>2 DEF VisitStruct
  <2>2. n \in DOMAIN symbols'
    BY <2>1 DEF AddSymbol, With
  <2>3. call \in Calls(symbols')
    BY <2>2, NewCalls
  <2>4. /\ call.function = "structure_type" /\ call.die = d /\ call.symbol = n
        /\ call.next = 1
    BY DEF FillStruct, Call
  <2>5. n \in NamesOf(d) \/ n = ""
    BY DEF NamesOf
  <2>6. n # ""
    <3>1. IsVisited(d)
      BY DEF VisitDie
    <3>2. QED
      BY <1>2, <3>1 DEF IsVisited
  <2> HIDE DEF call
  <2>7. GoodCall(call)
    <3>1. n \in NamesOf(d)
      BY <2>5, <2>6, Zenon
    <3>2. Len(Dies[d].members) \in Nat
      BY DiesAssumption, LenProperties DEF IsDie
    <3> HIDE DEF n
    <3>3. QED
      BY <1>2, <2>4, <3>1, <3>2 DEF GoodCall
  <2>8. Push(call)
    BY <1>2 DEF VisitStruct, call
  <2>9. QED
    BY <1>1, <2>3, <2>7, <2>8, PushCalls
<1>3. CASE Dies[d].tag \in {"base_type", "typedef"} /\ Push(Call(Dies[d].tag, d))
           /\ UNCHANGED symbols
  <2> DEFINE call == Call(Dies[d].tag, d)
  <2>1. call \in Calls(symbols')
    BY <1>3, NewCalls DEF Functions
  <2>2. GoodCall(call)
    BY <1>3 DEF GoodCall, Call
  <2> HIDE DEF call
  <2>3. QED
    BY <1>1, <1>3, <2>1, <2>2, PushCalls DEF call
<1>4. CASE UNCHANGED symbols /\ Push(Call("variable", d))
  <2> DEFINE call == Call("variable", d)
  <2>1. call \in Calls(symbols')
    BY <1>4, NewCalls DEF Functions
  <2>2. GoodCall(call)
    BY DEF GoodCall, Call
  <2> HIDE DEF call
  <2>3. QED
    BY <1>1, <1>4, <2>1, <2>2, PushCalls DEF call
<1>5. CASE UNCHANGED << symbols, stack, answer >>
  BY <1>1, <1>5 DEF CallInv
<1>6. QED
  BY <1>2, <1>3, <1>4, <1>5 DEF VisitDie

\* What the type of d means, by the kind of that type.
LEMMA MeaningByTag ==
  ASSUME NEW d \in DOMAIN Dies
  PROVE  LET t == Dies[d].type
             T == Dies[t]
         IN  /\ t = Null => Meaning[d] = Null
             /\ t # Null =>
                  /\ t \in DOMAIN Dies
                  /\ T.tag = "base_type" => Meaning[d] = T.name
                  /\ T.tag = "typedef" =>
                       /\ Meaning[d] = IF T.decl_file /\ Meaning[t] # Null THEN T.name ELSE Null
                       /\ LeadsToUnion[t] => LeadsToUnion[d]
                  /\ T.tag = "structure_type" =>
                       Meaning[d] = IF NameVia(d) = "" \/ T.size = Null THEN ""
                                    ELSE IF Dies[d].decl_file THEN NameVia(d) ELSE Null
                  /\ T.tag = "enumeration_type" =>
                       Meaning[d] = IF NameVia(d) = "" THEN Null ELSE NameVia(d)
                  /\ T.tag = "pointer_type" =>
                       Meaning[d] = IF T.size = Null THEN Null
                                    ELSE IF T.type = Null THEN "void*"
                                    ELSE IF FirstAncestorName[t] = Null THEN Null
                                    ELSE PointerTo(FirstAncestorName[t])
                  /\ T.tag = "array_type" => /\ Meaning[d] = Meaning[t]
                                             /\ LeadsToUnion[t] => LeadsToUnion[d]
                  /\ T.tag = "union_type" => LeadsToUnion[d]
                  /\ T.tag \in {"const_type", "other"} => Meaning[d] = Null
<1> DEFINE t == Dies[d].type
           T == Dies[t]
<1>1. Meaning[d] = Meant(d, Meaning[t]) /\ LeadsToUnion[d] = MeetsUnion(d, LeadsToUnion[t])
  BY MeaningDefined, LeadsToUnionDefined
<1>2. t # Null => t \in DOMAIN Dies
  BY DiesAssumption DEF IsDie
<1>3. t = Null => Meaning[d] = Null
  BY <1>1 DEF Meant
<1>4. ASSUME t # Null, T.tag = "base_type" PROVE Meaning[d] = T.name
  BY <1>1, <1>4 DEF Meant
<1>5. ASSUME t # Null, T.tag = "typedef"
      PROVE  /\ Meaning[d] = IF T.decl_file /\ Meaning[t] # Null THEN T.name ELSE Null
             /\ LeadsToUnion[t] => LeadsToUnion[d]
  BY <1>1, <1>5 DEF Meant, MeetsUnion
<1>6. ASSUME t # Null, T.tag = "structure_type"
      PROVE  Meaning[d] = IF NameVia(d) = "" \/ T.size = Null THEN ""
                          ELSE IF Dies[d].decl_file THEN NameVia(d) ELSE Null
  BY <1>1, <1>6 DEF Meant, NameVia
<1>7. ASSUME t # Null, T.tag = "enumeration_type"
      PROVE  Meaning[d] = IF NameVia(d) = "" THEN Null ELSE NameVia(d)
  BY <1>1, <1>7 DEF Meant, NameVia
<1>8. ASSUME t # Null, T.tag = "pointer_type"
      PROVE  Meaning[d] = IF T.size = Null THEN Null
                          ELSE IF T.type = Null THEN "void*"
                          ELSE IF FirstAncestorName[t] = Null THEN Null
                          ELSE PointerTo(FirstAncestorName[t])
  BY <1>1, <1>8 DEF Meant
<1>9. ASSUME t # Null, T.tag = "array_type"
      PROVE  Meaning[d] = Meaning[t] /\ (LeadsToUnion[t] => LeadsToUnion[d])
  BY <1>1, <1>9 DEF Meant, MeetsUnion
<1>10. ASSUME t # Null, T.tag = "union_type" PROVE LeadsToUnion[d]
  BY <1>1, <1>10 DEF MeetsUnion
<1>11. ASSUME t # Null, T.tag \in {"const_type", "other"} PROVE Meaning[d] = Null
  BY <1>1, <1>11 DEF Meant
<1> HIDE DEF t
<1>12. QED
  BY <1>2, <1>3, <1>4, <1>5, <1>6, <1>7, <1>8, <1>9, <1>10, <1>11 DEF t


LEMMA NoTypeCalls == ASSUME Inv, CallInv, ~ Fail, NoType PROVE CallInv'
<1>1. /\ stack # << >> /\ Top.function = "type" /\ Return(Null, << >>)
      /\ TopDie.type = Null \/ (TopDie.type # Null /\ Type.tag = "other")
  BY DEF NoType, Running
<1>2. Top.die \in DOMAIN Dies
  BY <1>1, TopCall
<1>3. Meaning[Top.die] = Null /\ (TopDie.type # Null => Type.tag # "array_type")
  <2>1. CASE TopDie.type = Null
    BY <1>2, <2>1, MeaningByTag DEF TopDie
  <2>2. CASE TopDie.type # Null /\ Type.tag = "other"
    BY <1>2, <2>2, MeaningByTag DEF TopDie, Type
  <2>3. QED
    BY <1>1, <2>1, <2>2
<1>4. Meets([symbol |-> Null, dims |-> << >>], Top.die)
  BY <1>3, MeetsNull
<1>5. QED
  BY <1>1, <1>4, TypeAnswers

\* The symbol that a pointer gives, when no call fails.
LEMMA PointerSymbol ==
  ASSUME PointerType, ~ Fail
  PROVE  LET pointee == FirstAncestorName[TopDie.type]
         IN  Return(IF Type.size = Null THEN Null
                    ELSE IF Type.type = Null THEN "void*"
                    ELSE IF pointee = Null THEN Null
                    ELSE PointerTo(pointee), << >>)
<1> DEFINE pointee == FirstAncestorName[TopDie.type]
           named   == IF pointee = Null THEN {} ELSE {PointerTo(pointee)}
           names   == IF Type.type = Null THEN {"void*"} ELSE named
<1> HIDE DEF pointee
<1>1. CASE Type.size = Null
  BY <1>1 DEF PointerType, pointee
<1>2. CASE Type.size # Null
  <2>1. \/ \E n \in names \cap named : Return(n, << >>)
        \/ names \cap named = {} /\ "void*" \in names /\ Return("void*", << >>)
        \/ names = {} /\ Return(Null, << >>)
    BY <1>2 DEF PointerType, pointee
  <2>2. CASE Type.type = Null
    <3>1. names = {"void*"}
      BY <2>2
    <3> HIDE DEF named, names
    <3>2. Return("void*", << >>)
      BY <2>1, <3>1
    <3>3. QED
      BY <1>2, <2>2, <3>2
  <2>3. CASE Type.type # Null /\ pointee = Null
    <3>1. names = {} /\ named = {}
      BY <2>3
    <3> HIDE DEF named, names
    <3>2. Return(Null, << >>)
      BY <2>1, <3>1
    <3>3. QED
      BY <1>2, <2>3, <3>2 DEF pointee
  <2>4. CASE Type.type # Null /\ pointee # Null
    <3>1. names = {PointerTo(pointee)} /\ named = {PointerTo(pointee)}
      BY <2>4
    <3> HIDE DEF named, names
    <3>2. Return(PointerTo(pointee), << >>)
      BY <2>1, <3>1
    <3>3. QED
      BY <1>2, <2>4, <3>2 DEF pointee
  <2>5. QED
    BY <2>2, <2>3, <2>4
<1>3. QED
  BY <1>1, <1>2

LEMMA PointerCalls == ASSUME Inv, CallInv, ~ Fail, PointerType PROVE CallInv'
<1>1. /\ stack # << >> /\ Top.function = "type" /\ TopDie.type # Null
      /\ Type.tag = "pointer_type"
  BY DEF PointerType, AtType, Running
<1>2. Top.die \in DOMAIN Dies
  BY <1>1, TopCall
<1>3. Meaning[Top.die] = IF Type.size = Null THEN Null
                         ELSE IF Type.type = Null THEN "void*"
                         ELSE IF FirstAncestorName[TopDie.type] = Null THEN Null
                         ELSE PointerTo(FirstAncestorName[TopDie.type])
  BY <1>1, <1>2, MeaningByTag DEF TopDie, Type
<1>4. Return(Meaning[Top.die], << >>)
  BY <1>3, PointerSymbol
<1>5. Meets([symbol |-> Meaning[Top.die], dims |-> << >>], Top.die)
  BY <1>1 DEF Meets, DimsAt, TopDie, Type
<1>6. QED
  BY <1>1, <1>4, <1>5, TypeAnswers

LEMMA StructCalls == ASSUME Inv, CallInv, ~ Fail, StructType PROVE CallInv'
<1> DEFINE w == Top.die
<1>1. /\ stack # << >> /\ Top.function = "type" /\ TopDie.type # Null
      /\ Type.tag = "structure_type" /\ Grows(symbols, symbols')
  BY StructStep DEF StructType, AtType, Running
<1>2. /\ w \in DOMAIN Dies /\ TopDie.type \in DOMAIN Dies /\ TypeName = NameVia(w)
  BY <1>1, TopCall DEF TypeName, NameVia, TopDie, Type
<1>3. Meaning[w] = IF TypeName = "" \/ Type.size = Null THEN ""
                   ELSE IF TopDie.decl_file THEN TypeName ELSE Null
  BY <1>1, <1>2, MeaningByTag DEF TopDie, Type
<1>4. CASE (TypeName = "" \/ Type.size = Null) /\ Return("", << >>)
  <2>1. Meets([symbol |-> "", dims |-> << >>], w)
    BY <1>1, <1>3, <1>4 DEF Meets, DimsAt, TopDie, Type
  <2>2. QED
    BY <1>1, <1>4, <2>1, TypeAnswers
<1>5. CASE /\ TypeName # "" /\ Type.size # Null /\ ~ TopDie.decl_file
           /\ Return(Null, << >>)
  <2>1. Meets([symbol |-> Null, dims |-> << >>], w)
    BY <1>1, <1>3, <1>5, MeetsNull
  <2>2. QED
    BY <1>1, <1>5, <2>1, TypeAnswers
<1>6. CASE /\ TypeName # "" /\ Type.size # Null /\ TopDie.decl_file
           /\ symbols' = AddSymbol(TypeName, Type.size, Null)
           /\ TailCall(FillStruct(TopDie.type, TypeName))
  <2> DEFINE n == TypeName
             call == FillStruct(TopDie.type, n)
  <2> HIDE DEF n
  <2>1. n \in DOMAIN symbols'
    BY <1>6 DEF AddSymbol, With, n
  <2>2. /\ call.function = "structure_type" /\ call.die = TopDie.type /\ call.symbol = n
        /\ call.next = 1
    BY DEF FillStruct, Call
  <2>3. call \in Calls(symbols')
    BY <1>2, <2>1, NewCalls
  <2> HIDE DEF call
  <2>4. GoodCall(call)
    <3>1. n \in NamesOf(TopDie.type)
      BY <1>1, <1>2, <1>6 DEF NamesOf, NameVia, TopDie, Type, n
    <3>2. Len(Type.members) \in Nat
      BY <1>1, TopCall, LenProperties DEF IsDie
    <3>3. QED
      BY <1>1, <2>2, <3>1, <3>2 DEF GoodCall, Type
  <2>5. \A x : WorksOn(Top, x) => WorksOn(call, x)
    <3>1. WorksOn(call, w)
      BY <1>1, <1>2, <1>6, <2>2 DEF WorksOn, TopDie, Type, n
    <3>2. \A x : WorksOn(Top, x) => x = w
      BY <1>1 DEF WorksOn
    <3>3. QED
      BY <3>1, <3>2
  <2>6. QED
    BY <1>1, <1>6, <2>3, <2>4, <2>5, MoreCalls, TailCallCalls DEF call, n
<1>7. QED
  BY <1>4, <1>5, <1>6 DEF StructType

LEMMA EnumCalls == ASSUME Inv, CallInv, ~ Fail, EnumType PROVE CallInv'
<1> DEFINE w == Top.die
<1>1. /\ stack # << >> /\ Top.function = "type" /\ TopDie.type # Null
      /\ Type.tag = "enumeration_type"
  BY DEF EnumType, AtType, Running
<1>2. w \in DOMAIN Dies /\ TypeName = NameVia(w)
  BY <1>1, TopCall DEF TypeName, NameVia, TopDie, Type
<1>3. Meaning[w] = IF TypeName = "" THEN Null ELSE TypeName
  BY <1>1, <1>2, MeaningByTag DEF TopDie, Type
<1>4. Return(Meaning[w], << >>)
  BY <1>3 DEF EnumType
<1>5. Meets([symbol |-> Meaning[w], dims |-> << >>], w)
  BY <1>1, <1>3 DEF Meets, DimsAt, TopDie, Type
<1>6. QED
  BY <1>1, <1>4, <1>5, TypeAnswers

\* A base type, union or typedef is processed in place of the call for it.
LEMMA KindCalls ==
  ASSUME Inv, CallInv, BaseType \/ TypedefType PROVE CallInv'
<1> DEFINE w == Top.die
           f == IF TypedefType THEN "typedef" ELSE "base_type"
           call == Call(f, TopDie.type)
<1>1. /\ stack # << >> /\ Top.function = "type" /\ TopDie.type # Null /\ symbols' = symbols
      /\ TypedefType => Type.tag = "typedef"
      /\ ~ TypedefType => Type.tag \in {"base_type", "union_type"}
      /\ TailCall(call)
  BY DEF BaseType, TypedefType, AtType, Running, elfVars
<1>2. TopDie.type \in DOMAIN Dies /\ w \in DOMAIN Dies
  BY <1>1, TopCall
<1>3. call \in Calls(symbols)
  BY <1>2, NewCalls DEF Functions
<1>4. call.function = f /\ call.die = TopDie.type
  BY DEF Call
<1> HIDE DEF call
<1>5. GoodCall(call)
  BY <1>1, <1>4 DEF GoodCall, Type
<1>6. \A x : WorksOn(Top, x) => WorksOn(call, x)
  BY <1>1, <1>2, <1>4 DEF WorksOn, TopDie
<1>7. QED
  BY <1>1, <1>3, <1>5, <1>6, TailCallCalls

LEMMA ElementCalls == ASSUME Inv, CallInv, ~ Fail, ElementType PROVE CallInv'
<1> DEFINE w == Top.die
           t == TopDie.type
<1>1. /\ stack # << >> /\ Top.function = "type" /\ t # Null /\ symbols' = symbols
      /\ Type.tag \in {"array_type", "const_type"}
  BY DEF ElementType, AtType, Running, elfVars
<1>2. w \in DOMAIN Dies /\ t \in DOMAIN Dies
  BY <1>1, TopCall
<1>3. AskedFor(Top) = t /\ Waits(Top)
  BY <1>1 DEF AskedFor, TopDie, Waits, Type
<1>4. CASE Waiting /\ Type.tag = "array_type" /\ Return(Answer.symbol, Type.dims)
  <2>1. Meets(Answer, t)
    BY <1>1, <1>3, <1>4, TopGood
  <2>2. Meaning[w] = Meaning[t] /\ (LeadsToUnion[t] => LeadsToUnion[w])
    BY <1>1, <1>2, <1>4, MeaningByTag DEF TopDie, Type
  <2>3. DimsAt(w) = Type.dims
    BY <1>1, <1>4 DEF DimsAt, TopDie, Type
  <2>4. Meets([symbol |-> Answer.symbol, dims |-> Type.dims], w)
    BY <2>1, <2>2, <2>3 DEF Meets
  <2>5. QED
    BY <1>1, <1>4, <2>4, TypeAnswers
<1>5. CASE Waiting /\ Type.tag # "array_type" /\ Return(Null, << >>)
  <2>1. Meaning[w] = Null
    BY <1>1, <1>2, <1>5, MeaningByTag DEF TopDie, Type
  <2>2. Meets([symbol |-> Null, dims |-> << >>], w)
    BY <1>5, <2>1, MeetsNull
  <2>3. QED
    BY <1>1, <1>5, <2>2, TypeAnswers
<1>6. CASE Push(Call("type", t))
  BY <1>1, <1>2, <1>3, <1>6, AskType
<1>7. QED
  BY <1>4, <1>5, <1>6 DEF ElementType

LEMMA BaseTypeCalls == ASSUME Inv, CallInv, ~ Fail, ProcessBaseType PROVE CallInv'
<1>1. stack # << >> /\ Top.function = "base_type"
  BY Zenon DEF ProcessBaseType, Running
<1>2. GoodCall(Top)
  BY <1>1, TopGood
<1>3. \/ Return(TopDie.name, << >>)
      \/ Return(Null, << >>) /\ TopDie.tag = "union_type"
  <2>1. ASSUME NEW name, IF name = TopDie.name THEN UNCHANGED errors ELSE Fail,
               Return(name, << >>)
        PROVE  Return(TopDie.name, << >>)
    BY <2>1
  <2>2. QED
    BY <2>1, Zenon DEF ProcessBaseType
<1>4. ASSUME NEW w, WorksOn(Top, w)
      PROVE  /\ Meets([symbol |-> TopDie.name, dims |-> << >>], w)
             /\ TopDie.tag = "union_type" => Meets([symbol |-> Null, dims |-> << >>], w)
  <2>1. /\ w \in DOMAIN Dies /\ Dies[w].type # Null /\ Dies[w].type = Top.die
        /\ TopDie.tag \in {"base_type", "union_type"}
    BY <1>1, <1>2, <1>4 DEF WorksOn, GoodCall, TopDie
  <2>2. /\ TopDie.tag = "base_type" => Meaning[w] = TopDie.name
        /\ TopDie.tag = "union_type" => LeadsToUnion[w]
    BY <2>1, MeaningByTag DEF TopDie
  <2>3. DimsAt(w) = << >>
    BY <2>1 DEF DimsAt, TopDie
  <2>4. QED
    BY <2>1, <2>2, <2>3 DEF Meets
<1>5. QED
  BY <1>1, <1>3, <1>4, ReturnCalls

LEMMA TypedefCalls == ASSUME Inv, CallInv, ~ Fail, ProcessTypedef PROVE CallInv'
<1> DEFINE d == Top.die
<1>1. stack # << >> /\ Top.function = "typedef"
  BY DEF ProcessTypedef, Running
<1>2. /\ GoodCall(Top) /\ d \in DOMAIN Dies /\ AskedFor(Top) = d /\ Waits(Top)
      /\ TopDie.tag = "typedef"
  BY <1>1, TopGood, TopCall DEF AskedFor, Waits, GoodCall, TopDie
<1>3. CASE Push(Call("type", d)) /\ UNCHANGED symbols
  BY <1>1, <1>2, <1>3, AskType
<1>4. CASE Waiting
  <2> DEFINE symbol == IF Answer.symbol # Null /\ TopDie.decl_file THEN TopDie.name ELSE Null
  <2>1. Return(symbol, << >>)
    BY <1>4 DEF ProcessTypedef
  <2>2. Meets(Answer, d)
    BY <1>1, <1>2, <1>4, TopGood
  <2>3. ASSUME NEW w, WorksOn(Top, w)
        PROVE  Meets([symbol |-> symbol, dims |-> << >>], w)
    <3>1. w \in DOMAIN Dies /\ Dies[w].type # Null /\ Dies[w].type = d
      BY <1>1, <2>3 DEF WorksOn
    <3>2. /\ Meaning[w] = IF TopDie.decl_file /\ Meaning[d] # Null THEN TopDie.name ELSE Null
          /\ LeadsToUnion[d] => LeadsToUnion[w]
      <4>1. Dies[Dies[w].type].tag = "typedef"
        BY <1>2, <3>1 DEF TopDie
      <4>2. /\ Meaning[w] = IF Dies[Dies[w].type].decl_file /\ Meaning[Dies[w].type] # Null
                            THEN Dies[Dies[w].type].name ELSE Null
            /\ LeadsToUnion[Dies[w].type] => LeadsToUnion[w]
        BY <3>1, <4>1, MeaningByTag
      <4>3. QED
        BY <3>1, <4>2 DEF TopDie
    <3>3. DimsAt(w) = << >>
      BY <1>2, <3>1 DEF DimsAt, TopDie
    <3>4. QED
      BY <2>2, <3>2, <3>3 DEF Meets
  <2>4. QED
    BY <1>1, <2>1, <2>3, ReturnCalls
<1>5. QED
  BY <1>3, <1>4 DEF ProcessTypedef

\* A struct that has come to its next member.
LEMMA NextCall ==
  ASSUME NEW T, NEW c \in Calls(T)
  PROVE  LET e == [c EXCEPT !.next = @ + 1]
         IN  /\ e.function = c.function /\ e.die = c.die /\ e.symbol = c.symbol
             /\ e.next = c.next + 1
<1>1. c = [function |-> c.function, die |-> c.die, symbol |-> c.symbol, next |-> c.next]
  BY DEF Calls
<1>2. \A f, d, n, k :
        LET e == [[function |-> f, die |-> d, symbol |-> n, next |-> k]
                     EXCEPT !.next = @ + 1]
        IN  e.function = f /\ e.die = d /\ e.symbol = n /\ e.next = k + 1
  OBVIOUS
<1>3. QED
  BY <1>1, <1>2

LEMMA StructFillCalls == ASSUME Inv, CallInv, ~ Fail, ProcessStruct PROVE CallInv'
<1> DEFINE d == Top.die
           next == Top.next
           ms == TopDie.members
<1>1. /\ stack # << >> /\ Top.function = "structure_type" /\ Top \in Calls(symbols)
      /\ Top.symbol \in DOMAIN symbols /\ IsDie(TopDie) /\ next \in Nat \ {0}
      /\ d \in DOMAIN Dies
  BY TopCall DEF ProcessStruct, Running, Calls
<1>2. GoodCall(Top) /\ TopDie.tag = "structure_type" /\ Len(ms) \in Nat
  BY <1>1, TopGood, LenProperties DEF GoodCall, TopDie, IsDie
<1>3. CASE next > Len(ms) /\ Return(Top.symbol, << >>)
  <2>1. ASSUME NEW w, WorksOn(Top, w)
        PROVE  Meets([symbol |-> Top.symbol, dims |-> << >>], w)
    <3>1. /\ w \in DOMAIN Dies /\ Dies[w].type # Null /\ Dies[w].type = d
          /\ Top.symbol = NameVia(w) /\ NameVia(w) # "" /\ Dies[w].decl_file
          /\ TopDie.size # Null
      BY <1>1, <2>1 DEF WorksOn, TopDie
    <3>2. Meaning[w] = NameVia(w)
      BY <1>2, <3>1, MeaningByTag DEF TopDie
    <3>3. DimsAt(w) = << >>
      BY <1>2, <3>1 DEF DimsAt, TopDie
    <3>4. QED
      BY <3>1, <3>2, <3>3 DEF Meets
  <2>2. QED
    BY <1>1, <1>3, <2>1, ReturnCalls
<1>4. CASE next <= Len(ms) /\ Push(Call("type", ms[next])) /\ symbols' = symbols
  <2>1. AskedFor(Top) = ms[next] /\ Waits(Top)
    BY <1>1, <1>2, <1>4 DEF AskedFor, Waits, TopDie
  <2>2. next \in 1 .. Len(ms) /\ ms[next] \in DOMAIN Dies
    BY <1>1, <1>2, <1>4, ElementOfSeq DEF IsDie
  <2>3. QED
    BY <1>1, <1>4, <2>1, <2>2, AskType
<1>5. CASE next <= Len(ms) /\ TailCall([Top EXCEPT !.next = @ + 1])
  <2> DEFINE call == [Top EXCEPT !.next = @ + 1]
  <2>1. TailCall(call)
    BY <1>5
  <2>2. call \in Calls(symbols)
    BY <1>1, NextMember
  <2>3. /\ call.function = "structure_type" /\ call.die = d /\ call.symbol = Top.symbol
        /\ call.next = next + 1
    BY <1>1, NextCall
  <2> HIDE DEF call
  <2>4. GoodCall(call)
    BY <1>1, <1>2, <1>5, <2>3 DEF GoodCall, TopDie
  <2>5. \A w : WorksOn(Top, w) => WorksOn(call, w)
    BY <1>1, <2>3 DEF WorksOn
  <2>6. Calls(symbols) \subseteq Calls(symbols')
    BY StructProcessed, MoreCalls
  <2>7. call \in Calls(symbols')
    BY <2>2, <2>6
  <2>8. QED
    BY <1>1, <2>1, <2>4, <2>5, <2>6, <2>7, TailCallCalls
<1>6. QED
  BY <1>3, <1>4, <1>5 DEF ProcessStruct

LEMMA VariableCalls == ASSUME Inv, CallInv, ProcessVariable PROVE CallInv'
<1>1. stack # << >> /\ Top.function = "variable" /\ symbols' = symbols
  BY DEF ProcessVariable, Running
<1>2. Top.die \in DOMAIN Dies /\ AskedFor(Top) = Top.die /\ Waits(Top)
  BY <1>1, TopCall DEF AskedFor, Waits
<1>3. CASE Push(Call("type", Top.die))
  BY <1>1, <1>2, <1>3, AskType
<1>4. CASE Return(Null, << >>)
  <2>1. \A w : ~ WorksOn(Top, w)
    BY <1>1 DEF WorksOn
  <2>2. QED
    BY <1>1, <1>4, <2>1, ReturnCalls
<1>5. QED
  BY <1>3, <1>4 DEF ProcessVariable

LEMMA StepKeepsCalls ==
  ASSUME Inv, CallInv, ~ Fail, \A e \in todo : IsVisited(e), [Next]_vars PROVE CallInv'
<1>1. ASSUME NEW d \in DOMAIN Dies, VisitDie(d) PROVE CallInv'
  BY <1>1, VisitCalls
<1>2. CASE UNCHANGED vars
  BY <1>2 DEF vars, CallInv
<1>3. QED
  BY <1>1, <1>2, NoTypeCalls, PointerCalls, StructCalls, EnumCalls, KindCalls,
     ElementCalls, BaseTypeCalls, TypedefCalls, StructFillCalls, VariableCalls DEF Next
-----------------------------------------------------------------------------
(* What a step does to a symbol, and to the calls.                         *)

Same(n) == /\ n \in DOMAIN symbols' <=> n \in DOMAIN symbols
           /\ n \in DOMAIN symbols => symbols'[n] = symbols[n]

LEMMA AddElsewhere ==
  ASSUME NEW n, NEW m, NEW size, NEW target, symbols' = AddSymbol(m, size, target),
         m # n \/ m \in DOMAIN symbols
  PROVE  Same(n)
BY DEF AddSymbol, With, Same

LEMMA AddedHere ==
  ASSUME NEW n, NEW size, NEW target, symbols' = AddSymbol(n, size, target)
  PROVE  /\ n \in DOMAIN symbols'
         /\ symbols'[n] = IF n \in DOMAIN symbols THEN symbols[n] ELSE NewSymbol(size, target)
BY DEF AddSymbol, With

\* A name that d owns is the name of a DIE.
LEMMA OwnedName ==
  ASSUME NEW d \in DOMAIN Dies, NEW n, Owns(d, n)
  PROVE  n # "" /\ n \in NamesOf(d) /\ \E e \in DOMAIN Dies : n = Dies[e].name
<1>1. n # "" /\ n \in NamesOf(d)
  BY DEF Owns
<1>2. CASE Dies[d].tag \in {"structure_type", "enumeration_type"} /\ Dies[d].name = ""
  <2>1. n \in {Dies[e].name : e \in {f \in DOMAIN Dies : Dies[f].type = d}}
    BY <1>1, <1>2 DEF NamesOf
  <2>2. QED
    BY <1>1, <2>1
<1>3. CASE ~ (Dies[d].tag \in {"structure_type", "enumeration_type"} /\ Dies[d].name = "")
  <2>1. n \in {Dies[d].name}
    BY <1>1, <1>3 DEF NamesOf
  <2>2. QED
    BY <1>1, <2>1
<1>4. QED
  BY <1>2, <1>3

\* Another DIE that puts symbols under a name of d is a typedef of d.
LEMMA OtherMaker ==
  ASSUME NEW d \in DOMAIN Dies, NEW n, Owns(d, n),
         NEW e \in DOMAIN Dies, Dies[e].tag \in Makers, n \in NamesOf(e)
  PROVE  \/ e = d
         \/ /\ Dies[e].tag = "typedef" /\ Dies[e].type = d
            /\ Dies[d].tag # "typedef" /\ Dies[d].size # Null
BY DEF Owns

LEMMA NameViaOf ==
  ASSUME NEW w \in DOMAIN Dies, Dies[w].type \in DOMAIN Dies,
         Dies[Dies[w].type].tag \in {"structure_type", "enumeration_type"}
  PROVE  NameVia(w) \in NamesOf(Dies[w].type)
<1> DEFINE t == Dies[w].type
<1>1. CASE Dies[t].name = ""
  BY <1>1 DEF NameVia, NamesOf
<1>2. CASE Dies[t].name # ""
  BY <1>2 DEF NameVia, NamesOf
<1>3. QED
  BY <1>1, <1>2

VisitedStruct(d, n) ==
  /\ VisitDie(d) /\ Dies[d].tag = "structure_type" /\ VisitStruct(d) /\ n = Dies[d].name

FoundStruct(d, n) ==
  /\ StructType /\ TopDie.type = d /\ TypeName = n
  /\ symbols' = AddSymbol(n, Type.size, Null) /\ TailCall(FillStruct(d, n))

FoundEnum(d, n) == EnumType /\ TopDie.type = d /\ TypeName = n

DoneTypedef(d, n) ==
  /\ ProcessTypedef /\ Waiting /\ Answer.symbol # Null
  /\ TopDie.decl_file /\ TopDie.name = n
  /\ symbols' = AddSymbol(n, SizeOf(Answer.symbol), Answer.symbol)
  /\ \/ Top.die = d
     \/ TopDie.type = d /\ Dies[d].tag # "typedef" /\ Dies[d].size # Null

FilledStruct(d, n) == ProcessStruct /\ Top.die = d /\ Top.symbol = n

\* The steps that may change the symbol under a name that d owns.
Touches(d, n) ==
  \/ VisitedStruct(d, n) \/ FoundStruct(d, n) \/ FoundEnum(d, n)
  \/ DoneTypedef(d, n) \/ FilledStruct(d, n)
  \/ Dies[d].tag = "base_type"

LEMMA VisitTouches ==
  ASSUME Inv, CallInv, NEW d \in DOMAIN Dies, NEW n, Owns(d, n),
         NEW e \in DOMAIN Dies, VisitDie(e), \A x \in todo : IsVisited(x)
  PROVE  Same(n) \/ Touches(d, n)
<1>1. CASE Dies[e].tag = "structure_type" /\ VisitStruct(e)
  <2>1. PICK size : symbols' = AddSymbol(Dies[e].name, size, Null)
    BY <1>1 DEF VisitStruct
  <2>2. CASE Dies[e].name = n
    <3>1. n \in NamesOf(e)
      BY <2>2, OwnedName DEF NamesOf
    <3>2. e = d
      BY <1>1, <3>1, OtherMaker DEF Makers
    <3>3. QED
      BY <1>1, <2>2, <3>2 DEF Touches, VisitedStruct
  <2>3. CASE Dies[e].name # n
    BY <2>1, <2>3, AddElsewhere
  <2>4. QED
    BY <2>2, <2>3
<1>2. CASE UNCHANGED symbols
  BY <1>2 DEF Same
<1>3. QED
  BY <1>1, <1>2 DEF VisitDie

LEMMA PointerTouches ==
  ASSUME Inv, NEW d \in DOMAIN Dies, NEW n, Owns(d, n), PointerType
  PROVE  Same(n)
<1> DEFINE pointee == FirstAncestorName[TopDie.type]
           named   == IF pointee = Null THEN {} ELSE {PointerTo(pointee)}
<1>1. stack # << >> /\ TopDie.type # Null
  BY DEF PointerType, AtType, Running
<1>2. TopDie.type \in DOMAIN Dies
  BY <1>1, TopCall
<1>3. PICK e \in DOMAIN Dies : n = Dies[e].name
  BY OwnedName
<1>4. n \notin {"void*"} \cup named
  BY <1>2, <1>3, NamesAssumption
<1>5. \/ \E names \in SUBSET ({"void*"} \cup named) : symbols' = AddPointers(names, Type.size)
      \/ symbols' = symbols
  BY DEF PointerType
<1> HIDE DEF named
<1>6. QED
  BY <1>4, <1>5 DEF AddPointers, Same

LEMMA StructTouches ==
  ASSUME Inv, ~ Fail, NEW d \in DOMAIN Dies, NEW n, Owns(d, n), StructType
  PROVE  Same(n) \/ Touches(d, n)
<1>1. /\ stack # << >> /\ TopDie.type # Null /\ Type.tag = "structure_type"
  BY DEF StructType, AtType, Running
<1>2. TopDie.type \in DOMAIN Dies /\ Top.die \in DOMAIN Dies /\ n # ""
  BY <1>1, TopCall, OwnedName
<1>3. CASE symbols' = AddSymbol("", 0, Null)
  BY <1>2, <1>3, AddElsewhere
<1>4. CASE symbols' = AddSymbol(TypeName, Type.size, Null)
           /\ TailCall(FillStruct(TopDie.type, TypeName))
  <2>1. CASE TypeName = n
    <3>1. NameVia(Top.die) = n
      BY <2>1 DEF TypeName, NameVia, TopDie, Type
    <3>2. n \in NamesOf(TopDie.type)
      BY <1>1, <1>2, <3>1, NameViaOf DEF TopDie, Type
    <3>3. TopDie.type = d
      BY <1>1, <1>2, <3>2, OtherMaker DEF Makers, Type
    <3>4. QED
      BY <1>4, <2>1, <3>3 DEF Touches, FoundStruct
  <2>2. CASE TypeName # n
    BY <1>4, <2>2, AddElsewhere
  <2>3. QED
    BY <2>1, <2>2
<1>5. CASE UNCHANGED symbols
  BY <1>5 DEF Same
<1>6. QED
  BY <1>3, <1>4, <1>5 DEF StructType

LEMMA EnumTouches ==
  ASSUME Inv, ~ Fail, NEW d \in DOMAIN Dies, NEW n, Owns(d, n), EnumType
  PROVE  Same(n) \/ Touches(d, n)
<1>1. stack # << >> /\ TopDie.type # Null /\ Type.tag = "enumeration_type"
  BY DEF EnumType, AtType, Running
<1>2. TopDie.type \in DOMAIN Dies /\ Top.die \in DOMAIN Dies
  BY <1>1, TopCall
<1>3. CASE TypeName = n
  <2>1. NameVia(Top.die) = n
    BY <1>3 DEF TypeName, NameVia, TopDie, Type
  <2>2. n \in NamesOf(TopDie.type)
    BY <1>1, <1>2, <2>1, NameViaOf DEF TopDie, Type
  <2>3. TopDie.type = d
    BY <1>1, <1>2, <2>2, OtherMaker DEF Makers, Type
  <2>4. QED
    BY <1>3, <2>3 DEF Touches, FoundEnum
<1>4. CASE TypeName # n
  <2> DEFINE T == AddSymbol(TypeName, Type.size, Null)
  <2>1. /\ n \in DOMAIN T <=> n \in DOMAIN symbols
        /\ n \in DOMAIN symbols => T[n] = symbols[n]
    BY <1>4 DEF AddSymbol, With
  <2>2. \/ symbols' = symbols
        \/ \E count : symbols' = WithEnumerators(T, TypeName, count)
    BY DEF EnumType
  <2>3. ASSUME NEW count, symbols' = WithEnumerators(T, TypeName, count) PROVE Same(n)
    <3> HIDE DEF T
    <3>1. DOMAIN symbols' = DOMAIN T /\ (n \in DOMAIN T => symbols'[n] = T[n])
      BY <1>4, <2>3 DEF WithEnumerators
    <3>2. QED
      BY <2>1, <3>1 DEF Same
  <2>4. QED
    BY <2>2, <2>3 DEF Same
<1>5. QED
  BY <1>3, <1>4

LEMMA BaseTouches ==
  ASSUME Inv, CallInv, NEW d \in DOMAIN Dies, NEW n, Owns(d, n), ProcessBaseType
  PROVE  Same(n) \/ Touches(d, n)
<1>1. stack # << >>
  BY Zenon DEF ProcessBaseType, Running
<1>2. Top.die \in DOMAIN Dies
  BY <1>1, TopCall
<1>3. CASE UNCHANGED symbols
  BY <1>3 DEF Same
<1>4. CASE TopDie.tag = "base_type" /\ symbols' = AddSymbol(TopDie.name, TopDie.size, Null)
  <2>1. CASE TopDie.name = n
    <3>1. n \in NamesOf(Top.die)
      BY <1>4, <2>1 DEF NamesOf, TopDie
    <3>2. Top.die = d
      BY <1>2, <1>4, <3>1, OtherMaker DEF Makers, TopDie
    <3>3. QED
      BY <1>4, <3>2 DEF Touches, TopDie
  <2>2. CASE TopDie.name # n
    BY <1>4, <2>2, AddElsewhere
  <2>3. QED
    BY <2>1, <2>2
<1>5. QED
  BY <1>3, <1>4, Zenon DEF ProcessBaseType

LEMMA TypedefTouches ==
  ASSUME Inv, CallInv, NEW d \in DOMAIN Dies, NEW n, Owns(d, n), ProcessTypedef
  PROVE  Same(n) \/ Touches(d, n)
<1>1. stack # << >> /\ Top.function = "typedef"
  BY DEF ProcessTypedef, Running
<1>2. Top.die \in DOMAIN Dies /\ TopDie.tag = "typedef"
  BY <1>1, TopCall, TopGood DEF GoodCall, TopDie
<1>3. CASE UNCHANGED symbols
  BY <1>3 DEF Same
<1>4. CASE /\ Waiting /\ Answer.symbol # Null /\ TopDie.decl_file
           /\ symbols' = AddSymbol(TopDie.name, SizeOf(Answer.symbol), Answer.symbol)
  <2>1. CASE TopDie.name = n
    <3>1. n \in NamesOf(Top.die)
      BY <1>2, <2>1 DEF NamesOf, TopDie
    <3>2. \/ Top.die = d
          \/ TopDie.type = d /\ Dies[d].tag # "typedef" /\ Dies[d].size # Null
      BY <1>2, <3>1, OtherMaker DEF Makers, TopDie
    <3>3. QED
      BY <1>4, <2>1, <3>2 DEF Touches, DoneTypedef
  <2>2. CASE TopDie.name # n
    BY <1>4, <2>2, AddElsewhere
  <2>3. QED
    BY <2>1, <2>2
<1>5. QED
  BY <1>3, <1>4 DEF ProcessTypedef

LEMMA FillTouches ==
  ASSUME Inv, CallInv, NEW d \in DOMAIN Dies, NEW n, Owns(d, n), ProcessStruct
  PROVE  Same(n) \/ Touches(d, n)
<1>1. stack # << >> /\ Top.function = "structure_type"
  BY DEF ProcessStruct, Running
<1>2. /\ Top.die \in DOMAIN Dies /\ TopDie.tag = "structure_type"
      /\ Top.symbol \in NamesOf(Top.die)
  BY <1>1, TopCall, TopGood DEF GoodCall, TopDie
<1>3. CASE Top.symbol = n
  <2>1. Top.die = d
    BY <1>2, <1>3, OtherMaker DEF Makers, TopDie
  <2>2. QED
    BY <1>3, <2>1 DEF Touches, FilledStruct
<1>4. CASE Top.symbol # n
  <2>1. \/ symbols' = symbols
        \/ \E fs : symbols' = [symbols EXCEPT ![Top.symbol].fields = fs]
    BY DEF ProcessStruct
  <2>2. QED
    BY <1>4, <2>1 DEF Same
<1>5. QED
  BY <1>3, <1>4

LEMMA StepTouches ==
  ASSUME Inv, CallInv, ~ Fail, NEW d \in DOMAIN Dies, NEW n, Owns(d, n), [Next]_vars,
         \A e \in todo : IsVisited(e)
  PROVE  Same(n) \/ Touches(d, n)
<1>1. ASSUME NEW e \in DOMAIN Dies, VisitDie(e) PROVE Same(n) \/ Touches(d, n)
  BY <1>1, VisitTouches
<1>2. CASE \/ NoType \/ BaseType \/ TypedefType \/ ElementType \/ ProcessVariable
           \/ UNCHANGED vars
  BY <1>2 DEF NoType, BaseType, TypedefType, ElementType, ProcessVariable, vars, elfVars, Same
<1>3. QED
  BY <1>1, <1>2, PointerTouches, StructTouches, EnumTouches, BaseTouches, TypedefTouches,
     FillTouches DEF Next

\* The calls in progress, as a set.
Frames(s) == {s[k] : k \in 1 .. Len(s)}

LEMMA PushFrames ==
  ASSUME Inv, NEW call, Push(call), NEW T, stack \in Seq(Calls(T)), call \in Calls(T)
  PROVE  Frames(stack') = Frames(stack) \cup {call}
<1> DEFINE t == << call >> \o stack
<1>1. stack' = t /\ Len(stack) \in Nat
  BY LenProperties DEF Push
<1>2. /\ Len(t) = Len(stack) + 1 /\ t[1] = call
      /\ \A k \in 2 .. Len(stack) + 1 : t[k] = stack[k - 1]
  BY ConsProperties
<1> HIDE DEF t
<1>3. ASSUME NEW c \in Frames(stack) PROVE c \in Frames(t)
  <2>1. PICK k \in 1 .. Len(stack) : c = stack[k]
    BY DEF Frames
  <2>2. k + 1 \in 2 .. Len(stack) + 1 /\ (k + 1) - 1 = k /\ k + 1 \in 1 .. Len(t)
    BY <1>1, <1>2
  <2>3. t[k + 1] = c
    BY <1>2, <2>1, <2>2
  <2>4. QED
    BY <2>2, <2>3 DEF Frames
<1>4. call \in Frames(t)
  BY <1>1, <1>2 DEF Frames
<1>5. ASSUME NEW c \in Frames(t) PROVE c = call \/ c \in Frames(stack)
  <2>1. PICK k \in 1 .. Len(t) : c = t[k]
    BY DEF Frames
  <2>2. CASE k = 1
    BY <1>2, <2>1, <2>2
  <2>3. CASE k # 1
    <3>1. k \in 2 .. Len(stack) + 1 /\ k - 1 \in 1 .. Len(stack)
      BY <1>1, <1>2, <2>3
    <3>2. QED
      BY <1>2, <2>1, <3>1 DEF Frames
  <2>4. QED
    BY <2>2, <2>3
<1>6. QED
  BY <1>1, <1>3, <1>4, <1>5

LEMMA TailFrames ==
  ASSUME Inv, CallInv, stack # << >>
  PROVE  Frames(stack) = Frames(Tail(stack)) \cup {Top}
<1> DEFINE s == Tail(stack)
<1>1. /\ Len(s) = Len(stack) - 1 /\ Len(s) \in Nat /\ Top = stack[1]
      /\ \A k \in 1 .. Len(s) : s[k] = stack[k + 1]
  BY TailCalls, TopCall
<1> HIDE DEF s
<1>2. Len(stack) \in Nat /\ Len(stack) = Len(s) + 1
  BY TopCall, LenProperties, <1>1 DEF IsStack
<1>3. ASSUME NEW c \in Frames(s) PROVE c \in Frames(stack)
  <2>1. PICK k \in 1 .. Len(s) : c = s[k]
    BY DEF Frames
  <2>2. k + 1 \in 1 .. Len(stack)
    BY <1>1, <1>2
  <2>3. QED
    BY <1>1, <2>1, <2>2 DEF Frames
<1>4. Top \in Frames(stack)
  BY <1>1, <1>2 DEF Frames
<1>5. ASSUME NEW c \in Frames(stack) PROVE c = Top \/ c \in Frames(s)
  <2>1. PICK k \in 1 .. Len(stack) : c = stack[k]
    BY DEF Frames
  <2>2. CASE k = 1
    BY <1>1, <2>1, <2>2
  <2>3. CASE k # 1
    <3>1. k - 1 \in 1 .. Len(s) /\ (k - 1) + 1 = k
      BY <1>1, <1>2, <2>3
    <3>2. s[k - 1] = c
      BY <1>1, <2>1, <3>1
    <3>3. QED
      BY <3>1, <3>2 DEF Frames
  <2>4. QED
    BY <2>2, <2>3
<1>6. QED
  BY <1>3, <1>4, <1>5 DEF s

LEMMA TailCallFrames ==
  ASSUME Inv, CallInv, stack # << >>, NEW call, TailCall(call),
         NEW T, Tail(stack) \in Seq(Calls(T)), call \in Calls(T)
  PROVE  Frames(stack') = Frames(Tail(stack)) \cup {call}
<1> DEFINE s == Tail(stack)
           t == << call >> \o s
<1>1. stack' = t /\ Len(s) \in Nat
  BY LenProperties DEF TailCall
<1>2. /\ Len(t) = Len(s) + 1 /\ t[1] = call
      /\ \A k \in 2 .. Len(s) + 1 : t[k] = s[k - 1]
  BY ConsProperties
<1> HIDE DEF t, s
<1>3. ASSUME NEW c \in Frames(s) PROVE c \in Frames(t)
  <2>1. PICK k \in 1 .. Len(s) : c = s[k]
    BY DEF Frames
  <2>2. k + 1 \in 2 .. Len(s) + 1 /\ (k + 1) - 1 = k /\ k + 1 \in 1 .. Len(t)
    BY <1>1, <1>2
  <2>3. t[k + 1] = c
    BY <1>2, <2>1, <2>2
  <2>4. QED
    BY <2>2, <2>3 DEF Frames
<1>4. call \in Frames(t)
  BY <1>1, <1>2 DEF Frames
<1>5. ASSUME NEW c \in Frames(t) PROVE c = call \/ c \in Frames(s)
  <2>1. PICK k \in 1 .. Len(t) : c = t[k]
    BY DEF Frames
  <2>2. CASE k = 1
    BY <1>2, <2>1, <2>2
  <2>3. CASE k # 1
    <3>1. k \in 2 .. Len(s) + 1 /\ k - 1 \in 1 .. Len(s)
      BY <1>1, <1>2, <2>3
    <3>2. QED
      BY <1>2, <2>1, <3>1 DEF Frames
  <2>4. QED
    BY <2>2, <2>3
<1>6. QED
  BY <1>1, <1>3, <1>4, <1>5 DEF s

\* Which calls of typedefs and structs a step ends and begins.
FramesStep ==
  /\ \A c \in Frames(stack) \ Frames(stack') :
       /\ c = Top
       /\ c.function = "typedef" => ProcessTypedef /\ Waiting
       /\ c.function = "structure_type" => ProcessStruct
  /\ \A c \in Frames(stack') \ Frames(stack) :
       c.function = "structure_type" =>
         \/ c.next = 1
         \/ ProcessStruct /\ c.die = Top.die /\ c.symbol = Top.symbol

LEMMA PushStep ==
  ASSUME Inv, NEW call, Push(call), NEW T, stack \in Seq(Calls(T)), call \in Calls(T),
         call.function = "structure_type" => call.next = 1
  PROVE  FramesStep
BY PushFrames DEF FramesStep

LEMMA ReturnStep ==
  ASSUME Inv, CallInv, stack # << >>, NEW symbol, NEW dims, Return(symbol, dims),
         Top.function = "typedef" => ProcessTypedef /\ Waiting,
         Top.function = "structure_type" => ProcessStruct
  PROVE  FramesStep
<1>1. Frames(stack) = Frames(stack') \cup {Top}
  BY TailFrames DEF Return
<1>2. QED
  BY <1>1 DEF FramesStep

LEMMA TailCallStep ==
  ASSUME Inv, CallInv, stack # << >>, NEW call, TailCall(call), call \in Calls(symbols'),
         Grows(symbols, symbols'), Top.function # "typedef",
         Top.function = "structure_type" => ProcessStruct,
         call.function = "structure_type" =>
           \/ call.next = 1
           \/ ProcessStruct /\ call.die = Top.die /\ call.symbol = Top.symbol
  PROVE  FramesStep
<1>1. Tail(stack) \in Seq(Calls(symbols'))
  BY TailCalls, MoreCalls, SeqMonotonic
<1>2. Frames(stack') = Frames(Tail(stack)) \cup {call}
  BY <1>1, TailCallFrames
<1>3. Frames(stack) = Frames(Tail(stack)) \cup {Top}
  BY TailFrames
<1>4. QED
  BY <1>2, <1>3 DEF FramesStep

LEMMA SameFrames == ASSUME stack' = stack PROVE FramesStep
BY DEF FramesStep, Frames

LEMMA AskStep ==
  ASSUME Inv, NEW d \in DOMAIN Dies, Push(Call("type", d))
  PROVE  FramesStep
<1>1. Call("type", d) \in Calls(symbols)
  BY NewCalls DEF Functions
<1>2. Call("type", d).function # "structure_type"
  BY DEF Call
<1>3. stack \in Seq(Calls(symbols))
  BY DEF Inv, Control, IsStack
<1>4. QED
  BY <1>1, <1>2, <1>3, PushStep

LEMMA VisitFrames ==
  ASSUME Inv, ~ Fail, NEW d \in DOMAIN Dies, VisitDie(d)
  PROVE  /\ FramesStep
         /\ Dies[d].tag = "typedef" =>
              \E c \in Frames(stack') : c.function = "typedef" /\ c.die = d
<1>1. stack = << >> /\ stack \in Seq(Calls(symbols'))
  BY EmptySeq DEF VisitDie
<1>2. CASE Dies[d].tag = "structure_type" /\ VisitStruct(d)
  <2> DEFINE n == Dies[d].name
             call == FillStruct(d, n)
  <2>1. PICK size : symbols' = AddSymbol(n, size, Null)
    BY <1>2 DEF VisitStruct
  <2>2. n \in DOMAIN symbols'
    BY <2>1 DEF AddSymbol, With
  <2>3. call \in Calls(symbols')
    BY <2>2, NewCalls
  <2>4. call.next = 1
    BY DEF FillStruct, Call
  <2>5. Push(call)
    BY <1>2 DEF VisitStruct
  <2> HIDE DEF call
  <2>6. QED
    BY <1>1, <1>2, <2>3, <2>4, <2>5, PushStep
<1>3. CASE Dies[d].tag \in {"base_type", "typedef"} /\ Push(Call(Dies[d].tag, d))
           /\ UNCHANGED symbols
  <2> DEFINE call == Call(Dies[d].tag, d)
  <2>1. call \in Calls(symbols')
    BY <1>3, NewCalls DEF Functions
  <2>2. call.next = 1 /\ call.function = Dies[d].tag /\ call.die = d
    BY DEF Call
  <2> HIDE DEF call
  <2>3. Push(call)
    BY <1>3 DEF call
  <2>4. FramesStep
    BY <1>1, <2>1, <2>2, <2>3, PushStep
  <2>5. call \in Frames(stack')
    BY <1>1, <2>1, <2>3, PushFrames
  <2>6. QED
    BY <2>2, <2>4, <2>5
<1>4. CASE Dies[d].tag = "variable" /\ UNCHANGED symbols /\ Push(Call("variable", d))
  <2> DEFINE call == Call("variable", d)
  <2>1. call \in Calls(symbols')
    BY <1>4, NewCalls DEF Functions
  <2>2. call.next = 1
    BY DEF Call
  <2> HIDE DEF call
  <2>3. QED
    BY <1>1, <1>4, <2>1, <2>2, PushStep DEF call
<1>5. CASE Dies[d].tag = "variable" /\ UNCHANGED << symbols, stack, answer >>
  BY <1>5, SameFrames
<1>6. QED
  BY <1>2, <1>3, <1>4, <1>5 DEF VisitDie

\* A step of a call for the type of a DIE.
LEMMA TypeFrames ==
  ASSUME Inv, CallInv, ~ Fail,
         \/ NoType \/ PointerType \/ StructType \/ EnumType
         \/ BaseType \/ TypedefType \/ ElementType
  PROVE  FramesStep
<1>1. stack # << >> /\ Top.function = "type"
  BY DEF NoType, PointerType, StructType, EnumType, BaseType, TypedefType, ElementType,
         AtType, Running
<1>2. CASE NoType \/ PointerType \/ EnumType
  <2>1. \E symbol : Return(symbol, << >>)
    BY <1>2, PointerSymbol DEF NoType, EnumType
  <2>2. QED
    BY <1>1, <2>1, ReturnStep
<1>3. CASE StructType
  <2>1. TopDie.type \in DOMAIN Dies /\ Grows(symbols, symbols')
    BY <1>1, <1>3, TopCall, StructStep DEF StructType, AtType
  <2>2. \/ \E symbol : Return(symbol, << >>)
        \/ symbols' = AddSymbol(TypeName, Type.size, Null)
           /\ TailCall(FillStruct(TopDie.type, TypeName))
    BY <1>3 DEF StructType
  <2>3. ASSUME symbols' = AddSymbol(TypeName, Type.size, Null),
               TailCall(FillStruct(TopDie.type, TypeName))
        PROVE  FramesStep
    <3> DEFINE call == FillStruct(TopDie.type, TypeName)
    <3>1. TypeName \in DOMAIN symbols'
      BY <2>3 DEF AddSymbol, With
    <3>2. call \in Calls(symbols')
      BY <2>1, <3>1, NewCalls
    <3>3. call.next = 1
      BY DEF FillStruct, Call
    <3> HIDE DEF call
    <3>4. QED
      BY <1>1, <2>1, <2>3, <3>2, <3>3, TailCallStep DEF call
  <2>4. QED
    BY <1>1, <2>2, <2>3, ReturnStep
<1>4. CASE BaseType \/ TypedefType
  <2>1. symbols' = symbols /\ TopDie.type \in DOMAIN Dies
    BY <1>1, <1>4, TopCall DEF BaseType, TypedefType, AtType, elfVars
  <2>2. \E f \in {"base_type", "typedef"} : TailCall(Call(f, TopDie.type))
    BY <1>4 DEF BaseType, TypedefType
  <2>3. PICK f \in {"base_type", "typedef"} : TailCall(Call(f, TopDie.type))
    BY <2>2
  <2> DEFINE call == Call(f, TopDie.type)
  <2>4. call \in Calls(symbols') /\ call.next = 1
    BY <2>1, NewCalls DEF Functions, Call
  <2> HIDE DEF call
  <2>5. QED
    BY <1>1, <2>1, <2>3, <2>4, SameGrows, TailCallStep DEF call
<1>5. CASE ElementType
  <2>1. TopDie.type \in DOMAIN Dies
    BY <1>1, <1>5, TopCall DEF ElementType, AtType
  <2>2. (\E symbol, dims : Return(symbol, dims)) \/ Push(Call("type", TopDie.type))
    BY <1>5 DEF ElementType
  <2>3. QED
    BY <1>1, <2>1, <2>2, ReturnStep, AskStep
<1>6. QED
  BY <1>2, <1>3, <1>4, <1>5

\* A step of the function of one kind of DIE.
LEMMA KindFrames ==
  ASSUME Inv, CallInv, ~ Fail,
         ProcessBaseType \/ ProcessTypedef \/ ProcessStruct \/ ProcessVariable
  PROVE  FramesStep
<1>1. CASE ProcessBaseType
  <2>1. /\ stack # << >> /\ Top.function = "base_type"
        /\ (\E symbol : Return(symbol, << >>)) \/ stack' = stack
    BY <1>1, Zenon DEF ProcessBaseType, Running
  <2>2. QED
    BY <2>1, ReturnStep, SameFrames
<1>2. CASE ProcessTypedef
  <2>1. /\ stack # << >> /\ Top.function = "typedef"
        /\ (Waiting /\ \E symbol : Return(symbol, << >>)) \/ Push(Call("type", Top.die))
    BY <1>2 DEF ProcessTypedef, Running
  <2>2. Top.die \in DOMAIN Dies
    BY <2>1, TopCall
  <2>3. QED
    BY <1>2, <2>1, <2>2, ReturnStep, AskStep
<1>3. CASE ProcessStruct
  <2> DEFINE call == [Top EXCEPT !.next = @ + 1]
             m == TopDie.members[Top.next]
  <2>1. /\ stack # << >> /\ Top.function = "structure_type"
    BY <1>3 DEF ProcessStruct, Running
  <2>2. Top \in Calls(symbols) /\ IsDie(TopDie) /\ Top.next \in Nat \ {0}
    BY <2>1, TopCall DEF Calls
  <2>3. Len(TopDie.members) \in Nat
    BY <2>2, LenProperties DEF IsDie
  <2>4. CASE Return(Top.symbol, << >>)
    BY <1>3, <2>1, <2>4, ReturnStep
  <2>5. CASE Top.next <= Len(TopDie.members) /\ Push(Call("type", m))
    <3>1. m \in DOMAIN Dies
      BY <2>2, <2>3, <2>5, ElementOfSeq DEF IsDie
    <3>2. QED
      BY <2>5, <3>1, AskStep
  <2>6. CASE TailCall(call)
    <3>1. Grows(symbols, symbols')
      BY <1>3, StructProcessed
    <3>2. call \in Calls(symbols')
      BY <2>2, <3>1, NextMember, MoreCalls
    <3>3. call.die = Top.die /\ call.symbol = Top.symbol
      BY <2>2, NextCall
    <3> HIDE DEF call
    <3>4. QED
      BY <1>3, <2>1, <2>6, <3>1, <3>2, <3>3, TailCallStep
  <2>7. QED
    BY <1>3, <2>4, <2>5, <2>6 DEF ProcessStruct
<1>4. CASE ProcessVariable
  <2>1. /\ stack # << >> /\ Top.function = "variable"
        /\ Return(Null, << >>) \/ Push(Call("type", Top.die))
    BY <1>4 DEF ProcessVariable, Running
  <2>2. Top.die \in DOMAIN Dies
    BY <2>1, TopCall
  <2>3. QED
    BY <2>1, <2>2, ReturnStep, AskStep
<1>5. QED
  BY <1>1, <1>2, <1>3, <1>4

LEMMA StepFrames == ASSUME Inv, CallInv, ~ Fail, [Next]_vars PROVE FramesStep
<1>1. CASE UNCHANGED vars
  BY <1>1, SameFrames DEF vars
<1>2. ASSUME NEW d \in DOMAIN Dies, VisitDie(d) PROVE FramesStep
  BY <1>2, VisitFrames
<1>3. QED
  BY <1>1, <1>2, TypeFrames, KindFrames DEF Next

\* What getDieAndSiblings has come to, and the failed calls so far.
LEMMA StepTodo ==
  ASSUME Inv, [Next]_vars
  PROVE  /\ errors \in Nat /\ errors' \in Nat /\ errors' >= errors
         /\ todo' \subseteq todo
         /\ \A d \in todo \ todo' : d \in DOMAIN Dies /\ VisitDie(d)
<1>1. errors \in Nat /\ errors' \in Nat
  BY StepKeepsInv, BoundsAssumption DEF Inv
<1>2. ASSUME NEW e \in DOMAIN Dies, VisitDie(e)
      PROVE  (errors' = errors \/ Fail) /\ todo' = todo \ {e}
  BY <1>2 DEF VisitDie, VisitStruct
<1>3. CASE UNCHANGED vars
  BY <1>1, <1>3 DEF vars
<1>4. CASE ~ (\E e \in DOMAIN Dies : VisitDie(e)) /\ Next
  <2>1. todo' = todo /\ (errors' = errors \/ Fail)
    <3>1. CASE ProcessBaseType
      BY <3>1, BaseTypeError DEF ProcessBaseType
    <3>2. CASE ~ ProcessBaseType
      BY <1>4, <3>2 DEF Next, NoType, PointerType, StructType, EnumType, BaseType,
         TypedefType, ElementType, ProcessTypedef, ProcessStruct, ProcessVariable, elfVars
    <3>3. QED
      BY <3>1, <3>2
  <2>2. errors' >= errors
    BY <1>1, <2>1 DEF Fail
  <2>3. QED
    BY <1>1, <2>1, <2>2
<1>5. CASE \E e \in DOMAIN Dies : VisitDie(e)
  <2>1. PICK e \in DOMAIN Dies : VisitDie(e)
    BY <1>5
  <2>2. (errors' = errors \/ Fail) /\ todo' = todo \ {e}
    BY <1>2, <2>1
  <2>3. (\A d \in todo \ todo' : d = e) /\ errors' >= errors
    BY <1>1, <2>2 DEF Fail
  <2>4. QED
    BY <1>1, <2>1, <2>2, <2>3
<1>6. QED
  BY <1>3, <1>4, <1>5

\* A step after which no failed call is counted is one where none fails.
LEMMA NoneFailed ==
  ASSUME Inv, [Next]_vars, errors' = 0
  PROVE  errors = 0 /\ ~ Fail
<1>1. errors \in Nat /\ errors' >= errors
  BY StepTodo
<1>2. QED
  BY <1>1 DEF Fail
-----------------------------------------------------------------------------
(* Typedefs.                                                               *)

\* A typedef is being processed.
InTypedef(d, s) == \E c \in Frames(s) : c.function = "typedef" /\ c.die = d

\* The symbol of a plain typedef d is what it means; it is there when d has
\* been come to and processed.
TypedefSymbol(d) ==
  LET n == Dies[d].name
  IN  /\ n \in DOMAIN symbols =>
           /\ Dies[d].decl_file /\ symbols[n].target # Null
           /\ symbols[n].target = Meaning[d]
      /\ d \notin todo /\ ~ InTypedef(d, stack)
           /\ Dies[d].decl_file /\ Meaning[d] # Null => n \in DOMAIN symbols

TypedefInv == /\ \A e \in todo : IsVisited(e)
              /\ \A d \in PlainTypedefs : TypedefSymbol(d)

LEMMA PlainTypedefFacts ==
  ASSUME NEW d \in PlainTypedefs
  PROVE  /\ d \in DOMAIN Dies /\ Dies[d].tag = "typedef" /\ Owns(d, Dies[d].name)
         /\ ~ LeadsToUnion[d]
BY DEF PlainTypedefs

\* A typedef with an answer.
LEMMA TypedefAnswered ==
  ASSUME Inv, CallInv, ProcessTypedef, Waiting
  PROVE  Meets(Answer, Top.die) /\ Top.die \in DOMAIN Dies /\ TopDie.tag = "typedef"
<1>1. stack # << >> /\ Top.function = "typedef"
  BY DEF ProcessTypedef, Running
<1>2. GoodCall(Top) /\ Meets(Answer, AskedFor(Top)) /\ Top.die \in DOMAIN Dies
  BY <1>1, TopGood, TopCall
<1>3. QED
  BY <1>1, <1>2 DEF AskedFor, GoodCall, TopDie

LEMMA TypedefKept ==
  ASSUME Inv, CallInv, ~ Fail, NEW d \in PlainTypedefs, TypedefSymbol(d), [Next]_vars,
         \A e \in todo : IsVisited(e)
  PROVE  TypedefSymbol(d)'
<1> DEFINE n == Dies[d].name
<1>1. /\ d \in DOMAIN Dies /\ Dies[d].tag = "typedef" /\ Owns(d, n) /\ ~ LeadsToUnion[d]
  BY PlainTypedefFacts
<1>2. /\ todo' \subseteq todo
      /\ \A e \in todo \ todo' : e \in DOMAIN Dies /\ VisitDie(e)
  BY StepTodo
<1>3. Same(n) \/ (DoneTypedef(d, n) /\ Top.die = d)
  <2>1. Same(n) \/ Touches(d, n)
    BY <1>1, StepTouches
  <2>2. ~ VisitedStruct(d, n) /\ ~ FoundStruct(d, n) /\ ~ FoundEnum(d, n)
    BY <1>1 DEF VisitedStruct, FoundStruct, FoundEnum, StructType, EnumType, AtType, Type
  <2>3. ASSUME FilledStruct(d, n) PROVE FALSE
    <3>1. stack # << >> /\ Top.function = "structure_type" /\ Top.die = d
      BY <2>3 DEF FilledStruct, ProcessStruct, Running
    <3>2. QED
      BY <1>1, <3>1, TopGood DEF GoodCall
  <2>4. DoneTypedef(d, n) => Top.die = d
    BY <1>1 DEF DoneTypedef
  <2>5. QED
    BY <1>1, <2>1, <2>2, <2>3, <2>4 DEF Touches
<1>4. ASSUME n \in DOMAIN symbols'
      PROVE  /\ Dies[d].decl_file /\ symbols'[n].target # Null
             /\ symbols'[n].target = Meaning[d]
  <2>1. CASE n \in DOMAIN symbols
    <3>1. symbols'[n].target = symbols[n].target
      BY <2>1, StepKeepsInv DEF Grows
    <3>2. QED
      BY <2>1, <3>1 DEF TypedefSymbol
  <2>2. CASE n \notin DOMAIN symbols
    <3>1. DoneTypedef(d, n) /\ Top.die = d
      BY <1>3, <1>4, <2>2 DEF Same
    <3>2. /\ Answer.symbol # Null /\ Dies[d].decl_file
          /\ symbols' = AddSymbol(n, SizeOf(Answer.symbol), Answer.symbol)
          /\ Meets(Answer, d)
      BY <3>1, TypedefAnswered DEF DoneTypedef, TopDie
    <3>3. symbols'[n].target = Answer.symbol
      <4>1. symbols'[n] = NewSymbol(SizeOf(Answer.symbol), Answer.symbol)
        BY <2>2, <3>2, AddedHere
      <4>2. \A size, target : NewSymbol(size, target).target = target
        BY DEF NewSymbol
      <4>3. QED
        BY <4>1, <4>2
    <3> HIDE DEF n
    <3>4. QED
      BY <1>1, <3>2, <3>3 DEF Meets
  <2>3. QED
    BY <2>1, <2>2
<1>5. ASSUME d \notin todo', ~ InTypedef(d, stack'), Dies[d].decl_file, Meaning[d] # Null
      PROVE  n \in DOMAIN symbols'
  <2>1. d \notin todo
    <3>1. SUFFICES ASSUME d \in todo PROVE FALSE
      OBVIOUS
    <3>2. VisitDie(d)
      BY <1>2, <1>5, <3>1
    <3>3. QED
      BY <1>1, <1>5, <3>2, VisitFrames DEF InTypedef
  <2>2. CASE InTypedef(d, stack)
    <3>1. PICK c \in Frames(stack) : c.function = "typedef" /\ c.die = d
      BY <2>2 DEF InTypedef
    <3>2. c \in Frames(stack) \ Frames(stack')
      BY <1>5, <3>1 DEF InTypedef
    <3>3. c = Top /\ ProcessTypedef /\ Waiting
      BY <3>1, <3>2, StepFrames DEF FramesStep
    <3>4. Meets(Answer, d) /\ Top.die = d
      BY <3>1, <3>3, TypedefAnswered
    <3>5. Answer.symbol = Meaning[d]
      BY <1>1, <3>4 DEF Meets
    <3>6. symbols' = AddSymbol(n, SizeOf(Answer.symbol), Answer.symbol)
      BY <1>5, <3>3, <3>4, <3>5 DEF ProcessTypedef, TopDie
    <3>7. QED
      BY <3>6, AddedHere
  <2>3. CASE ~ InTypedef(d, stack)
    <3>1. n \in DOMAIN symbols
      BY <1>5, <2>1, <2>3 DEF TypedefSymbol
    <3>2. QED
      BY <3>1, StepKeepsInv DEF Grows
  <2>4. QED
    BY <2>2, <2>3
<1>6. QED
  BY <1>4, <1>5 DEF TypedefSymbol

LEMMA InitCalls == ASSUME Init PROVE CallInv /\ TypedefInv
<1>1. Len(<< >>) = 0 /\ Frames(<< >>) = {}
  BY DEF Frames
<1>2. CallInv
  BY <1>1 DEF Init, CallInv, GoodCalls, GoodAnswer
<1>3. \A e \in todo : IsVisited(e)
  BY DEF Init
<1>4. ASSUME NEW d \in PlainTypedefs PROVE TypedefSymbol(d)
  <2>1. d \in todo
    BY PlainTypedefFacts DEF Init, IsVisited
  <2>2. DOMAIN symbols = {}
    BY DEF Init
  <2>3. QED
    BY <2>1, <2>2 DEF TypedefSymbol
<1>5. QED
  BY <1>2, <1>3, <1>4 DEF TypedefInv

LEMMA StepKeepsTypedefs ==
  ASSUME Inv, CallInv, TypedefInv, ~ Fail, [Next]_vars PROVE CallInv' /\ TypedefInv'
<1>1. \A e \in todo : IsVisited(e)
  BY DEF TypedefInv
<1>2. CallInv' /\ \A e \in todo' : IsVisited(e)
  BY <1>1, StepKeepsCalls, StepTodo
<1>3. \A d \in PlainTypedefs : TypedefSymbol(d)'
  BY <1>1, TypedefKept DEF TypedefInv
<1>4. QED
  BY <1>2, <1>3 DEF TypedefInv

\* This holds as long as no call has failed, which is where the invariant of
\* the typedefs is claimed.
CleanTypedefs == errors = 0 => CallInv /\ TypedefInv

LEMMA CleanTypedefsKept ==
  ASSUME Inv, CleanTypedefs, [Next]_vars PROVE CleanTypedefs'
<1>1. SUFFICES ASSUME errors' = 0 PROVE CallInv' /\ TypedefInv'
  BY DEF CleanTypedefs
<1>2. QED
  BY <1>1, NoneFailed, StepKeepsTypedefs DEF CleanTypedefs

\* In whatever order the DIEs are read, and at any time before a call fails, a
\* typedef that is there names what its type means; when all has been read it
\* is there just if that is a symbol.
THEOREM TypedefsRight == Spec => []TypedefsNameTheirTypes
<1>1. ASSUME CleanTypedefs PROVE TypedefsNameTheirTypes
  <2>1. ASSUME errors = 0, NEW d \in PlainTypedefs
        PROVE  LET n == Dies[d].name
               IN  /\ n \in DOMAIN symbols => symbols[n].target = Meaning[d]
                   /\ Done => (n \in DOMAIN symbols) = (Dies[d].decl_file /\ Meaning[d] # Null)
    <3> DEFINE n == Dies[d].name
    <3>1. TypedefSymbol(d)
      BY <1>1, <2>1 DEF CleanTypedefs, TypedefInv
    <3>2. ASSUME Done
          PROVE  (n \in DOMAIN symbols) = (Dies[d].decl_file /\ Meaning[d] # Null)
      <4>1. d \notin todo /\ stack = << >>
        BY <3>2 DEF Done
      <4>2. ~ InTypedef(d, stack)
        BY <4>1 DEF InTypedef, Frames
      <4>3. Dies[d].decl_file \in BOOLEAN
        BY PlainTypedefFacts, DiesAssumption DEF IsDie
      <4>4. n \in DOMAIN symbols <=> Dies[d].decl_file /\ Meaning[d] # Null
        BY <3>1, <4>1, <4>2 DEF TypedefSymbol
      <4>5. QED
        BY <4>3, <4>4
    <3>3. QED
      BY <3>1, <3>2 DEF TypedefSymbol
  <2>2. QED
    BY <2>1 DEF TypedefsNameTheirTypes
<1>2. Init => Inv /\ CleanTypedefs
  BY InitInv, InitCalls DEF CleanTypedefs
<1>3. Inv /\ CleanTypedefs /\ [Next]_vars => (Inv /\ CleanTypedefs)'
  BY StepKeepsInv, CleanTypedefsKept
<1>4. QED
  BY <1>1, <1>2, <1>3, PTL DEF Spec
-----------------------------------------------------------------------------
(* The fields of structs.                                                  *)

\* The fields that the first p members mean have the names of those members
\* whose type means a symbol.
LEMMA MeantNames ==
  ASSUME NEW d \in DOMAIN Dies
  PROVE  LET ms == Dies[d].members
         IN  \A p \in 0 .. Len(ms) :
               /\ \A i \in 1 .. p : Meaning[ms[i]] # Null =>
                    \E j \in DOMAIN MeantFields(d)[p] :
                      MeantFields(d)[p][j].name = Dies[ms[i]].name
               /\ \A j \in DOMAIN MeantFields(d)[p] :
                    \E i \in 1 .. p : MeantFields(d)[p][j].name = Dies[ms[i]].name
<1> DEFINE ms == Dies[d].members
           n == Len(ms)
           f == MeantFields(d)
           Good(p) == /\ \A i \in 1 .. p : Meaning[ms[i]] # Null =>
                           \E j \in DOMAIN f[p] : f[p][j].name = Dies[ms[i]].name
                      /\ \A j \in DOMAIN f[p] :
                           \E i \in 1 .. p : f[p][j].name = Dies[ms[i]].name
           T == {p \in Nat : p <= n => Good(p)}
<1>1. n \in Nat
  BY DiesAssumption, LenProperties DEF IsDie
<1>2. /\ f[0] = << >>
      /\ \A k \in 1 .. n : f[k] = AndMeantField(f[k - 1], ms[k])
      /\ \A k \in 0 .. n : f[k] \in Seq(FieldsOf(ms))
  BY MeantFieldsDefined
<1> HIDE DEF f, n
<1>3. 0 \in T
  <2>1. DOMAIN << >> = {} /\ 1 .. 0 = {}
    OBVIOUS
  <2>2. Good(0)
    BY <1>2, <2>1
  <2>3. QED
    BY <2>2
<1>4. ASSUME NEW p \in Nat, p \in T PROVE p + 1 \in T
  <2>1. SUFFICES ASSUME p + 1 <= n PROVE Good(p + 1)
    OBVIOUS
  <2>2. Good(p) /\ p + 1 \in 1 .. n /\ (p + 1) - 1 = p /\ p \in 0 .. n
    BY <1>1, <1>4, <2>1
  <2> DEFINE m == ms[p + 1]
             x == MeantField(m)
             old == f[p]
             new == f[p + 1]
  <2> HIDE DEF T
  <2>3. new = AndMeantField(old, m) /\ old \in Seq(FieldsOf(ms))
    BY <1>2, <2>2
  <2>4. x.name = Dies[m].name
    BY DEF MeantField
  <2> HIDE DEF x, new, old, m
  <2>5. CASE Meaning[m] = Null
    <3>1. new = old
      BY <2>3, <2>5 DEF AndMeantField
    <3>2. \A i \in 1 .. p + 1 : i \in 1 .. p \/ i = p + 1
      BY <1>4
    <3>3. \A i \in 1 .. p : i \in 1 .. p + 1
      BY <1>4
    <3>4. QED
      BY <2>2, <2>5, <3>1, <3>2, <3>3 DEF old, new, m
  <2>6. CASE Meaning[m] # Null
    <3>1. new = Append(old, x)
      BY <2>3, <2>6 DEF AndMeantField, x
    <3>2. x \in FieldsOf(ms)
      BY <2>2 DEF FieldsOf, x, m, n
    <3>3. /\ DOMAIN old = 1 .. Len(old) /\ Len(old) \in Nat
          /\ DOMAIN new = 1 .. Len(old) + 1
          /\ \A j \in 1 .. Len(old) : new[j] = old[j]
          /\ new[Len(old) + 1] = x
      BY <2>3, <3>1, <3>2, AppendProperties, LenProperties
    <3>4. ASSUME NEW i \in 1 .. p + 1, Meaning[ms[i]] # Null
          PROVE  \E j \in DOMAIN new : new[j].name = Dies[ms[i]].name
      <4>1. CASE i = p + 1
        <5>1. Len(old) + 1 \in DOMAIN new
          BY <3>3
        <5>2. QED
          BY <2>4, <3>3, <4>1, <5>1 DEF m
      <4>2. CASE i # p + 1
        <5>1. i \in 1 .. p
          BY <1>4, <4>2
        <5>2. PICK j \in DOMAIN old : old[j].name = Dies[ms[i]].name
          BY <2>2, <3>4, <5>1 DEF old
        <5>3. j \in DOMAIN new /\ new[j] = old[j]
          BY <3>3
        <5>4. QED
          BY <5>2, <5>3
      <4>3. QED
        BY <4>1, <4>2
    <3>5. ASSUME NEW j \in DOMAIN new
          PROVE  \E i \in 1 .. p + 1 : new[j].name = Dies[ms[i]].name
      <4>1. CASE j = Len(old) + 1
        <5>1. new[j].name = Dies[ms[p + 1]].name
          BY <2>4, <3>3, <4>1 DEF m
        <5>2. p + 1 \in 1 .. p + 1
          BY <1>4
        <5>3. QED
          BY <5>1, <5>2
      <4>2. CASE j # Len(old) + 1
        <5>1. j \in DOMAIN old /\ new[j] = old[j]
          BY <3>3, <4>2
        <5>2. PICK i \in 1 .. p : old[j].name = Dies[ms[i]].name
          BY <2>2, <5>1 DEF old
        <5>3. i \in 1 .. p + 1
          BY <1>4
        <5>4. QED
          BY <5>1, <5>2, <5>3
      <4>3. QED
        BY <4>1, <4>2
    <3>6. QED
      BY <3>4, <3>5 DEF new
  <2>7. QED
    BY <2>5, <2>6
<1> HIDE DEF T, Good
<1>5. Nat \subseteq T
  BY <1>3, <1>4, NatSetInduction
<1>6. \A p \in 0 .. n : Good(p)
  BY <1>1, <1>5 DEF T
<1>7. QED
  BY <1>6 DEF Good, f, n

\* Call c fills the symbol under name n of struct d.
Fills(c, d, n) == c.function = "structure_type" /\ c.die = d /\ c.symbol = n

\* The symbol has the fields of the first p members: of all, or there is a
\* call that goes on, and no call has come further.
StructSymbol(d, n) ==
  n \in DOMAIN symbols =>
    \E p \in 0 .. Len(Dies[d].members) :
      /\ symbols[n].fields = MeantFields(d)[p]
      /\ \/ p = Len(Dies[d].members)
         \/ \E c \in Frames(stack) : Fills(c, d, n)
      /\ \A c \in Frames(stack) : Fills(c, d, n) => c.next - 1 <= p

\* A struct that has been come to has a symbol under its name.
NamedStructs ==
  \A d \in DOMAIN Dies \ todo :
    Dies[d].tag = "structure_type" /\ Dies[d].name # "" => Dies[d].name \in DOMAIN symbols

StructInv ==
  /\ NamedStructs
  /\ \A d \in PlainStructs : \A n \in NamesOf(d) : Owns(d, n) => StructSymbol(d, n)

\* A typedef of a struct or enumeration that has the same symbol adds nothing
\* to it.
LEMMA TypedefOfOwner ==
  ASSUME Inv, CallInv, NEW d \in DOMAIN Dies, NEW n, Owns(d, n),
         Dies[d].tag \in {"structure_type", "enumeration_type"}, DoneTypedef(d, n)
  PROVE  Same(n)
<1> DEFINE e == Top.die
<1>1. Meets(Answer, e) /\ e \in DOMAIN Dies /\ TopDie.tag = "typedef"
  BY TypedefAnswered DEF DoneTypedef
<1>2. Dies[e].type = d /\ Dies[d].size # Null /\ Dies[e].decl_file /\ Dies[e].name = n
  BY <1>1 DEF DoneTypedef, TopDie
<1>3. d # Null
  <2>1. Dies[d].size # Null /\ ProcessTypedef /\ Answer.symbol # Null
    BY <1>2 DEF DoneTypedef
  <2>2. SUFFICES ASSUME d = Null PROVE FALSE
    OBVIOUS
  <2>3. Meaning[e] = Null /\ ~ LeadsToUnion[e]
    BY <1>1, <1>2, <2>2, MeaningByTag, LeadsToUnionDefined DEF MeetsUnion
  <2>4. QED
    BY <1>1, <2>1, <2>3 DEF Meets
<1>4. n = NameVia(e) /\ n # ""
  <2>1. n # "" /\ n \in NamesOf(d)
    BY OwnedName
  <2>2. Dies[d].name # "" => n = Dies[d].name
    BY <2>1 DEF NamesOf
  <2>3. QED
    BY <1>2, <2>1, <2>2 DEF NameVia
<1>5. Meaning[e] = n
  BY <1>1, <1>2, <1>3, <1>4, MeaningByTag
<1>6. ~ LeadsToUnion[e]
  BY <1>1, <1>2, LeadsToUnionDefined DEF MeetsUnion
<1>7. Answer.symbol = n
  BY <1>1, <1>5, <1>6 DEF Meets
<1>8. n \in DOMAIN symbols
  BY <1>7, GivenAnswer DEF Answers, DoneTypedef
<1>9. QED
  BY <1>8, AddElsewhere DEF DoneTypedef

\* A call that has begun to fill the symbol.
LEMMA StructBegun ==
  ASSUME Inv, CallInv, ~ Fail, NEW d \in DOMAIN Dies, NEW n,
         VisitedStruct(d, n) \/ FoundStruct(d, n)
  PROVE  /\ \E size : symbols' = AddSymbol(n, size, Null)
         /\ FillStruct(d, n) \in Frames(stack')
<1>1. \E size : symbols' = AddSymbol(n, size, Null)
  BY DEF VisitedStruct, FoundStruct, VisitStruct
<1>2. n \in DOMAIN symbols'
  BY <1>1 DEF AddSymbol, With
<1>3. FillStruct(d, n) \in Calls(symbols')
  BY <1>2, NewCalls
<1>4. CASE VisitedStruct(d, n)
  <2>1. stack = << >> /\ Push(FillStruct(d, n))
    BY <1>4 DEF VisitedStruct, VisitDie, VisitStruct
  <2>2. stack \in Seq(Calls(symbols'))
    BY <2>1, EmptySeq
  <2>3. QED
    BY <1>1, <1>3, <2>1, <2>2, PushFrames
<1>5. CASE FoundStruct(d, n)
  <2>1. stack # << >> /\ TailCall(FillStruct(d, n)) /\ Grows(symbols, symbols')
    BY <1>5, StructStep DEF FoundStruct, StructType, AtType, Running
  <2>2. Tail(stack) \in Seq(Calls(symbols'))
    BY <2>1, TailCalls, MoreCalls, SeqMonotonic
  <2>3. QED
    BY <1>1, <1>3, <2>1, <2>2, TailCallFrames
<1>6. QED
  BY <1>4, <1>5

\* The calls that fill a symbol, but for a step of one of them.
LEMMA FillsKept ==
  ASSUME Inv, CallInv, ~ Fail, [Next]_vars, NEW d, NEW n,
         ~ (ProcessStruct /\ Fills(Top, d, n))
  PROVE  /\ \A c \in Frames(stack) : Fills(c, d, n) => c \in Frames(stack')
         /\ \A c \in Frames(stack') : Fills(c, d, n) => c \in Frames(stack) \/ c.next = 1
<1>1. FramesStep
  BY StepFrames
<1>2. ASSUME NEW c \in Frames(stack), Fills(c, d, n), c \notin Frames(stack') PROVE FALSE
  BY <1>1, <1>2 DEF FramesStep, Fills
<1>3. ASSUME NEW c \in Frames(stack'), Fills(c, d, n), c \notin Frames(stack), c.next # 1
      PROVE  FALSE
  <2>1. ProcessStruct /\ c.die = Top.die /\ c.symbol = Top.symbol
    BY <1>1, <1>3 DEF FramesStep, Fills
  <2>2. Top.function = "structure_type"
    BY <2>1 DEF ProcessStruct, Running
  <2>3. QED
    BY <1>3, <2>1, <2>2 DEF Fills
<1>4. QED
  BY <1>2, <1>3

LEMMA PlainStructFacts ==
  ASSUME NEW d \in PlainStructs
  PROVE  LET ms == Dies[d].members
         IN  /\ d \in DOMAIN Dies /\ Dies[d].tag = "structure_type"
             /\ Len(ms) \in Nat /\ DOMAIN ms = 1 .. Len(ms)
             /\ \A k \in 1 .. Len(ms) : ms[k] \in DOMAIN Dies /\ ~ LeadsToUnion[ms[k]]
             /\ \A j, k \in 1 .. Len(ms) : Dies[ms[j]].name = Dies[ms[k]].name => j = k
<1> DEFINE ms == Dies[d].members
<1>1. /\ d \in DOMAIN Dies /\ Dies[d].tag = "structure_type"
      /\ \A k \in DOMAIN ms : ~ LeadsToUnion[ms[k]]
      /\ \A j, k \in DOMAIN ms : Dies[ms[j]].name = Dies[ms[k]].name => j = k
  BY DEF PlainStructs
<1>2. ms \in Seq(DOMAIN Dies)
  BY <1>1, DiesAssumption DEF IsDie
<1> HIDE DEF ms
<1>3. Len(ms) \in Nat /\ DOMAIN ms = 1 .. Len(ms) /\ \A k \in 1 .. Len(ms) : ms[k] \in DOMAIN Dies
  BY <1>2, LenProperties, ElementOfSeq
<1>4. QED
  BY <1>1, <1>3 DEF ms

\* A symbol with other fields.
LEMMA OtherFields ==
  ASSUME Inv, NEW n \in DOMAIN symbols, NEW f,
         symbols' = [symbols EXCEPT ![n].fields = AddField(@, f)]
  PROVE  symbols'[n].fields = AddField(symbols[n].fields, f)
<1> DEFINE fs == AddField(symbols[n].fields, f)
<1> HIDE DEF fs
<1>1. symbols' = [symbols EXCEPT ![n] = [symbols[n] EXCEPT !.fields = fs]]
  BY DEF fs
<1>2. symbols'[n] = [symbols[n] EXCEPT !.fields = fs]
  BY <1>1
<1>3. symbols[n] = [ size |-> symbols[n].size, target |-> symbols[n].target,
                     fields |-> symbols[n].fields, enumerators |-> symbols[n].enumerators ]
  BY DEF Inv, IsTable, SymbolOf
<1>4. \A a, b, c, e :
        [[size |-> a, target |-> b, fields |-> c, enumerators |-> e]
            EXCEPT !.fields = fs].fields = fs
  OBVIOUS
<1>5. symbols'[n].fields = fs
  BY <1>2, <1>3, <1>4
<1>6. QED
  BY <1>5 DEF fs

\* Storing the field of the next member, or finding it stored.
LEMMA NextField ==
  ASSUME NEW d \in PlainStructs, NEW p \in 0 .. Len(Dies[d].members),
         NEW next \in 1 .. Len(Dies[d].members), next - 1 <= p
  PROVE  \E q \in 0 .. Len(Dies[d].members) :
           /\ MeantFields(d)[q] =
                IF Meaning[Dies[d].members[next]] = Null THEN MeantFields(d)[p]
                ELSE AddField(MeantFields(d)[p], MeantField(Dies[d].members[next]))
           /\ p <= q /\ next <= q
<1> DEFINE ms == Dies[d].members
           m == ms[next]
           f == MeantFields(d)
           fields == IF Meaning[m] = Null THEN f[p] ELSE AddField(f[p], MeantField(m))
<1>1. /\ d \in DOMAIN Dies /\ Len(ms) \in Nat
      /\ \A j, k \in 1 .. Len(ms) : Dies[ms[j]].name = Dies[ms[k]].name => j = k
  BY PlainStructFacts
<1>2. /\ \A k \in 1 .. Len(ms) : f[k] = AndMeantField(f[k - 1], ms[k])
      /\ \A k \in 0 .. Len(ms) : f[k] \in Seq(FieldsOf(ms))
  BY <1>1, MeantFieldsDefined
<1>3. /\ \A i \in 1 .. p : Meaning[ms[i]] # Null =>
           \E j \in DOMAIN f[p] : f[p][j].name = Dies[ms[i]].name
      /\ \A j \in DOMAIN f[p] : \E i \in 1 .. p : f[p][j].name = Dies[ms[i]].name
  BY <1>1, MeantNames
<1>4. MeantField(m).name = Dies[m].name
  BY DEF MeantField
<1> HIDE DEF f, ms, m, fields
<1>5. p \in 0 .. Len(ms) /\ next \in 1 .. Len(ms) /\ m = ms[next]
      /\ fields = IF Meaning[m] = Null THEN f[p] ELSE AddField(f[p], MeantField(m))
  BY DEF ms, m, f, fields
<1>6. CASE next - 1 = p
  <2>1. f[next] = AndMeantField(f[p], m)
    BY <1>2, <1>5, <1>6
  <2>2. ASSUME NEW j \in DOMAIN f[p], f[p][j].name = Dies[m].name PROVE FALSE
    <3>1. PICK i \in 1 .. p : f[p][j].name = Dies[ms[i]].name
      BY <1>3
    <3>2. i \in 1 .. Len(ms) /\ i # next
      BY <1>1, <1>5, <1>6
    <3>3. Dies[ms[i]].name = Dies[ms[next]].name
      BY <1>5, <2>2, <3>1
    <3>4. i = next
      BY <1>1, <1>5, <3>2, <3>3
    <3>5. QED
      BY <3>2, <3>4
  <2>3. AddField(f[p], MeantField(m)) = Append(f[p], MeantField(m))
    BY <1>4, <2>2 DEF AddField
  <2>4. fields = f[next]
    BY <1>5, <2>1, <2>3 DEF AndMeantField
  <2>5. next \in 0 .. Len(ms) /\ p <= next /\ next <= next
    BY <1>1, <1>5, <1>6
  <2>6. QED
    BY <2>4, <2>5 DEF f, ms, m, fields
<1>7. CASE next - 1 # p
  <2>1. next \in 1 .. p /\ next <= p /\ p <= p
    BY <1>1, <1>5, <1>7
  <2>2. CASE Meaning[m] = Null
    BY <1>5, <2>1, <2>2 DEF f, ms, m, fields
  <2>3. CASE Meaning[m] # Null
    <3>1. \E j \in DOMAIN f[p] : f[p][j].name = Dies[m].name
      BY <1>3, <1>5, <2>1, <2>3
    <3>2. fields = f[p]
      BY <1>4, <1>5, <2>3, <3>1 DEF AddField
    <3>3. QED
      BY <1>5, <2>1, <3>2 DEF f, ms, m, fields
  <2>4. QED
    BY <2>2, <2>3
<1>8. QED
  BY <1>6, <1>7

\* A step of a call that fills the symbol.
LEMMA FillStep ==
  ASSUME Inv, CallInv, ~ Fail, NEW d \in PlainStructs, NEW n, StructSymbol(d, n),
         ProcessStruct, Fills(Top, d, n)
  PROVE  StructSymbol(d, n)'
<1> DEFINE ms == Dies[d].members
           next == Top.next
           Good(p, F) == /\ p = Len(ms) \/ \E c \in F : Fills(c, d, n)
                         /\ \A c \in F : Fills(c, d, n) => c.next - 1 <= p
<1>1. /\ stack # << >> /\ Top.function = "structure_type" /\ Top.die = d /\ Top.symbol = n
      /\ TopDie = Dies[d]
  BY DEF ProcessStruct, Running, Fills, TopDie
<1>2. /\ Top \in Calls(symbols) /\ n \in DOMAIN symbols /\ next \in Nat \ {0}
      /\ stack \in Seq(Calls(symbols))
  <2>1. Top \in Calls(symbols) /\ stack \in Seq(Calls(symbols))
    BY <1>1, TopCall DEF IsStack
  <2>2. QED
    BY <1>1, <2>1 DEF Calls
<1>3. /\ d \in DOMAIN Dies /\ Len(ms) \in Nat
      /\ \A k \in 1 .. Len(ms) : ms[k] \in DOMAIN Dies /\ ~ LeadsToUnion[ms[k]]
  BY PlainStructFacts
<1>4. Frames(stack) = Frames(Tail(stack)) \cup {Top}
  BY <1>1, TailFrames
<1>5. SUFFICES ASSUME n \in DOMAIN symbols'
               PROVE  \E p \in 0 .. Len(ms) :
                        symbols'[n].fields = MeantFields(d)[p] /\ Good(p, Frames(stack'))
  BY DEF StructSymbol
<1>6. PICK p \in 0 .. Len(ms) : symbols[n].fields = MeantFields(d)[p] /\ Good(p, Frames(stack))
  BY <1>2 DEF StructSymbol
<1>7. next - 1 <= p
  BY <1>1, <1>4, <1>6 DEF Fills
<1> HIDE DEF ms
<1>8. CASE next > Len(ms) /\ symbols' = symbols /\ Return(Top.symbol, << >>)
  <2>1. symbols' = symbols /\ Return(Top.symbol, << >>)
    BY <1>8
  <2>2. p = Len(ms)
    BY <1>2, <1>3, <1>6, <1>7, <1>8
  <2>3. Frames(stack') \subseteq Frames(stack)
    BY <1>4, <2>1 DEF Return
  <2>4. QED
    BY <1>6, <2>1, <2>2, <2>3
<1>9. CASE next <= Len(ms) /\ symbols' = symbols /\ Push(Call("type", ms[next]))
  <2> DEFINE call == Call("type", ms[next])
  <2>1. symbols' = symbols /\ Push(call)
    BY <1>9
  <2>2. next \in 1 .. Len(ms)
    BY <1>2, <1>3, <1>9
  <2>3. call \in Calls(symbols)
    BY <1>3, <2>2, NewCalls DEF Functions
  <2>4. call.function # "structure_type"
    BY DEF Call
  <2> HIDE DEF call
  <2>5. Frames(stack') = Frames(stack) \cup {call}
    BY <1>2, <2>1, <2>3, PushFrames
  <2>6. ~ Fills(call, d, n)
    BY <2>4 DEF Fills
  <2>7. QED
    BY <1>6, <2>1, <2>5, <2>6
<1>10. CASE /\ next <= Len(ms) /\ Waiting
            /\ TailCall([Top EXCEPT !.next = @ + 1])
            /\ symbols' = IF Answer.symbol = Null THEN symbols
                          ELSE [symbols EXCEPT ![n].fields =
                                  AddField(@, [ name |-> Dies[ms[next]].name,
                                                type |-> Answer.symbol,
                                                dims |-> Answer.dims ])]
  <2> DEFINE call == [Top EXCEPT !.next = @ + 1]
             m == ms[next]
             x == [name |-> Dies[m].name, type |-> Answer.symbol, dims |-> Answer.dims]
  <2>1. next \in 1 .. Len(ms)
    BY <1>2, <1>3, <1>10
  <2>2. /\ TailCall(call)
        /\ symbols' = IF Answer.symbol = Null THEN symbols
                      ELSE [symbols EXCEPT ![n].fields = AddField(@, x)]
    BY <1>10
  <2>3. call.function = "structure_type" /\ call.die = d /\ call.symbol = n
        /\ call.next = next + 1
    BY <1>1, <1>2, NextCall
  <2>4. call \in Calls(symbols)
    BY <1>2, NextMember
  <2>5. Tail(stack) \in Seq(Calls(symbols))
    BY <1>1, TailCalls
  <2> HIDE DEF call
  <2>6. Frames(stack') = Frames(Tail(stack)) \cup {call}
    BY <1>1, <2>2, <2>4, <2>5, TailCallFrames
  <2>7. Meets(Answer, m) /\ ~ LeadsToUnion[m]
    BY <1>1, <1>3, <1>10, <2>1, TopGood DEF AskedFor, ms
  <2>8. Answer.symbol = Meaning[m] /\ Answer.dims = DimsAt(m)
    BY <2>7 DEF Meets
  <2>9. x = MeantField(m)
    BY <2>8 DEF MeantField
  <2> HIDE DEF x
  <2>10. symbols'[n].fields = IF Meaning[m] = Null THEN MeantFields(d)[p]
                              ELSE AddField(MeantFields(d)[p], MeantField(m))
    <3>1. CASE Answer.symbol = Null
      BY <1>6, <2>2, <2>8, <3>1
    <3>2. CASE Answer.symbol # Null
      <4>1. symbols'[n].fields = AddField(symbols[n].fields, x)
        BY <1>2, <2>2, <3>2, OtherFields
      <4>2. QED
        BY <1>6, <2>8, <2>9, <3>2, <4>1
    <3>3. QED
      BY <3>1, <3>2
  <2>11. PICK q \in 0 .. Len(ms) :
           symbols'[n].fields = MeantFields(d)[q] /\ p <= q /\ next <= q
    <3> DEFINE fs == symbols'[n].fields
    <3>1. fs = IF Meaning[m] = Null THEN MeantFields(d)[p]
               ELSE AddField(MeantFields(d)[p], MeantField(m))
      BY <2>10
    <3>2. /\ p \in 0 .. Len(Dies[d].members) /\ next \in 1 .. Len(Dies[d].members)
          /\ m = Dies[d].members[next]
      BY <2>1 DEF ms
    <3>3. \E q \in 0 .. Len(Dies[d].members) :
            /\ MeantFields(d)[q] =
                 IF Meaning[Dies[d].members[next]] = Null THEN MeantFields(d)[p]
                 ELSE AddField(MeantFields(d)[p], MeantField(Dies[d].members[next]))
            /\ p <= q /\ next <= q
      <4> HIDE DEF next
      <4> QED
        BY <1>7, <3>2, NextField
    <3> HIDE DEF fs, m, next
    <3>4. \E q \in 0 .. Len(Dies[d].members) : fs = MeantFields(d)[q] /\ p <= q /\ next <= q
      BY <1>7, <3>1, <3>2, <3>3
    <3>5. QED
      BY <3>4 DEF fs, ms
  <2>12. Fills(call, d, n)
    BY <2>3 DEF Fills
  <2>13. ASSUME NEW c \in Frames(stack'), Fills(c, d, n) PROVE c.next - 1 <= q
    <3>1. CASE c = call
      BY <1>2, <2>3, <2>11, <3>1
    <3>2. CASE c # call
      <4>1. c \in Frames(stack)
        BY <1>4, <2>6, <2>13, <3>2
      <4>2. c.next \in Nat /\ c.next - 1 <= p
        <5>1. \A k \in 1 .. Len(stack) : stack[k] \in Calls(symbols)
          BY <1>2, ElementOfSeq
        <5>2. c \in Calls(symbols)
          BY <4>1, <5>1 DEF Frames
        <5>3. QED
          BY <1>6, <2>13, <4>1, <5>2 DEF Calls
      <4>3. QED
        BY <1>3, <2>11, <4>2
    <3>3. QED
      BY <3>1, <3>2
  <2>14. call \in Frames(stack')
    BY <2>6
  <2>15. QED
    BY <2>11, <2>12, <2>13, <2>14
<1>11. QED
  BY <1>1, <1>8, <1>9, <1>10 DEF ProcessStruct, ms

LEMMA StructKept ==
  ASSUME Inv, CallInv, ~ Fail, NEW d \in PlainStructs, NEW n, Owns(d, n),
         StructSymbol(d, n), [Next]_vars, \A e \in todo : IsVisited(e)
  PROVE  StructSymbol(d, n)'
<1> DEFINE ms == Dies[d].members
<1>1. /\ d \in DOMAIN Dies /\ Dies[d].tag = "structure_type" /\ Len(ms) \in Nat
  BY PlainStructFacts
<1>2. CASE ProcessStruct /\ Fills(Top, d, n)
  BY <1>2, FillStep
<1>3. CASE ~ (ProcessStruct /\ Fills(Top, d, n))
  <2>1. /\ \A c \in Frames(stack) : Fills(c, d, n) => c \in Frames(stack')
        /\ \A c \in Frames(stack') : Fills(c, d, n) => c \in Frames(stack) \/ c.next = 1
    BY <1>3, FillsKept
  <2>2. SUFFICES ASSUME n \in DOMAIN symbols'
                 PROVE  \E p \in 0 .. Len(ms) :
                          /\ symbols'[n].fields = MeantFields(d)[p]
                          /\ p = Len(ms) \/ \E c \in Frames(stack') : Fills(c, d, n)
                          /\ \A c \in Frames(stack') : Fills(c, d, n) => c.next - 1 <= p
    BY DEF StructSymbol
  <2>3. ASSUME n \in DOMAIN symbols, symbols'[n] = symbols[n]
        PROVE  \E p \in 0 .. Len(ms) :
                 /\ symbols'[n].fields = MeantFields(d)[p]
                 /\ p = Len(ms) \/ \E c \in Frames(stack') : Fills(c, d, n)
                 /\ \A c \in Frames(stack') : Fills(c, d, n) => c.next - 1 <= p
    <3>1. PICK p \in 0 .. Len(ms) :
            /\ symbols[n].fields = MeantFields(d)[p]
            /\ p = Len(ms) \/ \E c \in Frames(stack) : Fills(c, d, n)
            /\ \A c \in Frames(stack) : Fills(c, d, n) => c.next - 1 <= p
      BY <2>3 DEF StructSymbol
    <3>2. \A k : k = 1 => k - 1 <= p
      OBVIOUS
    <3>3. QED
      BY <2>1, <2>3, <3>1, <3>2
  <2>4. CASE n \in DOMAIN symbols /\ Same(n)
    BY <2>3, <2>4 DEF Same
  <2>5. CASE VisitedStruct(d, n) \/ FoundStruct(d, n)
    <3>1. PICK size : symbols' = AddSymbol(n, size, Null)
      BY <1>1, <2>5, StructBegun
    <3>2. symbols'[n] = IF n \in DOMAIN symbols THEN symbols[n] ELSE NewSymbol(size, Null)
      BY <3>1, AddedHere
    <3>3. CASE n \in DOMAIN symbols
      BY <2>3, <3>2, <3>3
    <3>4. CASE n \notin DOMAIN symbols
      <4>1. symbols'[n].fields = << >>
        <5>1. \A x, y : NewSymbol(x, y).fields = << >>
          BY DEF NewSymbol
        <5>2. QED
          BY <3>2, <3>4, <5>1
      <4>2. MeantFields(d)[0] = << >>
        BY <1>1, MeantFieldsDefined
      <4>3. ASSUME NEW c \in Frames(stack), Fills(c, d, n) PROVE FALSE
        <5>1. \A k \in 1 .. Len(stack) : stack[k] \in Calls(symbols)
          BY ElementOfSeq DEF Inv, Control, IsStack
        <5>2. c \in Calls(symbols)
          BY <5>1 DEF Frames
        <5>3. QED
          BY <3>4, <4>3, <5>2 DEF Calls, Fills
      <4>4. \A c \in Frames(stack') : Fills(c, d, n) => c.next - 1 <= 0
        BY <2>1, <4>3
      <4>5. Fills(FillStruct(d, n), d, n) /\ FillStruct(d, n) \in Frames(stack')
        BY <1>1, <2>5, StructBegun DEF Fills, FillStruct, Call
      <4>6. 0 \in 0 .. Len(ms)
        BY <1>1
      <4>7. QED
        BY <4>1, <4>2, <4>4, <4>5, <4>6
    <3>5. QED
      BY <3>3, <3>4
  <2>6. CASE n \notin DOMAIN symbols \/ ~ Same(n)
    <3>1. Touches(d, n)
      BY <1>1, <2>2, <2>6, StepTouches DEF Same
    <3>2. ~ Same(n) \/ ~ DoneTypedef(d, n)
      BY <2>2, <2>6 DEF Same
    <3>3. ~ DoneTypedef(d, n)
      BY <1>1, <2>2, <2>6, TypedefOfOwner DEF Same
    <3>4. ~ FoundEnum(d, n)
      BY <1>1 DEF FoundEnum, EnumType, AtType, Type
    <3>5. ASSUME FilledStruct(d, n) PROVE FALSE
      <4>1. Top.function = "structure_type"
        BY <3>5 DEF FilledStruct, ProcessStruct, Running
      <4>2. QED
        BY <1>3, <3>5, <4>1 DEF FilledStruct, Fills
    <3>6. QED
      BY <1>1, <2>5, <3>1, <3>3, <3>4, <3>5 DEF Touches
  <2>7. QED
    BY <2>4, <2>6
<1>4. QED
  BY <1>2, <1>3

LEMMA StepKeepsStructs ==
  ASSUME Inv, CallInv, TypedefInv, StructInv, ~ Fail, [Next]_vars PROVE StructInv'
<1>1. \A e \in todo : IsVisited(e)
  BY DEF TypedefInv
<1>2. NamedStructs'
  <2>1. ASSUME NEW d \in DOMAIN Dies \ todo', Dies[d].tag = "structure_type",
               Dies[d].name # ""
        PROVE  Dies[d].name \in DOMAIN symbols'
    <3>1. CASE d \in todo
      <4>1. VisitDie(d)
        BY <2>1, <3>1, StepTodo
      <4>2. VisitStruct(d)
        BY <2>1, <4>1 DEF VisitDie
      <4>3. \E size : symbols' = AddSymbol(Dies[d].name, size, Null)
        BY <4>2 DEF VisitStruct
      <4>4. QED
        BY <4>3, AddedHere
    <3>2. CASE d \notin todo
      BY <2>1, <3>2, StepKeepsInv DEF StructInv, NamedStructs, Grows
    <3>3. QED
      BY <3>1, <3>2
  <2>2. QED
    BY <2>1 DEF NamedStructs
<1>3. ASSUME NEW d \in PlainStructs, NEW n \in NamesOf(d), Owns(d, n)
      PROVE  StructSymbol(d, n)'
  BY <1>1, <1>3, StructKept DEF StructInv
<1>4. QED
  BY <1>2, <1>3 DEF StructInv

LEMMA InitStructs == ASSUME Init PROVE StructInv
<1>1. DOMAIN symbols = {} /\ todo = {d \in DOMAIN Dies : IsVisited(d)}
  BY DEF Init
<1>2. NamedStructs
  BY <1>1 DEF NamedStructs, IsVisited
<1>3. QED
  BY <1>1, <1>2 DEF StructInv, StructSymbol

CleanStructs == errors = 0 => StructInv

\* When all has been read without a failed call, a struct has under each of
\* its names the fields that its members mean, in their order.
THEOREM FieldsRight == Spec => []FieldsNameTheirTypes
<1>1. ASSUME CleanStructs PROVE FieldsNameTheirTypes
  <2>1. ASSUME Read, NEW d \in PlainStructs, NEW n \in NamesOf(d), Owns(d, n)
        PROVE  /\ n = Dies[d].name => n \in DOMAIN symbols
               /\ n \in DOMAIN symbols =>
                    symbols[n].fields = MeantFields(d)[Len(Dies[d].members)]
    <3>1. errors = 0 /\ d \notin todo /\ Frames(stack) = {}
      BY <2>1 DEF Read, Done, Frames
    <3>2. d \in DOMAIN Dies /\ Dies[d].tag = "structure_type" /\ n # ""
      BY <2>1, PlainStructFacts, OwnedName
    <3>3. n = Dies[d].name => n \in DOMAIN symbols
      BY <1>1, <3>1, <3>2 DEF CleanStructs, StructInv, NamedStructs
    <3>4. StructSymbol(d, n)
      BY <1>1, <2>1, <3>1 DEF CleanStructs, StructInv
    <3>5. n \in DOMAIN symbols => symbols[n].fields = MeantFields(d)[Len(Dies[d].members)]
      BY <3>1, <3>4 DEF StructSymbol
    <3>6. QED
      BY <3>3, <3>5
  <2>2. QED
    BY <2>1 DEF FieldsNameTheirTypes
<1>2. Init => Inv /\ CleanTypedefs /\ CleanStructs
  BY InitInv, InitCalls, InitStructs DEF CleanTypedefs, CleanStructs
<1>3. ASSUME Inv, CleanTypedefs, CleanStructs, [Next]_vars PROVE CleanStructs'
  BY <1>3, NoneFailed, StepKeepsStructs DEF CleanTypedefs, CleanStructs
<1>4. Inv /\ CleanTypedefs /\ CleanStructs /\ [Next]_vars
        => (Inv /\ CleanTypedefs /\ CleanStructs)'
  BY <1>3, StepKeepsInv, CleanTypedefsKept
<1>5. QED
  BY <1>1, <1>2, <1>4, PTL DEF Spec
-----------------------------------------------------------------------------
(* The enumerators of enumerations.                                        *)

\* A number that fits an int32_t is stored as it is.
LEMMA ToInt32Fits ==
  ASSUME NEW v \in -(Range32 \div 2) .. (Range32 \div 2) - 1
  PROVE  ToInt32(v) = v
<1> DEFINE half == Range32 \div 2
<1>1. Range32 \in Nat /\ Range32 > 0 /\ Range32 = 2 * half /\ half \in Nat
  <2>1. Range32 \in Nat \ {0} /\ Range32 % 2 = 0
    BY BoundsAssumption
  <2>2. \A r \in Nat : r % 2 = 0 => r = 2 * (r \div 2) /\ r \div 2 \in Nat
    OBVIOUS
  <2>3. QED
    BY <2>1, <2>2
<1>2. v \in -half .. half - 1
  OBVIOUS
<1> HIDE DEF half
<1>3. v \in Int /\ v + half \in Nat /\ v + half < Range32
  BY <1>1, <1>2
<1>4. \A a, r \in Nat : a < r => a % r = a
  OBVIOUS
<1>5. (v + half) % Range32 = v + half
  BY <1>1, <1>3, <1>4
<1>6. ((v + half) % Range32) - half = v
  BY <1>1, <1>3, <1>5
<1>7. QED
  BY <1>6 DEF ToInt32, half

\* The enumerators of DIE d, as they are stored.
Stored(d) == [ k \in 1 .. Len(Dies[d].enumerators) |->
                 [Dies[d].enumerators[k] EXCEPT !.value = ToInt32(@)] ]

EnumSymbol(d, n) ==
  n \in DOMAIN symbols => Range(symbols[n].enumerators) = Range(Stored(d))

EnumInv ==
  errors = 0 =>
    \A d \in Enumerations : \A n \in NamesOf(d) : Owns(d, n) => EnumSymbol(d, n)

LEMMA RangeOfConcat ==
  ASSUME NEW S, NEW s \in Seq(S), NEW t \in Seq(S)
  PROVE  Range(s \o t) = Range(s) \cup Range(t)
<1>1. /\ s \o t \in Seq(S) /\ Len(s \o t) = Len(s) + Len(t)
      /\ \A i \in 1 .. Len(s) + Len(t) : (s \o t)[i] = IF i <= Len(s) THEN s[i] ELSE t[i - Len(s)]
  BY ConcatProperties
<1>2. /\ Len(s) \in Nat /\ DOMAIN s = 1 .. Len(s) /\ Len(t) \in Nat /\ DOMAIN t = 1 .. Len(t)
      /\ DOMAIN (s \o t) = 1 .. Len(s) + Len(t)
  BY <1>1, LenProperties
<1> DEFINE u == s \o t
<1> HIDE DEF u
<1>3. ASSUME NEW i \in DOMAIN u PROVE u[i] \in Range(s) \cup Range(t)
  <2>1. CASE i <= Len(s)
    BY <1>1, <1>2, <1>3, <2>1 DEF u, Range
  <2>2. CASE ~ (i <= Len(s))
    <3>1. i - Len(s) \in DOMAIN t /\ u[i] = t[i - Len(s)]
      BY <1>1, <1>2, <1>3, <2>2 DEF u
    <3>2. QED
      BY <3>1 DEF Range
  <2>3. QED
    BY <2>1, <2>2
<1>4. ASSUME NEW i \in DOMAIN s PROVE s[i] \in Range(u)
  <2>1. i \in DOMAIN u /\ u[i] = s[i]
    BY <1>1, <1>2, <1>4 DEF u
  <2>2. QED
    BY <2>1 DEF Range
<1>5. ASSUME NEW i \in DOMAIN t PROVE t[i] \in Range(u)
  <2>1. i + Len(s) \in DOMAIN u /\ u[i + Len(s)] = t[i]
    BY <1>1, <1>2, <1>5 DEF u
  <2>2. QED
    BY <2>1 DEF Range
<1>6. QED
  BY <1>3, <1>4, <1>5 DEF Range, u

LEMMA StoredType ==
  ASSUME NEW d \in DOMAIN Dies
  PROVE  /\ Stored(d) \in Seq(Enumerator) /\ Dies[d].enumerators \in Seq(Enumerator)
         /\ DOMAIN Stored(d) = DOMAIN Dies[d].enumerators
         /\ \A k \in DOMAIN Stored(d) :
              Stored(d)[k] = [ name |-> Dies[d].enumerators[k].name,
                               value |-> ToInt32(Dies[d].enumerators[k].value) ]
<1> DEFINE es == Dies[d].enumerators
<1>1. es \in Seq(Enumerator)
  BY DiesAssumption DEF IsDie, Enumerator
<1>2. Len(es) \in Nat /\ DOMAIN es = 1 .. Len(es) /\ \A k \in 1 .. Len(es) : es[k] \in Enumerator
  BY <1>1, LenProperties, ElementOfSeq
<1>3. DOMAIN Stored(d) = 1 .. Len(es)
  BY DEF Stored
<1>4. ASSUME NEW k \in 1 .. Len(es)
      PROVE  Stored(d)[k] = [name |-> es[k].name, value |-> ToInt32(es[k].value)]
  <2>1. es[k] = [name |-> es[k].name, value |-> es[k].value]
    BY <1>2 DEF Enumerator
  <2>2. \A a, v : [[name |-> a, value |-> v] EXCEPT !.value = ToInt32(@)]
                    = [name |-> a, value |-> ToInt32(v)]
    OBVIOUS
  <2>3. Stored(d)[k] = [es[k] EXCEPT !.value = ToInt32(@)]
    BY DEF Stored
  <2>4. QED
    BY <2>1, <2>2, <2>3
<1>5. ASSUME NEW k \in 1 .. Len(es) PROVE Stored(d)[k] \in Enumerator
  <2>1. es[k].name \in STRING /\ ToInt32(es[k].value) \in Int
    BY <1>2, ToInt32Type DEF Enumerator
  <2>2. \A a \in STRING, v \in Int : [name |-> a, value |-> v] \in Enumerator
    BY DEF Enumerator
  <2>3. QED
    BY <1>4, <2>1, <2>2
<1>6. Stored(d) = [k \in 1 .. Len(es) |-> Stored(d)[k]]
  BY DEF Stored
<1>7. Stored(d) \in [1 .. Len(es) -> Enumerator]
  BY <1>5, <1>6
<1>8. Stored(d) \in Seq(Enumerator)
  BY <1>2, <1>7
<1>9. QED
  BY <1>1, <1>2, <1>3, <1>4, <1>8

\* A step that reads the enumeration.
LEMMA EnumReads ==
  ASSUME NEW d, NEW n, FoundEnum(d, n), n # "", ~ Fail
  PROVE  symbols' = WithEnumerators(AddSymbol(n, Type.size, Null), n, Len(Type.enumerators))
BY DEF FoundEnum, EnumType

\* Then its enumerators are those of the DIE.
LEMMA EnumRead ==
  ASSUME Inv, NEW d \in DOMAIN Dies, NEW n, EnumSymbol(d, n), FoundEnum(d, n),
         symbols' = WithEnumerators(AddSymbol(n, Type.size, Null), n, Len(Type.enumerators))
  PROVE  Range(symbols'[n].enumerators) = Range(Stored(d))
<1> DEFINE T == AddSymbol(n, Type.size, Null)
<1>1. /\ stack # << >> /\ TopDie.type # Null /\ Type.tag = "enumeration_type"
      /\ TopDie.type = d /\ TypeName = n /\ Type = Dies[d]
  BY DEF FoundEnum, EnumType, AtType, Running, Type
<1>3. symbols' = WithEnumerators(T, n, Len(Type.enumerators))
  OBVIOUS
<1>4. /\ n \in DOMAIN T
      /\ T[n] = IF n \in DOMAIN symbols THEN symbols[n] ELSE NewSymbol(Type.size, Null)
  BY DEF AddSymbol, With
<1> HIDE DEF T
<1>5. /\ T[n].enumerators \in Seq(Enumerator)
      /\ T[n] = [ size |-> T[n].size, target |-> T[n].target, fields |-> T[n].fields,
                  enumerators |-> T[n].enumerators ]
      /\ T[n].enumerators = << >> \/ Range(T[n].enumerators) = Range(Stored(d))
  <2>1. CASE n \in DOMAIN symbols
    BY <1>4, <2>1 DEF Inv, IsTable, SymbolOf, EnumSymbol
  <2>2. CASE n \notin DOMAIN symbols
    <3>1. T[n] = [size |-> Type.size, target |-> Null, fields |-> << >>, enumerators |-> << >>]
      BY <1>4, <2>2 DEF NewSymbol
    <3>2. << >> \in Seq(Enumerator)
      OBVIOUS
    <3>3. T[n].enumerators = << >>
      BY <3>1
    <3>4. QED
      BY <3>1, <3>2, <3>3
  <2>3. QED
    BY <2>1, <2>2
<1>6. symbols'[n].enumerators = T[n].enumerators \o Stored(d)
  <2> DEFINE all == T[n].enumerators \o Stored(d)
  <2>1. symbols' = [T EXCEPT ![n].enumerators = all]
    BY <1>1, <1>3 DEF WithEnumerators, Stored
  <2> HIDE DEF all
  <2>2. symbols'[n] = [T[n] EXCEPT !.enumerators = all]
    BY <1>4, <2>1
  <2>3. \A a, b, c, e :
          [[size |-> a, target |-> b, fields |-> c, enumerators |-> e]
              EXCEPT !.enumerators = all].enumerators = all
    OBVIOUS
  <2>4. symbols'[n].enumerators = all
    BY <1>5, <2>2, <2>3
  <2>5. QED
    BY <2>4 DEF all
<1>7. Range(symbols'[n].enumerators) = Range(T[n].enumerators) \cup Range(Stored(d))
  <2>1. Stored(d) \in Seq(Enumerator) /\ T[n].enumerators \in Seq(Enumerator)
    BY <1>5, StoredType
  <2>2. QED
    BY <1>6, <2>1, RangeOfConcat
<1>8. Range(<< >>) = {}
  <2>1. DOMAIN << >> = {}
    OBVIOUS
  <2>2. QED
    BY <2>1 DEF Range
<1>9. QED
  BY <1>5, <1>7, <1>8

LEMMA EnumKept ==
  ASSUME Inv, CallInv, ~ Fail, NEW d \in Enumerations, NEW n, Owns(d, n),
         EnumSymbol(d, n), [Next]_vars, \A e \in todo : IsVisited(e)
  PROVE  EnumSymbol(d, n)'
<1>1. d \in DOMAIN Dies /\ Dies[d].tag = "enumeration_type" /\ n # ""
  BY OwnedName DEF Enumerations
<1>2. SUFFICES ASSUME n \in DOMAIN symbols'
               PROVE  Range(symbols'[n].enumerators) = Range(Stored(d))
  BY DEF EnumSymbol, Stored
<1>3. CASE Same(n)
  BY <1>2, <1>3 DEF Same, EnumSymbol
<1>4. CASE FoundEnum(d, n)
  BY <1>1, <1>4, EnumRead, EnumReads
<1>5. CASE ~ Same(n) /\ ~ FoundEnum(d, n)
  <2>1. Touches(d, n)
    BY <1>1, <1>5, StepTouches
  <2>2. ~ DoneTypedef(d, n)
    BY <1>1, <1>5, TypedefOfOwner
  <2>3. ~ VisitedStruct(d, n) /\ ~ FoundStruct(d, n)
    BY <1>1 DEF VisitedStruct, FoundStruct, StructType, AtType, Type
  <2>4. ASSUME FilledStruct(d, n) PROVE FALSE
    <3>1. stack # << >> /\ Top.function = "structure_type" /\ Top.die = d
      BY <2>4 DEF FilledStruct, ProcessStruct, Running
    <3>2. QED
      BY <1>1, <3>1, TopGood DEF GoodCall
  <2>5. QED
    BY <1>1, <1>5, <2>1, <2>2, <2>3, <2>4 DEF Touches
<1>6. QED
  BY <1>3, <1>4, <1>5

\* When all has been read without a failed call, an enumeration has just its
\* enumerators, however often it has been read.
THEOREM EnumeratorsRight == Spec => []EnumeratorsAreTheDies
<1>1. ASSUME EnumInv PROVE EnumeratorsAreTheDies
  <2>1. ASSUME Read, NEW d \in Enumerations, NEW n \in NamesOf(d), Owns(d, n),
               n \in DOMAIN symbols
        PROVE  LET meant  == Range(Dies[d].enumerators)
                   stored == Range(symbols[n].enumerators)
               IN  /\ {f.name : f \in stored} = {f.name : f \in meant}
                   /\ \A f \in meant :
                        f.value \in -(Range32 \div 2) .. (Range32 \div 2) - 1 => f \in stored
    <3> DEFINE es == Dies[d].enumerators
               all == Stored(d)
    <3>1. d \in DOMAIN Dies
      BY DEF Enumerations
    <3>2. Range(symbols[n].enumerators) = Range(all)
      BY <1>1, <2>1 DEF EnumInv, EnumSymbol, Read
    <3>3. /\ DOMAIN all = DOMAIN es
          /\ \A k \in DOMAIN es :
               all[k] = [name |-> es[k].name, value |-> ToInt32(es[k].value)]
          /\ \A k \in DOMAIN es : es[k] \in Enumerator
      BY <3>1, StoredType, ElementAt
    <3> HIDE DEF es, all
    <3>4. \A k \in DOMAIN es : all[k].name = es[k].name
      BY <3>3
    <3>5. {f.name : f \in Range(all)} = {f.name : f \in Range(es)}
      BY <3>3, <3>4 DEF Range
    <3>6. ASSUME NEW f \in Range(es), f.value \in -(Range32 \div 2) .. (Range32 \div 2) - 1
          PROVE  f \in Range(all)
      <4>1. PICK k \in DOMAIN es : f = es[k]
        BY DEF Range
      <4>2. ToInt32(f.value) = f.value
        BY <3>6, ToInt32Fits
      <4>3. f = [name |-> f.name, value |-> f.value]
        BY <3>3, <4>1 DEF Enumerator
      <4>4. all[k] = f
        BY <3>3, <4>1, <4>2, <4>3
      <4>5. QED
        BY <3>3, <4>1, <4>4 DEF Range
    <3>7. QED
      BY <3>2, <3>5, <3>6 DEF es
  <2>2. QED
    BY <2>1 DEF EnumeratorsAreTheDies
<1>2. Init => EnumInv
  <2>1. Init => DOMAIN symbols = {}
    BY DEF Init
  <2>2. QED
    BY <2>1 DEF EnumInv, EnumSymbol
<1>3. ASSUME Inv, CleanTypedefs, EnumInv, [Next]_vars PROVE EnumInv'
  <2>1. SUFFICES ASSUME errors' = 0, NEW d \in Enumerations, NEW n \in NamesOf(d), Owns(d, n)
                 PROVE  EnumSymbol(d, n)'
    BY DEF EnumInv
  <2>2. errors = 0 /\ ~ Fail
    BY <1>3, <2>1, NoneFailed
  <2>3. CallInv /\ EnumSymbol(d, n) /\ \A e \in todo : IsVisited(e)
    BY <1>3, <2>1, <2>2 DEF EnumInv, CleanTypedefs, TypedefInv
  <2>4. QED
    BY <1>3, <2>1, <2>2, <2>3, EnumKept
<1>4. Init => Inv /\ CleanTypedefs
  BY InitInv, InitCalls DEF CleanTypedefs
<1>5. Inv /\ CleanTypedefs /\ EnumInv /\ [Next]_vars
        => (Inv /\ CleanTypedefs /\ EnumInv)'
  BY <1>3, StepKeepsInv, CleanTypedefsKept
<1>6. QED
  BY <1>1, <1>2, <1>4, <1>5, PTL DEF Spec
=============================================================================
