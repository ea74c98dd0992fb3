------------------------- MODULE JuicerParseProofs --------------------------
(***************************************************************************)
(* Proofs about JuicerParse, for any file and any failing calls: the       *)
(* loops and calls in progress are what the program counter says, a symbol *)
(* gets the source file of its own compilation unit, nothing is read after *)
(* the first unit that fails, the DIEs that a walk misses are those below  *)
(* a call that failed, no declaration's source file is looked up out of    *)
(* range, and a run in which no call fails hands over all DIEs, symbols,   *)
(* macros, sections and entries of symbol tables of the file.              *)
(***************************************************************************)
EXTENDS JuicerParse, SequenceTheorems, WellFoundedInduction, TLAPS

\* What the elements of a sequence are does not matter here.
IsSequence(s) == \E S : s \in Seq(S)

-----------------------------------------------------------------------------
(* Sequences.                                                              *)

LEMMA LengthAndDomain ==
  ASSUME NEW s, IsSeq(s)
  PROVE  IsSequence(s) /\ Len(s) \in Nat /\ DOMAIN s = 1 .. Len(s)
<1>1. PICK S : s \in Seq(S)
  BY DEF IsSeq
<1>2. Len(s) \in Nat /\ DOMAIN s = 1 .. Len(s)
  BY <1>1, LenProperties
<1>3. QED
  BY <1>1, <1>2 DEF IsSequence

LEMMA ElementAt == ASSUME NEW S, NEW s \in Seq(S), NEW k \in DOMAIN s PROVE s[k] \in S
<1>1. k \in 1 .. Len(s)
  BY LenProperties
<1>2. QED
  BY <1>1, ElementOfSeq

LEMMA AppendedSequence ==
  ASSUME NEW s, NEW e, IsSequence(s)
  PROVE  /\ IsSequence(Append(s, e)) /\ Len(Append(s, e)) = Len(s) + 1
         /\ Len(s) \in Nat /\ DOMAIN Append(s, e) = DOMAIN s \cup {Len(s) + 1}
         /\ \A k \in DOMAIN s : Append(s, e)[k] = s[k]
         /\ Append(s, e)[Len(s) + 1] = e
         /\ Range(s) \subseteq Range(Append(s, e)) /\ e \in Range(Append(s, e))
<1>1. PICK S : s \in Seq(S)
  BY DEF IsSequence
<1> DEFINE T == S \cup {e}
           t == Append(s, e)
<1>2. s \in Seq(T) /\ e \in T
  BY <1>1, SeqMonotonic
<1>3. /\ t \in Seq(T) /\ Len(t) = Len(s) + 1 /\ t[Len(s) + 1] = e
      /\ \A k \in 1 .. Len(s) : t[k] = s[k]
  BY <1>2, AppendProperties
<1> HIDE DEF t, T
<1>4. Len(s) \in Nat /\ DOMAIN s = 1 .. Len(s) /\ DOMAIN t = 1 .. Len(t)
  BY <1>2, <1>3, LenProperties
<1>5. DOMAIN t = DOMAIN s \cup {Len(s) + 1} /\ \A k \in DOMAIN s : t[k] = s[k]
  BY <1>3, <1>4
<1>6. Range(s) \subseteq Range(t) /\ e \in Range(t)
  BY <1>3, <1>5 DEF Range
<1>7. IsSequence(t)
  BY <1>3 DEF IsSequence
<1>8. QED
  BY <1>3, <1>4, <1>5, <1>6, <1>7 DEF t

\* A sequence with one more element in front.
LEMMA ConsProperties ==
  ASSUME NEW S, NEW s \in Seq(S), NEW c \in S
  PROVE  /\ << c >> \o s \in Seq(S) /\ << c >> \o s # << >>
         /\ Len(<< c >> \o s) = Len(s) + 1 /\ (<< c >> \o s)[1] = c
         /\ \A k \in 2 .. Len(s) + 1 : (<< c >> \o s)[k] = s[k - 1]
<1>1. << c >> \in Seq(S) /\ Len(<< c >>) = 1 /\ << c >>[1] = c
  OBVIOUS
<1> DEFINE h == << c >>
           t == h \o s
<1> HIDE DEF h
<1>2. /\ t \in Seq(S) /\ Len(t) = 1 + Len(s) /\ Len(s) \in Nat
      /\ \A i \in 1 .. 1 + Len(s) : t[i] = IF i <= 1 THEN h[i] ELSE s[i - 1]
  BY <1>1, ConcatProperties, LenProperties DEF h
<1> HIDE DEF t
<1>3. t[1] = c /\ \A k \in 2 .. Len(s) + 1 : t[k] = s[k - 1]
  BY <1>1, <1>2 DEF h
<1>4. t # << >>
  BY <1>2
<1>5. QED
  BY <1>2, <1>3, <1>4 DEF t, h

-----------------------------------------------------------------------------
(* What the constants are.                                                 *)

OpSeqs == {Units[u].macros : u \in DOMAIN Units} \cup {Imports[o] : o \in DOMAIN Imports}
Adds   == UNION {Range(Dies[d].adds) : d \in DOMAIN Dies}
Files  == UNION {Range(Units[u].files) : u \in DOMAIN Units}

LEMMA UnitProperties ==
  ASSUME NEW u \in 1 .. Len(Units)
  PROVE  /\ u \in DOMAIN Units /\ Units[u].version \in {4, 5}
         /\ IsSeq(Units[u].files) /\ Units[u].files \in Seq(Files)
         /\ Units[u].root \in DOMAIN Dies /\ Units[u].macros \in OpSeqs
<1>1. u \in DOMAIN Units
  BY UnitsAssumption, LengthAndDomain
<1>2. Range(Units[u].files) \subseteq Files
  BY <1>1 DEF Files
<1>3. /\ Units[u].version \in {4, 5} /\ IsSeq(Units[u].files)
      /\ Units[u].root \in DOMAIN Dies
  BY <1>1, UnitsAssumption
<1>4. Units[u].files \in Seq(Files)
  BY <1>2, <1>3, SeqMonotonic DEF IsSeq
<1>5. QED
  BY <1>1, <1>3, <1>4 DEF OpSeqs

LEMMA DieProperties ==
  ASSUME NEW d \in DOMAIN Dies
  PROVE  /\ Dies[d].adds \in Seq(Adds) /\ Dies[d].children \in Seq(DOMAIN Dies)
<1>1. Range(Dies[d].adds) \subseteq Adds
  BY DEF Adds
<1>2. Dies[d].adds \in Seq(Adds)
  BY <1>1, DiesAssumption, SeqMonotonic DEF IsSeq
<1>3. QED
  BY <1>2, DiesAssumption

\* The operations of a unit and of an import are macro operations.
LEMMA OpProperties ==
  ASSUME NEW ops \in OpSeqs
  PROVE  /\ Len(ops) \in Nat /\ DOMAIN ops = 1 .. Len(ops)
         /\ \A k \in 1 .. Len(ops) :
              ops[k].op = "import" /\ ops[k].offset # 0 => Imports[ops[k].offset] \in OpSeqs
<1>1. IsSeq(ops) /\ \A k \in DOMAIN ops : IsMacroOp(ops[k])
  BY UnitsAssumption DEF OpSeqs
<1>2. Len(ops) \in Nat /\ DOMAIN ops = 1 .. Len(ops)
  BY <1>1, LengthAndDomain
<1>3. ASSUME NEW k \in DOMAIN ops, ops[k].op = "import", ops[k].offset # 0
      PROVE  Imports[ops[k].offset] \in OpSeqs
  <2>1. ops[k].offset \in DOMAIN Imports
    BY <1>1, <1>3 DEF IsMacroOp
  <2>2. QED
    BY <2>1 DEF OpSeqs
<1>4. QED
  BY <1>2, <1>3

-----------------------------------------------------------------------------
(* The calls that failed.                                                  *)

Failures == IsSequence(failed) /\ Len(failed) <= MaxErrors

FailedGrows == \A x : Failed(x) => Failed(x)'

\* What a step does to the history of failed calls.
Fails == UNCHANGED failed \/ \E call, where : Fail(call, where)

LEMMA FailureIsKept ==
  ASSUME Failures, NEW call, NEW where, Fail(call, where)
  PROVE  Failures' /\ FailedGrows /\ Failed(<< call, where >>)'
<1> DEFINE e == << call, where >>
<1>1. failed' = Append(failed, e) /\ Len(failed) < MaxErrors
  BY DEF Fail
<1> HIDE DEF e
<1>2. /\ IsSequence(failed') /\ Len(failed') = Len(failed) + 1 /\ Len(failed) \in Nat
      /\ Range(failed) \subseteq Range(failed') /\ e \in Range(failed')
  BY <1>1, AppendedSequence DEF Failures
<1>3. MaxErrors \in Nat
  BY UnitsAssumption
<1>4. Len(failed') <= MaxErrors
  BY <1>1, <1>2, <1>3
<1>5. QED
  BY <1>2, <1>4 DEF Failures, FailedGrows, Failed, e

LEMMA FailuresStep ==
  ASSUME Failures, [Next]_vars
  PROVE  Failures' /\ FailedGrows
<1>1. ASSUME Fails PROVE Failures' /\ FailedGrows
  <2>1. CASE UNCHANGED failed
    BY <2>1 DEF Failures, FailedGrows, Failed
  <2>2. CASE \E call, where : Fail(call, where)
    BY <2>2, FailureIsKept
  <2>3. QED
    BY <1>1, <2>1, <2>2 DEF Fails
<1>2. CASE Open \/ InitDwarf \/ CheckEndianness \/ Write
  BY <1>1, <1>2 DEF Open, InitDwarf, CheckEndianness, Write, Fails
<1>3. CASE ReadSection \/ ReadElfSymbol \/ EndSections
  BY <1>1, <1>3 DEF ReadSection, ReadElfSymbol, EndSections, Fails
<1>4. CASE NextUnit \/ HeaderFails \/ EndUnits
  BY <1>1, <1>4 DEF NextUnit, HeaderFails, EndUnits, Fails
<1>5. CASE DefineMacro \/ ImportMacros \/ OtherOp \/ MacroOpFails \/ EndMacroLoop
  BY <1>1, <1>5 DEF DefineMacro, ImportMacros, OtherOp, MacroOpFails, EndMacroLoop, Fails
<1>6. CASE ReadSourceFiles \/ VisitDie \/ HandleDie
  BY <1>1, <1>6 DEF ReadSourceFiles, VisitDie, HandleDie, Fails
<1>7. CASE VisitChildren \/ NextSibling \/ RestartAtRoot
  BY <1>1, <1>7 DEF VisitChildren, NextSibling, RestartAtRoot, Fails
<1>8. CASE UNCHANGED vars
  BY <1>1, <1>8 DEF vars, Fails
<1>9. QED
  BY <1>2, <1>3, <1>4, <1>5, <1>6, <1>7, <1>8 DEF Next

LEMMA FailuresInit == Init => Failures
<1>1. IsSequence(<< >>)
  BY EmptySeq DEF IsSequence
<1>2. MaxErrors \in Nat
  BY UnitsAssumption
<1>3. QED
  BY <1>1, <1>2 DEF Init, Failures

-----------------------------------------------------------------------------
(* What prevents the data container from being written.                    *)

LEMMA EarlyStep ==
  ASSUME Failures, OnlyEarlyErrorsPreventWrite, [Next]_vars
  PROVE  OnlyEarlyErrorsPreventWrite'
<1>0. FailedGrows
  BY FailuresStep
<1>1. CASE Open
  <2>1. ASSUME Fail("open", 0) PROVE Failed(<< "open", 0 >>)'
    BY <2>1, FailureIsKept
  <2>2. QED
    BY <1>1, <2>1 DEF Open, OnlyEarlyErrorsPreventWrite, Goto
<1>2. CASE InitDwarf
  <2>1. ASSUME Fail("dwarf_init_b", 0) PROVE Failed(<< "dwarf_init_b", 0 >>)'
    BY <2>1, FailureIsKept
  <2>2. QED
    BY <1>2, <2>1 DEF InitDwarf, OnlyEarlyErrorsPreventWrite, Goto
<1>3. CASE CheckEndianness
  BY <1>3 DEF CheckEndianness, OnlyEarlyErrorsPreventWrite, Goto
<1>4. CASE Write
  BY <1>4 DEF Write, OnlyEarlyErrorsPreventWrite, Goto
<1>5. ASSUME pc' # "exit" PROVE OnlyEarlyErrorsPreventWrite'
  BY <1>5 DEF OnlyEarlyErrorsPreventWrite
<1>6. ASSUME UNCHANGED << pc, options, written >> PROVE OnlyEarlyErrorsPreventWrite'
  BY <1>0, <1>6 DEF OnlyEarlyErrorsPreventWrite, FailedGrows
<1>7. CASE ReadSection \/ EndSections \/ ReadElfSymbol
  BY <1>5, <1>6, <1>7 DEF ReadSection, EndSections, ReadElfSymbol, AddElfSymbol, Goto
<1>8. CASE NextUnit \/ HeaderFails \/ EndUnits
  BY <1>5, <1>6, <1>8 DEF NextUnit, HeaderFails, EndUnits, Goto
<1>9. CASE DefineMacro \/ ImportMacros \/ OtherOp \/ MacroOpFails \/ EndMacroLoop
  BY <1>5, <1>6, <1>9 DEF DefineMacro, ImportMacros, OtherOp, MacroOpFails, EndMacroLoop,
       Goto, macroRest
<1>10. CASE ReadSourceFiles \/ VisitDie \/ HandleDie
  BY <1>5, <1>6, <1>10 DEF ReadSourceFiles, VisitDie, HandleDie, Goto, walkRest
<1>11. CASE VisitChildren \/ NextSibling \/ RestartAtRoot
  BY <1>5, <1>6, <1>11 DEF VisitChildren, NextSibling, RestartAtRoot, Goto, walkRest
<1>12. CASE UNCHANGED vars
  BY <1>6, <1>12 DEF vars
<1>13. QED
  BY <1>1, <1>2, <1>3, <1>4, <1>7, <1>8, <1>9, <1>10, <1>11, <1>12 DEF Next

\* Only a file that cannot be opened, that libdwarf refuses or whose class or
\* byte order is not known is not written (main() and parse(), main.cpp:385 and
\* Juicer.cpp:5125), whatever fails after that.
THEOREM EarlyErrors == Spec => []OnlyEarlyErrorsPreventWrite
<1>1. Init => Failures /\ OnlyEarlyErrorsPreventWrite
  BY FailuresInit DEF Init, OnlyEarlyErrorsPreventWrite
<1>2. Failures /\ OnlyEarlyErrorsPreventWrite /\ [Next]_vars
        => (Failures /\ OnlyEarlyErrorsPreventWrite)'
  BY FailuresStep, EarlyStep
<1>3. QED
  BY <1>1, <1>2, PTL DEF Spec

-----------------------------------------------------------------------------
(* The loops and calls in progress.                                        *)

Places == {"main", "init", "sections", "endianness", "headers", "macros",
           "files", "walk", "write", "exit", "aborted"}
Phases == {"visit", "handle", "sibling"}

Loops  == {l \in [ops : OpSeqs, i : Nat] : l.i \in 1 .. Len(l.ops) + 1}

\* A call of getDieAndSiblings: between two DIEs its handler has nothing to
\* add, and a handler adds the rest of what it has to add.
Frames == [dies : Seq(DOMAIN Dies), i : Nat, phase : Phases, adds : Seq(Adds), ok : BOOLEAN]

RestOf(rest, s) == \E k \in 0 .. Len(s) : rest = SubSeq(s, k + 1, Len(s))

FrameOK(f) == /\ f \in Frames /\ f.i <= Len(f.dies)
              /\ f.phase # "handle" => f.adds = << >>
              /\ f.i # 0 /\ f.phase = "handle" => RestOf(f.adds, Dies[f.dies[f.i]].adds)

Scalars ==
  /\ pc \in Places /\ headers \in Seq(DOMAIN Sections) /\ Len(headers) <= Len(Sections)
  /\ little_endian \in BOOLEAN /\ written \in BOOLEAN
  /\ dwarfVersion \in {0, 4, 5} /\ return_value \in {"OK", "ERROR"}
  /\ unit \in 0 .. Len(Units) /\ seen \in Seq(DOMAIN Dies)
  /\ pc \in {"macros", "files", "walk"} => unit # 0

MacroLoops == /\ macroStack \in Seq(Loops)
              /\ pc # "aborted" => (macroStack # << >>) = (pc = "macros")

\* A caller has made the call for the children.
Calls == /\ stack \in Seq(Frames) /\ \A k \in DOMAIN stack : FrameOK(stack[k])
         /\ \A k \in DOMAIN stack : k # 1 => stack[k].phase = "sibling"
         /\ pc # "aborted" => (stack # << >>) = (pc = "walk")

Inv == Failures /\ Scalars /\ MacroLoops /\ Calls

LEMMA InvIsTyped == Inv => TypeOK
<1> SUFFICES ASSUME Inv PROVE TypeOK
  OBVIOUS
<1>1. ASSUME NEW k \in DOMAIN stack PROVE IsFrame(stack[k])
  <2> DEFINE f == stack[k]
  <2>1. FrameOK(f)
    BY DEF Inv, Calls
  <2> HIDE DEF f
  <2>2. /\ f.dies \in Seq(DOMAIN Dies) /\ f.i \in Nat /\ f.phase \in Phases
        /\ f.ok \in BOOLEAN /\ f.i <= Len(f.dies)
    BY <2>1 DEF FrameOK, Frames
  <2>3. Len(f.dies) \in Nat
    BY <2>2, LenProperties
  <2>4. f.i \in 0 .. Len(f.dies)
    BY <2>2, <2>3
  <2>5. QED
    BY <2>1, <2>2, <2>4 DEF IsFrame, FrameOK, RestOf, Phases, f
<1>2. ASSUME NEW k \in DOMAIN macroStack
      PROVE  macroStack[k].i \in 1 .. Len(macroStack[k].ops) + 1
  <2>1. macroStack[k] \in Loops
    BY ElementAt DEF Inv, MacroLoops
  <2>2. QED
    BY <2>1 DEF Loops
<1>3. QED
  BY <1>1, <1>2 DEF Inv, TypeOK, Scalars, MacroLoops, Calls, Failures, Places

LEMMA EmptySequences ==
  /\ \A S : << >> \in Seq(S)
  /\ Len(<< >>) = 0 /\ DOMAIN << >> = {}
OBVIOUS

LEMMA LensAreNat == Len(Units) \in Nat /\ Len(Sections) \in Nat
                    /\ DOMAIN Units = 1 .. Len(Units) /\ DOMAIN Sections = 1 .. Len(Sections)
BY UnitsAssumption, SectionsAssumption, LengthAndDomain

LEMMA InvInit == Init => Inv
<1> SUFFICES ASSUME Init PROVE Inv
  OBVIOUS
<1>1. Failures
  BY FailuresInit
<1>2. Scalars
  <2>1. /\ headers \in Seq(DOMAIN Sections) /\ seen \in Seq(DOMAIN Dies)
        /\ Len(headers) = 0 /\ unit = 0
    BY EmptySequences DEF Init
  <2>2. Len(headers) <= Len(Sections) /\ unit \in 0 .. Len(Units)
    BY <2>1, LensAreNat
  <2>3. QED
    BY <2>1, <2>2 DEF Init, Scalars, Places
<1>3. MacroLoops
  BY EmptySequences DEF Init, MacroLoops
<1>4. Calls
  BY EmptySequences DEF Init, Calls
<1>5. QED
  BY <1>1, <1>2, <1>3, <1>4 DEF Inv

\* The call of getDieAndSiblings under way, and the DIE it is at.
LEMMA TopProperties ==
  ASSUME Calls, pc = "walk"
  PROVE  /\ stack # << >> /\ Top = stack[1] /\ FrameOK(Top) /\ Len(stack) \in Nat
         /\ 1 \in DOMAIN stack /\ Len(stack) >= 1 /\ Tail(stack) \in Seq(Frames)
         /\ Top.i # 0 => Top.i \in 1 .. Len(Top.dies) /\ Die \in DOMAIN Dies
<1>1. stack # << >> /\ stack \in Seq(Frames)
  BY DEF Calls
<1>2. /\ Len(stack) \in Nat /\ Len(stack) # 0 /\ DOMAIN stack = 1 .. Len(stack)
      /\ Top = stack[1] /\ Tail(stack) \in Seq(Frames)
  BY <1>1, LenProperties, EmptySeq, HeadTailProperties DEF Top
<1>3. 1 \in DOMAIN stack /\ Len(stack) >= 1
  BY <1>2
<1>4. FrameOK(Top)
  BY <1>2, <1>3 DEF Calls
<1>5. ASSUME Top.i # 0 PROVE Top.i \in 1 .. Len(Top.dies) /\ Die \in DOMAIN Dies
  <2>1. Top.dies \in Seq(DOMAIN Dies) /\ Top.i \in Nat /\ Top.i <= Len(Top.dies)
    BY <1>4 DEF FrameOK, Frames
  <2>2. Top.i \in 1 .. Len(Top.dies)
    BY <1>5, <2>1, LenProperties
  <2>3. QED
    BY <2>1, <2>2, ElementOfSeq DEF Die
<1>6. QED
  BY <1>1, <1>2, <1>3, <1>4, <1>5

LEMMA ScalarsStep == ASSUME Inv, [Next]_vars PROVE Scalars'
<1> USE DEF Goto
<1>0. Scalars /\ Calls
  BY DEF Inv
<1>1. CASE Open \/ InitDwarf \/ CheckEndianness \/ Write
  BY <1>0, <1>1 DEF Open, InitDwarf, CheckEndianness, Write, Scalars, Places, elfVars, walkVars
<1>2. CASE ReadSection
  <2>1. headers \in Seq(DOMAIN Sections) /\ Len(headers) \in Nat
    BY <1>0, LenProperties DEF Scalars
  <2>2. /\ headers' \in {headers, Append(headers, Len(headers) + 1)}
        /\ Len(headers) < Len(Sections) /\ pc' \in {pc, "aborted"} /\ pc = "sections"
    BY <1>2 DEF ReadSection
  <2>3. Len(headers) + 1 \in DOMAIN Sections
    BY <2>1, <2>2, LensAreNat
  <2>4. /\ headers' \in Seq(DOMAIN Sections)
        /\ headers' = headers \/ Len(headers') = Len(headers) + 1
    BY <2>1, <2>2, <2>3, AppendProperties
  <2>5. Len(headers') <= Len(Sections)
    BY <2>1, <2>2, <2>4, LensAreNat
  <2>6. QED
    BY <1>0, <1>2, <2>2, <2>4, <2>5 DEF ReadSection, Scalars, Places, walkVars
<1>3. CASE ReadElfSymbol \/ EndSections
  BY <1>0, <1>3 DEF ReadElfSymbol, EndSections, AddElfSymbol, Scalars, Places, elfVars, walkVars
<1>4. CASE NextUnit
  <2>1. unit' \in 0 .. Len(Units) /\ unit' # 0
    BY <1>0, <1>4, LensAreNat DEF NextUnit, Scalars
  <2>2. /\ pc' \in Places /\ return_value' \in {"OK", "ERROR"}
        /\ UNCHANGED << headers, little_endian, written, dwarfVersion, seen >>
    BY <1>0, <1>4 DEF NextUnit, Scalars, Places, elfVars
  <2>3. QED
    BY <1>0, <2>1, <2>2 DEF Scalars
<1>5. CASE HeaderFails \/ EndUnits
  BY <1>0, <1>5 DEF HeaderFails, EndUnits, Scalars, Places, elfVars
<1>6. CASE DefineMacro \/ ImportMacros \/ OtherOp
  BY <1>0, <1>6 DEF DefineMacro, ImportMacros, OtherOp, Scalars, Places, macroRest, elfVars
<1>7. CASE MacroOpFails \/ EndMacroLoop
  <2>1. unit # 0 /\ pc' \in Places /\ return_value' \in {"OK", "ERROR"}
    BY <1>0, <1>7 DEF MacroOpFails, EndMacroLoop, AtOp, Scalars, Places
  <2>2. QED
    BY <1>0, <1>7, <2>1 DEF MacroOpFails, EndMacroLoop, Scalars, macroRest, elfVars
<1>8. CASE ReadSourceFiles \/ HandleDie \/ VisitChildren \/ RestartAtRoot
  <2>1. unit # 0 /\ pc' \in Places
    BY <1>0, <1>8 DEF ReadSourceFiles, HandleDie, VisitChildren, RestartAtRoot, AtDie,
         Scalars, Places
  <2>2. QED
    BY <1>0, <1>8, <2>1 DEF ReadSourceFiles, HandleDie, VisitChildren, RestartAtRoot,
         Scalars, walkRest, elfVars
<1>9. CASE VisitDie
  <2>1. Die \in DOMAIN Dies /\ unit \in 1 .. Len(Units)
    BY <1>0, <1>9, TopProperties, LensAreNat DEF VisitDie, AtDie, Scalars
  <2>2. Units[unit].version \in {4, 5}
    BY <2>1, UnitProperties
  <2>3. seen' \in Seq(DOMAIN Dies)
    <3>1. Append(seen, Die) \in Seq(DOMAIN Dies)
      BY <1>0, <2>1, AppendProperties DEF Scalars
    <3>2. QED
      BY <1>0, <1>9, <3>1 DEF VisitDie, Scalars
  <2>4. dwarfVersion' \in {0, 4, 5}
    BY <1>0, <1>9, <2>2 DEF VisitDie, Scalars
  <2>5. QED
    BY <1>0, <1>9, <2>3, <2>4 DEF VisitDie, Scalars, walkRest, elfVars
<1>10. CASE NextSibling
  <2>1. pc = "walk" /\ return_value' \in {"OK", "ERROR"} /\ pc' \in Places /\ unit # 0
    BY <1>0, <1>10 DEF NextSibling, AtDie, Scalars, Places
  <2>2. QED
    BY <1>0, <1>10, <2>1 DEF NextSibling, Scalars, walkRest, elfVars
<1>11. CASE UNCHANGED vars
  BY <1>0, <1>11 DEF vars, Scalars, walkVars, elfVars
<1>12. QED
  BY <1>1, <1>2, <1>3, <1>4, <1>5, <1>6, <1>7, <1>8, <1>9, <1>10, <1>11 DEF Next

\* A loop over macros goes on or ends, or one for an import starts in it.
LEMMA MacroLoopsStep == ASSUME Inv, [Next]_vars PROVE MacroLoops'
<1> USE DEF Goto
<1>0. Scalars /\ MacroLoops
  BY DEF Inv
<1>1. ASSUME UNCHANGED macroStack, pc' \in {pc, "aborted"} \/ (pc # "macros" /\ pc' # "macros"),
             pc = "aborted" => pc' = "aborted"
      PROVE  MacroLoops'
  BY <1>0, <1>1 DEF MacroLoops
<1>2. ASSUME NEW ops \in OpSeqs PROVE MacroLoop(ops) \in Loops
  BY <1>2, OpProperties DEF MacroLoop, Loops
<1>3. /\ << >> \in Seq(Loops)
      /\ \A l \in Loops : << l >> \in Seq(Loops) /\ << l >> # << >>
  OBVIOUS
<1>4. CASE Open \/ InitDwarf \/ CheckEndianness \/ Write
  BY <1>1, <1>4 DEF Open, InitDwarf, CheckEndianness, Write, walkVars
<1>5. CASE ReadSection \/ ReadElfSymbol \/ EndSections
  BY <1>1, <1>5 DEF ReadSection, ReadElfSymbol, EndSections, AddElfSymbol, walkVars
<1>6. CASE HeaderFails \/ EndUnits
  BY <1>1, <1>6 DEF HeaderFails, EndUnits
<1>7. CASE ReadSourceFiles \/ VisitDie \/ HandleDie
  BY <1>1, <1>7 DEF ReadSourceFiles, VisitDie, HandleDie, AtDie, walkRest
<1>8. CASE VisitChildren \/ NextSibling \/ RestartAtRoot
  BY <1>1, <1>8 DEF VisitChildren, NextSibling, RestartAtRoot, AtDie, walkRest
<1>9. CASE UNCHANGED vars
  BY <1>0, <1>9 DEF vars, walkVars, MacroLoops
<1>10. CASE NextUnit
  <2>1. unit + 1 \in 1 .. Len(Units)
    BY <1>0, <1>10, LensAreNat DEF NextUnit, Scalars
  <2>2. Units[unit + 1].macros \in OpSeqs
    BY <2>1, UnitProperties
  <2>3. << MacroLoop(Units[unit + 1].macros) >> \in Seq(Loops)
        /\ << MacroLoop(Units[unit + 1].macros) >> # << >>
    BY <1>2, <1>3, <2>2
  <2>4. CASE UNCHANGED macroStack
    BY <1>0, <1>10, <2>3, <2>4 DEF NextUnit, MacroLoops
  <2>5. CASE macroStack' = << MacroLoop(Units[unit + 1].macros) >> /\ pc' = "macros"
    BY <2>3, <2>5 DEF MacroLoops
  <2>6. QED
    BY <1>10, <2>4, <2>5 DEF NextUnit
<1>11. CASE DefineMacro \/ ImportMacros \/ OtherOp \/ MacroOpFails \/ EndMacroLoop
  <2>1. pc = "macros"
    BY <1>11 DEF DefineMacro, ImportMacros, OtherOp, MacroOpFails, EndMacroLoop, AtOp
  <2>2. /\ macroStack # << >> /\ macroStack \in Seq(Loops)
        /\ Loop \in Loops /\ Tail(macroStack) \in Seq(Loops)
        /\ Len(macroStack) \in Nat /\ Len(macroStack) # 0
        /\ Len(Tail(macroStack)) = Len(macroStack) - 1
    BY <1>0, <2>1, HeadTailProperties, LenProperties, EmptySeq DEF MacroLoops, Loop
  <2>3. Loop.ops \in OpSeqs /\ Loop.i \in 1 .. Len(Loop.ops) + 1
    BY <2>2 DEF Loops
  <2>4. ASSUME AtOp PROVE Advanced \in Seq(Loops) /\ Advanced # << >>
    <3> DEFINE l == [Loop EXCEPT !.i = @ + 1]
    <3>1. /\ Loop \in [ops : OpSeqs, i : Nat]
          /\ Loop.i <= Len(Loop.ops)
      BY <2>2, <2>4 DEF Loops, AtOp
    <3>2. l \in [ops : OpSeqs, i : Nat] /\ l.ops = Loop.ops /\ l.i = Loop.i + 1
      BY <3>1
    <3>3. l \in Loops
      <4>1. Len(Loop.ops) \in Nat
        BY <2>3, OpProperties
      <4>2. l.i \in 1 .. Len(l.ops) + 1
        BY <2>3, <3>1, <3>2, <4>1
      <4>3. QED
        BY <3>2, <4>2 DEF Loops
    <3> HIDE DEF l
    <3>4. << l >> \o Tail(macroStack) \in Seq(Loops) /\ << l >> \o Tail(macroStack) # << >>
      BY <2>2, <3>3, ConsProperties
    <3>5. QED
      BY <3>4 DEF Advanced, l
  <2>5. ASSUME macroStack' \in Seq(Loops), macroStack' # << >>, pc' \in {"macros", "aborted"}
        PROVE  MacroLoops'
    BY <2>5 DEF MacroLoops
  <2>6. CASE DefineMacro \/ OtherOp
    BY <2>1, <2>4, <2>5, <2>6 DEF DefineMacro, OtherOp, NextOp
  <2>7. CASE ImportMacros
    <3>1. AtOp /\ Op.op = "import" /\ Loop.i \in 1 .. Len(Loop.ops)
      BY <2>3, <2>7, OpProperties DEF ImportMacros, AtOp
    <3>2. Op.offset # 0 => MacroLoop(Imports[Op.offset]) \in Loops
      BY <1>2, <2>3, <3>1, OpProperties DEF Op
    <3>3. ASSUME NEW l \in Loops
          PROVE  << l >> \o Advanced \in Seq(Loops) /\ << l >> \o Advanced # << >>
      BY <2>4, <3>1, ConsProperties
    <3>4. CASE NextOp /\ pc' = pc
      BY <2>1, <2>4, <2>5, <3>1, <3>4 DEF NextOp
    <3>5. CASE /\ Op.offset # 0
               /\ macroStack' = << MacroLoop(Imports[Op.offset]) >> \o Advanced /\ pc' = pc
      BY <2>1, <2>5, <3>2, <3>3, <3>5
    <3>6. CASE \E o \in DOMAIN Imports :
                 macroStack' = << MacroLoop(Imports[o]) >> \o Advanced /\ pc' = pc
      <4>1. PICK o \in DOMAIN Imports :
              macroStack' = << MacroLoop(Imports[o]) >> \o Advanced /\ pc' = pc
        BY <3>6
      <4>2. Imports[o] \in OpSeqs
        BY DEF OpSeqs
      <4>3. QED
        BY <1>2, <2>1, <2>5, <3>3, <4>1, <4>2
    <3>7. CASE pc' = "aborted" /\ UNCHANGED macroStack
      BY <2>2, <2>5, <3>7
    <3>8. QED
      BY <2>7, <3>4, <3>5, <3>6, <3>7 DEF ImportMacros
  <2>8. CASE MacroOpFails
    <3>1. CASE ~ InUnit /\ macroStack' = Tail(macroStack) /\ pc' = pc
      <4>1. Len(Tail(macroStack)) # 0
        BY <2>2, <3>1 DEF InUnit
      <4>2. Tail(macroStack) # << >>
        BY <4>1, EmptySequences
      <4>3. QED
        BY <2>1, <2>2, <2>5, <3>1, <4>2
    <3>2. CASE NextOp /\ pc' = pc
      BY <2>1, <2>4, <2>5, <2>8, <3>2 DEF NextOp, MacroOpFails
    <3>3. CASE macroStack' = << >> /\ pc' = "headers"
      BY <1>3, <3>3 DEF MacroLoops
    <3>4. QED
      BY <2>8, <3>1, <3>2, <3>3 DEF MacroOpFails
  <2>9. CASE EndMacroLoop
    <3>1. macroStack' = Tail(macroStack) /\ pc' = IF InUnit THEN "files" ELSE "macros"
      BY <2>9 DEF EndMacroLoop
    <3>2. CASE InUnit
      <4>1. Len(Tail(macroStack)) = 0
        BY <2>2, <3>2 DEF InUnit
      <4>2. Tail(macroStack) = << >>
        BY <2>2, <4>1, EmptySeq
      <4>3. QED
        BY <1>3, <3>1, <3>2, <4>2 DEF MacroLoops
    <3>3. CASE ~ InUnit
      <4>1. Len(Tail(macroStack)) # 0
        BY <2>2, <3>3 DEF InUnit
      <4>2. Tail(macroStack) # << >>
        BY <4>1, EmptySequences
      <4>3. QED
        BY <2>2, <2>5, <3>1, <3>3, <4>2
    <3>4. QED
      BY <3>2, <3>3
  <2>10. QED
    BY <1>11, <2>6, <2>7, <2>8, <2>9
<1>12. QED
  BY <1>4, <1>5, <1>6, <1>7, <1>8, <1>9, <1>10, <1>11 DEF Next

-----------------------------------------------------------------------------
(* The calls of getDieAndSiblings.                                         *)

CallSequence(q) == /\ q \in Seq(Frames)
                   /\ \A k \in DOMAIN q : /\ FrameOK(q[k])
                                          /\ k # 1 => q[k].phase = "sibling"

LEMMA ConsCalls ==
  ASSUME NEW q, CallSequence(q), \A k \in DOMAIN q : q[k].phase = "sibling",
         NEW f, FrameOK(f)
  PROVE  /\ CallSequence(<< f >> \o q) /\ << f >> \o q # << >> /\ (<< f >> \o q)[1] = f
         /\ \A k \in DOMAIN (<< f >> \o q) : k # 1 => k - 1 \in DOMAIN q
<1> DEFINE r == << f >> \o q
<1>1. q \in Seq(Frames) /\ f \in Frames
  BY DEF CallSequence, FrameOK
<1>2. /\ r \in Seq(Frames) /\ r # << >> /\ Len(r) = Len(q) + 1 /\ r[1] = f
      /\ \A k \in 2 .. Len(q) + 1 : r[k] = q[k - 1]
  BY <1>1, ConsProperties
<1> HIDE DEF r
<1>3. Len(q) \in Nat /\ DOMAIN q = 1 .. Len(q) /\ DOMAIN r = 1 .. Len(r)
  BY <1>1, <1>2, LenProperties
<1>4. ASSUME NEW k \in DOMAIN r, k # 1
      PROVE  k - 1 \in DOMAIN q /\ r[k] = q[k - 1]
  BY <1>2, <1>3, <1>4
<1>5. ASSUME NEW k \in DOMAIN r
      PROVE  FrameOK(r[k]) /\ (k # 1 => r[k].phase = "sibling")
  <2>1. CASE k = 1
    BY <1>2, <2>1
  <2>2. CASE k # 1
    BY <1>4, <2>2 DEF CallSequence
  <2>3. QED
    BY <2>1, <2>2
<1>6. QED
  BY <1>2, <1>4, <1>5 DEF CallSequence, r

LEMMA TailCalls ==
  ASSUME NEW q, CallSequence(q), q # << >>
  PROVE  /\ CallSequence(Tail(q)) /\ \A k \in DOMAIN Tail(q) : Tail(q)[k].phase = "sibling"
         /\ Len(Tail(q)) = Len(q) - 1 /\ Len(q) \in Nat
<1> DEFINE r == Tail(q)
<1>1. q \in Seq(Frames)
  BY DEF CallSequence
<1>2. /\ r \in Seq(Frames) /\ Len(r) = Len(q) - 1
      /\ \A k \in 1 .. Len(r) : r[k] = q[k + 1]
  BY <1>1, HeadTailProperties
<1> HIDE DEF r
<1>3. Len(q) \in Nat /\ DOMAIN q = 1 .. Len(q) /\ DOMAIN r = 1 .. Len(r)
  BY <1>1, <1>2, LenProperties
<1>4. ASSUME NEW k \in DOMAIN r
      PROVE  k + 1 \in DOMAIN q /\ k + 1 # 1 /\ r[k] = q[k + 1]
  BY <1>2, <1>3
<1>5. ASSUME NEW k \in DOMAIN r PROVE FrameOK(r[k]) /\ r[k].phase = "sibling"
  BY <1>4 DEF CallSequence
<1>6. QED
  BY <1>2, <1>3, <1>5 DEF CallSequence, r

LEMMA CallsAreSequence ==
  ASSUME Calls, pc = "walk"
  PROVE  /\ CallSequence(stack) /\ stack # << >>
         /\ CallSequence(Tail(stack)) /\ \A k \in DOMAIN Tail(stack) : Tail(stack)[k].phase = "sibling"
         /\ Len(Tail(stack)) = Len(stack) - 1 /\ Len(stack) \in Nat
<1>1. CallSequence(stack) /\ stack # << >>
  BY DEF Calls, CallSequence
<1>2. QED
  BY <1>1, TailCalls

\* A new frame is at its first DIE, if there is one.
LEMMA NewFrame ==
  ASSUME NEW dies \in Seq(DOMAIN Dies), dies # << >>
  PROVE  FrameOK(Frame(dies)) /\ Frame(dies).phase = "visit"
<1>1. Len(dies) \in Nat \ {0} /\ << >> \in Seq(Adds)
  BY EmptySeq
<1>2. Frame(dies) \in Frames
  BY <1>1 DEF Frame, Frames, Phases
<1>3. QED
  BY <1>1, <1>2 DEF Frame, FrameOK

\* A frame with some of its fields changed.
Updated(g, f, i, phase, adds, ok) ==
  /\ g \in Frames /\ g.dies = f.dies /\ g.i = i /\ g.phase = phase
  /\ g.adds = adds /\ g.ok = ok

LEMMA FrameUpdates ==
  ASSUME NEW f \in Frames, NEW n \in Nat, NEW p \in Phases, NEW a \in Seq(Adds),
         NEW o \in BOOLEAN
  PROVE  /\ Updated([f EXCEPT !.phase = p, !.adds = a], f, f.i, p, a, f.ok)
         /\ Updated([f EXCEPT !.phase = p, !.adds = a, !.ok = o], f, f.i, p, a, o)
         /\ Updated([f EXCEPT !.phase = p, !.ok = o], f, f.i, p, f.adds, o)
         /\ Updated([f EXCEPT !.phase = p], f, f.i, p, f.adds, f.ok)
         /\ Updated([f EXCEPT !.adds = a], f, f.i, f.phase, a, f.ok)
         /\ Updated([f EXCEPT !.i = n, !.phase = p], f, n, p, f.adds, f.ok)
         /\ Updated([f EXCEPT !.i = n, !.ok = o], f, n, f.phase, f.adds, o)
         /\ Updated([f EXCEPT !.ok = o], f, f.i, f.phase, f.adds, o)
<1>1. Updated([f EXCEPT !.phase = p, !.adds = a], f, f.i, p, a, f.ok)
  BY DEF Frames, Updated
<1>2. Updated([f EXCEPT !.phase = p, !.adds = a, !.ok = o], f, f.i, p, a, o)
  BY DEF Frames, Updated
<1>3. Updated([f EXCEPT !.phase = p, !.ok = o], f, f.i, p, f.adds, o)
  BY DEF Frames, Updated
<1>4. Updated([f EXCEPT !.phase = p], f, f.i, p, f.adds, f.ok)
  BY DEF Frames, Updated
<1>5. Updated([f EXCEPT !.adds = a], f, f.i, f.phase, a, f.ok)
  BY DEF Frames, Updated
<1>6. Updated([f EXCEPT !.i = n, !.phase = p], f, n, p, f.adds, f.ok)
  BY DEF Frames, Updated
<1>7. Updated([f EXCEPT !.i = n, !.ok = o], f, n, f.phase, f.adds, o)
  BY DEF Frames, Updated
<1>8. Updated([f EXCEPT !.ok = o], f, f.i, f.phase, f.adds, o)
  BY DEF Frames, Updated
<1>9. QED
  BY <1>1, <1>2, <1>3, <1>4, <1>5, <1>6, <1>7, <1>8

LEMMA RestProperties ==
  ASSUME NEW s \in Seq(Adds), NEW rest, RestOf(rest, s)
  PROVE  /\ RestOf(s, s) /\ RestOf(<< >>, s) /\ rest \in Seq(Adds)
         /\ rest # << >> => RestOf(Tail(rest), s) /\ Head(rest) \in Adds
<1>1. Len(s) \in Nat
  BY LenProperties
<1>2. SubSeq(s, 1, Len(s)) = s /\ SubSeq(s, Len(s) + 1, Len(s)) = << >>
  BY <1>1
<1>3. RestOf(s, s) /\ RestOf(<< >>, s)
  BY <1>1, <1>2 DEF RestOf
<1>4. PICK k \in 0 .. Len(s) : rest = SubSeq(s, k + 1, Len(s))
  BY DEF RestOf
<1>5. rest \in Seq(Adds)
  BY <1>1, <1>4, SubSeqProperties
<1>6. ASSUME rest # << >> PROVE RestOf(Tail(rest), s) /\ Head(rest) \in Adds
  <2>1. k < Len(s)
    BY <1>1, <1>2, <1>4, <1>6
  <2>2. Tail(rest) = SubSeq(s, k + 2, Len(s))
    BY <1>1, <1>4, <2>1
  <2>3. k + 1 \in 0 .. Len(s) /\ (k + 1) + 1 = k + 2
    BY <1>1, <2>1
  <2>4. QED
    BY <1>5, <1>6, <2>2, <2>3, HeadTailProperties DEF RestOf
<1>7. QED
  BY <1>3, <1>5, <1>6

\* The frame on top is replaced by one that is right.
LEMMA SetTopCalls ==
  ASSUME Calls, pc = "walk", NEW f, FrameOK(f), SetTop(f), pc' \in {"walk", "aborted"}
  PROVE  Calls' /\ Top' = f
<1>1. /\ CallSequence(Tail(stack)) /\ Tail(stack) \in Seq(Frames)
      /\ \A k \in DOMAIN Tail(stack) : Tail(stack)[k].phase = "sibling"
  BY CallsAreSequence DEF CallSequence
<1>2. /\ CallSequence(<< f >> \o Tail(stack)) /\ << f >> \o Tail(stack) # << >>
      /\ (<< f >> \o Tail(stack))[1] = f
  BY <1>1, ConsCalls
<1>3. stack' = << f >> \o Tail(stack)
  BY DEF SetTop
<1>4. Calls'
  BY <1>2, <1>3 DEF Calls, CallSequence
<1>5. Top' = f
  BY <1>2, <1>3 DEF Top
<1>6. QED
  BY <1>4, <1>5

LEMMA VisitDieCalls ==
  ASSUME Inv, VisitDie
  PROVE  /\ Calls' /\ Top'.dies = Top.dies /\ Top'.i = Top.i
         /\ \/ Top'.adds = << >> \/ dwarfVersion' = Units[unit].version
            \/ Fail("version", Die)
<1> USE DEF Goto
<1>1. /\ Calls /\ pc = "walk" /\ pc' = pc /\ Top.phase = "visit" /\ Top.i # 0
      /\ FrameOK(Top) /\ Top \in Frames /\ Die \in DOMAIN Dies
  BY TopProperties DEF Inv, VisitDie, AtDie, FrameOK
<1>2. /\ Dies[Die].adds \in Seq(Adds) /\ RestOf(Dies[Die].adds, Dies[Die].adds)
      /\ RestOf(<< >>, Dies[Die].adds)
  <2>1. Dies[Die].adds \in Seq(Adds)
    BY <1>1, DieProperties
  <2>2. SubSeq(Dies[Die].adds, 1, Len(Dies[Die].adds)) = Dies[Die].adds
        /\ Len(Dies[Die].adds) \in Nat
    BY <2>1, SubSeqFull, LenProperties
  <2>3. RestOf(Dies[Die].adds, Dies[Die].adds)
    BY <2>2 DEF RestOf
  <2>4. QED
    BY <2>1, <2>3, RestProperties
<1>3. ASSUME NEW f, NEW a, NEW o \in BOOLEAN, RestOf(a, Dies[Die].adds),
             Updated(f, Top, Top.i, "handle", a, o), SetTop(f)
      PROVE  Calls' /\ Top'.dies = Top.dies /\ Top'.i = Top.i /\ Top'.adds = a
  <2>1. f.dies[f.i] = Die /\ f.i <= Len(f.dies)
    BY <1>1, <1>3 DEF Updated, Die, FrameOK
  <2>2. FrameOK(f)
    BY <1>3, <2>1 DEF Updated, FrameOK
  <2>3. Calls' /\ Top' = f
    BY <1>1, <1>3, <2>2, SetTopCalls
  <2>4. QED
    BY <1>3, <2>3 DEF Updated
<1>4. "handle" \in Phases /\ Top.ok \in BOOLEAN /\ FALSE \in BOOLEAN /\ Top.adds = << >>
  <2>1. "handle" \in Phases /\ Top.ok \in BOOLEAN
    BY <1>1 DEF Phases, Frames
  <2>2. Top.adds = << >>
    BY <1>1 DEF FrameOK
  <2>3. QED
    BY <2>1, <2>2
<1>5. CASE /\ SetTop([Top EXCEPT !.phase = "handle", !.adds = Dies[Die].adds])
           /\ dwarfVersion' = Units[unit].version \/ Fail("version", Die)
  BY <1>1, <1>2, <1>3, <1>4, <1>5, FrameUpdates
<1>6. CASE SetTop([Top EXCEPT !.ok = FALSE])
  <2> DEFINE f == [Top EXCEPT !.ok = FALSE]
  <2>1. Updated(f, Top, Top.i, Top.phase, Top.adds, FALSE)
    BY <1>1 DEF Frames, Updated
  <2>2. SetTop(f)
    BY <1>6
  <2> HIDE DEF f
  <2>3. FrameOK(f)
    BY <1>1, <1>4, <2>1 DEF Updated, FrameOK
  <2>4. Calls' /\ Top' = f
    BY <1>1, <2>2, <2>3, SetTopCalls
  <2>5. QED
    BY <1>4, <2>1, <2>4 DEF Updated
<1>7. CASE SetTop([Top EXCEPT !.phase = "handle", !.ok = FALSE])
  BY <1>1, <1>2, <1>3, <1>4, <1>7, FrameUpdates
<1>8. QED
  BY <1>5, <1>6, <1>7 DEF VisitDie

LEMMA HandleDieCalls ==
  ASSUME Inv, HandleDie
  PROVE  /\ Calls'
         /\ stack' # stack => /\ Top.i # 0 /\ Top.phase = "handle"
                              /\ Top'.dies = Top.dies /\ Top'.i = Top.i
<1> USE DEF Goto
<1>1. /\ Calls /\ pc = "walk" /\ Top.phase = "handle" /\ Top.i # 0 /\ Top.adds # << >>
      /\ FrameOK(Top) /\ Top \in Frames /\ Die \in DOMAIN Dies
  BY TopProperties DEF Inv, HandleDie, AtDie, FrameOK
<1>2. CASE pc' = "aborted" /\ UNCHANGED stack
  BY <1>1, <1>2 DEF Calls
<1>3. CASE SetTop([Top EXCEPT !.adds = Tail(@)]) /\ pc' = pc
  <2> DEFINE f == [Top EXCEPT !.adds = Tail(Top.adds)]
  <2>1. RestOf(Top.adds, Dies[Die].adds) /\ Dies[Die].adds \in Seq(Adds)
    BY <1>1, DieProperties DEF FrameOK, Die
  <2>2. RestOf(Tail(Top.adds), Dies[Die].adds) /\ Tail(Top.adds) \in Seq(Adds)
    BY <1>1, <2>1, RestProperties
  <2>3. Updated(f, Top, Top.i, Top.phase, Tail(Top.adds), Top.ok)
    <3>1. Top.i \in Nat /\ Top.phase \in Phases /\ Top.ok \in BOOLEAN
      BY <1>1 DEF Frames
    <3>2. QED
      BY <1>1, <2>2, <3>1, FrameUpdates
  <2> HIDE DEF f
  <2>4. f.dies[f.i] = Die /\ f.i <= Len(f.dies)
    BY <1>1, <2>3 DEF Updated, Die, FrameOK
  <2>5. FrameOK(f)
    BY <1>1, <2>2, <2>3, <2>4 DEF Updated, FrameOK
  <2>6. SetTop(f)
    BY <1>3 DEF f
  <2>7. Calls' /\ Top' = f
    BY <1>1, <1>3, <2>5, <2>6, SetTopCalls
  <2>8. QED
    BY <1>1, <2>3, <2>7 DEF Updated
<1>4. QED
  BY <1>2, <1>3 DEF HandleDie

\* The call for the children is in front of the frame of their parent.
LEMMA VisitChildrenCalls ==
  ASSUME Inv, VisitChildren
  PROVE  Calls' /\ Top'.phase # "handle"
<1>1. /\ Calls /\ pc = "walk" /\ pc' = pc /\ Top.phase = "handle" /\ Top.i # 0
      /\ Top.adds = << >> /\ FrameOK(Top) /\ Top \in Frames /\ Die \in DOMAIN Dies
  BY TopProperties DEF Inv, VisitChildren, AtDie, FrameOK
<1>2. /\ Top.i \in Nat /\ Top.ok \in BOOLEAN /\ FALSE \in BOOLEAN
      /\ Top.adds \in Seq(Adds) /\ "sibling" \in Phases
      /\ Dies[Die].children \in Seq(DOMAIN Dies)
  BY <1>1, DieProperties DEF Frames, Phases
<1>3. CASE SetTop([Top EXCEPT !.phase = "sibling", !.ok = FALSE])
  <2> DEFINE f == [Top EXCEPT !.phase = "sibling", !.ok = FALSE]
  <2>1. Updated(f, Top, Top.i, "sibling", Top.adds, FALSE)
    BY <1>1, <1>2, FrameUpdates
  <2>2. SetTop(f)
    BY <1>3
  <2> HIDE DEF f
  <2>3. FrameOK(f)
    BY <1>1, <2>1 DEF Updated, FrameOK
  <2>4. Calls' /\ Top' = f
    BY <1>1, <2>2, <2>3, SetTopCalls
  <2>5. QED
    BY <2>1, <2>4 DEF Updated
<1>4. CASE stack' = (IF Dies[Die].children = << >> THEN << >>
                     ELSE << Frame(Dies[Die].children) >>)
                    \o << [Top EXCEPT !.phase = "sibling"] >> \o Tail(stack)
  <2> DEFINE f == [Top EXCEPT !.phase = "sibling"]
             new == IF Dies[Die].children = << >> THEN << >>
                    ELSE << Frame(Dies[Die].children) >>
             rest == << f >> \o Tail(stack)
  <2>1. Updated(f, Top, Top.i, "sibling", Top.adds, Top.ok)
    BY <1>1, <1>2, FrameUpdates
  <2>2. stack' = (new \o << f >>) \o Tail(stack)
    BY <1>4
  <2> HIDE DEF f
  <2>3. FrameOK(f) /\ f \in Frames /\ f.phase = "sibling"
    BY <1>1, <2>1 DEF Updated, FrameOK
  <2>4. /\ CallSequence(Tail(stack)) /\ Tail(stack) \in Seq(Frames)
        /\ \A k \in DOMAIN Tail(stack) : Tail(stack)[k].phase = "sibling"
    BY <1>1, CallsAreSequence DEF CallSequence
  <2>5. /\ CallSequence(rest) /\ rest # << >> /\ rest[1] = f
        /\ \A k \in DOMAIN rest : k # 1 => k - 1 \in DOMAIN Tail(stack)
    BY <2>3, <2>4, ConsCalls
  <2>6. \A k \in DOMAIN rest : rest[k].phase = "sibling"
    BY <2>3, <2>5 DEF CallSequence
  <2>7. new \in Seq(Frames) /\ << f >> \in Seq(Frames)
    <3>1. CASE Dies[Die].children = << >>
      BY <2>3, <3>1
    <3>2. CASE Dies[Die].children # << >>
      <4>1. Frame(Dies[Die].children) \in Frames
        BY <1>2, <3>2, NewFrame DEF FrameOK
      <4>2. QED
        BY <2>3, <3>2, <4>1
    <3>3. QED
      BY <3>1, <3>2
  <2>8. stack' = new \o rest
    BY <2>2, <2>4, <2>7, ConcatAssociative
  <2> HIDE DEF rest
  <2>9. CASE Dies[Die].children = << >>
    <3>1. rest \in Seq(Frames)
      BY <2>5 DEF CallSequence
    <3>2. stack' = rest
      BY <2>8, <2>9, <3>1, ConcatEmptySeq
    <3>3. Head(rest) = rest[1]
      BY <2>5, <3>1
    <3>4. QED
      BY <1>1, <2>3, <2>5, <3>2, <3>3 DEF Calls, CallSequence, Top
  <2>10. CASE Dies[Die].children # << >>
    <3> DEFINE c == Frame(Dies[Die].children)
    <3>1. FrameOK(c) /\ c.phase = "visit"
      BY <1>2, <2>10, NewFrame
    <3>2. stack' = << c >> \o rest
      BY <2>8, <2>10
    <3> HIDE DEF c
    <3>3. CallSequence(<< c >> \o rest) /\ << c >> \o rest # << >> /\ (<< c >> \o rest)[1] = c
      BY <2>5, <2>6, <3>1, ConsCalls
    <3>4. Calls'
      BY <1>1, <3>2, <3>3 DEF Calls, CallSequence
    <3>5. Top' = c
      BY <3>2, <3>3 DEF Top, CallSequence
    <3>6. QED
      BY <3>1, <3>4, <3>5
  <2>11. QED
    BY <2>9, <2>10
<1>5. QED
  BY <1>3, <1>4 DEF VisitChildren

\* The next DIE, the end of the call, or a null DIE.
LEMMA NextSiblingCalls ==
  ASSUME Inv, NextSibling
  PROVE  Calls' /\ (stack' # << >> => Top'.phase # "handle")
<1> USE DEF Goto
<1>1. /\ Calls /\ pc = "walk" /\ Top.phase = "sibling" /\ Top.i # 0
      /\ Top.i \in 1 .. Len(Top.dies) /\ FrameOK(Top) /\ Top \in Frames
  BY TopProperties DEF Inv, NextSibling, AtDie, FrameOK
<1>2. /\ Top.i \in Nat /\ Top.ok \in BOOLEAN /\ FALSE \in BOOLEAN
      /\ Top.adds \in Seq(Adds) /\ Top.adds = << >> /\ "visit" \in Phases
      /\ Top.dies \in Seq(DOMAIN Dies)
  BY <1>1 DEF Frames, Phases, FrameOK
<1>3. CASE /\ Top.i < Len(Top.dies) /\ pc' = pc
           /\ SetTop([Top EXCEPT !.i = @ + 1, !.phase = "visit"])
  <2> DEFINE f == [Top EXCEPT !.i = Top.i + 1, !.phase = "visit"]
  <2>1. Top.i + 1 \in Nat
    BY <1>2
  <2>2. Updated(f, Top, Top.i + 1, "visit", Top.adds, Top.ok)
    BY <1>1, <1>2, <2>1, FrameUpdates
  <2>3. SetTop(f)
    BY <1>3
  <2> HIDE DEF f
  <2>4. Len(Top.dies) \in Nat
    BY <1>2, LenProperties
  <2>5. f.i <= Len(f.dies)
    BY <1>2, <1>3, <2>2, <2>4 DEF Updated
  <2>6. FrameOK(f)
    BY <1>2, <2>2, <2>5 DEF Updated, FrameOK
  <2>7. Calls' /\ Top' = f
    BY <1>1, <1>3, <2>3, <2>6, SetTopCalls
  <2>8. QED
    BY <2>2, <2>7 DEF Updated
<1>4. CASE /\ stack' = Tail(stack)
           /\ pc' = IF AtTop THEN "headers" ELSE "walk"
  <2>1. /\ CallSequence(Tail(stack)) /\ Tail(stack) \in Seq(Frames)
        /\ \A k \in DOMAIN Tail(stack) : Tail(stack)[k].phase = "sibling"
        /\ Len(Tail(stack)) = Len(stack) - 1 /\ Len(stack) \in Nat
    BY <1>1, CallsAreSequence DEF CallSequence
  <2>2. AtTop => Len(Tail(stack)) = 0
    BY <2>1 DEF AtTop
  <2>3. ~ AtTop => Len(Tail(stack)) # 0
    BY <2>1 DEF AtTop
  <2>4. AtTop <=> Tail(stack) = << >>
    BY <2>1, <2>2, <2>3, EmptySeq
  <2>5. Calls'
    BY <1>4, <2>1, <2>4 DEF Calls, CallSequence
  <2>6. ASSUME stack' # << >> PROVE Top'.phase # "handle"
    <3>1. 1 \in DOMAIN Tail(stack) /\ Head(Tail(stack)) = Tail(stack)[1]
      BY <1>4, <2>1, <2>6, LenProperties, EmptySeq
    <3>2. QED
      BY <1>4, <2>1, <3>1 DEF Top
  <2>7. QED
    BY <2>5, <2>6
<1>5. CASE SetTop([Top EXCEPT !.i = 0, !.ok = FALSE]) /\ pc' = pc
  <2> DEFINE f == [Top EXCEPT !.i = 0, !.ok = FALSE]
  <2>1. Updated(f, Top, 0, Top.phase, Top.adds, FALSE)
    <3>1. 0 \in Nat /\ Top.phase \in Phases
      BY <1>1 DEF Frames
    <3>2. QED
      BY <1>1, <1>2, <3>1, FrameUpdates
  <2>2. SetTop(f)
    BY <1>5
  <2> HIDE DEF f
  <2>3. Len(Top.dies) \in Nat
    BY <1>2, LenProperties
  <2>4. f.i <= Len(f.dies)
    BY <1>2, <2>1, <2>3 DEF Updated
  <2>5. FrameOK(f)
    BY <1>1, <1>2, <2>1, <2>4 DEF Updated, FrameOK
  <2>6. Calls' /\ Top' = f
    BY <1>1, <1>5, <2>2, <2>5, SetTopCalls
  <2>7. QED
    BY <1>1, <2>1, <2>6 DEF Updated
<1>6. QED
  BY <1>3, <1>4, <1>5 DEF NextSibling

\* The CU DIE of the unit that is read.
LEMMA RootFrame ==
  ASSUME Scalars, unit # 0
  PROVE  /\ unit \in 1 .. Len(Units) /\ << Units[unit].root >> \in Seq(DOMAIN Dies)
         /\ << Units[unit].root >> # << >> /\ FrameOK(Frame(<< Units[unit].root >>))
         /\ Frame(<< Units[unit].root >>) \in Frames
         /\ Frame(<< Units[unit].root >>).phase = "visit"
<1>1. unit \in 1 .. Len(Units)
  BY LensAreNat DEF Scalars
<1>2. Units[unit].root \in DOMAIN Dies
  BY <1>1, UnitProperties
<1>3. << Units[unit].root >> \in Seq(DOMAIN Dies) /\ << Units[unit].root >> # << >>
  BY <1>2
<1>4. QED
  BY <1>1, <1>3, NewFrame DEF FrameOK

LEMMA ReadSourceFilesCalls ==
  ASSUME Inv, ReadSourceFiles
  PROVE  Calls' /\ Top'.phase # "handle"
<1> DEFINE f == Frame(<< Units[unit].root >>)
<1>1. FrameOK(f) /\ f \in Frames /\ f.phase = "visit"
  BY RootFrame DEF Inv, ReadSourceFiles, Scalars
<1>2. stack' = << f >> /\ pc' = "walk"
  BY DEF ReadSourceFiles, Goto
<1> HIDE DEF f
<1>3. << f >> \in Seq(Frames) /\ DOMAIN << f >> = {1} /\ << f >>[1] = f /\ << f >> # << >>
      /\ Head(<< f >>) = f
  BY <1>1
<1>4. QED
  BY <1>1, <1>2, <1>3 DEF Calls, Top

LEMMA RestartAtRootCalls ==
  ASSUME Inv, RestartAtRoot
  PROVE  Calls' /\ (stack' # stack => Top'.phase # "handle")
<1>1. Calls /\ Scalars /\ pc = "walk" /\ pc' = pc /\ unit # 0
  BY DEF Inv, RestartAtRoot, Scalars
<1>2. CASE UNCHANGED stack
  BY <1>1, <1>2 DEF Calls
<1>3. CASE SetTop([Frame(<< Units[unit].root >>) EXCEPT !.ok = FALSE])
  <2> DEFINE g == Frame(<< Units[unit].root >>)
             f == [g EXCEPT !.ok = FALSE]
  <2>1. FrameOK(g) /\ g \in Frames /\ g.phase = "visit"
    BY <1>1, RootFrame
  <2>2. SetTop(f)
    BY <1>3
  <2> HIDE DEF g
  <2>3. Updated(f, g, g.i, g.phase, g.adds, FALSE)
    BY <2>1 DEF Frames, Updated
  <2> HIDE DEF f
  <2>4. FrameOK(f)
    BY <2>1, <2>3 DEF Updated, FrameOK
  <2>5. Calls' /\ Top' = f
    BY <1>1, <2>2, <2>4, SetTopCalls
  <2>6. QED
    BY <2>1, <2>3, <2>5 DEF Updated
<1>4. QED
  BY <1>2, <1>3 DEF RestartAtRoot

LEMMA CallsStep == ASSUME Inv, [Next]_vars PROVE Calls'
<1> USE DEF Goto
<1>1. ASSUME UNCHANGED stack, pc' = pc \/ pc' = "aborted" \/ (pc # "walk" /\ pc' # "walk"),
             pc = "aborted" => pc' = "aborted"
      PROVE  Calls'
  BY <1>1 DEF Inv, Calls
<1>2. CASE Open \/ InitDwarf \/ CheckEndianness \/ Write
  BY <1>1, <1>2 DEF Open, InitDwarf, CheckEndianness, Write, walkVars
<1>3. CASE ReadSection \/ ReadElfSymbol \/ EndSections
  BY <1>1, <1>3 DEF ReadSection, ReadElfSymbol, EndSections, AddElfSymbol, walkVars
<1>4. CASE NextUnit \/ HeaderFails \/ EndUnits
  BY <1>1, <1>4 DEF NextUnit, HeaderFails, EndUnits
<1>5. CASE DefineMacro \/ ImportMacros \/ OtherOp \/ MacroOpFails \/ EndMacroLoop
  BY <1>1, <1>5 DEF DefineMacro, ImportMacros, OtherOp, MacroOpFails, EndMacroLoop,
       AtOp, macroRest
<1>6. CASE UNCHANGED vars
  BY <1>6 DEF vars, walkVars, Inv, Calls
<1>7. QED
  BY <1>2, <1>3, <1>4, <1>5, <1>6, VisitDieCalls, HandleDieCalls, VisitChildrenCalls,
     NextSiblingCalls, ReadSourceFilesCalls, RestartAtRootCalls DEF Next

LEMMA InvStep == Inv /\ [Next]_vars => Inv'
BY FailuresStep, ScalarsStep, MacroLoopsStep, CallsStep DEF Inv

\* The loops and calls in progress, and where they are, are what the program
\* counter says; what a handler has yet to add is the rest of what its DIE
\* makes it add; no more calls fail than may.
THEOREM TypesCorrect == Spec => []TypeOK
BY InvInit, InvStep, InvIsTyped, PTL DEF Spec

-----------------------------------------------------------------------------
(* The source file of a symbol.                                            *)

\* While a unit is walked, its own list is in front of those of the others.
OwnListInFront ==
  /\ dbgSourceFiles \in Seq(Files)
  /\ pc = "walk" /\ ~ Failed(<< "srcfiles", unit >>) =>
       \A i \in DOMAIN Units[unit].files :
         i \in DOMAIN dbgSourceFiles /\ dbgSourceFiles[i] = Units[unit].files[i]

\* A handler that adds symbols knows the version of its DIE.
VersionIsKnown ==
  AtDie("handle") /\ Top.adds # << >> /\ ~ Failed(<< "version", Die >>) =>
    dwarfVersion = Units[unit].version

FilesInv == Inv /\ OwnListInFront /\ VersionIsKnown
            /\ IsSequence(symbols) /\ SymbolFilesAreTheirUnits

LEMMA FilesInvInit == Init => FilesInv
<1> SUFFICES ASSUME Init PROVE FilesInv
  OBVIOUS
<1>1. dbgSourceFiles \in Seq(Files) /\ symbols \in Seq({}) /\ DOMAIN symbols = {}
  BY EmptySequences DEF Init
<1>2. pc # "walk"
  BY DEF Init
<1>3. QED
  BY <1>1, <1>2, InvInit
     DEF FilesInv, OwnListInFront, VersionIsKnown, AtDie, IsSequence, SymbolFilesAreTheirUnits

LEMMA OwnListStep == ASSUME FilesInv, [Next]_vars PROVE OwnListInFront'
<1> USE DEF Goto
<1>0. OwnListInFront /\ FailedGrows /\ Scalars
  BY FailuresStep DEF FilesInv, Inv
<1>1. ASSUME UNCHANGED dbgSourceFiles, pc' = "walk" => pc = "walk" /\ UNCHANGED unit
      PROVE  OwnListInFront'
  BY <1>0, <1>1 DEF OwnListInFront, FailedGrows
<1>2. CASE Open \/ InitDwarf \/ CheckEndianness \/ Write
  BY <1>1, <1>2 DEF Open, InitDwarf, CheckEndianness, Write, walkVars
<1>3. CASE ReadSection \/ ReadElfSymbol \/ EndSections
  BY <1>1, <1>3 DEF ReadSection, ReadElfSymbol, EndSections, AddElfSymbol, walkVars
<1>4. CASE NextUnit \/ HeaderFails \/ EndUnits
  BY <1>1, <1>4 DEF NextUnit, HeaderFails, EndUnits
<1>5. CASE DefineMacro \/ ImportMacros \/ OtherOp \/ MacroOpFails \/ EndMacroLoop
  BY <1>1, <1>5 DEF DefineMacro, ImportMacros, OtherOp, MacroOpFails, EndMacroLoop,
       AtOp, macroRest
<1>6. CASE VisitDie \/ HandleDie \/ VisitChildren \/ NextSibling \/ RestartAtRoot
  BY <1>1, <1>6 DEF VisitDie, HandleDie, VisitChildren, NextSibling, RestartAtRoot,
       AtDie, walkRest
<1>7. CASE UNCHANGED vars
  BY <1>1, <1>7 DEF vars, walkVars
<1>8. CASE ReadSourceFiles
  <2>1. unit' = unit /\ unit \in 1 .. Len(Units)
    BY <1>0, <1>8, LensAreNat DEF ReadSourceFiles, walkRest, Scalars
  <2>2. Units[unit].files \in Seq(Files)
    BY <2>1, UnitProperties
  <2>3. CASE Fail("srcfiles", unit) /\ UNCHANGED dbgSourceFiles
    <3>1. Failed(<< "srcfiles", unit >>)'
      BY <2>1, <2>3, FailureIsKept DEF FilesInv, Inv
    <3>2. QED
      BY <1>0, <2>1, <2>3, <3>1 DEF OwnListInFront
  <2>4. CASE dbgSourceFiles' = Units[unit].files \o dbgSourceFiles
    <3> DEFINE own == Units[unit].files
    <3>1. own \in Seq(Files) /\ dbgSourceFiles \in Seq(Files)
      BY <1>0, <2>2 DEF OwnListInFront
    <3>2. dbgSourceFiles' = own \o dbgSourceFiles
      BY <2>4
    <3> HIDE DEF own
    <3>3. /\ dbgSourceFiles' \in Seq(Files)
          /\ Len(dbgSourceFiles') = Len(own) + Len(dbgSourceFiles)
          /\ \A i \in 1 .. Len(own) + Len(dbgSourceFiles) :
               dbgSourceFiles'[i] = IF i <= Len(own) THEN own[i]
                                    ELSE dbgSourceFiles[i - Len(own)]
      BY <3>1, <3>2, ConcatProperties
    <3>4. /\ DOMAIN own = 1 .. Len(own) /\ Len(own) \in Nat /\ Len(dbgSourceFiles) \in Nat
          /\ DOMAIN dbgSourceFiles' = 1 .. Len(dbgSourceFiles')
      BY <3>1, <3>3, LenProperties
    <3>5. \A i \in DOMAIN own : i \in DOMAIN dbgSourceFiles' /\ dbgSourceFiles'[i] = own[i]
      BY <3>3, <3>4
    <3>6. QED
      BY <2>1, <3>3, <3>5 DEF OwnListInFront, own
  <2>5. QED
    BY <1>8, <2>3, <2>4 DEF ReadSourceFiles
<1>9. QED
  BY <1>2, <1>3, <1>4, <1>5, <1>6, <1>7, <1>8 DEF Next

LEMMA VersionStep == ASSUME FilesInv, [Next]_vars PROVE VersionIsKnown'
<1> USE DEF Goto
<1>0. VersionIsKnown /\ FailedGrows /\ Scalars /\ Inv
  BY FailuresStep DEF FilesInv, Inv
<1>1. ASSUME ~ (pc' = "walk" /\ Top'.i # 0 /\ Top'.phase = "handle" /\ Top'.adds # << >>)
      PROVE  VersionIsKnown'
  BY <1>1 DEF VersionIsKnown, AtDie
<1>2. CASE Open \/ InitDwarf \/ CheckEndianness \/ Write
  BY <1>1, <1>2 DEF Open, InitDwarf, CheckEndianness, Write
<1>3. CASE ReadSection \/ ReadElfSymbol \/ EndSections
  BY <1>1, <1>3 DEF ReadSection, ReadElfSymbol, EndSections, AddElfSymbol
<1>4. CASE NextUnit \/ HeaderFails \/ EndUnits
  BY <1>1, <1>4 DEF NextUnit, HeaderFails, EndUnits
<1>5. CASE DefineMacro \/ ImportMacros \/ OtherOp \/ MacroOpFails \/ EndMacroLoop
  BY <1>1, <1>5 DEF DefineMacro, ImportMacros, OtherOp, MacroOpFails, EndMacroLoop, AtOp
<1>6. CASE ReadSourceFiles
  BY <1>0, <1>1, <1>6, ReadSourceFilesCalls
<1>7. CASE VisitChildren
  BY <1>0, <1>1, <1>7, VisitChildrenCalls
<1>8. CASE NextSibling
  <2>1. Calls' /\ (stack' # << >> => Top'.phase # "handle")
    BY <1>0, <1>8, NextSiblingCalls
  <2>2. pc' = "walk" => stack' # << >>
    BY <2>1 DEF Calls
  <2>3. QED
    BY <1>1, <2>1, <2>2
<1>9. ASSUME pc = "walk", UNCHANGED << unit, dwarfVersion >>,
             Top.phase = "handle", Top.i # 0, Top.adds # << >>,
             Top'.dies = Top.dies, Top'.i = Top.i
      PROVE  VersionIsKnown'
  <2>1. Die' = Die
    BY <1>9 DEF Die
  <2>2. ~ Failed(<< "version", Die >>)' => ~ Failed(<< "version", Die >>)
    BY <1>0, <2>1 DEF FailedGrows
  <2>3. QED
    BY <1>0, <1>9, <2>1, <2>2 DEF VersionIsKnown, AtDie
<1>10. CASE RestartAtRoot
  <2>1. Top.i = 0
    BY <1>10 DEF RestartAtRoot
  <2>2. CASE stack' = stack
    BY <1>1, <2>1, <2>2 DEF Top
  <2>3. CASE stack' # stack
    BY <1>0, <1>1, <1>10, <2>3, RestartAtRootCalls
  <2>4. QED
    BY <2>2, <2>3
<1>11. CASE HandleDie
  <2>1. /\ pc = "walk" /\ UNCHANGED << unit, dwarfVersion >>
        /\ Top.phase = "handle" /\ Top.i # 0 /\ Top.adds # << >>
    BY <1>11 DEF HandleDie, AtDie, walkRest
  <2>2. Top'.dies = Top.dies /\ Top'.i = Top.i
    BY <1>0, <1>11, HandleDieCalls DEF Top
  <2>3. QED
    BY <1>9, <2>1, <2>2
<1>12. CASE VisitDie
  <2>1. /\ Top'.dies = Top.dies /\ Top'.i = Top.i
        /\ \/ Top'.adds = << >> \/ dwarfVersion' = Units[unit].version
           \/ Fail("version", Die)
        /\ unit' = unit
    BY <1>0, <1>12, VisitDieCalls DEF VisitDie, walkRest
  <2>2. Die' = Die
    BY <2>1 DEF Die
  <2>3. CASE dwarfVersion' = Units[unit].version
    BY <2>1, <2>3 DEF VersionIsKnown
  <2>4. CASE Fail("version", Die)
    <3>1. Failed(<< "version", Die >>)'
      BY <1>0, <2>2, <2>4, FailureIsKept DEF Inv
    <3>2. QED
      BY <3>1 DEF VersionIsKnown
  <2>5. CASE Top'.adds = << >>
    BY <1>1, <2>5
  <2>6. QED
    BY <2>1, <2>3, <2>4, <2>5
<1>13. CASE UNCHANGED vars
  <2>1. UNCHANGED << pc, stack, unit, dwarfVersion, failed >>
    BY <1>13 DEF vars, walkVars
  <2>2. QED
    BY <1>0, <2>1 DEF VersionIsKnown, AtDie, Top, Die, Failed
<1>14. QED
  BY <1>2, <1>3, <1>4, <1>5, <1>6, <1>7, <1>8, <1>10, <1>11, <1>12, <1>13 DEF Next

\* The symbol that a handler adds, and those that were there.
LEMMA SymbolsStep ==
  ASSUME FilesInv, [Next]_vars
  PROVE  IsSequence(symbols') /\ SymbolFilesAreTheirUnits'
<1> USE DEF Goto
<1>0. /\ IsSequence(symbols) /\ SymbolFilesAreTheirUnits /\ FailedGrows
      /\ OwnListInFront /\ VersionIsKnown
  BY FailuresStep DEF FilesInv, Inv
<1>1. ASSUME UNCHANGED symbols
      PROVE  IsSequence(symbols') /\ SymbolFilesAreTheirUnits'
  BY <1>0, <1>1 DEF SymbolFilesAreTheirUnits, FailedGrows
<1>2. CASE Open \/ InitDwarf \/ CheckEndianness \/ Write
  BY <1>1, <1>2 DEF Open, InitDwarf, CheckEndianness, Write, walkVars
<1>3. CASE ReadSection \/ ReadElfSymbol \/ EndSections
  BY <1>1, <1>3 DEF ReadSection, ReadElfSymbol, EndSections, walkVars
<1>4. CASE NextUnit \/ HeaderFails \/ EndUnits
  BY <1>1, <1>4 DEF NextUnit, HeaderFails, EndUnits
<1>5. CASE DefineMacro \/ ImportMacros \/ OtherOp \/ MacroOpFails \/ EndMacroLoop
  BY <1>1, <1>5 DEF DefineMacro, ImportMacros, OtherOp, MacroOpFails, EndMacroLoop, macroRest
<1>6. CASE ReadSourceFiles \/ VisitDie \/ VisitChildren \/ NextSibling \/ RestartAtRoot
  BY <1>1, <1>6 DEF ReadSourceFiles, VisitDie, VisitChildren, NextSibling, RestartAtRoot
<1>7. CASE UNCHANGED vars
  BY <1>1, <1>7 DEF vars, walkVars
<1>8. CASE HandleDie
  <2>1. CASE UNCHANGED symbols
    BY <1>1, <2>1
  <2>2. ASSUME NEW a, symbols' = Append(symbols, NewSymbol(a))
        PROVE  IsSequence(symbols') /\ SymbolFilesAreTheirUnits'
    <3> DEFINE y == NewSymbol(a)
    <3>1. UNCHANGED unit /\ pc = "walk" /\ AtDie("handle") /\ Top.adds # << >>
      BY <1>8 DEF HandleDie, walkRest, AtDie
    <3>2. ASSUME ~ Missing(a.number),
                 Position(Units[unit].version, a.number) \in DOMAIN Units[unit].files,
                 ~ Failed(<< "srcfiles", unit >>), ~ Failed(<< "version", Die >>)
          PROVE  SourceFile(a.number)
                   = Units[unit].files[Position(Units[unit].version, a.number)]
      <4>1. dwarfVersion = Units[unit].version
        BY <1>0, <3>1, <3>2 DEF VersionIsKnown
      <4>2. \A i \in DOMAIN Units[unit].files : dbgSourceFiles[i] = Units[unit].files[i]
        BY <1>0, <3>1, <3>2 DEF OwnListInFront
      <4>3. QED
        BY <3>2, <4>1, <4>2 DEF SourceFile
    <3>3. y.file = SourceFile(a.number) /\ y.add = a /\ y.die = Die /\ y.unit = unit
      BY DEF NewSymbol
    <3> HIDE DEF y
    <3>4. /\ IsSequence(symbols') /\ DOMAIN symbols' = DOMAIN symbols \cup {Len(symbols) + 1}
          /\ \A k \in DOMAIN symbols : symbols'[k] = symbols[k]
          /\ symbols'[Len(symbols) + 1] = y
      BY <1>0, <2>2, AppendedSequence DEF y
    <3>5. \A x : Failed(x) => Failed(x)'
      BY <1>0 DEF FailedGrows
    <3>6. ASSUME NEW k \in DOMAIN symbols',
                 LET s == symbols'[k]
                 IN  /\ ~ Missing(s.add.number)
                     /\ Position(Units[s.unit].version, s.add.number)
                          \in DOMAIN Units[s.unit].files
                     /\ ~ Failed(<< "srcfiles", s.unit >>)
                     /\ ~ Failed(<< "version", s.die >>)
          PROVE  LET s == symbols'[k]
                 IN  s.file = Units[s.unit].files[Position(Units[s.unit].version, s.add.number)]
      <4>1. CASE k \in DOMAIN symbols
        BY <1>0, <3>4, <3>6, <4>1 DEF SymbolFilesAreTheirUnits
      <4>2. CASE symbols'[k] = y
        BY <3>2, <3>3, <3>6, <4>2
      <4>3. QED
        BY <3>4, <4>1, <4>2
    <3>7. SymbolFilesAreTheirUnits'
      BY <3>5, <3>6 DEF SymbolFilesAreTheirUnits
    <3>8. QED
      BY <3>4, <3>7
  <2>3. UNCHANGED symbols \/ \E a : AddSymbol(a)
    BY <1>8 DEF HandleDie
  <2>4. QED
    BY <2>1, <2>2, <2>3 DEF AddSymbol
<1>9. QED
  BY <1>2, <1>3, <1>4, <1>5, <1>6, <1>7, <1>8 DEF Next

LEMMA FilesInvStep == FilesInv /\ [Next]_vars => FilesInv'
BY InvStep, OwnListStep, VersionStep, SymbolsStep DEF FilesInv

\* The source file of a symbol is the one that its own compilation unit means
\* by the number, though the lists of all units are put into one
\* (getdbgSourceFiles and getdbgSourceFile, Juicer.cpp:374 and 5462).
THEOREM SourceFiles == Spec => []SymbolFilesAreTheirUnits
<1>1. FilesInv => SymbolFilesAreTheirUnits
  BY DEF FilesInv
<1>2. QED
  BY <1>1, FilesInvInit, FilesInvStep, PTL DEF Spec

-----------------------------------------------------------------------------
(* The walk over the units: what its calls have done so far.               *)

\* The DIEs of a unit that were visited, or missed for a failed call.
Accounted(u) ==
  { d \in DOMAIN Dies :
      \/ d \in Range(seen)
      \/ Failed(<< "tag", d >>) \/ Failed(<< "top_tag", d >>)
      \/ \E a \in DiesOf(u) \ {d} :
           /\ d \in Below[a]
           /\ Failed(<< "child", a >>) \/ Failed(<< "top_child", a >>) }

\* A call in the tree of DIE r, when R are the DIEs accounted for: all below
\* the DIEs it has passed are, and so is the DIE it is at, once visited.
CallWalks(f, r, R) ==
  /\ \A j \in 1 .. Len(f.dies) : f.dies[j] \in Below[r]
  /\ f.i # 0 => /\ \A j \in 1 .. f.i - 1 : Below[f.dies[j]] \subseteq R
                /\ f.phase # "visit" => f.dies[f.i] \in R
  /\ f.i = 0 => ~ f.ok

\* Call g was made for the children of the DIE that call f is at: it goes
\* through these, or, after an error, through the whole tree.
MadeFor(g, f, r) ==
  f.i # 0 /\ (g.i = 0 \/ g.dies = << r >> \/ g.dies = Dies[f.dies[f.i]].children)

CallsWalk(q, r, R) ==
  /\ \A k \in DOMAIN q : CallWalks(q[k], r, R)
  /\ \A k \in DOMAIN q : k # 1 => MadeFor(q[k - 1], q[k], r)

\* The outermost call tells readCUList whether the walk failed.
Outermost(f, r, fails) == /\ f.i # 0 => f.dies = << r >>
                          /\ f.ok <=> ~ fails

Walks(u) ==
  /\ CallsWalk(stack, Units[u].root, Accounted(u))
  /\ Top.i # 0 /\ Top.phase = "sibling" => Below[Die] \subseteq Accounted(u)
  /\ Outermost(stack[Len(stack)], Units[u].root, WalkFails(u))

WalkInv == pc = "walk" => Walks(unit)

Clean(u) == ~ UnitFails(u) /\ ~ WalkFails(u)

\* Where readCUList is, its result says whether a unit failed so far.
ResultInv ==
  /\ pc \in {"main", "init", "sections", "endianness"} => unit = 0 /\ return_value = "OK"
  /\ pc \in {"macros", "files", "walk"} =>
       return_value = "OK" /\ ~ UnitFails(unit) /\ \A v \in 1 .. unit - 1 : Clean(v)
  /\ pc \in {"macros", "files"} => ~ WalkFails(unit)
  /\ pc = "headers" /\ return_value = "OK" => \A v \in 1 .. unit : Clean(v)
  /\ return_value = "ERROR" =>
       UnitFails(unit + 1) \/ \E v \in 1 .. unit : ~ Clean(v)
  /\ \A v \in DOMAIN Units : v > unit =>
       ~ WalkFails(v) /\ (UnitFails(v) => v = unit + 1 /\ return_value = "ERROR")

SeenInv ==
  \A k \in DOMAIN seen : \E u \in 1 .. unit :
    Walked(u) /\ seen[k] \in DiesOf(u) /\ (pc = "macros" => u # unit)

DoneInv ==
  /\ \A u \in 1 .. unit :
       Walked(u) /\ (u = unit => pc \notin {"macros", "files", "walk", "aborted"})
         => DiesOf(u) \subseteq Accounted(u)
  /\ written \/ pc = "write" => unit = Len(Units) /\ pc \in {"write", "exit"}

UnitsInv == WalkInv /\ ResultInv /\ SeenInv /\ DoneInv

-----------------------------------------------------------------------------
(* The DIEs below a DIE.                                                   *)

LEMMA BelowProperties ==
  ASSUME NEW d \in DOMAIN Dies
  PROVE  /\ Below[d] \subseteq DOMAIN Dies /\ d \in Below[d]
         /\ \A x \in Below[d] : \A j \in 1 .. Len(Dies[x].children) :
              Dies[x].children[j] \in Below[d]
<1> DEFINE Closed(S) == \A e \in S : Range(Dies[e].children) \subseteq S
<1>1. Below[d] = {x \in DOMAIN Dies : \A S \in SUBSET DOMAIN Dies : d \in S /\ Closed(S) => x \in S}
  BY DEF Below
<1>2. ASSUME NEW x \in Below[d], NEW j \in 1 .. Len(Dies[x].children)
      PROVE  Dies[x].children[j] \in Below[d]
  <2> DEFINE c == Dies[x].children[j]
  <2>1. x \in DOMAIN Dies /\ Dies[x].children \in Seq(DOMAIN Dies)
    BY <1>1, <1>2, DieProperties
  <2>2. c \in DOMAIN Dies /\ c \in Range(Dies[x].children)
    BY <2>1, <1>2, ElementOfSeq, LenProperties DEF Range
  <2> HIDE DEF c
  <2>3. ASSUME NEW S \in SUBSET DOMAIN Dies, d \in S, Closed(S) PROVE c \in S
    BY <1>1, <1>2, <2>2, <2>3
  <2> HIDE DEF Closed
  <2>4. c \in Below[d]
    BY <1>1, <2>2, <2>3
  <2>5. QED
    BY <2>4 DEF c
<1> HIDE DEF Closed
<1>3. QED
  BY <1>1, <1>2

\* It is the least such set.
LEMMA BelowIsLeast ==
  ASSUME NEW d \in DOMAIN Dies, NEW S, S \subseteq DOMAIN Dies, d \in S,
         \A e \in S : \A j \in 1 .. Len(Dies[e].children) : Dies[e].children[j] \in S
  PROVE  Below[d] \subseteq S
<1>1. ASSUME NEW e \in S PROVE Range(Dies[e].children) \subseteq S
  <2>1. Dies[e].children \in Seq(DOMAIN Dies)
    BY DieProperties
  <2>2. DOMAIN Dies[e].children = 1 .. Len(Dies[e].children)
    BY <2>1, LenProperties
  <2>3. QED
    BY <2>2 DEF Range
<1>2. QED
  BY <1>1 DEF Below

LEMMA BelowIsTransitive ==
  ASSUME NEW d \in DOMAIN Dies, NEW x \in Below[d]
  PROVE  x \in DOMAIN Dies /\ Below[x] \subseteq Below[d]
BY BelowProperties, BelowIsLeast

\* A DIE below another is that DIE or below one of its children.
LEMMA BelowChildren ==
  ASSUME NEW d \in DOMAIN Dies, NEW x \in Below[d], x # d
  PROVE  \E j \in 1 .. Len(Dies[d].children) : x \in Below[Dies[d].children[j]]
<1> DEFINE kids == Dies[d].children
           S == {y \in DOMAIN Dies : y = d \/ \E j \in 1 .. Len(kids) : y \in Below[kids[j]]}
<1>1. \A j \in 1 .. Len(kids) : kids[j] \in DOMAIN Dies
  BY DieProperties, ElementOfSeq
<1>2. ASSUME NEW e \in S, NEW i \in 1 .. Len(Dies[e].children)
      PROVE  Dies[e].children[i] \in S
  <2>1. Dies[e].children[i] \in DOMAIN Dies
    BY DieProperties, ElementOfSeq
  <2>2. CASE e = d
    <3>1. Dies[e].children[i] \in Below[kids[i]] /\ i \in 1 .. Len(kids)
      BY <2>1, <2>2, BelowProperties
    <3>2. QED
      BY <2>1, <3>1
  <2>3. CASE e # d
    <3>1. PICK j \in 1 .. Len(kids) : e \in Below[kids[j]]
      BY <2>3
    <3>2. Dies[e].children[i] \in Below[kids[j]]
      BY <1>1, <3>1, BelowProperties
    <3>3. QED
      BY <2>1, <3>2
  <2>4. QED
    BY <2>2, <2>3
<1>3. S \subseteq DOMAIN Dies /\ d \in S
  OBVIOUS
<1> HIDE DEF S
<1>4. Below[d] \subseteq S
  BY <1>2, <1>3, BelowIsLeast
<1>5. x \in S
  BY <1>4
<1>6. QED
  BY <1>5 DEF S

-----------------------------------------------------------------------------
(* Failures.                                                               *)

UnitCalls == {"header", "cu_die", "last_macro_op"}
TopCalls  == {"top_offset", "top_tag", "top_child", "top_sibling"}

LEMMA NewFailure ==
  ASSUME Failures, NEW call, NEW where, Fail(call, where)
  PROVE  /\ \A x : Failed(x)' <=> Failed(x) \/ x = << call, where >>
         /\ \A v : UnitFails(v)' <=> UnitFails(v) \/ (call \in UnitCalls /\ where = v)
         /\ \A v : WalkFails(v)' <=>
                     WalkFails(v) \/ (call \in TopCalls /\ where = Units[v].root)
<1> DEFINE e == << call, where >>
<1>1. failed' = Append(failed, e)
  BY DEF Fail
<1>2. \A x : Failed(x)' <=> Failed(x) \/ x = e
  <2> HIDE DEF e
  <2>1. /\ DOMAIN failed' = DOMAIN failed \cup {Len(failed) + 1}
        /\ \A k \in DOMAIN failed : failed'[k] = failed[k]
        /\ failed'[Len(failed) + 1] = e
    BY <1>1, AppendedSequence DEF Failures
  <2>2. Range(failed') = Range(failed) \cup {e}
    BY <2>1 DEF Range
  <2>3. QED
    BY <2>2 DEF Failed
<1>3. ASSUME NEW v
      PROVE  UnitFails(v)' <=> UnitFails(v) \/ (call \in UnitCalls /\ where = v)
  <2>1. UnitFails(v)' <=> \E c \in UnitCalls : Failed(<< c, v >>)'
    BY DEF UnitFails, UnitCalls
  <2>2. UnitFails(v) <=> \E c \in UnitCalls : Failed(<< c, v >>)
    BY DEF UnitFails, UnitCalls
  <2>3. \A c : Failed(<< c, v >>)' <=> Failed(<< c, v >>) \/ (c = call /\ v = where)
    BY <1>2
  <2>4. QED
    BY <2>1, <2>2, <2>3
<1>4. ASSUME NEW v
      PROVE  WalkFails(v)' <=> WalkFails(v) \/ (call \in TopCalls /\ where = Units[v].root)
  <2>1. WalkFails(v)' <=> \E c \in TopCalls : Failed(<< c, Units[v].root >>)'
    BY DEF WalkFails, TopCalls
  <2>2. WalkFails(v) <=> \E c \in TopCalls : Failed(<< c, Units[v].root >>)
    BY DEF WalkFails, TopCalls
  <2>3. \A c : Failed(<< c, Units[v].root >>)' <=>
                 Failed(<< c, Units[v].root >>) \/ (c = call /\ Units[v].root = where)
    BY <1>2
  <2>4. QED
    BY <2>1, <2>2, <2>3
<1>5. QED
  BY <1>2, <1>3, <1>4

LEMMA NoFailure ==
  ASSUME UNCHANGED failed
  PROVE  /\ \A x : Failed(x)' <=> Failed(x)
         /\ \A v : UnitFails(v)' <=> UnitFails(v)
         /\ \A v : WalkFails(v)' <=> WalkFails(v)
BY DEF Failed, UnitFails, WalkFails

LEMMA LevelCalls ==
  /\ AtTop => /\ Level("offset") = "top_offset" /\ Level("tag") = "top_tag"
              /\ Level("child") = "top_child" /\ Level("sibling") = "top_sibling"
  /\ ~ AtTop => /\ Level("offset") = "offset" /\ Level("tag") = "tag"
                /\ Level("child") = "child" /\ Level("sibling") = "sibling"
BY DEF Level

-----------------------------------------------------------------------------
(* Sequences of calls.                                                     *)

\* What is accounted for stays so.
LEMMA CallsStillWalk ==
  ASSUME NEW q, NEW r, NEW R, NEW S, CallsWalk(q, r, R), R \subseteq S
  PROVE  CallsWalk(q, r, S)
<1>1. ASSUME NEW f, CallWalks(f, r, R) PROVE CallWalks(f, r, S)
  BY <1>1 DEF CallWalks
<1>2. QED
  BY <1>1 DEF CallsWalk

LEMMA PushedCallWalks ==
  ASSUME NEW q \in Seq(Frames), NEW r, NEW R, CallsWalk(q, r, R),
         NEW f \in Frames, CallWalks(f, r, R), q # << >> => MadeFor(f, q[1], r)
  PROVE  /\ CallsWalk(<< f >> \o q, r, R) /\ << f >> \o q \in Seq(Frames)
         /\ (<< f >> \o q)[1] = f /\ << f >> \o q # << >>
         /\ (<< f >> \o q)[Len(<< f >> \o q)] = IF q = << >> THEN f ELSE q[Len(q)]
<1> DEFINE p == << f >> \o q
<1>1. /\ p \in Seq(Frames) /\ p # << >> /\ Len(p) = Len(q) + 1 /\ p[1] = f
      /\ \A k \in 2 .. Len(q) + 1 : p[k] = q[k - 1]
  BY ConsProperties
<1> HIDE DEF p
<1>2. Len(q) \in Nat /\ DOMAIN q = 1 .. Len(q) /\ DOMAIN p = 1 .. Len(p)
      /\ (q = << >> <=> Len(q) = 0)
  BY <1>1, LenProperties, EmptySeq
<1>3. ASSUME NEW k \in DOMAIN p PROVE CallWalks(p[k], r, R)
  <2>1. CASE k = 1
    BY <1>1, <2>1
  <2>2. CASE k # 1
    <3>1. p[k] = q[k - 1] /\ k - 1 \in DOMAIN q
      BY <1>1, <1>2, <2>2
    <3>2. QED
      BY <3>1 DEF CallsWalk
  <2>3. QED
    BY <2>1, <2>2
<1>4. ASSUME NEW k \in DOMAIN p, k # 1 PROVE MadeFor(p[k - 1], p[k], r)
  <2>1. p[k] = q[k - 1] /\ k - 1 \in DOMAIN q
    BY <1>1, <1>2, <1>4
  <2>2. CASE k = 2
    <3>1. q # << >> /\ p[k - 1] = f /\ p[k] = q[1]
      BY <1>1, <1>2, <2>1, <2>2
    <3>2. QED
      BY <3>1
  <2>3. CASE k # 2
    <3>1. p[k - 1] = q[(k - 1) - 1] /\ k - 1 # 1
      BY <1>1, <1>2, <1>4, <2>3
    <3>2. QED
      BY <2>1, <3>1 DEF CallsWalk
  <2>4. QED
    BY <2>2, <2>3
<1>5. p[Len(p)] = IF q = << >> THEN f ELSE q[Len(q)]
  BY <1>1, <1>2
<1>6. QED
  BY <1>1, <1>3, <1>4, <1>5 DEF CallsWalk, p

LEMMA PoppedCallWalks ==
  ASSUME NEW q \in Seq(Frames), q # << >>, NEW r, NEW R, CallsWalk(q, r, R)
  PROVE  /\ CallsWalk(Tail(q), r, R) /\ Tail(q) \in Seq(Frames)
         /\ Len(Tail(q)) = Len(q) - 1 /\ Len(q) \in Nat \ {0}
         /\ (Tail(q) = << >>) <=> (Len(q) = 1)
         /\ Len(q) # 1 => /\ 2 \in DOMAIN q /\ Tail(q)[1] = q[2]
                          /\ Tail(q)[Len(Tail(q))] = q[Len(q)]
                          /\ CallWalks(q[2], r, R) /\ MadeFor(q[1], q[2], r)
<1> DEFINE t == Tail(q)
<1>1. /\ t \in Seq(Frames) /\ Len(t) = Len(q) - 1
      /\ \A k \in 1 .. Len(t) : t[k] = q[k + 1]
  BY HeadTailProperties
<1> HIDE DEF t
<1>2. /\ Len(q) \in Nat \ {0} /\ DOMAIN q = 1 .. Len(q) /\ DOMAIN t = 1 .. Len(t)
      /\ (t = << >> <=> Len(t) = 0)
  BY <1>1, LenProperties, EmptySeq
<1>3. ASSUME NEW k \in DOMAIN t PROVE CallWalks(t[k], r, R)
  <2>1. t[k] = q[k + 1] /\ k + 1 \in DOMAIN q
    BY <1>1, <1>2
  <2>2. QED
    BY <2>1 DEF CallsWalk
<1>4. ASSUME NEW k \in DOMAIN t, k # 1 PROVE MadeFor(t[k - 1], t[k], r)
  <2>1. t[k] = q[k + 1] /\ t[k - 1] = q[(k + 1) - 1] /\ k + 1 \in DOMAIN q /\ k + 1 # 1
    BY <1>1, <1>2, <1>4
  <2>2. QED
    BY <2>1 DEF CallsWalk
<1>5. ASSUME Len(q) # 1
      PROVE  /\ 2 \in DOMAIN q /\ t[1] = q[2] /\ t[Len(t)] = q[Len(q)]
             /\ CallWalks(q[2], r, R) /\ MadeFor(q[1], q[2], r)
  <2>1. 2 \in DOMAIN q /\ t[1] = q[2] /\ t[Len(t)] = q[Len(q)] /\ 2 # 1 /\ 2 - 1 = 1
    BY <1>1, <1>2, <1>5
  <2>2. QED
    BY <2>1 DEF CallsWalk
<1>6. QED
  BY <1>1, <1>2, <1>3, <1>4, <1>5 DEF CallsWalk, t

-----------------------------------------------------------------------------
(* The walk over a unit.                                                   *)

\* Whatever is done, what is accounted for stays so.
LEMMA AccountedGrows ==
  ASSUME Inv, [Next]_vars, NEW u
  PROVE  Accounted(u) \subseteq Accounted(u)'
<1>1. FailedGrows
  BY FailuresStep DEF Inv
<1>2. Range(seen) \subseteq Range(seen')
  <2>1. IsSequence(seen)
    BY DEF Inv, Scalars, IsSequence
  <2>2. CASE UNCHANGED seen
    BY <2>2
  <2>3. CASE seen' = Append(seen, Die)
    BY <2>1, <2>3, AppendedSequence
  <2>4. seen' = seen \/ seen' = Append(seen, Die)
    <3>1. CASE VisitDie
      BY <3>1 DEF VisitDie
    <3>2. CASE Open \/ InitDwarf \/ CheckEndianness \/ Write \/ ReadSection
               \/ ReadElfSymbol \/ EndSections \/ NextUnit \/ HeaderFails \/ EndUnits
      BY <3>2 DEF Open, InitDwarf, CheckEndianness, Write, ReadSection, ReadElfSymbol,
           EndSections, NextUnit, HeaderFails, EndUnits, walkVars
    <3>3. CASE DefineMacro \/ ImportMacros \/ OtherOp \/ MacroOpFails \/ EndMacroLoop
      BY <3>3 DEF DefineMacro, ImportMacros, OtherOp, MacroOpFails, EndMacroLoop, macroRest
    <3>4. CASE ReadSourceFiles \/ HandleDie \/ VisitChildren \/ NextSibling \/ RestartAtRoot
      BY <3>4 DEF ReadSourceFiles, HandleDie, VisitChildren, NextSibling, RestartAtRoot
    <3>5. CASE UNCHANGED vars
      BY <3>5 DEF vars, walkVars
    <3>6. QED
      BY <3>1, <3>2, <3>3, <3>4, <3>5 DEF Next
  <2>5. QED
    BY <2>2, <2>3, <2>4
<1>3. QED
  BY <1>1, <1>2 DEF Accounted, FailedGrows

\* The call under way moves on.
LEMMA MovedCallWalks ==
  ASSUME Inv, pc = "walk", NEW u, Walks(u), Accounted(u) \subseteq Accounted(u)',
         NEW f \in Frames, SetTop(f),
         CallWalks(f, Units[u].root, Accounted(u)'),
         f.i # 0 /\ f.phase = "sibling" => Below[f.dies[f.i]] \subseteq Accounted(u)',
         f.i = 0 \/ f.dies = << Units[u].root >> \/ (f.dies = Top.dies /\ Top.i # 0),
         AtTop => (f.ok <=> ~ WalkFails(u)'),
         ~ AtTop => (WalkFails(u)' <=> WalkFails(u))
  PROVE  Walks(u)'
<1> DEFINE r == Units[u].root
           S == Accounted(u)'
<1>1. stack \in Seq(Frames) /\ stack # << >> /\ Top = stack[1] /\ 1 \in DOMAIN stack
  BY TopProperties DEF Inv, Calls
<1>2. CallsWalk(stack, r, S)
  BY CallsStillWalk DEF Walks
<1> HIDE DEF S
<1>3. /\ CallsWalk(Tail(stack), r, S) /\ Tail(stack) \in Seq(Frames)
      /\ (Tail(stack) = << >>) <=> AtTop
      /\ ~ AtTop => /\ Tail(stack)[1] = stack[2] /\ MadeFor(Top, stack[2], r)
                    /\ Tail(stack)[Len(Tail(stack))] = stack[Len(stack)]
  BY <1>1, <1>2, PoppedCallWalks DEF AtTop
<1>4. Tail(stack) # << >> => MadeFor(f, Tail(stack)[1], r)
  BY <1>3 DEF MadeFor
<1>5. CallWalks(f, r, S)
  BY DEF S
<1>6. /\ CallsWalk(stack', r, S) /\ stack' # << >> /\ stack'[1] = f
      /\ stack' \in Seq(Frames)
      /\ stack'[Len(stack')] = IF AtTop THEN f ELSE stack[Len(stack)]
  <2> DEFINE t == Tail(stack)
  <2>1. stack' = << f >> \o t
    BY DEF SetTop
  <2>2. CallsWalk(t, r, S) /\ t \in Seq(Frames) /\ (t # << >> => MadeFor(f, t[1], r))
    BY <1>3, <1>4
  <2>3. (t = << >>) <=> AtTop
    BY <1>3
  <2>4. ~ AtTop => t[Len(t)] = stack[Len(stack)]
    BY <1>3
  <2> HIDE DEF t
  <2>5. /\ CallsWalk(stack', r, S) /\ stack' # << >> /\ stack'[1] = f
        /\ stack' \in Seq(Frames)
        /\ stack'[Len(stack')] = IF t = << >> THEN f ELSE t[Len(t)]
    BY <1>5, <2>1, <2>2, PushedCallWalks
  <2>6. stack'[Len(stack')] = IF AtTop THEN f ELSE stack[Len(stack)]
    <3>1. CASE AtTop
      BY <2>3, <2>5, <3>1
    <3>2. CASE ~ AtTop
      BY <2>3, <2>4, <2>5, <3>2
    <3>3. QED
      BY <3>1, <3>2
  <2>7. QED
    BY <2>5, <2>6
<1>7. Top' = f
  BY <1>6 DEF Top
<1>8. Outermost(stack[Len(stack)], r, WalkFails(u))
  BY DEF Walks
<1>9. Outermost(stack'[Len(stack')], r, WalkFails(u)')
  <2>1. CASE AtTop
    <3>1. Len(stack) = 1 /\ stack[Len(stack)] = Top
      BY <1>1, <2>1 DEF AtTop
    <3>2. Top.i # 0 => Top.dies = << r >>
      BY <1>8, <3>1 DEF Outermost
    <3>3. QED
      BY <1>6, <2>1, <3>2 DEF Outermost
  <2>2. CASE ~ AtTop
    BY <1>6, <1>8, <2>2 DEF Outermost
  <2>3. QED
    BY <2>1, <2>2
<1>10. Top'.i # 0 /\ Top'.phase = "sibling" => Below[Die]' \subseteq S
  BY <1>7 DEF Die, S
<1>11. QED
  BY <1>6, <1>9, <1>10 DEF Walks, S

\* What VisitDie, HandleDie and so on leave alone, with the unit by its number.
LEMMA WalkFacts ==
  ASSUME Inv, WalkInv, pc = "walk", NEW u, u = unit
  PROVE  /\ u \in 1 .. Len(Units) /\ u \in DOMAIN Units /\ Units[u].root \in DOMAIN Dies
         /\ Walks(u) /\ FrameOK(Top) /\ Top \in Frames /\ CallWalks(Top, Units[u].root, Accounted(u))
         /\ Top.i # 0 => /\ Top.i \in 1 .. Len(Top.dies) /\ Top.i \in Nat
                         /\ Len(Top.dies) \in Nat /\ Die = Top.dies[Top.i]
                         /\ Die \in DOMAIN Dies /\ Die \in Below[Units[u].root]
         /\ AtTop => /\ Top.ok <=> ~ WalkFails(u)
                     /\ Top.i # 0 => Die = Units[u].root /\ Top.dies = << Units[u].root >>
<1>1. u \in 1 .. Len(Units) /\ u \in DOMAIN Units
  BY LensAreNat DEF Inv, Scalars
<1>2. Units[u].root \in DOMAIN Dies
  BY <1>1, UnitProperties
<1>3. Walks(u)
  BY DEF WalkInv
<1>4. /\ Top = stack[1] /\ FrameOK(Top) /\ 1 \in DOMAIN stack
      /\ Top.i # 0 => Top.i \in 1 .. Len(Top.dies) /\ Die \in DOMAIN Dies
  BY TopProperties DEF Inv
<1>5. Top \in Frames /\ Top.i \in Nat /\ Top.dies \in Seq(DOMAIN Dies) /\ Len(Top.dies) \in Nat
  BY <1>4, LenProperties DEF FrameOK, Frames
<1>6. CallWalks(Top, Units[u].root, Accounted(u))
  BY <1>3, <1>4 DEF Walks, CallsWalk
<1>7. Top.i # 0 => Die = Top.dies[Top.i] /\ Die \in Below[Units[u].root]
  BY <1>4, <1>6 DEF CallWalks, Die
<1>8. ASSUME AtTop
      PROVE  /\ Top.ok <=> ~ WalkFails(u)
             /\ Top.i # 0 => Die = Units[u].root /\ Top.dies = << Units[u].root >>
  <2>1. stack[Len(stack)] = Top
    BY <1>4, <1>8 DEF AtTop
  <2>2. Outermost(Top, Units[u].root, WalkFails(u))
    BY <1>3, <2>1 DEF Walks
  <2>3. ASSUME Top.i # 0, Top.dies = << Units[u].root >> PROVE Die = Units[u].root
    <3>1. Len(Top.dies) = 1 /\ Top.dies[1] = Units[u].root
      BY <2>3
    <3>2. Top.i = 1
      BY <1>4, <2>3, <3>1
    <3>3. QED
      BY <1>7, <2>3, <3>1, <3>2
  <2>4. QED
    BY <2>2, <2>3 DEF Outermost
<1>9. QED
  BY <1>1, <1>2, <1>3, <1>4, <1>5, <1>6, <1>7, <1>8

\* A visited DIE, and one without a tag, is accounted for.
LEMMA VisitDieWalks == ASSUME Inv, WalkInv, VisitDie PROVE WalkInv'
<1> USE DEF Goto
<1>1. PICK u : u = unit
  OBVIOUS
<1>2. /\ pc = "walk" /\ Top.i # 0 /\ Top.phase = "visit" /\ u = unit' /\ [Next]_vars
      /\ Failures
  BY <1>1 DEF VisitDie, AtDie, walkRest, Next, Inv
<1> SUFFICES Walks(u)'
  BY <1>2 DEF WalkInv
<1>3. /\ u \in DOMAIN Units /\ Walks(u) /\ Top \in Frames /\ Die = Top.dies[Top.i]
      /\ CallWalks(Top, Units[u].root, Accounted(u))
      /\ Die \in DOMAIN Dies
      /\ AtTop => (Top.ok <=> ~ WalkFails(u)) /\ Die = Units[u].root
  BY <1>1, <1>2, WalkFacts
<1>4. Accounted(u) \subseteq Accounted(u)'
  BY <1>2, AccountedGrows
<1>5. "handle" \in Phases /\ Dies[Die].adds \in Seq(Adds) /\ FALSE \in BOOLEAN
      /\ Top.ok \in BOOLEAN /\ Top.i \in Nat /\ Top.adds \in Seq(Adds)
  BY <1>3, DieProperties DEF Phases, Frames
<1>6. ASSUME NEW f, NEW a, NEW o, Updated(f, Top, Top.i, "handle", a, o), SetTop(f),
             Die \in Accounted(u)',
             AtTop => (o <=> ~ WalkFails(u)'),
             ~ AtTop => (WalkFails(u)' <=> WalkFails(u))
      PROVE  Walks(u)'
  <2>1. CallWalks(f, Units[u].root, Accounted(u)')
    BY <1>2, <1>3, <1>4, <1>6 DEF Updated, CallWalks
  <2>2. f \in Frames /\ f.dies = Top.dies /\ f.phase = "handle" /\ f.ok = o
    BY <1>6 DEF Updated
  <2>3. QED
    BY <1>2, <1>3, <1>4, <1>6, <2>1, <2>2, MovedCallWalks
<1>7. ASSUME seen' = Append(seen, Die) PROVE Die \in Accounted(u)'
  <2>1. Die \in Range(seen')
    BY <1>7, AppendedSequence DEF Inv, Scalars, IsSequence
  <2>2. QED
    BY <1>3, <2>1 DEF Accounted
<1>8. CASE /\ SetTop([Top EXCEPT !.phase = "handle", !.adds = Dies[Die].adds])
           /\ seen' = Append(seen, Die)
           /\ UNCHANGED failed \/ Fail("version", Die)
  <2>1. WalkFails(u)' <=> WalkFails(u)
    BY <1>2, <1>8, NewFailure, NoFailure DEF TopCalls
  <2>2. Updated([Top EXCEPT !.phase = "handle", !.adds = Dies[Die].adds], Top, Top.i, "handle",
                Dies[Die].adds, Top.ok)
    BY <1>3, <1>5, FrameUpdates
  <2>3. QED
    BY <1>3, <1>6, <1>7, <1>8, <2>1, <2>2
<1>9. CASE SetTop([Top EXCEPT !.ok = FALSE]) /\ Fail(Level("offset"), Die)
  <2>1. /\ AtTop => WalkFails(u)'
        /\ ~ AtTop => (WalkFails(u)' <=> WalkFails(u))
    BY <1>2, <1>3, <1>9, NewFailure, LevelCalls DEF TopCalls
  <2> DEFINE f == [Top EXCEPT !.ok = FALSE]
  <2>2. Updated(f, Top, Top.i, "visit", Top.adds, FALSE)
    BY <1>2, <1>3 DEF Frames, Updated
  <2>3. SetTop(f)
    BY <1>9
  <2> HIDE DEF f
  <2>4. CallWalks(f, Units[u].root, Accounted(u)')
    BY <1>2, <1>3, <1>4, <2>2 DEF Updated, CallWalks
  <2>5. f \in Frames /\ f.dies = Top.dies /\ f.phase = "visit" /\ f.ok = FALSE
    BY <2>2 DEF Updated
  <2>6. QED
    BY <1>2, <1>3, <1>4, <2>1, <2>3, <2>4, <2>5, MovedCallWalks
<1>10. CASE /\ SetTop([Top EXCEPT !.phase = "handle", !.ok = FALSE])
            /\ Fail(Level("tag"), Die)
  <2>1. /\ AtTop => WalkFails(u)'
        /\ ~ AtTop => (WalkFails(u)' <=> WalkFails(u))
    BY <1>2, <1>3, <1>10, NewFailure, LevelCalls DEF TopCalls
  <2>2. Updated([Top EXCEPT !.phase = "handle", !.ok = FALSE], Top,
                Top.i, "handle", Top.adds, FALSE)
    BY <1>3, <1>5, FrameUpdates
  <2>3. PICK d : d = Die
    OBVIOUS
  <2>4. Failed(<< "tag", d >>)' \/ Failed(<< "top_tag", d >>)'
    BY <1>2, <1>10, <2>3, NewFailure, LevelCalls
  <2>5. d \in Accounted(u)'
    BY <1>3, <2>3, <2>4 DEF Accounted
  <2>6. QED
    BY <1>6, <1>10, <2>1, <2>2, <2>3, <2>5
<1>11. QED
  BY <1>8, <1>9, <1>10 DEF VisitDie

LEMMA HandleDieWalks == ASSUME Inv, WalkInv, HandleDie PROVE WalkInv'
<1> USE DEF Goto
<1>1. PICK u : u = unit
  OBVIOUS
<1>2. /\ pc = "walk" /\ Top.i # 0 /\ Top.phase = "handle" /\ u = unit' /\ [Next]_vars
      /\ UNCHANGED failed \/ Fail("handler", Die)
      /\ Failures
  BY <1>1 DEF HandleDie, AtDie, walkRest, Next, Inv
<1>3. CASE pc' = "aborted"
  BY <1>3 DEF WalkInv
<1>4. CASE SetTop([Top EXCEPT !.adds = Tail(@)])
  <2> SUFFICES Walks(u)'
    BY <1>2 DEF WalkInv
  <2> DEFINE f == [Top EXCEPT !.adds = Tail(Top.adds)]
  <2>1. /\ Walks(u) /\ Top \in Frames /\ CallWalks(Top, Units[u].root, Accounted(u))
        /\ AtTop => (Top.ok <=> ~ WalkFails(u))
        /\ FrameOK(Top) /\ Die \in DOMAIN Dies
    BY <1>1, <1>2, WalkFacts
  <2>2. Accounted(u) \subseteq Accounted(u)'
    BY <1>2, AccountedGrows
  <2>3. WalkFails(u)' <=> WalkFails(u)
    BY <1>2, NoFailure, NewFailure DEF TopCalls
  <2>4. f \in Frames /\ f.dies = Top.dies /\ f.i = Top.i /\ f.phase = Top.phase /\ f.ok = Top.ok
    <3>1. Dies[Die].adds \in Seq(Adds) /\ RestOf(Top.adds, Dies[Die].adds)
      BY <1>2, <2>1, DieProperties DEF FrameOK, Die
    <3>2. Top.adds # << >>
      BY DEF HandleDie
    <3>3. Tail(Top.adds) \in Seq(Adds)
      BY <3>1, <3>2, RestProperties
    <3>4. QED
      BY <2>1, <3>3 DEF Frames
  <2>5. SetTop(f)
    BY <1>4
  <2> HIDE DEF f
  <2>6. CallWalks(f, Units[u].root, Accounted(u)')
    BY <2>1, <2>2, <2>4 DEF CallWalks
  <2>7. QED
    BY <1>2, <2>1, <2>2, <2>3, <2>4, <2>5, <2>6, MovedCallWalks
<1>5. QED
  BY <1>3, <1>4 DEF HandleDie

\* dwarf_child answers a child, none, or fails: then all below is lost.
LEMMA VisitChildrenWalks == ASSUME Inv, WalkInv, VisitChildren PROVE WalkInv'
<1>1. PICK u, d : u = unit /\ d = Die
  OBVIOUS
<1> DEFINE r == Units[u].root
           S == Accounted(u)'
           kids == Dies[d].children
<1>2. /\ pc = "walk" /\ Top.i # 0 /\ Top.phase = "handle" /\ Top.adds = << >>
      /\ u = unit' /\ [Next]_vars /\ Failures
  BY <1>1 DEF VisitChildren, AtDie, walkRest, Next, Inv
<1> SUFFICES Walks(u)'
  BY <1>2 DEF WalkInv
<1>3. /\ Walks(u) /\ Top \in Frames /\ CallWalks(Top, r, Accounted(u))
      /\ AtTop => (Top.ok <=> ~ WalkFails(u)) /\ d = r
      /\ Top.i \in 1 .. Len(Top.dies) /\ Top.i \in Nat /\ Len(Top.dies) \in Nat
      /\ d \in DOMAIN Dies /\ d = Top.dies[Top.i] /\ d \in Below[r] /\ r \in DOMAIN Dies
      /\ u \in DOMAIN Units
  BY <1>1, <1>2, WalkFacts
<1>4. Accounted(u) \subseteq S
  BY <1>2, AccountedGrows
<1>5. /\ kids \in Seq(DOMAIN Dies) /\ Len(kids) \in Nat
      /\ \A j \in 1 .. Len(kids) : kids[j] \in Below[r] /\ kids[j] \in DOMAIN Dies
  BY <1>3, DieProperties, LenProperties, BelowProperties, ElementOfSeq
<1>6. d \in Accounted(u)
  BY <1>2, <1>3 DEF CallWalks
<1>7. Below[d] \subseteq Below[r] /\ Below[d] \subseteq DOMAIN Dies
  BY <1>3, BelowIsTransitive, BelowProperties
<1>8. "sibling" \in Phases /\ FALSE \in BOOLEAN /\ Top.ok \in BOOLEAN /\ Top.i \in Nat
      /\ Top.adds \in Seq(Adds)
  BY <1>3 DEF Phases, Frames
<1>9. ASSUME NEW f, NEW o, Updated(f, Top, Top.i, "sibling", Top.adds, o)
      PROVE  CallWalks(f, r, S) /\ f.dies[f.i] = d /\ f.i # 0 /\ f \in Frames
             /\ f.dies = Top.dies /\ f.phase = "sibling" /\ f.ok = o
  <2>1. f.dies = Top.dies /\ f.i = Top.i /\ f \in Frames /\ f.phase = "sibling" /\ f.ok = o
    BY <1>9 DEF Updated
  <2>2. CallWalks(f, r, S)
    BY <1>2, <1>3, <1>4, <1>6, <2>1 DEF CallWalks
  <2>3. QED
    BY <1>2, <1>3, <2>1, <2>2
<1>10. CASE /\ SetTop([Top EXCEPT !.phase = "sibling", !.ok = FALSE])
            /\ Fail(Level("child"), Die)
  <2> DEFINE f == [Top EXCEPT !.phase = "sibling", !.ok = FALSE]
  <2>1. Updated(f, Top, Top.i, "sibling", Top.adds, FALSE) /\ SetTop(f)
    BY <1>3, <1>8, <1>10, FrameUpdates
  <2> HIDE DEF f
  <2>2. /\ CallWalks(f, r, S) /\ f.dies[f.i] = d /\ f.i # 0 /\ f \in Frames
        /\ f.dies = Top.dies /\ f.phase = "sibling" /\ f.ok = FALSE
    BY <1>9, <2>1
  <2>3. /\ AtTop => WalkFails(u)'
        /\ ~ AtTop => (WalkFails(u)' <=> WalkFails(u))
    BY <1>1, <1>2, <1>3, <1>10, NewFailure, LevelCalls DEF TopCalls
  <2>4. Failed(<< "child", d >>)' \/ Failed(<< "top_child", d >>)'
    BY <1>1, <1>2, <1>10, NewFailure, LevelCalls
  <2>5. ASSUME NEW x \in Below[d], x # d PROVE x \in S
    <3>1. d \in DiesOf(u) \ {x} /\ x \in DOMAIN Dies
      BY <1>3, <1>7, <2>5 DEF DiesOf
    <3>2. QED
      BY <2>4, <2>5, <3>1 DEF Accounted
  <2>6. Below[d] \subseteq S
    BY <1>4, <1>6, <2>5
  <2> HIDE DEF S
  <2>7. QED
    BY <1>2, <1>3, <1>4, <2>1, <2>2, <2>3, <2>6, MovedCallWalks DEF S
<1>11. CASE /\ stack' = (IF Dies[Die].children = << >> THEN << >>
                         ELSE << Frame(Dies[Die].children) >>)
                        \o << [Top EXCEPT !.phase = "sibling"] >> \o Tail(stack)
            /\ UNCHANGED failed
  <2> DEFINE f == [Top EXCEPT !.phase = "sibling"]
             q == << f >> \o Tail(stack)
             c == Frame(kids)
  <2>1. Updated(f, Top, Top.i, "sibling", Top.adds, Top.ok)
    BY <1>3, <1>8, FrameUpdates
  <2>2. stack' = ((IF kids = << >> THEN << >> ELSE << c >>) \o << f >>) \o Tail(stack)
    BY <1>1, <1>11
  <2> HIDE DEF f, c
  <2>3. /\ CallWalks(f, r, S) /\ f.dies[f.i] = d /\ f.i # 0 /\ f \in Frames
        /\ f.dies = Top.dies /\ f.phase = "sibling" /\ f.ok = Top.ok
    BY <1>9, <2>1
  <2>4. WalkFails(u)' <=> WalkFails(u)
    BY <1>11, NoFailure
  <2>5. /\ stack \in Seq(Frames) /\ stack # << >> /\ Top = stack[1] /\ 1 \in DOMAIN stack
    BY <1>2, TopProperties DEF Inv, Calls
  <2>6. Tail(stack) \in Seq(Frames) /\ << f >> \in Seq(Frames)
    BY <1>2, <2>3, TopProperties DEF Inv
  <2>7. CASE kids = << >>
    <3>1. stack' = q
      BY <2>2, <2>6, <2>7
    <3>2. SetTop(f)
      BY <3>1 DEF SetTop
    <3>3. Below[d] \subseteq S
      <4>1. Len(kids) = 0
        BY <2>7
      <4>2. \A x \in Below[d] : x = d
        BY <1>3, <4>1, BelowChildren
      <4>3. QED
        BY <1>4, <1>6, <4>2
    <3> HIDE DEF S
    <3>4. QED
      BY <1>2, <1>3, <1>4, <2>3, <2>4, <3>2, <3>3, MovedCallWalks DEF S
  <2>8. CASE kids # << >>
    <3>1. c \in Frames /\ c.dies = kids /\ c.i = 1 /\ c.phase = "visit" /\ c.ok = TRUE
      BY <1>5, <2>8, NewFrame DEF FrameOK, Frame, c
    <3>2. stack' = << c >> \o q
      <4>1. << c >> \in Seq(Frames)
        BY <3>1
      <4>2. QED
        BY <2>2, <2>6, <2>8, <4>1, ConcatAssociative
    <3>3. CallWalks(c, r, S)
      BY <1>5, <3>1 DEF CallWalks
    <3>4. /\ CallsWalk(q, r, S) /\ q \in Seq(Frames) /\ q # << >> /\ q[1] = f
          /\ q[Len(q)] = IF Tail(stack) = << >> THEN f ELSE Tail(stack)[Len(Tail(stack))]
      <4>1. CallsWalk(stack, r, S)
        BY <1>3, <1>4, CallsStillWalk DEF Walks
      <4>2. /\ CallsWalk(Tail(stack), r, S)
            /\ Tail(stack) # << >> => /\ Tail(stack)[1] = stack[2]
                                      /\ MadeFor(stack[1], stack[2], r)
        BY <2>5, <4>1, PoppedCallWalks
      <4>3. Tail(stack) # << >> => MadeFor(f, Tail(stack)[1], r)
        BY <1>2, <2>3, <2>5, <4>2 DEF MadeFor
      <4> HIDE DEF S
      <4>4. QED
        BY <2>3, <2>6, <4>2, <4>3, PushedCallWalks, ZenonT(40)
    <3>5. MadeFor(c, q[1], r)
      BY <2>3, <3>1, <3>4 DEF MadeFor
    <3> HIDE DEF S, q
    <3>6. /\ CallsWalk(stack', r, S) /\ stack' # << >> /\ stack'[1] = c
          /\ stack' \in Seq(Frames) /\ stack'[Len(stack')] = q[Len(q)]
      BY <3>1, <3>2, <3>3, <3>4, <3>5, PushedCallWalks
    <3>7. Top' = c
      BY <3>6 DEF Top
    <3>8. Outermost(q[Len(q)], r, WalkFails(u)')
      <4>1. Outermost(stack[Len(stack)], r, WalkFails(u))
        BY <1>3 DEF Walks
      <4>2. CASE Tail(stack) = << >>
        <5>1. Len(stack) = 1 /\ stack[Len(stack)] = Top
          BY <2>5, <4>2, <1>3, PoppedCallWalks DEF Walks
        <5>2. QED
          BY <1>2, <2>3, <2>4, <3>4, <4>1, <4>2, <5>1 DEF Outermost
      <4>3. CASE Tail(stack) # << >>
        <5>1. Tail(stack)[Len(Tail(stack))] = stack[Len(stack)]
          BY <2>5, <4>3, <1>3, PoppedCallWalks DEF Walks
        <5>2. QED
          BY <2>4, <3>4, <4>1, <4>3, <5>1 DEF Outermost
      <4>4. QED
        BY <4>2, <4>3
    <3>9. QED
      BY <3>1, <3>6, <3>7, <3>8 DEF Walks, S
  <2>9. QED
    BY <2>7, <2>8
<1>12. QED
  BY <1>10, <1>11 DEF VisitChildren

\* The next DIE, the end of the call, or a null DIE.
LEMMA NextSiblingWalks ==
  ASSUME Inv, WalkInv, NextSibling
  PROVE  /\ WalkInv'
         /\ pc' = "headers" => /\ DiesOf(unit) \subseteq Accounted(unit)'
                               /\ return_value' = (IF WalkFails(unit) THEN "ERROR" ELSE "OK")
<1> USE DEF Goto
<1>1. PICK u, d : u = unit /\ d = Die
  OBVIOUS
<1> DEFINE r == Units[u].root
           S == Accounted(u)'
<1>2. /\ pc = "walk" /\ Top.i # 0 /\ Top.phase = "sibling"
      /\ u = unit' /\ [Next]_vars /\ Failures
  BY <1>1 DEF NextSibling, AtDie, walkRest, Next, Inv
<1>3. /\ Walks(u) /\ Top \in Frames /\ CallWalks(Top, r, Accounted(u))
      /\ AtTop => (Top.ok <=> ~ WalkFails(u)) /\ d = r /\ Top.dies = << r >>
      /\ Top.i \in 1 .. Len(Top.dies) /\ Top.i \in Nat /\ Len(Top.dies) \in Nat
      /\ d \in DOMAIN Dies /\ d = Top.dies[Top.i] /\ d \in Below[r] /\ r \in DOMAIN Dies
      /\ u \in DOMAIN Units
  BY <1>1, <1>2, WalkFacts
<1>4. Accounted(u) \subseteq S
  BY <1>2, AccountedGrows
<1>5. Below[d] \subseteq S
  BY <1>1, <1>2, <1>3, <1>4 DEF Walks
<1>6. /\ "visit" \in Phases /\ FALSE \in BOOLEAN /\ Top.ok \in BOOLEAN /\ 0 \in Nat
      /\ Top.i + 1 \in Nat /\ Top.phase \in Phases
  BY <1>3 DEF Phases, Frames
<1>7. \A j \in 1 .. Top.i : Below[Top.dies[j]] \subseteq S
  BY <1>2, <1>3, <1>4, <1>5 DEF CallWalks
<1>8. stack \in Seq(Frames) /\ stack # << >> /\ Top = stack[1] /\ 1 \in DOMAIN stack
  BY <1>2, TopProperties DEF Inv, Calls
<1>9. CASE /\ Top.i < Len(Top.dies) /\ pc' = pc /\ UNCHANGED failed
           /\ SetTop([Top EXCEPT !.i = @ + 1, !.phase = "visit"])
  <2> DEFINE f == [Top EXCEPT !.i = Top.i + 1, !.phase = "visit"]
  <2>1. SetTop(f)
    BY <1>9
  <2>2. Top.adds \in Seq(Adds)
    BY <1>3 DEF Frames
  <2>3. Updated(f, Top, Top.i + 1, "visit", Top.adds, Top.ok)
    BY <1>3, <1>6, <2>2, FrameUpdates
  <2> HIDE DEF f, S
  <2>4. /\ f.dies = Top.dies /\ f.i = Top.i + 1 /\ f \in Frames /\ f.phase = "visit"
        /\ f.ok = Top.ok /\ f.i # 0
    BY <1>3, <2>3 DEF Updated
  <2>5. CallWalks(f, r, S)
    BY <1>3, <1>7, <2>4 DEF CallWalks
  <2>6. WalkFails(u)' <=> WalkFails(u)
    BY <1>9, NoFailure
  <2>7. Walks(u)'
    BY <1>2, <1>3, <1>4, <2>1, <2>4, <2>5, <2>6, MovedCallWalks DEF S
  <2>8. QED
    BY <1>2, <1>9, <2>7 DEF WalkInv
<1>10. CASE /\ Top.i = Len(Top.dies) /\ stack' = Tail(stack) /\ UNCHANGED failed
            /\ pc' = IF AtTop THEN "headers" ELSE "walk"
            /\ return_value' = IF ~ AtTop THEN return_value
                               ELSE IF Top.ok THEN "OK" ELSE "ERROR"
  <2>1. \A j \in 1 .. Len(Top.dies) : Below[Top.dies[j]] \subseteq S
    BY <1>7, <1>10
  <2>2. CallsWalk(stack, r, S)
    BY <1>3, <1>4, CallsStillWalk DEF Walks
  <2> HIDE DEF S
  <2>3. CASE AtTop
    <3>1. Below[r] \subseteq S
      BY <1>3, <1>5, <2>3
    <3>2. return_value' = IF WalkFails(u) THEN "ERROR" ELSE "OK"
      BY <1>3, <1>10, <2>3
    <3>3. pc' # "walk"
      BY <1>10, <2>3
    <3>4. DiesOf(u) \subseteq Accounted(u)'
      BY <3>1 DEF DiesOf, S
    <3>5. QED
      BY <1>1, <1>2, <3>2, <3>3, <3>4 DEF WalkInv, Accounted
  <2>4. CASE ~ AtTop
    <3> DEFINE g == stack[2]
               e == g.dies[g.i]
    <3>1. /\ CallsWalk(Tail(stack), r, S) /\ Tail(stack) \in Seq(Frames)
          /\ Tail(stack) # << >> /\ Tail(stack)[1] = g
          /\ Tail(stack)[Len(Tail(stack))] = stack[Len(stack)]
          /\ CallWalks(g, r, S) /\ MadeFor(Top, g, r) /\ 2 \in DOMAIN stack
      BY <1>8, <2>2, <2>4, PoppedCallWalks DEF AtTop
    <3>2. FrameOK(g) /\ g.phase = "sibling" /\ g.i # 0
      BY <3>1 DEF Inv, Calls, MadeFor
    <3> HIDE DEF g
    <3>3. /\ g.i \in 1 .. Len(g.dies) /\ g.dies \in Seq(DOMAIN Dies) /\ e \in DOMAIN Dies
          /\ e \in Below[r] /\ e \in S
      <4>1. g.i \in Nat /\ g.dies \in Seq(DOMAIN Dies) /\ g.i <= Len(g.dies)
        BY <3>2 DEF FrameOK, Frames
      <4>2. g.i \in 1 .. Len(g.dies)
        BY <3>2, <4>1, LenProperties
      <4>3. QED
        BY <3>1, <3>2, <4>1, <4>2, ElementOfSeq DEF CallWalks
    <3> HIDE DEF e
    <3>4. Below[e] \subseteq S
      <4>1. CASE Top.dies = << r >>
        <5>1. Len(Top.dies) = 1 /\ Top.dies[1] = r
          BY <4>1
        <5>2. Below[r] \subseteq S
          BY <2>1, <5>1
        <5>3. QED
          BY <1>3, <3>3, <5>2, BelowIsTransitive
      <4>2. CASE Top.dies = Dies[e].children
        <5>1. ASSUME NEW x \in Below[e], x # e PROVE x \in S
          <6>1. PICK j \in 1 .. Len(Dies[e].children) : x \in Below[Dies[e].children[j]]
            BY <3>3, <5>1, BelowChildren
          <6>2. QED
            BY <2>1, <4>2, <6>1
        <5>2. QED
          BY <3>3, <5>1
      <4>3. QED
        BY <1>2, <3>1, <4>1, <4>2 DEF MadeFor, e
    <3>5. Top' = g
      BY <1>10, <3>1 DEF Top
    <3>6. Top'.i # 0 /\ Top'.phase = "sibling" => Below[Die]' \subseteq S
      BY <3>4, <3>5 DEF Die, e
    <3>7. Outermost(stack'[Len(stack')], r, WalkFails(u)')
      BY <1>3, <1>10, <3>1, NoFailure DEF Walks, Outermost
    <3>8. CallsWalk(stack', r, S)
      BY <1>10, <3>1
    <3>9. Walks(u)'
      BY <3>6, <3>7, <3>8 DEF Walks, S
    <3>10. pc' # "headers"
      BY <1>10, <2>4
    <3>11. QED
      BY <1>2, <3>9, <3>10 DEF WalkInv
  <2>5. QED
    BY <2>3, <2>4
<1>11. CASE /\ SetTop([Top EXCEPT !.i = 0, !.ok = FALSE]) /\ pc' = pc
            /\ Fail(Level("sibling"), Die)
  <2> DEFINE f == [Top EXCEPT !.i = 0, !.ok = FALSE]
  <2>1. SetTop(f)
    BY <1>11
  <2>2. Top.adds \in Seq(Adds)
    BY <1>3 DEF Frames
  <2>3. Updated(f, Top, 0, Top.phase, Top.adds, FALSE)
    BY <1>3, <1>6, <2>2, FrameUpdates
  <2> HIDE DEF f, S
  <2>4. /\ f.dies = Top.dies /\ f.i = 0 /\ f \in Frames /\ f.ok = FALSE
    BY <2>3 DEF Updated
  <2>5. CallWalks(f, r, S)
    BY <1>3, <2>4 DEF CallWalks
  <2>6. /\ AtTop => WalkFails(u)'
        /\ ~ AtTop => (WalkFails(u)' <=> WalkFails(u))
    BY <1>1, <1>2, <1>3, <1>11, NewFailure, LevelCalls DEF TopCalls
  <2>7. Walks(u)'
    BY <1>2, <1>3, <1>4, <2>1, <2>4, <2>5, <2>6, MovedCallWalks DEF S
  <2>8. QED
    BY <1>2, <1>11, <2>7 DEF WalkInv
<1>12. QED
  BY <1>9, <1>10, <1>11 DEF NextSibling

\* After a null DIE the walk is begun again, at the level it was lost.
LEMMA RestartAtRootWalks == ASSUME Inv, WalkInv, RestartAtRoot PROVE WalkInv'
<1>1. PICK u : u = unit
  OBVIOUS
<1> DEFINE r == Units[u].root
           S == Accounted(u)'
           g == Frame(<< r >>)
<1>2. /\ pc = "walk" /\ Top.i = 0 /\ u = unit' /\ [Next]_vars /\ Failures
      /\ Scalars /\ unit # 0
  BY <1>1 DEF RestartAtRoot, walkRest, Next, Inv, Scalars
<1> SUFFICES Walks(u)'
  BY <1>2 DEF WalkInv
<1>3. /\ Walks(u) /\ Top \in Frames /\ CallWalks(Top, r, Accounted(u))
      /\ AtTop => (Top.ok <=> ~ WalkFails(u))
      /\ r \in DOMAIN Dies /\ u \in DOMAIN Units
  BY <1>1, <1>2, WalkFacts
<1>4. Accounted(u) \subseteq S
  BY <1>2, AccountedGrows
<1>5. ~ Top.ok
  BY <1>2, <1>3 DEF CallWalks
<1>6. CASE UNCHANGED stack /\ Fail(Level("sibling"), Units[unit].root)
  <2>1. /\ AtTop => WalkFails(u)'
        /\ ~ AtTop => (WalkFails(u)' <=> WalkFails(u))
    BY <1>1, <1>2, <1>6, NewFailure, LevelCalls DEF TopCalls
  <2>2. WalkFails(u)' <=> WalkFails(u)
    BY <1>3, <1>5, <2>1
  <2>3. CallsWalk(stack', r, S)
    BY <1>3, <1>4, <1>6, CallsStillWalk DEF Walks
  <2>4. Top' = Top
    BY <1>6 DEF Top
  <2>5. Outermost(stack'[Len(stack')], r, WalkFails(u)')
    BY <1>3, <1>6, <2>2 DEF Walks, Outermost
  <2>6. QED
    BY <1>2, <2>3, <2>4, <2>5 DEF Walks
<1>7. CASE SetTop([Frame(<< Units[unit].root >>) EXCEPT !.ok = FALSE]) /\ UNCHANGED failed
  <2> DEFINE f == [g EXCEPT !.ok = FALSE]
  <2>1. SetTop(f)
    BY <1>1, <1>7
  <2>2. g \in Frames /\ g.dies = << r >> /\ g.i = 1 /\ g.phase = "visit"
    BY <1>1, <1>2, RootFrame DEF Frame
  <2> HIDE DEF g
  <2>3. /\ f.dies = << r >> /\ f.i = 1 /\ f \in Frames /\ f.ok = FALSE /\ f.phase = "visit"
    BY <2>2 DEF Frames
  <2> HIDE DEF f, S
  <2>4. CallWalks(f, r, S)
    <3>1. r \in Below[r] /\ Len(<< r >>) = 1
      BY <1>3, BelowProperties
    <3>2. QED
      BY <2>3, <3>1 DEF CallWalks
  <2>5. WalkFails(u)' <=> WalkFails(u)
    BY <1>7, NoFailure
  <2>6. QED
    BY <1>2, <1>3, <1>4, <1>5, <2>1, <2>3, <2>4, <2>5, MovedCallWalks DEF S
<1>8. QED
  BY <1>6, <1>7 DEF RestartAtRoot

\* The walk begins at the CU DIE.
LEMMA ReadSourceFilesWalks ==
  ASSUME Inv, ReadSourceFiles, ~ WalkFails(unit) PROVE WalkInv'
<1>1. PICK u : u = unit
  OBVIOUS
<1> DEFINE r == Units[u].root
           S == Accounted(u)'
           f == Frame(<< r >>)
<1>2. u = unit' /\ Scalars /\ unit # 0 /\ Failures
  BY <1>1 DEF ReadSourceFiles, walkRest, Inv, Scalars
<1>3. /\ f \in Frames /\ f.dies = << r >> /\ f.i = 1 /\ f.phase = "visit" /\ f.ok = TRUE
      /\ u \in 1 .. Len(Units) /\ r \in DOMAIN Dies
  BY <1>1, <1>2, RootFrame, UnitProperties DEF Frame
<1>4. stack' = << f >>
  BY <1>1 DEF ReadSourceFiles
<1> HIDE DEF f, S
<1>5. DOMAIN << f >> = {1} /\ << f >>[1] = f /\ Len(<< f >>) = 1 /\ Head(<< f >>) = f
  BY <1>3
<1>6. CallWalks(f, r, S)
  <2>1. r \in Below[r] /\ Len(<< r >>) = 1 /\ << r >>[1] = r
    BY <1>3, BelowProperties
  <2>2. QED
    BY <1>3, <2>1 DEF CallWalks
<1>7. CallsWalk(stack', r, S)
  BY <1>4, <1>5, <1>6 DEF CallsWalk
<1>8. WalkFails(u)' <=> WalkFails(u)
  BY <1>2, NoFailure, NewFailure DEF ReadSourceFiles, TopCalls
<1>9. Outermost(stack'[Len(stack')], r, WalkFails(u)')
  BY <1>1, <1>3, <1>4, <1>5, <1>8 DEF Outermost
<1>10. Top' = f
  BY <1>4, <1>5 DEF Top
<1>11. Walks(u)'
  BY <1>3, <1>7, <1>9, <1>10 DEF Walks, S
<1>12. QED
  BY <1>2, <1>11 DEF WalkInv

LEMMA WalkStep == ASSUME Inv, WalkInv, ResultInv, [Next]_vars PROVE WalkInv'
<1> USE DEF Goto
<1>1. CASE pc' # "walk"
  BY <1>1 DEF WalkInv
<1>2. CASE Open \/ InitDwarf \/ CheckEndianness \/ Write
  BY <1>1, <1>2 DEF Open, InitDwarf, CheckEndianness, Write
<1>3. CASE ReadSection \/ ReadElfSymbol \/ EndSections
  BY <1>1, <1>3 DEF ReadSection, ReadElfSymbol, EndSections, AddElfSymbol
<1>4. CASE NextUnit \/ HeaderFails \/ EndUnits
  BY <1>1, <1>4 DEF NextUnit, HeaderFails, EndUnits
<1>5. CASE DefineMacro \/ ImportMacros \/ OtherOp \/ MacroOpFails \/ EndMacroLoop
  BY <1>1, <1>5 DEF DefineMacro, ImportMacros, OtherOp, MacroOpFails, EndMacroLoop, AtOp
<1>6. CASE ReadSourceFiles
  <2>1. ~ WalkFails(unit)
    BY <1>6 DEF ReadSourceFiles, ResultInv
  <2>2. QED
    BY <1>6, <2>1, ReadSourceFilesWalks
<1>7. CASE UNCHANGED vars
  <2>1. UNCHANGED << pc, stack, unit, failed, seen >>
    BY <1>7 DEF vars, walkVars
  <2>2. QED
    BY <2>1 DEF WalkInv, Walks, CallsWalk, Accounted, Failed, Top, Die, WalkFails
<1>8. QED
  BY <1>2, <1>3, <1>4, <1>5, <1>6, <1>7, VisitDieWalks, HandleDieWalks, VisitChildrenWalks,
     NextSiblingWalks, RestartAtRootWalks DEF Next

-----------------------------------------------------------------------------
(* The units that failed.                                                  *)

LEMMA StillFailed ==
  ASSUME Inv, [Next]_vars
  PROVE  \A v : (UnitFails(v) => UnitFails(v)') /\ (WalkFails(v) => WalkFails(v)')
                /\ (~ Clean(v) => ~ Clean(v)')
<1>1. FailedGrows
  BY FailuresStep DEF Inv
<1>2. ASSUME NEW v PROVE UnitFails(v) => UnitFails(v)'
  <2>1. \A c : Failed(<< c, v >>) => Failed(<< c, v >>)'
    BY <1>1 DEF FailedGrows
  <2>2. QED
    BY <2>1 DEF UnitFails
<1>3. ASSUME NEW v PROVE WalkFails(v) => WalkFails(v)'
  <2>1. \A c : Failed(<< c, Units[v].root >>) => Failed(<< c, Units[v].root >>)'
    BY <1>1 DEF FailedGrows
  <2>2. QED
    BY <2>1 DEF WalkFails
<1>4. QED
  BY <1>2, <1>3 DEF Clean

\* A walk only makes the walk of its own unit fail.
LEMMA WalkFailures ==
  ASSUME Inv, WalkInv,
         VisitDie \/ HandleDie \/ VisitChildren \/ NextSibling \/ RestartAtRoot
  PROVE  /\ \A v : UnitFails(v)' <=> UnitFails(v)
         /\ \A v \in DOMAIN Units : v # unit => (WalkFails(v)' <=> WalkFails(v))
         /\ unit' = unit /\ pc = "walk"
<1>1. pc = "walk" /\ unit' = unit /\ Failures
  BY DEF VisitDie, HandleDie, VisitChildren, NextSibling, RestartAtRoot, AtDie, walkRest, Inv
<1>2. PICK u : u = unit
  OBVIOUS
<1>3. u \in DOMAIN Units /\ (AtTop /\ Top.i # 0 => Die = Units[u].root)
  BY <1>1, <1>2, WalkFacts
<1>4. \A v \in DOMAIN Units : v # u => Units[v].root # Units[u].root
  BY <1>3, UnitsAssumption
<1>5. CASE UNCHANGED failed
  BY <1>1, <1>5, NoFailure
<1>6. CASE Fail("version", Die) \/ Fail("handler", Die)
  BY <1>1, <1>6, NewFailure DEF UnitCalls, TopCalls
<1>7. ASSUME NEW c \in {"offset", "tag", "child", "sibling"}, NEW w, Fail(Level(c), w),
             AtTop => w = Units[u].root
      PROVE  /\ \A v : UnitFails(v)' <=> UnitFails(v)
             /\ \A v \in DOMAIN Units : v # u => (WalkFails(v)' <=> WalkFails(v))
  <2>1. Level(c) \notin UnitCalls /\ (~ AtTop => Level(c) \notin TopCalls)
    BY LevelCalls DEF UnitCalls, TopCalls
  <2>2. QED
    BY <1>1, <1>4, <1>7, <2>1, NewFailure
<1>8. CASE VisitDie
  BY <1>1, <1>2, <1>3, <1>5, <1>6, <1>7, <1>8 DEF VisitDie, AtDie
<1>9. CASE HandleDie
  BY <1>5, <1>6, <1>9 DEF HandleDie
<1>10. CASE VisitChildren
  BY <1>1, <1>2, <1>3, <1>5, <1>7, <1>10 DEF VisitChildren, AtDie
<1>11. CASE NextSibling
  BY <1>1, <1>2, <1>3, <1>5, <1>7, <1>11 DEF NextSibling, AtDie
<1>12. CASE RestartAtRoot
  BY <1>1, <1>2, <1>5, <1>7, <1>12 DEF RestartAtRoot
<1>13. QED
  BY <1>8, <1>9, <1>10, <1>11, <1>12

LEMMA ResultStep == ASSUME Inv, WalkInv, ResultInv, [Next]_vars PROVE ResultInv'
<1> USE DEF Goto
<1>0. /\ Failures /\ Scalars /\ unit \in 0 .. Len(Units) /\ Len(Units) \in Nat
      /\ DOMAIN Units = 1 .. Len(Units)
  BY LensAreNat DEF Inv, Scalars
\* Steps in which nothing fails that counts here.
<1>1. ASSUME \A v : (UnitFails(v)' <=> UnitFails(v)) /\ (WalkFails(v)' <=> WalkFails(v)),
             UNCHANGED << unit, return_value >>,
             \/ pc' = pc
             \/ pc' \in {"init", "sections", "endianness"}
                  /\ pc \in {"main", "init", "sections", "endianness"}
             \/ pc = "endianness" /\ pc' = "headers"
             \/ pc' \in {"write", "exit", "aborted"}
             \/ pc = "macros" /\ pc' = "files"
             \/ pc = "files" /\ pc' = "walk"
      PROVE  ResultInv'
  BY <1>0, <1>1 DEF ResultInv, Clean
<1>2. ASSUME UNCHANGED failed
      PROVE  \A v : (UnitFails(v)' <=> UnitFails(v)) /\ (WalkFails(v)' <=> WalkFails(v))
  BY <1>2, NoFailure
<1>3. ASSUME NEW call, NEW where, Fail(call, where), call \notin UnitCalls \cup TopCalls
      PROVE  \A v : (UnitFails(v)' <=> UnitFails(v)) /\ (WalkFails(v)' <=> WalkFails(v))
  BY <1>0, <1>3, NewFailure
<1>4. CASE Open \/ InitDwarf \/ CheckEndianness \/ Write
  BY <1>1, <1>2, <1>3, <1>4
     DEF Open, InitDwarf, CheckEndianness, Write, walkVars, UnitCalls, TopCalls
<1>5. CASE ReadSection \/ ReadElfSymbol \/ EndSections
  BY <1>1, <1>2, <1>3, <1>5
     DEF ReadSection, ReadElfSymbol, EndSections, AddElfSymbol, walkVars, UnitCalls, TopCalls
<1>6. CASE DefineMacro \/ ImportMacros \/ OtherOp \/ EndMacroLoop \/ ReadSourceFiles
  BY <1>1, <1>2, <1>3, <1>6
     DEF DefineMacro, ImportMacros, OtherOp, EndMacroLoop, ReadSourceFiles, AtOp, macroRest,
         walkRest, UnitCalls, TopCalls
<1>7. CASE MacroOpFails
  <2>1. pc = "macros" /\ unit' = unit /\ unit # 0
    BY <1>0, <1>7 DEF MacroOpFails, AtOp, macroRest, Scalars
  <2>2. CASE Fail("macro_op", unit) /\ UNCHANGED << pc, return_value >>
    BY <1>1, <1>3, <2>1, <2>2 DEF UnitCalls, TopCalls
  <2>3. CASE Fail("last_macro_op", unit) /\ pc' = "headers" /\ return_value' = "ERROR"
    <3>1. UnitFails(unit)' /\ \A v : v # unit => (UnitFails(v)' <=> UnitFails(v))
      BY <1>0, <2>1, <2>3, NewFailure DEF UnitCalls
    <3>2. \A v : WalkFails(v)' <=> WalkFails(v)
      BY <1>0, <2>3, NewFailure DEF TopCalls
    <3>3. unit \in 1 .. unit
      BY <1>0, <2>1
    <3>4. QED
      BY <1>0, <2>1, <2>3, <3>1, <3>2, <3>3 DEF ResultInv, Clean
  <2>4. QED
    BY <1>7, <2>2, <2>3 DEF MacroOpFails
<1>8. CASE NextUnit
  <2>1. pc = "headers" /\ unit' = unit + 1 /\ unit + 1 \in 1 .. Len(Units)
    BY <1>0, <1>8 DEF NextUnit
  <2>2. CASE return_value = "ERROR" /\ UNCHANGED << pc, return_value, failed >>
    <3>1. \A v : (UnitFails(v)' <=> UnitFails(v)) /\ (WalkFails(v)' <=> WalkFails(v))
      BY <1>2, <2>2
    <3>2. \E v \in 1 .. unit' : ~ Clean(v)'
      BY <1>0, <2>1, <2>2, <3>1 DEF ResultInv, Clean
    <3>3. QED
      BY <1>0, <2>1, <2>2, <3>1, <3>2 DEF ResultInv, Clean
  <2>3. CASE /\ return_value = "OK" /\ UNCHANGED return_value
             /\ pc' \in {"macros", "files"}
             /\ UNCHANGED failed \/ Fail("macro_context", unit + 1)
    <3>1. \A v : (UnitFails(v)' <=> UnitFails(v)) /\ (WalkFails(v)' <=> WalkFails(v))
      BY <1>2, <1>3, <2>3 DEF UnitCalls, TopCalls
    <3>2. ~ UnitFails(unit + 1) /\ ~ WalkFails(unit + 1) /\ \A v \in 1 .. unit : Clean(v)
      BY <1>0, <2>1, <2>3 DEF ResultInv
    <3>3. QED
      BY <1>0, <2>1, <2>3, <3>1, <3>2 DEF ResultInv, Clean
  <2>4. CASE /\ return_value' = "ERROR" /\ Fail("cu_die", unit + 1) /\ pc' = pc
             /\ return_value = "OK"
    <3>1. PICK n : n = unit + 1
      OBVIOUS
    <3>2. UnitFails(n)' /\ \A v : v # n => (UnitFails(v)' <=> UnitFails(v))
      BY <1>0, <2>4, <3>1, NewFailure DEF UnitCalls
    <3>3. \A v : WalkFails(v)' <=> WalkFails(v)
      BY <1>0, <2>4, NewFailure DEF TopCalls
    <3>4. ~ Clean(n)'
      BY <3>2 DEF Clean
    <3>5. n \in 1 .. unit' /\ unit' = n
      BY <2>1, <3>1
    <3>6. \A v \in DOMAIN Units : v > n => ~ WalkFails(v)' /\ ~ UnitFails(v)'
      BY <1>0, <2>1, <2>4, <3>1, <3>2, <3>3 DEF ResultInv
    <3>7. QED
      BY <2>1, <2>4, <3>4, <3>5, <3>6 DEF ResultInv
  <2>5. QED
    BY <1>8, <2>2, <2>3, <2>4 DEF NextUnit
<1>9. CASE HeaderFails
  <2>1. /\ pc = "headers" /\ pc' = pc /\ unit' = unit /\ return_value' = "ERROR"
        /\ Fail("header", unit + 1)
    BY <1>9 DEF HeaderFails
  <2>2. UnitFails(unit + 1)' /\ \A v : v # unit + 1 => (UnitFails(v)' <=> UnitFails(v))
    BY <1>0, <2>1, NewFailure DEF UnitCalls
  <2>3. \A v : WalkFails(v)' <=> WalkFails(v)
    BY <1>0, <2>1, NewFailure DEF TopCalls
  <2>4. QED
    BY <1>0, <2>1, <2>2, <2>3 DEF ResultInv, Clean
<1>10. CASE EndUnits
  <2>1. unit' = unit /\ unit = Len(Units) /\ return_value' = "OK" /\ pc' = "write"
    BY <1>10 DEF EndUnits
  <2>2. ~ \E v \in DOMAIN Units : v > unit'
    BY <1>0, <2>1
  <2>3. QED
    BY <2>1, <2>2 DEF ResultInv
<1>11. CASE VisitDie \/ HandleDie \/ VisitChildren \/ NextSibling \/ RestartAtRoot
  <2>1. /\ \A v : UnitFails(v)' <=> UnitFails(v)
        /\ \A v \in DOMAIN Units : v # unit => (WalkFails(v)' <=> WalkFails(v))
        /\ unit' = unit /\ pc = "walk"
    BY <1>11, WalkFailures
  <2>2. /\ return_value = "OK" /\ ~ UnitFails(unit)' /\ \A v \in 1 .. unit - 1 : Clean(v)'
    BY <1>0, <2>1 DEF ResultInv, Clean
  <2>3. \A v \in DOMAIN Units : v > unit =>
          ~ WalkFails(v)' /\ (UnitFails(v)' => v = unit + 1 /\ return_value = "ERROR")
    BY <1>0, <2>1 DEF ResultInv
  <2>4. CASE pc' = "headers"
    <3>1. CASE NextSibling
      <4>1. PICK u : u = unit
        OBVIOUS
      <4>2. /\ WalkFails(u) => return_value' = "ERROR"
            /\ ~ WalkFails(u) => return_value' = "OK"
        BY <2>4, <3>1, <4>1, NextSiblingWalks
      <4>3. UNCHANGED failed
        BY <2>1, <2>4, <3>1 DEF NextSibling
      <4>4. WalkFails(u)' <=> WalkFails(u)
        BY <4>3, NoFailure
      <4>5. u \in 1 .. Len(Units) /\ unit' = u
        BY <1>0, <2>1, <4>1 DEF Scalars
      <4>6. \A v \in 1 .. u : v # u => v \in 1 .. unit - 1
        BY <1>0, <4>1
      <4>7. return_value' = "OK" => \A v \in 1 .. u : Clean(v)'
        <5> SUFFICES ASSUME return_value' = "OK", NEW v \in 1 .. u PROVE Clean(v)'
          OBVIOUS
        <5>1. CASE v = u
          BY <2>2, <4>1, <4>2, <4>4, <5>1, <2>1 DEF Clean
        <5>2. CASE v # u
          BY <2>2, <4>6, <5>2
        <5>3. QED
          BY <5>1, <5>2
      <4>8. return_value' = "ERROR" => ~ Clean(u)' /\ u \in 1 .. u
        BY <4>2, <4>4, <4>5 DEF Clean
      <4>9. \A v \in DOMAIN Units : v > unit =>
              ~ WalkFails(v)' /\ (UnitFails(v)' => v = unit + 1 /\ return_value' = "ERROR")
        BY <2>2, <2>3
      <4>10. unit' = unit
        BY <2>1
      <4>11. return_value' = "OK" => \A v \in 1 .. unit' : Clean(v)'
        BY <4>5, <4>7
      <4>12. return_value' = "ERROR" => \E v \in 1 .. unit' : ~ Clean(v)'
        BY <4>5, <4>8
      <4>13. QED
        BY <2>4, <4>9, <4>10, <4>11, <4>12 DEF ResultInv
    <3>2. CASE ~ NextSibling
      BY <1>11, <2>1, <2>4, <3>2 DEF VisitDie, HandleDie, VisitChildren, RestartAtRoot
    <3>3. QED
      BY <3>1, <3>2
  <2>5. CASE pc' # "headers"
    <3>1. pc' \in {"walk", "aborted"} /\ return_value' = return_value
      BY <1>11, <2>1, <2>5 DEF VisitDie, HandleDie, VisitChildren, NextSibling, RestartAtRoot
    <3>2. QED
      BY <2>1, <2>2, <2>3, <3>1 DEF ResultInv
  <2>6. QED
    BY <2>4, <2>5
<1>12. CASE UNCHANGED vars
  <2>1. UNCHANGED << failed, unit, return_value, pc >>
    BY <1>12 DEF vars, walkVars
  <2>2. QED
    BY <1>1, <1>2, <2>1
<1>13. QED
  BY <1>4, <1>5, <1>6, <1>7, <1>8, <1>9, <1>10, <1>11, <1>12 DEF Next

-----------------------------------------------------------------------------
(* The units that were walked.                                             *)

\* What fails does not concern the units before the one that is read, and
\* once its macros are read it cannot fail but in its walk.
LEMMA EarlierUnits ==
  ASSUME Inv, WalkInv, ResultInv, [Next]_vars
  PROVE  /\ \A v \in 1 .. unit - 1 :
              (UnitFails(v)' <=> UnitFails(v)) /\ (WalkFails(v)' <=> WalkFails(v))
         /\ \A v : v = unit /\ pc # "macros" => (UnitFails(v)' <=> UnitFails(v))
<1> USE DEF Goto
<1>0. Failures /\ unit \in 0 .. Len(Units) /\ Len(Units) \in Nat /\ DOMAIN Units = 1 .. Len(Units)
  BY LensAreNat DEF Inv, Scalars
<1>1. CASE UNCHANGED failed
  BY <1>1, NoFailure
<1>2. ASSUME NEW call, NEW where, Fail(call, where), call \notin UnitCalls \cup TopCalls
      PROVE  \A v : (UnitFails(v)' <=> UnitFails(v)) /\ (WalkFails(v)' <=> WalkFails(v))
  BY <1>0, <1>2, NewFailure
<1>3. ASSUME NEW call \in UnitCalls, NEW where, Fail(call, where),
             where = unit + 1 \/ (where = unit /\ pc = "macros")
      PROVE  /\ \A v \in 1 .. unit :
                  v # unit \/ pc # "macros" => (UnitFails(v)' <=> UnitFails(v))
             /\ \A v : WalkFails(v)' <=> WalkFails(v)
  <2>1. call \notin TopCalls
    BY <1>3 DEF UnitCalls, TopCalls
  <2>2. \A v \in 1 .. unit : v # unit \/ pc # "macros" => v # where
    BY <1>0, <1>3
  <2>3. QED
    BY <1>0, <1>3, <2>1, <2>2, NewFailure
<1>4. CASE Open \/ InitDwarf \/ CheckEndianness \/ Write \/ ReadSection \/ ReadElfSymbol
           \/ EndSections \/ EndUnits
  BY <1>1, <1>2, <1>4
     DEF Open, InitDwarf, CheckEndianness, Write, ReadSection, ReadElfSymbol, EndSections,
         EndUnits, UnitCalls, TopCalls
<1>5. CASE DefineMacro \/ ImportMacros \/ OtherOp \/ EndMacroLoop \/ ReadSourceFiles
  BY <1>1, <1>2, <1>5
     DEF DefineMacro, ImportMacros, OtherOp, EndMacroLoop, ReadSourceFiles, UnitCalls, TopCalls
<1>6. CASE MacroOpFails
  <2>1. pc = "macros"
    BY <1>6 DEF MacroOpFails, AtOp
  <2>2. Fail("macro_op", unit) \/ Fail("last_macro_op", unit)
    BY <1>6 DEF MacroOpFails
  <2>3. "macro_op" \notin UnitCalls \cup TopCalls /\ "last_macro_op" \in UnitCalls
    BY DEF UnitCalls, TopCalls
  <2>4. \A v \in 1 .. unit - 1 : v \in 1 .. unit /\ v # unit
    BY <1>0
  <2>5. QED
    BY <1>2, <1>3, <2>1, <2>2, <2>3, <2>4
<1>7. CASE NextUnit \/ HeaderFails
  <2>1. \/ UNCHANGED failed
        \/ Fail("macro_context", unit + 1)
        \/ \E call \in UnitCalls : Fail(call, unit + 1)
    BY <1>7 DEF NextUnit, HeaderFails, UnitCalls
  <2>2. "macro_context" \notin UnitCalls \cup TopCalls /\ pc # "macros"
    BY <1>7 DEF UnitCalls, TopCalls, NextUnit, HeaderFails
  <2>3. CASE \E call \in UnitCalls : Fail(call, unit + 1)
    <3>1. /\ \A v \in 1 .. unit : UnitFails(v)' <=> UnitFails(v)
          /\ \A v : WalkFails(v)' <=> WalkFails(v)
      BY <1>3, <2>2, <2>3
    <3>2. \A v \in 1 .. unit - 1 : v \in 1 .. unit
      BY <1>0
    <3>3. CASE unit = 0
      <4>1. \A v : UnitFails(v)' <=> UnitFails(v) \/ v = unit + 1
        BY <1>0, <2>3, NewFailure DEF UnitCalls
      <4>2. \A v : v = unit => v # unit + 1
        BY <1>0
      <4>3. QED
        BY <3>1, <3>2, <4>1, <4>2
    <3>4. CASE unit # 0
      <4>1. \A v : v = unit => v \in 1 .. unit
        BY <1>0, <3>4
      <4>2. QED
        BY <3>1, <3>2, <4>1
    <3>5. QED
      BY <3>3, <3>4
  <2>4. QED
    BY <1>1, <1>2, <2>1, <2>2, <2>3
<1>8. CASE VisitDie \/ HandleDie \/ VisitChildren \/ NextSibling \/ RestartAtRoot
  <2>1. \A v \in 1 .. unit - 1 : v \in DOMAIN Units /\ v # unit
    BY <1>0
  <2>2. QED
    BY <1>8, <2>1, WalkFailures
<1>9. CASE UNCHANGED vars
  BY <1>1, <1>9 DEF vars
<1>10. QED
  BY <1>4, <1>5, <1>6, <1>7, <1>8, <1>9 DEF Next

LEMMA WalkedStays ==
  ASSUME Inv, WalkInv, ResultInv, [Next]_vars, NEW u \in 1 .. unit, Walked(u),
         pc = "macros" => u # unit
  PROVE  Walked(u)'
<1>1. unit \in Nat /\ u \in Nat
  BY LensAreNat DEF Inv, Scalars
<1>2. \A v \in 1 .. u - 1 : v \in 1 .. unit - 1
  BY <1>1
<1>3. u = unit \/ u \in 1 .. unit - 1
  BY <1>1
<1>4. ~ UnitFails(u)'
  BY <1>3, EarlierUnits DEF Walked
<1>5. QED
  BY <1>2, <1>4, EarlierUnits DEF Walked

\* The next unit is begun between two walks, and one that was begun is left
\* when its walk is over or its last macro operation cannot be read.
LEMMA UnitSteps ==
  ASSUME Inv, [Next]_vars
  PROVE  /\ unit' = unit \/ (unit' = unit + 1 /\ NextUnit /\ pc = "headers")
         /\ pc' = "macros" => (pc = "macros" /\ unit' = unit) \/ unit' = unit + 1
         /\ pc \in {"macros", "files", "walk"} /\ pc' \notin {"macros", "files", "walk", "aborted"} =>
              \/ NextSibling /\ pc' = "headers"
              \/ Fail("last_macro_op", unit)
         /\ pc = "aborted" => UNCHANGED << pc, unit >>
<1> USE DEF Goto
<1>1. CASE Open \/ InitDwarf \/ CheckEndianness \/ Write
  BY <1>1 DEF Open, InitDwarf, CheckEndianness, Write, walkVars
<1>2. CASE ReadSection \/ ReadElfSymbol \/ EndSections
  BY <1>2 DEF ReadSection, ReadElfSymbol, EndSections, AddElfSymbol, walkVars
<1>3. CASE NextUnit \/ HeaderFails \/ EndUnits
  BY <1>3 DEF NextUnit, HeaderFails, EndUnits
<1>4. CASE DefineMacro \/ ImportMacros \/ OtherOp \/ MacroOpFails \/ EndMacroLoop
  BY <1>4 DEF DefineMacro, ImportMacros, OtherOp, MacroOpFails, EndMacroLoop, AtOp, macroRest
<1>5. CASE ReadSourceFiles \/ VisitDie \/ HandleDie \/ VisitChildren \/ NextSibling
           \/ RestartAtRoot
  BY <1>5 DEF ReadSourceFiles, VisitDie, HandleDie, VisitChildren, NextSibling,
       RestartAtRoot, AtDie, walkRest
<1>6. CASE UNCHANGED vars
  BY <1>6 DEF vars, walkVars
<1>7. QED
  BY <1>1, <1>2, <1>3, <1>4, <1>5, <1>6 DEF Next

LEMMA SeenStep == ASSUME Inv, WalkInv, ResultInv, SeenInv, [Next]_vars PROVE SeenInv'
<1>0. unit \in Nat
  BY LensAreNat DEF Inv, Scalars
<1>1. ASSUME NEW d, NEW u \in 1 .. unit, Walked(u), d \in DiesOf(u), pc = "macros" => u # unit
      PROVE  \E v \in 1 .. unit' :
               Walked(v)' /\ d \in DiesOf(v) /\ (pc' = "macros" => v # unit')
  <2>1. Walked(u)'
    BY <1>1, WalkedStays
  <2>2. u \in 1 .. unit' /\ (pc' = "macros" => u # unit')
    BY <1>0, <1>1, UnitSteps
  <2>3. QED
    BY <1>1, <2>1, <2>2
<1>2. CASE UNCHANGED seen
  BY <1>1, <1>2 DEF SeenInv
<1>3. CASE VisitDie
  <2>1. PICK u : u = unit
    OBVIOUS
  <2>2. pc = "walk" /\ Top.i # 0 /\ (seen' = seen \/ seen' = Append(seen, Die))
    BY <1>3 DEF VisitDie, AtDie
  <2>3. u \in DOMAIN Units /\ Die \in DiesOf(u) /\ u \in 1 .. unit
    BY <1>0, <2>1, <2>2, WalkFacts DEF DiesOf, Inv, Scalars
  <2>4. Walked(u)
    BY <2>1, <2>2 DEF ResultInv, Walked, Clean
  <2>5. CASE seen' = seen
    BY <1>2, <2>5
  <2>6. CASE seen' = Append(seen, Die)
    <3>1. /\ DOMAIN seen' = DOMAIN seen \cup {Len(seen) + 1}
          /\ \A k \in DOMAIN seen : seen'[k] = seen[k]
          /\ seen'[Len(seen) + 1] = Die
      BY <2>6, AppendedSequence DEF Inv, Scalars, IsSequence
    <3>2. \A k \in DOMAIN seen' :
            \E v \in 1 .. unit : Walked(v) /\ seen'[k] \in DiesOf(v) /\ (pc = "macros" => v # unit)
      BY <2>2, <2>3, <2>4, <3>1 DEF SeenInv
    <3>3. QED
      BY <1>1, <3>2 DEF SeenInv
  <2>7. QED
    BY <2>2, <2>5, <2>6
<1>4. CASE Open \/ InitDwarf \/ CheckEndianness \/ Write \/ ReadSection
           \/ ReadElfSymbol \/ EndSections \/ NextUnit \/ HeaderFails \/ EndUnits
  BY <1>2, <1>4 DEF Open, InitDwarf, CheckEndianness, Write, ReadSection, ReadElfSymbol,
       EndSections, NextUnit, HeaderFails, EndUnits, walkVars
<1>5. CASE DefineMacro \/ ImportMacros \/ OtherOp \/ MacroOpFails \/ EndMacroLoop
  BY <1>2, <1>5 DEF DefineMacro, ImportMacros, OtherOp, MacroOpFails, EndMacroLoop, macroRest
<1>6. CASE ReadSourceFiles \/ HandleDie \/ VisitChildren \/ NextSibling \/ RestartAtRoot
  BY <1>2, <1>6 DEF ReadSourceFiles, HandleDie, VisitChildren, NextSibling, RestartAtRoot
<1>7. CASE UNCHANGED vars
  BY <1>2, <1>7 DEF vars, walkVars
<1>8. QED
  BY <1>3, <1>4, <1>5, <1>6, <1>7 DEF Next

LEMMA DoneStep == ASSUME Inv, WalkInv, ResultInv, DoneInv, [Next]_vars PROVE DoneInv'
<1> USE DEF Goto
<1> DEFINE Under == {"macros", "files", "walk", "aborted"}
<1>0. Failures /\ unit \in 0 .. Len(Units) /\ Len(Units) \in Nat
  BY LensAreNat DEF Inv, Scalars
<1>1. ASSUME NEW u \in 1 .. unit', Walked(u)', u = unit' => pc' \notin Under
      PROVE  DiesOf(u) \subseteq Accounted(u)'
  <2>1. Walked(u)
    BY <1>1, StillFailed DEF Walked
  <2>2. CASE u \in 1 .. unit /\ (u = unit => pc \notin Under)
    <3>1. DiesOf(u) \subseteq Accounted(u)
      BY <2>1, <2>2 DEF DoneInv
    <3>2. QED
      BY <3>1, AccountedGrows
  <2>3. CASE u = unit /\ pc \in Under
    <3>1. unit' = unit /\ pc # "aborted" /\ pc' \notin Under
      BY <1>0, <1>1, <2>3, UnitSteps
    <3>2. CASE NextSibling /\ pc' = "headers"
      BY <2>3, <3>1, <3>2, NextSiblingWalks
    <3>3. CASE Fail("last_macro_op", unit)
      <4>1. UnitFails(u)'
        BY <1>0, <2>3, <3>3, NewFailure DEF UnitCalls
      <4>2. QED
        BY <1>1, <4>1 DEF Walked
    <3>4. QED
      BY <2>3, <3>1, <3>2, <3>3, UnitSteps
  <2>4. CASE u \notin 1 .. unit
    <3>1. u = unit + 1 /\ u = unit' /\ NextUnit /\ pc = "headers" /\ u \in Nat
      BY <1>0, <1>1, <2>4, UnitSteps
    <3>2. CASE return_value = "ERROR"
      <4>1. \A v \in 1 .. unit : v \in 1 .. u - 1
        BY <1>0, <3>1
      <4>2. QED
        BY <2>1, <3>1, <3>2, <4>1 DEF ResultInv, Walked, Clean
    <3>3. CASE Fail("cu_die", unit + 1)
      <4>1. UnitFails(u)'
        BY <1>0, <3>1, <3>3, NewFailure DEF UnitCalls
      <4>2. QED
        BY <1>1, <4>1 DEF Walked
    <3>4. QED
      BY <1>1, <3>1, <3>2, <3>3 DEF NextUnit
  <2>5. QED
    BY <1>0, <2>2, <2>3, <2>4
<1>2. written' \/ pc' = "write" => unit' = Len(Units) /\ pc' \in {"write", "exit"}
  <2>0. written \/ pc = "write" => unit = Len(Units) /\ pc \in {"write", "exit"}
    BY DEF DoneInv
  <2>1. CASE Open \/ InitDwarf \/ CheckEndianness \/ Write
    BY <2>0, <2>1 DEF Open, InitDwarf, CheckEndianness, Write, walkVars
  <2>2. CASE ReadSection \/ ReadElfSymbol \/ EndSections
    BY <2>0, <2>2 DEF ReadSection, ReadElfSymbol, EndSections, AddElfSymbol
  <2>3. CASE NextUnit \/ HeaderFails \/ EndUnits
    BY <2>0, <2>3 DEF NextUnit, HeaderFails, EndUnits
  <2>4. CASE DefineMacro \/ ImportMacros \/ OtherOp \/ MacroOpFails \/ EndMacroLoop
    BY <2>0, <2>4 DEF DefineMacro, ImportMacros, OtherOp, MacroOpFails, EndMacroLoop,
         AtOp, macroRest
  <2>5. CASE ReadSourceFiles \/ VisitDie \/ HandleDie \/ VisitChildren \/ NextSibling
             \/ RestartAtRoot
    BY <2>0, <2>5 DEF ReadSourceFiles, VisitDie, HandleDie, VisitChildren, NextSibling,
         RestartAtRoot, AtDie, walkRest
  <2>6. CASE UNCHANGED vars
    BY <2>0, <2>6 DEF vars, walkVars
  <2>7. QED
    BY <2>1, <2>2, <2>3, <2>4, <2>5, <2>6 DEF Next
<1>3. QED
  BY <1>1, <1>2 DEF DoneInv

LEMMA UnitsInvInit == Init => UnitsInv
<1> SUFFICES ASSUME Init PROVE UnitsInv
  OBVIOUS
<1>1. /\ pc = "main" /\ unit = 0 /\ return_value = "OK" /\ ~ written
      /\ DOMAIN seen = {} /\ Range(failed) = {}
  BY DEF Init, Range
<1>2. \A v : ~ UnitFails(v) /\ ~ WalkFails(v)
  BY <1>1 DEF UnitFails, WalkFails, Failed
<1>3. ~ \E v : v \in 1 .. unit
  BY <1>1
<1>4. WalkInv /\ SeenInv /\ DoneInv
  BY <1>1, <1>3 DEF WalkInv, SeenInv, DoneInv
<1>5. ResultInv
  BY <1>1, <1>2, <1>3 DEF ResultInv
<1>6. QED
  BY <1>4, <1>5 DEF UnitsInv

LEMMA UnitsInvStep == Inv /\ UnitsInv /\ [Next]_vars => UnitsInv'
BY WalkStep, ResultStep, SeenStep, DoneStep DEF UnitsInv

LEMMA UnitsInvariant == Spec => [](Inv /\ UnitsInv)
<1>1. Init => Inv /\ UnitsInv
  BY InvInit, UnitsInvInit
<1>2. (Inv /\ UnitsInv) /\ [Next]_vars => (Inv /\ UnitsInv)'
  BY InvStep, UnitsInvStep
<1>3. QED
  BY <1>1, <1>2, PTL DEF Spec

\* A unit is walked only when neither it nor one before it has failed, though
\* the loop of readCUList goes on over all units: what was read is of units
\* before the first error (readCUList, Juicer.cpp:289).
THEOREM NothingAfterError == Spec => []NothingReadAfterFailedUnit
<1>1. SeenInv => NothingReadAfterFailedUnit
  BY DEF SeenInv, NothingReadAfterFailedUnit
<1>2. QED
  BY <1>1, UnitsInvariant, PTL DEF UnitsInv

\* When the result is written, a DIE of a unit that was walked was visited,
\* unless its tag or the children of one above it could not be had: in
\* particular an error of dwarf_siblingof, after which the walk begins again
\* at the root, loses nothing (getDieAndSiblings, Juicer.cpp:4229).
THEOREM MissedDies == Spec => []MissedOnlyBelowFailedCall
<1>1. ASSUME Inv, UnitsInv PROVE MissedOnlyBelowFailedCall
  <2> SUFFICES ASSUME written, NEW u \in DOMAIN Units, Walked(u), NEW d \in DiesOf(u)
               PROVE  \/ d \in Range(seen)
                      \/ Failed(<< "tag", d >>) \/ Failed(<< "top_tag", d >>)
                      \/ \E a \in DiesOf(u) \ {d} :
                           /\ d \in Below[a]
                           /\ Failed(<< "child", a >>) \/ Failed(<< "top_child", a >>)
    BY DEF MissedOnlyBelowFailedCall
  <2>1. unit = Len(Units) /\ pc \in {"write", "exit"}
    BY <1>1 DEF UnitsInv, DoneInv
  <2>2. u \in 1 .. unit
    BY <2>1, LensAreNat
  <2>3. d \in Accounted(u)
    BY <1>1, <2>1, <2>2 DEF UnitsInv, DoneInv
  <2>4. QED
    BY <2>3 DEF Accounted
<1>2. QED
  BY <1>1, UnitsInvariant, PTL

-----------------------------------------------------------------------------
(* The numbers of the source files that are looked up.                     *)

\* What a handler adds next is one of what it has to add.
LEMMA HeadOfRest ==
  ASSUME NEW s \in Seq(Adds), NEW rest, RestOf(rest, s), rest # << >>
  PROVE  \E k \in DOMAIN s : Head(rest) = s[k]
<1>1. Len(s) \in Nat /\ DOMAIN s = 1 .. Len(s)
  BY LenProperties
<1>2. PICK k \in 0 .. Len(s) : rest = SubSeq(s, k + 1, Len(s))
  BY DEF RestOf
<1>3. k < Len(s)
  BY <1>1, <1>2
<1>4. Head(rest) = s[k + 1] /\ k + 1 \in DOMAIN s
  BY <1>1, <1>2, <1>3
<1>5. QED
  BY <1>4

\* A declaration's file is there, if the list and the version were read.
LEMMA DeclarationsAreInRange ==
  ASSUME FilesInv, WalkInv, AtDie("handle"), Top.adds # << >>, Head(Top.adds).decl,
         ~ Failed(<< "srcfiles", unit >>), ~ Failed(<< "version", Die >>)
  PROVE  InRange(Head(Top.adds).number)
<1>1. PICK u : u = unit
  OBVIOUS
<1> DEFINE a == Head(Top.adds)
<1>2. pc = "walk" /\ Top.i # 0 /\ Top.phase = "handle" /\ Inv
  BY DEF AtDie, FilesInv
<1>3. /\ u \in DOMAIN Units /\ FrameOK(Top) /\ Die \in DOMAIN Dies
      /\ Die = Top.dies[Top.i] /\ Die \in DiesOf(u)
  BY <1>1, <1>2, WalkFacts DEF DiesOf
<1>4. Dies[Die].adds \in Seq(Adds) /\ RestOf(Top.adds, Dies[Die].adds)
  BY <1>2, <1>3, DieProperties DEF FrameOK
<1>5. PICK k \in DOMAIN Dies[Die].adds : a = Dies[Die].adds[k]
  BY <1>4, HeadOfRest
<1>6. ~ Missing(a.number) => Position(Units[u].version, a.number) \in DOMAIN Units[u].files
  BY <1>3, <1>5, FilesAssumption
<1>7. dwarfVersion = Units[u].version
  BY <1>1 DEF FilesInv, VersionIsKnown
<1>8. \A i \in DOMAIN Units[u].files : i \in DOMAIN dbgSourceFiles
  BY <1>1, <1>2 DEF FilesInv, OwnListInFront
<1>9. QED
  BY <1>6, <1>7, <1>8 DEF InRange

\* The number of a source file that a declaration is looked up by is in the
\* list, so that std::vector::at does not throw, whatever the units before have
\* put there: unless the unit's own list or the DIE's version could not be read
\* (getdbgSourceFile, Juicer.cpp:5462).
THEOREM LookupsInRange == Spec => []LookupsAreInRange
<1>1. FilesInv /\ UnitsInv => LookupsAreInRange
  BY DeclarationsAreInRange DEF LookupsAreInRange, UnitsInv
<1>2. Init => FilesInv /\ UnitsInv
  BY FilesInvInit, UnitsInvInit
<1>3. (FilesInv /\ UnitsInv) /\ [Next]_vars => (FilesInv /\ UnitsInv)'
  BY FilesInvStep, UnitsInvStep DEF FilesInv
<1>4. QED
  BY <1>1, <1>2, <1>3, PTL DEF Spec

-----------------------------------------------------------------------------
(* Recursive definitions.                                                  *)

\* `next' leads to an end from everywhere; `step' gives a value for d from
\* those for next[d]; g has these values.
Ends(D, next) == /\ next \in [D -> SUBSET D]
                 /\ \A S \in SUBSET D : S # {} => \E d \in S : next[d] \cap S = {}
StepsIn(D, next, V, step) == \A d \in D : \A h \in [next[d] -> V] : step[<< d, h >>] \in V
Follows(g, D, next, step) ==
  \A d \in D : g[d] = step[<< d, [e \in next[d] |-> g[e]] >>]

\* A function that is defined by such a recursion exists.
LEMMA RecursionIsDefined ==
  ASSUME NEW D, NEW V, NEW next, NEW step, Ends(D, next), StepsIn(D, next, V, step)
  PROVE  \E g \in [D -> V] : Follows(g, D, next, step)
<1> USE DEF Ends, StepsIn, Follows
<1> DEFINE Closed(T) == T \in SUBSET D /\ \A d \in T : next[d] \subseteq T
           At(g, d) == [e \in next[d] |-> g[e]]
           Solves(g, T) == \A d \in T : g[d] \in V /\ g[d] = step[<< d, At(g, d) >>]
           W == {d \in D : \E T, g : Closed(T) /\ d \in T /\ Solves(g, T)}
           IsValue(d, v) == \E T, g : Closed(T) /\ d \in T /\ Solves(g, T) /\ v = g[d]
           val == [d \in D |-> CHOOSE v : IsValue(d, v)]
<1>1. ASSUME NEW T, NEW U, NEW g, NEW h, Closed(T), Closed(U), Solves(g, T), Solves(h, U),
             NEW d \in T \cap U
      PROVE  g[d] = h[d]
  <2> DEFINE S == {e \in T \cap U : g[e] # h[e]}
  <2>1. ASSUME NEW e \in S, next[e] \cap S = {} PROVE FALSE
    <3>1. e \in T /\ e \in U /\ g[e] # h[e] /\ next[e] \subseteq T \cap U
      BY <1>1, <2>1
    <3>2. \A x \in next[e] : g[x] = h[x]
      BY <2>1, <3>1
    <3>3. At(g, e) = At(h, e)
      BY <3>2
    <3> HIDE DEF At
    <3>4. g[e] = h[e]
      BY <1>1, <3>1, <3>3
    <3>5. QED
      BY <3>1, <3>4
  <2>2. S \in SUBSET D
    BY <1>1
  <2>3. S = {}
    BY <2>1, <2>2
  <2>4. QED
    BY <1>1, <2>3
<1>2. ASSUME NEW T, NEW g, Closed(T), Solves(g, T), NEW d \in T
      PROVE  d \in W /\ val[d] = g[d]
  <2>1. d \in D /\ d \in W /\ IsValue(d, g[d])
    BY <1>2
  <2>2. ASSUME NEW v, IsValue(d, v) PROVE v = g[d]
    <3>1. PICK U, h : Closed(U) /\ d \in U /\ Solves(h, U) /\ v = h[d]
      BY <2>2
    <3> HIDE DEF Closed, Solves
    <3>2. QED
      BY <1>1, <1>2, <3>1
  <2> HIDE DEF IsValue, W
  <2>3. IsValue(d, val[d])
    BY <2>1
  <2> HIDE DEF val
  <2>4. QED
    BY <2>1, <2>2, <2>3
<1>3. Closed(W) /\ Solves(val, W)
  <2>1. ASSUME NEW d \in W
        PROVE  next[d] \subseteq W /\ val[d] \in V /\ val[d] = step[<< d, At(val, d) >>]
    <3>1. PICK T, g : Closed(T) /\ d \in T /\ Solves(g, T)
      BY <2>1
    <3> HIDE DEF W, val
    <3>2. \A e \in T : e \in W /\ val[e] = g[e]
      BY <1>2, <3>1, Zenon
    <3>3. next[d] \subseteq T
      BY <3>1
    <3>4. At(val, d) = At(g, d)
      BY <3>2, <3>3
    <3>5. g[d] \in V /\ g[d] = step[<< d, At(g, d) >>]
      BY <3>1, Zenon
    <3> HIDE DEF At
    <3>6. QED
      BY <3>1, <3>2, <3>3, <3>4, <3>5
  <2> HIDE DEF val
  <2>2. W \in SUBSET D
    OBVIOUS
  <2> HIDE DEF W
  <2>3. QED
    BY <2>1, <2>2
<1>4. W = D
  <2> HIDE DEF val
  <2>1. ASSUME NEW d \in D \ W, next[d] \subseteq W PROVE FALSE
    <3> DEFINE v == step[<< d, At(val, d) >>]
               g == [e \in D |-> IF e = d THEN v ELSE val[e]]
               T == W \cup {d}
    <3> HIDE DEF W
    <3>1. W \in SUBSET D /\ \A e \in W : next[e] \subseteq W /\ d \notin next[e]
      BY <1>3, <2>1
    <3>2. \A e \in T : At(g, e) = At(val, e)
      <4>1. ASSUME NEW e \in T, NEW x \in next[e] PROVE g[x] = val[x]
        BY <2>1, <3>1, <4>1
      <4> HIDE DEF g
      <4>2. QED
        BY <4>1
    <3>3. At(val, d) \in [next[d] -> V]
      BY <1>3, <2>1
    <3>4. v \in V
      <4> HIDE DEF At
      <4>1. QED
        BY <2>1, <3>3
    <3>5. \A e \in W : g[e] = val[e]
      BY <2>1, <3>1
    <3>6. g[d] = v
      BY <2>1
    <3>7. ASSUME NEW e \in T PROVE g[e] \in V /\ g[e] = step[<< e, At(g, e) >>]
      <4> HIDE DEF g, At
      <4>1. CASE e = d
        BY <3>2, <3>4, <3>6, <4>1
      <4>2. CASE e \in W
        BY <1>3, <3>2, <3>5, <4>2
      <4>3. QED
        BY <3>7, <4>1, <4>2
    <3>8. Closed(T)
      BY <2>1, <3>1
    <3>9. Solves(g, T) /\ d \in T
      <4> HIDE DEF g, At
      <4>1. QED
        BY <3>7
    <3> HIDE DEF g, T, Closed, Solves
    <3>10. d \in W
      BY <3>8, <3>9, <1>2
    <3>11. QED
      BY <2>1, <3>10
  <2>2. D \ W \in SUBSET D /\ W \subseteq D
    OBVIOUS
  <2> HIDE DEF W
  <2>3. QED
    BY <2>1, <2>2
<1>5. val \in [D -> V] /\ \A d \in D : val[d] = step[<< d, At(val, d) >>]
  <2> HIDE DEF W
  <2>1. \A d \in D : val[d] \in V /\ val[d] = step[<< d, At(val, d) >>]
    <3> HIDE DEF val, At
    <3>1. QED
      BY <1>3, <1>4
  <2>2. QED
    BY <2>1
<1> HIDE DEF val
<1>6. QED
  BY <1>5

\* Induction over the natural numbers for a set.
LEMMA NatSetInduction ==
  ASSUME NEW T, 0 \in T, \A n \in Nat : n \in T => n + 1 \in T
  PROVE  Nat \subseteq T
<1> DEFINE R == OpToRel(<, Nat)
           M == Nat \ T
<1>1. SUFFICES ASSUME M # {} PROVE FALSE
  OBVIOUS
<1>2. IsWellFoundedOn(R, Nat)
  BY NatLessThanWellFounded
<1>3. R = {ss \in Nat \X Nat : ss[1] < ss[2]}
  BY DEF OpToRel
<1> HIDE DEF R
<1>4. M \subseteq Nat
  OBVIOUS
<1> HIDE DEF M
<1>5. PICK n \in M : \A y \in M : ~ (<< y, n >> \in R)
  BY <1>1, <1>2, <1>4, WFMin
<1>6. n \in Nat /\ n # 0 /\ n - 1 \in Nat
  BY <1>5, <1>4 DEF M
<1>7. << n - 1, n >> \in R
  <2>1. << n - 1, n >> \in Nat \X Nat
    BY <1>6
  <2>2. n - 1 < n
    BY <1>6
  <2>3. QED
    BY <1>3, <2>1, <2>2
<1>8. n - 1 \in T
  BY <1>5, <1>6, <1>7 DEF M
<1>9. n \in T
  BY <1>6, <1>8
<1>10. QED
  BY <1>5, <1>9 DEF M

\* Functions on 0 .. n that agree where they do one step earlier, agree.
SameSteps(f, g, n) == f[0] = g[0] /\ \A k \in 1 .. n : f[k - 1] = g[k - 1] => f[k] = g[k]

LEMMA StepsAgree ==
  ASSUME NEW n \in Nat, NEW f, NEW g, SameSteps(f, g, n)
  PROVE  \A k \in 0 .. n : f[k] = g[k]
<1> USE DEF SameSteps
<1> DEFINE T == {k \in Nat : k <= n => f[k] = g[k]}
<1>1. 0 \in T
  OBVIOUS
<1>2. ASSUME NEW k \in Nat, k \in T PROVE k + 1 \in T
  <2>1. CASE k + 1 <= n
    <3>1. k + 1 \in 1 .. n /\ (k + 1) - 1 = k /\ f[k] = g[k]
      BY <1>2, <2>1
    <3>2. f[k + 1] = g[k + 1]
      BY <3>1
    <3>3. QED
      BY <3>2
  <2>2. CASE ~ (k + 1 <= n)
    BY <2>2
  <2>3. QED
    BY <2>1, <2>2
<1> HIDE DEF T
<1>3. Nat \subseteq T
  BY <1>1, <1>2, NatSetInduction
<1>4. QED
  BY <1>3 DEF T

\* A function on 0 .. n that is defined step by step exists.
Stepwise(step, n, V) == \A k \in 1 .. n : \A v \in V : step[<< k, v >>] \in V
StepsFrom(g, a, step, n) == g[0] = a /\ \A k \in 1 .. n : g[k] = step[<< k, g[k - 1] >>]

LEMMA StepsDefine ==
  ASSUME NEW n \in Nat, NEW V, NEW a \in V, NEW step, Stepwise(step, n, V)
  PROVE  \E g \in [0 .. n -> V] : StepsFrom(g, a, step, n)
<1> USE DEF Stepwise, StepsFrom
<1> DEFINE Upto(m, g) == g[0] = a /\ \A k \in 1 .. m : g[k] = step[<< k, g[k - 1] >>]
           T == {m \in Nat : m <= n => \E g \in [0 .. m -> V] : Upto(m, g)}
<1>1. 0 \in T
  <2> DEFINE g == [k \in 0 .. 0 |-> a]
  <2>1. g \in [0 .. 0 -> V] /\ Upto(0, g)
    OBVIOUS
  <2>2. QED
    BY <2>1
<1>2. ASSUME NEW m \in Nat, m \in T PROVE m + 1 \in T
  <2>1. SUFFICES ASSUME m + 1 <= n
                 PROVE  \E g \in [0 .. m + 1 -> V] : Upto(m + 1, g)
    OBVIOUS
  <2>2. m <= n
    BY <2>1
  <2>3. PICK h \in [0 .. m -> V] : Upto(m, h)
    BY <1>2, <2>2
  <2> DEFINE v == step[<< m + 1, h[m] >>]
             g == [k \in 0 .. m + 1 |-> IF k = m + 1 THEN v ELSE h[k]]
  <2>4. h[m] \in V /\ m + 1 \in 1 .. n
    BY <2>1, <2>3
  <2>5. v \in V
    BY <2>4
  <2> HIDE DEF v
  <2>6. g \in [0 .. m + 1 -> V] /\ g[m + 1] = v /\ \A k \in 0 .. m : g[k] = h[k]
    BY <2>3, <2>5
  <2> HIDE DEF g
  <2>7. g[m + 1] = step[<< m + 1, g[m] >>] /\ g[0] = h[0]
    BY <2>6 DEF v
  <2>8. \A k \in 1 .. m : k - 1 \in 0 .. m /\ k \in 0 .. m
    OBVIOUS
  <2>9. \A k \in 1 .. m : g[k] = step[<< k, g[k - 1] >>]
    BY <2>3, <2>6, <2>8
  <2>10. \A k \in 1 .. m + 1 : k = m + 1 \/ k \in 1 .. m
    OBVIOUS
  <2>11. (m + 1) - 1 = m
    OBVIOUS
  <2>12. Upto(m + 1, g)
    BY <2>3, <2>7, <2>9, <2>10, <2>11
  <2>13. QED
    BY <2>6, <2>12
<1> HIDE DEF T
<1>3. Nat \subseteq T
  BY <1>1, <1>2, NatSetInduction
<1>4. QED
  BY <1>3 DEF T

-----------------------------------------------------------------------------
(* Sequences of sequences.                                                 *)

\* g is the first k sequences of s one after the other, for each k.
Flattens(g, s) == g[0] = << >> /\ \A k \in 1 .. Len(s) : g[k] = g[k - 1] \o s[k]

LEMMA FlattenDefined ==
  ASSUME NEW V, NEW s \in Seq(Seq(V))
  PROVE  \E g \in [0 .. Len(s) -> Seq(V)] : Flattens(g, s) /\ FlattenSeq(s) = g[Len(s)]
<1> DEFINE n == Len(s)
           W == Seq(V)
           step == [p \in (1 .. n) \X W |-> p[2] \o s[p[1]]]
           F(f) == f = [i \in 1 .. n |-> IF i = 1 THEN s[i] ELSE f[i - 1] \o s[i]]
<1>1. n \in Nat /\ << >> \in W /\ \A k \in 1 .. n : s[k] \in W
  BY LenProperties, ElementOfSeq
<1>2. \A k \in 1 .. n : \A v \in W : step[<< k, v >>] = v \o s[k] /\ step[<< k, v >>] \in W
  BY <1>1, ConcatProperties
<1> HIDE DEF step, n, W
<1>3. PICK g \in [0 .. n -> W] :
        g[0] = << >> /\ \A k \in 1 .. n : g[k] = step[<< k, g[k - 1] >>]
  <2>1. Stepwise(step, n, W)
    BY <1>2 DEF Stepwise
  <2>2. PICK g \in [0 .. n -> W] : StepsFrom(g, << >>, step, n)
    BY <1>1, <2>1, StepsDefine
  <2>3. QED
    BY <2>2 DEF StepsFrom
<1>4. ASSUME NEW k \in 1 .. n PROVE g[k] = g[k - 1] \o s[k] /\ g[k - 1] \in W
  <2>1. k - 1 \in 0 .. n
    BY <1>1
  <2>2. g[k - 1] \in W
    BY <1>3, <2>1
  <2>3. QED
    BY <1>2, <1>3, <2>2
<1>5. CASE n = 0
  <2>1. s = << >> /\ FlattenSeq(s) = s
    BY <1>5, EmptySeq DEF FlattenSeq, n
  <2>2. QED
    BY <1>1, <1>3, <1>4, <1>5, <2>1 DEF Flattens, n, W
<1>6. CASE n # 0
  <2> DEFINE f == CHOOSE h : F(h)
             h == [i \in 1 .. n |-> g[i]]
  <2>1. FlattenSeq(s) = f[n]
    BY <1>6, Zenon DEF FlattenSeq, n
  <2>2. F(h)
    <3>1. 1 \in 1 .. n => g[1] = s[1]
      <4>1. SUFFICES ASSUME 1 \in 1 .. n PROVE g[1] = s[1]
        OBVIOUS
      <4>2. 1 - 1 = 0
        OBVIOUS
      <4>3. g[1] = << >> \o s[1] /\ s[1] \in W
        BY <1>1, <1>3, <1>4, <4>1, <4>2
      <4>4. << >> \o s[1] = s[1]
        BY <4>3, ConcatEmptySeq DEF W
      <4>5. QED
        BY <4>3, <4>4
    <3>2. \A i \in 1 .. n : i # 1 => i - 1 \in 1 .. n
      BY <1>1
    <3>3. \A i \in 1 .. n : h[i] = IF i = 1 THEN s[i] ELSE h[i - 1] \o s[i]
      BY <1>4, <3>1, <3>2
    <3>4. QED
      BY <3>3
  <2> HIDE DEF F, h
  <2>3. F(f)
    BY <2>2
  <2> HIDE DEF f
  <2> DEFINE e == [i \in 0 .. n |-> IF i = 0 THEN << >> ELSE f[i]]
  <2>4. \A i \in 1 .. n : f[i] = IF i = 1 THEN s[i] ELSE f[i - 1] \o s[i]
    BY <2>3, Zenon DEF F
  <2>5. /\ e[0] = << >> /\ \A i \in 1 .. n : e[i] = f[i]
        /\ \A i \in 1 .. n : i # 1 => e[i - 1] = f[i - 1]
    BY <1>1
  <2> HIDE DEF e
  <2>6. ASSUME NEW i \in 1 .. n, e[i - 1] = g[i - 1] PROVE e[i] = g[i]
    <3>1. CASE i = 1
      <4>1. e[1] = s[1] /\ s[1] \in W
        BY <1>1, <2>4, <2>5, <3>1
      <4>2. 1 - 1 = 0
        OBVIOUS
      <4>3. g[1] = << >> \o s[1]
        BY <1>3, <1>4, <3>1, <4>2
      <4>4. << >> \o s[1] = s[1]
        BY <4>1, ConcatEmptySeq DEF W
      <4>5. QED
        BY <3>1, <4>1, <4>3, <4>4
    <3>2. CASE i # 1
      <4>1. e[i] = f[i - 1] \o s[i] /\ e[i - 1] = f[i - 1] /\ g[i] = g[i - 1] \o s[i]
        BY <1>4, <2>4, <2>5, <3>2
      <4>2. QED
        BY <2>6, <4>1
    <3>3. QED
      BY <3>1, <3>2
  <2>7. e[0] = g[0]
    BY <1>3, <2>5
  <2>8. e[n] = g[n]
    <3>1. \A i \in 0 .. n : e[i] = g[i]
      <4>1. SameSteps(e, g, n)
        BY <2>6, <2>7 DEF SameSteps
      <4>2. QED
        BY <1>1, <4>1, StepsAgree
    <3>2. QED
      BY <1>1, <3>1
  <2>9. FlattenSeq(s) = g[n]
    BY <1>1, <1>6, <2>1, <2>5, <2>8
  <2>10. QED
    BY <1>3, <1>4, <2>9 DEF Flattens, n, W
<1>7. QED
  BY <1>5, <1>6

LEMMA FlattenIs ==
  ASSUME NEW V, NEW s \in Seq(Seq(V)), NEW g, Flattens(g, s)
  PROVE  FlattenSeq(s) = g[Len(s)]
<1>1. PICK h \in [0 .. Len(s) -> Seq(V)] : Flattens(h, s) /\ FlattenSeq(s) = h[Len(s)]
  BY FlattenDefined
<1>2. Len(s) \in Nat
  BY LenProperties
<1>3. SameSteps(h, g, Len(s))
  BY <1>1 DEF Flattens, SameSteps
<1>4. \A k \in 0 .. Len(s) : h[k] = g[k]
  BY <1>2, <1>3, StepsAgree
<1>5. QED
  BY <1>1, <1>2, <1>4

LEMMA FlattenType ==
  ASSUME NEW V, NEW s \in Seq(Seq(V))
  PROVE  FlattenSeq(s) \in Seq(V)
<1>1. PICK h \in [0 .. Len(s) -> Seq(V)] : FlattenSeq(s) = h[Len(s)]
  BY FlattenDefined
<1>2. Len(s) \in Nat
  BY LenProperties
<1>3. QED
  BY <1>1, <1>2

LEMMA FlattenEmpty == FlattenSeq(<< >>) = << >>
BY EmptySequences DEF FlattenSeq

AssociativeOn(V) == \A x, y, z \in Seq(V) : (x \o y) \o z = x \o (y \o z)

LEMMA Associative == ASSUME NEW V PROVE AssociativeOn(V)
<1> SUFFICES ASSUME NEW x \in Seq(V), NEW y \in Seq(V), NEW z \in Seq(V)
             PROVE  (x \o y) \o z = x \o (y \o z)
  BY DEF AssociativeOn
<1>1. QED
  BY ConcatAssociative

\* One more sequence in front, and one behind.
LEMMA FlattenCons ==
  ASSUME NEW V, NEW s \in Seq(Seq(V)), NEW x \in Seq(V)
  PROVE  FlattenSeq(<< x >> \o s) = x \o FlattenSeq(s)
<1> DEFINE n == Len(s)
           t == << x >> \o s
<1>1. PICK g \in [0 .. n -> Seq(V)] : Flattens(g, s) /\ FlattenSeq(s) = g[n]
  BY FlattenDefined
<1>2. /\ n \in Nat /\ t \in Seq(Seq(V)) /\ Len(t) = n + 1 /\ t[1] = x
      /\ \A k \in 2 .. n + 1 : t[k] = s[k - 1]
  BY ConsProperties, LenProperties
<1>3. \A k \in 1 .. n : s[k] \in Seq(V)
  BY ElementOfSeq
<1> HIDE DEF t
<1> DEFINE h == [k \in 0 .. n + 1 |-> IF k = 0 THEN << >> ELSE x \o g[k - 1]]
<1>4. /\ h[0] = << >> /\ h[1] = x \o g[0]
      /\ \A k \in 1 .. n + 1 : h[k] = x \o g[k - 1]
      /\ \A k \in 2 .. n + 1 : h[k - 1] = x \o g[k - 2]
  <2>1. \A k \in 2 .. n + 1 : k - 1 \in 0 .. n + 1 /\ k - 1 # 0 /\ (k - 1) - 1 = k - 2
    BY <1>2
  <2>2. 1 \in 0 .. n + 1 /\ 0 \in 0 .. n + 1 /\ 1 - 1 = 0
    BY <1>2
  <2>3. h[0] = << >> /\ h[1] = x \o g[0]
    BY <2>2
  <2>4. \A k \in 1 .. n + 1 : h[k] = x \o g[k - 1]
    BY <1>2
  <2> HIDE DEF h
  <2>5. \A k \in 2 .. n + 1 : k - 1 \in 1 .. n + 1
    BY <1>2
  <2>6. \A k \in 2 .. n + 1 : h[k - 1] = x \o g[(k - 1) - 1]
    BY <2>4, <2>5
  <2>7. QED
    BY <2>1, <2>3, <2>4, <2>6
<1> HIDE DEF h
<1>5. ASSUME NEW k \in 1 .. n + 1 PROVE h[k] = h[k - 1] \o t[k]
  <2>1. CASE k = 1
    <3>1. h[1] = x \o << >> /\ h[0] \o t[1] = << >> \o x
      BY <1>1, <1>2, <1>4 DEF Flattens
    <3>2. x \o << >> = x /\ << >> \o x = x
      BY ConcatEmptySeq
    <3>3. 1 - 1 = 0
      OBVIOUS
    <3>4. QED
      BY <2>1, <3>1, <3>2, <3>3
  <2>2. CASE k # 1
    <3>1. k \in 2 .. n + 1 /\ k - 1 \in 1 .. n /\ k - 2 \in 0 .. n /\ (k - 1) - 1 = k - 2
      BY <1>2, <2>2
    <3>2. g[k - 1] = g[k - 2] \o s[k - 1] /\ g[k - 2] \in Seq(V)
      BY <1>1, <3>1 DEF Flattens
    <3>3. x \o (g[k - 2] \o s[k - 1]) = (x \o g[k - 2]) \o s[k - 1]
      <4>1. s[k - 1] \in Seq(V)
        BY <1>3, <3>1
      <4>2. AssociativeOn(V)
        BY Associative, Zenon
      <4>3. QED
        BY <3>2, <4>1, <4>2, Zenon DEF AssociativeOn
    <3>4. QED
      BY <1>2, <1>4, <3>1, <3>2, <3>3
  <2>3. QED
    BY <2>1, <2>2
<1>6. Flattens(h, t)
  BY <1>2, <1>4, <1>5 DEF Flattens
<1>7. FlattenSeq(t) = h[n + 1]
  BY <1>2, <1>6, FlattenIs
<1>8. n + 1 \in 1 .. n + 1 /\ (n + 1) - 1 = n
  BY <1>2
<1>9. FlattenSeq(t) = x \o FlattenSeq(s)
  BY <1>1, <1>4, <1>7, <1>8
<1>10. QED
  BY <1>9 DEF t

LEMMA FlattenAppend ==
  ASSUME NEW V, NEW s \in Seq(Seq(V)), NEW x \in Seq(V)
  PROVE  FlattenSeq(Append(s, x)) = FlattenSeq(s) \o x
<1> DEFINE n == Len(s)
           t == Append(s, x)
<1>2. /\ n \in Nat /\ t \in Seq(Seq(V)) /\ Len(t) = n + 1 /\ t[n + 1] = x
      /\ \A k \in 1 .. n : t[k] = s[k]
  BY AppendProperties, LenProperties
<1> HIDE DEF t
<1>3. PICK h \in [0 .. n + 1 -> Seq(V)] : Flattens(h, t) /\ FlattenSeq(t) = h[n + 1]
  BY <1>2, FlattenDefined
<1>4. Flattens(h, s)
  <2>1. \A k \in 1 .. n : k \in 1 .. Len(t)
    BY <1>2
  <2>2. QED
    BY <1>2, <1>3, <2>1 DEF Flattens
<1>5. FlattenSeq(s) = h[n]
  BY <1>4, FlattenIs
<1>6. h[n + 1] = h[n] \o x
  <2>1. n + 1 \in 1 .. Len(t) /\ (n + 1) - 1 = n
    BY <1>2
  <2>2. QED
    BY <1>2, <1>3, <2>1 DEF Flattens
<1>7. FlattenSeq(t) = FlattenSeq(s) \o x
  BY <1>3, <1>5, <1>6
<1>8. QED
  BY <1>7 DEF t

\* What follows in s from its n-th sequence on.
From(s, n) == FlattenSeq(SubSeq(s, n, Len(s)))

LEMMA FromProperties ==
  ASSUME NEW V, NEW s \in Seq(Seq(V))
  PROVE  /\ From(s, 1) = FlattenSeq(s) /\ From(s, Len(s) + 1) = << >>
         /\ \A n \in 1 .. Len(s) + 1 : From(s, n) \in Seq(V)
         /\ \A n \in 1 .. Len(s) : s[n] \in Seq(V) /\ From(s, n) = s[n] \o From(s, n + 1)
<1>1. Len(s) \in Nat
  BY LenProperties
<1>2. SubSeq(s, 1, Len(s)) = s /\ SubSeq(s, Len(s) + 1, Len(s)) = << >>
  BY <1>1, SubSeqFull, SubSeqEmpty
<1>3. ASSUME NEW n \in 1 .. Len(s) + 1
      PROVE  SubSeq(s, n, Len(s)) \in Seq(Seq(V)) /\ From(s, n) \in Seq(V)
  <2>1. Len(s) \in n - 1 .. Len(s)
    BY <1>1
  <2>2. SubSeq(s, n, Len(s)) \in Seq(Seq(V))
    BY <1>1, <2>1, SubSeqProperties
  <2>3. QED
    BY <2>2, FlattenType DEF From
<1>4. ASSUME NEW n \in 1 .. Len(s)
      PROVE  s[n] \in Seq(V) /\ From(s, n) = s[n] \o From(s, n + 1)
  <2>1. n + 1 \in 1 .. Len(s) + 1 /\ Len(s) \in n .. Len(s) /\ Len(s) \in 1 .. Len(s)
    BY <1>1
  <2>2. s[n] \in Seq(V) /\ SubSeq(s, n + 1, Len(s)) \in Seq(Seq(V))
    BY <1>3, <2>1, ElementOfSeq
  <2>3. SubSeq(s, n, Len(s)) = << s[n] >> \o SubSeq(s, n + 1, Len(s))
    BY <2>1, SubSeqRecursiveFirst
  <2>4. QED
    BY <2>2, <2>3, FlattenCons DEF From
<1>5. QED
  BY <1>2, <1>3, <1>4, FlattenEmpty DEF From

\* A sequence of what the elements of another one are mapped to.
LEMMA MappedSequence ==
  ASSUME NEW S, NEW s \in Seq(S), NEW W, NEW t, t = [k \in DOMAIN s |-> t[k]],
         \A k \in 1 .. Len(s) : t[k] \in W
  PROVE  t \in Seq(W) /\ Len(t) = Len(s) /\ DOMAIN t = 1 .. Len(s)
<1>1. Len(s) \in Nat /\ DOMAIN s = 1 .. Len(s)
  BY LenProperties
<1>2. t \in [1 .. Len(s) -> W]
  BY <1>1
<1>3. t \in Seq(W)
  BY <1>1, <1>2
<1>4. DOMAIN t = 1 .. Len(s) /\ DOMAIN t = 1 .. Len(t) /\ Len(t) \in Nat
  BY <1>1, <1>2, <1>3, LenProperties
<1>5. Len(t) = Len(s)
  BY <1>1, <1>4
<1>6. QED
  BY <1>3, <1>4, <1>5

-----------------------------------------------------------------------------
(* What is kept of a sequence.                                             *)

\* g is what is kept of the first k elements of s, for each k.
Keeps(g, s) == g[0] = << >> /\ \A k \in 1 .. Len(s) : g[k] = AndIfNew(g[k - 1], s[k])

LEMMA AndIfNewType ==
  ASSUME NEW V, NEW t \in Seq(V), NEW x \in V PROVE AndIfNew(t, x) \in Seq(V)
BY AppendProperties DEF AndIfNew

LEMMA DistinctDefined ==
  ASSUME NEW V, NEW s \in Seq(V)
  PROVE  \E g \in [0 .. Len(s) -> Seq(V)] : Keeps(g, s) /\ Distinct(s) = g[Len(s)]
<1> DEFINE n == Len(s)
           W == Seq(V)
           D == 0 .. n
           step == [p \in (1 .. n) \X W |-> AndIfNew(p[2], s[p[1]])]
           F(f) == f = [k \in D |-> IF k = 0 THEN << >> ELSE AndIfNew(f[k - 1], s[k])]
           f == CHOOSE h : F(h)
<1>1. Distinct(s) = f[n]
  BY Zenon DEF Distinct
<1>2. n \in Nat /\ << >> \in W /\ \A k \in 1 .. n : s[k] \in V
  BY LenProperties, ElementOfSeq
<1>3. \A k \in 1 .. n : \A v \in W : AndIfNew(v, s[k]) \in W
  BY <1>2, AndIfNewType
<1> HIDE DEF n, W
<1>4. \A k \in 1 .. n : \A v \in W :
        step[<< k, v >>] = AndIfNew(v, s[k]) /\ step[<< k, v >>] \in W
  BY <1>3
<1> HIDE DEF step
<1>5. PICK g \in [0 .. n -> W] : StepsFrom(g, << >>, step, n)
  <2>1. Stepwise(step, n, W)
    BY <1>4 DEF Stepwise
  <2>2. QED
    BY <1>2, <2>1, StepsDefine
<1>6. g[0] = << >> /\ \A k \in 1 .. n : g[k] = AndIfNew(g[k - 1], s[k])
  <2>1. ASSUME NEW k \in 1 .. n PROVE g[k] = AndIfNew(g[k - 1], s[k])
    <3>1. k - 1 \in 0 .. n
      BY <1>2
    <3>2. g[k - 1] \in W
      BY <1>5, <3>1
    <3>3. QED
      BY <1>4, <1>5, <3>2 DEF StepsFrom
  <2>2. QED
    BY <1>5, <2>1 DEF StepsFrom
<1>7. F(g)
  <2>1. \A k \in D : k = 0 \/ k \in 1 .. n
    BY <1>2
  <2>2. \A k \in D : g[k] = IF k = 0 THEN << >> ELSE AndIfNew(g[k - 1], s[k])
    BY <1>6, <2>1, Zenon
  <2>3. QED
    BY <1>5, <2>2
<1> HIDE DEF F
<1>8. F(f)
  BY <1>7
<1> HIDE DEF f
<1>9. f[0] = << >> /\ \A k \in 1 .. n : f[k] = AndIfNew(f[k - 1], s[k])
  <2>1. 0 \in D /\ \A k \in 1 .. n : k \in D /\ k # 0
    BY <1>2
  <2>2. \A k \in D : f[k] = IF k = 0 THEN << >> ELSE AndIfNew(f[k - 1], s[k])
    BY <1>8, Zenon DEF F
  <2> HIDE DEF D
  <2>3. QED
    BY <2>1, <2>2
<1>10. \A k \in 0 .. n : f[k] = g[k]
  <2>1. SameSteps(f, g, n)
    BY <1>6, <1>9 DEF SameSteps
  <2>2. QED
    BY <1>2, <2>1, StepsAgree
<1>11. Distinct(s) = g[n]
  BY <1>1, <1>2, <1>10
<1>12. QED
  BY <1>6, <1>11 DEF Keeps, n, W

LEMMA DistinctEmpty == Distinct(<< >>) = << >>
<1>1. << >> \in Seq({}) /\ Len(<< >>) = 0
  OBVIOUS
<1>2. PICK g \in [0 .. 0 -> Seq({})] : Keeps(g, << >>) /\ Distinct(<< >>) = g[0]
  BY <1>1, DistinctDefined
<1>3. QED
  BY <1>2 DEF Keeps

\* What is kept depends only on what was kept before.
LEMMA DistinctAppend ==
  ASSUME NEW V, NEW s \in Seq(V), NEW x \in V
  PROVE  /\ Distinct(s) \in Seq(V)
         /\ Distinct(Append(s, x)) = AndIfNew(Distinct(s), x)
<1> DEFINE n == Len(s)
           t == Append(s, x)
<1>1. PICK g \in [0 .. n -> Seq(V)] : Keeps(g, s) /\ Distinct(s) = g[n]
  BY DistinctDefined
<1>2. /\ n \in Nat /\ t \in Seq(V) /\ Len(t) = n + 1 /\ t[n + 1] = x
      /\ \A k \in 1 .. n : t[k] = s[k]
  BY AppendProperties, LenProperties
<1> HIDE DEF t, n
<1>3. PICK h \in [0 .. Len(t) -> Seq(V)] : Keeps(h, t) /\ Distinct(t) = h[Len(t)]
  BY <1>2, DistinctDefined
<1>4. \A k \in 0 .. n : g[k] = h[k]
  <2>1. \A k \in 1 .. n : k \in 1 .. Len(t)
    BY <1>2
  <2>2. g[0] = h[0]
    BY <1>1, <1>3 DEF Keeps
  <2>3. \A k \in 1 .. n : g[k - 1] = h[k - 1] => g[k] = h[k]
    BY <1>1, <1>2, <1>3, <2>1 DEF Keeps, n
  <2>4. n \in Nat
    BY <1>2
  <2>5. SameSteps(g, h, n)
    BY <2>2, <2>3 DEF SameSteps
  <2>6. QED
    BY <2>4, <2>5, StepsAgree
<1>5. h[n + 1] = AndIfNew(h[n], x)
  <2>1. n + 1 \in 1 .. Len(t) /\ (n + 1) - 1 = n
    BY <1>2
  <2>2. QED
    BY <1>2, <1>3, <2>1 DEF Keeps
<1>6. Distinct(t) = AndIfNew(Distinct(s), x)
  BY <1>1, <1>2, <1>3, <1>4, <1>5
<1>7. Distinct(s) \in Seq(V)
  BY <1>1, <1>2
<1>8. QED
  BY <1>6, <1>7 DEF t

\* A value that is appended again is not kept again.
LEMMA AndIfNewAgain ==
  ASSUME NEW V, NEW t \in Seq(V), NEW x \in V
  PROVE  AndIfNew(AndIfNew(t, x), x) = AndIfNew(t, x)
<1>1. Contains(AndIfNew(t, x), x)
  <2>1. CASE Contains(t, x)
    BY <2>1 DEF AndIfNew
  <2>2. CASE ~ Contains(t, x)
    <3>1. Append(t, x)[Len(t) + 1] = x /\ Len(Append(t, x)) = Len(t) + 1 /\ Len(t) \in Nat
      BY AppendProperties, LenProperties
    <3>2. Len(t) + 1 \in 1 .. Len(Append(t, x))
      BY <3>1
    <3>3. Contains(Append(t, x), x)
      BY <3>1, <3>2 DEF Contains
    <3>4. QED
      BY <2>2, <3>3 DEF AndIfNew
  <2>3. QED
    BY <2>1, <2>2
<1>2. QED
  BY <1>1 DEF AndIfNew

-----------------------------------------------------------------------------
(* What there is to read.                                                  *)

Trees(ds) == [k \in DOMAIN ds |-> PreOrder[ds[k]]]

LEMMA PreOrderDefined ==
  ASSUME NEW d \in DOMAIN Dies
  PROVE  /\ PreOrder[d] \in Seq(DOMAIN Dies)
         /\ PreOrder[d] = << d >> \o FlattenSeq(Trees(Dies[d].children))
<1> DEFINE D == DOMAIN Dies
           V == Seq(D)
           Sub(e, h) == [k \in DOMAIN Dies[e].children |-> h[Dies[e].children[k]]]
           F(g) == g = [e \in D |-> << e >> \o FlattenSeq(Sub(e, g))]
           next == [e \in D |-> Range(Dies[e].children)]
           A == UNION {{e} \X [next[e] -> V] : e \in D}
           step == [p \in A |-> << p[1] >> \o FlattenSeq(Sub(p[1], p[2]))]
           pre == CHOOSE g : F(g)
<1>1. PreOrder = pre
  BY Zenon DEF PreOrder
<1>2. ASSUME NEW e \in D
      PROVE  /\ Dies[e].children \in Seq(D) /\ next[e] \in SUBSET D
             /\ \A k \in 1 .. Len(Dies[e].children) : Dies[e].children[k] \in next[e]
  <2>1. Dies[e].children \in Seq(D)
    BY DieProperties
  <2>2. DOMAIN Dies[e].children = 1 .. Len(Dies[e].children)
    BY <2>1, LenProperties
  <2>3. \A k \in 1 .. Len(Dies[e].children) : Dies[e].children[k] \in D
    BY <2>1, ElementOfSeq
  <2>4. QED
    BY <2>1, <2>2, <2>3 DEF Range
<1>3. Ends(D, next)
  <2>1. next \in [D -> SUBSET D]
    BY <1>2
  <2>2. \A S \in SUBSET D : S # {} => \E e \in S : next[e] \cap S = {}
    BY NestingAssumption
  <2>3. QED
    BY <2>1, <2>2 DEF Ends
<1>4. ASSUME NEW e \in D, NEW h, \A x \in next[e] : h[x] \in V
      PROVE  << e >> \o FlattenSeq(Sub(e, h)) \in V
  <2> DEFINE t == Sub(e, h)
  <2>1. t = [k \in DOMAIN Dies[e].children |-> t[k]]
    OBVIOUS
  <2>2. \A k \in 1 .. Len(Dies[e].children) : t[k] \in V
    <3>1. DOMAIN Dies[e].children = 1 .. Len(Dies[e].children)
      BY <1>2, LenProperties
    <3>2. QED
      BY <1>2, <1>4, <3>1
  <2> HIDE DEF t
  <2>3. t \in Seq(V)
    BY <1>2, <2>1, <2>2, MappedSequence
  <2>4. FlattenSeq(t) \in V
    BY <2>3, FlattenType
  <2>5. << e >> \o FlattenSeq(t) \in V
    BY <2>4, ConsProperties
  <2>6. QED
    BY <2>5 DEF t
<1>5. ASSUME NEW e \in D, NEW h \in [next[e] -> V]
      PROVE  /\ step[<< e, h >>] = << e >> \o FlattenSeq(Sub(e, h))
             /\ step[<< e, h >>] \in V
  <2>1. << e, h >> \in A
    <3> HIDE DEF V, next
    <3>1. << e, h >> \in {e} \X [next[e] -> V]
      OBVIOUS
    <3>2. QED
      BY <3>1
  <2> HIDE DEF A, Sub
  <2>2. step[<< e, h >>] = << e >> \o FlattenSeq(Sub(e, h))
    BY <2>1
  <2> HIDE DEF step
  <2>3. QED
    BY <1>4, <2>2
<1> HIDE DEF step, A
<1>6. PICK g \in [D -> V] : Follows(g, D, next, step)
  <2> HIDE DEF D, next, V
  <2>1. StepsIn(D, next, V, step)
    BY <1>5 DEF StepsIn
  <2>2. QED
    BY <1>3, <2>1, RecursionIsDefined
<1>7. ASSUME NEW e \in D PROVE g[e] = << e >> \o FlattenSeq(Sub(e, g))
  <2> DEFINE h == [x \in next[e] |-> g[x]]
  <2>1. h \in [next[e] -> V] /\ \A x \in next[e] : h[x] = g[x]
    BY <1>2, <1>6
  <2>2. g[e] = step[<< e, h >>]
    BY <1>6 DEF Follows
  <2> HIDE DEF h
  <2>3. \A k \in DOMAIN Dies[e].children : h[Dies[e].children[k]] = g[Dies[e].children[k]]
    <3>1. DOMAIN Dies[e].children = 1 .. Len(Dies[e].children)
      BY <1>2, LenProperties
    <3>2. QED
      BY <1>2, <2>1, <3>1
  <2>4. Sub(e, h) = Sub(e, g)
    BY <2>3
  <2> HIDE DEF Sub
  <2>5. QED
    BY <1>5, <2>1, <2>2, <2>4
<1>8. F(g)
  <2> HIDE DEF Sub
  <2>1. QED
    BY <1>6, <1>7
<1> HIDE DEF F
<1>9. F(pre)
  BY <1>8
<1> HIDE DEF pre
\* Also what was chosen are sequences of DIEs.
<1>10. \A e \in D : pre[e] = << e >> \o FlattenSeq(Sub(e, pre))
  BY <1>9, Zenon DEF F
<1>11. \A e \in D : pre[e] \in V
  <2> DEFINE S == {e \in D : pre[e] \notin V}
  <2>1. ASSUME NEW e \in S PROVE next[e] \cap S # {}
    <3>1. SUFFICES ASSUME next[e] \cap S = {} PROVE FALSE
      OBVIOUS
    <3>2. \A x \in next[e] : pre[x] \in V
      BY <1>2, <3>1
    <3>3. e \in D /\ pre[e] \notin V
      BY <2>1
    <3>4. << e >> \o FlattenSeq(Sub(e, pre)) \in V
      BY <1>4, <3>2, <3>3
    <3> HIDE DEF Sub
    <3>5. QED
      BY <1>10, <3>3, <3>4
  <2>2. S \in SUBSET D
    OBVIOUS
  <2> HIDE DEF S
  <2>3. S = {}
    BY <1>3, <2>1, <2>2 DEF Ends
  <2>4. QED
    BY <2>3 DEF S
<1>12. Sub(d, pre) = Trees(Dies[d].children)
  BY <1>1 DEF Trees
<1> HIDE DEF Sub
<1>13. QED
  BY <1>1, <1>10, <1>11, <1>12

LEMMA TreesType ==
  ASSUME NEW ds \in Seq(DOMAIN Dies)
  PROVE  /\ Trees(ds) \in Seq(Seq(DOMAIN Dies)) /\ Len(Trees(ds)) = Len(ds)
         /\ \A k \in 1 .. Len(ds) : Trees(ds)[k] = PreOrder[ds[k]]
<1>1. DOMAIN ds = 1 .. Len(ds)
  BY LenProperties
<1>2. \A k \in 1 .. Len(ds) : Trees(ds)[k] = PreOrder[ds[k]]
  BY <1>1 DEF Trees
<1>3. \A k \in 1 .. Len(ds) : PreOrder[ds[k]] \in Seq(DOMAIN Dies)
  BY ElementOfSeq, PreOrderDefined
<1> DEFINE t == Trees(ds)
           W == Seq(DOMAIN Dies)
<1>4. t = [k \in DOMAIN ds |-> t[k]]
  BY DEF Trees
<1>5. \A k \in 1 .. Len(ds) : t[k] \in W
  BY <1>2, <1>3
<1> HIDE DEF t, W
<1>6. t \in Seq(W) /\ Len(t) = Len(ds)
  BY <1>4, <1>5, MappedSequence
<1>7. QED
  BY <1>2, <1>6 DEF t, W

\* The macros that operations define.
MacroValues == UNION {{Macro(ops[k]) : k \in DOMAIN ops} : ops \in OpSeqs}

ImportsOf(ops) == {ops[k].offset : k \in {j \in DOMAIN ops : ops[j].op = "import"
                                                             /\ ops[j].offset # 0}}

ExpandedBy(ops, imported) == [k \in DOMAIN ops |-> MacrosOf(ops[k], imported)]
Expanded(ops) == ExpandedBy(ops, ImportedMacros)

LEMMA ExpandedType ==
  ASSUME NEW ops \in OpSeqs, NEW h, \A o \in ImportsOf(ops) : h[o] \in Seq(MacroValues)
  PROVE  /\ ExpandedBy(ops, h) \in Seq(Seq(MacroValues))
         /\ Len(ExpandedBy(ops, h)) = Len(ops) /\ Len(ops) \in Nat
         /\ \A k \in 1 .. Len(ops) : ExpandedBy(ops, h)[k] = MacrosOf(ops[k], h)
<1>1. Len(ops) \in Nat /\ DOMAIN ops = 1 .. Len(ops) /\ IsSequence(ops)
  BY OpProperties, UnitsAssumption, LengthAndDomain DEF OpSeqs
<1>2. ASSUME NEW k \in 1 .. Len(ops) PROVE MacrosOf(ops[k], h) \in Seq(MacroValues)
  <2>1. CASE ops[k].op \in {"define", "undef"}
    <3>1. Macro(ops[k]) \in MacroValues
      BY <1>1 DEF MacroValues
    <3>2. << Macro(ops[k]) >> \in Seq(MacroValues)
      BY <3>1
    <3>3. QED
      BY <2>1, <3>2 DEF MacrosOf
  <2>2. CASE ops[k].op = "import" /\ ops[k].offset # 0
    <3>1. ops[k].offset \in ImportsOf(ops)
      BY <1>1, <2>2 DEF ImportsOf
    <3>2. QED
      BY <2>2, <3>1 DEF MacrosOf
  <2>3. CASE ops[k].op \notin {"define", "undef"} /\ ~ (ops[k].op = "import" /\ ops[k].offset # 0)
    <3>1. << >> \in Seq(MacroValues)
      OBVIOUS
    <3>2. MacrosOf(ops[k], h) = << >>
      BY <2>3 DEF MacrosOf
    <3>3. QED
      BY <3>1, <3>2
  <2>4. QED
    BY <2>1, <2>2, <2>3
<1> DEFINE t == ExpandedBy(ops, h)
<1>3. /\ t = [k \in DOMAIN ops |-> t[k]]
      /\ \A k \in 1 .. Len(ops) : t[k] = MacrosOf(ops[k], h)
  BY <1>1 DEF ExpandedBy
<1>4. PICK S : ops \in Seq(S)
  BY <1>1 DEF IsSequence
<1>5. \A k \in 1 .. Len(ops) : t[k] \in Seq(MacroValues)
  BY <1>2, <1>3
<1> HIDE DEF t
<1>6. t \in Seq(Seq(MacroValues)) /\ Len(t) = Len(ops)
  BY <1>3, <1>4, <1>5, MappedSequence
<1>7. QED
  BY <1>1, <1>3, <1>6 DEF t

LEMMA ExpandedSame ==
  ASSUME NEW ops \in OpSeqs, NEW g, NEW h, \A o \in ImportsOf(ops) : g[o] = h[o]
  PROVE  ExpandedBy(ops, g) = ExpandedBy(ops, h)
<1>1. ASSUME NEW k \in DOMAIN ops PROVE MacrosOf(ops[k], g) = MacrosOf(ops[k], h)
  <2>1. ops[k].op = "import" /\ ops[k].offset # 0 => ops[k].offset \in ImportsOf(ops)
    BY DEF ImportsOf
  <2>2. QED
    BY <2>1 DEF MacrosOf
<1>2. QED
  BY <1>1 DEF ExpandedBy

LEMMA ImportedMacrosDefined ==
  ASSUME NEW o \in DOMAIN Imports
  PROVE  /\ ImportedMacros[o] \in Seq(MacroValues)
         /\ ImportedMacros[o] = FlattenSeq(Expanded(Imports[o]))
<1> DEFINE D == DOMAIN Imports
           V == Seq(MacroValues)
           F(g) == g = [e \in D |-> FlattenSeq(ExpandedBy(Imports[e], g))]
           next == [e \in D |-> ImportsOf(Imports[e])]
           A == UNION {{e} \X [next[e] -> V] : e \in D}
           step == [p \in A |-> FlattenSeq(ExpandedBy(Imports[p[1]], p[2]))]
           all == CHOOSE g : F(g)
<1>1. ImportedMacros = all
  BY Zenon DEF ImportedMacros, ExpandedBy
<1>2. ASSUME NEW e \in D PROVE Imports[e] \in OpSeqs /\ next[e] \in SUBSET D
  <2>1. Imports[e] \in OpSeqs /\ \A k \in DOMAIN Imports[e] : IsMacroOp(Imports[e][k])
    BY UnitsAssumption DEF OpSeqs
  <2>2. QED
    BY <2>1 DEF ImportsOf, IsMacroOp
<1>3. Ends(D, next)
  <2>1. next \in [D -> SUBSET D]
    BY <1>2
  <2>2. ASSUME NEW S \in SUBSET D, S # {} PROVE \E e \in S : next[e] \cap S = {}
    <3>1. PICK e \in S : \A k \in DOMAIN Imports[e] :
                           Imports[e][k].op = "import" => Imports[e][k].offset \notin S
      BY <2>2, NestingAssumption
    <3>2. QED
      BY <3>1 DEF ImportsOf
  <2> HIDE DEF next
  <2>3. QED
    BY <2>1, <2>2 DEF Ends
<1>4. ASSUME NEW e \in D, NEW h, \A x \in next[e] : h[x] \in V
      PROVE  FlattenSeq(ExpandedBy(Imports[e], h)) \in V
  <2>1. ExpandedBy(Imports[e], h) \in Seq(V)
    BY <1>2, <1>4, ExpandedType
  <2>2. QED
    BY <2>1, FlattenType
<1>5. ASSUME NEW e \in D, NEW h \in [next[e] -> V]
      PROVE  /\ step[<< e, h >>] = FlattenSeq(ExpandedBy(Imports[e], h))
             /\ step[<< e, h >>] \in V
  <2>1. << e, h >> \in A
    <3> HIDE DEF V, next
    <3>1. << e, h >> \in {e} \X [next[e] -> V]
      OBVIOUS
    <3>2. QED
      BY <3>1
  <2> HIDE DEF A
  <2>2. step[<< e, h >>] = FlattenSeq(ExpandedBy(Imports[e], h))
    BY <2>1
  <2> HIDE DEF step
  <2>3. QED
    BY <1>4, <2>2
<1> HIDE DEF step, A
<1>6. PICK g \in [D -> V] : Follows(g, D, next, step)
  <2> HIDE DEF D, next, V
  <2>1. StepsIn(D, next, V, step)
    BY <1>5 DEF StepsIn
  <2>2. QED
    BY <1>3, <2>1, RecursionIsDefined
<1>7. ASSUME NEW e \in D PROVE g[e] = FlattenSeq(ExpandedBy(Imports[e], g))
  <2> DEFINE h == [x \in next[e] |-> g[x]]
  <2>1. h \in [next[e] -> V] /\ \A x \in next[e] : h[x] = g[x]
    BY <1>2, <1>6
  <2>2. g[e] = step[<< e, h >>]
    BY <1>6 DEF Follows
  <2> HIDE DEF h
  <2>3. ExpandedBy(Imports[e], h) = ExpandedBy(Imports[e], g)
    BY <1>2, <2>1, ExpandedSame
  <2>4. QED
    BY <1>5, <2>1, <2>2, <2>3
<1>8. F(g)
  BY <1>6, <1>7
<1> HIDE DEF F
<1>9. F(all)
  BY <1>8
<1> HIDE DEF all
<1>10. \A e \in D : all[e] = FlattenSeq(ExpandedBy(Imports[e], all))
  BY <1>9, Zenon DEF F
<1>11. \A e \in D : all[e] \in V
  <2> DEFINE S == {e \in D : all[e] \notin V}
  <2>1. ASSUME NEW e \in S PROVE next[e] \cap S # {}
    <3>1. SUFFICES ASSUME next[e] \cap S = {} PROVE FALSE
      OBVIOUS
    <3>2. \A x \in next[e] : all[x] \in V
      BY <1>2, <3>1
    <3>3. e \in D /\ all[e] \notin V
      BY <2>1
    <3>4. FlattenSeq(ExpandedBy(Imports[e], all)) \in V
      BY <1>4, <3>2, <3>3
    <3>5. QED
      BY <1>10, <3>3, <3>4
  <2>2. S \in SUBSET D
    OBVIOUS
  <2> HIDE DEF S
  <2>3. S = {}
    BY <1>3, <2>1, <2>2 DEF Ends
  <2>4. QED
    BY <2>3 DEF S
<1>12. QED
  BY <1>1, <1>10, <1>11 DEF Expanded

LEMMA ExpandedIs ==
  ASSUME NEW ops \in OpSeqs
  PROVE  /\ Expanded(ops) \in Seq(Seq(MacroValues)) /\ Len(Expanded(ops)) = Len(ops)
         /\ Len(ops) \in Nat
         /\ \A k \in 1 .. Len(ops) : Expanded(ops)[k] = MacrosOf(ops[k], ImportedMacros)
<1>1. \A o \in ImportsOf(ops) : ImportedMacros[o] \in Seq(MacroValues)
  <2>1. \A k \in DOMAIN ops : IsMacroOp(ops[k])
    BY UnitsAssumption DEF OpSeqs
  <2>2. \A o \in ImportsOf(ops) : o \in DOMAIN Imports
    BY <2>1 DEF ImportsOf, IsMacroOp
  <2>3. QED
    BY <2>2, ImportedMacrosDefined
<1>2. QED
  BY <1>1, ExpandedType DEF Expanded

-----------------------------------------------------------------------------
(* What is still to visit.                                                 *)

\* The DIEs that a call of getDieAndSiblings has yet to visit, with those of
\* the calls it has yet to make.
FrameTodo(f) ==
  (CASE f.phase = "visit"  -> PreOrder[f.dies[f.i]]
     [] f.phase = "handle" -> FlattenSeq(Trees(Dies[f.dies[f.i]].children))
     [] OTHER              -> << >>)
  \o From(Trees(f.dies), f.i + 1)

StackTodo(q) == FlattenSeq([k \in DOMAIN q |-> FrameTodo(q[k])])

\* A call in which no library call failed.
CleanFrames == {f \in Frames : FrameOK(f) /\ f.ok /\ f.i # 0}

LEMMA FrameFacts ==
  ASSUME NEW f \in CleanFrames
  PROVE  /\ f.dies \in Seq(DOMAIN Dies) /\ Len(f.dies) \in Nat
         /\ f.i \in 1 .. Len(f.dies) /\ f.i + 1 \in 1 .. Len(f.dies) + 1
         /\ f.dies[f.i] \in DOMAIN Dies
         /\ From(Trees(f.dies), f.i + 1) \in Seq(DOMAIN Dies)
         /\ From(Trees(f.dies), f.i) = PreOrder[f.dies[f.i]] \o From(Trees(f.dies), f.i + 1)
         /\ From(Trees(f.dies), Len(f.dies) + 1) = << >>
         /\ Dies[f.dies[f.i]].children \in Seq(DOMAIN Dies)
         /\ Trees(Dies[f.dies[f.i]].children) \in Seq(Seq(DOMAIN Dies))
         /\ PreOrder[f.dies[f.i]] \in Seq(DOMAIN Dies)
         /\ FlattenSeq(Trees(Dies[f.dies[f.i]].children)) \in Seq(DOMAIN Dies)
<1> DEFINE t == Trees(f.dies)
           d == f.dies[f.i]
<1>1. f.dies \in Seq(DOMAIN Dies) /\ Len(f.dies) \in Nat /\ f.i \in 1 .. Len(f.dies)
  <2>1. f.dies \in Seq(DOMAIN Dies) /\ f.i \in Nat /\ f.i # 0 /\ f.i <= Len(f.dies)
    BY DEF CleanFrames, Frames, FrameOK
  <2>2. QED
    BY <2>1, LenProperties
<1>2. f.i + 1 \in 1 .. Len(f.dies) + 1 /\ d \in DOMAIN Dies
  BY <1>1, ElementOfSeq
<1>3. t \in Seq(Seq(DOMAIN Dies)) /\ Len(t) = Len(f.dies) /\ t[f.i] = PreOrder[d]
  BY <1>1, TreesType
<1> HIDE DEF t, d
<1>4. /\ From(t, f.i + 1) \in Seq(DOMAIN Dies) /\ From(t, Len(f.dies) + 1) = << >>
      /\ From(t, f.i) = PreOrder[d] \o From(t, f.i + 1)
  BY <1>1, <1>2, <1>3, FromProperties
<1>5. Dies[d].children \in Seq(DOMAIN Dies) /\ PreOrder[d] \in Seq(DOMAIN Dies)
  BY <1>2, DieProperties, PreOrderDefined
<1>6. /\ Trees(Dies[d].children) \in Seq(Seq(DOMAIN Dies))
      /\ FlattenSeq(Trees(Dies[d].children)) \in Seq(DOMAIN Dies)
  BY <1>5, TreesType, FlattenType
<1>7. QED
  BY <1>1, <1>2, <1>4, <1>5, <1>6 DEF t, d

LEMMA FrameTodoType ==
  ASSUME NEW f \in CleanFrames PROVE FrameTodo(f) \in Seq(DOMAIN Dies)
<1> DEFINE a == CASE f.phase = "visit"  -> PreOrder[f.dies[f.i]]
                  [] f.phase = "handle" -> FlattenSeq(Trees(Dies[f.dies[f.i]].children))
                  [] OTHER              -> << >>
<1>1. a \in Seq(DOMAIN Dies)
  BY FrameFacts, EmptySequences
<1> HIDE DEF a
<1>2. a \o From(Trees(f.dies), f.i + 1) \in Seq(DOMAIN Dies)
  BY <1>1, FrameFacts, ConcatProperties
<1>3. QED
  BY <1>2 DEF FrameTodo, a

LEMMA VisitTodo ==
  ASSUME NEW f \in CleanFrames, f.phase = "visit"
  PROVE  FrameTodo(f) = From(Trees(f.dies), f.i)
BY FrameFacts DEF FrameTodo

LEMMA SiblingTodo ==
  ASSUME NEW f \in CleanFrames, f.phase = "sibling"
  PROVE  FrameTodo(f) = From(Trees(f.dies), f.i + 1)
<1>1. FrameTodo(f) = << >> \o From(Trees(f.dies), f.i + 1)
  BY DEF FrameTodo
<1>2. \A s \in Seq(DOMAIN Dies) : << >> \o s = s
  BY ConcatEmptySeq
<1>3. QED
  BY <1>1, <1>2, FrameFacts

\* Before its handler a DIE is the next one.
LEMMA VisitedTodo ==
  ASSUME NEW f \in CleanFrames, NEW g \in CleanFrames, f.phase = "visit", g.phase = "handle",
         g.dies = f.dies, g.i = f.i
  PROVE  FrameTodo(f) = << f.dies[f.i] >> \o FrameTodo(g)
<1> DEFINE d == f.dies[f.i]
           c == FlattenSeq(Trees(Dies[d].children))
           r == From(Trees(f.dies), f.i + 1)
<1>1. FrameTodo(f) = PreOrder[d] \o r
  BY DEF FrameTodo
<1>2. FrameTodo(g) = c \o r
  BY DEF FrameTodo
<1>3. /\ d \in DOMAIN Dies /\ c \in Seq(DOMAIN Dies) /\ r \in Seq(DOMAIN Dies)
  BY FrameFacts
<1>4. PreOrder[d] = << d >> \o c
  BY <1>3, PreOrderDefined
<1> HIDE DEF d, c, r
<1>5. << d >> \in Seq(DOMAIN Dies)
  BY <1>3
<1>6. \A x, y, z \in Seq(DOMAIN Dies) : (x \o y) \o z = x \o (y \o z)
  BY ConcatAssociative
<1>7. (<< d >> \o c) \o r = << d >> \o (c \o r)
  BY <1>3, <1>5, <1>6, Zenon
<1>8. QED
  BY <1>1, <1>2, <1>4, <1>7 DEF d

\* After it, its children are, by a call of their own.
LEMMA ChildrenTodo ==
  ASSUME NEW f \in CleanFrames, NEW g \in CleanFrames, f.phase = "handle", g.phase = "sibling",
         g.dies = f.dies, g.i = f.i
  PROVE  /\ FrameTodo(f) = FlattenSeq(Trees(Dies[f.dies[f.i]].children)) \o FrameTodo(g)
         /\ Dies[f.dies[f.i]].children = << >> =>
              FlattenSeq(Trees(Dies[f.dies[f.i]].children)) = << >>
<1>1. FrameTodo(g) = From(Trees(f.dies), f.i + 1)
  BY SiblingTodo
<1>2. ASSUME Dies[f.dies[f.i]].children = << >>
      PROVE  FlattenSeq(Trees(Dies[f.dies[f.i]].children)) = << >>
  <2>1. Trees(<< >>) \in Seq(Seq(DOMAIN Dies)) /\ Len(Trees(<< >>)) = 0
    BY TreesType, EmptySequences
  <2>2. Trees(<< >>) = << >>
    BY <2>1, EmptySeq
  <2>3. QED
    BY <1>2, <2>2, FlattenEmpty
<1>3. QED
  BY <1>1, <1>2 DEF FrameTodo

\* The call for a sequence of DIEs has all of their trees to visit.
LEMMA NewTodo ==
  ASSUME NEW ds \in Seq(DOMAIN Dies), ds # << >>
  PROVE  Frame(ds) \in CleanFrames /\ FrameTodo(Frame(ds)) = FlattenSeq(Trees(ds))
<1>1. FrameOK(Frame(ds)) /\ Frame(ds).phase = "visit"
  BY NewFrame
<1>2. Frame(ds) \in CleanFrames
  BY <1>1 DEF CleanFrames, FrameOK, Frame
<1>3. FrameTodo(Frame(ds)) = From(Trees(ds), 1)
  <2>1. FrameTodo(Frame(ds)) = From(Trees(Frame(ds).dies), Frame(ds).i)
    BY <1>1, <1>2, VisitTodo
  <2>2. QED
    BY <2>1 DEF Frame
<1>4. From(Trees(ds), 1) = FlattenSeq(Trees(ds))
  BY TreesType, FromProperties
<1>5. QED
  BY <1>2, <1>3, <1>4

LEMMA RootTodo ==
  ASSUME NEW d \in DOMAIN Dies
  PROVE  Frame(<< d >>) \in CleanFrames /\ FrameTodo(Frame(<< d >>)) = PreOrder[d]
<1>1. << d >> \in Seq(DOMAIN Dies) /\ << d >> # << >> /\ Len(<< d >>) = 1 /\ << d >>[1] = d
  OBVIOUS
<1>2. /\ Trees(<< d >>) \in Seq(Seq(DOMAIN Dies)) /\ Len(Trees(<< d >>)) = 1
      /\ Trees(<< d >>)[1] = PreOrder[d]
  <2> DEFINE s == << d >>
  <2>1. s \in Seq(DOMAIN Dies) /\ Len(s) = 1 /\ s[1] = d /\ 1 \in 1 .. 1
    BY <1>1
  <2> HIDE DEF s
  <2>2. /\ Trees(s) \in Seq(Seq(DOMAIN Dies)) /\ Len(Trees(s)) = 1
        /\ Trees(s)[1] = PreOrder[d]
    BY <2>1, TreesType
  <2>3. QED
    BY <2>2 DEF s
<1>3. Frame(<< d >>) \in CleanFrames /\ FrameTodo(Frame(<< d >>)) = FlattenSeq(Trees(<< d >>))
  BY <1>1, NewTodo
<1> DEFINE t == Trees(<< d >>)
<1> HIDE DEF t
<1>4. From(t, 1) = FlattenSeq(t) /\ From(t, 1) = PreOrder[d] \o From(t, 2) /\ From(t, 2) = << >>
  <2>1. t \in Seq(Seq(DOMAIN Dies)) /\ Len(t) = 1 /\ t[1] = PreOrder[d]
    BY <1>2 DEF t
  <2>2. 1 \in 1 .. Len(t) /\ Len(t) + 1 = 2 /\ 1 + 1 = 2
    BY <2>1
  <2>3. QED
    BY <2>1, <2>2, FromProperties
<1>5. PreOrder[d] \o << >> = PreOrder[d]
  BY PreOrderDefined, ConcatEmptySeq
<1>6. QED
  BY <1>3, <1>4, <1>5 DEF t

LEMMA StackTodoType ==
  ASSUME NEW q \in Seq(CleanFrames)
  PROVE  /\ [k \in DOMAIN q |-> FrameTodo(q[k])] \in Seq(Seq(DOMAIN Dies))
         /\ StackTodo(q) \in Seq(DOMAIN Dies)
<1> DEFINE t == [k \in DOMAIN q |-> FrameTodo(q[k])]
<1>1. DOMAIN q = 1 .. Len(q) /\ \A k \in 1 .. Len(q) : q[k] \in CleanFrames
  BY LenProperties, ElementOfSeq
<1>2. t = [k \in DOMAIN q |-> t[k]] /\ \A k \in 1 .. Len(q) : t[k] \in Seq(DOMAIN Dies)
  BY <1>1, FrameTodoType
<1> HIDE DEF t
<1>3. t \in Seq(Seq(DOMAIN Dies))
  BY <1>2, MappedSequence
<1>4. QED
  BY <1>3, FlattenType DEF StackTodo, t

LEMMA StackTodoEmpty == StackTodo(<< >>) = << >>
<1>1. [k \in DOMAIN << >> |-> FrameTodo(<< >>[k])] = << >>
  <2> DEFINE t == [k \in DOMAIN << >> |-> FrameTodo(<< >>[k])]
  <2>1. t \in Seq({}) /\ Len(t) = 0
    <3>1. << >> \in Seq({}) /\ Len(<< >>) = 0
      OBVIOUS
    <3>2. t = [k \in DOMAIN << >> |-> t[k]] /\ \A k \in 1 .. Len(<< >>) : t[k] \in {}
      BY <3>1
    <3> HIDE DEF t
    <3>3. QED
      BY <3>1, <3>2, MappedSequence
  <2> HIDE DEF t
  <2>2. t = << >>
    BY <2>1, EmptySeq
  <2>3. QED
    BY <2>2 DEF t
<1>2. QED
  BY <1>1, FlattenEmpty DEF StackTodo

LEMMA StackTodoCons ==
  ASSUME NEW q \in Seq(CleanFrames), NEW f \in CleanFrames
  PROVE  StackTodo(<< f >> \o q) = FrameTodo(f) \o StackTodo(q)
<1> DEFINE p == << f >> \o q
           t == [k \in DOMAIN q |-> FrameTodo(q[k])]
           x == FrameTodo(f)
           u == [k \in DOMAIN p |-> FrameTodo(p[k])]
<1>1. t \in Seq(Seq(DOMAIN Dies)) /\ x \in Seq(DOMAIN Dies)
  BY StackTodoType, FrameTodoType
<1>2. /\ p \in Seq(CleanFrames) /\ Len(p) = Len(q) + 1 /\ p[1] = f
      /\ \A k \in 2 .. Len(q) + 1 : p[k] = q[k - 1]
      /\ Len(q) \in Nat /\ DOMAIN q = 1 .. Len(q) /\ DOMAIN p = 1 .. Len(q) + 1
  <2>1. /\ p \in Seq(CleanFrames) /\ Len(p) = Len(q) + 1 /\ p[1] = f
        /\ \A k \in 2 .. Len(q) + 1 : p[k] = q[k - 1]
    BY ConsProperties
  <2> HIDE DEF p
  <2>2. QED
    BY <2>1, LenProperties
<1> HIDE DEF p
<1>3. /\ DOMAIN u = 1 .. Len(q) + 1 /\ u[1] = x
      /\ \A k \in 2 .. Len(q) + 1 : u[k] = t[k - 1]
  <2>1. \A k \in 2 .. Len(q) + 1 : k \in DOMAIN p /\ k - 1 \in DOMAIN q
    BY <1>2
  <2>2. 1 \in DOMAIN p
    BY <1>2
  <2>3. QED
    BY <1>2, <2>1, <2>2
<1>4. Len(t) = Len(q) /\ u \in Seq(Seq(DOMAIN Dies))
  <2>1. DOMAIN t = 1 .. Len(q) /\ DOMAIN t = 1 .. Len(t) /\ Len(t) \in Nat
    BY <1>1, <1>2, LenProperties
  <2>2. u \in Seq(Seq(DOMAIN Dies))
    BY <1>2, StackTodoType
  <2> HIDE DEF t
  <2>3. Len(t) = Len(q)
    BY <1>2, <2>1
  <2>4. QED
    BY <2>2, <2>3
<1> HIDE DEF t, x, u
<1>5. u = << x >> \o t
  <2> DEFINE w == << x >> \o t
  <2>1. /\ w \in Seq(Seq(DOMAIN Dies)) /\ Len(w) = Len(q) + 1 /\ w[1] = x
        /\ \A k \in 2 .. Len(q) + 1 : w[k] = t[k - 1]
    <3>1. /\ w \in Seq(Seq(DOMAIN Dies)) /\ Len(w) = Len(t) + 1 /\ w[1] = x
          /\ \A k \in 2 .. Len(t) + 1 : w[k] = t[k - 1]
      BY <1>1, ConsProperties
    <3> HIDE DEF w
    <3>2. QED
      BY <1>4, <3>1
  <2> HIDE DEF w
  <2>2. \A k \in 1 .. Len(q) + 1 : u[k] = w[k]
    <3>1. \A k \in 1 .. Len(q) + 1 : k = 1 \/ k \in 2 .. Len(q) + 1
      BY <1>2
    <3>2. QED
      BY <1>3, <2>1, <3>1
  <2>3. Len(u) = Len(w)
    <3>1. DOMAIN u = 1 .. Len(u) /\ Len(u) \in Nat
      BY <1>4, LenProperties
    <3>2. QED
      BY <1>2, <1>3, <2>1, <3>1
  <2>4. u = w
    BY <1>4, <2>1, <2>2, <2>3, SeqEqual
  <2>5. QED
    BY <2>4 DEF w
<1>6. FlattenSeq(u) = x \o FlattenSeq(t)
  BY <1>1, <1>5, FlattenCons
<1>7. QED
  BY <1>6 DEF StackTodo, u, x, t, p

-----------------------------------------------------------------------------
(* A run in which no call fails visits all DIEs.                           *)

NoneFailed == failed = << >> /\ pc # "aborted"

UnitTrees == [u \in DOMAIN Units |-> PreOrder[Units[u].root]]

\* The first unit that is not walked yet, apart from the calls in progress.
NextRoot == IF pc \in {"macros", "files"} THEN unit ELSE unit + 1

WalkTodo == StackTodo(stack) \o From(UnitTrees, NextRoot)

CleanWalk ==
  NoneFailed => /\ return_value = "OK" /\ stack \in Seq(CleanFrames)
           /\ seen \o WalkTodo = AllDies

LEMMA UnitTreesType ==
  /\ UnitTrees \in Seq(Seq(DOMAIN Dies)) /\ Len(UnitTrees) = Len(Units)
  /\ \A u \in 1 .. Len(Units) : UnitTrees[u] = PreOrder[Units[u].root]
  /\ AllDies = FlattenSeq(UnitTrees)
<1>1. IsSeq(Units) /\ DOMAIN Units = 1 .. Len(Units)
  BY UnitsAssumption, LensAreNat
<1>2. PICK S : Units \in Seq(S)
  BY <1>1 DEF IsSeq
<1>3. ASSUME NEW u \in 1 .. Len(Units)
      PROVE  UnitTrees[u] = PreOrder[Units[u].root] /\ UnitTrees[u] \in Seq(DOMAIN Dies)
  <2>1. Units[u].root \in DOMAIN Dies
    BY UnitProperties
  <2>2. QED
    BY <1>1, <2>1, PreOrderDefined DEF UnitTrees
<1>4. UnitTrees = [u \in DOMAIN Units |-> UnitTrees[u]]
  BY DEF UnitTrees
<1>5. UnitTrees \in Seq(Seq(DOMAIN Dies)) /\ Len(UnitTrees) = Len(Units)
  BY <1>2, <1>3, <1>4, MappedSequence
<1>6. AllDies = FlattenSeq(UnitTrees)
  BY DEF AllDies, AllUnits, UnitDies, UnitTrees
<1>7. QED
  BY <1>3, <1>5, <1>6

\* What a step does in a run in which no call fails.
LEMMA NoCallFails ==
  ASSUME Failures, failed' = << >>
  PROVE  \A call, where : ~ Fail(call, where)
<1> SUFFICES ASSUME NEW call, NEW where, Fail(call, where) PROVE FALSE
  OBVIOUS
<1> DEFINE e == << call, where >>
<1>1. failed' = Append(failed, e)
  BY DEF Fail
<1> HIDE DEF e
<1>2. Len(failed') = Len(failed) + 1 /\ Len(failed) \in Nat
  BY <1>1, AppendedSequence DEF Failures
<1>3. Len(failed') = 0
  BY EmptySequences
<1>4. QED
  BY <1>2, <1>3

LEMMA CleanBefore == ASSUME Inv, [Next]_vars, NoneFailed' PROVE NoneFailed
<1> USE DEF Goto
<1>1. FailedGrows /\ IsSequence(failed)
  BY FailuresStep DEF Inv, Failures
<1>2. \A x : ~ Failed(x)'
  BY EmptySequences DEF Failed, Range, NoneFailed
<1>3. failed = << >>
  <2>1. PICK S : failed \in Seq(S)
    BY <1>1 DEF IsSequence
  <2>2. \A k \in DOMAIN failed : Failed(failed[k])
    BY DEF Failed, Range
  <2>3. DOMAIN failed = {}
    BY <1>1, <1>2, <2>2 DEF FailedGrows
  <2>4. QED
    BY <2>1, <2>3, LenProperties, EmptySeq
<1>4. ASSUME pc = "aborted" PROVE FALSE
  <2>1. pc' # "aborted"
    BY DEF NoneFailed
  <2>2. CASE UNCHANGED vars
    BY <1>4, <2>1, <2>2 DEF vars
  <2>3. CASE Open \/ InitDwarf \/ CheckEndianness \/ Write
    BY <1>4, <2>3 DEF Open, InitDwarf, CheckEndianness, Write
  <2>4. CASE ReadSection \/ ReadElfSymbol \/ EndSections
    BY <1>4, <2>4 DEF ReadSection, ReadElfSymbol, EndSections
  <2>5. CASE NextUnit \/ HeaderFails \/ EndUnits \/ ReadSourceFiles
    BY <1>4, <2>5 DEF NextUnit, HeaderFails, EndUnits, ReadSourceFiles
  <2>6. CASE DefineMacro \/ ImportMacros \/ OtherOp \/ MacroOpFails \/ EndMacroLoop
    BY <1>4, <2>6 DEF DefineMacro, ImportMacros, OtherOp, MacroOpFails, EndMacroLoop, AtOp
  <2>7. CASE VisitDie \/ HandleDie \/ VisitChildren \/ NextSibling \/ RestartAtRoot
    BY <1>4, <2>7 DEF VisitDie, HandleDie, VisitChildren, NextSibling, RestartAtRoot, AtDie
  <2>8. QED
    BY <2>2, <2>3, <2>4, <2>5, <2>6, <2>7 DEF Next
<1>5. QED
  BY <1>3, <1>4 DEF NoneFailed

\* The calls in progress: the one under way and its callers.
LEMMA CleanTop ==
  ASSUME Inv, pc = "walk", stack \in Seq(CleanFrames)
  PROVE  /\ Top \in CleanFrames /\ Tail(stack) \in Seq(CleanFrames)
         /\ stack = << Top >> \o Tail(stack) /\ Die = Top.dies[Top.i]
         /\ StackTodo(stack) = FrameTodo(Top) \o StackTodo(Tail(stack))
         /\ StackTodo(Tail(stack)) \in Seq(DOMAIN Dies)
         /\ FrameTodo(Top) \in Seq(DOMAIN Dies)
<1>1. stack # << >>
  BY TopProperties DEF Inv
<1>2. Top \in CleanFrames /\ Tail(stack) \in Seq(CleanFrames) /\ stack = << Top >> \o Tail(stack)
  BY <1>1, HeadTailProperties DEF Top
<1>3. StackTodo(<< Top >> \o Tail(stack)) = FrameTodo(Top) \o StackTodo(Tail(stack))
  BY <1>2, StackTodoCons
<1>4. QED
  BY <1>2, <1>3, StackTodoType, FrameTodoType DEF Die

\* The rest of the units.
LEMMA UnitsTodo ==
  ASSUME Scalars
  PROVE  /\ From(UnitTrees, NextRoot) \in Seq(DOMAIN Dies)
         /\ pc \in {"macros", "files", "walk"} =>
              From(UnitTrees, unit) = PreOrder[Units[unit].root] \o From(UnitTrees, unit + 1)
         /\ unit = Len(Units) => From(UnitTrees, unit + 1) = << >>
<1>1. unit \in 0 .. Len(Units) /\ Len(Units) \in Nat /\ unit + 1 \in 1 .. Len(Units) + 1
  BY LensAreNat DEF Scalars
<1>2. pc \in {"macros", "files", "walk"} => unit \in 1 .. Len(Units)
  BY <1>1 DEF Scalars
<1>3. NextRoot \in 1 .. Len(Units) + 1
  BY <1>1, <1>2 DEF NextRoot
<1>4. QED
  BY <1>1, <1>2, <1>3, UnitTreesType, FromProperties

LEMMA SetTopTodo ==
  ASSUME Inv, pc = "walk", stack \in Seq(CleanFrames), NEW f \in CleanFrames, SetTop(f)
  PROVE  /\ stack' \in Seq(CleanFrames)
         /\ StackTodo(stack') = FrameTodo(f) \o StackTodo(Tail(stack))
<1>1. Tail(stack) \in Seq(CleanFrames)
  BY CleanTop
<1>2. /\ << f >> \o Tail(stack) \in Seq(CleanFrames)
      /\ StackTodo(<< f >> \o Tail(stack)) = FrameTodo(f) \o StackTodo(Tail(stack))
  BY <1>1, ConsProperties, StackTodoCons
<1>3. QED
  BY <1>2 DEF SetTop

LEMMA VisitDieTodo ==
  ASSUME Inv, CleanWalk, NoneFailed, NoneFailed', VisitDie PROVE CleanWalk'
<1>1. /\ pc = "walk" /\ pc' = pc /\ unit' = unit /\ return_value' = return_value
      /\ seen' = Append(seen, Die) /\ Top.phase = "visit"
      /\ SetTop([Top EXCEPT !.phase = "handle", !.adds = Dies[Die].adds])
  BY NoCallFails DEF VisitDie, AtDie, Inv, NoneFailed, walkRest
<1>2. /\ stack \in Seq(CleanFrames) /\ return_value = "OK"
      /\ seen \o (StackTodo(stack) \o From(UnitTrees, unit + 1)) = AllDies
  BY <1>1 DEF CleanWalk, WalkTodo, NextRoot
<1> DEFINE f == [Top EXCEPT !.phase = "handle", !.adds = Dies[Die].adds]
<1>3. Top \in CleanFrames /\ Top \in Frames /\ Die = Top.dies[Top.i] /\ Die \in DOMAIN Dies
  BY <1>1, <1>2, CleanTop, TopProperties DEF CleanFrames, Inv
<1>4. Dies[Die].adds \in Seq(Adds) /\ RestOf(Dies[Die].adds, Dies[Die].adds)
  <2>1. Dies[Die].adds \in Seq(Adds)
    BY <1>3, DieProperties
  <2>2. SubSeq(Dies[Die].adds, 1, Len(Dies[Die].adds)) = Dies[Die].adds
        /\ Len(Dies[Die].adds) \in Nat
    BY <2>1, SubSeqFull, LenProperties
  <2>3. QED
    BY <2>1, <2>2 DEF RestOf
<1>5. Updated(f, Top, Top.i, "handle", Dies[Die].adds, Top.ok)
  BY <1>3, <1>4, FrameUpdates DEF Frames, Phases
<1> HIDE DEF f
<1>6. f \in CleanFrames /\ f.phase = "handle" /\ f.dies = Top.dies /\ f.i = Top.i
  <2>1. FrameOK(f)
    BY <1>3, <1>4, <1>5 DEF Updated, FrameOK, CleanFrames
  <2>2. QED
    BY <1>3, <1>5, <2>1 DEF Updated, CleanFrames
<1>7. FrameTodo(Top) = << Die >> \o FrameTodo(f)
  BY <1>1, <1>3, <1>6, VisitedTodo
<1>8. /\ stack' \in Seq(CleanFrames)
      /\ StackTodo(stack') = FrameTodo(f) \o StackTodo(Tail(stack))
  BY <1>1, <1>2, <1>6, SetTopTodo DEF f
<1> DEFINE a == seen
           b == << Die >>
           c == FrameTodo(f)
           d == StackTodo(Tail(stack))
           e == From(UnitTrees, unit + 1)
<1>9. a \o (((b \o c) \o d) \o e) = (a \o b) \o ((c \o d) \o e)
  <2>1. a \in Seq(DOMAIN Dies)
    BY <1>1, UnitsTodo DEF Inv, Scalars, NextRoot
  <2>2. b \in Seq(DOMAIN Dies)
    BY <1>3
  <2>3. c \in Seq(DOMAIN Dies) /\ d \in Seq(DOMAIN Dies)
    BY <1>1, <1>2, <1>3, <1>6, CleanTop, FrameTodoType
  <2>4. e \in Seq(DOMAIN Dies)
    BY <1>1, UnitsTodo DEF Inv, Scalars, NextRoot
  <2> HIDE DEF a, b, c, d, e
  <2>5. AssociativeOn(DOMAIN Dies)
    BY Associative, Zenon
  <2>6. \A x, y \in Seq(DOMAIN Dies) : x \o y \in Seq(DOMAIN Dies)
    BY ConcatProperties
  <2>7. (b \o c) \o d = b \o (c \o d)
    BY <2>2, <2>3, <2>5, Zenon DEF AssociativeOn
  <2> DEFINE v == c \o d
             w == v \o e
  <2>8. v \in Seq(DOMAIN Dies)
    BY <2>3, <2>6, Zenon
  <2> HIDE DEF v
  <2>9. w \in Seq(DOMAIN Dies)
    BY <2>4, <2>6, <2>8, Zenon
  <2>10. (b \o v) \o e = b \o (v \o e)
    BY <2>2, <2>4, <2>5, <2>8, Zenon DEF AssociativeOn
  <2> HIDE DEF w
  <2>11. (a \o b) \o w = a \o (b \o w)
    BY <2>1, <2>2, <2>5, <2>9, Zenon DEF AssociativeOn
  <2>12. QED
    BY <2>7, <2>10, <2>11, Zenon DEF v, w
<1>10. seen' = a \o b
  BY <1>1, <1>3, AppendIsConcat DEF Inv, Scalars
<1>11. StackTodo(stack) = (b \o c) \o d
  BY <1>1, <1>2, <1>7, CleanTop
<1>12. seen' \o (StackTodo(stack') \o e) = AllDies
  BY <1>2, <1>8, <1>9, <1>10, <1>11
<1>13. WalkTodo' = StackTodo(stack') \o e
  BY <1>1 DEF WalkTodo, NextRoot
<1>14. QED
  BY <1>1, <1>2, <1>8, <1>12, <1>13 DEF CleanWalk

LEMMA HandleDieTodo ==
  ASSUME Inv, CleanWalk, NoneFailed, NoneFailed', HandleDie PROVE CleanWalk'
<1> USE DEF Goto
<1>1. /\ pc = "walk" /\ pc' = pc /\ unit' = unit /\ return_value' = return_value
      /\ seen' = seen /\ Top.phase = "handle" /\ Top.adds # << >>
      /\ SetTop([Top EXCEPT !.adds = Tail(@)])
  BY DEF HandleDie, AtDie, NoneFailed, walkRest
<1>2. /\ stack \in Seq(CleanFrames) /\ return_value = "OK"
      /\ seen \o (StackTodo(stack) \o From(UnitTrees, unit + 1)) = AllDies
  BY <1>1 DEF CleanWalk, WalkTodo, NextRoot
<1> DEFINE f == [Top EXCEPT !.adds = Tail(Top.adds)]
<1>3. Top \in CleanFrames /\ Top \in Frames /\ Die = Top.dies[Top.i] /\ Die \in DOMAIN Dies
      /\ FrameOK(Top) /\ Top.i # 0
  BY <1>1, <1>2, CleanTop, TopProperties DEF CleanFrames, Inv
<1>4. RestOf(Tail(Top.adds), Dies[Die].adds) /\ Tail(Top.adds) \in Seq(Adds)
  <2>1. Dies[Die].adds \in Seq(Adds) /\ RestOf(Top.adds, Dies[Die].adds)
    BY <1>1, <1>3, DieProperties DEF FrameOK
  <2>2. RestOf(Tail(Top.adds), Dies[Die].adds)
    BY <1>1, <2>1, RestProperties
  <2>3. QED
    BY <2>1, <2>2, RestProperties
<1>5. Updated(f, Top, Top.i, Top.phase, Tail(Top.adds), Top.ok)
  <2>1. Top.i \in Nat /\ Top.phase \in Phases /\ Top.ok \in BOOLEAN
    BY <1>3 DEF Frames
  <2>2. QED
    BY <1>3, <1>4, <2>1, FrameUpdates
<1> HIDE DEF f
<1>6. f \in CleanFrames /\ f.phase = Top.phase /\ f.dies = Top.dies /\ f.i = Top.i
  <2>1. f.dies[f.i] = Die /\ f.i <= Len(f.dies)
    BY <1>3, <1>5 DEF Updated, FrameOK
  <2>2. FrameOK(f)
    BY <1>1, <1>4, <1>5, <2>1 DEF Updated, FrameOK
  <2>3. QED
    BY <1>3, <1>5, <2>2 DEF Updated, CleanFrames
<1>7. FrameTodo(Top) = FrameTodo(f)
  BY <1>6 DEF FrameTodo
<1>8. /\ stack' \in Seq(CleanFrames)
      /\ StackTodo(stack') = FrameTodo(f) \o StackTodo(Tail(stack))
  BY <1>1, <1>2, <1>6, SetTopTodo DEF f
<1>9. StackTodo(stack') = StackTodo(stack)
  BY <1>1, <1>2, <1>7, <1>8, CleanTop
<1>10. QED
  BY <1>1, <1>2, <1>8, <1>9 DEF CleanWalk, WalkTodo, NextRoot

LEMMA VisitChildrenTodo ==
  ASSUME Inv, CleanWalk, NoneFailed, NoneFailed', VisitChildren PROVE CleanWalk'
<1> DEFINE cs == Dies[Die].children
           f == [Top EXCEPT !.phase = "sibling"]
           new == IF cs = << >> THEN << >> ELSE << Frame(cs) >>
           R == StackTodo(Tail(stack))
           C == FlattenSeq(Trees(cs))
<1>1. /\ pc = "walk" /\ pc' = pc /\ unit' = unit /\ return_value' = return_value
      /\ seen' = seen /\ Top.phase = "handle" /\ Top.adds = << >>
      /\ stack' = new \o << f >> \o Tail(stack)
  BY NoCallFails DEF VisitChildren, AtDie, Inv, NoneFailed, walkRest
<1>2. /\ stack \in Seq(CleanFrames) /\ return_value = "OK"
      /\ seen \o (StackTodo(stack) \o From(UnitTrees, unit + 1)) = AllDies
  BY <1>1 DEF CleanWalk, WalkTodo, NextRoot
<1>3. Top \in CleanFrames /\ Top \in Frames /\ Die = Top.dies[Top.i] /\ Die \in DOMAIN Dies
      /\ FrameOK(Top) /\ Top.i # 0
  BY <1>1, <1>2, CleanTop, TopProperties DEF CleanFrames, Inv
<1>4. Updated(f, Top, Top.i, "sibling", Top.adds, Top.ok)
  BY <1>3, FrameUpdates DEF Frames, Phases
<1> HIDE DEF f
<1>5. f \in CleanFrames /\ f.phase = "sibling" /\ f.dies = Top.dies /\ f.i = Top.i
  <2>1. FrameOK(f)
    BY <1>1, <1>3, <1>4 DEF Updated, FrameOK
  <2>2. QED
    BY <1>3, <1>4, <2>1 DEF Updated, CleanFrames
<1>6. FrameTodo(Top) = C \o FrameTodo(f) /\ (cs = << >> => C = << >>)
  BY <1>1, <1>3, <1>5, ChildrenTodo
<1>7. /\ Tail(stack) \in Seq(CleanFrames) /\ R \in Seq(DOMAIN Dies)
      /\ StackTodo(stack) = FrameTodo(Top) \o R
  BY <1>1, <1>2, CleanTop
<1>8. cs \in Seq(DOMAIN Dies) /\ FrameTodo(f) \in Seq(DOMAIN Dies) /\ C \in Seq(DOMAIN Dies)
  BY <1>3, <1>5, FrameTodoType, FrameFacts
<1> DEFINE rest == << f >> \o Tail(stack)
<1>9. rest \in Seq(CleanFrames) /\ StackTodo(rest) = FrameTodo(f) \o R
  BY <1>5, <1>7, ConsProperties, StackTodoCons
<1>10. ASSUME cs # << >> PROVE Frame(cs) \in CleanFrames /\ FrameTodo(Frame(cs)) = C
  BY <1>8, <1>10, NewTodo
<1>11. new \in Seq(CleanFrames) /\ << f >> \in Seq(CleanFrames)
  <2>1. CASE cs = << >>
    BY <1>5, <2>1
  <2>2. CASE cs # << >>
    BY <1>5, <1>10, <2>2
  <2>3. QED
    BY <2>1, <2>2
<1>12. stack' = new \o rest
  BY <1>1, <1>7, <1>11, ConcatAssociative
<1> HIDE DEF rest, R, C, cs
<1>13. stack' \in Seq(CleanFrames) /\ StackTodo(stack') = StackTodo(stack)
  <2>1. CASE cs = << >>
    <3>1. stack' = rest
      BY <1>9, <1>12, <2>1, ConcatEmptySeq
    <3>2. C \o FrameTodo(f) = FrameTodo(f)
      BY <1>6, <1>8, <2>1, ConcatEmptySeq
    <3>3. QED
      BY <1>6, <1>7, <1>9, <3>1, <3>2
  <2>2. CASE cs # << >>
    <3>1. stack' = << Frame(cs) >> \o rest
      BY <1>12, <2>2
    <3>2. stack' \in Seq(CleanFrames) /\ StackTodo(stack') = C \o StackTodo(rest)
      BY <1>9, <1>10, <2>2, <3>1, ConsProperties, StackTodoCons
    <3>3. \A x, y, z \in Seq(DOMAIN Dies) : x \o (y \o z) = (x \o y) \o z
      BY ConcatAssociative
    <3>4. C \o (FrameTodo(f) \o R) = (C \o FrameTodo(f)) \o R
      BY <1>7, <1>8, <3>3, Zenon
    <3>5. QED
      BY <1>6, <1>7, <1>9, <3>2, <3>4
  <2>3. QED
    BY <2>1, <2>2
<1>14. QED
  BY <1>1, <1>2, <1>13 DEF CleanWalk, WalkTodo, NextRoot

LEMMA NextSiblingTodo ==
  ASSUME Inv, CleanWalk, NoneFailed, NoneFailed', NextSibling PROVE CleanWalk'
<1> USE DEF Goto
<1>1. /\ pc = "walk" /\ unit' = unit /\ seen' = seen /\ Top.phase = "sibling"
      /\ \/ /\ Top.i < Len(Top.dies) /\ UNCHANGED << pc, return_value >>
            /\ SetTop([Top EXCEPT !.i = @ + 1, !.phase = "visit"])
         \/ /\ Top.i = Len(Top.dies) /\ stack' = Tail(stack)
            /\ pc' = IF AtTop THEN "headers" ELSE "walk"
            /\ return_value' = IF ~ AtTop THEN return_value
                               ELSE IF Top.ok THEN "OK" ELSE "ERROR"
  BY NoCallFails DEF NextSibling, AtDie, Inv, NoneFailed, walkRest
<1>2. /\ stack \in Seq(CleanFrames) /\ return_value = "OK"
      /\ seen \o (StackTodo(stack) \o From(UnitTrees, unit + 1)) = AllDies
  BY <1>1 DEF CleanWalk, WalkTodo, NextRoot
<1>3. /\ Top \in CleanFrames /\ Top \in Frames /\ FrameOK(Top) /\ Top.i # 0
      /\ Top.ok
  BY <1>1, <1>2, CleanTop, TopProperties DEF CleanFrames, Inv
<1>4. FrameTodo(Top) = From(Trees(Top.dies), Top.i + 1)
  BY <1>1, <1>3, SiblingTodo
<1>5. ASSUME stack' \in Seq(CleanFrames), StackTodo(stack') = StackTodo(stack),
             pc' \in {"walk", "headers"}, return_value' = "OK"
      PROVE  CleanWalk'
  BY <1>1, <1>2, <1>5 DEF CleanWalk, WalkTodo, NextRoot
<1>6. CASE /\ Top.i < Len(Top.dies) /\ UNCHANGED << pc, return_value >>
           /\ SetTop([Top EXCEPT !.i = @ + 1, !.phase = "visit"])
  <2> DEFINE f == [Top EXCEPT !.i = Top.i + 1, !.phase = "visit"]
  <2>1. Top.i \in Nat /\ Top.i + 1 \in Nat /\ Top.i + 1 # 0 /\ Top.adds = << >>
        /\ Top.adds \in Seq(Adds) /\ Top.ok \in BOOLEAN /\ "visit" \in Phases
        /\ Top.dies \in Seq(DOMAIN Dies)
    BY <1>1, <1>3 DEF Frames, Phases, FrameOK
  <2>2. Updated(f, Top, Top.i + 1, "visit", Top.adds, Top.ok)
    BY <1>3, <2>1, FrameUpdates
  <2> HIDE DEF f
  <2>3. f \in CleanFrames /\ f.phase = "visit" /\ f.dies = Top.dies /\ f.i = Top.i + 1
    <3>1. Len(Top.dies) \in Nat
      BY <2>1, LenProperties
    <3>2. f.i <= Len(f.dies)
      BY <1>6, <2>1, <2>2, <3>1 DEF Updated
    <3>3. FrameOK(f)
      BY <2>1, <2>2, <3>2 DEF Updated, FrameOK
    <3>4. QED
      BY <1>3, <2>1, <2>2, <3>3 DEF Updated, CleanFrames
  <2>4. FrameTodo(f) = FrameTodo(Top)
    BY <1>4, <2>3, VisitTodo
  <2>5. /\ stack' \in Seq(CleanFrames)
        /\ StackTodo(stack') = FrameTodo(f) \o StackTodo(Tail(stack))
    BY <1>1, <1>2, <1>6, <2>3, SetTopTodo DEF f
  <2>6. StackTodo(stack') = StackTodo(stack)
    BY <1>1, <1>2, <2>4, <2>5, CleanTop
  <2>7. QED
    BY <1>1, <1>2, <1>5, <1>6, <2>5, <2>6
<1>7. CASE /\ Top.i = Len(Top.dies) /\ stack' = Tail(stack)
           /\ pc' = IF AtTop THEN "headers" ELSE "walk"
           /\ return_value' = IF ~ AtTop THEN return_value
                              ELSE IF Top.ok THEN "OK" ELSE "ERROR"
  <2>1. FrameTodo(Top) = << >>
    BY <1>3, <1>4, <1>7, FrameFacts
  <2>2. /\ Tail(stack) \in Seq(CleanFrames) /\ StackTodo(Tail(stack)) \in Seq(DOMAIN Dies)
        /\ StackTodo(stack) = FrameTodo(Top) \o StackTodo(Tail(stack))
    BY <1>1, <1>2, CleanTop
  <2>3. StackTodo(Tail(stack)) = StackTodo(stack)
    BY <2>1, <2>2, ConcatEmptySeq
  <2>4. QED
    BY <1>2, <1>3, <1>5, <1>7, <2>2, <2>3
<1>8. QED
  BY <1>1, <1>6, <1>7

LEMMA ReadSourceFilesTodo ==
  ASSUME Inv, CleanWalk, NoneFailed, NoneFailed', ReadSourceFiles PROVE CleanWalk'
<1> DEFINE root == Units[unit].root
<1>1. /\ pc = "files" /\ pc' = "walk" /\ unit' = unit /\ return_value' = return_value
      /\ seen' = seen /\ stack' = << Frame(<< root >>) >> /\ stack = << >>
  BY DEF ReadSourceFiles, Goto, Inv, Calls, walkRest
<1>2. /\ return_value = "OK"
      /\ seen \o (StackTodo(<< >>) \o From(UnitTrees, unit)) = AllDies
  BY <1>1 DEF CleanWalk, WalkTodo, NextRoot
<1>3. /\ From(UnitTrees, unit) \in Seq(DOMAIN Dies)
      /\ From(UnitTrees, unit) = PreOrder[root] \o From(UnitTrees, unit + 1)
  BY <1>1, UnitsTodo DEF Inv, NextRoot
<1>4. root \in DOMAIN Dies
  BY <1>1, UnitProperties, LensAreNat DEF Inv, Scalars
<1> HIDE DEF root
<1>5. /\ Frame(<< root >>) \in CleanFrames /\ FrameTodo(Frame(<< root >>)) = PreOrder[root]
      /\ PreOrder[root] \in Seq(DOMAIN Dies)
  BY <1>4, RootTodo, PreOrderDefined
<1> DEFINE c == Frame(<< root >>)
<1> HIDE DEF c
<1>6. stack' \in Seq(CleanFrames) /\ StackTodo(stack') = PreOrder[root]
  <2>1. << >> \in Seq(CleanFrames) /\ c \in CleanFrames
    BY <1>5 DEF c
  <2>2. << c >> \o << >> = << c >> /\ << c >> \in Seq(CleanFrames)
    BY <2>1
  <2>3. StackTodo(<< c >>) = FrameTodo(c) \o << >>
    BY <2>1, <2>2, StackTodoCons, StackTodoEmpty
  <2>4. FrameTodo(c) = PreOrder[root] /\ PreOrder[root] \o << >> = PreOrder[root]
    BY <1>5, ConcatEmptySeq DEF c
  <2>5. QED
    BY <1>1, <2>2, <2>3, <2>4 DEF c
<1>7. << >> \o From(UnitTrees, unit) = From(UnitTrees, unit)
  BY <1>3, ConcatEmptySeq
<1>8. seen' \o (StackTodo(stack') \o From(UnitTrees, unit' + 1)) = AllDies
  BY <1>1, <1>2, <1>3, <1>6, <1>7, StackTodoEmpty
<1>9. QED
  BY <1>1, <1>2, <1>6, <1>8 DEF CleanWalk, WalkTodo, NextRoot

LEMMA CleanWalkStep == ASSUME Inv, CleanWalk, [Next]_vars PROVE CleanWalk'
<1> USE DEF Goto
<1> SUFFICES ASSUME NoneFailed' PROVE CleanWalk'
  BY DEF CleanWalk
<1>1. NoneFailed /\ \A call, where : ~ Fail(call, where)
  BY CleanBefore, NoCallFails DEF Inv, NoneFailed
<1>2. ASSUME UNCHANGED << stack, seen, return_value >>, NextRoot' = NextRoot
      PROVE  CleanWalk'
  BY <1>1, <1>2 DEF CleanWalk, WalkTodo
<1>3. ASSUME pc \in {"macros", "files"} <=> pc' \in {"macros", "files"}, UNCHANGED unit
      PROVE  NextRoot' = NextRoot
  BY <1>3 DEF NextRoot
<1>4. CASE Open \/ InitDwarf \/ CheckEndianness \/ Write
  BY <1>2, <1>3, <1>4 DEF Open, InitDwarf, CheckEndianness, Write, walkVars
<1>5. CASE ReadSection \/ ReadElfSymbol \/ EndSections
  BY <1>2, <1>3, <1>5, <1>1 DEF ReadSection, ReadElfSymbol, EndSections, AddElfSymbol, walkVars
<1>6. CASE NextUnit
  <2>1. /\ pc = "headers" /\ pc' \in {"macros", "files"} /\ unit' = unit + 1
        /\ UNCHANGED << stack, seen, return_value >>
    BY <1>1, <1>6 DEF NextUnit, CleanWalk
  <2>2. QED
    BY <1>2, <2>1 DEF NextRoot
<1>7. CASE HeaderFails \/ EndUnits
  <2>1. EndUnits /\ return_value = "OK"
    BY <1>1, <1>7 DEF HeaderFails, CleanWalk
  <2>2. QED
    BY <1>2, <1>3, <2>1 DEF EndUnits
<1>8. CASE DefineMacro \/ ImportMacros \/ OtherOp
  BY <1>1, <1>2, <1>3, <1>8 DEF DefineMacro, ImportMacros, OtherOp, AtOp, macroRest
<1>9. CASE MacroOpFails \/ EndMacroLoop
  BY <1>1, <1>2, <1>3, <1>9 DEF MacroOpFails, EndMacroLoop, macroRest
<1>10. CASE VisitDie \/ HandleDie \/ VisitChildren \/ NextSibling \/ ReadSourceFiles
  BY <1>1, <1>10, VisitDieTodo, HandleDieTodo, VisitChildrenTodo, NextSiblingTodo,
     ReadSourceFilesTodo
<1>11. CASE RestartAtRoot
  <2>1. Top.i # 0
    BY <1>1, <1>11, CleanTop DEF RestartAtRoot, CleanWalk, CleanFrames
  <2>2. QED
    BY <1>11, <2>1 DEF RestartAtRoot
<1>12. CASE UNCHANGED vars
  BY <1>2, <1>3, <1>12 DEF vars, walkVars
<1>13. QED
  BY <1>4, <1>5, <1>6, <1>7, <1>8, <1>9, <1>10, <1>11, <1>12 DEF Next

-----------------------------------------------------------------------------
(* The macros of a run in which no call fails.                             *)

\* The macros that a loop has yet to define.
LoopTodo(l) == From(Expanded(l.ops), l.i)

LoopsTodo(q) == FlattenSeq([k \in DOMAIN q |-> LoopTodo(q[k])])

UnitMacros == [u \in DOMAIN Units |-> FlattenSeq(Expanded(Units[u].macros))]

MacrosTodo == LoopsTodo(macroStack) \o From(UnitMacros, unit + 1)

\* m are the macros defined so far.  Each was handed over twice.
CleanMacros ==
  NoneFailed =>
    /\ defineMacros \in Seq(MacroValues)
    /\ \E m \in Seq(MacroValues) : m \o MacrosTodo = AllMacros
                                   /\ Distinct(defineMacros) = Distinct(m)

LEMMA UnitMacrosType ==
  /\ UnitMacros \in Seq(Seq(MacroValues)) /\ Len(UnitMacros) = Len(Units)
  /\ \A u \in 1 .. Len(Units) : UnitMacros[u] = FlattenSeq(Expanded(Units[u].macros))
  /\ AllMacros = FlattenSeq(UnitMacros)
<1>1. IsSeq(Units) /\ DOMAIN Units = 1 .. Len(Units)
  BY UnitsAssumption, LensAreNat
<1>2. PICK S : Units \in Seq(S)
  BY <1>1 DEF IsSeq
<1>3. ASSUME NEW u \in 1 .. Len(Units)
      PROVE  /\ UnitMacros[u] = FlattenSeq(Expanded(Units[u].macros))
             /\ UnitMacros[u] \in Seq(MacroValues)
  <2>1. Units[u].macros \in OpSeqs
    BY UnitProperties
  <2>2. FlattenSeq(Expanded(Units[u].macros)) \in Seq(MacroValues)
    BY <2>1, ExpandedIs, FlattenType
  <2>3. QED
    BY <1>1, <2>2 DEF UnitMacros
<1>4. UnitMacros = [u \in DOMAIN Units |-> UnitMacros[u]]
  BY DEF UnitMacros
<1>5. UnitMacros \in Seq(Seq(MacroValues)) /\ Len(UnitMacros) = Len(Units)
  BY <1>2, <1>3, <1>4, MappedSequence
<1>6. AllMacros = FlattenSeq(UnitMacros)
  BY DEF AllMacros, AllUnits, UnitMacros, Expanded, ExpandedBy
<1>7. QED
  BY <1>3, <1>5, <1>6

LEMMA LoopTodoIs ==
  ASSUME NEW l \in Loops
  PROVE  /\ LoopTodo(l) \in Seq(MacroValues) /\ Len(l.ops) \in Nat
         /\ l.i \in 1 .. Len(l.ops) + 1
         /\ l.i > Len(l.ops) => LoopTodo(l) = << >>
         /\ l.i <= Len(l.ops) =>
              /\ MacrosOf(l.ops[l.i], ImportedMacros) \in Seq(MacroValues)
              /\ From(Expanded(l.ops), l.i + 1) \in Seq(MacroValues)
              /\ LoopTodo(l) = MacrosOf(l.ops[l.i], ImportedMacros)
                               \o From(Expanded(l.ops), l.i + 1)
<1>1. l.ops \in OpSeqs /\ l.i \in 1 .. Len(l.ops) + 1
  BY DEF Loops
<1> DEFINE t == Expanded(l.ops)
<1>2. /\ t \in Seq(Seq(MacroValues)) /\ Len(t) = Len(l.ops) /\ Len(l.ops) \in Nat
      /\ \A k \in 1 .. Len(l.ops) : t[k] = MacrosOf(l.ops[k], ImportedMacros)
  BY <1>1, ExpandedIs
<1> HIDE DEF t
<1>3. LoopTodo(l) = From(t, l.i)
  BY DEF LoopTodo, t
<1>4. From(t, l.i) \in Seq(MacroValues)
  BY <1>1, <1>2, FromProperties
<1>5. ASSUME l.i > Len(l.ops) PROVE From(t, l.i) = << >>
  <2>1. l.i = Len(t) + 1
    BY <1>1, <1>2, <1>5
  <2>2. QED
    BY <1>2, <2>1, FromProperties
<1>6. ASSUME l.i <= Len(l.ops)
      PROVE  /\ MacrosOf(l.ops[l.i], ImportedMacros) \in Seq(MacroValues)
             /\ From(t, l.i + 1) \in Seq(MacroValues)
             /\ From(t, l.i) = MacrosOf(l.ops[l.i], ImportedMacros) \o From(t, l.i + 1)
  <2>1. l.i \in 1 .. Len(t) /\ l.i + 1 \in 1 .. Len(t) + 1
    BY <1>1, <1>2, <1>6
  <2>2. t[l.i] = MacrosOf(l.ops[l.i], ImportedMacros)
    BY <1>2, <2>1
  <2>3. QED
    BY <1>2, <2>1, <2>2, FromProperties
<1>7. QED
  BY <1>1, <1>2, <1>3, <1>4, <1>5, <1>6 DEF t

LEMMA NewLoopTodo ==
  ASSUME NEW ops \in OpSeqs
  PROVE  MacroLoop(ops) \in Loops /\ LoopTodo(MacroLoop(ops)) = FlattenSeq(Expanded(ops))
<1>1. MacroLoop(ops) \in Loops
  BY OpProperties DEF MacroLoop, Loops
<1>2. Expanded(ops) \in Seq(Seq(MacroValues))
  BY ExpandedIs
<1>3. From(Expanded(ops), 1) = FlattenSeq(Expanded(ops))
  BY <1>2, FromProperties
<1>4. QED
  BY <1>1, <1>3 DEF LoopTodo, MacroLoop

LEMMA LoopsTodoType ==
  ASSUME NEW q \in Seq(Loops)
  PROVE  /\ [k \in DOMAIN q |-> LoopTodo(q[k])] \in Seq(Seq(MacroValues))
         /\ LoopsTodo(q) \in Seq(MacroValues)
<1> DEFINE t == [k \in DOMAIN q |-> LoopTodo(q[k])]
<1>1. DOMAIN q = 1 .. Len(q) /\ \A k \in 1 .. Len(q) : q[k] \in Loops
  BY LenProperties, ElementOfSeq
<1>2. t = [k \in DOMAIN q |-> t[k]] /\ \A k \in 1 .. Len(q) : t[k] \in Seq(MacroValues)
  BY <1>1, LoopTodoIs
<1> HIDE DEF t
<1>3. t \in Seq(Seq(MacroValues))
  BY <1>2, MappedSequence
<1>4. QED
  BY <1>3, FlattenType DEF LoopsTodo, t

LEMMA LoopsTodoEmpty == LoopsTodo(<< >>) = << >>
<1>1. [k \in DOMAIN << >> |-> LoopTodo(<< >>[k])] = << >>
  <2> DEFINE t == [k \in DOMAIN << >> |-> LoopTodo(<< >>[k])]
  <2>1. t \in Seq({}) /\ Len(t) = 0
    <3>1. << >> \in Seq({}) /\ Len(<< >>) = 0
      OBVIOUS
    <3>2. t = [k \in DOMAIN << >> |-> t[k]] /\ \A k \in 1 .. Len(<< >>) : t[k] \in {}
      BY <3>1
    <3> HIDE DEF t
    <3>3. QED
      BY <3>1, <3>2, MappedSequence
  <2> HIDE DEF t
  <2>2. t = << >>
    BY <2>1, EmptySeq
  <2>3. QED
    BY <2>2 DEF t
<1>2. QED
  BY <1>1, FlattenEmpty DEF LoopsTodo

LEMMA LoopsTodoCons ==
  ASSUME NEW q \in Seq(Loops), NEW l \in Loops
  PROVE  LoopsTodo(<< l >> \o q) = LoopTodo(l) \o LoopsTodo(q)
<1> DEFINE p == << l >> \o q
           t == [k \in DOMAIN q |-> LoopTodo(q[k])]
           x == LoopTodo(l)
           u == [k \in DOMAIN p |-> LoopTodo(p[k])]
<1>1. t \in Seq(Seq(MacroValues)) /\ x \in Seq(MacroValues)
  BY LoopsTodoType, LoopTodoIs
<1>2. /\ p \in Seq(Loops) /\ Len(p) = Len(q) + 1 /\ p[1] = l
      /\ \A k \in 2 .. Len(q) + 1 : p[k] = q[k - 1]
      /\ Len(q) \in Nat /\ DOMAIN q = 1 .. Len(q) /\ DOMAIN p = 1 .. Len(q) + 1
  <2>1. /\ p \in Seq(Loops) /\ Len(p) = Len(q) + 1 /\ p[1] = l
        /\ \A k \in 2 .. Len(q) + 1 : p[k] = q[k - 1]
    BY ConsProperties
  <2> HIDE DEF p
  <2>2. QED
    BY <2>1, LenProperties
<1> HIDE DEF p
<1>3. /\ DOMAIN u = 1 .. Len(q) + 1 /\ u[1] = x
      /\ \A k \in 2 .. Len(q) + 1 : u[k] = t[k - 1]
  <2>1. \A k \in 2 .. Len(q) + 1 : k \in DOMAIN p /\ k - 1 \in DOMAIN q
    BY <1>2
  <2>2. 1 \in DOMAIN p
    BY <1>2
  <2>3. QED
    BY <1>2, <2>1, <2>2
<1>4. Len(t) = Len(q) /\ u \in Seq(Seq(MacroValues))
  <2>1. DOMAIN t = 1 .. Len(q) /\ DOMAIN t = 1 .. Len(t) /\ Len(t) \in Nat
    BY <1>1, <1>2, LenProperties
  <2>2. u \in Seq(Seq(MacroValues))
    BY <1>2, LoopsTodoType
  <2> HIDE DEF t
  <2>3. Len(t) = Len(q)
    BY <1>2, <2>1
  <2>4. QED
    BY <2>2, <2>3
<1> HIDE DEF t, x, u
<1>5. u = << x >> \o t
  <2> DEFINE w == << x >> \o t
  <2>1. /\ w \in Seq(Seq(MacroValues)) /\ Len(w) = Len(q) + 1 /\ w[1] = x
        /\ \A k \in 2 .. Len(q) + 1 : w[k] = t[k - 1]
    <3>1. /\ w \in Seq(Seq(MacroValues)) /\ Len(w) = Len(t) + 1 /\ w[1] = x
          /\ \A k \in 2 .. Len(t) + 1 : w[k] = t[k - 1]
      BY <1>1, ConsProperties
    <3> HIDE DEF w
    <3>2. QED
      BY <1>4, <3>1
  <2> HIDE DEF w
  <2>2. \A k \in 1 .. Len(q) + 1 : u[k] = w[k]
    <3>1. \A k \in 1 .. Len(q) + 1 : k = 1 \/ k \in 2 .. Len(q) + 1
      BY <1>2
    <3>2. QED
      BY <1>3, <2>1, <3>1
  <2>3. Len(u) = Len(w)
    <3>1. DOMAIN u = 1 .. Len(u) /\ Len(u) \in Nat
      BY <1>4, LenProperties
    <3>2. QED
      BY <1>2, <1>3, <2>1, <3>1
  <2>4. u = w
    BY <1>4, <2>1, <2>2, <2>3, SeqEqual
  <2>5. QED
    BY <2>4 DEF w
<1>6. FlattenSeq(u) = x \o FlattenSeq(t)
  BY <1>1, <1>5, FlattenCons
<1>7. QED
  BY <1>6 DEF LoopsTodo, u, x, t, p

\* The loop under way and those it is in.
LEMMA CleanLoop ==
  ASSUME Inv, pc = "macros"
  PROVE  /\ Loop \in Loops /\ Tail(macroStack) \in Seq(Loops) /\ macroStack \in Seq(Loops)
         /\ macroStack = << Loop >> \o Tail(macroStack)
         /\ LoopsTodo(macroStack) = LoopTodo(Loop) \o LoopsTodo(Tail(macroStack))
         /\ LoopsTodo(Tail(macroStack)) \in Seq(MacroValues)
         /\ LoopTodo(Loop) \in Seq(MacroValues)
<1>1. macroStack # << >> /\ macroStack \in Seq(Loops)
  BY DEF Inv, MacroLoops
<1>2. /\ Loop \in Loops /\ Tail(macroStack) \in Seq(Loops)
      /\ macroStack = << Loop >> \o Tail(macroStack)
  BY <1>1, HeadTailProperties DEF Loop
<1>3. LoopsTodo(<< Loop >> \o Tail(macroStack)) = LoopTodo(Loop) \o LoopsTodo(Tail(macroStack))
  BY <1>2, LoopsTodoCons
<1>4. QED
  BY <1>1, <1>2, <1>3, LoopsTodoType, LoopTodoIs

\* The macros of the units whose header was not read yet.
LEMMA UnitMacrosTodo ==
  ASSUME Scalars
  PROVE  /\ From(UnitMacros, unit + 1) \in Seq(MacroValues)
         /\ unit < Len(Units) =>
              /\ Units[unit + 1].macros \in OpSeqs
              /\ From(UnitMacros, unit + 2) \in Seq(MacroValues)
              /\ From(UnitMacros, unit + 1) = FlattenSeq(Expanded(Units[unit + 1].macros))
                                              \o From(UnitMacros, unit + 2)
         /\ unit = Len(Units) => From(UnitMacros, unit + 1) = << >>
<1>1. unit \in 0 .. Len(Units) /\ Len(Units) \in Nat /\ unit + 1 \in 1 .. Len(Units) + 1
  BY LensAreNat DEF Scalars
<1>2. From(UnitMacros, unit + 1) \in Seq(MacroValues)
      /\ (unit = Len(Units) => From(UnitMacros, unit + 1) = << >>)
  BY <1>1, UnitMacrosType, FromProperties
<1>3. ASSUME unit < Len(Units)
      PROVE  /\ Units[unit + 1].macros \in OpSeqs
             /\ From(UnitMacros, unit + 2) \in Seq(MacroValues)
             /\ From(UnitMacros, unit + 1) = FlattenSeq(Expanded(Units[unit + 1].macros))
                                             \o From(UnitMacros, unit + 2)
  <2>1. /\ unit + 1 \in 1 .. Len(Units) /\ unit + 2 \in 1 .. Len(Units) + 1
        /\ (unit + 1) + 1 = unit + 2
    BY <1>1, <1>3
  <2>2. Units[unit + 1].macros \in OpSeqs
    BY <2>1, UnitProperties
  <2>3. UnitMacros[unit + 1] = FlattenSeq(Expanded(Units[unit + 1].macros))
    BY <2>1, UnitMacrosType
  <2>4. /\ From(UnitMacros, unit + 2) \in Seq(MacroValues)
        /\ From(UnitMacros, unit + 1) = UnitMacros[unit + 1] \o From(UnitMacros, (unit + 1) + 1)
    BY <2>1, UnitMacrosType, FromProperties
  <2>5. QED
    BY <2>1, <2>2, <2>3, <2>4
<1>4. QED
  BY <1>2, <1>3

\* The operation under way, and what is to do after it.
LEMMA AdvancedTodo ==
  ASSUME Inv, AtOp
  PROVE  /\ Advanced \in Seq(Loops) /\ Loop.ops \in OpSeqs /\ Loop.i \in 1 .. Len(Loop.ops)
         /\ MacrosOf(Op, ImportedMacros) \in Seq(MacroValues)
         /\ LoopsTodo(Advanced) \in Seq(MacroValues)
         /\ LoopsTodo(macroStack) = MacrosOf(Op, ImportedMacros) \o LoopsTodo(Advanced)
<1> DEFINE l == [Loop EXCEPT !.i = Loop.i + 1]
           x == MacrosOf(Op, ImportedMacros)
           y == From(Expanded(Loop.ops), Loop.i + 1)
           z == LoopsTodo(Tail(macroStack))
<1>1. pc = "macros" /\ Loop.i <= Len(Loop.ops)
  BY DEF AtOp
<1>2. /\ Loop \in Loops /\ Tail(macroStack) \in Seq(Loops) /\ z \in Seq(MacroValues)
      /\ LoopsTodo(macroStack) = LoopTodo(Loop) \o z
  BY <1>1, CleanLoop
<1>3. /\ LoopTodo(Loop) = x \o y /\ x \in Seq(MacroValues) /\ y \in Seq(MacroValues)
      /\ Len(Loop.ops) \in Nat /\ Loop.i \in 1 .. Len(Loop.ops) + 1
  BY <1>1, <1>2, LoopTodoIs DEF Op
<1>4. Loop.ops \in OpSeqs /\ Loop.i \in 1 .. Len(Loop.ops)
  BY <1>1, <1>2, <1>3 DEF Loops
<1>5. l \in Loops /\ l.ops = Loop.ops /\ l.i = Loop.i + 1
  <2>1. Loop \in [ops : OpSeqs, i : Nat]
    BY <1>2 DEF Loops
  <2>2. l \in [ops : OpSeqs, i : Nat] /\ l.ops = Loop.ops /\ l.i = Loop.i + 1
    BY <2>1
  <2>3. l.i \in 1 .. Len(l.ops) + 1
    BY <1>3, <1>4, <2>2
  <2>4. QED
    BY <2>2, <2>3 DEF Loops
<1>6. Advanced = << l >> \o Tail(macroStack)
  BY DEF Advanced
<1> HIDE DEF l
<1>7. LoopTodo(l) = y
  BY <1>5 DEF LoopTodo
<1>8. Advanced \in Seq(Loops) /\ LoopsTodo(Advanced) = y \o z
  BY <1>2, <1>5, <1>6, <1>7, ConsProperties, LoopsTodoCons
<1>9. AssociativeOn(MacroValues)
  BY Associative, Zenon
<1> HIDE DEF x, y, z
<1>10. (x \o y) \o z = x \o (y \o z)
  BY <1>2, <1>3, <1>9, Zenon DEF AssociativeOn
<1>11. LoopsTodo(Advanced) \in Seq(MacroValues)
  BY <1>8, LoopsTodoType
<1>12. QED
  BY <1>2, <1>3, <1>4, <1>8, <1>10, <1>11 DEF x

\* A step that defines nothing leaves the macros to define.
LEMMA NothingDefined ==
  ASSUME CleanMacros, NoneFailed, UNCHANGED defineMacros,
         LoopsTodo(macroStack') \o From(UnitMacros, unit' + 1) = MacrosTodo
  PROVE  CleanMacros'
<1>1. MacrosTodo' = MacrosTodo
  BY DEF MacrosTodo
<1>2. QED
  BY <1>1 DEF CleanMacros

LEMMA NextUnitMacros ==
  ASSUME Inv, CleanWalk, CleanMacros, NoneFailed, NoneFailed', NextUnit PROVE CleanMacros'
<1> DEFINE ops == Units[unit + 1].macros
           e == From(UnitMacros, unit + 2)
           x == FlattenSeq(Expanded(ops))
<1>1. /\ pc = "headers" /\ unit < Len(Units) /\ unit' = unit + 1
      /\ macroStack' = << MacroLoop(ops) >> /\ defineMacros' = defineMacros
  BY NoCallFails DEF NextUnit, CleanWalk, Inv, NoneFailed
<1>2. macroStack = << >>
  BY <1>1 DEF Inv, MacroLoops
<1>3. /\ ops \in OpSeqs /\ e \in Seq(MacroValues) /\ From(UnitMacros, unit + 1) = x \o e
      /\ From(UnitMacros, unit + 1) \in Seq(MacroValues)
  BY <1>1, UnitMacrosTodo DEF Inv
<1>4. MacrosTodo = x \o e
  <2>1. << >> \o From(UnitMacros, unit + 1) = From(UnitMacros, unit + 1)
    BY <1>3, ConcatEmptySeq
  <2>2. QED
    BY <1>2, <1>3, <2>1, LoopsTodoEmpty DEF MacrosTodo
<1> HIDE DEF ops
<1>5. LoopsTodo(macroStack') = x
  <2> DEFINE l == MacroLoop(ops)
  <2>1. l \in Loops /\ LoopTodo(l) = x /\ LoopTodo(l) \in Seq(MacroValues)
    BY <1>3, NewLoopTodo, LoopTodoIs
  <2> HIDE DEF l
  <2>2. << l >> \o << >> = << l >> /\ << >> \in Seq(Loops)
    BY <2>1
  <2>3. LoopsTodo(<< l >>) = LoopTodo(l) \o << >>
    BY <2>1, <2>2, LoopsTodoCons, LoopsTodoEmpty
  <2>4. LoopTodo(l) \o << >> = LoopTodo(l)
    BY <2>1, ConcatEmptySeq
  <2>5. QED
    BY <1>1, <2>1, <2>3, <2>4 DEF l
<1>6. unit' + 1 = unit + 2
  BY <1>1, LensAreNat DEF Inv, Scalars
<1>7. QED
  BY <1>1, <1>4, <1>5, <1>6, NothingDefined

LEMMA DefineMacroMacros ==
  ASSUME Inv, CleanMacros, NoneFailed, NoneFailed', DefineMacro PROVE CleanMacros'
<1> DEFINE v == Macro(Op)
           e == From(UnitMacros, unit + 1)
           r == LoopsTodo(Advanced)
<1>1. /\ AtOp /\ Op.op \in {"define", "undef"} /\ macroStack' = Advanced /\ unit' = unit
      /\ defineMacros' = defineMacros \o << v, v >>
  BY NoCallFails DEF DefineMacro, NextOp, Inv, NoneFailed, macroRest
<1>2. MacrosOf(Op, ImportedMacros) = << v >>
  BY <1>1 DEF MacrosOf
<1>3. v \in MacroValues
  <2>1. Loop.ops \in OpSeqs /\ Loop.i \in DOMAIN Loop.ops
    BY <1>1, AdvancedTodo, OpProperties
  <2>2. QED
    BY <2>1 DEF MacroValues, Op
<1>4. r \in Seq(MacroValues) /\ LoopsTodo(macroStack) = << v >> \o r
  BY <1>1, <1>2, AdvancedTodo
<1>5. e \in Seq(MacroValues)
  BY UnitMacrosTodo DEF Inv
<1>6. PICK m \in Seq(MacroValues) : /\ m \o MacrosTodo = AllMacros
                                    /\ Distinct(defineMacros) = Distinct(m)
  BY DEF CleanMacros
<1>7. defineMacros \in Seq(MacroValues)
  BY DEF CleanMacros
<1>8. MacrosTodo = (<< v >> \o r) \o e /\ MacrosTodo' = r \o e
  BY <1>1, <1>4 DEF MacrosTodo
<1> HIDE DEF v, e, r
<1>9. << v >> \in Seq(MacroValues)
  BY <1>3
<1>10. (m \o << v >>) \o (r \o e) = AllMacros
  <2> DEFINE w == << v >>
  <2>1. AssociativeOn(MacroValues)
    BY Associative, Zenon
  <2>2. r \o e \in Seq(MacroValues)
    BY <1>4, <1>5, ConcatProperties
  <2>3. w \in Seq(MacroValues) /\ MacrosTodo = (w \o r) \o e
    BY <1>8, <1>9
  <2> HIDE DEF w
  <2>4. (w \o r) \o e = w \o (r \o e)
    BY <1>4, <1>5, <2>1, <2>3, Zenon DEF AssociativeOn
  <2>5. (m \o w) \o (r \o e) = m \o (w \o (r \o e))
    BY <2>1, <2>2, <2>3, Zenon DEF AssociativeOn
  <2>6. (m \o w) \o (r \o e) = AllMacros
    BY <1>6, <2>3, <2>4, <2>5
  <2>7. QED
    BY <2>6 DEF w
<1>11. m \o << v >> = Append(m, v) /\ Append(m, v) \in Seq(MacroValues)
  BY <1>3, AppendIsConcat, AppendProperties
<1> DEFINE d == Append(defineMacros, v)
<1>12. /\ d \in Seq(MacroValues) /\ Distinct(d) = AndIfNew(Distinct(defineMacros), v)
       /\ Distinct(defineMacros) \in Seq(MacroValues)
  BY <1>3, <1>7, AppendProperties, DistinctAppend
<1>13. defineMacros' = Append(d, v)
  <2>1. defineMacros \o << v, v >> = Append(Append(defineMacros, v), v)
    BY <1>3, <1>7
  <2>2. QED
    BY <1>1, <2>1 DEF v
<1> HIDE DEF d
<1>14. /\ defineMacros' \in Seq(MacroValues)
       /\ Distinct(defineMacros') = AndIfNew(Distinct(d), v)
  BY <1>3, <1>12, <1>13, AppendProperties, DistinctAppend
<1>15. Distinct(defineMacros') = AndIfNew(Distinct(defineMacros), v)
  BY <1>3, <1>12, <1>14, AndIfNewAgain
<1>16. Distinct(Append(m, v)) = AndIfNew(Distinct(m), v)
  BY <1>3, DistinctAppend
<1>17. QED
  BY <1>6, <1>8, <1>10, <1>11, <1>14, <1>15, <1>16 DEF CleanMacros

LEMMA OtherOpMacros ==
  ASSUME Inv, CleanMacros, NoneFailed, OtherOp PROVE CleanMacros'
<1>1. /\ AtOp /\ Op.op = "other" /\ macroStack' = Advanced /\ unit' = unit
      /\ defineMacros' = defineMacros
  BY DEF OtherOp, NextOp, macroRest
<1>2. MacrosOf(Op, ImportedMacros) = << >>
  BY <1>1 DEF MacrosOf
<1>3. LoopsTodo(Advanced) = LoopsTodo(macroStack)
  BY <1>1, <1>2, AdvancedTodo, ConcatEmptySeq
<1>4. QED
  BY <1>1, <1>3, NothingDefined DEF MacrosTodo

LEMMA ImportMacrosMacros ==
  ASSUME Inv, CleanMacros, NoneFailed, NoneFailed', ImportMacros PROVE CleanMacros'
<1> DEFINE ops == Imports[Op.offset]
<1>1. /\ AtOp /\ Op.op = "import" /\ unit' = unit /\ defineMacros' = defineMacros
      /\ \/ Op.offset = 0 /\ macroStack' = Advanced
         \/ Op.offset # 0 /\ macroStack' = << MacroLoop(ops) >> \o Advanced
  BY NoCallFails DEF ImportMacros, NextOp, Inv, NoneFailed, macroRest
<1>2. /\ Advanced \in Seq(Loops) /\ LoopsTodo(Advanced) \in Seq(MacroValues)
      /\ LoopsTodo(macroStack) = MacrosOf(Op, ImportedMacros) \o LoopsTodo(Advanced)
      /\ Loop.ops \in OpSeqs /\ Loop.i \in 1 .. Len(Loop.ops)
  BY <1>1, AdvancedTodo
<1>3. ASSUME LoopsTodo(macroStack') = LoopsTodo(macroStack) PROVE CleanMacros'
  BY <1>1, <1>3, NothingDefined DEF MacrosTodo
<1>4. CASE Op.offset = 0 /\ macroStack' = Advanced
  <2>1. MacrosOf(Op, ImportedMacros) = << >>
    BY <1>1, <1>4 DEF MacrosOf
  <2>2. QED
    BY <1>2, <1>3, <1>4, <2>1, ConcatEmptySeq
<1>5. CASE Op.offset # 0 /\ macroStack' = << MacroLoop(ops) >> \o Advanced
  <2>1. MacrosOf(Op, ImportedMacros) = ImportedMacros[Op.offset]
    BY <1>1, <1>5 DEF MacrosOf
  <2>2. Op.offset \in DOMAIN Imports
    <3>1. IsMacroOp(Op)
      <4>1. Loop.i \in DOMAIN Loop.ops
        BY <1>2, OpProperties
      <4>2. QED
        BY <1>2, <4>1, UnitsAssumption DEF OpSeqs, Op
    <3>2. QED
      BY <1>1, <1>5, <3>1 DEF IsMacroOp
  <2>3. ImportedMacros[Op.offset] = FlattenSeq(Expanded(ops)) /\ ops \in OpSeqs
    BY <2>2, ImportedMacrosDefined DEF OpSeqs
  <2> HIDE DEF ops
  <2>4. MacroLoop(ops) \in Loops /\ LoopTodo(MacroLoop(ops)) = FlattenSeq(Expanded(ops))
    BY <2>3, NewLoopTodo
  <2>5. LoopsTodo(macroStack') = LoopTodo(MacroLoop(ops)) \o LoopsTodo(Advanced)
    BY <1>2, <1>5, <2>4, LoopsTodoCons
  <2>6. QED
    BY <1>2, <1>3, <2>1, <2>3, <2>4, <2>5
<1>6. QED
  BY <1>1, <1>4, <1>5

LEMMA EndMacroLoopMacros ==
  ASSUME Inv, CleanMacros, NoneFailed, EndMacroLoop PROVE CleanMacros'
<1>1. /\ pc = "macros" /\ Loop.i > Len(Loop.ops) /\ macroStack' = Tail(macroStack)
      /\ unit' = unit /\ defineMacros' = defineMacros
  BY DEF EndMacroLoop, macroRest
<1>2. /\ Loop \in Loops /\ LoopsTodo(Tail(macroStack)) \in Seq(MacroValues)
      /\ LoopsTodo(macroStack) = LoopTodo(Loop) \o LoopsTodo(Tail(macroStack))
  BY <1>1, CleanLoop
<1>3. LoopTodo(Loop) = << >>
  BY <1>1, <1>2, LoopTodoIs
<1>4. LoopsTodo(macroStack') = LoopsTodo(macroStack)
  BY <1>1, <1>2, <1>3, ConcatEmptySeq
<1>5. QED
  BY <1>1, <1>4, NothingDefined DEF MacrosTodo

LEMMA CleanMacrosStep == ASSUME Inv, CleanWalk, CleanMacros, [Next]_vars PROVE CleanMacros'
<1> USE DEF Goto
<1> SUFFICES ASSUME NoneFailed' PROVE CleanMacros'
  BY DEF CleanMacros
<1>1. NoneFailed /\ \A call, where : ~ Fail(call, where)
  BY CleanBefore, NoCallFails DEF Inv, NoneFailed
<1>2. ASSUME UNCHANGED << macroStack, unit, defineMacros >> PROVE CleanMacros'
  BY <1>1, <1>2, NothingDefined DEF MacrosTodo
<1>3. CASE Open \/ InitDwarf \/ CheckEndianness \/ Write
  BY <1>2, <1>3 DEF Open, InitDwarf, CheckEndianness, Write, walkVars
<1>4. CASE ReadSection \/ ReadElfSymbol \/ EndSections
  BY <1>2, <1>4 DEF ReadSection, ReadElfSymbol, EndSections, walkVars
<1>5. CASE HeaderFails \/ EndUnits
  BY <1>1, <1>2, <1>5 DEF HeaderFails, EndUnits
<1>6. CASE NextUnit \/ DefineMacro \/ OtherOp \/ ImportMacros \/ EndMacroLoop
  BY <1>1, <1>6, NextUnitMacros, DefineMacroMacros, OtherOpMacros, ImportMacrosMacros,
     EndMacroLoopMacros
<1>7. CASE MacroOpFails
  BY <1>1, <1>7 DEF MacroOpFails
<1>8. CASE ReadSourceFiles \/ VisitDie \/ HandleDie
  BY <1>2, <1>8 DEF ReadSourceFiles, VisitDie, HandleDie, walkRest
<1>9. CASE VisitChildren \/ NextSibling \/ RestartAtRoot
  BY <1>2, <1>9 DEF VisitChildren, NextSibling, RestartAtRoot, walkRest
<1>10. CASE UNCHANGED vars
  BY <1>2, <1>10 DEF vars, walkVars
<1>11. QED
  BY <1>3, <1>4, <1>5, <1>6, <1>7, <1>8, <1>9, <1>10 DEF Next

-----------------------------------------------------------------------------
(* The symbols of a run in which no call fails.                            *)

AddsOf(ds) == [k \in DOMAIN ds |-> Dies[ds[k]].adds]

\* What the handler under way has yet to add.
AddsIn(q) == IF q = << >> THEN << >> ELSE Head(q).adds

\* s are the symbols that were added so far.
CleanSymbols ==
  NoneFailed =>
    \E s \in Seq(Adds) : /\ s \o AddsIn(stack) = FlattenSeq(AddsOf(seen))
                         /\ Names(symbols) = Distinct(Names(s))

\* t has n elements of W, u has those and y.
Extended(u, t, n, y, W) ==
  /\ n \in Nat /\ y \in W /\ u[n + 1] = y
  /\ t = [k \in 1 .. n |-> t[k]] /\ u = [k \in 1 .. n + 1 |-> u[k]]
  /\ \A k \in 1 .. n : t[k] \in W /\ u[k] = t[k]

LEMMA ExtendedIsAppended ==
  ASSUME NEW u, NEW t, NEW n, NEW y, NEW W, Extended(u, t, n, y, W)
  PROVE  u = Append(t, y) /\ t \in Seq(W) /\ u \in Seq(W) /\ Len(t) = n
<1> DEFINE v == Append(t, y)
<1>1. t \in [1 .. n -> W] /\ n \in Nat
  BY DEF Extended
<1>2. t \in Seq(W) /\ DOMAIN t = 1 .. n
  BY <1>1
<1>3. Len(t) = n
  BY <1>1, <1>2, LenProperties
<1>4. u \in [1 .. n + 1 -> W]
  <2>1. \A k \in 1 .. n + 1 : k \in 1 .. n \/ k = n + 1
    BY <1>1
  <2>2. \A k \in 1 .. n + 1 : u[k] \in W
    BY <2>1 DEF Extended
  <2>3. QED
    BY <2>2 DEF Extended
<1>5. n + 1 \in Nat
  BY <1>1
<1>6. u \in Seq(W) /\ DOMAIN u = 1 .. n + 1
  BY <1>4, <1>5
<1>7. Len(u) = n + 1
  BY <1>5, <1>6, LenProperties
<1>8. /\ v \in Seq(W) /\ Len(v) = n + 1 /\ v[n + 1] = y
      /\ \A k \in 1 .. n : v[k] = t[k]
  BY <1>2, <1>3, AppendProperties DEF Extended
<1> HIDE DEF v
<1>9. \A k \in 1 .. Len(u) : u[k] = v[k]
  <2>1. \A k \in 1 .. Len(u) : k \in 1 .. n \/ k = n + 1
    BY <1>1, <1>7
  <2>2. QED
    BY <1>8, <2>1 DEF Extended
<1>10. u = v
  BY <1>6, <1>7, <1>8, <1>9, SeqEqual
<1>11. QED
  BY <1>2, <1>3, <1>6, <1>10 DEF v

LEMMA NamesProperties ==
  ASSUME NEW S, NEW s \in Seq(S), NEW x \in S
  PROVE  /\ Names(s) \in Seq({y.name : y \in S})
         /\ Names(Append(s, x)) = Append(Names(s), x.name)
         /\ Contains(Names(s), x.name) <=> \E k \in DOMAIN s : s[k].name = x.name
<1> DEFINE W == {y.name : y \in S}
           t == Names(s)
           u == Names(Append(s, x))
<1>1. Len(s) \in Nat /\ DOMAIN s = 1 .. Len(s)
  BY LenProperties
<1>2. \A k \in 1 .. Len(s) : t[k] = s[k].name /\ s[k] \in S
  BY <1>1, ElementOfSeq DEF Names
<1>3. /\ DOMAIN Append(s, x) = 1 .. Len(s) + 1 /\ Append(s, x)[Len(s) + 1] = x
      /\ \A k \in 1 .. Len(s) : Append(s, x)[k] = s[k]
  <2>1. /\ Append(s, x) \in Seq(S) /\ Len(Append(s, x)) = Len(s) + 1
        /\ Append(s, x)[Len(s) + 1] = x /\ \A k \in 1 .. Len(s) : Append(s, x)[k] = s[k]
    BY AppendProperties
  <2>2. QED
    BY <2>1, LenProperties
<1>4. u[Len(s) + 1] = x.name /\ \A k \in 1 .. Len(s) : t[k] \in W /\ u[k] = t[k]
  <2>1. Len(s) + 1 \in 1 .. Len(s) + 1 /\ \A k \in 1 .. Len(s) : k \in 1 .. Len(s) + 1
    BY <1>1
  <2>2. u[Len(s) + 1] = x.name /\ \A k \in 1 .. Len(s) : u[k] = s[k].name
    BY <1>3, <2>1 DEF Names
  <2>3. QED
    BY <1>2, <2>2
<1>5. Extended(u, t, Len(s), x.name, W)
  <2>1. t = [k \in 1 .. Len(s) |-> t[k]] /\ u = [k \in 1 .. Len(s) + 1 |-> u[k]]
    BY <1>1, <1>3 DEF Names
  <2>2. x.name \in W
    OBVIOUS
  <2> HIDE DEF t, u, W
  <2>3. QED
    BY <1>1, <1>4, <2>1, <2>2 DEF Extended
<1> HIDE DEF t, u, W
<1>7. u = Append(t, x.name) /\ t \in Seq(W)
  BY <1>5, ExtendedIsAppended
<1>8. Len(t) = Len(s)
  BY <1>5, ExtendedIsAppended
<1>9. Contains(t, x.name) <=> \E k \in DOMAIN s : s[k].name = x.name
  BY <1>1, <1>2, <1>8 DEF Contains
<1>10. QED
  BY <1>7, <1>9 DEF t, u, W

LEMMA AddsProperties ==
  ASSUME NEW ds \in Seq(DOMAIN Dies)
  PROVE  /\ AddsOf(ds) \in Seq(Seq(Adds)) /\ FlattenSeq(AddsOf(ds)) \in Seq(Adds)
         /\ \A d \in DOMAIN Dies :
              FlattenSeq(AddsOf(Append(ds, d))) = FlattenSeq(AddsOf(ds)) \o Dies[d].adds
<1>1. Len(ds) \in Nat /\ DOMAIN ds = 1 .. Len(ds)
  BY LenProperties
<1>2. ASSUME NEW k \in 1 .. Len(ds)
      PROVE  AddsOf(ds)[k] = Dies[ds[k]].adds /\ AddsOf(ds)[k] \in Seq(Adds)
  <2>1. ds[k] \in DOMAIN Dies
    BY ElementOfSeq
  <2>2. Dies[ds[k]].adds \in Seq(Adds)
    BY <2>1, DieProperties
  <2>3. QED
    BY <1>1, <2>2 DEF AddsOf
<1>3. AddsOf(ds) = [k \in DOMAIN ds |-> AddsOf(ds)[k]]
  BY DEF AddsOf
<1>4. AddsOf(ds) \in Seq(Seq(Adds)) /\ FlattenSeq(AddsOf(ds)) \in Seq(Adds)
  BY <1>2, <1>3, MappedSequence, FlattenType
<1>5. ASSUME NEW d \in DOMAIN Dies
      PROVE  FlattenSeq(AddsOf(Append(ds, d))) = FlattenSeq(AddsOf(ds)) \o Dies[d].adds
  <2> DEFINE x == Dies[d].adds
             t == AddsOf(ds)
             u == AddsOf(Append(ds, d))
  <2>1. x \in Seq(Adds)
    BY DieProperties
  <2>2. /\ DOMAIN Append(ds, d) = 1 .. Len(ds) + 1 /\ Append(ds, d)[Len(ds) + 1] = d
        /\ \A k \in 1 .. Len(ds) : Append(ds, d)[k] = ds[k]
    <3>1. /\ Append(ds, d) \in Seq(DOMAIN Dies) /\ Len(Append(ds, d)) = Len(ds) + 1
          /\ Append(ds, d)[Len(ds) + 1] = d /\ \A k \in 1 .. Len(ds) : Append(ds, d)[k] = ds[k]
      BY AppendProperties
    <3>2. QED
      BY <3>1, LenProperties
  <2>3. u[Len(ds) + 1] = x /\ \A k \in 1 .. Len(ds) : t[k] \in Seq(Adds) /\ u[k] = t[k]
    <3>1. Len(ds) + 1 \in 1 .. Len(ds) + 1 /\ \A k \in 1 .. Len(ds) : k \in 1 .. Len(ds) + 1
      BY <1>1
    <3>2. u[Len(ds) + 1] = x /\ \A k \in 1 .. Len(ds) : u[k] = Dies[ds[k]].adds
      BY <2>2, <3>1 DEF AddsOf
    <3>3. QED
      BY <1>2, <3>2
  <2>4. Extended(u, t, Len(ds), x, Seq(Adds))
    <3>1. t = [k \in 1 .. Len(ds) |-> t[k]] /\ u = [k \in 1 .. Len(ds) + 1 |-> u[k]]
      BY <1>1, <2>2 DEF AddsOf
    <3> HIDE DEF t, u, x
    <3>2. QED
      BY <1>1, <2>1, <2>3, <3>1 DEF Extended
  <2> HIDE DEF t, u, x
  <2>5. u = Append(t, x)
    BY <2>4, ExtendedIsAppended
  <2>6. t \in Seq(Seq(Adds))
    BY <1>4 DEF t
  <2>7. FlattenSeq(Append(t, x)) = FlattenSeq(t) \o x
    BY <2>1, <2>6, FlattenAppend
  <2>8. QED
    BY <2>5, <2>7 DEF t, u, x
<1>6. QED
  BY <1>4, <1>5

\* Only a handler has something to add.
LEMMA NothingToAdd ==
  ASSUME NEW q \in Seq(Frames), \A k \in DOMAIN q : FrameOK(q[k]),
         q # << >> => Head(q).phase # "handle"
  PROVE  AddsIn(q) = << >>
<1> SUFFICES ASSUME q # << >> PROVE AddsIn(q) = << >>
  BY DEF AddsIn
<1>1. Head(q) = q[1] /\ 1 \in DOMAIN q
  <2>1. Len(q) \in Nat /\ Len(q) # 0 /\ DOMAIN q = 1 .. Len(q)
    BY LenProperties, EmptySeq
  <2>2. QED
    BY <2>1
<1>2. FrameOK(Head(q))
  BY <1>1
<1>3. Head(q).adds = << >>
  BY <1>2 DEF FrameOK
<1>4. QED
  BY <1>3 DEF AddsIn

LEMMA AddsAtTop ==
  ASSUME Calls, pc = "walk", NEW f \in Frames, SetTop(f)
  PROVE  AddsIn(stack) = Top.adds /\ AddsIn(stack') = f.adds
<1>1. stack # << >> /\ Tail(stack) \in Seq(Frames)
  BY TopProperties
<1>2. /\ << f >> \o Tail(stack) # << >> /\ (<< f >> \o Tail(stack))[1] = f
      /\ << f >> \o Tail(stack) \in Seq(Frames)
  BY <1>1, ConsProperties
<1>3. Head(<< f >> \o Tail(stack)) = f
  BY <1>2
<1>4. QED
  BY <1>1, <1>2, <1>3 DEF AddsIn, Top, SetTop

LEMMA NoSymbolAdded ==
  ASSUME CleanSymbols, NoneFailed, UNCHANGED << seen, symbols >>, AddsIn(stack') = AddsIn(stack)
  PROVE  CleanSymbols'
BY DEF CleanSymbols

LEMMA VisitDieSymbols ==
  ASSUME Inv, CleanSymbols, NoneFailed, NoneFailed', VisitDie PROVE CleanSymbols'
<1>1. /\ pc = "walk" /\ Top.phase = "visit" /\ seen' = Append(seen, Die) /\ symbols' = symbols
      /\ SetTop([Top EXCEPT !.phase = "handle", !.adds = Dies[Die].adds])
      /\ Top.i # 0 /\ Calls /\ seen \in Seq(DOMAIN Dies)
  BY NoCallFails DEF VisitDie, AtDie, Inv, NoneFailed, walkRest, Scalars
<1> DEFINE a == Dies[Die].adds
           f == [Top EXCEPT !.phase = "handle", !.adds = a]
           F == FlattenSeq(AddsOf(seen))
<1>2. Top \in Frames /\ Top.adds = << >> /\ Die \in DOMAIN Dies /\ a \in Seq(Adds)
  BY <1>1, TopProperties, DieProperties DEF FrameOK
<1>3. Updated(f, Top, Top.i, "handle", a, Top.ok)
  BY <1>2, FrameUpdates DEF Frames, Phases
<1>4. AddsIn(stack) = << >> /\ AddsIn(stack') = a
  <2>1. f \in Frames /\ f.adds = a
    BY <1>3 DEF Updated
  <2>2. SetTop(f)
    BY <1>1
  <2> HIDE DEF f, a
  <2>3. QED
    BY <1>1, <1>2, <2>1, <2>2, AddsAtTop
<1>5. PICK s \in Seq(Adds) : s \o << >> = F /\ Names(symbols) = Distinct(Names(s))
  BY <1>4 DEF CleanSymbols
<1>6. s = F
  BY <1>5, ConcatEmptySeq
<1>7. FlattenSeq(AddsOf(seen')) = F \o a
  BY <1>1, <1>2, AddsProperties
<1>8. QED
  BY <1>1, <1>4, <1>5, <1>6, <1>7 DEF CleanSymbols

\* The first symbol of each name stays.
LEMMA AddSymbolNames ==
  ASSUME IsSequence(symbols), NEW a \in Adds, AddSymbol(a),
         NEW s \in Seq(Adds), Names(symbols) = Distinct(Names(s))
  PROVE  Names(symbols') = Distinct(Names(Append(s, a)))
<1> DEFINE n == a.name
           y == NewSymbol(a)
<1>1. PICK S : symbols \in Seq(S)
  BY DEF IsSequence
<1> DEFINE T == S \cup {y}
<1>2. symbols \in Seq(T) /\ y \in T
  BY <1>1, SeqMonotonic
<1>3. y.name = n
  BY DEF NewSymbol
<1> HIDE DEF T, y
<1>4. /\ Names(Append(symbols, y)) = Append(Names(symbols), n)
      /\ Contains(Names(symbols), n) <=> \E k \in DOMAIN symbols : symbols[k].name = n
  <2>1. /\ Names(Append(symbols, y)) = Append(Names(symbols), y.name)
        /\ Contains(Names(symbols), y.name)
             <=> \E k \in DOMAIN symbols : symbols[k].name = y.name
    BY <1>2, NamesProperties
  <2>2. QED
    BY <1>3, <2>1
<1>5. symbols' = IF \E k \in DOMAIN symbols : symbols[k].name = n THEN symbols
                 ELSE Append(symbols, y)
  BY DEF AddSymbol, y
<1>6. Names(symbols') = AndIfNew(Names(symbols), n)
  <2>1. CASE \E k \in DOMAIN symbols : symbols[k].name = n
    <3>1. symbols' = symbols
      BY <1>5, <2>1
    <3>2. QED
      BY <1>4, <2>1, <3>1 DEF AndIfNew
  <2>2. CASE ~ \E k \in DOMAIN symbols : symbols[k].name = n
    <3>1. symbols' = Append(symbols, y)
      BY <1>5, <2>2
    <3>2. QED
      BY <1>4, <2>2, <3>1 DEF AndIfNew
  <2>3. QED
    BY <2>1, <2>2
<1> DEFINE W == {x.name : x \in Adds}
<1>7. n \in W
  OBVIOUS
<1>8. Names(s) \in Seq(W) /\ Names(Append(s, a)) = Append(Names(s), n)
  BY NamesProperties
<1> HIDE DEF W, n
<1>9. Distinct(Append(Names(s), n)) = AndIfNew(Distinct(Names(s)), n)
  BY <1>7, <1>8, DistinctAppend
<1>10. QED
  BY <1>6, <1>8, <1>9

LEMMA HandleDieSymbols ==
  ASSUME FilesInv, CleanSymbols, NoneFailed, NoneFailed', HandleDie PROVE CleanSymbols'
<1> USE DEF Goto
<1> DEFINE a == Head(Top.adds)
           r == Tail(Top.adds)
           f == [Top EXCEPT !.adds = r]
<1>1. /\ pc = "walk" /\ Top.adds # << >> /\ seen' = seen /\ AddSymbol(a) /\ SetTop(f)
      /\ Calls /\ IsSequence(symbols)
  <2>1. \A call, where : ~ Fail(call, where)
    BY NoCallFails DEF NoneFailed, FilesInv, Inv
  <2>2. QED
    BY <2>1 DEF HandleDie, AtDie, NoneFailed, walkRest, FilesInv, Inv
<1>2. Top \in Frames /\ Top.adds \in Seq(Adds)
  BY <1>1, TopProperties DEF FrameOK, Frames
<1>3. a \in Adds /\ r \in Seq(Adds) /\ Top.adds = << a >> \o r
  BY <1>1, <1>2, HeadTailProperties
<1>4. f \in Frames /\ f.adds = r
  BY <1>2, <1>3 DEF Frames
<1> HIDE DEF a, r, f
<1>5. AddsIn(stack) = Top.adds /\ AddsIn(stack') = r
  BY <1>1, <1>4, AddsAtTop
<1>6. PICK s \in Seq(Adds) : /\ s \o (<< a >> \o r) = FlattenSeq(AddsOf(seen))
                            /\ Names(symbols) = Distinct(Names(s))
  BY <1>3, <1>5 DEF CleanSymbols
<1>7. Names(symbols') = Distinct(Names(Append(s, a)))
  BY <1>1, <1>3, <1>6, AddSymbolNames
<1>8. Append(s, a) \in Seq(Adds) /\ Append(s, a) = s \o << a >>
  BY <1>3, AppendProperties, AppendIsConcat
<1>9. (s \o << a >>) \o r = s \o (<< a >> \o r)
  <2> DEFINE w == << a >>
  <2>1. AssociativeOn(Adds)
    BY Associative, Zenon
  <2>2. w \in Seq(Adds)
    BY <1>3
  <2> HIDE DEF w
  <2>3. (s \o w) \o r = s \o (w \o r)
    BY <1>3, <2>1, <2>2, Zenon DEF AssociativeOn
  <2>4. QED
    BY <2>3 DEF w
<1>10. Append(s, a) \o AddsIn(stack') = FlattenSeq(AddsOf(seen'))
  BY <1>1, <1>5, <1>6, <1>8, <1>9
<1>11. QED
  BY <1>7, <1>8, <1>10 DEF CleanSymbols

LEMMA CleanSymbolsStep ==
  ASSUME FilesInv, CleanWalk, CleanSymbols, [Next]_vars PROVE CleanSymbols'
<1> USE DEF Goto
<1> SUFFICES ASSUME NoneFailed' PROVE CleanSymbols'
  BY DEF CleanSymbols
<1>1. Inv /\ NoneFailed /\ \A call, where : ~ Fail(call, where)
  BY CleanBefore, NoCallFails DEF FilesInv, Inv, NoneFailed
<1>2. ASSUME UNCHANGED << stack, seen, symbols >> PROVE CleanSymbols'
  BY <1>1, <1>2, NoSymbolAdded
<1>3. CASE Open \/ InitDwarf \/ CheckEndianness \/ Write
  BY <1>2, <1>3 DEF Open, InitDwarf, CheckEndianness, Write, walkVars
<1>4. CASE ReadSection \/ ReadElfSymbol \/ EndSections
  BY <1>2, <1>4 DEF ReadSection, ReadElfSymbol, EndSections, walkVars
<1>5. CASE NextUnit \/ HeaderFails \/ EndUnits
  BY <1>2, <1>5 DEF NextUnit, HeaderFails, EndUnits
<1>6. CASE DefineMacro \/ OtherOp \/ ImportMacros \/ MacroOpFails \/ EndMacroLoop
  BY <1>2, <1>6 DEF DefineMacro, OtherOp, ImportMacros, MacroOpFails, EndMacroLoop, macroRest
<1>7. CASE VisitDie \/ HandleDie
  BY <1>1, <1>7, VisitDieSymbols, HandleDieSymbols
<1>8. CASE ReadSourceFiles \/ VisitChildren \/ NextSibling
  <2>1. UNCHANGED << seen, symbols >>
    BY <1>8 DEF ReadSourceFiles, VisitChildren, NextSibling
  <2>2. Calls' /\ (stack' # << >> => Top'.phase # "handle")
    BY <1>1, <1>8, ReadSourceFilesCalls, VisitChildrenCalls, NextSiblingCalls
  <2>3. AddsIn(stack') = << >>
    BY <2>2, NothingToAdd DEF Calls, Top
  <2>4. AddsIn(stack) = << >>
    <3>1. CASE ReadSourceFiles
      <4>1. stack = << >>
        BY <1>1, <3>1 DEF ReadSourceFiles, Inv, Calls
      <4>2. QED
        BY <4>1 DEF AddsIn
    <3>2. CASE VisitChildren
      <4>1. Top.adds = << >>
        BY <3>2 DEF VisitChildren
      <4>2. QED
        BY <4>1 DEF AddsIn, Top
    <3>3. CASE NextSibling
      <4>1. Top.phase = "sibling"
        BY <3>3 DEF NextSibling, AtDie
      <4>2. QED
        BY <1>1, <4>1, NothingToAdd DEF Inv, Calls, Top
    <3>4. QED
      BY <1>8, <3>1, <3>2, <3>3
  <2>5. QED
    BY <1>1, <2>1, <2>3, <2>4, NoSymbolAdded
<1>9. CASE RestartAtRoot
  <2>1. Top.i # 0
    BY <1>1, <1>9, CleanTop DEF RestartAtRoot, CleanWalk, CleanFrames
  <2>2. QED
    BY <1>9, <2>1 DEF RestartAtRoot
<1>10. CASE UNCHANGED vars
  BY <1>2, <1>10 DEF vars, walkVars
<1>11. QED
  BY <1>3, <1>4, <1>5, <1>6, <1>7, <1>8, <1>9, <1>10 DEF Next

-----------------------------------------------------------------------------
(* The symbol tables of a run in which no call fails.                      *)

SectionSymbols == [s \in DOMAIN Sections |->
                     IF Sections[s].type = "SHT_SYMTAB" THEN Sections[s].symbols ELSE << >>]
ElfSymbols == UNION {Range(Sections[s].symbols) : s \in DOMAIN Sections}

Stored == [k \in DOMAIN symbolTable |-> symbolTable[k].symbol]

ElfTodo == entries \o From(SectionSymbols, Len(headers) + 1)

CleanElf ==
  /\ entries \in Seq(ElfSymbols) /\ IsSequence(symbolTable)
  /\ Stored \in Seq(ElfSymbols)
  /\ NoneFailed => Stored \o ElfTodo = AllElfSymbols

LEMMA SectionSymbolsType ==
  /\ SectionSymbols \in Seq(Seq(ElfSymbols)) /\ Len(SectionSymbols) = Len(Sections)
  /\ \A s \in 1 .. Len(Sections) :
       SectionSymbols[s] = IF Sections[s].type = "SHT_SYMTAB" THEN Sections[s].symbols ELSE << >>
  /\ AllElfSymbols = FlattenSeq(SectionSymbols)
<1>1. IsSeq(Sections) /\ DOMAIN Sections = 1 .. Len(Sections)
  BY SectionsAssumption, LensAreNat
<1>2. PICK S : Sections \in Seq(S)
  BY <1>1 DEF IsSeq
<1>3. ASSUME NEW s \in 1 .. Len(Sections)
      PROVE  /\ SectionSymbols[s]
                  = IF Sections[s].type = "SHT_SYMTAB" THEN Sections[s].symbols ELSE << >>
             /\ SectionSymbols[s] \in Seq(ElfSymbols)
  <2>1. s \in DOMAIN Sections
    BY <1>1
  <2>2. IsSeq(Sections[s].symbols)
    BY <2>1, SectionsAssumption
  <2>3. Range(Sections[s].symbols) \subseteq ElfSymbols
    BY <2>1 DEF ElfSymbols
  <2>4. Sections[s].symbols \in Seq(ElfSymbols)
    BY <2>2, <2>3, SeqMonotonic DEF IsSeq
  <2>5. QED
    BY <2>1, <2>4, EmptySequences DEF SectionSymbols
<1>4. SectionSymbols = [s \in DOMAIN Sections |-> SectionSymbols[s]]
  BY DEF SectionSymbols
<1>5. SectionSymbols \in Seq(Seq(ElfSymbols)) /\ Len(SectionSymbols) = Len(Sections)
  BY <1>2, <1>3, <1>4, MappedSequence
<1>6. AllElfSymbols = FlattenSeq(SectionSymbols)
  BY DEF AllElfSymbols, SectionSymbols
<1>7. QED
  BY <1>3, <1>5, <1>6

LEMMA ReadSectionElf ==
  ASSUME Inv, CleanElf, ReadSection, NoneFailed' => NoneFailed PROVE CleanElf'
<1> USE DEF Goto
<1>0. CASE pc' = "aborted" /\ UNCHANGED << headers, entries >>
  <2>1. UNCHANGED symbolTable
    BY DEF ReadSection
  <2>2. QED
    BY <1>0, <2>1 DEF CleanElf, Stored, NoneFailed
<1> SUFFICES ASSUME ~ (pc' = "aborted" /\ UNCHANGED << headers, entries >>)
             PROVE  CleanElf'
  BY <1>0
<1> DEFINE n == Len(headers) + 1
           x == IF Sections[n].type = "SHT_SYMTAB" THEN Sections[n].symbols ELSE << >>
           e == From(SectionSymbols, n + 1)
<1>1. /\ entries = << >> /\ headers' = Append(headers, n) /\ symbolTable' = symbolTable
      /\ entries' = x \/ entries' = << >>
      /\ Len(headers) < Len(Sections) /\ headers \in Seq(DOMAIN Sections)
  BY DEF ReadSection, Inv, Scalars
<1>2. Len(headers) \in Nat /\ Len(Sections) \in Nat /\ n \in 1 .. Len(Sections)
      /\ n \in DOMAIN Sections
  <2>1. Len(headers) \in Nat /\ Len(Sections) \in Nat /\ DOMAIN Sections = 1 .. Len(Sections)
    BY <1>1, LenProperties, LensAreNat
  <2>2. QED
    BY <1>1, <2>1
<1>3. x \in Seq(ElfSymbols) /\ e \in Seq(ElfSymbols) /\ From(SectionSymbols, n) = x \o e
      /\ From(SectionSymbols, n) \in Seq(ElfSymbols)
  <2>1. SectionSymbols[n] = x
    BY <1>2, SectionSymbolsType
  <2>2. n + 1 \in 1 .. Len(Sections) + 1 /\ n \in 1 .. Len(Sections) + 1
    BY <1>2
  <2>3. /\ SectionSymbols[n] \in Seq(ElfSymbols) /\ e \in Seq(ElfSymbols)
        /\ From(SectionSymbols, n) = SectionSymbols[n] \o e
        /\ From(SectionSymbols, n) \in Seq(ElfSymbols)
    BY <1>2, <2>2, SectionSymbolsType, FromProperties
  <2>4. QED
    BY <2>1, <2>3
<1>4. Len(headers') = n
  BY <1>1, <1>2, AppendProperties
<1>5. entries' \in Seq(ElfSymbols) /\ IsSequence(symbolTable') /\ Stored' \in Seq(ElfSymbols)
  BY <1>1, <1>3, EmptySequences DEF CleanElf, Stored
<1>6. ASSUME NoneFailed' PROVE Stored' \o ElfTodo' = AllElfSymbols
  <2>1. entries' = x
    BY <1>6, NoCallFails DEF ReadSection, Inv, NoneFailed
  <2>2. ElfTodo' = x \o e
    BY <1>4, <2>1 DEF ElfTodo
  <2>3. ElfTodo = x \o e
    <3>1. ElfTodo = << >> \o From(SectionSymbols, n)
      BY <1>1 DEF ElfTodo
    <3>2. QED
      BY <1>3, <3>1, ConcatEmptySeq
  <2>4. Stored' = Stored
    BY <1>1 DEF Stored
  <2>5. QED
    BY <1>6, <2>2, <2>3, <2>4 DEF CleanElf
<1>7. QED
  BY <1>5, <1>6 DEF CleanElf

LEMMA ReadElfSymbolElf ==
  ASSUME Inv, CleanElf, ReadElfSymbol, NoneFailed' => NoneFailed PROVE CleanElf'
<1> USE DEF Goto
<1>1. /\ entries # << >> /\ headers' = headers
      /\ \/ /\ entries' = Tail(entries)
            /\ \E strtab, section : symbolTable' = Append(symbolTable,
                 [symbol |-> Head(entries), strtab |-> strtab, section |-> section])
         \/ pc' = "aborted" /\ UNCHANGED << symbolTable, entries >>
  BY DEF ReadElfSymbol, AddElfSymbol
<1>2. CASE pc' = "aborted" /\ UNCHANGED << symbolTable, entries >>
  BY <1>2 DEF CleanElf, Stored, NoneFailed
<1>3. CASE /\ entries' = Tail(entries)
           /\ \E strtab, section : symbolTable' = Append(symbolTable,
                 [symbol |-> Head(entries), strtab |-> strtab, section |-> section])
  <2> DEFINE h == Head(entries)
             r == Tail(entries)
             e == From(SectionSymbols, Len(headers) + 1)
  <2>1. h \in ElfSymbols /\ r \in Seq(ElfSymbols) /\ entries = << h >> \o r
    BY <1>1, HeadTailProperties DEF CleanElf
  <2>2. PICK strtab, section : symbolTable' = Append(symbolTable,
                 [symbol |-> h, strtab |-> strtab, section |-> section])
    BY <1>3
  <2> DEFINE y == [symbol |-> h, strtab |-> strtab, section |-> section]
  <2>3. PICK S : symbolTable \in Seq(S)
    BY DEF CleanElf, IsSequence
  <2> DEFINE T == S \cup {y}
  <2>4. symbolTable \in Seq(T) /\ y \in T
    BY <2>3, SeqMonotonic
  <2>5. y.symbol = h /\ symbolTable' = Append(symbolTable, y)
    BY <2>2
  <2> HIDE DEF y, T
  <2>6. /\ symbolTable' \in Seq(T) /\ Len(symbolTable') = Len(symbolTable) + 1
        /\ Len(symbolTable) \in Nat /\ symbolTable'[Len(symbolTable) + 1] = y
        /\ \A k \in 1 .. Len(symbolTable) : symbolTable'[k] = symbolTable[k]
        /\ DOMAIN symbolTable = 1 .. Len(symbolTable)
    BY <2>4, <2>5, AppendProperties, LenProperties
  <2>7. DOMAIN symbolTable' = 1 .. Len(symbolTable) + 1
    BY <2>6, LenProperties
  <2>8. Stored' = Append(Stored, h)
    <3>1. Stored \in Seq(ElfSymbols) /\ DOMAIN Stored = 1 .. Len(symbolTable)
      BY <2>6 DEF CleanElf, Stored
    <3>2. \A k \in 1 .. Len(symbolTable) : Stored[k] \in ElfSymbols
      BY <3>1, ElementAt
    <3>3. Stored = [k \in 1 .. Len(symbolTable) |-> Stored[k]]
      BY <2>6 DEF Stored
    <3>4. Stored' = [k \in 1 .. Len(symbolTable) + 1 |-> Stored'[k]]
      BY <2>7 DEF Stored
    <3>5. \A k \in 1 .. Len(symbolTable) : k \in 1 .. Len(symbolTable) + 1
      BY <2>6
    <3>6. \A k \in 1 .. Len(symbolTable) : Stored'[k] = Stored[k]
      BY <2>6, <2>7, <3>5 DEF Stored
    <3>7. Len(symbolTable) + 1 \in 1 .. Len(symbolTable) + 1
      BY <2>6
    <3>8. Stored'[Len(symbolTable) + 1] = h
      BY <2>5, <2>6, <2>7, <3>7 DEF Stored
    <3>9. Extended(Stored', Stored, Len(symbolTable), h, ElfSymbols)
      BY <2>1, <2>6, <3>2, <3>3, <3>4, <3>6, <3>8 DEF Extended
    <3>10. QED
      BY <3>9, ExtendedIsAppended
  <2>9. /\ Stored' = Stored \o << h >> /\ Stored' \in Seq(ElfSymbols)
        /\ Stored \in Seq(ElfSymbols)
    BY <2>1, <2>8, AppendIsConcat, AppendProperties DEF CleanElf
  <2>10. IsSequence(symbolTable')
    BY <2>6 DEF IsSequence
  <2>11. ASSUME NoneFailed' PROVE Stored' \o ElfTodo' = AllElfSymbols
    <3>1. e \in Seq(ElfSymbols)
      <4>1. Len(headers) \in Nat /\ Len(headers) <= Len(Sections) /\ Len(Sections) \in Nat
        BY LenProperties, LensAreNat DEF Inv, Scalars
      <4>2. Len(headers) + 1 \in 1 .. Len(Sections) + 1
        BY <4>1
      <4>3. QED
        BY <4>2, SectionSymbolsType, FromProperties
    <3>2. Stored \o ElfTodo = AllElfSymbols
      BY <2>11 DEF CleanElf
    <3> DEFINE w == << h >>
    <3>3. w \in Seq(ElfSymbols) /\ ElfTodo = (w \o r) \o e
      BY <2>1 DEF ElfTodo
    <3>4. ElfTodo' = r \o e
      BY <1>1, <1>3 DEF ElfTodo
    <3>5. Stored' = Stored \o w
      BY <2>9
    <3> HIDE DEF w, r, e
    <3>6. AssociativeOn(ElfSymbols)
      BY Associative, Zenon
    <3>7. r \in Seq(ElfSymbols) /\ r \o e \in Seq(ElfSymbols)
      BY <2>1, <3>1, ConcatProperties DEF r
    <3>8. (w \o r) \o e = w \o (r \o e)
      BY <3>1, <3>3, <3>6, <3>7, Zenon DEF AssociativeOn
    <3> DEFINE v == r \o e
    <3>9. (Stored \o w) \o v = Stored \o (w \o v)
      <4>1. v \in Seq(ElfSymbols)
        BY <3>7
      <4>2. w \in Seq(ElfSymbols) /\ Stored \in Seq(ElfSymbols)
        BY <2>9, <3>3
      <4> HIDE DEF v
      <4>3. QED
        BY <3>6, <4>1, <4>2, Zenon DEF AssociativeOn
    <3>10. QED
      BY <3>2, <3>3, <3>4, <3>5, <3>8, <3>9
  <2>12. QED
    BY <1>3, <2>1, <2>9, <2>10, <2>11 DEF CleanElf
<1>4. QED
  BY <1>1, <1>2, <1>3

LEMMA CleanElfStep == ASSUME Inv, CleanElf, [Next]_vars PROVE CleanElf'
<1>1. NoneFailed' => NoneFailed
  BY CleanBefore
<1>2. ASSUME UNCHANGED << headers, symbolTable, entries >> PROVE CleanElf'
  BY <1>1, <1>2 DEF CleanElf, Stored, ElfTodo
<1>3. CASE Open \/ InitDwarf \/ CheckEndianness \/ Write
  BY <1>2, <1>3 DEF Open, InitDwarf, CheckEndianness, Write, elfVars
<1>4. CASE ReadSection \/ ReadElfSymbol
  BY <1>1, <1>4, ReadSectionElf, ReadElfSymbolElf
<1>5. CASE EndSections \/ NextUnit \/ HeaderFails \/ EndUnits
  BY <1>2, <1>5 DEF EndSections, NextUnit, HeaderFails, EndUnits, elfVars
<1>6. CASE DefineMacro \/ ImportMacros \/ OtherOp \/ MacroOpFails \/ EndMacroLoop
  BY <1>2, <1>6 DEF DefineMacro, ImportMacros, OtherOp, MacroOpFails, EndMacroLoop,
       macroRest, elfVars
<1>7. CASE ReadSourceFiles \/ VisitDie \/ HandleDie
  BY <1>2, <1>7 DEF ReadSourceFiles, VisitDie, HandleDie, walkRest, elfVars
<1>8. CASE VisitChildren \/ NextSibling \/ RestartAtRoot
  BY <1>2, <1>8 DEF VisitChildren, NextSibling, RestartAtRoot, walkRest, elfVars
<1>9. CASE UNCHANGED vars
  BY <1>2, <1>9 DEF vars, elfVars
<1>10. QED
  BY <1>3, <1>4, <1>5, <1>6, <1>7, <1>8, <1>9 DEF Next

-----------------------------------------------------------------------------
(* What has been done where the program is.                                *)

AfterExtras == {"endianness", "headers", "macros", "files", "walk", "write"}

Order ==
  /\ options \in [container : BOOLEAN, extras : BOOLEAN,
                  data : ByteOrders \cup {"no_class"}]
  /\ written => pc = "exit"
  /\ NoneFailed /\ options.extras /\ options.data # "no_class"
       /\ (pc \in AfterExtras \/ written) =>
       entries = << >> /\ Len(headers) = Len(Sections)
  /\ pc \in AfterExtras \ {"endianness"} \/ written =>
       options.data = "no_class" \/ little_endian = (options.data = "ELFDATA2LSB")
  /\ pc = "write" \/ written => unit = Len(Units)
  /\ NoneFailed /\ pc = "exit" /\ options.container =>
       written \/ options.data \in {"unknown", "no_class"}

LEMMA OrderStep == ASSUME Inv, Order, [Next]_vars PROVE Order'
<1> USE DEF Goto
<1>1. /\ NoneFailed' => NoneFailed
      /\ NoneFailed' => \A call, where : ~ Fail(call, where)
  BY CleanBefore, NoCallFails DEF Inv, NoneFailed
<1>2. CASE Open
  BY <1>1, <1>2 DEF Open, Order, AfterExtras, elfVars, walkVars
<1>3. CASE InitDwarf
  BY <1>1, <1>3 DEF InitDwarf, Order, AfterExtras, elfVars, walkVars
<1>4. CASE CheckEndianness
  <2>1. options.data \in ByteOrders \cup {"no_class"}
    BY DEF Order
  <2>2. PICK data \in IF options.data = "no_class" THEN ByteOrders ELSE {options.data} :
          /\ little_endian' = (data # "ELFDATA2MSB")
          /\ pc' = IF data = "unknown" THEN "exit" ELSE "headers"
    BY <1>4 DEF CheckEndianness
  <2>3. pc = "endianness" /\ UNCHANGED << options, entries, headers, unit, written >>
    BY <1>4 DEF CheckEndianness, walkVars
  <2>4. ~ written
    BY <2>3 DEF Order
  <2>5. \/ options.data = "no_class"
        \/ /\ little_endian' = (options.data # "ELFDATA2MSB")
           /\ pc' = IF options.data = "unknown" THEN "exit" ELSE "headers"
    BY <2>2
  <2>6. options.data = "no_class" \/ pc' = "exit"
        \/ little_endian' = (options.data = "ELFDATA2LSB")
    BY <2>1, <2>5 DEF ByteOrders
  <2>7. pc' \in {"exit", "headers"}
    BY <2>2
  <2>8. pc' = "exit" => options.data \in {"unknown", "no_class"}
    BY <2>5
  <2>9. QED
    BY <1>1, <2>3, <2>4, <2>6, <2>7, <2>8 DEF Order, AfterExtras
<1>5. CASE Write
  BY <1>1, <1>5 DEF Write, Order, AfterExtras, elfVars, walkVars
<1>6. CASE ReadSection \/ ReadElfSymbol
  <2>1. /\ pc = "sections" /\ pc' \in {"sections", "aborted"}
        /\ UNCHANGED << options, written >>
    BY <1>6 DEF ReadSection, ReadElfSymbol, AddElfSymbol
  <2>2. QED
    BY <2>1 DEF Order, AfterExtras
<1>7. CASE EndSections
  <2>1. ~ written /\ UNCHANGED << options, headers, entries, little_endian, written, unit >>
    BY <1>7 DEF EndSections, Order, elfVars, walkVars
  <2>2. /\ entries = << >> /\ pc' \in {"endianness", "aborted"}
        /\ NoneFailed' => Len(headers) = Len(Sections) \/ options.data = "no_class"
    BY <1>1, <1>7 DEF EndSections, NoneFailed
  <2>3. QED
    BY <1>1, <2>1, <2>2 DEF Order, AfterExtras
<1>8. ASSUME pc \in AfterExtras \ {"endianness"}, pc' \in AfterExtras \cup {"aborted"},
             UNCHANGED << options, entries, headers, little_endian, written >>,
             pc' = "write" => unit' = Len(Units), pc' # "endianness"
      PROVE  Order'
  BY <1>1, <1>8 DEF Order, AfterExtras
<1>9. CASE NextUnit \/ HeaderFails \/ EndUnits
  BY <1>8, <1>9 DEF NextUnit, HeaderFails, EndUnits, AfterExtras, elfVars
<1>10. CASE DefineMacro \/ ImportMacros \/ OtherOp \/ MacroOpFails
  BY <1>8, <1>10 DEF DefineMacro, ImportMacros, OtherOp, MacroOpFails, AtOp, AfterExtras,
       macroRest, elfVars
<1>11. CASE EndMacroLoop \/ ReadSourceFiles
  BY <1>8, <1>11 DEF EndMacroLoop, ReadSourceFiles, AfterExtras, macroRest, walkRest, elfVars
<1>12. CASE VisitDie \/ HandleDie \/ VisitChildren \/ RestartAtRoot
  BY <1>8, <1>12 DEF VisitDie, HandleDie, VisitChildren, RestartAtRoot, AtDie, AfterExtras,
       walkRest, elfVars
<1>13. CASE NextSibling
  <2>1. /\ pc = "walk" /\ pc' \in {"walk", "headers"}
        /\ UNCHANGED << options, entries, headers, little_endian, written >>
    BY <1>13 DEF NextSibling, AtDie, walkRest, elfVars
  <2>2. QED
    BY <1>8, <2>1 DEF AfterExtras
<1>14. CASE UNCHANGED vars
  BY <1>14 DEF vars, elfVars, walkVars, Order, NoneFailed
<1>15. QED
  BY <1>2, <1>3, <1>4, <1>5, <1>6, <1>7, <1>9, <1>10, <1>11, <1>12, <1>13, <1>14 DEF Next

-----------------------------------------------------------------------------
(* What a run in which no call fails hands over.                           *)

CleanInv == FilesInv /\ CleanWalk /\ CleanMacros /\ CleanSymbols /\ CleanElf /\ Order

LEMMA NothingMapped ==
  ASSUME NEW t, t = [k \in DOMAIN << >> |-> t[k]] PROVE t = << >>
<1>1. << >> \in Seq({}) /\ Len(<< >>) = 0
  OBVIOUS
<1>2. t \in Seq({}) /\ Len(t) = 0
  BY <1>1, MappedSequence
<1>3. QED
  BY <1>2, EmptySequences

LEMMA NamesOfNothing == Names(<< >>) = << >>
<1> DEFINE t == Names(<< >>)
<1>1. t = [k \in DOMAIN << >> |-> t[k]]
  BY DEF Names
<1> HIDE DEF t
<1>2. t = << >>
  BY <1>1, NothingMapped
<1>3. QED
  BY <1>2 DEF t

LEMMA AddsOfNothing == FlattenSeq(AddsOf(<< >>)) = << >>
<1> DEFINE t == AddsOf(<< >>)
<1>1. t = [k \in DOMAIN << >> |-> t[k]]
  BY DEF AddsOf
<1> HIDE DEF t
<1>2. t = << >>
  BY <1>1, NothingMapped
<1>3. QED
  BY <1>2, FlattenEmpty DEF t

LEMMA CleanWalkInit == Init => CleanWalk
<1> SUFFICES ASSUME Init PROVE CleanWalk
  OBVIOUS
<1>1. /\ stack = << >> /\ seen = << >> /\ return_value = "OK" /\ NextRoot = 1
      /\ stack \in Seq(CleanFrames)
  BY EmptySequences DEF Init, NextRoot
<1>2. From(UnitTrees, 1) = AllDies /\ AllDies \in Seq(DOMAIN Dies)
  BY UnitTreesType, FromProperties, FlattenType
<1>3. WalkTodo = << >> \o AllDies
  BY <1>1, <1>2, StackTodoEmpty DEF WalkTodo
<1>4. << >> \o AllDies = AllDies
  BY <1>2, ConcatEmptySeq
<1>5. QED
  BY <1>1, <1>3, <1>4 DEF CleanWalk

LEMMA CleanMacrosInit == Init => CleanMacros
<1> SUFFICES ASSUME Init PROVE CleanMacros
  OBVIOUS
<1>1. macroStack = << >> /\ unit + 1 = 1 /\ defineMacros = << >>
  BY DEF Init
<1>2. From(UnitMacros, 1) = AllMacros /\ AllMacros \in Seq(MacroValues)
  BY UnitMacrosType, FromProperties, FlattenType
<1>3. MacrosTodo = << >> \o AllMacros
  BY <1>1, <1>2, LoopsTodoEmpty DEF MacrosTodo
<1>4. << >> \o AllMacros = AllMacros
  BY <1>2, ConcatEmptySeq
<1>5. << >> \in Seq(MacroValues)
  BY EmptySequences
<1>6. << >> \o MacrosTodo = AllMacros
  BY <1>3, <1>4
<1>7. QED
  BY <1>1, <1>5, <1>6 DEF CleanMacros

LEMMA CleanSymbolsInit == Init => CleanSymbols
<1> SUFFICES ASSUME Init PROVE CleanSymbols
  OBVIOUS
<1>1. stack = << >> /\ seen = << >> /\ symbols = << >>
  BY DEF Init
<1>2. << >> \in Seq(Adds)
  BY EmptySequences
<1>3. AddsIn(stack) = << >>
  BY <1>1 DEF AddsIn
<1>4. << >> \o << >> = << >>
  BY <1>2, ConcatEmptySeq
<1>5. << >> \o AddsIn(stack) = FlattenSeq(AddsOf(seen))
  BY <1>1, <1>3, <1>4, AddsOfNothing
<1>6. Names(symbols) = Distinct(Names(<< >>))
  BY <1>1, NamesOfNothing, DistinctEmpty
<1>7. QED
  BY <1>2, <1>5, <1>6 DEF CleanSymbols

LEMMA CleanElfInit == Init => CleanElf
<1> SUFFICES ASSUME Init PROVE CleanElf
  OBVIOUS
<1>1. headers = << >> /\ symbolTable = << >> /\ entries = << >>
  BY DEF Init
<1>2. Stored = << >>
  <2> DEFINE t == Stored
  <2>1. t = [k \in DOMAIN << >> |-> t[k]]
    BY <1>1 DEF Stored
  <2> HIDE DEF t
  <2>2. t = << >>
    BY <2>1, NothingMapped
  <2>3. QED
    BY <2>2 DEF t
<1>3. << >> \in Seq(ElfSymbols) /\ IsSequence(symbolTable)
  BY <1>1, EmptySequences DEF IsSequence
<1>4. Len(headers) + 1 = 1
  BY <1>1, EmptySequences
<1>5. From(SectionSymbols, 1) = AllElfSymbols /\ AllElfSymbols \in Seq(ElfSymbols)
  BY SectionSymbolsType, FromProperties, FlattenType
<1>6. << >> \o AllElfSymbols = AllElfSymbols
  BY <1>5, ConcatEmptySeq
<1>7. ElfTodo = AllElfSymbols
  BY <1>1, <1>4, <1>5, <1>6 DEF ElfTodo
<1>8. Stored \o ElfTodo = AllElfSymbols
  BY <1>2, <1>6, <1>7
<1>9. QED
  BY <1>1, <1>2, <1>3, <1>8 DEF CleanElf

LEMMA CleanInvInit == Init => CleanInv
<1>1. Init => Order
  BY DEF Init, Order, AfterExtras, ByteOrders
<1>2. QED
  BY <1>1, FilesInvInit, CleanWalkInit, CleanMacrosInit, CleanSymbolsInit, CleanElfInit
     DEF CleanInv

LEMMA CleanInvStep == CleanInv /\ [Next]_vars => CleanInv'
<1> SUFFICES ASSUME CleanInv, [Next]_vars PROVE CleanInv'
  OBVIOUS
<1>1. Inv /\ FilesInv
  BY DEF CleanInv, FilesInv
<1>2. FilesInv'
  BY <1>1, FilesInvStep
<1>3. CleanWalk'
  BY <1>1, CleanWalkStep DEF CleanInv
<1>4. CleanMacros'
  BY <1>1, CleanMacrosStep DEF CleanInv
<1>5. CleanSymbols'
  BY <1>1, CleanSymbolsStep DEF CleanInv
<1>6. CleanElf' /\ Order'
  BY <1>1, CleanElfStep, OrderStep DEF CleanInv
<1>7. QED
  BY <1>2, <1>3, <1>4, <1>5, <1>6 DEF CleanInv

\* Nothing is left to do when the data container was called.
LEMMA AllIsDone ==
  ASSUME CleanInv, written, failed = << >>
  PROVE  /\ pc = "exit" /\ NoneFailed /\ stack = << >> /\ macroStack = << >>
         /\ WalkTodo = << >> /\ MacrosTodo = << >>
<1>1. /\ pc = "exit" /\ NoneFailed /\ unit = Len(Units) /\ Scalars
  BY DEF CleanInv, Order, NoneFailed, FilesInv, Inv
<1>2. stack = << >> /\ macroStack = << >>
  BY <1>1 DEF CleanInv, FilesInv, Inv, Calls, MacroLoops
<1>3. NextRoot = unit + 1
  BY <1>1 DEF NextRoot
<1>4. From(UnitTrees, unit + 1) = << >> /\ From(UnitMacros, unit + 1) = << >>
  <2>1. Len(UnitMacros) = Len(Units)
    BY UnitMacrosType
  <2>2. From(UnitMacros, Len(UnitMacros) + 1) = << >>
    BY UnitMacrosType, FromProperties
  <2>3. QED
    BY <1>1, <2>1, <2>2, UnitsTodo
<1>5. << >> \o << >> = << >>
  <2>1. << >> \in Seq({})
    BY EmptySequences
  <2>2. QED
    BY <2>1, ConcatEmptySeq
<1>6. WalkTodo = << >>
  BY <1>2, <1>3, <1>4, <1>5, StackTodoEmpty DEF WalkTodo
<1>7. MacrosTodo = << >>
  BY <1>2, <1>4, <1>5, LoopsTodoEmpty DEF MacrosTodo
<1>8. QED
  BY <1>1, <1>2, <1>6, <1>7

LEMMA AllIsStored == CleanInv => CleanParseStoresAll
<1> SUFFICES ASSUME CleanInv PROVE CleanParseStoresAll
  OBVIOUS
<1>1. ASSUME written, failed = << >>
      PROVE  seen = AllDies /\ Names(symbols) = Distinct(Names(AllAdds))
  <2>1. NoneFailed /\ stack = << >> /\ WalkTodo = << >> /\ seen \in Seq(DOMAIN Dies)
    BY <1>1, AllIsDone DEF CleanInv, FilesInv, Inv, Scalars
  <2>2. seen = AllDies
    <3>1. seen \o << >> = AllDies
      BY <2>1 DEF CleanInv, CleanWalk
    <3>2. seen \o << >> = seen
      BY <2>1, ConcatEmptySeq
    <3>3. QED
      BY <3>1, <3>2
  <2>3. PICK s \in Seq(Adds) : /\ s \o AddsIn(stack) = FlattenSeq(AddsOf(seen))
                               /\ Names(symbols) = Distinct(Names(s))
    BY <2>1 DEF CleanInv, CleanSymbols
  <2>4. s \o << >> = s
    BY ConcatEmptySeq
  <2>5. AddsIn(stack) = << >>
    BY <2>1 DEF AddsIn
  <2>6. FlattenSeq(AddsOf(seen)) = AllAdds
    BY <2>2 DEF AddsOf, AllAdds
  <2>7. s = AllAdds
    BY <2>3, <2>4, <2>5, <2>6
  <2>8. QED
    BY <2>2, <2>3, <2>7
<1>2. ASSUME written, failed = << >>, options.extras, options.data # "no_class"
      PROVE  /\ Len(headers) = Len(Sections)
             /\ Len(symbolTable) = Len(AllElfSymbols)
             /\ \A k \in DOMAIN symbolTable : symbolTable[k].symbol = AllElfSymbols[k]
  <2>1. NoneFailed /\ entries = << >> /\ Len(headers) = Len(Sections)
    BY <1>2, AllIsDone DEF CleanInv, Order
  <2>2. From(SectionSymbols, Len(headers) + 1) = << >>
    <3>1. From(SectionSymbols, Len(SectionSymbols) + 1) = << >>
      BY SectionSymbolsType, FromProperties
    <3>2. QED
      BY <2>1, <3>1, SectionSymbolsType
  <2>3. Stored \in Seq(ElfSymbols) /\ Stored \o ElfTodo = AllElfSymbols
    BY <2>1 DEF CleanInv, CleanElf
  <2>4. << >> \o << >> = << >> /\ Stored \o << >> = Stored
    <3>1. << >> \in Seq(ElfSymbols)
      BY EmptySequences
    <3>2. QED
      BY <2>3, <3>1, ConcatEmptySeq
  <2>5. ElfTodo = << >>
    BY <2>1, <2>2, <2>4 DEF ElfTodo
  <2>6. Stored = AllElfSymbols
    BY <2>3, <2>4, <2>5
  <2>7. PICK S : symbolTable \in Seq(S)
    BY DEF CleanInv, CleanElf, IsSequence
  <2>8. Len(Stored) = Len(symbolTable)
    <3>1. Len(symbolTable) \in Nat /\ DOMAIN symbolTable = 1 .. Len(symbolTable)
      BY <2>7, LenProperties
    <3>2. DOMAIN Stored = 1 .. Len(symbolTable)
      BY <3>1 DEF Stored
    <3>3. QED
      BY <2>3, <3>1, <3>2, LenProperties
  <2>9. \A k \in DOMAIN symbolTable : Stored[k] = symbolTable[k].symbol
    BY DEF Stored
  <2>10. QED
    BY <2>1, <2>6, <2>8, <2>9
<1>3. ASSUME written, failed = << >>
      PROVE  options.data = "no_class" \/ little_endian = (options.data = "ELFDATA2LSB")
  BY <1>3 DEF CleanInv, Order
<1>4. ASSUME pc = "exit", failed = << >>, options.container
      PROVE  written \/ options.data \in {"unknown", "no_class"}
  BY <1>4 DEF CleanInv, Order, NoneFailed
<1>5. QED
  BY <1>1, <1>2, <1>3, <1>4, Zenon DEF CleanParseStoresAll

\* When no call fails, every DIE, the first symbol of each name, every section
\* and every entry of a symbol table of the file is handed to the data
\* container: of a file of neither class, every DIE and symbol (readCUList and getDieAndSiblings, Juicer.cpp:245 and 4033,
\* getObjDataFromElf, 4338, ElfFile::addSymbol, ElfFile.cpp:88, and parse()).
THEOREM CleanRunsStoreAll == Spec => []CleanParseStoresAll
BY CleanInvInit, CleanInvStep, AllIsStored, PTL DEF Spec

LEMMA AllIsExpanded == CleanInv => MacrosAreExpanded
<1> SUFFICES ASSUME CleanInv, written, failed = << >>
             PROVE  Distinct(defineMacros) = Distinct(AllMacros)
  BY DEF MacrosAreExpanded
<1>1. NoneFailed /\ MacrosTodo = << >>
  BY AllIsDone
<1>2. PICK m \in Seq(MacroValues) : /\ m \o MacrosTodo = AllMacros
                                    /\ Distinct(defineMacros) = Distinct(m)
  BY <1>1 DEF CleanInv, CleanMacros
<1>3. m \o << >> = m
  BY ConcatEmptySeq
<1>4. QED
  BY <1>1, <1>2, <1>3

\* When no call fails, the macros that a data container keeps are those of
\* the source, in their order and with imported units expanded in place
\* (readCUList and getDefineMacro, Juicer.cpp:245 and 85), although every
\* one was handed over twice.
THEOREM MacrosExpanded == Spec => []MacrosAreExpanded
BY CleanInvInit, CleanInvStep, AllIsExpanded, PTL DEF Spec

=============================================================================
