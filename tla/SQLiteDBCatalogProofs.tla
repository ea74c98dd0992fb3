------------------------ MODULE SQLiteDBCatalogProofs ------------------------
(***************************************************************************)
(* While processes do not overlap and no statement fails: the references   *)
(* of the file, what a repeated write adds, and the catalog its reader     *)
(* sees.                                                                   *)
(***************************************************************************)
EXTENDS SQLiteDBStoreProofs

-----------------------------------------------------------------------------
(* No failures.                                                            *)

NoFailure == faults = 0

NoneFailed == \A w \in Writer : ~ failed[w]

LEMMA NoFaultNow ==
  ASSUME NoFailure, NoFailure', NEW w PROVE ~ Fault(w)
BY DEF NoFailure, Fault

LEMMA NextNoneFailed ==
  TypeOK /\ NoneFailed /\ NoFailure /\ NoFailure' /\ [Next]_vars => NoneFailed'
<1> SUFFICES ASSUME TypeOK, NoneFailed, NoFailure, NoFailure', [Next]_vars
             PROVE  NoneFailed'
  OBVIOUS
<1>1. failed \in [Writer -> BOOLEAN]
  BY DEF TypeOK, BoundsTypeOK
<1>2. CASE failed' = failed
  BY <1>2 DEF NoneFailed
<1>3. ASSUME NEW w \in Writer, Start(w) \/ Step(w) \/ Crash(w) PROVE NoneFailed'
  <2>1. CASE Crash(w) \/ Finish(w)
    <3>1. failed' = [failed EXCEPT ![w] = FALSE]
      BY <2>1 DEF Crash, Finish, Exit
    <3> QED
      BY <1>1, <3>1 DEF NoneFailed
  <2>2. CASE Start(w) \/ FailToCreateTable(w) \/ Return(w)
    BY <1>2, <2>2 DEF Start, FailToCreateTable, Return
  <2>3. CASE /\ Step(w) /\ ~ Finish(w) /\ ~ FailToCreateTable(w)
             /\ ~ Return(w)
    BY <1>2, <2>3, StatementScope, NoFaultNow DEF NoFault
  <2> QED
    BY <1>3, <2>1, <2>2, <2>3
<1> QED
  BY <1>2, <1>3 DEF Next, Quiet, vars

-----------------------------------------------------------------------------
(* Rows.                                                                   *)

\* Every row after an INSERT was there before or is the new one.
LEMMA InsertRows ==
  ASSUME FileTypeOK, NEW w, NEW t \in Tables, NEW row, NEW res,
         Insert(w, t, row, res)
  PROVE  \A r \in DOMAIN db'[t] :
           \/ r \in DOMAIN db[t] /\ db'[t][r] = db[t][r]
           \/ res = "ok" /\ db'[t][r] = row
<1>1. db[t] \in Seq(RowOf[t]) /\ DOMAIN db = Tables
  BY DEF FileTypeOK
<1>2. CASE db' = db
  BY <1>2
<1>3. CASE res = "ok" /\ db' = [db EXCEPT ![t] = Append(@, row)]
  <2>1. db'[t] = Append(db[t], row)
    BY <1>1, <1>3
  <2>2. /\ DOMAIN db[t] = 1 .. Len(db[t]) /\ Len(db[t]) \in Nat
        /\ DOMAIN db'[t] = 1 .. Len(db[t]) + 1
    BY <1>1, <2>1
  <2>3. /\ db'[t][Len(db[t]) + 1] = row
        /\ \A i \in DOMAIN db[t] : db'[t][i] = db[t][i]
    BY <1>1, <2>1, AppendKeeps
  <2> QED
    BY <1>3, <2>2, <2>3
<1> QED
  BY <1>2, <1>3 DEF Insert

\* Which statement writes to which table.
WritesOnly(t) == \A u \in Tables \ {t} : db'[u] = db[u]

LEMMA TablesWritten ==
  ASSUME TypeOK, NEW w \in Writer, Start(w) \/ Step(w) \/ Crash(w)
  PROVE  /\ db'["elfs"] # db["elfs"] => WriteElf(w)
         /\ db'["artifacts"] # db["artifacts"] => InsertArtifact(w)
         /\ db'["macros"] # db["macros"] => WriteMacro(w)
         /\ db'["encodings"] # db["encodings"] => WriteEncoding(w)
         /\ db'["symbols"] # db["symbols"] => InsertSymbol(w) \/ UpdateTarget(w)
         /\ db'["fields"] # db["fields"] => WriteField(w)
         /\ db'["dimension_lists"] # db["dimension_lists"] => WriteDimension(w)
         /\ db'["enumerations"] # db["enumerations"] => WriteEnumeration(w)
         /\ db'["variables"] # db["variables"] => WriteVariable(w)
         /\ db'["elf_sections"] # db["elf_sections"] => WriteElfSection(w)
         /\ db'["elf_symbol_table"] # db["elf_symbol_table"] => WriteElfSymbol(w)
<1>1. ASSUME NEW t \in Tables, NEW row, NEW res, Insert(w, t, row, res)
      PROVE  WritesOnly(t)
  BY <1>1, InsertTable DEF TypeOK, WritesOnly
<1>2. CASE db' = db
  BY <1>2
<1>3. CASE \/ Start(w) \/ Crash(w) \/ Finish(w) \/ CreateTable(w)
           \/ FailToCreateTable(w) \/ Return(w)
  BY <1>2, <1>3 DEF Start, Crash, Finish, Exit, CreateTable,
     FailToCreateTable, Return
<1>4. CASE \/ CheckArtifact(w) \/ CheckEncodings(w) \/ CheckSymbol(w)
           \/ SelectArtifact(w) \/ SelectEncodings(w) \/ SelectSymbol(w)
  BY <1>2, <1>4 DEF CheckArtifact, CheckEncodings, CheckSymbol, Count,
     SelectArtifact, SelectEncodings, SelectSymbol
<1>5. CASE UpdateTarget(w)
  <2>1. DOMAIN db = Tables /\ "symbols" \in Tables
    BY TableNames DEF TypeOK, FileTypeOK
  <2>2. ASSUME NEW i, NEW t, SetTarget(i, t) PROVE WritesOnly("symbols")
    BY <2>1, <2>2 DEF SetTarget, WritesOnly
  <2>3. WritesOnly("symbols")
    BY <1>5, <2>2 DEF UpdateTarget, WritesOnly
  <2> QED
    BY <1>5, <2>3, TableNames DEF WritesOnly
<1>6. CASE WriteElf(w)
  <2>1. WritesOnly("elfs")
    BY <1>1, <1>6, TableNames DEF WriteElf
  <2> QED
    BY <1>6, <2>1, TableNames DEF WritesOnly
<1>7. CASE InsertArtifact(w)
  <2>1. WritesOnly("artifacts")
    BY <1>1, <1>7, TableNames DEF InsertArtifact
  <2> QED
    BY <1>7, <2>1, TableNames DEF WritesOnly
<1>8. CASE WriteMacro(w)
  <2>1. WritesOnly("macros")
    BY <1>1, <1>8, TableNames DEF WriteMacro
  <2> QED
    BY <1>8, <2>1, TableNames DEF WritesOnly
<1>9. CASE WriteEncoding(w)
  <2>1. WritesOnly("encodings")
    BY <1>1, <1>9, TableNames DEF WriteEncoding
  <2> QED
    BY <1>9, <2>1, TableNames DEF WritesOnly
<1>10. CASE InsertSymbol(w)
  <2>1. WritesOnly("symbols")
    BY <1>1, <1>10, TableNames DEF InsertSymbol
  <2> QED
    BY <1>10, <2>1, TableNames DEF WritesOnly
<1>11. CASE WriteField(w)
  <2>1. WritesOnly("fields")
    BY <1>1, <1>11, TableNames DEF WriteField
  <2> QED
    BY <1>11, <2>1, TableNames DEF WritesOnly
<1>12. CASE WriteDimension(w)
  <2>1. WritesOnly("dimension_lists")
    BY <1>1, <1>12, TableNames DEF WriteDimension
  <2> QED
    BY <1>12, <2>1, TableNames DEF WritesOnly
<1>13. CASE WriteEnumeration(w)
  <2>1. WritesOnly("enumerations")
    BY <1>1, <1>13, TableNames DEF WriteEnumeration
  <2> QED
    BY <1>13, <2>1, TableNames DEF WritesOnly
<1>14. CASE WriteVariable(w)
  <2>1. WritesOnly("variables")
    BY <1>1, <1>14, TableNames DEF WriteVariable
  <2> QED
    BY <1>14, <2>1, TableNames DEF WritesOnly
<1>15. CASE WriteElfSection(w)
  <2>1. WritesOnly("elf_sections")
    BY <1>1, <1>15, TableNames DEF WriteElfSection
  <2> QED
    BY <1>15, <2>1, TableNames DEF WritesOnly
<1>16. CASE WriteElfSymbol(w)
  <2>1. WritesOnly("elf_symbol_table")
    BY <1>1, <1>16, TableNames DEF WriteElfSymbol
  <2> QED
    BY <1>16, <2>1, TableNames DEF WritesOnly
<1> QED
  BY <1>3, <1>4, <1>5, <1>6, <1>7, <1>8, <1>9, <1>10, <1>11, <1>12, <1>13,
     <1>14, <1>15, <1>16 DEF Step

-----------------------------------------------------------------------------
(* References to symbols.                                                  *)

\* Every id of a symbol in the file is that of a row.
RefsResolve ==
  /\ Resolves("symbols", "target", "symbols")
  /\ Resolves("fields", "symbol", "symbols")
  /\ Resolves("fields", "type", "symbols")
  /\ Resolves("enumerations", "symbol", "symbols")
  /\ Resolves("variables", "type", "symbols")

\* References survive while their table is not written and the other grows.
LEMMA ResolvesStays ==
  ASSUME NEW t, NEW column, NEW parent, Resolves(t, column, parent),
         db'[t] = db[t], DOMAIN db[parent] \subseteq DOMAIN db'[parent]
  PROVE  Resolves(t, column, parent)'
BY DEF Resolves

\* And while the new row's reference is to a row.
LEMMA ResolvesInsert ==
  ASSUME TypeOK, NEW w, NEW t \in Tables, NEW row, NEW res,
         Insert(w, t, row, res),
         NEW column, NEW parent, Resolves(t, column, parent),
         DOMAIN db[parent] \subseteq DOMAIN db'[parent],
         row[column] \in DOMAIN db[parent] \cup {Null}
  PROVE  Resolves(t, column, parent)'
<1> SUFFICES ASSUME NEW r \in DOMAIN db'[t]
             PROVE  db'[t][r][column] \in DOMAIN db'[parent] \cup {Null}
  BY DEF Resolves
<1>1. CASE r \in DOMAIN db[t] /\ db'[t][r] = db[t][r]
  BY <1>1 DEF Resolves
<1>2. CASE db'[t][r] = row
  BY <1>2
<1> QED
  BY <1>1, <1>2, InsertRows DEF TypeOK

LEMMA DomainsGrow ==
  ASSUME Grows(db, db'), NEW t \in Tables PROVE DOMAIN db[t] \subseteq DOMAIN db'[t]
BY DEF Grows

LEMMA ResolvesKept ==
  ASSUME TypeOK, IdInv, StoreInv, NoneFailed, RefsResolve, NEW w \in Writer,
         Start(w) \/ Step(w) \/ Crash(w)
  PROVE  RefsResolve'
<1> DEFINE h == held[w]
<1>1. DOMAIN db["symbols"] \subseteq DOMAIN db'["symbols"]
  BY StepsGrow, DomainsGrow, TableNames
<1>2. /\ Resolves("symbols", "target", "symbols")
      /\ Resolves("fields", "symbol", "symbols")
      /\ Resolves("fields", "type", "symbols")
      /\ Resolves("enumerations", "symbol", "symbols")
      /\ Resolves("variables", "type", "symbols")
  BY DEF RefsResolve
<1>3. ASSUME pc[w] \in {"targets", "fields", "enumerations", "variables"}
      PROVE  \A i \in DOMAIN image[w].symbols :
               /\ Read(h.symbol[i]) = {h.symbol[i]}
               /\ h.symbol[i] \in DOMAIN db["symbols"]
  <2>1. Running(w) /\ ~ failed[w] /\ Rank["symbols"] < Rank[pc[w]]
    BY <1>3, PastSymbols DEF Running, NoneFailed
  <2> QED
    BY <2>1, SymbolsHeld
<1>4. Resolves("symbols", "target", "symbols")'
  <2>1. CASE db'["symbols"] = db["symbols"]
    BY <1>1, <1>2, <2>1, ResolvesStays
  <2>2. CASE InsertSymbol(w)
    <3>1. PICK row, res : Insert(w, "symbols", row, res) /\ row["target"] = Null
      BY <2>2 DEF InsertSymbol
    <3> QED
      BY <1>1, <1>2, <3>1, ResolvesInsert, TableNames
  <2>3. CASE UpdateTarget(w)
    <3> DEFINE i == item[w]
               t == image[w].symbols[i].target
    <3>1. pc[w] = "targets" /\ i \in DOMAIN image[w].symbols
          /\ t \in {0} \cup DOMAIN image[w].symbols
      BY <2>3, EntryType DEF TypeOK, UpdateTarget, At
    <3>2. CASE db' = db
      BY <1>2, <3>2 DEF Resolves
    <3>3. CASE t # 0 /\ SetTarget(h.symbol[i], h.symbol[t])
      <4>1. h.symbol[i] \in DOMAIN db["symbols"] /\ h.symbol[t] \in DOMAIN db["symbols"]
        BY <1>3, <3>1, <3>3
      <4>2. /\ DOMAIN db = Tables /\ "symbols" \in Tables
            /\ \A r \in DOMAIN db["symbols"] : db["symbols"][r] \in RowOf["symbols"]
        BY TableNames DEF TypeOK, FileTypeOK
      <4>3. db'["symbols"] = [db["symbols"] EXCEPT ![h.symbol[i]].target = h.symbol[t]]
        BY <3>3, <4>1, <4>2 DEF SetTarget
      <4>4. \A r \in DOMAIN db["symbols"] :
              db'["symbols"][r].target \in {db["symbols"][r].target, h.symbol[t]}
        BY <4>2, <4>3 DEF RowOf
      <4>5. DOMAIN db'["symbols"] = DOMAIN db["symbols"]
        BY <4>3
      <4> QED
        BY <1>2, <4>1, <4>4, <4>5 DEF Resolves
    <3>4. db' = db \/ (t # 0 /\ SetTarget(h.symbol[i], h.symbol[t]))
      BY <1>3, <2>3, <3>1, ZenonT(40) DEF UpdateTarget
    <3> QED
      BY <3>2, <3>3, <3>4
  <2> QED
    BY <2>1, <2>2, <2>3, TablesWritten
<1>5. Resolves("fields", "symbol", "symbols")' /\ Resolves("fields", "type", "symbols")'
  <2>1. CASE db'["fields"] = db["fields"]
    BY <1>1, <1>2, <2>1, ResolvesStays
  <2>2. CASE WriteField(w)
    <3> DEFINE f == image[w].fields[item[w]]
    <3>1. /\ pc[w] = "fields" /\ f.symbol \in DOMAIN image[w].symbols
          /\ f.type \in DOMAIN image[w].symbols
      BY <2>2, EntryType DEF TypeOK, WriteField, At
    <3> DEFINE row(s, t) == [symbol |-> s, name |-> f.name,
                             byte_offset |-> f.offset, type |-> t]
    <3>2. PICK res \in Results, s \in Read(h.symbol[f.symbol]),
               t \in Read(h.symbol[f.type]) : Insert(w, "fields", row(s, t), res)
      BY <2>2 DEF WriteField
    <3>3. /\ row(s, t)["symbol"] \in DOMAIN db["symbols"]
          /\ row(s, t)["type"] \in DOMAIN db["symbols"]
      BY <1>3, <3>1, <3>2
    <3> HIDE DEF row
    <3> QED
      BY <1>1, <1>2, <3>2, <3>3, ResolvesInsert, TableNames
  <2> QED
    BY <2>1, <2>2, TablesWritten
<1>6. Resolves("enumerations", "symbol", "symbols")'
  <2>1. CASE db'["enumerations"] = db["enumerations"]
    BY <1>1, <1>2, <2>1, ResolvesStays
  <2>2. CASE WriteEnumeration(w)
    <3> DEFINE e == image[w].enums[item[w]]
    <3>1. pc[w] = "enumerations" /\ e.symbol \in DOMAIN image[w].symbols
      BY <2>2, EntryType DEF TypeOK, WriteEnumeration, At
    <3> DEFINE row(s) == [symbol |-> s, name |-> e.name, value |-> e.value]
    <3>2. PICK res \in Results, s \in Read(h.symbol[e.symbol]) :
            Insert(w, "enumerations", row(s), res)
      BY <2>2 DEF WriteEnumeration
    <3>3. row(s)["symbol"] \in DOMAIN db["symbols"]
      BY <1>3, <3>1, <3>2
    <3> HIDE DEF row
    <3> QED
      BY <1>1, <1>2, <3>2, <3>3, ResolvesInsert, TableNames
  <2> QED
    BY <2>1, <2>2, TablesWritten
<1>7. Resolves("variables", "type", "symbols")'
  <2>1. CASE db'["variables"] = db["variables"]
    BY <1>1, <1>2, <2>1, ResolvesStays
  <2>2. CASE WriteVariable(w)
    <3> DEFINE v == image[w].variables[item[w]]
    <3>1. pc[w] = "variables" /\ v.type \in DOMAIN image[w].symbols
      BY <2>2, EntryType DEF TypeOK, WriteVariable, At
    <3> DEFINE row(t) == [name |-> v.name, elf |-> held[w].elf, type |-> t]
    <3>2. PICK res \in Results, t \in Read(h.symbol[v.type]) :
            Insert(w, "variables", row(t), res)
      BY <2>2 DEF WriteVariable
    <3>3. row(t)["type"] \in DOMAIN db["symbols"]
      BY <1>3, <3>1, <3>2
    <3> HIDE DEF row
    <3> QED
      BY <1>1, <1>2, <3>2, <3>3, ResolvesInsert, TableNames
  <2> QED
    BY <2>1, <2>2, TablesWritten
<1> QED
  BY <1>4, <1>5, <1>6, <1>7 DEF RefsResolve

-----------------------------------------------------------------------------
(* The catalog.                                                            *)

LEMMA RowTypes ==
  ASSUME TypeOK, NEW t \in Tables
  PROVE  \A r \in DOMAIN db[t] : db[t][r] \in RowOf[t]
BY DEF TypeOK, FileTypeOK

\* What a row that refers to symbols refers to.
LEMMA RowRefs ==
  ASSUME TypeOK, RefsResolve
  PROVE  /\ \A r \in DOMAIN db["symbols"] :
              db["symbols"][r].target \in DOMAIN db["symbols"] \cup {Null}
         /\ \A r \in DOMAIN db["fields"] :
              /\ db["fields"][r].symbol \in DOMAIN db["symbols"]
              /\ db["fields"][r].type \in DOMAIN db["symbols"]
         /\ \A r \in DOMAIN db["enumerations"] :
              db["enumerations"][r].symbol \in DOMAIN db["symbols"]
         /\ \A r \in DOMAIN db["variables"] :
              db["variables"][r].type \in DOMAIN db["symbols"]
<1>1. /\ "fields" \in Tables /\ "enumerations" \in Tables
      /\ "variables" \in Tables
  BY TableNames
<1>5. Null \notin Nat
  BY DEF Null
<1>2. \A r \in DOMAIN db["fields"] :
        db["fields"][r].symbol # Null /\ db["fields"][r].type # Null
  <2>1. \A x \in RowOf["fields"] : x.symbol \in Nat /\ x.type \in Nat
    BY DEF RowOf
  <2> QED
    BY <1>1, <1>5, <2>1, RowTypes
<1>3. \A r \in DOMAIN db["enumerations"] : db["enumerations"][r].symbol # Null
  <2>1. \A x \in RowOf["enumerations"] : x.symbol \in Nat
    BY DEF RowOf
  <2> QED
    BY <1>1, <1>5, <2>1, RowTypes
<1>4. \A r \in DOMAIN db["variables"] : db["variables"][r].type # Null
  <2>1. \A x \in RowOf["variables"] : x.type \in Nat
    BY DEF RowOf
  <2> QED
    BY <1>1, <1>5, <2>1, RowTypes
<1> QED
  BY <1>2, <1>3, <1>4 DEF RefsResolve, Resolves

LEMMA SymbolNameKept ==
  ASSUME Grows(db, db'), NEW id \in DOMAIN db["symbols"]
  PROVE  SymbolName(id)' = SymbolName(id)
BY DEF Grows, SymbolName

\* An id is the id of one name only.
LEMMA SymbolNameOf ==
  ASSUME NamesUnique, NEW i \in DOMAIN db["symbols"], NEW j \in DOMAIN db["symbols"],
         SymbolName(i) = SymbolName(j)
  PROVE  i = j
BY DEF NamesUnique, SymbolName

\* The parts of the catalog that a statement does not write stay.
LEMMA FieldNamesKept ==
  ASSUME TypeOK, RefsResolve, Grows(db, db'), db'["fields"] = db["fields"]
  PROVE  FieldNames' = FieldNames
<1>1. \A r \in DOMAIN db["fields"] :
        /\ SymbolName(db["fields"][r].symbol)' = SymbolName(db["fields"][r].symbol)
        /\ SymbolName(db["fields"][r].type)' = SymbolName(db["fields"][r].type)
  <2> SUFFICES ASSUME NEW r \in DOMAIN db["fields"]
               PROVE  /\ SymbolName(db["fields"][r].symbol)' = SymbolName(db["fields"][r].symbol)
                      /\ SymbolName(db["fields"][r].type)' = SymbolName(db["fields"][r].type)
    OBVIOUS
  <2>1. /\ db["fields"][r].symbol \in DOMAIN db["symbols"]
        /\ db["fields"][r].type \in DOMAIN db["symbols"]
        /\ db'["fields"][r] = db["fields"][r]
    BY RowRefs
  <2> QED
    BY <2>1 DEF Grows, SymbolName
<1> QED
  BY <1>1 DEF FieldNames, Rows

LEMMA EnumeratorNamesKept ==
  ASSUME TypeOK, RefsResolve, Grows(db, db'),
         db'["enumerations"] = db["enumerations"]
  PROVE  EnumeratorNames' = EnumeratorNames
<1>1. ASSUME NEW r \in DOMAIN db["enumerations"]
      PROVE  SymbolName(db["enumerations"][r].symbol)' =
               SymbolName(db["enumerations"][r].symbol)
  <2>1. /\ db["enumerations"][r].symbol \in DOMAIN db["symbols"]
        /\ db'["enumerations"][r] = db["enumerations"][r]
    BY <1>1, RowRefs
  <2> QED
    BY <2>1 DEF Grows, SymbolName
<1> QED
  BY <1>1 DEF EnumeratorNames, Rows

LEMMA VariableNamesKept ==
  ASSUME TypeOK, RefsResolve, Grows(db, db'), db'["variables"] = db["variables"]
  PROVE  VariableNames' = VariableNames
<1>1. ASSUME NEW r \in DOMAIN db["variables"]
      PROVE  SymbolName(db["variables"][r].type)' =
               SymbolName(db["variables"][r].type)
  <2>1. /\ db["variables"][r].type \in DOMAIN db["symbols"]
        /\ db'["variables"][r] = db["variables"][r]
    BY <1>1, RowRefs
  <2> QED
    BY <2>1 DEF Grows, SymbolName
<1> QED
  BY <1>1 DEF VariableNames, Rows

LEMMA SymbolsKept ==
  ASSUME TypeOK, RefsResolve, Grows(db, db'), db'["symbols"] = db["symbols"]
  PROVE  SymbolNames' = SymbolNames /\ TargetNames' = TargetNames
<1>1. SymbolNames' = SymbolNames
  BY DEF SymbolNames, Rows
<1>2. \A x : SymbolName(x)' = SymbolName(x)
  BY DEF SymbolName
<1>3. TargetNames' = TargetNames
  BY DEF TargetNames, Rows, SymbolName
<1> QED
  BY <1>1, <1>3

\* What an INSERT that succeeds adds to the rows of its table.
LEMMA RowAdded ==
  ASSUME TypeOK, NEW w, NEW t \in Tables, NEW row, Insert(w, t, row, "ok")
  PROVE  Rows(t)' = Rows(t) \cup {row}
<1>1. \A r \in DOMAIN db'[t] :
        (r \in DOMAIN db[t] /\ db'[t][r] = db[t][r]) \/ db'[t][r] = row
  BY InsertRows DEF TypeOK
<1>2. \E r \in DOMAIN db'[t] : db'[t][r] = row
  BY InsertGrows DEF TypeOK
<1>3. \A r \in DOMAIN db[t] : r \in DOMAIN db'[t] /\ db'[t][r] = db[t][r]
  <2>1. db[t] \in Seq(RowOf[t]) /\ DOMAIN db = Tables
    BY DEF TypeOK, FileTypeOK
  <2>2. db' = [db EXCEPT ![t] = Append(@, row)]
    BY DEF Insert
  <2> QED
    BY <2>1, <2>2, AppendKeeps
<1> QED
  BY <1>1, <1>2, <1>3 DEF Rows

\* The four statements that change the catalog.
LEMMA FieldNamesAdded ==
  ASSUME TypeOK, NEW w, NEW row, Insert(w, "fields", row, "ok")
  PROVE  FieldNames' = FieldNames \cup
           {<< SymbolName(row.symbol), row.name, SymbolName(row.type) >>}
<1>1. Rows("fields")' = Rows("fields") \cup {row}
  BY RowAdded, TableNames
<1>2. db'["symbols"] = db["symbols"]
  BY InsertTable, TableNames DEF TypeOK
<1>3. \A x : SymbolName(x)' = SymbolName(x)
  BY <1>2 DEF SymbolName
<1>4. FieldNames' = { << SymbolName(r.symbol), r.name, SymbolName(r.type) >> :
                        r \in Rows("fields") \cup {row} }
  BY <1>1, <1>3 DEF FieldNames
<1> QED
  BY <1>4 DEF FieldNames

LEMMA EnumeratorNamesAdded ==
  ASSUME TypeOK, NEW w, NEW row, Insert(w, "enumerations", row, "ok")
  PROVE  EnumeratorNames' = EnumeratorNames \cup
           {<< SymbolName(row.symbol), row.name, row.value >>}
<1>1. Rows("enumerations")' = Rows("enumerations") \cup {row}
  BY RowAdded, TableNames
<1>2. db'["symbols"] = db["symbols"]
  BY InsertTable, TableNames DEF TypeOK
<1>3. \A x : SymbolName(x)' = SymbolName(x)
  BY <1>2 DEF SymbolName
<1>4. EnumeratorNames' = { << SymbolName(r.symbol), r.name, r.value >> :
                             r \in Rows("enumerations") \cup {row} }
  BY <1>1, <1>3 DEF EnumeratorNames
<1> QED
  BY <1>4 DEF EnumeratorNames

LEMMA VariableNamesAdded ==
  ASSUME TypeOK, NEW w, NEW row, Insert(w, "variables", row, "ok")
  PROVE  VariableNames' = VariableNames \cup {<< row.name, SymbolName(row.type) >>}
<1>1. Rows("variables")' = Rows("variables") \cup {row}
  BY RowAdded, TableNames
<1>2. db'["symbols"] = db["symbols"]
  BY InsertTable, TableNames DEF TypeOK
<1>3. \A x : SymbolName(x)' = SymbolName(x)
  BY <1>2 DEF SymbolName
<1>4. VariableNames' = { << r.name, SymbolName(r.type) >> :
                           r \in Rows("variables") \cup {row} }
  BY <1>1, <1>3 DEF VariableNames
<1> QED
  BY <1>4 DEF VariableNames

\* A new symbol has no target yet.
LEMMA SymbolNamesAdded ==
  ASSUME TypeOK, RefsResolve, NEW w, NEW row, Insert(w, "symbols", row, "ok"),
         row.target = Null
  PROVE  SymbolNames' = SymbolNames \cup {row.name} /\ TargetNames' = TargetNames
<1>1. Rows("symbols")' = Rows("symbols") \cup {row}
  BY RowAdded, TableNames
<1>2. SymbolNames' = SymbolNames \cup {row.name}
  BY <1>1 DEF SymbolNames
<1>3. { q \in Rows("symbols")' : q.target # Null } =
        { q \in Rows("symbols") : q.target # Null }
  BY <1>1
<1>4. \A q \in { q \in Rows("symbols") : q.target # Null } :
        SymbolName(q.target)' = SymbolName(q.target)
  <2> SUFFICES ASSUME NEW q \in Rows("symbols"), q.target # Null
               PROVE  SymbolName(q.target)' = SymbolName(q.target)
    OBVIOUS
  <2>1. q.target \in DOMAIN db["symbols"]
    BY RowRefs DEF Rows
  <2>2. Grows(db, db')
    BY InsertGrows, TableNames DEF TypeOK
  <2> QED
    BY <2>1, <2>2, SymbolNameKept
<1>5. TargetNames' = TargetNames
  BY <1>3, <1>4 DEF TargetNames
<1> QED
  BY <1>2, <1>5

\* SetTarget replaces the target of one symbol, names being unique.
LEMMA TargetNamesSet ==
  ASSUME TypeOK, RefsResolve, NamesUnique, NEW i \in DOMAIN db["symbols"],
         NEW t \in DOMAIN db["symbols"], SetTarget(i, t)
  PROVE  /\ SymbolNames' = SymbolNames
         /\ TargetNames' = { u \in TargetNames : u[1] # SymbolName(i) } \cup
                             {<< SymbolName(i), SymbolName(t) >>}
<1>1. /\ DOMAIN db = Tables /\ "symbols" \in Tables
      /\ \A r \in DOMAIN db["symbols"] : db["symbols"][r] \in RowOf["symbols"]
  BY TableNames DEF TypeOK, FileTypeOK
<1>2. db'["symbols"] = [db["symbols"] EXCEPT ![i].target = t]
  BY <1>1 DEF SetTarget
<1>3. /\ DOMAIN db'["symbols"] = DOMAIN db["symbols"]
      /\ \A r \in DOMAIN db["symbols"] : db'["symbols"][r].name = db["symbols"][r].name
      /\ \A r \in DOMAIN db["symbols"] \ {i} :
           db'["symbols"][r].target = db["symbols"][r].target
      /\ db'["symbols"][i].target = t
  BY <1>1, <1>2 DEF RowOf
<1>4. SymbolNames' = SymbolNames
  BY <1>3 DEF SymbolNames, Rows
<1>5. \A x : SymbolName(x)' = SymbolName(x)
  BY <1>3 DEF SymbolName
<1>6. t # Null
  BY <1>1 DEF Null, TypeOK, FileTypeOK
<1>7. \A d : d \in TargetNames <=>
        \E r \in DOMAIN db["symbols"] :
          /\ db["symbols"][r].target # Null
          /\ d = << db["symbols"][r].name, SymbolName(db["symbols"][r].target) >>
  BY DEF TargetNames, Rows
<1>8. \A d : d \in TargetNames' <=>
        \E r \in DOMAIN db["symbols"] :
          /\ db'["symbols"][r].target # Null
          /\ d = << db["symbols"][r].name, SymbolName(db'["symbols"][r].target) >>
  <2>1. TargetNames' = { << r.name, SymbolName(r.target) >> :
                           r \in { q \in Rows("symbols")' : q.target # Null } }
    BY <1>5 DEF TargetNames
  <2>2. \A d : d \in TargetNames' <=>
          \E r \in Rows("symbols")' :
            r.target # Null /\ d = << r.name, SymbolName(r.target) >>
    BY <2>1
  <2>3. Rows("symbols")' = { db'["symbols"][r] : r \in DOMAIN db["symbols"] }
    BY <1>3 DEF Rows
  <2>4. \A d : d \in TargetNames' <=>
          \E r \in DOMAIN db["symbols"] :
            /\ db'["symbols"][r].target # Null
            /\ d = << db'["symbols"][r].name, SymbolName(db'["symbols"][r].target) >>
    BY <2>2, <2>3
  <2> QED
    BY <1>3, <2>4
<1>9. \A r \in DOMAIN db["symbols"] : r # i <=> db["symbols"][r].name # SymbolName(i)
  BY DEF NamesUnique, SymbolName
<1>10. db["symbols"][i].name = SymbolName(i)
  BY DEF SymbolName
<1>11. ASSUME NEW d
       PROVE  d \in TargetNames' <=>
                \/ d \in TargetNames /\ d[1] # SymbolName(i)
                \/ d = << SymbolName(i), SymbolName(t) >>
  <2>1. ASSUME d \in TargetNames'
        PROVE  \/ d \in TargetNames /\ d[1] # SymbolName(i)
               \/ d = << SymbolName(i), SymbolName(t) >>
    <3>1. PICK r \in DOMAIN db["symbols"] :
            /\ db'["symbols"][r].target # Null
            /\ d = << db["symbols"][r].name, SymbolName(db'["symbols"][r].target) >>
      BY <1>8, <2>1
    <3>2. CASE r = i
      BY <1>3, <1>10, <3>1, <3>2
    <3>3. CASE r # i
      <4>1. db'["symbols"][r].target = db["symbols"][r].target
        BY <1>3, <3>3
      <4>2. d[1] # SymbolName(i)
        BY <1>9, <3>1, <3>3
      <4> QED
        BY <1>7, <3>1, <4>1, <4>2
    <3> QED
      BY <3>2, <3>3
  <2>2. ASSUME d \in TargetNames, d[1] # SymbolName(i) PROVE d \in TargetNames'
    <3>1. PICK r \in DOMAIN db["symbols"] :
            /\ db["symbols"][r].target # Null
            /\ d = << db["symbols"][r].name, SymbolName(db["symbols"][r].target) >>
      BY <1>7, <2>2
    <3>2. r # i
      BY <1>10, <2>2, <3>1
    <3>3. db'["symbols"][r].target = db["symbols"][r].target
      BY <1>3, <3>2
    <3> QED
      BY <1>8, <3>1, <3>3
  <2>3. ASSUME d = << SymbolName(i), SymbolName(t) >> PROVE d \in TargetNames'
    BY <1>3, <1>6, <1>8, <1>10, <2>3
  <2> QED
    BY <2>1, <2>2, <2>3
<1> QED
  BY <1>4, <1>11

\* The ids that a process past the symbols reads still name its symbols.
LEMMA NamesRead ==
  ASSUME TypeOK, IdInv, StoreInv, NoneFailed, NEW w \in Writer,
         pc[w] \in {"targets", "fields", "enumerations", "variables"},
         NEW i \in DOMAIN image[w].symbols, NEW id \in Read(held[w].symbol[i])
  PROVE  /\ id = held[w].symbol[i]
         /\ id \in DOMAIN db["symbols"]
         /\ SymbolName(id) = image[w].symbols[i].name
         /\ SymbolName(id) \in SymbolNames
<1>1. Running(w) /\ ~ failed[w] /\ Rank["symbols"] < Rank[pc[w]]
  BY PastSymbols DEF Running, NoneFailed
<1>2. /\ Read(held[w].symbol[i]) = {held[w].symbol[i]}
      /\ held[w].symbol[i] \in DOMAIN db["symbols"]
      /\ db["symbols"][held[w].symbol[i]].name = image[w].symbols[i].name
  BY <1>1, SymbolsHeld
<1> QED
  BY <1>2 DEF SymbolName, SymbolNames, Rows

\* A failing INSERT apart, what an INSERT leaves.
LEMMA InsertChange ==
  ASSUME NoFailure, NoFailure', NEW w, NEW t, NEW row, NEW res,
         Insert(w, t, row, res)
  PROVE  db' = db \/ (res = "ok" /\ ~ Clashes(t, row))
BY NoFaultNow DEF Insert

LEMMA CatalogUnwritten ==
  ASSUME TypeOK, RefsResolve, Grows(db, db')
  PROVE  /\ db'["symbols"] = db["symbols"] =>
              SymbolNames' = SymbolNames /\ TargetNames' = TargetNames
         /\ db'["fields"] = db["fields"] => FieldNames' = FieldNames
         /\ db'["enumerations"] = db["enumerations"] =>
              EnumeratorNames' = EnumeratorNames
         /\ db'["variables"] = db["variables"] => VariableNames' = VariableNames
BY SymbolsKept, FieldNamesKept, EnumeratorNamesKept, VariableNamesKept

\* A new field is of symbols the catalog has and its name is new to its owner.
LEMMA FieldStep ==
  ASSUME TypeOK, IdInv, StoreInv, NoneFailed, NoFailure, NoFailure',
         RefsResolve, NamesUnique, NEW w \in Writer, WriteField(w),
         Grows(db, db'), WritesOnly("fields")
  PROVE  Catalog!Next \/ UNCHANGED Catalog!catalog
<1> DEFINE h == held[w]
           img == image[w]
           f == img.fields[item[w]]
           row(s, t) == [symbol |-> s, name |-> f.name,
                         byte_offset |-> f.offset, type |-> t]
<1>1. /\ pc[w] = "fields" /\ f.symbol \in DOMAIN img.symbols
      /\ f.type \in DOMAIN img.symbols
      /\ item[w] \in DOMAIN img.fields /\ img \in Images
  BY EntryType DEF TypeOK, MemoryTypeOK, WriteField, At
<1>2. PICK res \in Results, s \in Read(h.symbol[f.symbol]),
           t \in Read(h.symbol[f.type]) : Insert(w, "fields", row(s, t), res)
  BY DEF WriteField
<1>3. /\ s \in DOMAIN db["symbols"] /\ t \in DOMAIN db["symbols"]
      /\ SymbolName(s) = img.symbols[f.symbol].name
      /\ SymbolName(t) = img.symbols[f.type].name
      /\ SymbolName(s) \in SymbolNames /\ SymbolName(t) \in SymbolNames
  BY <1>1, <1>2, NamesRead
<1>4. row(s, t).symbol = s /\ row(s, t).name = f.name /\ row(s, t).type = t
  OBVIOUS
<1>5. \A c \in {"symbol", "name"} : \A r :
        r[c] = row(s, t)[c] <=> (c = "symbol" => r.symbol = s) /\ (c = "name" => r.name = f.name)
  OBVIOUS
<1> HIDE DEF row
<1>6. /\ SymbolNames' = SymbolNames /\ TargetNames' = TargetNames
      /\ EnumeratorNames' = EnumeratorNames /\ VariableNames' = VariableNames
  BY CatalogUnwritten, TableNames DEF WritesOnly
<1>7. CASE db' = db
  <2>1. FieldNames' = FieldNames
    BY <1>7, FieldNamesKept
  <2> QED
    BY <1>6, <2>1 DEF Catalog!catalog
<1>8. CASE res = "ok" /\ ~ Clashes("fields", row(s, t))
  <2> DEFINE d == << SymbolName(s), f.name, SymbolName(t) >>
  <2>1. FieldNames' = FieldNames \cup {d}
    BY <1>2, <1>4, <1>8, FieldNamesAdded
  <2>2. ASSUME NEW g \in FieldNames, g[1] = d[1], g[2] = d[2] PROVE FALSE
    <3>1. PICK r \in DOMAIN db["fields"] :
            /\ g[1] = SymbolName(db["fields"][r].symbol)
            /\ g[2] = db["fields"][r].name
      BY DEF FieldNames, Rows
    <3>2. db["fields"][r].symbol = s
      BY <1>3, <2>2, <3>1, RowRefs, SymbolNameOf
    <3>3. db["fields"][r].name = f.name
      BY <2>2, <3>1
    <3> QED
      BY <1>5, <1>8, <3>2, <3>3 DEF Clashes, Unique
  <2>3. d \in DeclaredFields
    <3>1. f \in { img.fields[k] : k \in DOMAIN img.fields }
      BY <1>1
    <3> HIDE DEF f
    <3>2. d \in { << img.symbols[g.symbol].name, g.name, img.symbols[g.type].name >> :
                   g \in { img.fields[k] : k \in DOMAIN img.fields } }
      BY <1>3, <3>1
    <3> QED
      BY <1>1, <3>2 DEF DeclaredFields
  <2>4. Catalog!AddField(d)
    BY <1>3, <1>6, <2>1, <2>2 DEF Catalog!AddField
  <2> QED
    BY <2>3, <2>4 DEF Catalog!Next
<1> QED
  BY <1>2, <1>7, <1>8, InsertChange

LEMMA EnumerationStep ==
  ASSUME TypeOK, IdInv, StoreInv, NoneFailed, NoFailure, NoFailure',
         RefsResolve, NamesUnique, NEW w \in Writer, WriteEnumeration(w),
         Grows(db, db'), WritesOnly("enumerations")
  PROVE  Catalog!Next \/ UNCHANGED Catalog!catalog
<1> DEFINE h == held[w]
           img == image[w]
           e == img.enums[item[w]]
           row(s) == [symbol |-> s, name |-> e.name, value |-> e.value]
<1>1. /\ pc[w] = "enumerations" /\ e.symbol \in DOMAIN img.symbols
      /\ item[w] \in DOMAIN img.enums /\ img \in Images
  BY EntryType, ItemsAre DEF TypeOK, MemoryTypeOK, WriteEnumeration, At, Items
<1>2. PICK res \in Results, s \in Read(h.symbol[e.symbol]) :
        Insert(w, "enumerations", row(s), res)
  BY DEF WriteEnumeration
<1>3. /\ s \in DOMAIN db["symbols"]
      /\ SymbolName(s) = img.symbols[e.symbol].name
      /\ SymbolName(s) \in SymbolNames
  BY <1>1, <1>2, NamesRead
<1>4. row(s).symbol = s /\ row(s).name = e.name /\ row(s).value = e.value
  OBVIOUS
<1>5. \A c \in {"symbol", "name"} : \A r :
        r[c] = row(s)[c] <=> (c = "symbol" => r.symbol = s) /\ (c = "name" => r.name = e.name)
  OBVIOUS
<1> HIDE DEF row
<1>6. /\ SymbolNames' = SymbolNames /\ TargetNames' = TargetNames
      /\ FieldNames' = FieldNames /\ VariableNames' = VariableNames
  BY CatalogUnwritten, TableNames DEF WritesOnly
<1>7. CASE db' = db
  <2>1. EnumeratorNames' = EnumeratorNames
    BY <1>7, EnumeratorNamesKept
  <2> QED
    BY <1>6, <2>1 DEF Catalog!catalog
<1>8. CASE res = "ok" /\ ~ Clashes("enumerations", row(s))
  <2> DEFINE d == << SymbolName(s), e.name, e.value >>
  <2>1. EnumeratorNames' = EnumeratorNames \cup {d}
    BY <1>2, <1>4, <1>8, EnumeratorNamesAdded
  <2>2. ASSUME NEW g \in EnumeratorNames, g[1] = d[1], g[2] = d[2] PROVE FALSE
    <3>1. PICK r \in DOMAIN db["enumerations"] :
            /\ g[1] = SymbolName(db["enumerations"][r].symbol)
            /\ g[2] = db["enumerations"][r].name
      BY DEF EnumeratorNames, Rows
    <3>2. db["enumerations"][r].symbol = s
      BY <1>3, <2>2, <3>1, RowRefs, SymbolNameOf
    <3>3. db["enumerations"][r].name = e.name
      BY <2>2, <3>1
    <3> QED
      BY <1>5, <1>8, <3>2, <3>3 DEF Clashes, Unique
  <2>3. d \in DeclaredEnumerators
    <3>1. e \in { img.enums[k] : k \in DOMAIN img.enums }
      BY <1>1
    <3> HIDE DEF e
    <3>2. d \in { << img.symbols[g.symbol].name, g.name, g.value >> :
                   g \in { img.enums[k] : k \in DOMAIN img.enums } }
      BY <1>3, <3>1
    <3> QED
      BY <1>1, <3>2 DEF DeclaredEnumerators
  <2>4. Catalog!AddEnumerator(d)
    BY <1>3, <1>6, <2>1, <2>2 DEF Catalog!AddEnumerator
  <2> QED
    BY <2>3, <2>4 DEF Catalog!Next
<1> QED
  BY <1>2, <1>7, <1>8, InsertChange

LEMMA VariableStep ==
  ASSUME TypeOK, IdInv, StoreInv, NoneFailed, NoFailure, NoFailure',
         RefsResolve, NEW w \in Writer, WriteVariable(w),
         Grows(db, db'), WritesOnly("variables")
  PROVE  Catalog!Next \/ UNCHANGED Catalog!catalog
<1> DEFINE h == held[w]
           img == image[w]
           v == img.variables[item[w]]
           row(t) == [name |-> v.name, elf |-> h.elf, type |-> t]
<1>1. /\ pc[w] = "variables" /\ v.type \in DOMAIN img.symbols
      /\ item[w] \in DOMAIN img.variables /\ img \in Images
  BY EntryType, ItemsAre DEF TypeOK, MemoryTypeOK, WriteVariable, At, Items
<1>2. PICK res \in Results, t \in Read(h.symbol[v.type]) :
        Insert(w, "variables", row(t), res)
  BY DEF WriteVariable
<1>3. /\ SymbolName(t) = img.symbols[v.type].name
      /\ SymbolName(t) \in SymbolNames
  BY <1>1, <1>2, NamesRead
<1>4. row(t).name = v.name /\ row(t).type = t
  OBVIOUS
<1> HIDE DEF row
<1>5. /\ SymbolNames' = SymbolNames /\ TargetNames' = TargetNames
      /\ FieldNames' = FieldNames /\ EnumeratorNames' = EnumeratorNames
  BY CatalogUnwritten, TableNames DEF WritesOnly
<1>6. CASE db' = db
  <2>1. VariableNames' = VariableNames
    BY <1>6, VariableNamesKept
  <2> QED
    BY <1>5, <2>1 DEF Catalog!catalog
<1>7. CASE res = "ok"
  <2> DEFINE d == << v.name, SymbolName(t) >>
  <2>1. VariableNames' = VariableNames \cup {d}
    BY <1>2, <1>4, <1>7, VariableNamesAdded
  <2>2. d \in DeclaredVariables
    <3>1. v \in { img.variables[k] : k \in DOMAIN img.variables }
      BY <1>1
    <3> HIDE DEF v
    <3>2. d \in { << g.name, img.symbols[g.type].name >> :
                   g \in { img.variables[k] : k \in DOMAIN img.variables } }
      BY <1>3, <3>1
    <3> QED
      BY <1>1, <3>2 DEF DeclaredVariables
  <2>3. Catalog!AddVariable(d)
    BY <1>3, <1>5, <2>1 DEF Catalog!AddVariable
  <2> QED
    BY <2>2, <2>3 DEF Catalog!Next
<1> QED
  BY <1>2, <1>6, <1>7, InsertChange

LEMMA SymbolStep ==
  ASSUME TypeOK, NoFailure, NoFailure', RefsResolve, NEW w \in Writer,
         InsertSymbol(w), Grows(db, db'), WritesOnly("symbols")
  PROVE  Catalog!Next \/ UNCHANGED Catalog!catalog
<1> DEFINE s == image[w].symbols[item[w]]
<1>1. item[w] \in DOMAIN image[w].symbols /\ image[w] \in Images
  BY EntryType DEF TypeOK, MemoryTypeOK, InsertSymbol
<1>2. PICK row, res : /\ Insert(w, "symbols", row, res)
                      /\ row.name = s.name /\ row.target = Null
  BY DEF InsertSymbol
<1>3. /\ FieldNames' = FieldNames /\ EnumeratorNames' = EnumeratorNames
      /\ VariableNames' = VariableNames
  BY CatalogUnwritten, TableNames DEF WritesOnly
<1>4. CASE db' = db
  <2>1. SymbolNames' = SymbolNames /\ TargetNames' = TargetNames
    BY <1>4, SymbolsKept
  <2> QED
    BY <1>3, <2>1 DEF Catalog!catalog
<1>5. CASE res = "ok"
  <2>1. SymbolNames' = SymbolNames \cup {s.name} /\ TargetNames' = TargetNames
    BY <1>2, <1>5, SymbolNamesAdded
  <2>2. s.name \in DeclaredSymbols
    BY <1>1 DEF DeclaredSymbols
  <2>3. Catalog!AddSymbol(s.name)
    BY <1>3, <2>1 DEF Catalog!AddSymbol
  <2> QED
    BY <2>2, <2>3 DEF Catalog!Next
<1> QED
  BY <1>2, <1>4, <1>5, InsertChange

LEMMA TargetStep ==
  ASSUME TypeOK, IdInv, StoreInv, NoneFailed, NoFailure, NoFailure',
         RefsResolve, NamesUnique, NEW w \in Writer, UpdateTarget(w),
         Grows(db, db'), WritesOnly("symbols")
  PROVE  Catalog!Next \/ UNCHANGED Catalog!catalog
<1> DEFINE h == held[w]
           img == image[w]
           n == img.symbols[item[w]].target
<1>1. /\ pc[w] = "targets" /\ item[w] \in DOMAIN img.symbols
      /\ n \in {0} \cup DOMAIN img.symbols /\ img \in Images
  BY EntryType DEF TypeOK, MemoryTypeOK, UpdateTarget, At
<1>2. /\ FieldNames' = FieldNames /\ EnumeratorNames' = EnumeratorNames
      /\ VariableNames' = VariableNames
  BY CatalogUnwritten, TableNames DEF WritesOnly
<1>3. CASE db' = db
  <2>1. SymbolNames' = SymbolNames /\ TargetNames' = TargetNames
    BY <1>3, SymbolsKept
  <2> QED
    BY <1>2, <2>1 DEF Catalog!catalog
<1>4. ASSUME NEW i \in Read(h.symbol[item[w]]), NEW t \in Read(h.symbol[n]),
             n # 0, SetTarget(i, t)
      PROVE  Catalog!Next
  <2> DEFINE d == << SymbolName(i), SymbolName(t) >>
  <2>1. /\ i \in DOMAIN db["symbols"] /\ t \in DOMAIN db["symbols"]
        /\ SymbolName(i) = img.symbols[item[w]].name
        /\ SymbolName(t) = img.symbols[n].name
        /\ SymbolName(i) \in SymbolNames /\ SymbolName(t) \in SymbolNames
    BY <1>1, <1>4, NamesRead
  <2>2. /\ SymbolNames' = SymbolNames
        /\ TargetNames' = { u \in TargetNames : u[1] # SymbolName(i) } \cup {d}
    BY <1>4, <2>1, TargetNamesSet
  <2>3. d \in DeclaredTargets
    <3> DEFINE s == img.symbols[item[w]]
               withTarget == { j \in DOMAIN img.symbols : img.symbols[j].target # 0 }
    <3>1. item[w] \in withTarget /\ d = << s.name, img.symbols[s.target].name >>
      BY <1>1, <1>4, <2>1
    <3>2. s \in { img.symbols[j] : j \in withTarget }
      BY <3>1
    <3> DEFINE targets(x) ==
                 { << u.name, x.symbols[u.target].name >> :
                     u \in { x.symbols[j] : j \in { v \in DOMAIN x.symbols :
                                                       x.symbols[v].target # 0 } } }
    <3>3. d \in targets(img)
      BY <3>1, <3>2
    <3>4. DeclaredTargets = UNION { targets(x) : x \in Images }
      BY DEF DeclaredTargets
    <3> HIDE DEF targets, d
    <3> QED
      BY <1>1, <3>3, <3>4
  <2>4. Catalog!SetTarget(d)
    BY <1>2, <2>1, <2>2 DEF Catalog!SetTarget
  <2> QED
    BY <2>3, <2>4 DEF Catalog!Next
<1>5. \/ db' = db
      \/ n # 0 /\ \E i \in Read(h.symbol[item[w]]), t \in Read(h.symbol[n]) :
                    SetTarget(i, t)
  BY DEF UpdateTarget
<1> QED
  BY <1>3, <1>4, <1>5

\* Each step of the writer is a step of the catalog or leaves it as it is.
LEMMA NextCatalog ==
  /\ TypeOK /\ IdInv /\ StoreInv /\ NoneFailed /\ NoFailure /\ NoFailure'
  /\ RefsResolve /\ NamesUnique /\ [Next]_vars
  => [Catalog!Next]_(Catalog!catalog)
<1> SUFFICES ASSUME TypeOK, IdInv, StoreInv, NoneFailed, NoFailure, NoFailure',
                    RefsResolve, NamesUnique, [Next]_vars
             PROVE  Catalog!Next \/ UNCHANGED Catalog!catalog
  OBVIOUS
<1>1. ASSUME Grows(db, db'), db'["symbols"] = db["symbols"],
             db'["fields"] = db["fields"],
             db'["enumerations"] = db["enumerations"],
             db'["variables"] = db["variables"]
      PROVE  UNCHANGED Catalog!catalog
  BY <1>1, CatalogUnwritten DEF Catalog!catalog
<1>2. CASE UNCHANGED vars \/ Quiet
  <2>1. db' = db
    BY <1>2 DEF vars, Quiet
  <2> QED
    BY <1>1, <2>1 DEF Grows
<1>3. ASSUME NEW w \in Writer, Start(w) \/ Step(w) \/ Crash(w)
      PROVE  Catalog!Next \/ UNCHANGED Catalog!catalog
  <2>1. Grows(db, db')
    BY <1>3, StepsGrow
  <2>2. CASE WriteField(w)
    <3>1. WritesOnly("fields")
      BY <2>2, InsertTable, TableNames DEF WriteField, WritesOnly, TypeOK
    <3> QED
      BY <2>1, <2>2, <3>1, FieldStep
  <2>3. CASE WriteEnumeration(w)
    <3>1. WritesOnly("enumerations")
      BY <2>3, InsertTable, TableNames DEF WriteEnumeration, WritesOnly, TypeOK
    <3> QED
      BY <2>1, <2>3, <3>1, EnumerationStep
  <2>4. CASE WriteVariable(w)
    <3>1. WritesOnly("variables")
      BY <2>4, InsertTable, TableNames DEF WriteVariable, WritesOnly, TypeOK
    <3> QED
      BY <2>1, <2>4, <3>1, VariableStep
  <2>5. CASE InsertSymbol(w)
    <3>1. WritesOnly("symbols")
      BY <2>5, InsertTable, TableNames DEF InsertSymbol, WritesOnly, TypeOK
    <3> QED
      BY <2>1, <2>5, <3>1, SymbolStep
  <2>6. CASE UpdateTarget(w)
    <3>1. DOMAIN db = Tables /\ "symbols" \in Tables
      BY TableNames DEF TypeOK, FileTypeOK
    <3>2. ASSUME NEW i, NEW t, SetTarget(i, t) PROVE WritesOnly("symbols")
      BY <3>1, <3>2 DEF SetTarget, WritesOnly
    <3>3. WritesOnly("symbols")
      BY <2>6, <3>2 DEF UpdateTarget, WritesOnly
    <3> QED
      BY <2>1, <2>6, <3>3, TargetStep
  <2>7. CASE /\ ~ WriteField(w) /\ ~ WriteEnumeration(w) /\ ~ WriteVariable(w)
             /\ ~ InsertSymbol(w) /\ ~ UpdateTarget(w)
    BY <1>1, <1>3, <2>1, <2>7, TablesWritten
  <2> QED
    BY <2>2, <2>3, <2>4, <2>5, <2>6, <2>7
<1> QED
  BY <1>2, <1>3 DEF Next

LEMMA InitCatalog == Init => Catalog!Init
<1> SUFFICES ASSUME Init PROVE Catalog!Init
  OBVIOUS
<1>1. /\ db["symbols"] = << >> /\ db["fields"] = << >>
      /\ db["enumerations"] = << >> /\ db["variables"] = << >>
  BY TableNames DEF Init
<1> QED
  BY <1>1 DEF Catalog!Init, Rows, SymbolNames, FieldNames, EnumeratorNames,
     VariableNames, TargetNames

LEMMA NextResolves ==
  /\ TypeOK /\ IdInv /\ StoreInv /\ NoneFailed /\ RefsResolve /\ [Next]_vars
  => RefsResolve'
<1> SUFFICES ASSUME TypeOK, IdInv, StoreInv, NoneFailed, RefsResolve, [Next]_vars
             PROVE  RefsResolve'
  OBVIOUS
<1>1. CASE UNCHANGED vars \/ Quiet
  BY <1>1 DEF vars, Quiet, RefsResolve, Resolves
<1> QED
  BY <1>1, ResolvesKept DEF Next

\* While no two processes run at the same time and no statement fails, the
\* file implements the catalog: whatever is killed and run again, each step
\* of the writer adds one declaration or replaces one target, or is not seen
\* by a reader.
THEOREM WriterImplementsCatalog ==
  ASSUME NoColumnNames
  PROVE  Spec /\ []Alone /\ []NoFailure => ImplementsCatalog
<1>1. Init => ErrorsAreFaults
  BY DEF Init, ErrorsAreFaults, OK, ERROR
<1>2. Init => IdInv
  BY DEF Init, IdInv, Running, BeforeFields, NoFieldIds
<1>3. Init => StoreInv
  BY DEF Init, StoreInv, Running
<1>4. Init => NamesUnique
  BY TableNames DEF Init, NamesUnique
<1>5. Init => NoneFailed
  BY DEF Init, NoneFailed
<1>6. Init => RefsResolve
  BY TableNames DEF Init, RefsResolve, Resolves
<1> QED
  BY <1>1, <1>2, <1>3, <1>4, <1>5, <1>6, TypeCorrect, NextErrors, NextIds,
     NextStore, NextUnique, NextNoneFailed, NextResolves, InitCatalog,
     NextCatalog, PTL DEF Spec, ImplementsCatalog, Catalog!Spec

\* And every id of a symbol that the file holds is that of a row, at every
\* moment.
THEOREM ReferencesResolve ==
  ASSUME NoColumnNames
  PROVE  Spec /\ []Alone /\ []NoFailure => []RefsResolve
<1>1. Init => ErrorsAreFaults
  BY DEF Init, ErrorsAreFaults, OK, ERROR
<1>2. Init => IdInv
  BY DEF Init, IdInv, Running, BeforeFields, NoFieldIds
<1>3. Init => StoreInv
  BY DEF Init, StoreInv, Running
<1>4. Init => NoneFailed
  BY DEF Init, NoneFailed
<1>5. Init => RefsResolve
  BY TableNames DEF Init, RefsResolve, Resolves
<1> QED
  BY <1>1, <1>2, <1>3, <1>4, <1>5, TypeCorrect, NextErrors, NextIds, NextStore,
     NextNoneFailed, NextResolves, PTL DEF Spec

-----------------------------------------------------------------------------
(* Writing again.                                                          *)

\* No symbol is in the file before its encodings are, nor while a process
\* that found none writes them.
EncodingsFirst ==
  /\ Encodings # << >> /\ db["symbols"] # << >> => db["encodings"] # << >>
  /\ \A w \in Writer : pc[w] = "encodings" /\ found[w] = "absent" =>
       db["symbols"] = << >>

LEMMA EncodingActions ==
  ASSUME NEW w \in Writer, Step(w), pc[w] = "encodings"
  PROVE  CheckEncodings(w) \/ WriteEncoding(w) \/ SelectEncodings(w) \/ Return(w)
BY DEF Step, CreateTable, FailToCreateTable, Finish, At, WriteElf,
   CheckArtifact, SelectArtifact, InsertArtifact, WriteMacro, CheckSymbol,
   SelectSymbol, InsertSymbol, UpdateTarget, WriteField, WriteDimension,
   WriteEnumeration, WriteVariable, WriteElfSection, WriteElfSymbol

LEMMA EmptyOrFirst ==
  ASSUME NEW S, NEW q \in Seq(S)
  PROVE  (q = << >> <=> DOMAIN q = {}) /\ (q # << >> => 1 \in DOMAIN q)
OBVIOUS

LEMMA NonEmptyStays ==
  ASSUME TypeOK, Grows(db, db'), NEW t \in Tables, db[t] # << >>
  PROVE  db'[t] # << >>
<1>1. db[t] \in Seq(RowOf[t])
  BY DEF TypeOK, FileTypeOK
<1>2. 1 \in DOMAIN db[t]
  BY <1>1
<1>3. 1 \in DOMAIN db'[t]
  BY <1>2, DomainsGrow
<1> QED
  BY <1>3

LEMMA NextEncodings ==
  /\ TypeOK /\ StoreInv /\ NoneFailed /\ NoFailure /\ NoFailure'
  /\ Alone /\ Alone' /\ EncodingsFirst /\ [Next]_vars
  => EncodingsFirst'
<1> SUFFICES ASSUME TypeOK, StoreInv, NoneFailed, NoFailure, NoFailure', Alone,
                    Alone', EncodingsFirst, [Next]_vars
             PROVE  EncodingsFirst'
  OBVIOUS
<1>1. CASE UNCHANGED vars \/ Quiet
  BY <1>1 DEF vars, Quiet, EncodingsFirst
<1>2. ASSUME NEW v \in Writer, Start(v) \/ Step(v) \/ Crash(v),
             Encodings # << >>, db'["symbols"] # << >>
      PROVE  db'["encodings"] # << >>
  <2>1. Grows(db, db') /\ "encodings" \in Tables
    BY <1>2, StepsGrow, TableNames
  <2>2. CASE db["symbols"] # << >>
    BY <1>2, <2>1, <2>2, NonEmptyStays DEF EncodingsFirst
  <2>3. CASE db["symbols"] = << >>
    <3>1. DOMAIN db'["symbols"] # DOMAIN db["symbols"]
      <4>1. InsertSymbol(v) \/ UpdateTarget(v)
        BY <1>2, <2>3, TablesWritten
      <4>2. CASE InsertSymbol(v)
        <5>1. PICK row, res : Insert(v, "symbols", row, res)
          BY <4>2 DEF InsertSymbol
        <5>2. res = "ok"
          BY <1>2, <2>3, <5>1 DEF Insert
        <5>3. DOMAIN db["symbols"] = {}
          BY <2>3
        <5>4. DOMAIN db'["symbols"] # {}
          BY <5>1, <5>2, InsertGrows, TableNames DEF TypeOK
        <5> QED
          BY <5>3, <5>4
      <4>3. CASE UpdateTarget(v)
        <5>1. db' = db \/ \E i, t : SetTarget(i, t)
          BY <4>3 DEF UpdateTarget
        <5>2. DOMAIN db["symbols"] = {}
          BY <2>3
        <5>3. db' = db
          BY <5>1, <5>2 DEF SetTarget
        <5> QED
          BY <1>2, <2>3, <5>3
      <4> QED
        BY <4>1, <4>2, <4>3
    <3>2. InsertSymbol(v)
      BY <1>2, <3>1, SymbolsWritten
    <3>3. Running(v) /\ ~ failed[v] /\ pc[v] = "symbols"
      BY <3>2 DEF InsertSymbol, At, Running, NoneFailed
    <3>4. 1 \in Items(image[v], "encodings") /\ "encodings" \in Stages
      <4>1. 1 \in DOMAIN Encodings
        <5>1. Encodings \in Seq(STRING \ {""})
          BY EncodingsAssumption
        <5> QED
          BY <1>2, <5>1, EmptyOrFirst
      <4> QED
        BY <4>1, ItemsAre DEF Stages, TypeOK, MemoryTypeOK
    <3>5. Passed(v, "encodings", 1)
      BY <3>3 DEF Passed, Rank
    <3>6. db["encodings"] # << >>
      BY <3>3, <3>4, <3>5 DEF StoreInv, ItemStored
    <3> QED
      BY <2>1, <3>6, NonEmptyStays
  <2> QED
    BY <2>2, <2>3
<1>3. ASSUME NEW w \in Writer, pc'[w] = "encodings", found'[w] = "absent",
             ~ UNCHANGED vars
      PROVE  db'["symbols"] = << >>
  <2>1. Running(w)'
    BY <1>3 DEF Running
  <2>2. Start(w) \/ Step(w)
    BY <1>3, <2>1, OwnStep
  <2>3. DOMAIN found = Writer /\ DOMAIN pc = Writer
    BY DEF TypeOK, ControlTypeOK
  <2>4. ~ Start(w) /\ ~ Finish(w) /\ ~ FailToCreateTable(w) /\ ~ Return(w)
    BY <1>3, <2>3 DEF Start, Begin, Finish, Exit, FailToCreateTable, Return
  <2>5. pc[w] = "encodings"
    BY <1>3, <2>2, <2>4, StatementScope
  <2>6. CASE CheckEncodings(w)
    <3>1. DOMAIN db["encodings"] = {}
      BY <1>3, <2>3, <2>6, NoFaultNow DEF CheckEncodings, Count
    <3>2. Encodings # << >>
      BY <2>6 DEF CheckEncodings, At, Loop
    <3>3. db["encodings"] \in Seq(RowOf["encodings"])
      BY TableNames DEF TypeOK, FileTypeOK
    <3>4. db["encodings"] = << >>
      BY <3>1, <3>3, EmptyOrFirst
    <3> QED
      BY <2>6, <3>2, <3>4 DEF EncodingsFirst, CheckEncodings
  <2>7. CASE WriteEncoding(w) \/ SelectEncodings(w)
    <3>1. found' = found /\ db'["symbols"] = db["symbols"]
      BY <2>7, InsertTable, TableNames DEF WriteEncoding, SelectEncodings, TypeOK
    <3> QED
      BY <1>3, <2>5, <3>1 DEF EncodingsFirst
  <2> QED
    BY <2>2, <2>4, <2>5, <2>6, <2>7, EncodingActions
<1> QED
  BY <1>1, <1>2, <1>3 DEF Next, EncodingsFirst

\* What is in the file already cannot be inserted: its row would clash.
LEMMA StoredClashes ==
  ASSUME TypeOK, IdInv, StoreInv, NoneFailed, NamesUnique, EncodingsFirst,
         NEW w \in Writer, Running(w), image[w].symbols # << >>,
         Stored(image[w]), Step(w)
  PROVE  /\ ~ InsertArtifact(w) /\ ~ InsertSymbol(w) /\ ~ WriteEncoding(w)
         /\ WriteElf(w) \/ WriteMacro(w) \/ WriteField(w) \/ WriteEnumeration(w)
            => db' = db
<1> DEFINE img == image[w]
           h == held[w]
<1>1. /\ HasRow("elfs", LAMBDA r : r.name = img.path)
      /\ \A i \in DOMAIN img.symbols :
           /\ HasRow("symbols", LAMBDA r : r.name = img.symbols[i].name)
           /\ HasRow("artifacts", LAMBDA r : r.path = img.symbols[i].source)
      /\ \A i \in DOMAIN img.macros : HasRow("macros", LAMBDA r : r = img.macros[i])
  BY DEF Stored, NamesStored
<1>2. Answers(w) /\ img \in Images
  BY DEF StoreInv, NoneFailed, TypeOK, MemoryTypeOK
<1>3. ASSUME InsertArtifact(w) PROVE FALSE
  <2>1. item[w] \in DOMAIN img.symbols
    BY <1>3, EntryType DEF InsertArtifact, TypeOK
  <2>2. ArtifactRows(img.symbols[item[w]].source) = {}
    BY <1>2, <1>3 DEF InsertArtifact, Answers
  <2> QED
    BY <1>1, <2>1, <2>2 DEF ArtifactRows, HasRow
<1>4. ASSUME InsertSymbol(w) PROVE FALSE
  <2>1. item[w] \in DOMAIN img.symbols
    BY <1>4, EntryType DEF InsertSymbol, TypeOK
  <2>2. SymbolRows(img.symbols[item[w]].name) = {}
    BY <1>2, <1>4 DEF InsertSymbol, Answers
  <2> QED
    BY <1>1, <2>1, <2>2 DEF SymbolRows, HasRow
<1>5. ASSUME WriteEncoding(w) PROVE FALSE
  <2>1. db["symbols"] = << >>
    BY <1>5 DEF WriteEncoding, At, EncodingsFirst
  <2>2. 1 \in DOMAIN img.symbols
    <3>1. img.symbols \in Seq(SymbolEntry)
      BY <1>2, ImagesAssumption DEF IsImage
    <3> QED
      BY <3>1, EmptyOrFirst
  <2> QED
    BY <1>1, <2>1, <2>2 DEF HasRow
<1>6. ASSUME NEW t, NEW row, NEW res, Insert(w, t, row, res), Clashes(t, row)
      PROVE  db' = db
  BY <1>6 DEF Insert
<1>7. ASSUME WriteElf(w) PROVE db' = db
  <2> DEFINE row == [name |-> img.path, md5 |-> img.md5]
  <2>1. PICK res : Insert(w, "elfs", row, res)
    BY <1>7 DEF WriteElf
  <2>2. Clashes("elfs", row)
    BY <1>1 DEF HasRow, Clashes, Unique
  <2> QED
    BY <1>6, <2>1, <2>2
<1>8. ASSUME WriteMacro(w) PROVE db' = db
  <2>1. PICK res : Insert(w, "macros", img.macros[item[w]], res)
    BY <1>8 DEF WriteMacro
  <2>2. item[w] \in DOMAIN img.macros
    BY <1>2, <1>8, ItemsAre DEF WriteMacro, At, Items
  <2>3. Clashes("macros", img.macros[item[w]])
    BY <1>1, <2>2 DEF HasRow, Clashes, Unique
  <2> QED
    BY <1>6, <2>1, <2>3
<1>9. ASSUME pc[w] \in {"fields", "enumerations"}, NEW i \in DOMAIN img.symbols,
             NEW id \in Read(h.symbol[i])
      PROVE  SymbolId(img, i) = id
  <2>1. id \in DOMAIN db["symbols"] /\ SymbolName(id) = img.symbols[i].name
    BY <1>9, NamesRead
  <2> QED
    BY <2>1, SymbolIdHeld DEF SymbolName
<1>10. ASSUME WriteField(w) PROVE db' = db
  <2> DEFINE f == img.fields[item[w]]
             row(s, t) == [symbol |-> s, name |-> f.name,
                           byte_offset |-> f.offset, type |-> t]
  <2>1. /\ pc[w] = "fields" /\ f.symbol \in DOMAIN img.symbols
        /\ f \in { img.fields[k] : k \in DOMAIN img.fields }
    BY <1>10, EntryType DEF TypeOK, WriteField, At
  <2>2. PICK res \in Results, s \in Read(h.symbol[f.symbol]),
             t \in Read(h.symbol[f.type]) : Insert(w, "fields", row(s, t), res)
    BY <1>10 DEF WriteField
  <2>3. HasRow("fields", LAMBDA r : r.name = f.name /\ r.symbol = SymbolId(img, f.symbol))
    BY <2>1 DEF Stored
  <2>4. SymbolId(img, f.symbol) = s
    BY <1>9, <2>1, <2>2
  <2>5. Clashes("fields", row(s, t))
    <3>1. PICK r \in DOMAIN db["fields"] :
            db["fields"][r].name = f.name /\ db["fields"][r].symbol = s
      BY <2>3, <2>4 DEF HasRow
    <3>2. row(s, t).name = f.name /\ row(s, t).symbol = s
      OBVIOUS
    <3>3. "fields" \in DOMAIN Unique /\ Unique["fields"] = {"symbol", "name"}
      BY DEF Unique
    <3> HIDE DEF row
    <3> QED
      BY <3>1, <3>2, <3>3 DEF Clashes
  <2> QED
    BY <1>6, <2>2, <2>5
<1>11. ASSUME WriteEnumeration(w) PROVE db' = db
  <2> DEFINE e == img.enums[item[w]]
             row(s) == [symbol |-> s, name |-> e.name, value |-> e.value]
  <2>1. /\ pc[w] = "enumerations" /\ e.symbol \in DOMAIN img.symbols
        /\ e \in { img.enums[k] : k \in DOMAIN img.enums }
    BY <1>2, <1>11, EntryType, ItemsAre DEF TypeOK, WriteEnumeration, At, Items
  <2>2. PICK res \in Results, s \in Read(h.symbol[e.symbol]) :
          Insert(w, "enumerations", row(s), res)
    BY <1>11 DEF WriteEnumeration
  <2>3. HasRow("enumerations", LAMBDA r : r.name = e.name /\ r.symbol = SymbolId(img, e.symbol))
    BY <2>1 DEF Stored
  <2>4. SymbolId(img, e.symbol) = s
    BY <1>9, <2>1, <2>2
  <2>5. Clashes("enumerations", row(s))
    <3>1. PICK r \in DOMAIN db["enumerations"] :
            db["enumerations"][r].name = e.name /\ db["enumerations"][r].symbol = s
      BY <2>3, <2>4 DEF HasRow
    <3>2. row(s).name = e.name /\ row(s).symbol = s
      OBVIOUS
    <3>3. "enumerations" \in DOMAIN Unique /\ Unique["enumerations"] = {"symbol", "name"}
      BY DEF Unique
    <3> HIDE DEF row
    <3> QED
      BY <3>1, <3>2, <3>3 DEF Clashes
  <2> QED
    BY <1>6, <2>2, <2>5
<1> QED
  BY <1>3, <1>4, <1>5, <1>7, <1>8, <1>10, <1>11

LEMMA StepRuns == ASSUME NEW w \in Writer, Step(w) PROVE Running(w)
BY DEF Running, Step, CreateTable, FailToCreateTable, Return, Finish, Stages,
   At, WriteElf, CheckArtifact, SelectArtifact, InsertArtifact, WriteMacro,
   CheckEncodings, SelectEncodings, WriteEncoding, CheckSymbol, SelectSymbol,
   InsertSymbol, UpdateTarget, WriteField, WriteDimension, WriteEnumeration,
   WriteVariable, WriteElfSection, WriteElfSymbol

LEMMA NextRerun ==
  /\ TypeOK /\ IdInv /\ StoreInv /\ NoneFailed /\ NamesUnique /\ EncodingsFirst
  /\ Alone /\ Alone' /\ [Next]_vars
  => \A w \in Writer :
       Running(w) /\ image[w].symbols # << >> /\ Stored(image[w]) =>
       \A t \in {"elfs", "symbols", "fields", "enumerations", "artifacts",
                 "macros", "encodings"} : DOMAIN db[t]' = DOMAIN db[t]
<1> SUFFICES ASSUME TypeOK, IdInv, StoreInv, NoneFailed, NamesUnique,
                    EncodingsFirst, Alone, Alone', [Next]_vars,
                    NEW w \in Writer, Running(w), image[w].symbols # << >>,
                    Stored(image[w]),
                    NEW t \in {"elfs", "symbols", "fields", "enumerations",
                               "artifacts", "macros", "encodings"}
             PROVE  DOMAIN db'[t] = DOMAIN db[t]
  OBVIOUS
<1>1. CASE db' = db
  BY <1>1
<1>2. CASE UNCHANGED vars \/ Quiet
  BY <1>2 DEF vars, Quiet
<1>3. ASSUME NEW v \in Writer, Start(v) \/ Crash(v) PROVE db' = db
  BY <1>3 DEF Start, Crash, Exit
<1>4. ASSUME NEW v \in Writer, Step(v) PROVE v = w
  <2>1. Running(v)
    BY <1>4, StepRuns
  <2> QED
    BY <2>1 DEF Alone
<1>5. CASE Step(w)
  <2>1. /\ ~ InsertArtifact(w) /\ ~ InsertSymbol(w) /\ ~ WriteEncoding(w)
        /\ WriteElf(w) \/ WriteMacro(w) \/ WriteField(w) \/ WriteEnumeration(w)
           => db' = db
    BY <1>5, StoredClashes
  <2>2. DOMAIN db'["symbols"] = DOMAIN db["symbols"]
    BY <1>5, <2>1, SymbolsWritten
  <2>3. CASE t # "symbols" /\ db'[t] # db[t]
    BY <1>5, <2>1, <2>3, TablesWritten
  <2> QED
    BY <2>2, <2>3
<1> QED
  BY <1>1, <1>2, <1>3, <1>4, <1>5 DEF Next

\* While no two processes run at the same time and no statement fails, writing
\* an ElfFile that the file holds already adds no row to the tables whose rows
\* have a key of their own.
THEOREM RerunsAddNothing ==
  ASSUME NoColumnNames
  PROVE  Spec /\ []Alone /\ []NoFailure => RerunAddsNothing
<1>1. Init => ErrorsAreFaults
  BY DEF Init, ErrorsAreFaults, OK, ERROR
<1>2. Init => IdInv
  BY DEF Init, IdInv, Running, BeforeFields, NoFieldIds
<1>3. Init => StoreInv
  BY DEF Init, StoreInv, Running
<1>4. Init => NamesUnique
  BY TableNames DEF Init, NamesUnique
<1>5. Init => NoneFailed
  BY DEF Init, NoneFailed
<1>6. Init => EncodingsFirst
  BY TableNames DEF Init, EncodingsFirst
<1> QED
  BY <1>1, <1>2, <1>3, <1>4, <1>5, <1>6, TypeCorrect, NextErrors, NextIds,
     NextStore, NextUnique, NextNoneFailed, NextEncodings, NextRerun, PTL
  DEF Spec, RerunAddsNothing

-----------------------------------------------------------------------------
(* The first process on an empty file.                                     *)

BeforeElf(w) == pc[w] = "schema" \/ (pc[w] = "elf" /\ item[w] = 1)

\* The row of the ElfFile is new, so that its id is taken.
FirstElf(w) == IF BeforeElf(w) THEN db["elfs"] = << >> ELSE held[w].elf # 0

\* So are those of the encodings and of the fields: nobody else wrote one.
FirstEncodings(w) ==
  /\ Rank[pc[w]] < Rank["encodings"] => db["encodings"] = << >>
  /\ pc[w] = "encodings" =>
       /\ found[w] # "present"
       /\ found[w] = "unasked" => item[w] = 1
       /\ \A r \in DOMAIN db["encodings"] : \E k \in DOMAIN Encodings :
            k < item[w] /\ db["encodings"][r].encoding = Encodings[k]
  /\ \A k \in DOMAIN Encodings :
       Passed(w, "encodings", k) /\ HasBranch(Encodings[k]) =>
         held[w].encoding[k] # Unset

\* A field that a dimension list refers to.
HasDimensions(w, k) ==
  \E d \in DOMAIN image[w].dims : image[w].dims[d].field = k

FirstFields(w) ==
  /\ Rank[pc[w]] < Rank["fields"] => db["fields"] = << >>
  /\ pc[w] = "fields" =>
       \A r \in DOMAIN db["fields"] : \E k \in DOMAIN image[w].fields :
         /\ k < item[w]
         /\ db["fields"][r].name = image[w].fields[k].name
         /\ db["fields"][r].symbol = held[w].symbol[image[w].fields[k].symbol]
  /\ \A k \in DOMAIN image[w].fields :
       Passed(w, "fields", k) /\ HasDimensions(w, k) => held[w].field[k] # 0

AllHaveBranches == \A k \in DOMAIN Encodings : HasBranch(Encodings[k])

\* The references other than those of RefsResolve.
OtherReferences ==
  /\ ElfReferences /\ DimensionReferences
  /\ AllHaveBranches => EncodingReferences
  /\ Resolves("symbols", "artifact", "artifacts")

\* The inductive strengthening of FirstRunReferences.
FirstRun ==
  /\ Alone /\ NoneFailed /\ StoreInv /\ RefsResolve /\ OtherReferences
  /\ runs = 0 => /\ \A t \in Tables : db[t] = << >>
                 /\ \A w \in Writer : ~ Running(w)
  /\ \A w \in Writer : Running(w) =>
       FirstElf(w) /\ FirstEncodings(w) /\ FirstFields(w)

FirstInv == runs <= 1 /\ faults = 0 => FirstRun

\* A statement of w that is not killed and does not fail.
Statement(w) ==
  /\ Step(w) /\ ~ Finish(w) /\ ~ FailToCreateTable(w) /\ ~ Return(w)

LEMMA StatementPlace ==
  ASSUME NEW w \in Writer, Statement(w)
  PROVE  pc'[w] = pc[w] /\ image'[w] = image[w]
BY StatementScope DEF Statement

LEMMA ElfActions ==
  ASSUME NEW w \in Writer, Statement(w), pc[w] \in {"elf", "elf_again"}
  PROVE  WriteElf(w)
BY DEF Statement, Step, CreateTable, At, CheckEncodings, SelectEncodings,
   WriteEncoding, CheckArtifact, SelectArtifact, InsertArtifact, WriteMacro,
   CheckSymbol, SelectSymbol, InsertSymbol, UpdateTarget, WriteField,
   WriteDimension, WriteEnumeration, WriteVariable, WriteElfSection,
   WriteElfSymbol

LEMMA FieldActions ==
  ASSUME NEW w \in Writer, Statement(w), pc[w] = "fields"
  PROVE  WriteField(w)
BY DEF Statement, Step, CreateTable, At, CheckEncodings, SelectEncodings,
   WriteEncoding, CheckArtifact, SelectArtifact, InsertArtifact, WriteMacro,
   CheckSymbol, SelectSymbol, InsertSymbol, UpdateTarget, WriteElf,
   WriteDimension, WriteEnumeration, WriteVariable, WriteElfSection,
   WriteElfSymbol

\* What Return leaves alone, and where it leads from.
LEMMA ReturnPlace ==
  ASSUME TypeOK, NEW w \in Writer, Return(w)
  PROVE  /\ db' = db /\ held' = held /\ image' = image
         /\ item'[w] = 1 /\ found'[w] = "unasked"
         /\ pc[w] \in Stages /\ pc'[w] \in Stages \cup {"done"}
         /\ Rank[pc[w]] < Rank[pc'[w]]
         /\ pc'[w] # "schema"
         /\ pc'[w] = "elf" => pc[w] = "schema"
         /\ item[w] > Loop(image[w])[pc[w]]
<1>1. /\ pc \in [Writer -> Stages \cup {"idle", "done"}]
      /\ DOMAIN item = Writer /\ DOMAIN found = Writer
  BY DEF TypeOK, ControlTypeOK
<1>2. /\ pc[w] \in Stages /\ pc'[w] = After(pc[w], rc[w])
  BY <1>1 DEF Return
<1>3. ASSUME NEW s \in Stages, NEW r
      PROVE  /\ After(s, r) \in Stages \cup {"done"}
             /\ Rank[s] < Rank[After(s, r)]
             /\ After(s, r) # "schema"
             /\ After(s, r) = "elf" => s = "schema"
  BY DEF Stages, After, OnSuccess, OnError, Rank
<1> QED
  BY <1>1, <1>2, <1>3 DEF Return

\* An INSERT whose row does not clash stores it.
LEMMA FreshInsert ==
  ASSUME TypeOK, NoFailure, NoFailure', NEW w, NEW t \in Tables, NEW row, NEW res,
         Insert(w, t, row, res), ~ Clashes(t, row)
  PROVE  res = "ok" /\ NextId(t) # 0
<1>1. res = "ok"
  BY NoFaultNow DEF Insert
<1>2. NextId(t) # 0
  BY NextIdType DEF TypeOK
<1> QED
  BY <1>1, <1>2

LEMMA FirstElfStep ==
  ASSUME TypeOK, NoFailure, NoFailure', NEW w \in Writer, Statement(w) \/ Return(w),
         FirstElf(w)
  PROVE  FirstElf(w)'
<1>1. /\ DOMAIN held = Writer /\ held[w] \in IdsOf(image[w]) /\ image[w] \in Images
      /\ item \in [Writer -> Nat \ {0}] /\ DOMAIN pc = Writer
      /\ "elfs" \in Tables
  BY TableNames DEF TypeOK, MemoryTypeOK, ControlTypeOK
<1>2. CASE Return(w)
  <2>1. pc[w] = "elf" => item[w] > 1
    <3>1. Loop(image[w])["elf"] = 1
      BY DEF Loop
    <3> QED
      BY <1>2, <3>1, ReturnPlace
  <2>2. CASE BeforeElf(w)
    <3>1. pc[w] = "schema"
      BY <1>1, <2>1, <2>2 DEF BeforeElf
    <3>2. pc'[w] = "elf" /\ item'[w] = 1
      BY <1>1, <1>2, <3>1 DEF Return, After, OnSuccess, OnError
    <3> QED
      BY <1>2, <2>2, <3>2, ReturnPlace DEF FirstElf, BeforeElf
  <2>3. CASE ~ BeforeElf(w)
    <3>1. ~ BeforeElf(w)'
      BY <1>2, <2>3, ReturnPlace DEF BeforeElf
    <3> QED
      BY <1>2, <2>3, <3>1, ReturnPlace DEF FirstElf
  <2> QED
    BY <2>2, <2>3
<1>3. CASE WriteElf(w)
  <2> DEFINE row == [name |-> image[w].path, md5 |-> image[w].md5]
  <2>1. PICK res \in Results :
          /\ Insert(w, "elfs", row, res)
          /\ held' = IF res = "ok" THEN [held EXCEPT ![w].elf = NextId("elfs")]
                     ELSE held
    BY <1>3 DEF WriteElf
  <2>2. pc' = pc /\ item'[w] = item[w] + 1
    BY <1>1, <1>3 DEF WriteElf, Advance
  <2>3. ~ BeforeElf(w)'
    <3>1. pc[w] # "schema"
      BY <1>3 DEF WriteElf, At
    <3>2. item[w] + 1 # 1
      BY <1>1
    <3> QED
      BY <2>2, <3>1, <3>2 DEF BeforeElf
  <2>4. NextId("elfs") # 0
    BY <1>1, NextIdType DEF TypeOK
  <2>5. CASE res = "ok"
    BY <1>1, <2>1, <2>3, <2>4, <2>5 DEF FirstElf, IdsOf
  <2>6. CASE ~ BeforeElf(w)
    <3>1. held[w].elf # 0
      BY <2>6 DEF FirstElf
    <3>2. held'[w].elf # 0
      BY <1>1, <2>1, <2>4, <3>1 DEF IdsOf
    <3> QED
      BY <2>3, <3>2 DEF FirstElf
  <2>7. CASE BeforeElf(w)
    <3>1. DOMAIN db["elfs"] = {}
      BY <2>7 DEF FirstElf
    <3>2. ~ Clashes("elfs", row)
      BY <3>1 DEF Clashes
    <3>3. res = "ok"
      BY <1>1, <2>1, <3>2, FreshInsert
    <3> QED
      BY <2>5, <3>3
  <2> QED
    BY <2>6, <2>7
<1>4. CASE Statement(w) /\ ~ WriteElf(w)
  <2>1. pc[w] \notin {"elf", "elf_again"} /\ pc'[w] = pc[w]
    BY <1>4, ElfActions, StatementPlace
  <2>2. db'["elfs"] = db["elfs"]
    BY <1>4, TablesWritten DEF Statement
  <2>3. held'[w].elf = held[w].elf
    <3>1. ASSUME NEW i, NEW x,
                 \/ held' = [held EXCEPT ![w].artifact[i] = x]
                 \/ held' = [held EXCEPT ![w].symbol[i] = x]
                 \/ held' = [held EXCEPT ![w].encoding = x]
                 \/ held' = [held EXCEPT ![w].encoding[i] = x]
                 \/ held' = [held EXCEPT ![w].field[i] = x]
          PROVE  held'[w].elf = held[w].elf
      BY <1>1, <3>1 DEF IdsOf
    <3> QED
      BY <1>4, <3>1, StatementIds DEF Statement
  <2>4. BeforeElf(w)' <=> BeforeElf(w)
    BY <2>1 DEF BeforeElf
  <2> QED
    BY <2>2, <2>3, <2>4 DEF FirstElf
<1> QED
  BY <1>2, <1>3, <1>4

LEMMA OwnPassed ==
  ASSUME TypeOK, ErrorsAreFaults, NoneFailed, NoFailure, NoFailure',
         NEW w \in Writer, Running(w), Statement(w) \/ Return(w),
         NEW s \in Stages, NEW i \in Items(image[w], s), Passed(w, s, i)'
  PROVE  \/ Passed(w, s, i)
         \/ Statement(w) /\ At(w, s) /\ i = item[w]
         \/ s = "encodings" /\ SelectEncodings(w)
<1>1. ~ failed'[w]
  <2>1. failed' = failed
    BY NoFaultNow, StatementScope DEF Statement, NoFault, Return
  <2> QED
    BY <2>1 DEF NoneFailed
<1>2. Running(w)' /\ Step(w)
  <2>1. Step(w)
    BY DEF Statement, Step
  <2>2. pc'[w] \in Stages \cup {"done"}
    BY ReturnPlace, StatementPlace DEF TypeOK, ControlTypeOK, Running
  <2> QED
    BY <2>1, <2>2 DEF Running, Stages
<1>3. \/ Passed(w, s, i)
      \/ At(w, s) /\ i = item[w] /\ item'[w] = item[w] + 1
      \/ s = "encodings" /\ SelectEncodings(w)
  BY <1>1, <1>2, PassedStep
<1>4. CASE At(w, s) /\ item'[w] = item[w] + 1 /\ i = item[w]
  <2>1. ~ Return(w)
    <3>1. item[w] <= Loop(image[w])[pc[w]] /\ item[w] \in Nat /\ item[w] \in 1 .. Loop(image[w])[s]
      BY <1>4 DEF At, TypeOK, ControlTypeOK
    <3>2. ASSUME Return(w) PROVE FALSE
      <4>1. item[w] > Loop(image[w])[pc[w]]
        BY <3>2 DEF Return
      <4>2. Loop(image[w])[pc[w]] \in Nat
        BY <3>2, LoopType DEF Return, TypeOK, MemoryTypeOK
      <4> QED
        BY <3>1, <4>1, <4>2
    <3> QED
      BY <3>2
  <2> QED
    BY <1>4, <2>1
<1> QED
  BY <1>3, <1>4

\* The encodings are distinct, so that none of them clashes.
LEMMA FirstEncodingsStep ==
  ASSUME TypeOK, ErrorsAreFaults, NoneFailed, NoFailure, NoFailure',
         NEW w \in Writer, Running(w), Statement(w) \/ Return(w),
         FirstEncodings(w)
  PROVE  FirstEncodings(w)'
<1>1. /\ DOMAIN held = Writer /\ held[w] \in IdsOf(image[w]) /\ image[w] \in Images
      /\ item \in [Writer -> Nat \ {0}] /\ DOMAIN pc = Writer
      /\ DOMAIN found = Writer /\ "encodings" \in Tables
      /\ db["encodings"] \in Seq(RowOf["encodings"])
  BY TableNames DEF TypeOK, MemoryTypeOK, ControlTypeOK, FileTypeOK
<1>2. Items(image[w], "encodings") = DOMAIN Encodings /\ "encodings" \in Stages
  BY <1>1, ItemsAre DEF Stages
<1>9. \A k \in DOMAIN Encodings : k \in Nat \ {0}
  <2>1. Encodings \in Seq(STRING \ {""})
    BY EncodingsAssumption
  <2>2. DOMAIN Encodings = 1 .. Len(Encodings)
    BY <2>1, LenProperties
  <2> QED
    BY <2>2
<1>3. \A k \in DOMAIN Encodings : Passed(w, "encodings", k)' =>
        \/ Passed(w, "encodings", k)
        \/ Statement(w) /\ At(w, "encodings") /\ k = item[w]
        \/ SelectEncodings(w)
  BY <1>2, OwnPassed
<1>4. ~ SelectEncodings(w)
  BY DEF SelectEncodings, At, FirstEncodings
<1>5. CASE Return(w)
  <2>1. \A k \in DOMAIN Encodings : Passed(w, "encodings", k)' => Passed(w, "encodings", k)
    BY <1>3, <1>4, <1>5 DEF Return, Statement
  <2>2. /\ db' = db /\ held' = held /\ item'[w] = 1 /\ found'[w] = "unasked"
        /\ Rank[pc[w]] < Rank[pc'[w]]
        /\ Rank[pc[w]] \in Nat /\ Rank[pc'[w]] \in Nat
    BY <1>5, ReturnPlace, RankType
  <2>3. Rank[pc'[w]] < Rank["encodings"] \/ pc'[w] = "encodings" =>
          Rank[pc[w]] < Rank["encodings"]
    BY <2>2 DEF Rank
  <2>4. Rank[pc'[w]] < Rank["encodings"] \/ pc'[w] = "encodings" =>
          db["encodings"] = << >>
    BY <2>3 DEF FirstEncodings
  <2> QED
    BY <2>1, <2>2, <2>4 DEF FirstEncodings
<1>6. CASE CheckEncodings(w)
  <2>1. pc[w] = "encodings" /\ found[w] = "unasked" /\ item[w] = 1
    BY <1>6 DEF CheckEncodings, At, FirstEncodings
  <2>2. DOMAIN db["encodings"] = {}
    BY <1>9, <2>1 DEF FirstEncodings
  <2>3. found'[w] = "absent"
    BY <1>1, <1>6, <2>2, NoFaultNow DEF CheckEncodings, Count
  <2>4. pc' = pc /\ db' = db /\ held' = held /\ item' = item
    BY <1>6 DEF CheckEncodings
  <2>5. \A k : Passed(w, "encodings", k)' <=> Passed(w, "encodings", k)
    BY <2>4 DEF Passed, Running
  <2> QED
    BY <2>1, <2>3, <2>4, <2>5 DEF FirstEncodings
<1>7. CASE WriteEncoding(w)
  <2> DEFINE n == Encodings[item[w]]
             row == [encoding |-> n]
  <2>1. PICK res \in Results :
          /\ Insert(w, "encodings", row, res)
          /\ held' = IF res = "ok" /\ HasBranch(n)
                     THEN [held EXCEPT ![w].encoding[item[w]] = NextId("encodings")]
                     ELSE held
    BY <1>7 DEF WriteEncoding
  <2>2. /\ pc' = pc /\ item'[w] = item[w] + 1 /\ found' = found
        /\ pc[w] = "encodings" /\ found[w] = "absent"
        /\ item[w] \in DOMAIN Encodings
    BY <1>1, <1>2, <1>7 DEF WriteEncoding, Advance, At, Items
  <2>3. \A r \in DOMAIN db["encodings"] : db["encodings"][r].encoding # n
    <3> SUFFICES ASSUME NEW r \in DOMAIN db["encodings"] PROVE db["encodings"][r].encoding # n
      OBVIOUS
    <3>1. PICK k \in DOMAIN Encodings :
            k < item[w] /\ db["encodings"][r].encoding = Encodings[k]
      BY <2>2 DEF FirstEncodings
    <3>2. k # item[w]
      BY <1>1, <1>9, <3>1
    <3> QED
      BY <2>2, <3>1, <3>2, EncodingsAssumption
  <2>4. ~ Clashes("encodings", row)
    BY <2>3 DEF Clashes, Unique
  <2>5. res = "ok" /\ NextId("encodings") # 0
    BY <1>1, <2>1, <2>4, FreshInsert
  <2>6. \A r \in DOMAIN db'["encodings"] :
          \/ r \in DOMAIN db["encodings"] /\ db'["encodings"][r] = db["encodings"][r]
          \/ db'["encodings"][r] = row
    BY <1>1, <2>1, InsertRows DEF TypeOK
  <2>7. \A r \in DOMAIN db'["encodings"] : \E k \in DOMAIN Encodings :
          k < item[w] + 1 /\ db'["encodings"][r].encoding = Encodings[k]
    <3> SUFFICES ASSUME NEW r \in DOMAIN db'["encodings"]
                 PROVE  \E k \in DOMAIN Encodings :
                          /\ k < item[w] + 1
                          /\ db'["encodings"][r].encoding = Encodings[k]
      OBVIOUS
    <3>1. CASE r \in DOMAIN db["encodings"] /\ db'["encodings"][r] = db["encodings"][r]
      <4>1. PICK k \in DOMAIN Encodings :
              k < item[w] /\ db["encodings"][r].encoding = Encodings[k]
        BY <2>2, <3>1 DEF FirstEncodings
      <4>2. k < item[w] + 1
        BY <1>1, <1>9, <4>1
      <4> QED
        BY <3>1, <4>1, <4>2
    <3>2. CASE db'["encodings"][r] = row
      <4>1. item[w] < item[w] + 1
        BY <1>1
      <4> QED
        BY <2>2, <3>2, <4>1
    <3> QED
      BY <2>6, <3>1, <3>2
  <2>8. \A k \in DOMAIN Encodings : Passed(w, "encodings", k)' /\ HasBranch(Encodings[k]) =>
          held'[w].encoding[k] # Unset
    <3> SUFFICES ASSUME NEW k \in DOMAIN Encodings, Passed(w, "encodings", k)',
                        HasBranch(Encodings[k])
                 PROVE  held'[w].encoding[k] # Unset
      OBVIOUS
    <3>1. held[w].encoding \in [DOMAIN Encodings -> Nat]
      BY <1>1 DEF IdsOf
    <3>2. CASE k = item[w]
      <4>1. held'[w].encoding[k] = NextId("encodings")
        BY <1>1, <2>1, <2>5, <3>1, <3>2 DEF IdsOf
      <4> QED
        BY <2>5, <4>1 DEF Unset
    <3>3. CASE k # item[w]
      <4>1. Passed(w, "encodings", k)
        BY <1>3, <1>4, <3>3
      <4>2. held'[w].encoding[k] = held[w].encoding[k]
        BY <1>1, <2>1, <3>1, <3>3 DEF IdsOf
      <4> QED
        BY <4>1, <4>2 DEF FirstEncodings
    <3> QED
      BY <3>2, <3>3
  <2> QED
    BY <2>2, <2>7, <2>8 DEF FirstEncodings, Rank
<1>8. CASE Statement(w) /\ ~ CheckEncodings(w) /\ ~ WriteEncoding(w)
  <2>1. pc[w] # "encodings" /\ pc'[w] = pc[w]
    BY <1>4, <1>8, EncodingActions, StatementPlace DEF Statement
  <2>2. db'["encodings"] = db["encodings"]
    BY <1>8, TablesWritten DEF Statement
  <2>3. held'[w].encoding = held[w].encoding
    <3>1. ASSUME NEW x, \/ held' = [held EXCEPT ![w].elf = x]
                        \/ held' = [held EXCEPT ![w].artifact[item[w]] = x]
                        \/ held' = [held EXCEPT ![w].symbol[item[w]] = x]
                        \/ held' = [held EXCEPT ![w].field[item[w]] = x]
          PROVE  held'[w].encoding = held[w].encoding
      BY <1>1, <3>1 DEF IdsOf
    <3>2. \/ held' = held
          \/ \E x : \/ held' = [held EXCEPT ![w].elf = x]
                    \/ held' = [held EXCEPT ![w].artifact[item[w]] = x]
                    \/ held' = [held EXCEPT ![w].symbol[item[w]] = x]
                    \/ held' = [held EXCEPT ![w].field[item[w]] = x]
      <4>1. Step(w) /\ ~ Finish(w) /\ ~ FailToCreateTable(w)
        BY <1>8 DEF Statement
      <4> QED
        BY <1>4, <1>8, <4>1, StatementIds
    <3> QED
      BY <3>1, <3>2
  <2>4. \A k \in DOMAIN Encodings : Passed(w, "encodings", k)' => Passed(w, "encodings", k)
    BY <1>3, <1>4, <2>1 DEF At
  <2> QED
    BY <2>1, <2>2, <2>3, <2>4 DEF FirstEncodings
<1> QED
  BY <1>5, <1>6, <1>7, <1>8

\* A field that clashed would be one of the process itself, of the same symbol
\* and with the same name.
LEMMA FirstFieldsStep ==
  ASSUME TypeOK, ErrorsAreFaults, IdInv, StoreInv, NoneFailed, NoFailure, NoFailure',
         NEW w \in Writer, Running(w), Statement(w) \/ Return(w), FirstFields(w)
  PROVE  FirstFields(w)'
<1> DEFINE img == image[w]
           h == held[w]
<1>1. /\ DOMAIN held = Writer /\ h \in IdsOf(img) /\ img \in Images /\ IsImage(img)
      /\ item \in [Writer -> Nat \ {0}] /\ DOMAIN pc = Writer
      /\ "fields" \in Tables
  BY TableNames, ImageType DEF TypeOK, MemoryTypeOK, ControlTypeOK
<1>2. Items(img, "fields") = DOMAIN img.fields /\ "fields" \in Stages
  BY <1>1, ItemsAre DEF Stages
<1>3. \A k \in DOMAIN img.fields : k \in Nat
  <2>1. DOMAIN img.fields = 1 .. Len(img.fields)
    BY <1>1, LenProperties DEF IsImage
  <2> QED
    BY <2>1
<1>4. \A k \in DOMAIN img.fields : Passed(w, "fields", k)' =>
        \/ Passed(w, "fields", k)
        \/ Statement(w) /\ At(w, "fields") /\ k = item[w]
  BY <1>2, OwnPassed
<1>5. image'[w] = img
  BY ReturnPlace, StatementPlace
<1>6. \A k : HasDimensions(w, k)' <=> HasDimensions(w, k)
  BY <1>5 DEF HasDimensions
<1>7. CASE Return(w)
  <2>1. \A k \in DOMAIN img.fields : Passed(w, "fields", k)' => Passed(w, "fields", k)
    BY <1>4, <1>7 DEF Statement
  <2>2. /\ db' = db /\ held' = held
        /\ Rank[pc[w]] < Rank[pc'[w]]
        /\ Rank[pc[w]] \in Nat /\ Rank[pc'[w]] \in Nat
    BY <1>7, ReturnPlace, RankType
  <2>3. Rank[pc'[w]] < Rank["fields"] \/ pc'[w] = "fields" =>
          Rank[pc[w]] < Rank["fields"]
    BY <2>2 DEF Rank
  <2>4. Rank[pc'[w]] < Rank["fields"] \/ pc'[w] = "fields" => db["fields"] = << >>
    BY <2>3 DEF FirstFields
  <2> QED
    BY <1>5, <1>6, <2>1, <2>2, <2>4 DEF FirstFields
<1>8. CASE WriteField(w)
  <2> DEFINE f == img.fields[item[w]]
             row(s, t) == [symbol |-> s, name |-> f.name,
                           byte_offset |-> f.offset, type |-> t]
  <2>1. PICK res \in Results, s \in Read(h.symbol[f.symbol]),
             t \in Read(h.symbol[f.type]) :
          /\ Insert(w, "fields", row(s, t), res)
          /\ held' = IF res = "ok"
                     THEN [held EXCEPT ![w].field[item[w]] = NextId("fields")]
                     ELSE held
    BY <1>8 DEF WriteField
  <2>2. /\ pc' = pc /\ item'[w] = item[w] + 1
        /\ pc[w] = "fields" /\ item[w] \in DOMAIN img.fields
        /\ f.symbol \in DOMAIN img.symbols
    BY <1>1, <1>8, EntryType DEF WriteField, Advance, At, TypeOK
  <2>3. row(s, t).symbol = s /\ row(s, t).name = f.name
    OBVIOUS
  <2>4. (\A c \in {"symbol", "name"} : \A r :
           (r[c] = row(s, t)[c]) = (IF c = "symbol" THEN r.symbol = s ELSE r.name = f.name))
    OBVIOUS
  <2> HIDE DEF row
  <2>5. s = h.symbol[f.symbol]
    BY <2>1, <2>2, NamesRead
  <2>6. ASSUME HasDimensions(w, item[w])
        PROVE  \A r \in DOMAIN db["fields"] :
                 ~ (db["fields"][r].symbol = s /\ db["fields"][r].name = f.name)
    <3> SUFFICES ASSUME NEW r \in DOMAIN db["fields"],
                        db["fields"][r].symbol = s, db["fields"][r].name = f.name
                 PROVE  FALSE
      OBVIOUS
    <3>1. PICK k \in DOMAIN img.fields :
            /\ k < item[w]
            /\ db["fields"][r].name = img.fields[k].name
            /\ db["fields"][r].symbol = h.symbol[img.fields[k].symbol]
      BY <2>2 DEF FirstFields
    <3>2. img.fields[k].symbol \in DOMAIN img.symbols
      BY <1>1 DEF IsImage
    <3>3. Rank["symbols"] < Rank[pc[w]] /\ ~ failed[w]
      BY <2>2, PastSymbols DEF NoneFailed
    <3>4. img.symbols[img.fields[k].symbol].name = img.symbols[f.symbol].name
      <4>1. h.symbol[img.fields[k].symbol] = h.symbol[f.symbol]
        BY <2>5, <3>1
      <4>2. /\ db["symbols"][h.symbol[img.fields[k].symbol]].name =
                 img.symbols[img.fields[k].symbol].name
            /\ db["symbols"][h.symbol[f.symbol]].name = img.symbols[f.symbol].name
        BY <2>2, <3>2, <3>3, SymbolsHeld
      <4> QED
        BY <4>1, <4>2
    <3>5. img.fields[k].symbol = f.symbol
      BY <1>1, <2>2, <3>2, <3>4 DEF IsImage
    <3>6. k = item[w]
      BY <1>1, <2>2, <2>6, <3>1, <3>5 DEF IsImage, HasDimensions
    <3> QED
      BY <1>1, <3>1, <3>6
  <2>7. HasDimensions(w, item[w]) => ~ Clashes("fields", row(s, t))
    <3>1. Unique["fields"] = {"symbol", "name"}
      BY DEF Unique
    <3> QED
      BY <2>4, <2>6, <3>1 DEF Clashes
  <2>8. HasDimensions(w, item[w]) => res = "ok" /\ NextId("fields") # 0
    BY <1>1, <2>1, <2>7, FreshInsert
  <2>9. held'[w].symbol = h.symbol
    BY <1>1, <2>1 DEF IdsOf
  <2>10. \A r \in DOMAIN db'["fields"] :
           \/ r \in DOMAIN db["fields"] /\ db'["fields"][r] = db["fields"][r]
           \/ db'["fields"][r] = row(s, t)
    BY <1>1, <2>1, InsertRows DEF TypeOK
  <2>11. \A r \in DOMAIN db'["fields"] : \E k \in DOMAIN img.fields :
           /\ k < item[w] + 1
           /\ db'["fields"][r].name = img.fields[k].name
           /\ db'["fields"][r].symbol = h.symbol[img.fields[k].symbol]
    <3> SUFFICES ASSUME NEW r \in DOMAIN db'["fields"]
                 PROVE  \E k \in DOMAIN img.fields :
                          /\ k < item[w] + 1
                          /\ db'["fields"][r].name = img.fields[k].name
                          /\ db'["fields"][r].symbol = h.symbol[img.fields[k].symbol]
      OBVIOUS
    <3>1. CASE r \in DOMAIN db["fields"] /\ db'["fields"][r] = db["fields"][r]
      <4>1. PICK k \in DOMAIN img.fields :
              /\ k < item[w]
              /\ db["fields"][r].name = img.fields[k].name
              /\ db["fields"][r].symbol = h.symbol[img.fields[k].symbol]
        BY <2>2, <3>1 DEF FirstFields
      <4>2. k < item[w] + 1
        BY <1>1, <1>3, <4>1
      <4> QED
        BY <3>1, <4>1, <4>2
    <3>2. CASE db'["fields"][r] = row(s, t)
      <4>1. item[w] < item[w] + 1
        BY <1>1
      <4> QED
        BY <2>2, <2>3, <2>5, <3>2, <4>1
    <3> QED
      BY <2>10, <3>1, <3>2
  <2>12. \A k \in DOMAIN img.fields :
           Passed(w, "fields", k)' /\ HasDimensions(w, k) => held'[w].field[k] # 0
    <3> SUFFICES ASSUME NEW k \in DOMAIN img.fields,
                        Passed(w, "fields", k)', HasDimensions(w, k)
                 PROVE  held'[w].field[k] # 0
      OBVIOUS
    <3>1. /\ \/ held'[w].field = [h.field EXCEPT ![item[w]] = NextId("fields")]
             \/ res # "ok" /\ held'[w].field = h.field
          /\ h.field \in [DOMAIN img.fields -> Nat]
      BY <1>1, <2>1 DEF IdsOf
    <3>2. CASE k = item[w]
      BY <2>8, <3>1, <3>2
    <3>3. CASE k # item[w]
      BY <1>4, <3>1, <3>3 DEF FirstFields
    <3> QED
      BY <3>2, <3>3
  <2>13. ~ (Rank[pc'[w]] < Rank["fields"])
    BY <2>2 DEF Rank
  <2>14. \A r \in DOMAIN db'["fields"] : \E k \in DOMAIN img.fields :
           /\ k < item'[w]
           /\ db'["fields"][r].name = img.fields[k].name
           /\ db'["fields"][r].symbol = held'[w].symbol[img.fields[k].symbol]
    BY <2>2, <2>9, <2>11
  <2> QED
    BY <1>5, <1>6, <2>12, <2>13, <2>14, ZenonT(40) DEF FirstFields
<1>9. CASE Statement(w) /\ ~ WriteField(w)
  <2>1. pc[w] # "fields" /\ pc'[w] = pc[w]
    BY <1>9, FieldActions, StatementPlace
  <2>2. db'["fields"] = db["fields"]
    BY <1>9, TablesWritten DEF Statement
  <2>3. held'[w].field = h.field
    <3>1. ASSUME NEW x, \/ held' = [held EXCEPT ![w].elf = x]
                        \/ held' = [held EXCEPT ![w].artifact[item[w]] = x]
                        \/ held' = [held EXCEPT ![w].symbol[item[w]] = x]
                        \/ held' = [held EXCEPT ![w].encoding = x]
                        \/ held' = [held EXCEPT ![w].encoding[item[w]] = x]
          PROVE  held'[w].field = h.field
      BY <1>1, <3>1 DEF IdsOf
    <3>2. \/ held' = held
          \/ \E x : \/ held' = [held EXCEPT ![w].elf = x]
                    \/ held' = [held EXCEPT ![w].artifact[item[w]] = x]
                    \/ held' = [held EXCEPT ![w].symbol[item[w]] = x]
                    \/ held' = [held EXCEPT ![w].encoding = x]
                    \/ held' = [held EXCEPT ![w].encoding[item[w]] = x]
      <4>1. Step(w) /\ ~ Finish(w) /\ ~ FailToCreateTable(w)
        BY <1>9 DEF Statement
      <4> QED
        BY <1>9, <4>1, StatementIds
    <3> QED
      BY <3>1, <3>2
  <2>4. \A k \in DOMAIN img.fields : Passed(w, "fields", k)' => Passed(w, "fields", k)
    BY <1>4, <2>1 DEF At
  <2>5. \A k \in DOMAIN img.fields :
          Passed(w, "fields", k)' /\ HasDimensions(w, k) => held'[w].field[k] # 0
    BY <2>3, <2>4 DEF FirstFields
  <2>6. Rank[pc'[w]] < Rank["fields"] => db'["fields"] = << >>
    BY <2>1, <2>2 DEF FirstFields
  <2> QED
    BY <1>5, <1>6, <2>1, <2>5, <2>6 DEF FirstFields
<1> QED
  BY <1>7, <1>8, <1>9

\* UPDATE changes no column but the target.
LEMMA TargetColumns ==
  ASSUME TypeOK, NEW w, UpdateTarget(w), NEW c \in {"elf", "encoding", "artifact"},
         NEW t, Resolves("symbols", c, t), DOMAIN db[t] \subseteq DOMAIN db'[t]
  PROVE  Resolves("symbols", c, t)'
<1>1. /\ DOMAIN db = Tables /\ "symbols" \in Tables
      /\ \A r \in DOMAIN db["symbols"] : db["symbols"][r] \in RowOf["symbols"]
  BY TableNames DEF TypeOK, FileTypeOK
<1>2. CASE db' = db
  BY <1>2 DEF Resolves
<1>3. ASSUME NEW i \in DOMAIN db["symbols"], NEW x,
             db' = [db EXCEPT !["symbols"] = [@ EXCEPT ![i].target = x]]
      PROVE  Resolves("symbols", c, t)'
  <2>1. db'["symbols"] = [db["symbols"] EXCEPT ![i].target = x]
    BY <1>1, <1>3
  <2>2. \A r \in DOMAIN db["symbols"] : db'["symbols"][r][c] = db["symbols"][r][c]
    BY <1>1, <2>1 DEF RowOf
  <2> QED
    BY <2>1, <2>2 DEF Resolves
<1> QED
  BY <1>2, <1>3 DEF UpdateTarget, SetTarget

LEMMA ElfHeld ==
  ASSUME TypeOK, IdInv, NEW w \in Writer, Running(w), FirstElf(w),
         pc[w] \notin {"schema", "elf"}
  PROVE  held[w].elf \in DOMAIN db["elfs"]
BY DEF FirstElf, BeforeElf, IdInv, IdsName, ElfIdNames

\* What the first process stores refers to rows that are there.
LEMMA OtherReferencesStep ==
  ASSUME TypeOK, IdInv, StoreInv, NoneFailed, NEW w \in Writer, Running(w), Step(w),
         FirstElf(w), FirstEncodings(w), FirstFields(w), OtherReferences
  PROVE  OtherReferences'
<1> DEFINE h == held[w]
           img == image[w]
<1>1. \A t \in {"elfs", "fields", "encodings", "artifacts"} :
        DOMAIN db[t] \subseteq DOMAIN db'[t]
  BY StepsGrow, DomainsGrow, TableNames
<1>2. ASSUME NEW t \in Tables, Resolves(t, "elf", "elfs"), NEW row, NEW res,
             Insert(w, t, row, res), row["elf"] = h.elf,
             pc[w] \notin {"schema", "elf"}
      PROVE  Resolves(t, "elf", "elfs")'
  <2>1. row["elf"] \in DOMAIN db["elfs"]
    BY <1>2, ElfHeld
  <2> QED
    BY <1>1, <1>2, <2>1, ResolvesInsert
<1>3. Resolves("artifacts", "elf", "elfs")'
  <2>1. Resolves("artifacts", "elf", "elfs") /\ "artifacts" \in Tables
    BY TableNames DEF OtherReferences, ElfReferences
  <2>2. CASE InsertArtifact(w)
    <3>1. PICK row, res : Insert(w, "artifacts", row, res) /\ row["elf"] = h.elf
      BY <2>2 DEF InsertArtifact
    <3> QED
      BY <1>2, <2>1, <2>2, <3>1 DEF InsertArtifact, At
  <2> QED
    BY <1>1, <2>1, <2>2, ResolvesStays, TablesWritten
<1>4. Resolves("variables", "elf", "elfs")'
  <2>1. Resolves("variables", "elf", "elfs") /\ "variables" \in Tables
    BY TableNames DEF OtherReferences, ElfReferences
  <2>2. CASE WriteVariable(w)
    <3>1. PICK row, res : Insert(w, "variables", row, res) /\ row["elf"] = h.elf
      BY <2>2 DEF WriteVariable
    <3> QED
      BY <1>2, <2>1, <2>2, <3>1 DEF WriteVariable, At
  <2> QED
    BY <1>1, <2>1, <2>2, ResolvesStays, TablesWritten
<1>5. Resolves("elf_sections", "elf", "elfs")'
  <2>1. Resolves("elf_sections", "elf", "elfs") /\ "elf_sections" \in Tables
    BY TableNames DEF OtherReferences, ElfReferences
  <2>2. CASE WriteElfSection(w)
    <3>1. PICK row, res : Insert(w, "elf_sections", row, res) /\ row["elf"] = h.elf
      BY <2>2 DEF WriteElfSection
    <3> QED
      BY <1>2, <2>1, <2>2, <3>1 DEF WriteElfSection, At
  <2> QED
    BY <1>1, <2>1, <2>2, ResolvesStays, TablesWritten
<1>6. Resolves("elf_symbol_table", "elf", "elfs")'
  <2>1. Resolves("elf_symbol_table", "elf", "elfs") /\ "elf_symbol_table" \in Tables
    BY TableNames DEF OtherReferences, ElfReferences
  <2>2. CASE WriteElfSymbol(w)
    <3>1. PICK row, res : Insert(w, "elf_symbol_table", row, res) /\ row["elf"] = h.elf
      BY <2>2 DEF WriteElfSymbol
    <3> QED
      BY <1>2, <2>1, <2>2, <3>1 DEF WriteElfSymbol, At
  <2> QED
    BY <1>1, <2>1, <2>2, ResolvesStays, TablesWritten
<1>7. DimensionReferences'
  <2>1. Resolves("dimension_lists", "field_id", "fields") /\ "dimension_lists" \in Tables
    BY TableNames DEF OtherReferences, DimensionReferences
  <2>2. CASE WriteDimension(w)
    <3> DEFINE k == img.dims[item[w]].field
    <3>1. pc[w] = "dimensions" /\ k \in DOMAIN img.fields
      BY <2>2, EntryType DEF WriteDimension, At, TypeOK
    <3>2. Passed(w, "fields", k)
      BY <3>1 DEF Passed, Rank
    <3>3. h.field[k] \in DOMAIN db["fields"]
      <4>1. item[w] \in DOMAIN img.dims
        BY <2>2, ItemsAre DEF WriteDimension, At, Items, TypeOK, MemoryTypeOK
      <4>2. HasDimensions(w, k)
        BY <4>1 DEF HasDimensions
      <4> QED
        BY <3>1, <3>2, <4>2 DEF FirstFields, IdInv, IdsName, FieldIdsName
    <3>4. PICK row, res : /\ Insert(w, "dimension_lists", row, res)
                          /\ row["field_id"] = h.field[k]
      <4> DEFINE x == img.dims[item[w]]
                 row == [field_id |-> h.field[k], dim_order |-> x.order,
                         upper_bound |-> x.upper_bound]
      <4>1. \E res : Insert(w, "dimension_lists", row, res)
        BY <2>2 DEF WriteDimension
      <4>2. row["field_id"] = h.field[k]
        OBVIOUS
      <4> HIDE DEF row
      <4> QED
        BY <4>1, <4>2
    <3>5. Resolves("dimension_lists", "field_id", "fields")'
      BY <1>1, <2>1, <3>3, <3>4, ResolvesInsert
    <3> QED
      BY <3>5 DEF DimensionReferences
  <2>3. CASE db'["dimension_lists"] = db["dimension_lists"]
    <3>1. Resolves("dimension_lists", "field_id", "fields")'
      BY <1>1, <2>1, <2>3, ResolvesStays
    <3> QED
      BY <3>1 DEF DimensionReferences
  <2> QED
    BY <2>2, <2>3, TablesWritten
<1>8. ASSUME InsertSymbol(w)
      PROVE  /\ Resolves("symbols", "elf", "elfs") => Resolves("symbols", "elf", "elfs")'
             /\ AllHaveBranches /\ Resolves("symbols", "encoding", "encodings") =>
                  Resolves("symbols", "encoding", "encodings")'
             /\ Resolves("symbols", "artifact", "artifacts") =>
                  Resolves("symbols", "artifact", "artifacts")'
  <2> DEFINE i == item[w]
             s == img.symbols[i]
             row(e, a) ==
               [elf |-> h.elf, name |-> s.name, byte_size |-> s.byte_size,
                encoding |-> e, artifact |-> a, target |-> Null]
  <2>1. /\ pc[w] = "symbols" /\ i \in DOMAIN img.symbols /\ img \in Images
        /\ IsImage(img) /\ ~ failed[w] /\ "symbols" \in Tables
    BY <1>8, EntryType, ImageType, TableNames
    DEF InsertSymbol, At, TypeOK, MemoryTypeOK, NoneFailed
  <2>2. PICK res \in Results, e \in EncodingIds(w, s), a \in Read(h.artifact[i]) :
          Insert(w, "symbols", row(e, a), res)
    BY <1>8 DEF InsertSymbol
  <2>3. /\ row(e, a)["elf"] = h.elf /\ row(e, a)["encoding"] = e
        /\ row(e, a)["artifact"] = a
    OBVIOUS
  <2> HIDE DEF row
  <2>4. Resolves("symbols", "elf", "elfs") => Resolves("symbols", "elf", "elfs")'
    BY <1>2, <2>1, <2>2, <2>3
  <2>5. a \in DOMAIN db["artifacts"]
    <3>1. Passed(w, "artifacts", i)
      BY <2>1 DEF Passed, Rank
    <3>2. h.artifact[i] # Unset
      <4>1. i \in Items(img, "artifacts") /\ "artifacts" \in Stages
        BY <2>1, ItemsAre DEF Stages
      <4> QED
        BY <2>1, <3>1, <4>1 DEF StoreInv, ItemStored
    <3>3. a = h.artifact[i]
      BY <2>2, <3>2 DEF Read
    <3> QED
      BY <2>1, <3>2, <3>3 DEF IdInv, IdsName, ArtifactIdsName
  <2>6. AllHaveBranches => e \in DOMAIN db["encodings"] \cup {Null}
    <3> SUFFICES ASSUME AllHaveBranches, e # Null
                 PROVE  e \in DOMAIN db["encodings"]
      OBVIOUS
    <3>1. PICK k \in DOMAIN Encodings : e \in Read(h.encoding[k])
      BY <2>2 DEF EncodingIds
    <3>2. Passed(w, "encodings", k)
      BY <2>1 DEF Passed, Rank
    <3>3. h.encoding[k] # Unset
      BY <3>2 DEF FirstEncodings, AllHaveBranches
    <3>4. e = h.encoding[k]
      BY <3>1, <3>3 DEF Read
    <3> QED
      BY <3>3, <3>4 DEF IdInv, IdsName, EncodingIdsName
  <2> QED
    BY <1>1, <2>1, <2>2, <2>3, <2>4, <2>5, <2>6, ResolvesInsert
<1>9. /\ Resolves("symbols", "elf", "elfs")'
      /\ AllHaveBranches => Resolves("symbols", "encoding", "encodings")'
      /\ Resolves("symbols", "artifact", "artifacts")'
  <2>1. /\ Resolves("symbols", "elf", "elfs")
        /\ AllHaveBranches => Resolves("symbols", "encoding", "encodings")
        /\ Resolves("symbols", "artifact", "artifacts")
    BY DEF OtherReferences, ElfReferences, EncodingReferences
  <2>2. CASE InsertSymbol(w)
    BY <1>8, <2>1, <2>2
  <2>3. CASE UpdateTarget(w)
    BY <1>1, <2>1, <2>3, TargetColumns
  <2>4. CASE db'["symbols"] = db["symbols"]
    BY <1>1, <2>1, <2>4, ResolvesStays
  <2> QED
    BY <2>2, <2>3, <2>4, TablesWritten
<1> QED
  BY <1>3, <1>4, <1>5, <1>6, <1>7, <1>9
  DEF OtherReferences, ElfReferences, EncodingReferences, AllHaveBranches

\* How a step moves the counters.
LEMMA Counters ==
  ASSUME TypeOK, [Next]_vars
  PROVE  /\ runs \in Nat /\ faults \in Nat
         /\ runs' = runs \/ (runs' = runs + 1 /\ \E w \in Writer : Start(w))
         /\ faults' = faults \/ faults' = faults + 1
<1>1. runs \in Nat /\ faults \in Nat
  BY BoundsAssumption DEF TypeOK, BoundsTypeOK
<1>2. CASE UNCHANGED vars \/ Quiet
  BY <1>1, <1>2 DEF vars, Quiet
<1>3. ASSUME NEW w \in Writer, Start(w) \/ Step(w) \/ Crash(w)
      PROVE  /\ runs' = runs \/ (runs' = runs + 1 /\ Start(w))
             /\ faults' = faults \/ faults' = faults + 1
  <2>1. CASE \/ Start(w) \/ Crash(w) \/ Finish(w) \/ FailToCreateTable(w)
             \/ Return(w)
    BY <2>1 DEF Start, Crash, Finish, Exit, FailToCreateTable, Return
  <2>2. CASE Statement(w)
    BY <2>2, StatementScope DEF Statement, NoFault, Fault
  <2> QED
    BY <1>3, <2>1, <2>2 DEF Statement
<1> QED
  BY <1>1, <1>2, <1>3 DEF Next

LEMMA StartFirst ==
  ASSUME TypeOK, NEW w \in Writer, Start(w), \A t \in Tables : db[t] = << >>
  PROVE  FirstElf(w)' /\ FirstEncodings(w)' /\ FirstFields(w)'
<1>1. pc'[w] = "schema" /\ db' = db
  BY DEF Start, Begin, TypeOK, ControlTypeOK
<1>2. /\ db["elfs"] = << >> /\ db["encodings"] = << >> /\ db["fields"] = << >>
  BY TableNames
<1>3. image'[w] \in Images
  BY DEF Start, Begin, TypeOK, MemoryTypeOK
<1>4. /\ \A k \in DOMAIN Encodings : ~ Passed(w, "encodings", k)'
      /\ \A k \in DOMAIN image'[w].fields : ~ Passed(w, "fields", k)'
  <2>1. Rank["schema"] < Rank["encodings"] /\ Rank["schema"] < Rank["fields"]
    BY DEF Rank
  <2> QED
    BY <1>1, <2>1 DEF Passed, Rank
<1>5. FirstElf(w)'
  BY <1>1, <1>2 DEF FirstElf, BeforeElf
<1>6. FirstEncodings(w)'
  BY <1>1, <1>2, <1>4 DEF FirstEncodings
<1>7. FirstFields(w)'
  BY <1>1, <1>2, <1>4 DEF FirstFields
<1> QED
  BY <1>5, <1>6, <1>7

LEMMA NextFirst ==
  ASSUME NoColumnNames
  PROVE  TypeOK /\ ErrorsAreFaults /\ IdInv /\ FirstInv /\ [Next]_vars => FirstInv'
<1> SUFFICES ASSUME TypeOK, ErrorsAreFaults, IdInv, FirstInv, [Next]_vars,
                    runs' <= 1, faults' = 0
             PROVE  FirstRun'
  BY DEF FirstInv
<1>1. /\ runs <= 1 /\ faults = 0
      /\ \A w \in Writer : Start(w) => runs = 0
  <2>1. \A w \in Writer : Start(w) => runs' = runs + 1
    BY DEF Start
  <2> QED
    BY <2>1, Counters
<1>2. FirstRun /\ NoFailure /\ NoFailure'
  BY <1>1 DEF FirstInv, NoFailure
<1>3. ASSUME NEW v \in Writer, Running(v)', ~ Start(v) PROVE Running(v)
  <2>1. CASE UNCHANGED vars \/ Quiet
    BY <1>3, <2>1 DEF vars, Quiet, Running
  <2>2. CASE Step(v) \/ Crash(v)
    BY <2>2, StepRuns DEF Crash, Running
  <2>3. ASSUME NEW x \in Writer \ {v}, Start(x) \/ Step(x) \/ Crash(x)
        PROVE  Running(v)
    BY <1>3, <2>3, OthersKeep DEF SameProcess, Running
  <2> QED
    BY <1>3, <2>1, <2>2, <2>3 DEF Next
<1>4. Alone'
  <2> SUFFICES ASSUME NEW v \in Writer, NEW x \in Writer, Running(v)', Running(x)'
               PROVE  v = x
    BY DEF Alone
  <2>1. CASE Start(v) \/ Start(x)
    <3>1. \A y \in Writer : ~ Running(y)
      BY <1>1, <1>2, <2>1 DEF FirstRun
    <3>2. Start(v) /\ Start(x)
      BY <1>3, <3>1
    <3>3. ASSUME v # x PROVE FALSE
      <4>1. SameProcess(x)
        BY <3>2, <3>3, OthersKeep
      <4> QED
        BY <3>1, <4>1 DEF SameProcess, Running
    <3> QED
      BY <3>3
  <2>2. CASE ~ Start(v) /\ ~ Start(x)
    BY <1>2, <1>3, <2>2 DEF FirstRun, Alone
  <2> QED
    BY <2>1, <2>2
<1>5. NoneFailed' /\ StoreInv' /\ RefsResolve'
  BY <1>2, <1>4, NextNoneFailed, NextStore, NextResolves DEF FirstRun
<1>6. OtherReferences'
  <2>1. OtherReferences
    BY <1>2 DEF FirstRun
  <2>2. CASE db' = db
    BY <2>1, <2>2 DEF OtherReferences, ElfReferences, DimensionReferences,
       EncodingReferences, Resolves, AllHaveBranches
  <2>3. ASSUME NEW w \in Writer, Step(w) PROVE OtherReferences'
    <3>1. Running(w)
      BY <2>3, StepRuns
    <3> QED
      BY <1>2, <2>1, <2>3, <3>1, OtherReferencesStep DEF FirstRun
  <2>4. db' = db \/ \E w \in Writer : Step(w)
    BY DEF Next, Quiet, vars, Start, Crash, Exit
  <2> QED
    BY <2>2, <2>3, <2>4
<1>7. ASSUME runs' = 0
      PROVE  /\ \A t \in Tables : db'[t] = << >>
             /\ \A w \in Writer : ~ Running(w)'
  <2>1. runs = 0
    BY <1>7, Counters
  <2>2. /\ \A t \in Tables : db[t] = << >>
        /\ \A w \in Writer : ~ Running(w)
    BY <1>2, <2>1 DEF FirstRun
  <2>3. ASSUME NEW w \in Writer PROVE ~ Start(w) /\ ~ Step(w) /\ ~ Crash(w)
    <3>1. ~ Start(w)
      BY <1>7, <2>1 DEF Start
    <3> QED
      BY <2>2, <3>1, StepRuns DEF Crash, Running
  <2>4. db' = db /\ pc' = pc
    BY <2>3 DEF Next, Quiet, vars
  <2> QED
    BY <2>2, <2>4 DEF Running
<1>8. ASSUME NEW w \in Writer, Running(w)'
      PROVE  FirstElf(w)' /\ FirstEncodings(w)' /\ FirstFields(w)'
  <2>1. Start(w) \/ Step(w) \/ UNCHANGED vars
    BY <1>2, <1>4, <1>8, OwnStep DEF FirstRun
  <2>2. CASE Start(w)
    BY <1>1, <1>2, <2>2, StartFirst DEF FirstRun
  <2>3. Running(w) => FirstElf(w) /\ FirstEncodings(w) /\ FirstFields(w)
    BY <1>2 DEF FirstRun
  <2>4. CASE Step(w)
    <3>1. Running(w)
      BY <2>4, StepRuns
    <3>2. Statement(w) \/ Return(w)
      <4>1. ~ Finish(w) /\ ~ FailToCreateTable(w)
        BY <1>8 DEF Finish, FailToCreateTable, Exit, Begin, TypeOK,
           ControlTypeOK, Running
      <4> QED
        BY <2>4, <4>1 DEF Statement
    <3>3. NoneFailed /\ StoreInv
      BY <1>2 DEF FirstRun
    <3> QED
      BY <1>2, <2>3, <3>1, <3>2, <3>3, FirstElfStep, FirstEncodingsStep,
         FirstFieldsStep
  <2>5. CASE UNCHANGED vars
    <3>1. Running(w)
      BY <1>8, <2>5 DEF vars, Running
    <3>2. FirstElf(w)'
      BY <2>3, <2>5, <3>1 DEF vars, FirstElf, BeforeElf
    <3>3. \A s, i : Passed(w, s, i)' <=> Passed(w, s, i)
      BY <2>5 DEF vars, Passed, Running
    <3>4. FirstEncodings(w)'
      BY <2>3, <2>5, <3>1, <3>3 DEF vars, FirstEncodings
    <3>5. FirstFields(w)'
      BY <2>3, <2>5, <3>1, <3>3 DEF vars, FirstFields, HasDimensions
    <3> QED
      BY <3>2, <3>4, <3>5
  <2> QED
    BY <2>1, <2>2, <2>4, <2>5
<1> QED
  BY <1>4, <1>5, <1>6, <1>7, <1>8 DEF FirstRun

\* The first process on an empty file leaves no dangling reference at any
\* moment, wherever it is killed.
THEOREM FirstRunsReferences ==
  ASSUME NoColumnNames PROVE Spec => []FirstRunReferences
<1>1. Init => ErrorsAreFaults
  BY DEF Init, ErrorsAreFaults, OK, ERROR
<1>2. Init => IdInv
  BY DEF Init, IdInv, Running, BeforeFields, NoFieldIds
<1>3. Init => FirstInv
  <2> SUFFICES ASSUME Init PROVE FirstRun
    BY DEF FirstInv
  <2>1. /\ \A t \in Tables : db[t] = << >>
        /\ \A w \in Writer : ~ Running(w)
    BY DEF Init, Running
  <2>2. Alone /\ NoneFailed /\ StoreInv
    BY <2>1 DEF Init, Alone, NoneFailed, StoreInv
  <2>3. ASSUME NEW t \in Tables, NEW c, NEW u PROVE Resolves(t, c, u)
    BY <2>1 DEF Resolves
  <2>4. RefsResolve /\ OtherReferences
    BY <2>3, TableNames DEF RefsResolve, OtherReferences, ElfReferences,
       DimensionReferences, EncodingReferences
  <2> QED
    BY <2>1, <2>2, <2>4 DEF FirstRun
<1>4. FirstInv => FirstRunReferences
  BY DEF FirstInv, FirstRun, FirstRunReferences, OtherReferences, RefsResolve,
     AllHaveBranches
<1> QED
  BY <1>1, <1>2, <1>3, <1>4, TypeCorrect, NextErrors, NextIds, NextFirst, PTL
  DEF Spec
=============================================================================
