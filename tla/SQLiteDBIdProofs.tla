-------------------------- MODULE SQLiteDBIdProofs --------------------------
(***************************************************************************)
(* The ids a process holds in memory are the ids of the right rows, for    *)
(* every number of processes that write to the file at the same time.      *)
(***************************************************************************)
EXTENDS SQLiteDBProofs

-----------------------------------------------------------------------------
(* The file only grows.                                                    *)

\* File e has every row of file d under the same id; of a symbol's row only
\* the name is sure to be the same.
Grows(d, e) ==
  /\ \A t \in Tables \ {"symbols"} : \A i \in DOMAIN d[t] :
       i \in DOMAIN e[t] /\ e[t][i] = d[t][i]
  /\ \A i \in DOMAIN d["symbols"] :
       /\ i \in DOMAIN e["symbols"]
       /\ e["symbols"][i].name = d["symbols"][i].name

LEMMA AppendKeeps ==
  ASSUME NEW S, NEW s \in Seq(S), NEW x
  PROVE  /\ Len(s) + 1 \in DOMAIN Append(s, x)
         /\ Append(s, x)[Len(s) + 1] = x
         /\ \A i \in DOMAIN s : i \in DOMAIN Append(s, x) /\ Append(s, x)[i] = s[i]
<1>1. s \in Seq(S \cup {x}) /\ x \in S \cup {x}
  OBVIOUS
<1> QED
  BY <1>1, AppendProperties, LenProperties

\* An INSERT that succeeds adds its row under the next id, and no INSERT
\* touches another row.
LEMMA InsertGrows ==
  ASSUME FileTypeOK, NEW w, NEW t \in Tables, NEW row, NEW res,
         Insert(w, t, row, res)
  PROVE  /\ Grows(db, db')
         /\ res = "ok" => /\ NextId(t) \in DOMAIN db'[t]
                          /\ db'[t][NextId(t)] = row
<1>1. CASE db' = db /\ res # "ok"
  BY <1>1 DEF Grows
<1>2. CASE db' = [db EXCEPT ![t] = Append(@, row)] /\ res = "ok"
  <2>1. db[t] \in Seq(RowOf[t]) /\ DOMAIN db = Tables
    BY DEF FileTypeOK
  <2>2. db'[t] = Append(db[t], row) /\ \A u \in Tables \ {t} : db'[u] = db[u]
    BY <1>2, <2>1
  <2>3. /\ NextId(t) \in DOMAIN db'[t] /\ db'[t][NextId(t)] = row
        /\ \A i \in DOMAIN db[t] : i \in DOMAIN db'[t] /\ db'[t][i] = db[t][i]
    BY <2>1, <2>2, AppendKeeps DEF NextId
  <2>4. \A u \in Tables : \A i \in DOMAIN db[u] :
          i \in DOMAIN db'[u] /\ db'[u][i] = db[u][i]
    BY <2>2, <2>3
  <2>5. "symbols" \in Tables
    BY TableNames
  <2> QED
    BY <2>3, <2>4, <2>5 DEF Grows
<1> QED
  BY <1>1, <1>2 DEF Insert

LEMMA UnchangedGrows == ASSUME db' = db PROVE Grows(db, db')
BY DEF Grows

\* UPDATE symbols keeps every name.
LEMMA SetTargetGrows ==
  ASSUME FileTypeOK, NEW i, NEW x, SetTarget(i, x) PROVE Grows(db, db')
<1>1. "symbols" \in Tables /\ DOMAIN db = Tables
      /\ db["symbols"] \in Seq(RowOf["symbols"])
  BY TableNames DEF FileTypeOK
<1>2. CASE db' = db
  BY <1>2, UnchangedGrows
<1>3. CASE /\ i \in DOMAIN db["symbols"]
           /\ db' = [db EXCEPT !["symbols"] = [@ EXCEPT ![i].target = x]]
  <2>1. db'["symbols"] = [db["symbols"] EXCEPT ![i].target = x]
    BY <1>1, <1>3
  <2>2. \A t \in Tables \ {"symbols"} : db'[t] = db[t]
    BY <1>1, <1>3
  <2>3. \A j \in DOMAIN db["symbols"] : db["symbols"][j] \in RowOf["symbols"]
    BY <1>1, SeqElement
  <2>4. \A j \in DOMAIN db["symbols"] :
          /\ j \in DOMAIN db'["symbols"]
          /\ db'["symbols"][j].name = db["symbols"][j].name
    BY <2>1, <2>3 DEF RowOf
  <2> QED
    BY <2>2, <2>4 DEF Grows
<1> QED
  BY <1>2, <1>3 DEF SetTarget

-----------------------------------------------------------------------------
(* Ids in memory and the file.                                             *)

IdsName(d, img, h) ==
  /\ ElfIdNames(d, img, h)
  /\ ArtifactIdsName(d, img, h)
  /\ SymbolIdsName(d, img, h)
  /\ EncodingIdsName(d, h)
  /\ FieldIdsName(d, img, h)

NoFieldIds(img, h) == \A k \in DOMAIN img.fields : h.field[k] = 0

\* Up to here no field has an id.
BeforeFields ==
  { "schema", "elf", "elf_again", "artifacts", "macros", "encodings",
    "symbols", "targets" }

\* The inductive strengthening of HeldIdsNameTheirRows: the row of a field
\* was built from ids of symbols that have not changed since, because all
\* symbols come before all fields.
IdInv ==
  \A w \in Writer :
    /\ Running(w) => IdsName(db, image[w], held[w])
    /\ pc[w] \in BeforeFields => NoFieldIds(image[w], held[w])

LEMMA FreshIds ==
  ASSUME NEW img \in Images, NEW d
  PROVE  IdsName(d, img, NoIds(img)) /\ NoFieldIds(img, NoIds(img))
BY DEF IdsName, NoIds, NoFieldIds, ElfIdNames, ArtifactIdsName, SymbolIdsName,
       EncodingIdsName, FieldIdsName

LEMMA IdsSurvive ==
  ASSUME NEW d, NEW e, Grows(d, e), NEW img, NEW h, IdsName(d, img, h)
  PROVE  IdsName(e, img, h)
<1>1. \A t \in {"elfs", "artifacts", "encodings", "fields"} :
        \A i \in DOMAIN d[t] : i \in DOMAIN e[t] /\ e[t][i] = d[t][i]
  BY TableNames DEF Grows
<1>2. ElfIdNames(e, img, h)
  BY <1>1 DEF IdsName, ElfIdNames
<1>3. ArtifactIdsName(e, img, h)
  BY <1>1 DEF IdsName, ArtifactIdsName
<1>4. SymbolIdsName(e, img, h)
  BY DEF IdsName, SymbolIdsName, Grows
<1>5. EncodingIdsName(e, h)
  BY <1>1 DEF IdsName, EncodingIdsName
<1>6. FieldIdsName(e, img, h)
  BY <1>1 DEF IdsName, FieldIdsName
<1> QED
  BY <1>2, <1>3, <1>4, <1>5, <1>6 DEF IdsName

\* One id member is set, to the id of the right row.
LEMMA SetElfId ==
  ASSUME NEW d, NEW img \in Images, NEW h \in IdsOf(img), IdsName(d, img, h),
         NEW id \in DOMAIN d["elfs"], d["elfs"][id].name = img.path
  PROVE  IdsName(d, img, [h EXCEPT !.elf = id])
BY DEF IdsName, IdsOf, ElfIdNames, ArtifactIdsName, SymbolIdsName,
       EncodingIdsName, FieldIdsName

LEMMA SetArtifactId ==
  ASSUME NEW d, NEW img \in Images, NEW h \in IdsOf(img), IdsName(d, img, h),
         NEW i \in DOMAIN img.symbols, NEW id \in DOMAIN d["artifacts"],
         d["artifacts"][id].path = img.symbols[i].source
  PROVE  IdsName(d, img, [h EXCEPT !.artifact[i] = id])
<1> DEFINE g == [h EXCEPT !.artifact[i] = id]
<1>1. /\ g.elf = h.elf /\ g.symbol = h.symbol /\ g.encoding = h.encoding
      /\ g.field = h.field /\ g.artifact = [h.artifact EXCEPT ![i] = id]
  BY DEF IdsOf
<1> HIDE DEF g
<1>2. ArtifactIdsName(d, img, g)
  BY <1>1 DEF IdsName, IdsOf, ArtifactIdsName
<1> QED
  BY <1>1, <1>2 DEF IdsName, ElfIdNames, SymbolIdsName, EncodingIdsName,
     FieldIdsName, g

LEMMA SetSymbolId ==
  ASSUME NEW d, NEW img \in Images, NEW h \in IdsOf(img), IdsName(d, img, h),
         NoFieldIds(img, h),
         NEW i \in DOMAIN img.symbols, NEW id \in DOMAIN d["symbols"],
         d["symbols"][id].name = img.symbols[i].name
  PROVE  /\ IdsName(d, img, [h EXCEPT !.symbol[i] = id])
         /\ NoFieldIds(img, [h EXCEPT !.symbol[i] = id])
<1> DEFINE g == [h EXCEPT !.symbol[i] = id]
<1>1. /\ g.elf = h.elf /\ g.artifact = h.artifact /\ g.encoding = h.encoding
      /\ g.field = h.field /\ g.symbol = [h.symbol EXCEPT ![i] = id]
  BY DEF IdsOf
<1> HIDE DEF g
<1>2. SymbolIdsName(d, img, g)
  BY <1>1 DEF IdsName, IdsOf, SymbolIdsName
<1>3. NoFieldIds(img, g) /\ FieldIdsName(d, img, g)
  BY <1>1 DEF NoFieldIds, FieldIdsName
<1> QED
  BY <1>1, <1>2, <1>3
  DEF IdsName, ElfIdNames, ArtifactIdsName, EncodingIdsName, g

LEMMA SetEncodingIds ==
  ASSUME NEW d, NEW img \in Images, NEW h \in IdsOf(img), IdsName(d, img, h),
         NEW E,
         \A k \in DOMAIN Encodings : E[k] # h.encoding[k] =>
            /\ E[k] \in DOMAIN d["encodings"]
            /\ d["encodings"][E[k]].encoding = Encodings[k]
  PROVE  IdsName(d, img, [h EXCEPT !.encoding = E])
<1> DEFINE g == [h EXCEPT !.encoding = E]
<1>1. /\ g.elf = h.elf /\ g.artifact = h.artifact /\ g.encoding = E
      /\ g.field = h.field /\ g.symbol = h.symbol
  BY DEF IdsOf
<1> HIDE DEF g
<1>2. EncodingIdsName(d, g)
  BY <1>1 DEF IdsName, EncodingIdsName
<1> QED
  BY <1>1, <1>2
  DEF IdsName, ElfIdNames, ArtifactIdsName, SymbolIdsName, FieldIdsName, g

LEMMA SetFieldId ==
  ASSUME NEW d, NEW img \in Images, NEW h \in IdsOf(img), IdsName(d, img, h),
         NEW k \in DOMAIN img.fields, NEW id \in DOMAIN d["fields"],
         d["fields"][id].name = img.fields[k].name,
         d["fields"][id].symbol \in Read(h.symbol[img.fields[k].symbol]),
         d["fields"][id].type \in Read(h.symbol[img.fields[k].type])
  PROVE  IdsName(d, img, [h EXCEPT !.field[k] = id])
<1> DEFINE g == [h EXCEPT !.field[k] = id]
<1>1. /\ g.elf = h.elf /\ g.artifact = h.artifact /\ g.encoding = h.encoding
      /\ g.symbol = h.symbol /\ g.field = [h.field EXCEPT ![k] = id]
  BY DEF IdsOf
<1> HIDE DEF g
<1>2. FieldIdsName(d, img, g)
  BY <1>1 DEF IdsName, IdsOf, FieldIdsName
<1> QED
  BY <1>1, <1>2
  DEF IdsName, ElfIdNames, ArtifactIdsName, SymbolIdsName, EncodingIdsName, g

-----------------------------------------------------------------------------
(* Steps.                                                                  *)

\* A statement of w inside a loop that sets no id.
LEMMA KeepIds ==
  ASSUME IdInv, Grows(db, db'), pc' = pc, image' = image, held' = held
  PROVE  IdInv'
BY IdsSurvive DEF IdInv, Running

\* A statement of w inside a loop that turns its ids into h.
LEMMA NewIds ==
  ASSUME TypeOK, IdInv, NEW w \in Writer, Grows(db, db'), pc' = pc, image' = image,
         NEW h, held' = [held EXCEPT ![w] = h],
         IdsName(db', image[w], h),
         pc[w] \in BeforeFields => NoFieldIds(image[w], h)
  PROVE  IdInv'
<1>1. held'[w] = h /\ \A v \in Writer \ {w} : held'[v] = held[v]
  BY DEF TypeOK, MemoryTypeOK
<1> SUFFICES ASSUME NEW v \in Writer
             PROVE  /\ Running(v)' => IdsName(db', image[v], held'[v])
                    /\ pc[v] \in BeforeFields => NoFieldIds(image[v], held'[v])
  BY DEF IdInv
<1>2. CASE v = w
  BY <1>1, <1>2
<1>3. CASE v # w
  BY <1>1, <1>3, IdsSurvive DEF IdInv, Running
<1> QED
  BY <1>2, <1>3

\* What holds of a process in a loop.
LEMMA LoopIds ==
  ASSUME TypeOK, IdInv, NEW w \in Writer, NEW s \in Stages, At(w, s)
  PROVE  /\ image[w] \in Images /\ held[w] \in IdsOf(image[w])
         /\ pc[w] = s /\ IdsName(db, image[w], held[w])
         /\ s \in BeforeFields => NoFieldIds(image[w], held[w])
<1>1. pc[w] = s /\ s # "idle"
  BY DEF At, Stages
<1> QED
  BY <1>1 DEF TypeOK, MemoryTypeOK, IdInv, Running

LEMMA ElfIds ==
  ASSUME TypeOK, IdInv, NEW w \in Writer, WriteElf(w) PROVE IdInv'
<1> DEFINE row == [name |-> image[w].path, md5 |-> image[w].md5]
<1>1. PICK s \in {"elf", "elf_again"} : At(w, s)
  BY DEF WriteElf
<1>2. /\ image[w] \in Images /\ held[w] \in IdsOf(image[w]) /\ pc[w] = s
      /\ IdsName(db, image[w], held[w]) /\ NoFieldIds(image[w], held[w])
  BY <1>1, LoopIds DEF Stages, BeforeFields
<1>3. "elfs" \in Tables
  BY TableNames
<1>4. PICK res \in Results :
        /\ Insert(w, "elfs", row, res)
        /\ held' = IF res = "ok" THEN [held EXCEPT ![w].elf = NextId("elfs")]
                   ELSE held
  BY DEF WriteElf
<1> HIDE DEF row
<1>5. Grows(db, db') /\ pc' = pc /\ image' = image
  BY <1>3, <1>4, InsertGrows DEF TypeOK, WriteElf, Advance
<1>6. CASE res = "ok"
  <2>1. NextId("elfs") \in DOMAIN db'["elfs"] /\ db'["elfs"][NextId("elfs")] = row
    BY <1>3, <1>4, <1>6, InsertGrows DEF TypeOK
  <2>2. IdsName(db', image[w], held[w])
    BY <1>2, <1>5, IdsSurvive
  <2>3. IdsName(db', image[w], [held[w] EXCEPT !.elf = NextId("elfs")])
    BY <1>2, <2>1, <2>2, SetElfId DEF row
  <2>4. NoFieldIds(image[w], [held[w] EXCEPT !.elf = NextId("elfs")])
    BY <1>2 DEF NoFieldIds, IdsOf
  <2> QED
    BY <1>4, <1>5, <1>6, <2>3, <2>4, NewIds
<1>7. CASE res # "ok"
  BY <1>4, <1>5, <1>7, KeepIds
<1> QED
  BY <1>6, <1>7

\* Statements that set no id.
LEMMA CountIds ==
  ASSUME TypeOK, IdInv, NEW w \in Writer,
         CheckArtifact(w) \/ CheckEncodings(w) \/ CheckSymbol(w)
  PROVE  IdInv'
BY UnchangedGrows, KeepIds DEF CheckArtifact, CheckEncodings, CheckSymbol, Count

LEMMA ArtifactIds ==
  ASSUME TypeOK, IdInv, NEW w \in Writer, SelectArtifact(w) \/ InsertArtifact(w)
  PROVE  IdInv'
<1> DEFINE s == image[w].symbols[item[w]]
           row == [elf |-> held[w].elf, path |-> s.source, md5 |-> s.md5]
<1>1. At(w, "artifacts") /\ "artifacts" \in Stages /\ "artifacts" \in BeforeFields
  BY DEF SelectArtifact, InsertArtifact, Stages, BeforeFields
<1>2. /\ image[w] \in Images /\ held[w] \in IdsOf(image[w])
      /\ pc[w] = "artifacts"
      /\ IdsName(db, image[w], held[w]) /\ NoFieldIds(image[w], held[w])
  BY <1>1, LoopIds
<1>3. item[w] \in DOMAIN image[w].symbols /\ s \in SymbolEntry
  BY <1>1, EntryType DEF TypeOK
<1>4. \A id : NoFieldIds(image[w], [held[w] EXCEPT !.artifact[item[w]] = id])
  BY <1>2 DEF NoFieldIds, IdsOf
<1>5. "artifacts" \in Tables
  BY TableNames
<1>6. pc' = pc /\ image' = image
  BY DEF SelectArtifact, InsertArtifact, Advance
<1>7. CASE SelectArtifact(w)
  <2>1. Grows(db, db')
    BY <1>7, UnchangedGrows DEF SelectArtifact
  <2>2. CASE held' = held
    BY <1>6, <2>1, <2>2, KeepIds
  <2>3. ASSUME NEW id \in ArtifactRows(s.source),
               held' = [held EXCEPT ![w].artifact[item[w]] = id]
        PROVE  IdInv'
    <3>1. id \in DOMAIN db["artifacts"] /\ db["artifacts"][id].path = s.source
      BY <2>3 DEF ArtifactRows
    <3>2. db' = db
      BY <1>7 DEF SelectArtifact
    <3>3. IdsName(db', image[w], [held[w] EXCEPT !.artifact[item[w]] = id])
      BY <1>2, <1>3, <3>1, <3>2, SetArtifactId
    <3> QED
      BY <1>4, <1>6, <2>1, <2>3, <3>3, NewIds
  <2> QED
    BY <1>7, <2>2, <2>3 DEF SelectArtifact
<1>8. CASE InsertArtifact(w)
  <2> HIDE DEF row
  <2>1. PICK res \in Results :
          /\ Insert(w, "artifacts", row, res)
          /\ held' = IF res = "ok"
                     THEN [held EXCEPT ![w].artifact[item[w]] = NextId("artifacts")]
                     ELSE held
    BY <1>8 DEF InsertArtifact, row
  <2>2. Grows(db, db')
    BY <1>5, <2>1, InsertGrows DEF TypeOK
  <2>3. CASE res = "ok"
    <3> DEFINE id == NextId("artifacts")
    <3>1. id \in DOMAIN db'["artifacts"] /\ db'["artifacts"][id] = row
      BY <1>5, <2>1, <2>3, InsertGrows DEF TypeOK
    <3>2. db'["artifacts"][id].path = s.source
      BY <3>1 DEF row
    <3> HIDE DEF id
    <3>3. IdsName(db', image[w], held[w])
      BY <1>2, <2>2, IdsSurvive
    <3>4. IdsName(db', image[w], [held[w] EXCEPT !.artifact[item[w]] = id])
      BY <1>2, <1>3, <3>1, <3>2, <3>3, SetArtifactId
    <3>5. held' = [held EXCEPT ![w].artifact[item[w]] = id]
      BY <2>1, <2>3 DEF id
    <3> QED
      BY <1>4, <1>6, <2>2, <3>4, <3>5, NewIds
  <2>4. CASE res # "ok"
    BY <1>6, <2>1, <2>2, <2>4, KeepIds
  <2> QED
    BY <2>3, <2>4
<1> QED
  BY <1>7, <1>8

LEMMA EncodingStepIds ==
  ASSUME TypeOK, IdInv, NEW w \in Writer, SelectEncodings(w) \/ WriteEncoding(w)
  PROVE  IdInv'
<1>1. At(w, "encodings") /\ "encodings" \in Stages /\ "encodings" \in BeforeFields
  BY DEF SelectEncodings, WriteEncoding, Stages, BeforeFields
<1>2. /\ image[w] \in Images /\ held[w] \in IdsOf(image[w])
      /\ pc[w] = "encodings"
      /\ IdsName(db, image[w], held[w]) /\ NoFieldIds(image[w], held[w])
  BY <1>1, LoopIds
<1>3. item[w] \in DOMAIN Encodings
  <2>1. item[w] \in 1 .. Len(Encodings)
    BY <1>1, LoopRange
  <2>2. PICK S : Encodings \in Seq(S)
    BY EncodingsAssumption
  <2> QED
    BY <2>1, <2>2, SeqElement
<1>4. \A E : NoFieldIds(image[w], [held[w] EXCEPT !.encoding = E])
  BY <1>2 DEF NoFieldIds, IdsOf
<1>5. pc' = pc /\ image' = image
  BY DEF SelectEncodings, WriteEncoding, Advance
<1>6. held[w].encoding \in [DOMAIN Encodings -> Nat]
  BY <1>2 DEF IdsOf
<1>7. CASE SelectEncodings(w)
  <2> DEFINE ids(k) == { i \in DOMAIN db["encodings"] :
                           db["encodings"][i].encoding = Encodings[k] }
             E == [k \in DOMAIN Encodings |->
                     IF HasBranch(Encodings[k]) /\ ids(k) # {}
                     THEN CHOOSE i \in ids(k) : TRUE ELSE held[w].encoding[k]]
  <2>1. Grows(db, db') /\ db' = db
    BY <1>7, UnchangedGrows DEF SelectEncodings
  <2>2. held' = held \/ held' = [held EXCEPT ![w].encoding = E]
    BY <1>7 DEF SelectEncodings
  <2>3. \A k \in DOMAIN Encodings : E[k] # held[w].encoding[k] => E[k] \in ids(k)
    OBVIOUS
  <2> HIDE DEF E
  <2>4. IdsName(db', image[w], [held[w] EXCEPT !.encoding = E])
    BY <1>2, <2>1, <2>3, SetEncodingIds
  <2>5. CASE held' = held
    BY <1>5, <2>1, <2>5, KeepIds
  <2>6. CASE held' = [held EXCEPT ![w].encoding = E]
    BY <1>4, <1>5, <2>1, <2>4, <2>6, NewIds
  <2> QED
    BY <2>2, <2>5, <2>6
<1>8. CASE WriteEncoding(w)
  <2> DEFINE name == Encodings[item[w]]
             id == NextId("encodings")
             E == [held[w].encoding EXCEPT ![item[w]] = id]
  <2>1. PICK res \in Results :
          /\ Insert(w, "encodings", [encoding |-> name], res)
          /\ held' = IF res = "ok" /\ HasBranch(name)
                     THEN [held EXCEPT ![w].encoding[item[w]] = id] ELSE held
    BY <1>8 DEF WriteEncoding
  <2>2. Grows(db, db')
    BY <2>1, InsertGrows, TableNames DEF TypeOK
  <2>3. CASE res = "ok" /\ HasBranch(name)
    <3>1. id \in DOMAIN db'["encodings"] /\ db'["encodings"][id].encoding = name
      BY <2>1, <2>3, InsertGrows, TableNames DEF TypeOK
    <3> HIDE DEF id
    <3>2. IdsName(db', image[w], held[w])
      BY <1>2, <2>2, IdsSurvive
    <3>3. \A k \in DOMAIN Encodings : E[k] # held[w].encoding[k] => k = item[w]
      BY <1>6
    <3>4. E[item[w]] = id
      BY <1>3, <1>6
    <3>5. held' = [held EXCEPT ![w].encoding = E]
      BY <2>1, <2>3
    <3> HIDE DEF E
    <3>6. IdsName(db', image[w], [held[w] EXCEPT !.encoding = E])
      BY <1>2, <3>1, <3>2, <3>3, <3>4, SetEncodingIds
    <3> QED
      BY <1>4, <1>5, <2>2, <3>5, <3>6, NewIds
  <2>4. CASE ~ (res = "ok" /\ HasBranch(name))
    BY <1>5, <2>1, <2>2, <2>4, KeepIds
  <2> QED
    BY <2>3, <2>4
<1> QED
  BY <1>7, <1>8

\* SELECT may return the ids of several rows only for a symbol called like
\* the column.
LEMMA SymbolStepIds ==
  ASSUME TypeOK, IdInv, NoColumnNames, NEW w \in Writer,
         SelectSymbol(w) \/ InsertSymbol(w)
  PROVE  IdInv'
<1> DEFINE s == image[w].symbols[item[w]]
<1>1. At(w, "symbols") /\ "symbols" \in Stages /\ "symbols" \in BeforeFields
  BY DEF SelectSymbol, InsertSymbol, Stages, BeforeFields
<1>2. /\ image[w] \in Images /\ held[w] \in IdsOf(image[w])
      /\ pc[w] = "symbols"
      /\ IdsName(db, image[w], held[w]) /\ NoFieldIds(image[w], held[w])
  BY <1>1, LoopIds
<1>3. item[w] \in DOMAIN image[w].symbols
  BY <1>1, EntryType DEF TypeOK
<1>4. pc' = pc /\ image' = image
  BY DEF SelectSymbol, InsertSymbol, Advance
<1>5. ASSUME NEW id \in DOMAIN db'["symbols"],
             db'["symbols"][id].name = s.name,
             held' = [held EXCEPT ![w].symbol[item[w]] = id],
             Grows(db, db')
      PROVE  IdInv'
  <2>1. IdsName(db', image[w], held[w])
    BY <1>2, <1>5, IdsSurvive
  <2>2. /\ IdsName(db', image[w], [held[w] EXCEPT !.symbol[item[w]] = id])
        /\ NoFieldIds(image[w], [held[w] EXCEPT !.symbol[item[w]] = id])
    BY <1>2, <1>3, <1>5, <2>1, SetSymbolId
  <2> QED
    BY <1>4, <1>5, <2>2, NewIds
<1>6. CASE SelectSymbol(w)
  <2>1. Grows(db, db') /\ db' = db
    BY <1>6, UnchangedGrows DEF SelectSymbol
  <2>2. s.name # "name"
    BY <1>2, <1>3 DEF NoColumnNames
  <2>3. ASSUME NEW id \in SymbolRows(s.name),
               held' = [held EXCEPT ![w].symbol[item[w]] = id]
        PROVE  IdInv'
    BY <1>5, <2>1, <2>2, <2>3 DEF SymbolRows
  <2>4. CASE held' = held
    BY <1>4, <2>1, <2>4, KeepIds
  <2> QED
    BY <1>6, <2>3, <2>4 DEF SelectSymbol
<1>7. CASE InsertSymbol(w)
  <2>1. PICK res \in Results, e \in EncodingIds(w, s),
              a \in Read(held[w].artifact[item[w]]) :
          /\ Insert(w, "symbols",
                    [elf |-> held[w].elf, name |-> s.name,
                     byte_size |-> s.byte_size, encoding |-> e, artifact |-> a,
                     target |-> Null], res)
          /\ held' = IF res = "ok"
                     THEN [held EXCEPT ![w].symbol[item[w]] = NextId("symbols")]
                     ELSE held
    BY <1>7 DEF InsertSymbol
  <2>2. Grows(db, db')
    BY <2>1, InsertGrows, TableNames DEF TypeOK
  <2>3. CASE res = "ok"
    <3> DEFINE row == [elf |-> held[w].elf, name |-> s.name,
                       byte_size |-> s.byte_size, encoding |-> e, artifact |-> a,
                       target |-> Null]
    <3>0. Insert(w, "symbols", row, res) /\ row.name = s.name
      BY <2>1
    <3> HIDE DEF row
    <3>1. /\ NextId("symbols") \in DOMAIN db'["symbols"]
          /\ db'["symbols"][NextId("symbols")].name = s.name
      <4>1. "symbols" \in Tables /\ FileTypeOK
        BY TableNames DEF TypeOK
      <4> QED
        BY <2>3, <3>0, <4>1, InsertGrows
    <3>2. held' = [held EXCEPT ![w].symbol[item[w]] = NextId("symbols")]
      BY <2>1, <2>3
    <3> QED
      BY <1>5, <2>2, <3>1, <3>2
  <2>4. CASE res # "ok"
    BY <1>4, <2>1, <2>2, <2>4, KeepIds
  <2> QED
    BY <2>3, <2>4
<1> QED
  BY <1>6, <1>7

LEMMA FieldStepIds ==
  ASSUME TypeOK, IdInv, NEW w \in Writer, WriteField(w) PROVE IdInv'
<1> DEFINE f == image[w].fields[item[w]]
           id == NextId("fields")
<1>1. At(w, "fields") /\ "fields" \in Stages /\ "fields" \notin BeforeFields
  BY DEF WriteField, Stages, BeforeFields
<1>2. /\ image[w] \in Images /\ held[w] \in IdsOf(image[w])
      /\ pc[w] = "fields" /\ IdsName(db, image[w], held[w])
  BY <1>1, LoopIds
<1>3. item[w] \in DOMAIN image[w].fields
  BY <1>1, EntryType DEF TypeOK
<1>4. PICK res \in Results, s \in Read(held[w].symbol[f.symbol]),
           t \in Read(held[w].symbol[f.type]) :
        /\ Insert(w, "fields", [symbol |-> s, name |-> f.name,
                                byte_offset |-> f.offset, type |-> t], res)
        /\ held' = IF res = "ok" THEN [held EXCEPT ![w].field[item[w]] = id]
                   ELSE held
  BY DEF WriteField
<1>5. Grows(db, db') /\ pc' = pc /\ image' = image
  BY <1>4, InsertGrows, TableNames DEF TypeOK, WriteField, Advance
<1>6. CASE res = "ok"
  <2>1. /\ id \in DOMAIN db'["fields"]
        /\ db'["fields"][id] = [symbol |-> s, name |-> f.name,
                                byte_offset |-> f.offset, type |-> t]
    BY <1>4, <1>6, InsertGrows, TableNames DEF TypeOK
  <2> HIDE DEF id
  <2>2. IdsName(db', image[w], held[w])
    BY <1>2, <1>5, IdsSurvive
  <2>3. IdsName(db', image[w], [held[w] EXCEPT !.field[item[w]] = id])
    <3> DEFINE img == image[w]
               h == held[w]
               k == item[w]
               stored == db'
    <3>1. /\ IdsName(stored, img, h) /\ img \in Images /\ h \in IdsOf(img)
          /\ k \in DOMAIN img.fields /\ id \in DOMAIN stored["fields"]
      BY <1>2, <1>3, <2>1, <2>2
    <3>3. /\ s \in Read(h.symbol[img.fields[k].symbol])
          /\ t \in Read(h.symbol[img.fields[k].type])
      BY <1>4
    <3>4. /\ stored["fields"][id].name = img.fields[k].name
          /\ stored["fields"][id].symbol = s /\ stored["fields"][id].type = t
      BY <2>1
    <3> HIDE DEF img, h, k, stored
    <3>2. IdsName(stored, img, [h EXCEPT !.field[k] = id])
      BY <3>1, <3>3, <3>4, SetFieldId
    <3> QED
      BY <3>2 DEF img, h, k, stored
  <2> QED
    BY <1>1, <1>2, <1>4, <1>5, <1>6, <2>3, NewIds
<1>7. CASE res # "ok"
  BY <1>4, <1>5, <1>7, KeepIds
<1> QED
  BY <1>6, <1>7

LEMMA SilentIds ==
  ASSUME TypeOK, IdInv, NEW w \in Writer,
         \/ WriteMacro(w) \/ WriteDimension(w) \/ WriteEnumeration(w)
         \/ WriteVariable(w) \/ WriteElfSection(w) \/ WriteElfSymbol(w)
         \/ UpdateTarget(w)
  PROVE  IdInv'
<1>1. pc' = pc /\ image' = image /\ held' = held
  BY DEF WriteMacro, WriteDimension, WriteEnumeration, WriteVariable,
         WriteElfSection, WriteElfSymbol, UpdateTarget, Advance
<1>2. CASE UpdateTarget(w)
  BY <1>1, <1>2, SetTargetGrows, UnchangedGrows, KeepIds DEF TypeOK, UpdateTarget
<1>3. CASE ~ UpdateTarget(w)
  <2>1. PICK t \in Tables : \E row, res : Insert(w, t, row, res)
    BY <1>3, TableNames DEF WriteMacro, WriteDimension, WriteEnumeration,
       WriteVariable, WriteElfSection, WriteElfSymbol
  <2> QED
    BY <1>1, <2>1, InsertGrows, KeepIds DEF TypeOK
<1> QED
  BY <1>2, <1>3

LEMMA AfterBeforeFields ==
  \A s \in Stages : \A r : After(s, r) \in BeforeFields => s \in BeforeFields
<1> SUFFICES ASSUME NEW s \in Stages \ BeforeFields, NEW r
             PROVE  After(s, r) \notin BeforeFields
  OBVIOUS
<1>1. s \in { "fields", "dimensions", "enumerations", "variables", "sections",
              "elf_symbols" }
  BY DEF Stages, BeforeFields
<1> QED
  BY <1>1 DEF After, OnSuccess, OnError, BeforeFields

\* A process starts without ids and takes them from one function of write()
\* to the next.
LEMMA LifecycleIds ==
  ASSUME TypeOK, IdInv, NEW w \in Writer,
         \/ Start(w) \/ Crash(w) \/ Finish(w) \/ CreateTable(w)
         \/ FailToCreateTable(w) \/ Return(w)
  PROVE  IdInv'
<1>1. Grows(db, db') /\ db' = db
  BY UnchangedGrows DEF Start, Crash, Finish, Exit, CreateTable,
     FailToCreateTable, Return
<1>2. ASSUME NEW p, NEW img \in Images, Begin(w, p, img) PROVE IdInv'
  <2>1. /\ held'[w] = NoIds(img) /\ image'[w] = img
        /\ \A v \in Writer \ {w} :
             held'[v] = held[v] /\ image'[v] = image[v] /\ pc'[v] = pc[v]
    BY <1>2 DEF Begin, TypeOK, MemoryTypeOK, ControlTypeOK
  <2>2. IdsName(db', img, NoIds(img)) /\ NoFieldIds(img, NoIds(img))
    BY FreshIds
  <2> SUFFICES ASSUME NEW v \in Writer
               PROVE  /\ Running(v)' => IdsName(db', image'[v], held'[v])
                      /\ pc'[v] \in BeforeFields => NoFieldIds(image'[v], held'[v])
    BY DEF IdInv
  <2>3. CASE v = w
    BY <2>1, <2>2, <2>3
  <2>4. CASE v # w
    BY <1>1, <2>1, <2>4 DEF IdInv, Running
  <2> QED
    BY <2>3, <2>4
<1>3. CASE Start(w)
  BY <1>2, <1>3 DEF Start
<1>4. CASE Crash(w) \/ Finish(w) \/ FailToCreateTable(w)
  BY <1>2, <1>4, AnyImageType DEF Crash, Finish, Exit, FailToCreateTable
<1>5. CASE CreateTable(w)
  BY <1>1, <1>5, KeepIds DEF CreateTable
<1>6. CASE Return(w)
  <2>1. /\ pc[w] \in Stages /\ held' = held /\ image' = image
        /\ pc' = [pc EXCEPT ![w] = After(pc[w], rc[w])]
    BY <1>6 DEF Return
  <2>2. Running(w)
    BY <2>1 DEF Running, Stages
  <2>3. pc'[w] \in BeforeFields => pc[w] \in BeforeFields
    BY <2>1, AfterBeforeFields DEF TypeOK, ControlTypeOK
  <2>4. \A v \in Writer \ {w} : pc'[v] = pc[v]
    BY <2>1 DEF TypeOK, ControlTypeOK
  <2> QED
    BY <1>1, <2>1, <2>2, <2>3, <2>4 DEF IdInv, Running
<1> QED
  BY <1>3, <1>4, <1>5, <1>6

LEMMA NextIds ==
  ASSUME NoColumnNames PROVE TypeOK /\ IdInv /\ [Next]_vars => IdInv'
<1> SUFFICES ASSUME TypeOK, IdInv, [Next]_vars PROVE IdInv'
  OBVIOUS
<1>1. CASE UNCHANGED vars \/ Quiet
  BY <1>1, UnchangedGrows, KeepIds DEF Quiet, vars
<1>2. ASSUME NEW w \in Writer, Start(w) \/ Crash(w) PROVE IdInv'
  BY <1>2, LifecycleIds
<1>3. ASSUME NEW w \in Writer, Step(w) PROVE IdInv'
  BY <1>3, LifecycleIds, ElfIds, CountIds, ArtifactIds, EncodingStepIds,
     SymbolStepIds, FieldStepIds, SilentIds DEF Step
<1> QED
  BY <1>1, <1>2, <1>3 DEF Next

\* Whatever other processes store in between and whichever statements fail,
\* every id that write() has assigned is the id of the row of its object,
\* provided that no symbol is called like the column doesSymbolExist()
\* compares.
THEOREM IdsNameRows ==
  ASSUME NoColumnNames PROVE Spec => []HeldIdsNameTheirRows
<1>1. Init => IdInv
  BY DEF Init, IdInv, Running, BeforeFields, NoFieldIds
<1>2. IdInv => HeldIdsNameTheirRows
  BY DEF IdInv, IdsName, HeldIdsNameTheirRows
<1> QED
  BY <1>1, <1>2, TypeCorrect, NextIds, PTL DEF Spec

=============================================================================
