---------------------------- MODULE SymbolCatalog ----------------------------
(***************************************************************************)
(* What a juicer database promises its reader, with names in place of row  *)
(* ids: a catalog of declarations that only grows.  A declaration enters   *)
(* only after the symbols it refers to, each (owner, name) pair keeps its  *)
(* first declaration for ever, and only the target of a typedef or pointer *)
(* may be replaced.  No declaration enters that no binary made.            *)
(***************************************************************************)
CONSTANTS
  Symbol,      \* the names some binary declares
  Field,       \* the << owner, name, type >> of their fields
  Enumerator,  \* the << owner, name, value >> of their enumerators
  Variable,    \* the << name, type >> of their variables
  Target       \* the << symbol, target >> of their typedefs and pointers

VARIABLES symbols, fields, enumerators, variables, targets

catalog == << symbols, fields, enumerators, variables, targets >>

Init ==
  /\ symbols = {} /\ fields = {} /\ enumerators = {}
  /\ variables = {} /\ targets = {}

AddSymbol(n) ==
  /\ symbols' = symbols \cup {n}
  /\ UNCHANGED << fields, enumerators, variables, targets >>

AddField(f) ==
  /\ {f[1], f[3]} \subseteq symbols
  /\ ~ \E g \in fields : g[1] = f[1] /\ g[2] = f[2]
  /\ fields' = fields \cup {f}
  /\ UNCHANGED << symbols, enumerators, variables, targets >>

AddEnumerator(e) ==
  /\ e[1] \in symbols
  /\ ~ \E g \in enumerators : g[1] = e[1] /\ g[2] = e[2]
  /\ enumerators' = enumerators \cup {e}
  /\ UNCHANGED << symbols, fields, variables, targets >>

AddVariable(v) ==
  /\ v[2] \in symbols
  /\ variables' = variables \cup {v}
  /\ UNCHANGED << symbols, fields, enumerators, targets >>

SetTarget(t) ==
  /\ {t[1], t[2]} \subseteq symbols
  /\ targets' = { u \in targets : u[1] # t[1] } \cup {t}
  /\ UNCHANGED << symbols, fields, enumerators, variables >>

Next ==
  \/ \E n \in Symbol : AddSymbol(n)
  \/ \E f \in Field : AddField(f)
  \/ \E e \in Enumerator : AddEnumerator(e)
  \/ \E v \in Variable : AddVariable(v)
  \/ \E t \in Target : SetTarget(t)

Spec == Init /\ [][Next]_catalog
=============================================================================
