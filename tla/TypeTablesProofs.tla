--------------------------- MODULE TypeTablesProofs ---------------------------
(***************************************************************************)
(* For every module, of any number of items: the tables keep their types,  *)
(* the recursion of resolve_aliasdef never enters a definition twice, what *)
(* it has resolved stays, what the passes leave in the tables of a module  *)
(* they accept is what its declarations mean, and every cycle of           *)
(* definitions is reported once.                                           *)
(***************************************************************************)
EXTENDS TypeTables, NaturalLemmas, FiniteSetTheorems, TLAPS

(* A definition in state 2 has a type: what makes the answer of a          *)
(* resolved definition a type and not a null pointer.                      *)
DoneResolved == \A n \in Names : defs[n].state = "done" => defs[n].resolved \in ResolvedTypes

IInv == items \in Modules /\ TypeOK /\ DoneResolved /\ ActiveCalls

LEMMA UnderType ==
    ASSUME NEW form \in Forms, NEW t \in ResolvedTypes
    PROVE  Under(form, t) \in ResolvedTypes
  <1>1. CASE form = "plain"
    BY <1>1 DEF Under
  <1>2. CASE form # "plain"
    <2>1. <<form>> \o t.layers \in Seq({"ptr", "ref"})
      BY <1>2 DEF ResolvedTypes, Forms
    <2> QED
      BY <1>2, <2>1 DEF Under, ResolvedTypes
  <1> QED BY <1>1, <1>2

LEMMA BaseType ==
    ASSUME NEW kind \in BaseKinds, NEW n \in Names \cup {NoName}
    PROVE  Type(kind, n) \in ResolvedTypes
  BY DEF Type, ResolvedTypes

LEMMA NullIsNoType == Null \notin ResolvedTypes
  BY DEF Null, Type, ResolvedTypes, BaseKinds

LEMMA NothingIsNoTypeExpr == Nothing \notin TypeExprs
  BY DEF Nothing, TypeExprs, Forms

(* What a module is made of.                                               *)
LEMMA ItemTypes ==
    ASSUME items \in Modules, at \in 1..Len(items)
    PROVE  /\ items \in Seq(Items)
           /\ Item \in Items
           /\ Item.name \in Names /\ Item.types \in Seq(TypeExprs)
           /\ Item.kind \in AliasKinds \cup {"func"} => Item.types # <<>>
  <1>1. items \in Seq(Items)
    BY TableAssumption
  <1>2. Item \in Items
    BY <1>1 DEF Item
  <1>3. Item.kind \in AliasKinds \cup {"func"} => Item.types # <<>>
    BY <1>1, TableAssumption DEF Item
  <1> QED BY <1>1, <1>2, <1>3 DEF Items

THEOREM Initial == Init => IInv
  <1> SUFFICES ASSUME Init PROVE IInv
    OBVIOUS
  <1>1. items \in Seq(Items)
    BY TableAssumption DEF Init
  <1>2. TypeOK
    BY <1>1 DEF Init, TypeOK, Passes, Empty, Tables
  <1>3. DoneResolved /\ ActiveCalls
    BY DEF Init, DoneResolved, ActiveCalls, Absent
  <1> QED BY <1>2, <1>3 DEF Init, IInv

-----------------------------------------------------------------------------
(* Updates of the tables.                                                  *)
LEMMA WithTable ==
    ASSUME NEW f, NEW T, NEW n \in Names, NEW v \in Seq(T), Tables(f, T)
    PROVE  Tables(With(f, n, v), T)
  BY DEF Tables, With

LEMMA NullRow ==
    ASSUME NEW s \in Seq(TypeExprs)
    PROVE  [k \in DOMAIN s |-> Null] \in Seq(ResolvedTypes \cup {Null})
  <1>1. Len(s) \in Nat /\ DOMAIN s = 1..Len(s)
    OBVIOUS
  <1>2. \A k \in 1..Len(s) : Null \in ResolvedTypes \cup {Null}
    OBVIOUS
  <1> QED BY <1>1, <1>2

LEMMA SetFieldsType ==
    ASSUME NEW old \in Seq(ResolvedTypes \cup {Null}), NEW new \in Seq(ResolvedTypes)
    PROVE  SetFields(old, new) \in Seq(ResolvedTypes \cup {Null})
  <1>1. Len(old) \in Nat /\ DOMAIN old = 1..Len(old)
    OBVIOUS
  <1>2. \A k \in DOMAIN old :
            (IF k \in DOMAIN new THEN new[k] ELSE old[k]) \in ResolvedTypes \cup {Null}
    OBVIOUS
  <1> QED BY <1>1, <1>2 DEF SetFields

LEMMA AppendType ==
    ASSUME NEW S, NEW s \in Seq(S), NEW e \in S
    PROVE  Append(s, e) \in Seq(S)
  OBVIOUS

LEMMA OneElement ==
    ASSUME NEW S, NEW e \in S
    PROVE  <<e>> \in Seq(S)
  OBVIOUS

LEMMA ReportType ==
    ASSUME errors \in Seq(Reports), NEW n \in Names,
           NEW w \in {"duplicate", "unknown", "cycle", "ref returned"}
    PROVE  Report(w, n) \in Seq(Reports)
  <1>1. [what |-> w, name |-> n] \in Reports
    BY DEF Reports
  <1>2. Append(errors, [what |-> w, name |-> n]) \in Seq(Reports)
    BY <1>1, AppendType
  <1> QED BY <1>2 DEF Report

(* One definition of type_defs changes.                                    *)
LEMMA DefsUpdate ==
    ASSUME TypeOK, NEW n \in Names, NEW d \in AliasDefs, defs' = [defs EXCEPT ![n] = d]
    PROVE  /\ defs' = [m \in Names |-> defs'[m]]
           /\ \A m \in Names : defs'[m] = Absent \/ defs'[m] \in AliasDefs
           /\ \A m \in Names : defs'[m] = IF m = n THEN d ELSE defs[m]
  <1>1. DOMAIN defs = Names
    BY DEF TypeOK
  <1>2. \A m \in Names : defs'[m] = IF m = n THEN d ELSE defs[m]
    BY <1>1
  <1>3. defs' = [m \in Names |-> defs'[m]]
    BY <1>1
  <1> QED BY <1>2, <1>3 DEF TypeOK

(* A definition that is in the table stays one when it is marked.          *)
LEMMA MarkedDef ==
    ASSUME TypeOK, NEW n \in Names, defs[n].state # "absent",
           NEW s \in {"in_progress", "done"}, NEW t \in ResolvedTypes \cup {Null}
    PROVE  /\ defs[n] \in AliasDefs
           /\ Marked(defs[n], s, t) \in AliasDefs
           /\ Marked(defs[n], s, t).state = s /\ Marked(defs[n], s, t).resolved = t
  <1>1. defs[n] \in AliasDefs
    BY DEF TypeOK, Absent
  <1> QED BY <1>1 DEF AliasDefs, Marked

-----------------------------------------------------------------------------
(* Going on to the next item.                                              *)
LEMMA NextItemType ==
    ASSUME TypeOK, at <= Len(items), NextItem
    PROVE  /\ items' \in Seq(Items) /\ pass' \in Passes /\ at' \in 1..Len(items') + 1
           /\ row' \in Seq(ResolvedTypes)
           /\ want' \in TypeExprs \cup {Nothing} /\ answer' \in ResolvedTypes \cup {Null}
           /\ stack' \in Seq(Frames)
  <1>1. Len(items) \in Nat
    BY DEF TypeOK
  <1> QED BY <1>1 DEF TypeOK, NextItem, calls

(* The invariant's parts are kept when neither definitions nor calls change. *)
LEMMA SameDefs ==
    ASSUME IInv, UNCHANGED <<items, defs, stack>>
    PROVE  items' \in Modules /\ DoneResolved' /\ ActiveCalls'
  BY DEF IInv, DoneResolved, ActiveCalls

LEMMA VisitFacts ==
    ASSUME IInv, NEW p, Visits(p)
    PROVE  /\ at \in 1..Len(items) /\ at <= Len(items)
           /\ items \in Seq(Items) /\ Item.name \in Names
           /\ Item.types \in Seq(TypeExprs)
           /\ Item.kind \in KindsOf(p)
           /\ Item.kind \in AliasKinds \cup {"func"} => Item.types # <<>>
           /\ stack = <<>>
  <1>1. at \in 1..Len(items) /\ at <= Len(items)
    <2>1. Len(items) \in Nat
      BY DEF IInv, TypeOK
    <2> QED BY <2>1 DEF IInv, TypeOK, Visits
  <1> QED BY <1>1, ItemTypes DEF IInv, Visits, Idle

LEMMA SkipStep == IInv /\ Skip => IInv'
  <1> SUFFICES ASSUME IInv, Skip PROVE IInv'
    OBVIOUS
  <1>1. TypeOK'
    BY NextItemType DEF Skip, IInv, TypeOK, tables
  <1>2. UNCHANGED <<items, defs, stack>>
    BY DEF Skip, NextItem, tables, calls
  <1> QED BY <1>1, <1>2, SameDefs DEF IInv

LEMMA NextPassStep == IInv /\ NextPass => IInv'
  <1> SUFFICES ASSUME IInv, NextPass PROVE IInv'
    OBVIOUS
  <1>1. pass' \in Passes
    BY DEF NextPass, After, IInv, TypeOK, Passes
  <1>2. at' \in 1..Len(items') + 1
    <2>1. Len(items) \in Nat
      BY DEF IInv, TypeOK
    <2> QED BY <2>1 DEF NextPass
  <1>3. TypeOK'
    BY <1>1, <1>2 DEF NextPass, IInv, TypeOK, tables, calls
  <1>4. UNCHANGED <<items, defs, stack>>
    BY DEF NextPass, tables, calls
  <1> QED BY <1>3, <1>4, SameDefs DEF IInv

LEMMA RegisterAliasStep == IInv /\ RegisterAlias => IInv'
  <1> SUFFICES ASSUME IInv, RegisterAlias PROVE IInv'
    OBVIOUS
  <1> DEFINE n == Item.name
             d == [state |-> "unresolved", newtype |-> Item.kind = "newtype",
                   target |-> Head(Item.types), resolved |-> Null]
  <1>1. /\ at <= Len(items) /\ n \in Names /\ stack = <<>> /\ NextItem
        /\ Item.types \in Seq(TypeExprs) /\ Item.types # <<>>
    BY VisitFacts DEF RegisterAlias, KindsOf
  <1>2. TypeOK /\ DoneResolved /\ ActiveCalls
    BY DEF IInv
  <1>3. d \in AliasDefs
    <2>1. Head(Item.types) \in TypeExprs
      BY <1>1
    <2>2. (Item.kind = "newtype") \in BOOLEAN
      OBVIOUS
    <2> QED BY <2>1, <2>2 DEF AliasDefs
  <1>4. UNCHANGED <<items, stack, structs, enums, funcs>>
    BY DEF RegisterAlias, NextItem, calls
  <1>5. CASE UNCHANGED defs
    <2>1. errors' \in Seq(Reports)
      <3>1. errors \in Seq(Reports)
        BY <1>2 DEF TypeOK
      <3>2. Report("duplicate", n) \in Seq(Reports)
        BY <1>1, <3>1, ReportType
      <3> QED BY <3>1, <3>2 DEF RegisterAlias
    <2>2. TypeOK'
      BY <1>1, <1>2, <1>4, <1>5, <2>1, NextItemType DEF TypeOK
    <2> QED BY <2>2, <1>4, <1>5, SameDefs DEF IInv
  <1>6. CASE defs' = [defs EXCEPT ![n] = d] /\ UNCHANGED errors
    <2>1. /\ defs' = [m \in Names |-> defs'[m]]
          /\ \A m \in Names : defs'[m] = Absent \/ defs'[m] \in AliasDefs
          /\ \A m \in Names : defs'[m] = IF m = n THEN d ELSE defs[m]
      BY <1>1, <1>2, <1>3, <1>6, DefsUpdate
    <2>2. TypeOK'
      BY <1>1, <1>2, <1>4, <1>6, <2>1, NextItemType DEF TypeOK
    <2>3. DoneResolved'
      BY <1>2, <2>1 DEF DoneResolved
    <2>4. ActiveCalls'
      BY <1>1, <1>2, <1>4, <2>1 DEF ActiveCalls
    <2> QED BY <2>2, <2>3, <2>4, <1>4 DEF IInv
  <1> QED BY <1>5, <1>6 DEF RegisterAlias

LEMMA DuplicateStep == ASSUME NEW p PROVE IInv /\ Duplicate(p) => IInv'
  <1> SUFFICES ASSUME IInv, Duplicate(p) PROVE IInv'
    OBVIOUS
  <1>1. at <= Len(items) /\ Item.name \in Names /\ NextItem
    BY VisitFacts DEF Duplicate
  <1>2. errors' \in Seq(Reports)
    <2>1. errors \in Seq(Reports)
      BY DEF IInv, TypeOK
    <2>2. Report("duplicate", Item.name) \in Seq(Reports)
      BY <1>1, <2>1, ReportType
    <2> QED BY <2>2 DEF Duplicate
  <1>3. TypeOK'
    BY <1>1, <1>2, NextItemType DEF Duplicate, IInv, TypeOK, tables
  <1>4. UNCHANGED <<items, defs, stack>>
    BY DEF Duplicate, NextItem, tables, calls
  <1> QED BY <1>3, <1>4, SameDefs DEF IInv

LEMMA RegisterEnumStep == IInv /\ RegisterEnum => IInv'
  <1> SUFFICES ASSUME IInv, RegisterEnum PROVE IInv'
    OBVIOUS
  <1>1. at <= Len(items) /\ Item.name \in Names /\ NextItem
    BY VisitFacts DEF RegisterEnum
  <1>2. Tables(enums, ResolvedTypes) /\ row \in Seq(ResolvedTypes)
    BY DEF IInv, TypeOK
  <1>3. Tables(enums', ResolvedTypes)
    BY <1>1, <1>2, WithTable DEF RegisterEnum
  <1>4. TypeOK'
    BY <1>1, <1>3, NextItemType DEF RegisterEnum, IInv, TypeOK
  <1>5. UNCHANGED <<items, defs, stack>>
    BY DEF RegisterEnum, NextItem, calls
  <1> QED BY <1>4, <1>5, SameDefs DEF IInv

LEMMA RegisterStructStep == IInv /\ RegisterStruct => IInv'
  <1> SUFFICES ASSUME IInv, RegisterStruct PROVE IInv'
    OBVIOUS
  <1>1. at <= Len(items) /\ Item.name \in Names /\ NextItem /\ Item.types \in Seq(TypeExprs)
    BY VisitFacts DEF RegisterStruct
  <1>2. Tables(structs, ResolvedTypes \cup {Null})
    BY DEF IInv, TypeOK
  <1>3. [k \in DOMAIN Item.types |-> Null] \in Seq(ResolvedTypes \cup {Null})
    BY <1>1, NullRow
  <1>4. Tables(structs', ResolvedTypes \cup {Null})
    BY <1>1, <1>2, <1>3, WithTable DEF RegisterStruct
  <1>5. TypeOK'
    BY <1>1, <1>4, NextItemType DEF RegisterStruct, IInv, TypeOK
  <1>6. UNCHANGED <<items, defs, stack>>
    BY DEF RegisterStruct, NextItem, calls
  <1> QED BY <1>5, <1>6, SameDefs DEF IInv

LEMMA ResolveFieldsStep == IInv /\ ResolveFields => IInv'
  <1> SUFFICES ASSUME IInv, ResolveFields PROVE IInv'
    OBVIOUS
  <1>1. at <= Len(items) /\ Item.name \in Names /\ NextItem
    BY VisitFacts DEF ResolveFields
  <1>2. Tables(structs, ResolvedTypes \cup {Null}) /\ row \in Seq(ResolvedTypes)
    BY DEF IInv, TypeOK
  <1>3. CASE Item.name \notin DOMAIN structs
    BY <1>2, <1>3, <1>1, SameDefs, NextItemType DEF ResolveFields, NextItem, calls, IInv, TypeOK
  <1>4. CASE Item.name \in DOMAIN structs
    <2>1. SetFields(structs[Item.name], row) \in Seq(ResolvedTypes \cup {Null})
      BY <1>2, <1>4, SetFieldsType DEF Tables
    <2>2. structs' = [structs EXCEPT ![Item.name] = SetFields(structs[Item.name], row)]
      BY <1>4 DEF ResolveFields
    <2>3. Tables(structs', ResolvedTypes \cup {Null})
      BY <1>2, <2>1, <2>2 DEF Tables
    <2>4. TypeOK'
      BY <1>1, <2>3, NextItemType DEF ResolveFields, IInv, TypeOK
    <2>5. UNCHANGED <<items, defs, stack>>
      BY DEF ResolveFields, NextItem, calls
    <2> QED BY <2>4, <2>5, SameDefs DEF IInv
  <1> QED BY <1>3, <1>4

LEMMA ForcedStep == IInv /\ Forced => IInv'
  <1> SUFFICES ASSUME IInv, Forced PROVE IInv'
    OBVIOUS
  <1>1. at <= Len(items) /\ NextItem
    BY VisitFacts DEF Forced
  <1>2. TypeOK'
    BY <1>1, NextItemType DEF Forced, IInv, TypeOK, tables
  <1>3. UNCHANGED <<items, defs, stack>>
    BY DEF Forced, NextItem, tables, calls
  <1> QED BY <1>2, <1>3, SameDefs DEF IInv

LEMMA RegisterFuncStep == IInv /\ RegisterFunc => IInv'
  <1> SUFFICES ASSUME IInv, RegisterFunc PROVE IInv'
    OBVIOUS
  <1>1. at <= Len(items) /\ Item.name \in Names /\ NextItem
    BY VisitFacts DEF RegisterFunc
  <1>2. Tables(funcs, ResolvedTypes) /\ row \in Seq(ResolvedTypes) /\ errors \in Seq(Reports)
    BY DEF IInv, TypeOK
  <1>3. Tables(funcs', ResolvedTypes)
    BY <1>1, <1>2, WithTable DEF RegisterFunc
  <1>4. errors' \in Seq(Reports)
    <2>1. Report("duplicate", Item.name) \in Seq(Reports)
      BY <1>1, <1>2, ReportType
    <2>2. <<[what |-> "ref returned", name |-> Item.name]>> \in Seq(Reports)
      <3>1. [what |-> "ref returned", name |-> Item.name] \in Reports
        BY <1>1 DEF Reports
      <3> QED BY <3>1, OneElement
    <2>3. \A s, t \in Seq(Reports) : s \o t \in Seq(Reports)
      OBVIOUS
    <2>4. <<>> \in Seq(Reports)
      OBVIOUS
    <2> QED BY <1>2, <2>1, <2>2, <2>3, <2>4 DEF RegisterFunc
  <1>5. TypeOK'
    BY <1>1, <1>3, <1>4, NextItemType DEF RegisterFunc, IInv, TypeOK
  <1>6. UNCHANGED <<items, defs, stack>>
    BY DEF RegisterFunc, NextItem, calls
  <1> QED BY <1>5, <1>6, SameDefs DEF IInv

-----------------------------------------------------------------------------
(* The steps of a resolution.                                              *)
LEMMA FrameFields ==
    ASSUME NEW s \in Seq(Frames), NEW i \in DOMAIN s
    PROVE  s[i] \in Frames /\ s[i].def \in Names /\ s[i].form \in Forms
  <1>1. s[i] \in Frames
    OBVIOUS
  <1> QED BY <1>1 DEF Frames

LEMMA AskStep == IInv /\ Ask => IInv'
  <1> SUFFICES ASSUME IInv, Ask PROVE IInv'
    OBVIOUS
  <1>1. Item.name \in Names /\ Item.types \in Seq(TypeExprs)
    BY VisitFacts DEF Ask
  <1>2. want' \in TypeExprs
    <2>1. CASE pass = "force"
      <3>1. "plain" \in Forms
        BY DEF Forms
      <3> QED BY <1>1, <2>1, <3>1 DEF Ask, TypeExprs
    <2>2. CASE pass # "force"
      <3>1. Len(row) < Len(Item.types)
        <4>1. pass \in Passes
          BY DEF IInv, TypeOK
        <4> QED BY <2>2, <4>1 DEF Ask, Asks, Passes
      <3>2. Len(row) \in Nat /\ Len(Item.types) \in Nat
        BY <1>1 DEF IInv, TypeOK
      <3> QED BY <1>1, <2>2, <3>1, <3>2 DEF Ask
    <2> QED BY <2>1, <2>2
  <1>3. TypeOK'
    BY <1>2 DEF Ask, IInv, TypeOK, tables
  <1>4. UNCHANGED <<items, defs, stack>>
    BY DEF Ask, tables
  <1> QED BY <1>3, <1>4, SameDefs DEF IInv

LEMMA WantName ==
    ASSUME TypeOK, want # Nothing
    PROVE  want.name \in Names /\ want.form \in Forms
  BY DEF TypeOK, TypeExprs

LEMMA AnswerType ==
    ASSUME TypeOK, want # Nothing, NEW t \in ResolvedTypes, Answer(t)
    PROVE  want' \in TypeExprs \cup {Nothing} /\ answer' \in ResolvedTypes \cup {Null}
  BY WantName, UnderType DEF Answer

LEMMA ErrorType == Error \in ResolvedTypes
  <1>1. "error" \in BaseKinds
    BY DEF BaseKinds
  <1> QED BY <1>1, BaseType DEF Error

LEMMA ResolveKnownStep == IInv /\ ResolveKnown => IInv'
  <1> SUFFICES ASSUME IInv, ResolveKnown PROVE IInv'
    OBVIOUS
  <1>1. TypeOK /\ want # Nothing
    BY DEF IInv, ResolveKnown
  <1>2. KindOf(want.name) \in BaseKinds
    BY DEF KindOf, BaseKinds
  <1>3. Type(KindOf(want.name), want.name) \in ResolvedTypes
    BY <1>1, <1>2, WantName, BaseType
  <1>4. want' \in TypeExprs \cup {Nothing} /\ answer' \in ResolvedTypes \cup {Null}
    BY <1>1, <1>3, AnswerType DEF ResolveKnown
  <1>5. TypeOK'
    BY <1>1, <1>4 DEF ResolveKnown, TypeOK, tables
  <1>6. UNCHANGED <<items, defs, stack>>
    BY DEF ResolveKnown, tables
  <1> QED BY <1>5, <1>6, SameDefs DEF IInv

LEMMA ResolveUnknownStep == IInv /\ ResolveUnknown => IInv'
  <1> SUFFICES ASSUME IInv, ResolveUnknown PROVE IInv'
    OBVIOUS
  <1>1. TypeOK /\ want # Nothing
    BY DEF IInv, ResolveUnknown
  <1>2. want' \in TypeExprs \cup {Nothing} /\ answer' \in ResolvedTypes \cup {Null}
    BY <1>1, ErrorType, AnswerType DEF ResolveUnknown
  <1>3. errors' \in Seq(Reports)
    <2>1. errors \in Seq(Reports)
      BY <1>1 DEF TypeOK
    <2>2. Report("unknown", want.name) \in Seq(Reports)
      BY <1>1, <2>1, WantName, ReportType
    <2> QED BY <2>2 DEF ResolveUnknown
  <1>4. TypeOK'
    BY <1>1, <1>2, <1>3 DEF ResolveUnknown, TypeOK, tables
  <1>5. UNCHANGED <<items, defs, stack>>
    BY DEF ResolveUnknown, tables
  <1> QED BY <1>4, <1>5, SameDefs DEF IInv

LEMMA DefType ==
    ASSUME NEW n \in Names, NEW t \in ResolvedTypes
    PROVE  TypeOfDef(n, t) \in ResolvedTypes
  <1>1. "newtype" \in BaseKinds
    BY DEF BaseKinds
  <1> QED BY <1>1, BaseType DEF TypeOfDef

LEMMA ResolveDoneStep == IInv /\ ResolveDone => IInv'
  <1> SUFFICES ASSUME IInv, ResolveDone PROVE IInv'
    OBVIOUS
  <1>1. TypeOK /\ want # Nothing /\ defs[want.name].state = "done"
    BY DEF IInv, ResolveDone, InState
  <1>2. want.name \in Names
    BY <1>1, WantName
  <1>3. defs[want.name].resolved \in ResolvedTypes
    BY <1>1, <1>2 DEF IInv, DoneResolved
  <1>4. TypeOfDef(want.name, defs[want.name].resolved) \in ResolvedTypes
    BY <1>2, <1>3, DefType
  <1>5. want' \in TypeExprs \cup {Nothing} /\ answer' \in ResolvedTypes \cup {Null}
    BY <1>1, <1>4, AnswerType DEF ResolveDone
  <1>6. TypeOK'
    BY <1>1, <1>5 DEF ResolveDone, TypeOK, tables
  <1>7. UNCHANGED <<items, defs, stack>>
    BY DEF ResolveDone, tables
  <1> QED BY <1>6, <1>7, SameDefs DEF IInv

LEMMA ResolveCycleStep == IInv /\ ResolveCycle => IInv'
  <1> SUFFICES ASSUME IInv, ResolveCycle PROVE IInv'
    OBVIOUS
  <1> DEFINE n == want.name
             d == Marked(defs[n], "done", Error)
  <1>1. /\ TypeOK /\ DoneResolved /\ ActiveCalls
        /\ want # Nothing /\ defs[n].state = "in_progress"
    BY DEF IInv, ResolveCycle, InState
  <1>2. n \in Names
    BY <1>1, WantName
  <1>3. d \in AliasDefs /\ d.state = "done" /\ d.resolved = Error
    BY <1>1, <1>2, ErrorType, MarkedDef
  <1>4. /\ defs' = [m \in Names |-> defs'[m]]
        /\ \A m \in Names : defs'[m] = Absent \/ defs'[m] \in AliasDefs
        /\ \A m \in Names : defs'[m] = IF m = n THEN d ELSE defs[m]
    <2>1. defs' = [defs EXCEPT ![n] = d]
      BY DEF ResolveCycle
    <2> QED BY <1>1, <1>2, <1>3, <2>1, DefsUpdate
  <1>5. want' \in TypeExprs \cup {Nothing} /\ answer' \in ResolvedTypes \cup {Null}
    BY <1>1, ErrorType, AnswerType DEF ResolveCycle
  <1>6. errors' \in Seq(Reports)
    <2>1. errors \in Seq(Reports)
      BY <1>1 DEF TypeOK
    <2>2. Report("cycle", n) \in Seq(Reports)
      BY <1>2, <2>1, ReportType
    <2> QED BY <2>2 DEF ResolveCycle
  <1>7. TypeOK'
    BY <1>1, <1>4, <1>5, <1>6 DEF ResolveCycle, TypeOK
  <1>8. DoneResolved'
    BY <1>1, <1>3, <1>4, ErrorType DEF DoneResolved
  <1>9. ActiveCalls'
    <2>1. stack' = stack /\ stack \in Seq(Frames)
      BY <1>1 DEF ResolveCycle, TypeOK
    <2>2. \A i \in DOMAIN stack : stack[i].def \in Names
      BY <2>1, FrameFields
    <2> QED BY <1>1, <1>3, <1>4, <2>1, <2>2 DEF ActiveCalls
  <1> QED BY <1>7, <1>8, <1>9 DEF IInv, ResolveCycle

(* The definition entered is unresolved, so no active call has it.         *)
LEMMA ResolveTargetStep == IInv /\ ResolveTarget => IInv'
  <1> SUFFICES ASSUME IInv, ResolveTarget PROVE IInv'
    OBVIOUS
  <1> DEFINE n == want.name
             d == Marked(defs[n], "in_progress", defs[n].resolved)
             f == [def |-> n, form |-> want.form]
  <1>1. /\ TypeOK /\ DoneResolved /\ ActiveCalls
        /\ want # Nothing /\ defs[n].state = "unresolved"
    BY DEF IInv, ResolveTarget, InState
  <1>2. n \in Names /\ want.form \in Forms
    BY <1>1, WantName
  <1>3. defs[n] \in AliasDefs
    BY <1>1, <1>2 DEF TypeOK, Absent
  <1>4. d \in AliasDefs /\ d.state = "in_progress"
    <2>1. defs[n].resolved \in ResolvedTypes \cup {Null}
      BY <1>3 DEF AliasDefs
    <2> QED BY <1>1, <1>2, <2>1, MarkedDef
  <1>5. /\ defs' = [m \in Names |-> defs'[m]]
        /\ \A m \in Names : defs'[m] = Absent \/ defs'[m] \in AliasDefs
        /\ \A m \in Names : defs'[m] = IF m = n THEN d ELSE defs[m]
    <2>1. defs' = [defs EXCEPT ![n] = d]
      BY DEF ResolveTarget
    <2> QED BY <1>1, <1>2, <1>4, <2>1, DefsUpdate
  <1>6. /\ f \in Frames /\ f.def = n /\ stack' = Append(stack, f)
        /\ stack \in Seq(Frames) /\ stack' \in Seq(Frames)
    <2>1. f \in Frames /\ f.def = n
      BY <1>2 DEF Frames
    <2>2. stack \in Seq(Frames)
      BY <1>1 DEF TypeOK
    <2>3. stack' = Append(stack, f)
      BY DEF ResolveTarget
    <2> QED BY <2>1, <2>2, <2>3, AppendType
  <1>7. want' \in TypeExprs
    BY <1>3 DEF ResolveTarget, AliasDefs
  <1>8. TypeOK'
    BY <1>1, <1>5, <1>6, <1>7 DEF ResolveTarget, TypeOK
  <1>9. DoneResolved'
    BY <1>1, <1>4, <1>5 DEF DoneResolved
  <1>10. ActiveCalls'
    <2>1. /\ Len(stack) \in Nat /\ DOMAIN stack = 1..Len(stack)
          /\ DOMAIN stack' = 1..Len(stack) + 1
          /\ \A i \in DOMAIN stack : stack'[i] = stack[i]
          /\ stack'[Len(stack) + 1] = f
      BY <1>6
    <2>2. \A i \in DOMAIN stack : stack[i].def \in Names /\ stack[i].def # n
      BY <1>1, <1>6, FrameFields DEF ActiveCalls
    <2>3. \A i, j \in DOMAIN stack' : stack'[i].def = stack'[j].def => i = j
      <3>1. \A i, j \in DOMAIN stack : stack'[i].def = stack'[j].def => i = j
        BY <1>1, <2>1 DEF ActiveCalls
      <3>2. \A i \in DOMAIN stack : stack'[i].def # stack'[Len(stack) + 1].def
        BY <1>6, <2>1, <2>2
      <3> QED BY <2>1, <3>1, <3>2
    <2>4. \A m \in Names : defs'[m].state = "in_progress" =>
              \E i \in DOMAIN stack' : stack'[i].def = m
      <3> TAKE m \in Names
      <3> HAVE defs'[m].state = "in_progress"
      <3>1. CASE m = n
        BY <1>6, <2>1, <3>1
      <3>2. CASE m # n
        <4>1. PICK i \in DOMAIN stack : stack[i].def = m
          BY <1>1, <1>5, <3>2 DEF ActiveCalls
        <4> QED BY <2>1, <4>1
      <3> QED BY <3>1, <3>2
    <2>5. \A i \in DOMAIN stack' : defs'[stack'[i].def].state \in {"in_progress", "done"}
      <3>1. \A i \in DOMAIN stack : defs'[stack[i].def].state \in {"in_progress", "done"}
        BY <1>1, <1>5, <2>2 DEF ActiveCalls
      <3>2. defs'[f.def].state = "in_progress"
        BY <1>2, <1>4, <1>5, <1>6
      <3> QED BY <2>1, <3>1, <3>2
    <2> QED BY <2>3, <2>4, <2>5 DEF ActiveCalls
  <1> QED BY <1>8, <1>9, <1>10 DEF IInv, ResolveTarget

LEMMA Below ==
    ASSUME NEW k \in Nat, k # 0, NEW i \in 1..k - 1
    PROVE  i \in 1..k /\ i # k
  OBVIOUS

LEMMA ReturnStep == IInv /\ Return => IInv'
  <1> SUFFICES ASSUME IInv, Return PROVE IInv'
    OBVIOUS
  <1> DEFINE k == Len(stack)
             f == stack[k]
             n == f.def
             d == Marked(defs[n], "done", answer)
  <1>1. TypeOK /\ DoneResolved /\ ActiveCalls /\ answer \in ResolvedTypes
    BY DEF IInv, Return, TypeOK
  <1>2. /\ stack \in Seq(Frames) /\ k \in Nat /\ k # 0 /\ DOMAIN stack = 1..k
        /\ k \in DOMAIN stack
    BY <1>1 DEF Return, TypeOK
  <1>3. n \in Names /\ f.form \in Forms
    BY <1>2, FrameFields
  <1>4. d \in AliasDefs /\ d.state = "done" /\ d.resolved = answer
    <2>1. defs[n].state # "absent"
      BY <1>1, <1>2 DEF ActiveCalls
    <2> QED BY <1>1, <1>3, <2>1, MarkedDef
  <1>5. /\ defs' = [m \in Names |-> defs'[m]]
        /\ \A m \in Names : defs'[m] = Absent \/ defs'[m] \in AliasDefs
        /\ \A m \in Names : defs'[m] = IF m = n THEN d ELSE defs[m]
    <2>1. defs' = [defs EXCEPT ![n] = d]
      BY DEF Return
    <2> QED BY <1>1, <1>3, <1>4, <2>1, DefsUpdate
  <1>6. answer' \in ResolvedTypes
    <2>1. TypeOfDef(n, answer) \in ResolvedTypes
      BY <1>1, <1>3, DefType
    <2> QED BY <1>3, <2>1, UnderType DEF Return
  <1>7. /\ stack' \in Seq(Frames) /\ DOMAIN stack' = 1..k - 1
        /\ \A i \in 1..k - 1 : stack'[i] = stack[i]
    <2>1. stack' = SubSeq(stack, 1, k - 1)
      BY DEF Return
    <2> QED BY <1>2, <2>1
  <1>8. TypeOK'
    BY <1>1, <1>5, <1>6, <1>7 DEF Return, TypeOK
  <1>9. DoneResolved'
    BY <1>1, <1>4, <1>5 DEF DoneResolved
  <1>10. ActiveCalls'
    <2>1. \A i \in 1..k - 1 : i \in DOMAIN stack /\ stack[i].def \in Names /\ i # k
      <3> TAKE i \in 1..k - 1
      <3>1. k \in Nat /\ k # 0
        BY <1>2
      <3>2. i \in 1..k /\ i # k
        BY <3>1, Below
      <3>3. i \in DOMAIN stack /\ stack \in Seq(Frames)
        BY <1>2, <3>2
      <3> QED BY <3>2, <3>3, FrameFields
    <2>2. \A i, j \in DOMAIN stack' : stack'[i].def = stack'[j].def => i = j
      BY <1>1, <1>7, <2>1 DEF ActiveCalls
    <2>3. \A m \in Names : defs'[m].state = "in_progress" =>
              \E i \in DOMAIN stack' : stack'[i].def = m
      <3> TAKE m \in Names
      <3> HAVE defs'[m].state = "in_progress"
      <3>1. m # n /\ defs[m].state = "in_progress"
        BY <1>4, <1>5
      <3>2. PICK i \in DOMAIN stack : stack[i].def = m
        BY <1>1, <3>1 DEF ActiveCalls
      <3>3. i \in 1..k - 1
        BY <1>2, <3>1, <3>2
      <3> QED BY <1>7, <3>2, <3>3
    <2>4. \A i \in DOMAIN stack' : defs'[stack'[i].def].state \in {"in_progress", "done"}
      BY <1>1, <1>4, <1>5, <1>7, <2>1 DEF ActiveCalls
    <2> QED BY <2>2, <2>3, <2>4 DEF ActiveCalls
  <1> QED BY <1>8, <1>9, <1>10 DEF IInv, Return

LEMMA DeliverStep == IInv /\ Deliver => IInv'
  <1> SUFFICES ASSUME IInv, Deliver PROVE IInv'
    OBVIOUS
  <1>1. answer \in ResolvedTypes /\ row \in Seq(ResolvedTypes)
    BY DEF IInv, Deliver, TypeOK
  <1>2. row' \in Seq(ResolvedTypes)
    BY <1>1, AppendType DEF Deliver
  <1>3. TypeOK'
    BY <1>2 DEF Deliver, IInv, TypeOK, tables
  <1>4. UNCHANGED <<items, defs, stack>>
    BY DEF Deliver, tables
  <1> QED BY <1>3, <1>4, SameDefs DEF IInv

-----------------------------------------------------------------------------
LEMMA Inductive == IInv /\ [Next]_vars => IInv'
  <1> SUFFICES ASSUME IInv, [Next]_vars PROVE IInv'
    OBVIOUS
  <1>1. CASE Skip            BY <1>1, SkipStep
  <1>2. CASE NextPass        BY <1>2, NextPassStep
  <1>3. CASE RegisterAlias   BY <1>3, RegisterAliasStep
  <1>4. CASE DuplicateEnum   BY <1>4, DuplicateStep DEF DuplicateEnum
  <1>5. CASE RegisterEnum    BY <1>5, RegisterEnumStep
  <1>6. CASE DuplicateStruct BY <1>6, DuplicateStep DEF DuplicateStruct
  <1>7. CASE RegisterStruct  BY <1>7, RegisterStructStep
  <1>8. CASE ResolveFields   BY <1>8, ResolveFieldsStep
  <1>9. CASE Forced          BY <1>9, ForcedStep
  <1>10. CASE RegisterFunc   BY <1>10, RegisterFuncStep
  <1>11. CASE Ask            BY <1>11, AskStep
  <1>12. CASE ResolveKnown   BY <1>12, ResolveKnownStep
  <1>13. CASE ResolveUnknown BY <1>13, ResolveUnknownStep
  <1>14. CASE ResolveDone    BY <1>14, ResolveDoneStep
  <1>15. CASE ResolveCycle   BY <1>15, ResolveCycleStep
  <1>16. CASE ResolveTarget  BY <1>16, ResolveTargetStep
  <1>17. CASE Return         BY <1>17, ReturnStep
  <1>18. CASE Deliver        BY <1>18, DeliverStep
  <1>19. CASE UNCHANGED vars
    <2>1. TypeOK'
      BY <1>19 DEF IInv, TypeOK, vars, tables, calls
    <2>2. UNCHANGED <<items, defs, stack>>
      BY <1>19 DEF vars, tables, calls
    <2> QED BY <2>1, <2>2, SameDefs DEF IInv
  <1> QED
    BY <1>1, <1>2, <1>3, <1>4, <1>5, <1>6, <1>7, <1>8, <1>9, <1>10, <1>11, <1>12,
       <1>13, <1>14, <1>15, <1>16, <1>17, <1>18, <1>19 DEF Next

(* The tables, the resolution in progress and the diagnostics always have  *)
(* their types: check_module stores no unresolved type in a table of enums *)
(* or functions and hands none to what asked for it.                       *)
THEOREM TablesTyped == Spec => []TypeOK
  <1>1. IInv => TypeOK
    BY DEF IInv
  <1> QED BY <1>1, Initial, Inductive, PTL DEF Spec

(* The definitions being resolved are those of the active calls of         *)
(* resolve_aliasdef and no two calls have the same: the recursion is no    *)
(* deeper than the number of definitions, however they refer to one        *)
(* another.                                                                *)
THEOREM NoReentry == Spec => []ActiveCalls
  <1>1. IInv => ActiveCalls
    BY DEF IInv
  <1> QED BY <1>1, Initial, Inductive, PTL DEF Spec

(* What a definition was resolved to is not changed by any later use of    *)
(* it: only the calls that resolve it write it.                            *)
Settled == \A n \in Names :
    defs[n].state = "done" /\ (\A i \in DOMAIN stack : stack[i].def # n) => defs'[n] = defs[n]

LEMMA SettledStep == IInv /\ [Next]_vars => Settled
  <1> SUFFICES ASSUME IInv, [Next]_vars,
                      NEW n \in Names, defs[n].state = "done",
                      \A i \in DOMAIN stack : stack[i].def # n
               PROVE  defs'[n] = defs[n]
    BY DEF Settled
  <1>1. DOMAIN defs = Names /\ defs[n] # Absent
    BY DEF IInv, TypeOK, Absent
  <1>2. CASE RegisterAlias
    BY <1>1, <1>2 DEF RegisterAlias
  <1>3. CASE ResolveCycle \/ ResolveTarget
    BY <1>1, <1>3 DEF ResolveCycle, ResolveTarget, InState
  <1>4. CASE Return
    <2>1. Len(stack) \in DOMAIN stack
      BY <1>4 DEF Return, IInv, TypeOK
    <2> QED BY <1>1, <1>4, <2>1 DEF Return
  <1>5. CASE UNCHANGED defs
    BY <1>5
  <1>6. CASE Skip \/ NextPass \/ DuplicateEnum \/ DuplicateStruct \/ Forced
    BY <1>6, <1>5 DEF Skip, NextPass, DuplicateEnum, DuplicateStruct, Duplicate, Forced, tables
  <1>7. CASE RegisterEnum \/ RegisterStruct \/ ResolveFields \/ RegisterFunc
    BY <1>7, <1>5 DEF RegisterEnum, RegisterStruct, ResolveFields, RegisterFunc
  <1>8. CASE Ask \/ ResolveKnown \/ ResolveUnknown \/ ResolveDone \/ Deliver
    BY <1>8, <1>5 DEF Ask, ResolveKnown, ResolveUnknown, ResolveDone, Deliver, tables
  <1>9. CASE UNCHANGED vars
    BY <1>9, <1>5 DEF vars, tables
  <1> QED BY <1>2, <1>3, <1>4, <1>6, <1>7, <1>8, <1>9 DEF Next

(* types.cc:271: a definition is resolved once; when no call is resolving  *)
(* it any more, nothing changes its type.                                  *)
THEOREM ResolvedOnce == Spec => OnceResolved
  <1>1. IInv /\ [Next]_vars => [Settled]_vars
    BY SettledStep
  <1>2. [][Settled]_vars => OnceResolved
    BY PTL DEF OnceResolved, Settled
  <1> QED BY <1>1, <1>2, Initial, Inductive, PTL DEF Spec
-----------------------------------------------------------------------------
(* The tables mean what the declarations say.  First, what a name stands   *)
(* for through at most d aliases: a type that is not an error is the same  *)
(* for every greater d.                                                    *)
Depth == Cardinality(Names)

Stands(f, k) == f = [d \in 0..k |-> [n \in Names |-> StandsFor(n, d, f[d - 1])]]

LEMMA DepthType == Depth \in Nat
  BY TableAssumption, FS_CardinalityType DEF Depth

LEMMA StandsMeans ==
    ASSUME NEW f, NEW k \in Nat, Stands(f, k), NEW d \in 0..k
    PROVE  f[d] = [n \in Names |-> StandsFor(n, d, f[d - 1])]
  BY Zenon DEF Stands

(* No alias is followed at depth 0.                                        *)
LEMMA NothingBelow ==
    ASSUME NEW n, NEW b, NEW c PROVE StandsFor(n, 0, b) = StandsFor(n, 0, c)
  BY DEF StandsFor

LEMMA StandsExist == ASSUME NEW k \in Nat PROVE \E f : Stands(f, k)
  <1> DEFINE S == {m \in Nat : ~\E f : Stands(f, m)}
  <1>1. SUFFICES ASSUME S # {} PROVE FALSE
    OBVIOUS
  <1>2. PICK m \in S : \A i \in S : m <= i
    BY <1>1, Least
  <1>3. CASE m = 0
    <2> DEFINE f == [d \in 0..0 |-> [n \in Names |-> StandsFor(n, 0, <<>>)]]
    <2>1. f = [d \in 0..0 |-> [n \in Names |-> StandsFor(n, d, f[d - 1])]]
      <3>1. \A d \in 0..0 : d = 0
        OBVIOUS
      <3>2. ASSUME NEW d \in 0..0
            PROVE  [n \in Names |-> StandsFor(n, 0, <<>>)] = [n \in Names |-> StandsFor(n, d, f[d - 1])]
        BY <3>1, NothingBelow, Zenon
      <3> QED BY <3>2, Zenon
    <2> HIDE DEF f
    <2>2. Stands(f, 0)
      BY <2>1 DEF Stands
    <2> QED BY <1>3, <2>2
  <1>4. CASE m # 0
    <2>1. m - 1 \in Nat /\ m - 1 \notin S
      BY <1>2, <1>4
    <2>2. PICK f : Stands(f, m - 1)
      BY <2>1
    <2> DEFINE top == [n \in Names |-> StandsFor(n, m, f[m - 1])]
               g == [d \in 0..m |-> IF d = m THEN top ELSE f[d]]
    <2>3. ASSUME NEW d \in 0..m
          PROVE  g[d] = [n \in Names |-> StandsFor(n, d, g[d - 1])]
      <3>1. CASE d = m
        <4>1. g[m - 1] = f[m - 1] /\ g[m] = top
          BY <2>1
        <4> QED BY <3>1, <4>1
      <3>2. CASE d # m
        <4>1. d \in 0..(m - 1) /\ g[d] = f[d]
          BY <3>2, <2>1
        <4>2. f[d] = [n \in Names |-> StandsFor(n, d, f[d - 1])]
          BY <2>1, <2>2, <4>1, StandsMeans
        <4>3. CASE d = 0
          <5> HIDE DEF g
          <5>1. \A n : StandsFor(n, 0, f[d - 1]) = StandsFor(n, 0, g[d - 1])
            BY NothingBelow
          <5>2. \A n : StandsFor(n, d, f[d - 1]) = StandsFor(n, d, g[d - 1])
            BY <4>3, <5>1
          <5> QED BY <4>1, <4>2, <5>2, Zenon
        <4>4. CASE d # 0
          <5>1. d - 1 \in 0..m /\ d - 1 # m
            BY <4>1, <4>4, <2>1
          <5>2. g[d - 1] = f[d - 1]
            BY <5>1
          <5> QED BY <4>1, <4>2, <5>2
        <4> QED BY <4>3, <4>4
      <3> QED BY <3>1, <3>2
    <2>4. g = [d \in 0..m |-> g[d]]
      OBVIOUS
    <2> HIDE DEF g
    <2>5. Stands(g, m)
      BY <2>3, <2>4, Zenon DEF Stands
    <2> QED BY <2>5
  <1> QED BY <1>3, <1>4

LEMMA DenotesMeans ==
    ASSUME NEW d \in 0..Depth, NEW n \in Names
    PROVE  Denotes[d][n] = StandsFor(n, d, Denotes[d - 1])
  <1>1. \E f : Stands(f, Depth)
    BY DepthType, StandsExist
  <1>2. Stands(Denotes, Depth)
    BY <1>1, Zenon DEF Denotes, Stands, Depth
  <1>3. Denotes[d] = [m \in Names |-> StandsFor(m, d, Denotes[d - 1])]
    BY <1>2, DepthType, StandsMeans
  <1> QED BY <1>3, Zenon

(* An item that is the only declaration of its name.                       *)
Distinct == \A i, j \in DOMAIN items :
    items[i].kind # "func" /\ items[j].kind # "func" /\ items[i].name = items[j].name => i = j

LEMMA ItemAt ==
    ASSUME items \in Modules, NEW i \in DOMAIN items
    PROVE  /\ items[i].name \in Names /\ items[i].types \in Seq(TypeExprs)
           /\ items[i].kind \in AliasKinds \cup {"struct", "enum", "func"}
           /\ items[i].kind # "func" => items[i].name \notin Builtins
           /\ items[i].kind \in AliasKinds \cup {"func"} => items[i].types # <<>>
  <1>1. items \in Seq(Items)
    BY TableAssumption
  <1>2. items[i] \in Items
    BY <1>1
  <1> QED BY <1>2, TableAssumption DEF Items

(* Its kind decides what its name stands for.                              *)
LEMMA DeclaredKind ==
    ASSUME items \in Modules, Distinct, NEW i \in DOMAIN items, items[i].kind # "func"
    PROVE  /\ \A kinds : "func" \notin kinds =>
                  (Declares(items[i].name, kinds) <=> items[i].kind \in kinds)
           /\ Declaration(items[i].name) = items[i]
           /\ items[i].name \notin Builtins
  <1>1. \A kinds : "func" \notin kinds =>
            (Declares(items[i].name, kinds) <=> items[i].kind \in kinds)
    BY DEF Declares, Distinct
  <1>2. Declaration(items[i].name) = items[i]
    BY DEF Declaration, Distinct
  <1> QED BY <1>1, <1>2, ItemAt

LEMMA AliasStands ==
    ASSUME items \in Modules, Distinct, NEW i \in DOMAIN items, items[i].kind = "alias",
           NEW d, NEW b, d > 0
    PROVE  StandsFor(items[i].name, d, b)
             = Under(Head(items[i].types).form, b[Head(items[i].types).name])
  <1>1. /\ items[i].name \notin Builtins
        /\ ~Declares(items[i].name, {"struct"}) /\ ~Declares(items[i].name, {"enum"})
        /\ ~Declares(items[i].name, {"newtype"}) /\ Declares(items[i].name, {"alias"})
    BY DeclaredKind
  <1>2. Declaration(items[i].name) = items[i]
    BY DeclaredKind
  <1> QED BY <1>1, <1>2 DEF StandsFor

LEMMA NewtypeStands ==
    ASSUME items \in Modules, Distinct, NEW i \in DOMAIN items, items[i].kind = "newtype",
           NEW d, NEW b
    PROVE  StandsFor(items[i].name, d, b) = Type("newtype", items[i].name)
  <1>1. /\ items[i].name \notin Builtins
        /\ ~Declares(items[i].name, {"struct"}) /\ ~Declares(items[i].name, {"enum"})
        /\ Declares(items[i].name, {"newtype"}) /\ ~Declares(items[i].name, {"alias"})
    BY DeclaredKind
  <1> QED BY <1>1 DEF StandsFor

(* A name that stands for a type that is no error stands for it however    *)
(* many more aliases may be followed.                                      *)
LEMMA UnderKind == \A form, t : Under(form, t).kind = t.kind
  BY DEF Under

Stable(d) == \A n \in Names :
    Denotes[d][n].kind # "error" => Denotes[d + 1][n] = Denotes[d][n]

LEMMA StepStable ==
    ASSUME items \in Modules, Distinct, NEW d \in 0..(Depth - 1), d = 0 \/ Stable(d - 1)
    PROVE  Stable(d)
  <1> SUFFICES ASSUME NEW n \in Names, Denotes[d][n].kind # "error"
               PROVE  Denotes[d + 1][n] = Denotes[d][n]
    BY DEF Stable
  <1>1. d \in 0..Depth /\ d + 1 \in 0..Depth /\ (d + 1) - 1 = d
    BY DepthType
  <1>2. /\ Denotes[d][n] = StandsFor(n, d, Denotes[d - 1])
        /\ Denotes[d + 1][n] = StandsFor(n, d + 1, Denotes[d])
    <2>1. Denotes[d + 1][n] = StandsFor(n, d + 1, Denotes[(d + 1) - 1])
      BY <1>1, DenotesMeans
    <2> QED BY <1>1, <2>1, DenotesMeans
  <1>3. CASE \E i \in DOMAIN items : items[i].name = n /\ items[i].kind = "alias"
    <2>1. PICK i \in DOMAIN items : items[i].name = n /\ items[i].kind = "alias"
      BY <1>3
    <2> DEFINE t == Head(items[i].types)
    <2>2. t.name \in Names
      <3>1. items[i].types \in Seq(TypeExprs) /\ items[i].types # <<>>
        BY <2>1, ItemAt DEF AliasKinds
      <3>2. t \in TypeExprs
        BY <3>1
      <3> QED BY <3>2 DEF TypeExprs
    <2>3. d # 0
      <3>1. ASSUME d = 0 PROVE Denotes[d][n] = Error
        <4>1. /\ n \notin Builtins
              /\ ~Declares(n, {"struct"}) /\ ~Declares(n, {"enum"}) /\ ~Declares(n, {"newtype"})
          BY <2>1, DeclaredKind
        <4>2. ~(d > 0)
          BY <3>1
        <4> QED BY <1>2, <4>1, <4>2 DEF StandsFor
      <3> QED BY <3>1 DEF Error, Type
    <2>4. d > 0 /\ d + 1 > 0 /\ d - 1 \in 0..Depth /\ (d - 1) + 1 = d
      BY <1>1, <2>3, DepthType
    <2>5. /\ Denotes[d][n] = Under(t.form, Denotes[d - 1][t.name])
          /\ Denotes[d + 1][n] = Under(t.form, Denotes[d][t.name])
      BY <1>2, <2>1, <2>4, AliasStands
    <2>6. Denotes[d - 1][t.name].kind # "error"
      BY <2>5, UnderKind
    <2>7. Denotes[d][t.name] = Denotes[d - 1][t.name]
      BY <2>2, <2>3, <2>4, <2>6 DEF Stable
    <2> QED BY <2>5, <2>7
  <1>4. CASE ~\E i \in DOMAIN items : items[i].name = n /\ items[i].kind = "alias"
    <2>1. ~Declares(n, {"alias"})
      BY <1>4 DEF Declares
    <2>2. StandsFor(n, d, Denotes[d - 1]) = StandsFor(n, d + 1, Denotes[d])
      BY <2>1 DEF StandsFor
    <2> QED BY <1>2, <2>2
  <1> QED BY <1>3, <1>4

LEMMA DenotesStable ==
    ASSUME items \in Modules, Distinct, NEW d \in 0..Depth, NEW n \in Names,
           Denotes[d][n].kind # "error", NEW e \in 0..Depth, d <= e
    PROVE  Denotes[e][n] = Denotes[d][n]
  <1>1. \A k \in 0..(Depth - 1) : Stable(k)
    <2> DEFINE S == {k \in 0..(Depth - 1) : ~Stable(k)}
    <2>1. SUFFICES ASSUME S # {} PROVE FALSE
      OBVIOUS
    <2>2. S \in SUBSET Nat
      BY DepthType
    <2>3. PICK k \in S : \A m \in S : k <= m
      BY <2>1, <2>2, Least
    <2>4. k = 0 \/ Stable(k - 1)
      BY <2>3, DepthType
    <2> QED BY <2>3, <2>4, StepStable
  <1> DEFINE T == {k \in d..Depth : Denotes[k][n] # Denotes[d][n]}
  <1>2. SUFFICES ASSUME T # {} PROVE FALSE
    BY DepthType
  <1>3. T \in SUBSET Nat
    BY DepthType
  <1>4. PICK k \in T : \A m \in T : k <= m
    BY <1>2, <1>3, Least
  <1>5. k \in Nat /\ d \in Nat /\ d < k /\ k - 1 \in d..Depth /\ k - 1 \in 0..(Depth - 1)
    BY <1>4, DepthType
  <1>6. Denotes[k - 1][n] = Denotes[d][n]
    BY <1>4, <1>5
  <1>7. Denotes[(k - 1) + 1][n] = Denotes[k - 1][n]
    BY <1>1, <1>5, <1>6 DEF Stable
  <1> QED BY <1>4, <1>5, <1>6, <1>7

-----------------------------------------------------------------------------
(* The items a pass has handled: those before the one it is at, and all of *)
(* them once the pass is over.                                             *)
PassNo(p) == CASE p = "alias" -> 1 [] p = "enum" -> 2 [] p = "struct" -> 3 [] p = "field" -> 4
               [] p = "force" -> 5 [] p = "sig" -> 6 [] OTHER -> 7
Past(p, i) == PassNo(pass) > PassNo(p) \/ (pass = p /\ i < at)
Did(i, p)  == items[i].kind \in KindsOf(p) /\ Past(p, i)
Noted(i)   == \E p \in {"alias", "enum", "struct"} : Did(i, p)

(* A declaration handled is in its table, a name in a table has a          *)
(* declaration, and as long as no error was reported the declarations      *)
(* handled have different names and are what type_defs holds.              *)
Listed == \A i \in DOMAIN items :
    /\ Did(i, "alias") => defs[items[i].name] # Absent
    /\ Noted(i) => Taken(items[i].name)
    /\ Did(i, "sig") => items[i].name \in DOMAIN funcs
Declared ==
    /\ \A n \in Names : defs[n] # Absent => Declares(n, AliasKinds)
    /\ \A n \in DOMAIN structs : Declares(n, {"struct"})
    /\ \A n \in DOMAIN enums : Declares(n, {"enum"})
Unique == errors = <<>> =>
    \A i, j \in DOMAIN items : Noted(i) /\ Noted(j) /\ items[i].name = items[j].name => i = j
Targets == errors = <<>> =>
    \A i \in DOMAIN items : Did(i, "alias") =>
        /\ defs[items[i].name].target = Head(items[i].types)
        /\ defs[items[i].name].newtype = (items[i].kind = "newtype")
Registry == Listed /\ Declared /\ Unique /\ Targets

LEMMA Numbers ==
    /\ PassNo("alias") = 1 /\ PassNo("enum") = 2 /\ PassNo("struct") = 3 /\ PassNo("field") = 4
    /\ PassNo("force") = 5 /\ PassNo("sig") = 6 /\ PassNo("done") = 7
    /\ \A p \in Passes : PassNo(p) \in 1..7
    /\ \A p, q \in Passes : PassNo(p) = PassNo(q) => p = q
    /\ \A p \in Passes \ {"done"} : After[p] \in Passes /\ PassNo(After[p]) = PassNo(p) + 1
  <1>1. /\ PassNo("alias") = 1 /\ PassNo("enum") = 2 /\ PassNo("struct") = 3 /\ PassNo("field") = 4
        /\ PassNo("force") = 5 /\ PassNo("sig") = 6 /\ PassNo("done") = 7
    BY DEF PassNo
  <1> QED BY <1>1 DEF Passes, After

(* A step to the next item adds that item to those handled, ...            *)
LEMMA DidNextItem ==
    ASSUME IInv, at <= Len(items), NextItem, NEW p \in Passes, NEW i \in DOMAIN items
    PROVE  Did(i, p)' => Did(i, p) \/ (p = pass /\ i = at /\ Item.kind \in KindsOf(p))
  <1>1. i \in Nat /\ at \in Nat
    BY DEF IInv, TypeOK
  <1>2. /\ items' = items /\ pass' = pass /\ at' = at + 1
        /\ KindsOf(p)' = KindsOf(p)
    BY DEF NextItem, KindsOf
  <1>3. Past(p, i)' => Past(p, i) \/ (p = pass /\ i = at)
    BY <1>1, <1>2 DEF Past, PassNo
  <1> QED BY <1>2, <1>3 DEF Did, Item

(* ... and the step to the next pass adds none.                            *)
LEMMA DidNextPass ==
    ASSUME IInv, NextPass, NEW p \in Passes, NEW i \in DOMAIN items
    PROVE  Did(i, p)' => Did(i, p)
  <1>1. i \in Nat /\ at \in Nat /\ i < at /\ ~(i < 1)
    BY DEF IInv, TypeOK, NextPass
  <1>2. pass \in Passes \ {"done"} /\ pass' = After[pass] /\ at' = 1 /\ items' = items
    BY DEF NextPass, IInv, TypeOK
  <1>3. /\ PassNo(pass') = PassNo(pass) + 1 /\ PassNo(pass) \in 1..7 /\ PassNo(p) \in 1..7
        /\ PassNo(pass) = PassNo(p) => pass = p
    BY <1>2, Numbers
  <1>4. Past(p, i)' => Past(p, i)
    BY <1>1, <1>2, <1>3 DEF Past
  <1> QED BY <1>2, <1>4 DEF Did

LEMMA DidSame ==
    ASSUME UNCHANGED <<items, pass, at>>, NEW p, NEW i
    PROVE  Did(i, p)' <=> Did(i, p)
  BY DEF Did, Past

(* What a step must keep for the registry to stay as it is.                *)
SameDeclaration(n) ==
    /\ defs'[n] = Absent <=> defs[n] = Absent
    /\ defs'[n].target = defs[n].target /\ defs'[n].newtype = defs[n].newtype
SameNames ==
    /\ DOMAIN structs' = DOMAIN structs /\ DOMAIN enums' = DOMAIN enums
    /\ \A n \in Names : SameDeclaration(n)
    /\ errors' = <<>> => errors = <<>>
    /\ items' = items

LEMMA RegistryKept ==
    ASSUME IInv, Registry, SameNames,
           \A i \in DOMAIN items : \A p \in {"alias", "enum", "struct"} : Did(i, p)' => Did(i, p),
           \A i \in DOMAIN items : Did(i, "sig")' => items[i].name \in DOMAIN funcs'
    PROVE  Registry'
  <1>1. \A i \in DOMAIN items : items[i].name \in Names
    BY ItemAt DEF IInv
  <1>2. \A n \in Names : Taken(n)' <=> Taken(n)
    BY DEF SameNames, SameDeclaration, Taken
  <1>3. \A i \in DOMAIN items : Noted(i)' => Noted(i)
    BY DEF Noted
  <1>4. Listed'
    BY <1>1, <1>2, <1>3 DEF Registry, Listed, SameNames, SameDeclaration
  <1>5. \A n, kinds : Declares(n, kinds)' <=> Declares(n, kinds)
    BY DEF Declares, SameNames
  <1>6. Declared'
    BY <1>5 DEF Registry, Declared, SameNames, SameDeclaration
  <1>7. Unique'
    BY <1>3 DEF Registry, Unique, SameNames
  <1>8. Targets'
    BY <1>1 DEF Registry, Targets, SameNames, SameDeclaration
  <1> QED BY <1>4, <1>6, <1>7, <1>8 DEF Registry

(* Marking a definition keeps what it declares.                            *)
LEMMA MarkKeeps ==
    ASSUME IInv, NEW n \in Names, defs[n].state # "absent", NEW s \in {"in_progress", "done"},
           NEW t \in ResolvedTypes \cup {Null}, defs' = [defs EXCEPT ![n] = Marked(@, s, t)]
    PROVE  /\ \A m \in Names : SameDeclaration(m)
           /\ \A m \in Names : m # n => defs'[m] = defs[m]
           /\ defs'[n].state = s /\ defs'[n].resolved = t
  <1>1. DOMAIN defs = Names
    BY DEF IInv, TypeOK
  <1>2. defs'[n] = Marked(defs[n], s, t) /\ \A m \in Names : m # n => defs'[m] = defs[m]
    BY <1>1
  <1>3. defs'[n] # Absent /\ defs[n] # Absent
    BY <1>2 DEF Marked, Absent
  <1> QED BY <1>2, <1>3 DEF SameDeclaration, Marked

(* The steps of a resolution change the marks of definitions only.         *)
CallStep ==
    \/ Ask \/ ResolveKnown \/ ResolveUnknown \/ ResolveDone \/ ResolveCycle
    \/ ResolveTarget \/ Return \/ Deliver

LEMMA ReportAdds == ASSUME TypeOK, NEW w, NEW n PROVE Report(w, n) # <<>>
  <1> DEFINE r == [what |-> w, name |-> n]
  <1>1. errors \in Seq(Reports \cup {r}) /\ r \in Reports \cup {r}
    BY DEF TypeOK
  <1> HIDE DEF r
  <1>2. Len(Append(errors, r)) # 0
    BY <1>1
  <1> QED BY <1>2 DEF Report, r

LEMMA ReturnFacts ==
    ASSUME IInv, Return
    PROVE  /\ Len(stack) \in Nat \ {0} /\ DOMAIN stack = 1..Len(stack) /\ stack \in Seq(Frames)
           /\ stack[Len(stack)].def \in Names /\ stack[Len(stack)].form \in Forms
           /\ defs[stack[Len(stack)].def].state \in {"in_progress", "done"}
           /\ answer \in ResolvedTypes
           /\ stack' \in Seq(Frames) /\ Len(stack') = Len(stack) - 1
           /\ \A i \in 1..(Len(stack) - 1) : stack'[i] = stack[i]
  <1>1. /\ Len(stack) \in Nat \ {0} /\ DOMAIN stack = 1..Len(stack) /\ stack \in Seq(Frames)
        /\ Len(stack) \in DOMAIN stack /\ answer \in ResolvedTypes
    BY DEF IInv, TypeOK, Return
  <1>2. stack[Len(stack)].def \in Names /\ stack[Len(stack)].form \in Forms
    BY <1>1, FrameFields
  <1>3. defs[stack[Len(stack)].def].state \in {"in_progress", "done"}
    BY <1>1 DEF IInv, ActiveCalls
  <1>4. stack' = SubSeq(stack, 1, Len(stack) - 1)
    BY DEF Return
  <1>5. /\ stack' \in Seq(Frames) /\ Len(stack') = Len(stack) - 1
        /\ \A i \in 1..(Len(stack) - 1) : stack'[i] = stack[i]
    BY <1>1, <1>4
  <1> QED BY <1>1, <1>2, <1>3, <1>5

LEMMA TargetFacts ==
    ASSUME IInv, ResolveTarget
    PROVE  /\ want.name \in Names /\ want.form \in Forms
           /\ defs[want.name].state = "unresolved" /\ defs[want.name].target \in TypeExprs
           /\ stack \in Seq(Frames) /\ stack' \in Seq(Frames) /\ Len(stack') = Len(stack) + 1
           /\ DOMAIN stack = 1..Len(stack) /\ Len(stack) \in Nat
           /\ \A i \in 1..Len(stack) : stack'[i] = stack[i]
           /\ stack'[Len(stack) + 1] = [def |-> want.name, form |-> want.form]
           /\ defs[want.name].resolved \in ResolvedTypes \cup {Null}
  <1>1. want.name \in Names /\ want.form \in Forms /\ defs[want.name].state = "unresolved"
    BY WantName DEF IInv, ResolveTarget, InState
  <1>2. defs[want.name] \in AliasDefs
    BY <1>1 DEF IInv, TypeOK, Absent
  <1>3. stack \in Seq(Frames) /\ [def |-> want.name, form |-> want.form] \in Frames
    BY <1>1 DEF IInv, TypeOK, Frames
  <1>4. stack' = Append(stack, [def |-> want.name, form |-> want.form])
    BY DEF ResolveTarget
  <1>5. /\ stack' \in Seq(Frames) /\ Len(stack') = Len(stack) + 1
        /\ DOMAIN stack = 1..Len(stack) /\ Len(stack) \in Nat
        /\ \A i \in 1..Len(stack) : stack'[i] = stack[i]
        /\ stack'[Len(stack) + 1] = [def |-> want.name, form |-> want.form]
    BY <1>3, <1>4
  <1> QED BY <1>1, <1>2, <1>3, <1>5 DEF AliasDefs

LEMMA CallKeeps ==
    ASSUME IInv, CallStep
    PROVE  SameNames /\ UNCHANGED <<items, pass, at, structs, enums, funcs>>
  <1> USE DEF SameNames
  <1>1. UNCHANGED <<items, pass, at, structs, enums, funcs>>
    BY DEF CallStep, Ask, ResolveKnown, ResolveUnknown, ResolveDone, ResolveCycle,
           ResolveTarget, Return, Deliver, tables
  <1>2. CASE Ask \/ ResolveKnown \/ ResolveDone \/ Deliver
    BY <1>1, <1>2 DEF Ask, ResolveKnown, ResolveDone, Deliver, tables, SameDeclaration
  <1>3. CASE ResolveUnknown
    <2>1. errors' # <<>>
      BY <1>3, ReportAdds DEF ResolveUnknown, IInv
    <2> QED BY <1>1, <1>3, <2>1 DEF ResolveUnknown, tables, SameDeclaration
  <1>4. CASE ResolveCycle
    <2>1. errors' # <<>>
      BY <1>4, ReportAdds DEF ResolveCycle, IInv
    <2>2. want.name \in Names /\ defs[want.name].state = "in_progress"
      BY <1>4, WantName DEF ResolveCycle, InState, IInv
    <2>3. \A m \in Names : SameDeclaration(m)
      BY <1>4, <2>2, ErrorType, MarkKeeps DEF ResolveCycle
    <2> QED BY <1>1, <2>1, <2>3
  <1>5. CASE ResolveTarget
    <2>1. /\ want.name \in Names /\ defs[want.name].state = "unresolved"
          /\ defs[want.name].resolved \in ResolvedTypes \cup {Null}
      BY <1>5, TargetFacts
    <2>2. defs' = [defs EXCEPT ![want.name] = Marked(@, "in_progress", defs[want.name].resolved)]
      BY <1>5 DEF ResolveTarget
    <2>3. \A m \in Names : SameDeclaration(m)
      BY <2>1, <2>2, MarkKeeps
    <2> QED BY <1>1, <1>5, <2>3 DEF ResolveTarget
  <1>6. CASE Return
    <2> DEFINE n == stack[Len(stack)].def
    <2>1. n \in Names /\ defs[n].state # "absent" /\ answer \in ResolvedTypes
      BY <1>6, ReturnFacts
    <2>2. defs' = [defs EXCEPT ![n] = Marked(@, "done", answer)]
      BY <1>6 DEF Return
    <2>3. \A m \in Names : SameDeclaration(m)
      BY <2>1, <2>2, MarkKeeps
    <2> QED BY <1>1, <1>6, <2>3 DEF Return
  <1> QED BY <1>2, <1>3, <1>4, <1>5, <1>6 DEF CallStep

(* The registry is kept by every step.                                     *)
LEMMA NoNames ==
    ASSUME IInv, Registry, UNCHANGED <<items, defs, errors>>,
           DOMAIN structs' = DOMAIN structs, DOMAIN enums' = DOMAIN enums
    PROVE  SameNames
  BY DEF SameNames, SameDeclaration

LEMMA RegistryQuiet ==
    ASSUME IInv, Registry, UNCHANGED funcs, SameNames,
           \A i \in DOMAIN items : \A p \in {"alias", "enum", "struct", "sig"} : Did(i, p)' => Did(i, p)
    PROVE  Registry'
  <1>1. \A i \in DOMAIN items : Did(i, "sig")' => items[i].name \in DOMAIN funcs'
    BY DEF Registry, Listed
  <1> QED BY <1>1, RegistryKept

LEMMA CallRegistry == IInv /\ Registry /\ CallStep => Registry'
  <1> SUFFICES ASSUME IInv, Registry, CallStep PROVE Registry'
    OBVIOUS
  <1> QED BY CallKeeps, DidSame, RegistryQuiet

LEMMA NextPassRegistry == IInv /\ Registry /\ NextPass => Registry'
  <1> SUFFICES ASSUME IInv, Registry, NextPass PROVE Registry'
    OBVIOUS
  <1>1. SameNames /\ UNCHANGED funcs
    BY NoNames DEF NextPass, tables
  <1>2. \A i \in DOMAIN items : \A p \in {"alias", "enum", "struct", "sig"} : Did(i, p)' => Did(i, p)
    BY DidNextPass DEF Passes
  <1> QED BY <1>1, <1>2, RegistryQuiet

LEMMA SkipRegistry == IInv /\ Registry /\ Skip => Registry'
  <1> SUFFICES ASSUME IInv, Registry, Skip PROVE Registry'
    OBVIOUS
  <1>1. SameNames /\ UNCHANGED funcs
    BY NoNames DEF Skip, NextItem, tables
  <1>2. \A i \in DOMAIN items : \A p \in {"alias", "enum", "struct", "sig"} : Did(i, p)' => Did(i, p)
    BY DidNextItem DEF Passes, Skip
  <1> QED BY <1>1, <1>2, RegistryQuiet

(* Fields and forced definitions leave the names in the tables.            *)
LEMMA FieldRegistry == IInv /\ Registry /\ (ResolveFields \/ Forced) => Registry'
  <1> SUFFICES ASSUME IInv, Registry, ResolveFields \/ Forced PROVE Registry'
    OBVIOUS
  <1>1. SameNames /\ UNCHANGED funcs /\ NextItem /\ pass \in {"field", "force"} /\ at <= Len(items)
    BY NoNames DEF ResolveFields, Forced, NextItem, tables, Visits
  <1>2. \A i \in DOMAIN items : \A p \in {"alias", "enum", "struct", "sig"} : Did(i, p)' => Did(i, p)
    BY <1>1, DidNextItem DEF Passes
  <1> QED BY <1>1, <1>2, RegistryQuiet

LEMMA FuncErrors == IInv /\ RegisterFunc => (errors' = <<>> => errors = <<>>)
  <1> SUFFICES ASSUME IInv, RegisterFunc PROVE errors' = <<>> => errors = <<>>
    OBVIOUS
  <1>1. PICK a, b : /\ errors' = a \o b
                    /\ a = Report("duplicate", Item.name) \/ a = errors
                    /\ b = <<[what |-> "ref returned", name |-> Item.name]>> \/ b = <<>>
    BY Zenon DEF RegisterFunc
  <1>2. Item.name \in Names /\ errors \in Seq(Reports)
    <2>1. Visits("sig")
      BY Zenon DEF RegisterFunc
    <2> QED BY <2>1, VisitFacts DEF IInv, TypeOK
  <1>3. Report("duplicate", Item.name) \in Seq(Reports)
    BY <1>2, ReportType
  <1>4. <<[what |-> "ref returned", name |-> Item.name]>> \in Seq(Reports)
    <2>1. [what |-> "ref returned", name |-> Item.name] \in Reports
      BY <1>2 DEF Reports
    <2> QED BY <2>1, OneElement
  <1>5. a \in Seq(Reports) /\ b \in Seq(Reports)
    <2>1. <<>> \in Seq(Reports)
      OBVIOUS
    <2> QED BY <1>1, <1>2, <1>3, <1>4, <2>1, Zenon
  <1>6. a # <<>> => a \o b # <<>>
    BY <1>5
  <1>7. errors # <<>> => a # <<>>
    BY <1>1, ReportAdds DEF IInv
  <1> QED BY <1>1, <1>6, <1>7, Zenon

LEMMA FuncRegistry == IInv /\ Registry /\ RegisterFunc => Registry'
  <1> SUFFICES ASSUME IInv, Registry, RegisterFunc PROVE Registry'
    OBVIOUS
  <1>1. /\ UNCHANGED <<items, structs, enums, defs>> /\ NextItem /\ pass = "sig"
        /\ at <= Len(items) /\ funcs' = With(funcs, Item.name, row)
    BY Zenon DEF RegisterFunc, NextItem, Visits
  <1>2. errors' = <<>> => errors = <<>>
    BY FuncErrors
  <1>3. SameNames
    BY <1>1, <1>2 DEF SameNames, SameDeclaration
  <1>4. \A i \in DOMAIN items : \A p \in {"alias", "enum", "struct"} : Did(i, p)' => Did(i, p)
    BY <1>1, DidNextItem DEF Passes
  <1>5. \A i \in DOMAIN items : Did(i, "sig")' => Did(i, "sig") \/ i = at
    BY <1>1, DidNextItem DEF Passes
  <1>6. DOMAIN funcs' = DOMAIN funcs \cup {Item.name}
    BY <1>1 DEF With
  <1>7. \A i \in DOMAIN items : Did(i, "sig")' => items[i].name \in DOMAIN funcs'
    BY <1>5, <1>6 DEF Registry, Listed, Item
  <1> QED BY <1>3, <1>4, <1>7, RegistryKept

(* A name in a table may be declared once more.                            *)
LEMMA DuplicateRegistry ==
    ASSUME NEW p \in {"enum", "struct"} PROVE IInv /\ Registry /\ Duplicate(p) => Registry'
  <1> SUFFICES ASSUME IInv, Registry, Duplicate(p) PROVE Registry'
    OBVIOUS
  <1>1. /\ UNCHANGED <<items, structs, enums, defs, funcs>> /\ NextItem /\ pass = p
        /\ at <= Len(items) /\ Taken(Item.name)
    BY DEF Duplicate, NextItem, Visits, tables
  <1>2. errors' # <<>>
    BY ReportAdds DEF Duplicate, IInv
  <1>3. \A i \in DOMAIN items : /\ Did(i, "alias")' => Did(i, "alias")
                                /\ Did(i, "sig")' => Did(i, "sig")
                                /\ Noted(i)' => Noted(i) \/ i = at
    BY <1>1, DidNextItem DEF Passes, Noted
  <1>4. Listed'
    BY <1>1, <1>3 DEF Registry, Listed, Taken, Item
  <1>5. Declared'
    BY <1>1 DEF Registry, Declared, Declares
  <1> QED BY <1>2, <1>4, <1>5 DEF Registry, Unique, Targets

(* A name that no table has is the name of no declaration handled.         *)
LEMMA NotNoted ==
    ASSUME IInv, Registry, ~Taken(Item.name)
    PROVE  \A i \in DOMAIN items : Noted(i) => items[i].name # Item.name
  BY DEF Registry, Listed

LEMMA EnumRegistry == IInv /\ Registry /\ RegisterEnum => Registry'
  <1> SUFFICES ASSUME IInv, Registry, RegisterEnum PROVE Registry'
    OBVIOUS
  <1>1. /\ UNCHANGED <<items, structs, defs, funcs, errors>> /\ NextItem /\ pass = "enum"
        /\ at <= Len(items) /\ ~Taken(Item.name) /\ Item.kind = "enum"
        /\ enums' = With(enums, Item.name, row)
    BY DEF RegisterEnum, NextItem, Visits, KindsOf
  <1>2. at \in DOMAIN items
    BY <1>1, VisitFacts DEF RegisterEnum
  <1>3. \A i \in DOMAIN items : /\ Did(i, "alias")' => Did(i, "alias")
                                /\ Did(i, "sig")' => Did(i, "sig")
                                /\ Noted(i)' => Noted(i) \/ i = at
    BY <1>1, DidNextItem DEF Passes, Noted
  <1>4. DOMAIN enums' = DOMAIN enums \cup {Item.name}
    BY <1>1 DEF With
  <1>5. Listed'
    BY <1>1, <1>3, <1>4 DEF Registry, Listed, Taken, Item
  <1>6. Declared'
    <2>1. Declares(Item.name, {"enum"})
      BY <1>1, <1>2 DEF Declares, Item
    <2> QED BY <1>1, <1>4, <2>1 DEF Registry, Declared, Declares
  <1>7. Unique'
    BY <1>1, <1>3, NotNoted DEF Registry, Unique, Item
  <1>8. Targets'
    BY <1>1, <1>3 DEF Registry, Targets
  <1> QED BY <1>5, <1>6, <1>7, <1>8 DEF Registry

LEMMA StructRegistry == IInv /\ Registry /\ RegisterStruct => Registry'
  <1> SUFFICES ASSUME IInv, Registry, RegisterStruct PROVE Registry'
    OBVIOUS
  <1>1. /\ UNCHANGED <<items, enums, defs, funcs, errors>> /\ NextItem /\ pass = "struct"
        /\ at <= Len(items) /\ ~Taken(Item.name) /\ Item.kind = "struct"
        /\ structs' = With(structs, Item.name, [k \in DOMAIN Item.types |-> Null])
    BY DEF RegisterStruct, NextItem, Visits, KindsOf
  <1>2. at \in DOMAIN items
    BY <1>1, VisitFacts DEF RegisterStruct
  <1>3. \A i \in DOMAIN items : /\ Did(i, "alias")' => Did(i, "alias")
                                /\ Did(i, "sig")' => Did(i, "sig")
                                /\ Noted(i)' => Noted(i) \/ i = at
    BY <1>1, DidNextItem DEF Passes, Noted
  <1>4. DOMAIN structs' = DOMAIN structs \cup {Item.name}
    BY <1>1 DEF With
  <1>5. Listed'
    BY <1>1, <1>3, <1>4 DEF Registry, Listed, Taken, Item
  <1>6. Declared'
    <2>1. Declares(Item.name, {"struct"})
      BY <1>1, <1>2 DEF Declares, Item
    <2> QED BY <1>1, <1>4, <2>1 DEF Registry, Declared, Declares
  <1>7. Unique'
    BY <1>1, <1>3, NotNoted DEF Registry, Unique, Item
  <1>8. Targets'
    BY <1>1, <1>3 DEF Registry, Targets
  <1> QED BY <1>5, <1>6, <1>7, <1>8 DEF Registry

(* In the first pass only aliases are noted.                               *)
LEMMA FirstPass == ASSUME pass = "alias", NEW i, Noted(i) PROVE Did(i, "alias")
  BY DEF Noted, Did, Past, PassNo

LEMMA AliasRegistry == IInv /\ Registry /\ RegisterAlias => Registry'
  <1> SUFFICES ASSUME IInv, Registry, RegisterAlias PROVE Registry'
    OBVIOUS
  <1> DEFINE n == Item.name
             d == [state |-> "unresolved", newtype |-> Item.kind = "newtype",
                   target |-> Head(Item.types), resolved |-> Null]
  <1>1. /\ UNCHANGED <<items, structs, enums, funcs>> /\ NextItem /\ pass = "alias"
        /\ at <= Len(items) /\ n \in Names /\ at \in DOMAIN items /\ Item.kind \in AliasKinds
    BY VisitFacts DEF RegisterAlias, NextItem, Visits, KindsOf
  <1>2. \A i \in DOMAIN items : /\ Did(i, "alias")' => Did(i, "alias") \/ i = at
                                /\ Did(i, "sig")' => Did(i, "sig")
                                /\ Noted(i)' => Noted(i) \/ i = at
    BY <1>1, DidNextItem DEF Passes, Noted
  <1>3. CASE defs[n] # Absent
    <2>1. errors' # <<>> /\ UNCHANGED defs
      BY <1>3, ReportAdds DEF RegisterAlias, IInv
    <2>2. Listed'
      BY <1>1, <1>2, <1>3, <2>1 DEF Registry, Listed, Taken, Item
    <2>3. Declared'
      BY <1>1, <2>1 DEF Registry, Declared, Declares
    <2> QED BY <2>1, <2>2, <2>3 DEF Registry, Unique, Targets
  <1>4. CASE defs[n] = Absent
    <2>1. defs' = [defs EXCEPT ![n] = d] /\ UNCHANGED errors /\ DOMAIN defs = Names
      BY <1>4 DEF RegisterAlias, IInv, TypeOK
    <2>2. defs'[n] = d /\ d # Absent /\ \A m \in Names : m # n => defs'[m] = defs[m]
      BY <1>1, <2>1 DEF Absent
    <2>3. \A i \in DOMAIN items : items[i].name \in Names
      BY ItemAt DEF IInv
    <2>4. Listed'
      BY <1>1, <1>2, <2>2, <2>3 DEF Registry, Listed, Taken, Item
    <2>5. Declared'
      <3>1. Declares(n, AliasKinds)
        BY <1>1 DEF Declares, Item
      <3> QED BY <1>1, <2>2, <3>1 DEF Registry, Declared, Declares
    <2>6. \A i \in DOMAIN items : Noted(i) => items[i].name # n
      BY <1>1, <1>4, FirstPass DEF Registry, Listed
    <2>7. Unique'
      BY <1>1, <1>2, <2>1, <2>6 DEF Registry, Unique, Item
    <2>8. \A i \in DOMAIN items : Did(i, "alias") => items[i].name # n
      BY <2>6 DEF Noted
    <2>9. Targets'
      BY <1>1, <1>2, <2>1, <2>2, <2>3, <2>8 DEF Registry, Targets, Item
    <2> QED BY <2>4, <2>5, <2>7, <2>9 DEF Registry
  <1> QED BY <1>3, <1>4

LEMMA FirstRegistry == Init => Registry
  <1> SUFFICES ASSUME Init PROVE Registry
    OBVIOUS
  <1>1. items \in Seq(Items) /\ \A i \in DOMAIN items : i \in Nat /\ ~(i < 1)
    BY TableAssumption DEF Init
  <1>2. \A i \in DOMAIN items : \A p \in Passes : ~Did(i, p)
    BY <1>1 DEF Init, Did, Past, PassNo, Passes
  <1>3. \A i \in DOMAIN items : ~Did(i, "alias") /\ ~Noted(i) /\ ~Did(i, "sig")
    BY <1>2 DEF Noted, Passes
  <1>4. Declared
    BY DEF Init, Declared, Empty
  <1> QED BY <1>3, <1>4 DEF Registry, Listed, Unique, Targets

LEMMA RegistryInductive == IInv /\ Registry /\ [Next]_vars => Registry'
  <1> SUFFICES ASSUME IInv, Registry, [Next]_vars PROVE Registry'
    OBVIOUS
  <1>1. CASE UNCHANGED vars
    <2>1. SameNames /\ UNCHANGED <<items, pass, at, funcs>>
      BY <1>1, NoNames DEF vars, tables
    <2> QED BY <2>1, DidSame, RegistryQuiet
  <1>2. CASE CallStep
    BY <1>2, CallRegistry
  <1>3. CASE Skip \/ NextPass \/ ResolveFields \/ Forced \/ RegisterFunc
    BY <1>3, SkipRegistry, NextPassRegistry, FieldRegistry, FuncRegistry
  <1>4. CASE DuplicateEnum \/ DuplicateStruct
    BY <1>4, DuplicateRegistry DEF DuplicateEnum, DuplicateStruct
  <1>5. CASE RegisterAlias \/ RegisterEnum \/ RegisterStruct
    BY <1>5, AliasRegistry, EnumRegistry, StructRegistry
  <1> QED BY <1>1, <1>2, <1>3, <1>4, <1>5 DEF Next, CallStep

-----------------------------------------------------------------------------
(* The active calls. The item asks for one type at a time; the first call  *)
(* resolves what it asked for, each other one the target of the call below *)
(* it, and the type on its way answers the last of these.                  *)
Asked      == IF pass = "force" THEN [form |-> "plain", name |-> Item.name]
              ELSE Item.types[Len(row) + 1]
AskedBy(i) == IF i = 0 THEN Asked ELSE defs[stack[i].def].target
Wanted     == AskedBy(Len(stack))
Visiting   == pass # "done" /\ at <= Len(items) /\ Item.kind \in KindsOf(pass) /\ Asks(pass)

Calling ==
    /\ want = Nothing \/ answer = Null
    /\ stack # <<>> => want # Nothing \/ answer # Null
    /\ ~Idle => Visiting
    /\ want # Nothing => want = Wanted
    /\ \A i \in DOMAIN stack : /\ stack[i].def = AskedBy(i - 1).name
                               /\ stack[i].form = AskedBy(i - 1).form
    /\ at > Len(items) => row = <<>>
InProgress == errors = <<>> => \A i \in DOMAIN stack : defs[stack[i].def].state = "in_progress"

ItemStep ==
    \/ Skip \/ RegisterAlias \/ DuplicateEnum \/ RegisterEnum
    \/ DuplicateStruct \/ RegisterStruct \/ ResolveFields \/ Forced \/ RegisterFunc

LEMMA ItemStepFacts ==
    ASSUME IInv, ItemStep
    PROVE  Idle /\ NextItem /\ Idle' /\ at <= Len(items) /\ row' = <<>> /\ UNCHANGED items
  <1>1. Idle /\ NextItem /\ at <= Len(items)
    BY DEF ItemStep, Skip, RegisterAlias, DuplicateEnum, RegisterEnum, DuplicateStruct,
           RegisterStruct, ResolveFields, Forced, RegisterFunc, Duplicate, Visits
  <1> QED BY <1>1 DEF NextItem, Idle, calls

LEMMA IdleCalling ==
    ASSUME Idle', at' > Len(items') => row' = <<>>
    PROVE  Calling' /\ InProgress'
  BY DEF Calling, InProgress, Idle

LEMMA BaseAnswer ==
    ASSUME NEW form, NEW t, t.kind # "null" PROVE Under(form, t) # Null
  BY UnderKind DEF Null, Type

LEMMA VisitingKept ==
    ASSUME IInv, Visiting, SameNames, UNCHANGED <<pass, at, row>>
    PROVE  Visiting'
  <1>1. Item.name \in Names
    <2>1. at \in 1..Len(items)
      BY DEF IInv, TypeOK, Visiting
    <2> QED BY <2>1, ItemTypes DEF IInv
  <1>2. Item' = Item /\ (Taken(Item.name) <=> Taken(Item.name)')
    BY <1>1 DEF Item, SameNames, SameDeclaration, Taken
  <1> QED BY <1>2 DEF Visiting, Asks, SameNames, KindsOf

(* What the calls asked for does not change.                               *)
LEMMA AskedKept ==
    ASSUME IInv, SameNames, UNCHANGED <<pass, at, row>>, NEW k \in Nat,
           \A i \in 1..k : i \in DOMAIN stack /\ stack'[i] = stack[i]
    PROVE  \A i \in 0..k : AskedBy(i)' = AskedBy(i)
  <1>1. Asked' = Asked
    BY DEF Asked, Item, SameNames
  <1> SUFFICES ASSUME NEW i \in 0..k, i # 0
               PROVE  defs'[stack'[i].def].target = defs[stack[i].def].target
    BY <1>1 DEF AskedBy
  <1>2. stack[i].def \in Names /\ stack'[i] = stack[i]
    BY FrameFields DEF IInv, TypeOK
  <1> QED BY <1>2 DEF SameNames, SameDeclaration

LEMMA AnswerCalling ==
    ASSUME IInv, Calling, CallStep, want # Nothing, want' = Nothing, answer' # Null,
           UNCHANGED <<row, stack>>
    PROVE  Calling'
  <1>1. SameNames /\ UNCHANGED <<items, pass, at>>
    BY CallKeeps
  <1>2. Visiting'
    BY <1>1, VisitingKept DEF Calling, Idle
  <1>3. Len(stack) \in Nat /\ DOMAIN stack = 1..Len(stack)
    BY DEF IInv, TypeOK
  <1>4. \A i \in 0..Len(stack) : AskedBy(i)' = AskedBy(i)
    BY <1>1, <1>3, AskedKept
  <1>5. \A i \in DOMAIN stack : AskedBy(i - 1)' = AskedBy(i - 1)
    BY <1>3, <1>4
  <1> QED BY <1>1, <1>2, <1>5 DEF Calling

LEMMA KnownKind ==
    ASSUME NEW n, NEW m PROVE Type(KindOf(n), m).kind \in {"builtin", "struct", "enum"}
  BY DEF Type, KindOf

(* What resolve_type gives is a type.                                      *)
LEMMA DefKind ==
    ASSUME NEW n, NEW t \in ResolvedTypes PROVE TypeOfDef(n, t).kind # "null"
  BY DEF TypeOfDef, ResolvedTypes, BaseKinds, Type

LEMMA ResolvedCalling ==
    IInv /\ Calling /\ (ResolveKnown \/ ResolveUnknown \/ ResolveDone \/ ResolveCycle) => Calling'
  <1> SUFFICES ASSUME IInv, Calling, ResolveKnown \/ ResolveUnknown \/ ResolveDone \/ ResolveCycle
               PROVE  Calling'
    OBVIOUS
  <1>1. want # Nothing /\ want' = Nothing /\ UNCHANGED <<row, stack>> /\ CallStep
    BY DEF ResolveKnown, ResolveUnknown, ResolveDone, ResolveCycle, InState, Answer, CallStep
  <1>2. answer' # Null
    <2>1. CASE ResolveKnown
      BY <2>1, KnownKind, BaseAnswer DEF ResolveKnown, Answer
    <2>2. CASE ResolveUnknown \/ ResolveCycle
      <3>1. Error.kind # "null"
        BY DEF Error, Type
      <3> QED BY <2>2, <3>1, BaseAnswer DEF ResolveUnknown, ResolveCycle, Answer
    <2>3. CASE ResolveDone
      <3>1. want.name \in Names /\ defs[want.name].state = "done"
        BY <2>3, WantName DEF ResolveDone, InState, IInv
      <3>2. defs[want.name].resolved \in ResolvedTypes
        BY <3>1 DEF IInv, DoneResolved
      <3> QED BY <2>3, <3>2, DefKind, BaseAnswer DEF ResolveDone, Answer
    <2> QED BY <2>1, <2>2, <2>3
  <1> QED BY <1>1, <1>2, AnswerCalling

LEMMA AskCalling == IInv /\ Calling /\ Ask => Calling'
  <1> SUFFICES ASSUME IInv, Calling, Ask PROVE Calling'
    OBVIOUS
  <1>1. /\ Idle /\ Visiting /\ want' = Asked /\ UNCHANGED <<pass, at, row, answer, stack>>
    BY DEF Ask, Visits, Visiting, Asked
  <1>2. SameNames
    BY CallKeeps DEF CallStep
  <1>3. Visiting'
    BY <1>1, <1>2, VisitingKept
  <1>4. Asked' = Asked
    BY <1>1, <1>2 DEF Asked, Item, SameNames
  <1>5. stack' = <<>> /\ answer' = Null /\ Len(stack') = 0
    BY <1>1 DEF Idle
  <1>6. Wanted' = Asked'
    BY <1>5 DEF Wanted, AskedBy
  <1>7. at' > Len(items') => row' = <<>>
    BY <1>1, <1>2 DEF Calling, SameNames
  <1> QED BY <1>1, <1>3, <1>4, <1>5, <1>6, <1>7 DEF Calling

LEMMA TargetCalling == IInv /\ Calling /\ ResolveTarget => Calling'
  <1> SUFFICES ASSUME IInv, Calling, ResolveTarget PROVE Calling'
    OBVIOUS
  <1> DEFINE k == Len(stack)
  <1>1. /\ want # Nothing /\ answer = Null /\ want = Wanted
        /\ UNCHANGED <<pass, at, row, answer>> /\ want' = defs[want.name].target
        /\ Visiting
    BY DEF ResolveTarget, InState, Calling, Idle
  <1>2. SameNames
    BY CallKeeps DEF CallStep
  <1>3. /\ want.name \in Names /\ defs[want.name].target \in TypeExprs
        /\ stack' \in Seq(Frames) /\ Len(stack') = k + 1
        /\ DOMAIN stack = 1..k /\ k \in Nat
        /\ \A i \in 1..k : stack'[i] = stack[i]
        /\ stack'[k + 1] = [def |-> want.name, form |-> want.form]
    BY TargetFacts
  <1>4. Visiting'
    BY <1>1, <1>2, VisitingKept
  <1>5. \A i \in 0..k : AskedBy(i)' = AskedBy(i)
    BY <1>1, <1>2, <1>3, AskedKept
  <1>6. Wanted' = want'
    <2>1. Wanted' = defs'[stack'[k + 1].def].target
      BY <1>3 DEF Wanted, AskedBy
    <2>2. stack'[k + 1].def = want.name
      BY <1>3
    <2> QED BY <1>1, <1>2, <1>3, <2>1, <2>2 DEF SameNames, SameDeclaration
  <1>7. ASSUME NEW i \in DOMAIN stack'
        PROVE  stack'[i].def = AskedBy(i - 1)'.name /\ stack'[i].form = AskedBy(i - 1)'.form
    <2>1. DOMAIN stack' = 1..(k + 1) /\ i - 1 \in 0..k
      BY <1>3
    <2>2. AskedBy(i - 1)' = AskedBy(i - 1)
      BY <1>5, <2>1
    <2>3. CASE i = k + 1
      <3>1. i - 1 = k
        BY <1>3, <2>3
      <3>2. stack'[i].def = want.name /\ stack'[i].form = want.form
        BY <1>3, <2>3
      <3> QED BY <1>1, <2>2, <3>1, <3>2 DEF Wanted
    <2>4. CASE i # k + 1
      <3>1. i \in DOMAIN stack /\ stack'[i] = stack[i]
        BY <1>3, <2>1, <2>4
      <3> QED BY <2>2, <3>1 DEF Calling
    <2> QED BY <2>3, <2>4
  <1>8. at' > Len(items') => row' = <<>>
    BY <1>1, <1>2 DEF Calling, SameNames
  <1>9. answer' = Null /\ want' # Nothing
    BY <1>1, <1>3, NothingIsNoTypeExpr
  <1> QED BY <1>4, <1>6, <1>7, <1>8, <1>9 DEF Calling

LEMMA ReturnCalling == IInv /\ Calling /\ Return => Calling'
  <1> SUFFICES ASSUME IInv, Calling, Return PROVE Calling'
    OBVIOUS
  <1> DEFINE k == Len(stack)
  <1>1. /\ answer # Null /\ want = Nothing /\ want' = Nothing
        /\ UNCHANGED <<pass, at, row>> /\ Visiting
        /\ answer' = Under(stack[k].form, TypeOfDef(stack[k].def, answer))
    BY DEF Return, Calling, Idle
  <1>2. SameNames
    BY CallKeeps DEF CallStep
  <1>3. /\ k \in Nat \ {0} /\ DOMAIN stack = 1..k /\ answer \in ResolvedTypes
        /\ stack' \in Seq(Frames) /\ Len(stack') = k - 1
        /\ \A i \in 1..(k - 1) : stack'[i] = stack[i]
    BY ReturnFacts
  <1>4. Visiting'
    BY <1>1, <1>2, VisitingKept
  <1>5. answer' # Null
    BY <1>1, <1>3, DefKind, BaseAnswer
  <1>6. \A i \in 0..(k - 1) : AskedBy(i)' = AskedBy(i)
    <2>1. k - 1 \in Nat /\ \A i \in 1..(k - 1) : i \in DOMAIN stack
      BY <1>3
    <2> QED BY <1>1, <1>2, <1>3, <2>1, AskedKept
  <1>7. ASSUME NEW i \in DOMAIN stack'
        PROVE  stack'[i].def = AskedBy(i - 1)'.name /\ stack'[i].form = AskedBy(i - 1)'.form
    <2>1. i \in 1..(k - 1) /\ i \in DOMAIN stack /\ i - 1 \in 0..(k - 1)
      BY <1>3
    <2>2. AskedBy(i - 1)' = AskedBy(i - 1) /\ stack'[i] = stack[i]
      BY <1>3, <1>6, <2>1
    <2> QED BY <2>1, <2>2 DEF Calling
  <1>8. at' > Len(items') => row' = <<>>
    BY <1>1, <1>2 DEF Calling, SameNames
  <1> QED BY <1>1, <1>4, <1>5, <1>7, <1>8 DEF Calling

LEMMA DeliverCalling == IInv /\ Calling /\ Deliver => Calling' /\ InProgress'
  <1> SUFFICES ASSUME IInv, Calling, Deliver PROVE Calling' /\ InProgress'
    OBVIOUS
  <1>1. want = Nothing /\ answer # Null /\ Visiting
    BY DEF Deliver, Calling, Idle
  <1>2. Idle'
    BY <1>1 DEF Deliver, Idle
  <1>3. ~(at' > Len(items'))
    BY <1>1 DEF Deliver, Visiting, IInv, TypeOK
  <1> QED BY <1>2, <1>3, IdleCalling

LEMMA TargetInProgress == IInv /\ InProgress /\ ResolveTarget => InProgress'
  <1> SUFFICES ASSUME IInv, InProgress, ResolveTarget, errors' = <<>>, NEW i \in DOMAIN stack'
               PROVE  defs'[stack'[i].def].state = "in_progress"
    BY DEF InProgress
  <1> DEFINE n == want.name
             k == Len(stack)
  <1>1. /\ n \in Names /\ defs[n].state = "unresolved"
        /\ stack' \in Seq(Frames) /\ Len(stack') = k + 1
        /\ DOMAIN stack = 1..k /\ k \in Nat
        /\ \A j \in 1..k : stack'[j] = stack[j]
        /\ stack'[k + 1] = [def |-> n, form |-> want.form]
        /\ defs[n].resolved \in ResolvedTypes \cup {Null}
    BY TargetFacts
  <1>2. errors = <<>> /\ defs' = [defs EXCEPT ![n] = Marked(@, "in_progress", defs[n].resolved)]
    BY DEF ResolveTarget
  <1>3. defs'[n].state = "in_progress" /\ \A m \in Names : m # n => defs'[m] = defs[m]
    BY <1>1, <1>2, MarkKeeps
  <1>4. CASE i = k + 1
    BY <1>1, <1>3, <1>4
  <1>5. CASE i # k + 1
    <2>1. i \in DOMAIN stack /\ stack'[i] = stack[i]
      BY <1>1, <1>5
    <2>2. stack[i].def \in Names
      BY <2>1, FrameFields DEF IInv, TypeOK
    <2> QED BY <1>2, <1>3, <2>1, <2>2 DEF InProgress
  <1> QED BY <1>4, <1>5

LEMMA ReturnInProgress == IInv /\ InProgress /\ Return => InProgress'
  <1> SUFFICES ASSUME IInv, InProgress, Return, errors' = <<>>, NEW i \in DOMAIN stack'
               PROVE  defs'[stack'[i].def].state = "in_progress"
    BY DEF InProgress
  <1> DEFINE k == Len(stack)
             n == stack[k].def
  <1>1. /\ k \in Nat \ {0} /\ DOMAIN stack = 1..k /\ n \in Names
        /\ defs[n].state \in {"in_progress", "done"} /\ answer \in ResolvedTypes
        /\ stack' \in Seq(Frames) /\ Len(stack') = k - 1
        /\ \A j \in 1..(k - 1) : stack'[j] = stack[j]
    BY ReturnFacts
  <1>2. errors = <<>> /\ defs' = [defs EXCEPT ![n] = Marked(@, "done", answer)]
    BY DEF Return
  <1>3. \A m \in Names : m # n => defs'[m] = defs[m]
    BY <1>1, <1>2, MarkKeeps
  <1>4. i \in DOMAIN stack /\ i # k /\ stack'[i] = stack[i] /\ k \in DOMAIN stack
    BY <1>1
  <1>5. stack[i].def # n
    BY <1>4 DEF IInv, ActiveCalls
  <1>6. stack[i].def \in Names
    BY <1>4, FrameFields DEF IInv, TypeOK
  <1> QED BY <1>2, <1>3, <1>4, <1>5, <1>6 DEF InProgress

LEMMA CallingInductive ==
    IInv /\ Calling /\ InProgress /\ [Next]_vars => Calling' /\ InProgress'
  <1> SUFFICES ASSUME IInv, Calling, InProgress, [Next]_vars PROVE Calling' /\ InProgress'
    OBVIOUS
  <1>1. CASE UNCHANGED vars
    BY <1>1 DEF vars, tables, calls, Calling, InProgress, Idle, Visiting, Asks, KindsOf, Wanted,
                AskedBy, Asked, Item, Taken
  <1>2. CASE ItemStep
    BY <1>2, ItemStepFacts, IdleCalling
  <1>3. CASE NextPass
    <2>1. at > Len(items) /\ UNCHANGED <<items, row, want, answer, stack>>
      BY <1>3 DEF NextPass, calls
    <2>2. Idle /\ row = <<>>
      <3>1. ~(at <= Len(items))
        BY <2>1 DEF IInv, TypeOK
      <3> QED BY <2>1, <3>1 DEF Calling, Visiting
    <2> QED BY <2>1, <2>2, IdleCalling DEF Idle
  <1>4. CASE Ask
    <2>1. stack' = <<>>
      BY <1>4 DEF Ask, Visits, Idle
    <2> QED BY <1>4, <2>1, AskCalling DEF InProgress
  <1>5. CASE ResolveKnown \/ ResolveDone
    <2>1. UNCHANGED <<errors, stack, defs>>
      BY <1>5 DEF ResolveKnown, ResolveDone, tables
    <2> QED BY <1>5, <2>1, ResolvedCalling DEF InProgress
  <1>6. CASE ResolveUnknown \/ ResolveCycle
    <2>1. errors' # <<>>
      BY <1>6, ReportAdds DEF ResolveUnknown, ResolveCycle, IInv
    <2> QED BY <1>6, <2>1, ResolvedCalling DEF InProgress
  <1>7. CASE ResolveTarget
    BY <1>7, TargetCalling, TargetInProgress
  <1>8. CASE Return
    BY <1>8, ReturnCalling, ReturnInProgress
  <1>9. CASE Deliver
    BY <1>9, DeliverCalling
  <1> QED BY <1>1, <1>2, <1>3, <1>4, <1>5, <1>6, <1>7, <1>8, <1>9 DEF Next, ItemStep

-----------------------------------------------------------------------------
(* What names stand for depends on the module alone.                       *)
LEMMA SameMeaning == ASSUME UNCHANGED items PROVE Denotes' = Denotes
  <1>1. \A n, d, b : StandsFor(n, d, b)' = StandsFor(n, d, b)
    BY DEF StandsFor, Declares, Declaration
  <1> QED BY <1>1, Zenon DEF Denotes

(* The definitions resolved so far; t is the type that te means, read      *)
(* through at most d aliases.                                              *)
Finished        == {n \in Names : defs[n].state = "done"}
Plain           == errors = <<>> /\ Distinct
Meant(t, d, te) == t.kind # "error" /\ t = Under(te.form, Denotes[d][te.name])

(* While no error was reported: a definition was resolved to what its      *)
(* target means through fewer aliases than there are definitions resolved, *)
(* the type on its way is what was asked for, and so are the types of the  *)
(* item so far.                                                            *)
DefsMean == \A n \in Finished :
    \E d \in 0..(Cardinality(Finished) - 1) : Meant(defs[n].resolved, d, defs[n].target)
AnswerMeans == answer # Null =>
    /\ \E d \in 0..Cardinality(Finished) : Meant(answer, d, Wanted)
    /\ defs[Wanted.name] # Absent => Wanted.name \in Finished
RowMeans ==
    /\ pass # "force" => \A k \in 1..Len(row) : Meant(row[k], Depth, Item.types[k])
    /\ pass = "force" /\ row # <<>> => Item.name \in Finished
Meanings == Plain => DefsMean /\ AnswerMeans /\ RowMeans

LEMMA PartOfNames ==
    ASSUME NEW S \in SUBSET Names
    PROVE  /\ IsFiniteSet(S) /\ Cardinality(S) \in 0..Depth
           /\ \A n \in Names \ S : /\ Cardinality(S \cup {n}) = Cardinality(S) + 1
                                   /\ Cardinality(S) < Depth
  <1>1. IsFiniteSet(Names) /\ Depth \in Nat
    BY TableAssumption, DepthType
  <1>2. \A T \in SUBSET Names : IsFiniteSet(T) /\ Cardinality(T) <= Depth /\ Cardinality(T) \in Nat
    BY <1>1, FS_Subset, FS_CardinalityType DEF Depth
  <1>3. \A n \in Names \ S : Cardinality(S \cup {n}) = Cardinality(S) + 1
    BY <1>2, FS_AddElement
  <1>4. \A n \in Names \ S : Cardinality(S) < Depth
    <2> TAKE n \in Names \ S
    <2>1. S \cup {n} \in SUBSET Names
      OBVIOUS
    <2>2. Cardinality(S \cup {n}) <= Depth /\ Cardinality(S) \in Nat
      BY <1>2, <2>1
    <2>3. Cardinality(S \cup {n}) = Cardinality(S) + 1
      BY <1>3
    <2> QED BY <1>1, <2>2, <2>3
  <1> QED BY <1>1, <1>2, <1>3, <1>4

LEMMA FinishedSize ==
    Cardinality(Finished) \in 0..Depth /\ Depth \in Nat /\ IsFiniteSet(Finished)
  <1>1. Finished \in SUBSET Names
    BY DEF Finished
  <1> QED BY <1>1, PartOfNames, DepthType

(* A definition means at every depth what it means at one.                 *)
LEMMA MeantDeeper ==
    ASSUME items \in Modules, Distinct, NEW t, NEW d \in 0..Depth, NEW te, te.name \in Names,
           Meant(t, d, te), NEW e \in 0..Depth, d <= e
    PROVE  Meant(t, e, te)
  <1>1. Denotes[d][te.name].kind # "error"
    BY UnderKind DEF Meant
  <1>2. Denotes[e][te.name] = Denotes[d][te.name]
    BY <1>1, DenotesStable
  <1> QED BY <1>2 DEF Meant

(* resolve_type on a builtin, a struct or an enum.                         *)
LEMMA MeantKnown ==
    ASSUME IInv, Registry, Distinct, NEW n \in Names, Registered(n)
    PROVE  /\ Denotes[0][n] = Type(KindOf(n), n)
           /\ defs[n] = Absent
  <1>1. Denotes[0][n] = StandsFor(n, 0, Denotes[0 - 1])
    BY DepthType, DenotesMeans
  <1>2. \A kinds, kinds2 : "func" \notin kinds /\ "func" \notin kinds2 /\ kinds \cap kinds2 = {}
             => ~(Declares(n, kinds) /\ Declares(n, kinds2))
    BY DEF Declares, Distinct
  <1>3. \A kinds : "func" \notin kinds /\ Declares(n, kinds) => n \notin Builtins
    BY ItemAt DEF Declares, IInv
  <1>4. defs[n] # Absent => Declares(n, AliasKinds)
    BY DEF Registry, Declared
  <1>5. n \in DOMAIN structs => Declares(n, {"struct"})
    BY DEF Registry, Declared
  <1>6. n \in DOMAIN enums => Declares(n, {"enum"})
    BY DEF Registry, Declared
  <1>7. CASE n \in Builtins
    <2>1. ~Declares(n, {"struct"}) /\ ~Declares(n, {"enum"}) /\ ~Declares(n, {"newtype"})
      BY <1>3, <1>7
    <2>2. StandsFor(n, 0, Denotes[0 - 1]) = Type("builtin", n)
      BY <1>7, <2>1 DEF StandsFor
    <2>3. ~Declares(n, AliasKinds)
      BY <1>3, <1>7 DEF AliasKinds
    <2>4. KindOf(n) = "builtin"
      BY <1>5, <1>7, <2>1 DEF KindOf
    <2> QED BY <1>1, <1>4, <2>2, <2>3, <2>4
  <1>8. CASE n \notin Builtins /\ n \in DOMAIN structs
    <2>1. Declares(n, {"struct"})
      BY <1>5, <1>8
    <2>2. StandsFor(n, 0, Denotes[0 - 1]) = Type("struct", n)
      <3>1. ~Declares(n, {"enum"}) /\ ~Declares(n, {"newtype"})
        BY <1>2, <2>1
      <3> QED BY <1>8, <2>1, <3>1 DEF StandsFor
    <2>3. ~Declares(n, AliasKinds)
      BY <1>2, <2>1 DEF AliasKinds
    <2> QED BY <1>1, <1>4, <1>8, <2>2, <2>3 DEF KindOf
  <1>9. CASE n \notin Builtins /\ n \notin DOMAIN structs /\ n \in DOMAIN enums
    <2>1. Declares(n, {"enum"})
      BY <1>6, <1>9
    <2>2. ~Declares(n, {"struct"}) /\ ~Declares(n, {"newtype"})
      BY <1>2, <2>1
    <2>3. StandsFor(n, 0, Denotes[0 - 1]) = Type("enum", n)
      BY <1>9, <2>1, <2>2 DEF StandsFor
    <2>4. ~Declares(n, AliasKinds)
      BY <1>2, <2>1 DEF AliasKinds
    <2> QED BY <1>1, <1>4, <1>9, <2>3, <2>4 DEF KindOf
  <1> QED BY <1>7, <1>8, <1>9 DEF Registered

(* resolve_aliasdef on a definition whose target is known.                 *)
LEMMA MeantDef ==
    ASSUME IInv, Registry, Plain, pass # "alias", NEW n \in Names, defs[n] # Absent,
           NEW d \in 0..(Depth - 1), NEW t, Meant(t, d, defs[n].target)
    PROVE  \E e \in 0..(d + 1) : /\ TypeOfDef(n, t) = Denotes[e][n]
                                 /\ TypeOfDef(n, t).kind # "error"
  <1>1. PICK i \in DOMAIN items : items[i].name = n /\ items[i].kind \in AliasKinds
    BY DEF Registry, Declared, Declares
  <1>2. Did(i, "alias")
    <2>1. PassNo(pass) > PassNo("alias")
      BY Numbers DEF IInv, TypeOK, Passes
    <2> QED BY <1>1, <2>1 DEF Did, Past, KindsOf
  <1>3. defs[n].target = Head(items[i].types) /\ defs[n].newtype = (items[i].kind = "newtype")
    BY <1>1, <1>2 DEF Registry, Targets, Plain
  <1>4. items \in Modules /\ Distinct
    BY DEF IInv, Plain
  <1>5. CASE items[i].kind = "newtype"
    <2>1. Denotes[0][n] = StandsFor(n, 0, Denotes[0 - 1])
      BY DepthType, DenotesMeans
    <2>2. Denotes[0][n] = Type("newtype", n)
      BY <1>1, <1>4, <1>5, <2>1, NewtypeStands
    <2>3. TypeOfDef(n, t) = Type("newtype", n) /\ Type("newtype", n).kind # "error"
      BY <1>3, <1>5 DEF TypeOfDef, Type
    <2>4. 0 \in 0..(d + 1)
      BY DepthType
    <2> QED BY <2>2, <2>3, <2>4
  <1>6. CASE items[i].kind = "alias"
    <2>1. d + 1 \in 0..Depth /\ (d + 1) - 1 = d /\ d + 1 > 0 /\ d + 1 \in 0..(d + 1)
      BY DepthType
    <2>2. Denotes[d + 1][n] = StandsFor(n, d + 1, Denotes[d])
      <3>1. Denotes[d + 1][n] = StandsFor(n, d + 1, Denotes[(d + 1) - 1])
        BY <2>1, DenotesMeans
      <3> QED BY <2>1, <3>1
    <2>3. StandsFor(n, d + 1, Denotes[d])
            = Under(Head(items[i].types).form, Denotes[d][Head(items[i].types).name])
      BY <1>1, <1>4, <1>6, <2>1, AliasStands
    <2>4. TypeOfDef(n, t) = t
      BY <1>3, <1>6 DEF TypeOfDef
    <2>5. t.kind # "error" /\ t = Denotes[d + 1][n]
      BY <1>3, <2>2, <2>3 DEF Meant
    <2> QED BY <2>1, <2>4, <2>5
  <1> QED BY <1>1, <1>5, <1>6 DEF AliasKinds

(* A step between two resolutions leaves what is finished.                 *)
LEMMA IdleMeanings ==
    ASSUME Meanings, Plain, UNCHANGED items, answer' = Null, row' = <<>>,
           Finished' = Finished, \A n \in Finished : defs'[n] = defs[n]
    PROVE  Meanings'
  <1>1. Denotes' = Denotes
    BY SameMeaning
  <1>2. DefsMean /\ Len(row') = 0
    BY DEF Meanings
  <1>3. DefsMean'
    BY <1>1, <1>2 DEF DefsMean, Meant
  <1>4. AnswerMeans' /\ RowMeans'
    BY <1>2 DEF AnswerMeans, RowMeans
  <1> QED BY <1>3, <1>4 DEF Meanings

LEMMA ErrorsStay == IInv /\ Next => (Plain' => Plain) /\ UNCHANGED items
  <1> SUFFICES ASSUME IInv, Next PROVE (errors' = <<>> => errors = <<>>) /\ UNCHANGED items
    BY DEF Plain, Distinct
  <1>1. CASE CallStep
    BY <1>1, CallKeeps DEF SameNames
  <1>2. CASE ItemStep \/ NextPass
    <2>1. UNCHANGED items
      BY <1>2, ItemStepFacts DEF NextPass
    <2>2. CASE RegisterAlias \/ DuplicateEnum \/ DuplicateStruct
      <3>1. errors' = errors \/ errors' = Report("duplicate", Item.name)
        BY <2>2 DEF RegisterAlias, DuplicateEnum, DuplicateStruct, Duplicate
      <3> QED BY <2>1, <3>1, ReportAdds DEF IInv
    <2>3. CASE Skip \/ NextPass \/ RegisterEnum \/ RegisterStruct \/ ResolveFields \/ Forced
      BY <2>1, <2>3 DEF Skip, NextPass, RegisterEnum, RegisterStruct, ResolveFields, Forced
    <2>4. CASE RegisterFunc
      BY <2>1, <2>4, FuncErrors
    <2> QED BY <1>2, <2>2, <2>3, <2>4 DEF ItemStep
  <1> QED BY <1>1, <1>2 DEF Next, CallStep, ItemStep

LEMMA ItemMeanings ==
    IInv /\ Calling /\ Meanings /\ (ItemStep \/ NextPass) => Meanings'
  <1> SUFFICES ASSUME IInv, Calling, Meanings, ItemStep \/ NextPass, Plain' PROVE Meanings'
    BY DEF Meanings
  <1>1. Plain /\ UNCHANGED items
    BY ErrorsStay DEF Next, ItemStep
  <1>2. row' = <<>> /\ answer' = Null
    <2>1. CASE ItemStep
      BY <2>1, ItemStepFacts DEF Idle
    <2>2. CASE NextPass
      <3>1. at > Len(items) /\ row' = row /\ answer' = answer
        BY <2>2 DEF NextPass, calls
      <3>2. ~(at <= Len(items))
        BY <3>1 DEF IInv, TypeOK
      <3> QED BY <3>1, <3>2 DEF Calling, Visiting, Idle
    <2> QED BY <2>1, <2>2
  <1>3. Finished' = Finished /\ \A n \in Finished : defs'[n] = defs[n]
    <2>1. CASE RegisterAlias /\ defs[Item.name] = Absent
      <3> DEFINE d == [state |-> "unresolved", newtype |-> Item.kind = "newtype",
                       target |-> Head(Item.types), resolved |-> Null]
      <3>1. defs' = [defs EXCEPT ![Item.name] = d] /\ DOMAIN defs = Names
        BY <2>1 DEF RegisterAlias, IInv, TypeOK
      <3>2. \A n \in Names : defs'[n] = IF n = Item.name THEN d ELSE defs[n]
        BY <3>1
      <3>3. d.state # "done" /\ Absent.state # "done"
        BY DEF Absent
      <3> HIDE DEF d
      <3> QED BY <2>1, <3>2, <3>3 DEF Finished
    <2>2. CASE ~(RegisterAlias /\ defs[Item.name] = Absent)
      <3>1. UNCHANGED defs
        BY <2>2 DEF ItemStep, Skip, RegisterAlias, DuplicateEnum, RegisterEnum, DuplicateStruct,
           RegisterStruct, ResolveFields, Forced, RegisterFunc, Duplicate, NextPass, tables
      <3> QED BY <3>1 DEF Finished
    <2> QED BY <2>1, <2>2
  <1> QED BY <1>1, <1>2, <1>3, IdleMeanings

(* The types of the item so far stay what was asked for.                   *)
LEMMA RowKept ==
    ASSUME RowMeans, UNCHANGED <<items, pass, at, row>>, Finished \subseteq Finished'
    PROVE  RowMeans'
  <1>1. Denotes' = Denotes
    BY SameMeaning
  <1> QED BY <1>1 DEF RowMeans, Meant, Item

LEMMA WantedType ==
    ASSUME IInv, Visiting
    PROVE  /\ Wanted.name \in Names /\ Wanted \in TypeExprs /\ pass # "alias"
           /\ Len(row) \in Nat /\ pass \in {"enum", "field", "force", "sig"}
           /\ Item.name \in Names /\ at \in DOMAIN items
  <1>1. at \in 1..Len(items) /\ items \in Modules /\ Len(row) \in Nat
    BY DEF IInv, TypeOK, Visiting
  <1>2. /\ Item.name \in Names /\ Item.types \in Seq(TypeExprs) /\ Len(Item.types) \in Nat
        /\ at \in DOMAIN items
    BY <1>1, ItemTypes
  <1>3. pass \in {"enum", "field", "force", "sig"}
    BY DEF Visiting, Asks, IInv, TypeOK, Passes
  <1>4. Asked \in TypeExprs
    <2>1. CASE pass = "force"
      BY <1>2, <2>1 DEF Asked, TypeExprs, Forms
    <2>2. CASE pass # "force"
      <3>1. Len(row) < Len(Item.types)
        BY <1>3, <2>2 DEF Visiting, Asks
      <3>2. Len(row) + 1 \in 1..Len(Item.types)
        BY <1>1, <1>2, <3>1
      <3> QED BY <1>2, <2>2, <3>2 DEF Asked
    <2> QED BY <2>1, <2>2
  <1>5. Wanted \in TypeExprs
    <2>1. CASE Len(stack) = 0
      BY <1>4, <2>1 DEF Wanted, AskedBy
    <2>2. CASE Len(stack) # 0
      <3>1. Len(stack) \in DOMAIN stack
        BY <2>2 DEF IInv, TypeOK
      <3>2. stack[Len(stack)].def \in Names
        BY <3>1, FrameFields DEF IInv, TypeOK
      <3>3. defs[stack[Len(stack)].def] \in AliasDefs
        BY <3>1, <3>2 DEF IInv, TypeOK, ActiveCalls, Absent
      <3> QED BY <2>2, <3>3 DEF Wanted, AskedBy, AliasDefs
    <2> QED BY <2>1, <2>2
  <1> QED BY <1>1, <1>2, <1>3, <1>5 DEF TypeExprs

(* A type for what was asked for, found without touching a definition.     *)
LEMMA AnswerMeanings ==
    ASSUME IInv, Calling, Plain, Meanings, want # Nothing,
           UNCHANGED <<items, pass, at, row, defs, stack>>,
           NEW d \in 0..Cardinality(Finished), Meant(answer', d, want),
           defs[want.name] # Absent => want.name \in Finished
    PROVE  Meanings'
  <1>1. Denotes' = Denotes
    BY SameMeaning
  <1>2. Finished' = Finished
    BY DEF Finished
  <1>3. DefsMean'
    BY <1>1, <1>2 DEF Meanings, DefsMean, Meant
  <1>4. RowMeans'
    BY <1>2, RowKept DEF Meanings
  <1>5. Wanted' = want
    BY DEF Calling, Wanted, AskedBy, Asked, Item
  <1>6. AnswerMeans'
    <2>1. answer'.kind # "error" /\ answer' = Under(want.form, Denotes'[d][want.name])
      BY <1>1 DEF Meant
    <2>2. d \in 0..Cardinality(Finished')
      BY <1>2
    <2>3. \E e \in 0..Cardinality(Finished') :
             answer'.kind # "error" /\ answer' = Under(Wanted'.form, Denotes'[e][Wanted'.name])
      BY <1>5, <2>1, <2>2
    <2>4. defs'[Wanted'.name] # Absent => Wanted'.name \in Finished'
      BY <1>2, <1>5
    <2> QED BY <2>3, <2>4 DEF AnswerMeans, Meant
  <1> QED BY <1>3, <1>4, <1>6 DEF Meanings

LEMMA KnownMeanings ==
    IInv /\ Registry /\ Calling /\ Meanings /\ ResolveKnown => Meanings'
  <1> SUFFICES ASSUME IInv, Registry, Calling, Meanings, ResolveKnown, Plain' PROVE Meanings'
    BY DEF Meanings
  <1> DEFINE n == want.name
  <1>1. Plain
    BY ErrorsStay DEF Next
  <1>2. /\ want # Nothing /\ Registered(n) /\ answer' = Under(want.form, Type(KindOf(n), n))
        /\ UNCHANGED <<items, pass, at, row, defs, stack>>
    BY DEF ResolveKnown, Answer, tables
  <1>3. n \in Names
    BY <1>2, WantName DEF IInv
  <1>4. Denotes[0][n] = Type(KindOf(n), n) /\ defs[n] = Absent
    BY <1>1, <1>2, <1>3, MeantKnown DEF Plain
  <1>5. Meant(answer', 0, want)
    <2>1. answer'.kind # "error"
      BY <1>2, KnownKind, UnderKind
    <2> QED BY <1>2, <1>4, <2>1 DEF Meant
  <1>6. 0 \in 0..Cardinality(Finished)
    BY FinishedSize
  <1> QED BY <1>1, <1>2, <1>4, <1>5, <1>6, AnswerMeanings

LEMMA DoneMeanings ==
    IInv /\ Registry /\ Calling /\ Meanings /\ ResolveDone => Meanings'
  <1> SUFFICES ASSUME IInv, Registry, Calling, Meanings, ResolveDone, Plain' PROVE Meanings'
    BY DEF Meanings
  <1> DEFINE n == want.name
             t == TypeOfDef(n, defs[n].resolved)
  <1>1. Plain
    BY ErrorsStay DEF Next
  <1>2. /\ want # Nothing /\ defs[n].state = "done" /\ answer' = Under(want.form, t)
        /\ UNCHANGED <<items, pass, at, row, defs, stack>>
    BY DEF ResolveDone, InState, Answer, tables
  <1>3. n \in Names /\ n \in Finished /\ defs[n] # Absent
    BY <1>2, WantName DEF IInv, Finished, Absent
  <1>4. pass # "alias"
    BY <1>2, WantedType DEF Calling, Idle
  <1>5. PICK d \in 0..(Cardinality(Finished) - 1) : Meant(defs[n].resolved, d, defs[n].target)
    BY <1>1, <1>3 DEF Meanings, DefsMean
  <1>6. d \in 0..(Depth - 1)
    BY FinishedSize
  <1>7. PICK e \in 0..(d + 1) : t = Denotes[e][n] /\ t.kind # "error"
    BY <1>1, <1>3, <1>4, <1>5, <1>6, MeantDef
  <1>8. e \in 0..Cardinality(Finished)
    BY FinishedSize
  <1>9. Meant(answer', e, want)
    <2>1. answer'.kind # "error"
      BY <1>2, <1>7, UnderKind
    <2> QED BY <1>2, <1>7, <2>1 DEF Meant
  <1> QED BY <1>1, <1>2, <1>3, <1>8, <1>9, AnswerMeanings

(* Nothing is on its way and no definition becomes resolved.               *)
LEMMA TargetMeanings ==
    IInv /\ Calling /\ Meanings /\ (Ask \/ ResolveTarget) => Meanings'
  <1> SUFFICES ASSUME IInv, Calling, Meanings, Ask \/ ResolveTarget, Plain' PROVE Meanings'
    BY DEF Meanings
  <1>1. Plain /\ UNCHANGED items
    BY ErrorsStay DEF Next
  <1>2. answer' = Null /\ UNCHANGED <<pass, at, row>>
    <2>1. answer = Null
      BY DEF Ask, Visits, Idle, ResolveTarget, InState, Calling
    <2> QED BY <2>1 DEF Ask, ResolveTarget
  <1>3. Finished' = Finished /\ \A n \in Finished : defs'[n] = defs[n]
    <2>1. CASE Ask
      BY <2>1 DEF Ask, tables, Finished
    <2>2. CASE ResolveTarget
      <3> DEFINE n == want.name
      <3>1. /\ n \in Names /\ defs[n].state = "unresolved"
            /\ defs[n].resolved \in ResolvedTypes \cup {Null}
        BY <2>2, TargetFacts
      <3>2. defs' = [defs EXCEPT ![n] = Marked(@, "in_progress", defs[n].resolved)]
        BY <2>2 DEF ResolveTarget
      <3>3. defs'[n].state = "in_progress" /\ \A m \in Names : m # n => defs'[m] = defs[m]
        BY <3>1, <3>2, MarkKeeps
      <3> HIDE DEF n
      <3> QED BY <3>1, <3>3 DEF Finished
    <2> QED BY <2>1, <2>2
  <1>4. Denotes' = Denotes
    BY <1>1, SameMeaning
  <1>5. DefsMean'
    BY <1>1, <1>3, <1>4 DEF Meanings, DefsMean, Meant
  <1>6. RowMeans'
    BY <1>1, <1>2, <1>3, RowKept DEF Meanings
  <1> QED BY <1>2, <1>5, <1>6 DEF Meanings, AnswerMeans

(* A definition becomes resolved, to what its target means.                *)
LEMMA ReturnMeanings ==
    IInv /\ Registry /\ Calling /\ InProgress /\ Meanings /\ Return => Meanings'
  <1> SUFFICES ASSUME IInv, Registry, Calling, InProgress, Meanings, Return, Plain' PROVE Meanings'
    BY DEF Meanings
  <1> DEFINE k == Len(stack)
             f == stack[k]
             n == f.def
             t == TypeOfDef(n, answer)
             c == Cardinality(Finished)
  <1>1. Plain /\ UNCHANGED items /\ SameNames /\ UNCHANGED <<pass, at, row>>
    BY ErrorsStay, CallKeeps DEF Next, CallStep, Return
  <1>2. /\ answer # Null /\ answer' = Under(f.form, t)
        /\ defs' = [defs EXCEPT ![n] = Marked(@, "done", answer)]
    BY DEF Return
  <1>3. /\ k \in Nat \ {0} /\ k \in DOMAIN stack /\ n \in Names /\ answer \in ResolvedTypes
        /\ Len(stack') = k - 1 /\ \A i \in 1..(k - 1) : stack'[i] = stack[i]
        /\ DOMAIN stack = 1..k
    <2>1. k \in Nat \ {0} /\ DOMAIN stack = 1..k
      BY ReturnFacts
    <2>2. k \in DOMAIN stack
      BY <2>1
    <2> QED BY <2>1, <2>2, ReturnFacts
  <1>4. defs[n].state = "in_progress" /\ defs[n] # Absent
    BY <1>1, <1>3 DEF InProgress, Plain, Absent
  <1>5. /\ \A m \in Names : m # n => defs'[m] = defs[m]
        /\ defs'[n].state = "done" /\ defs'[n].resolved = answer
        /\ defs'[n].target = defs[n].target
    <2>1. defs[n].state # "absent"
      BY <1>4
    <2> QED BY <1>2, <1>3, <2>1, MarkKeeps DEF SameDeclaration
  <1>6. /\ Finished' = Finished \cup {n} /\ n \notin Finished
        /\ Cardinality(Finished') = c + 1 /\ c \in 0..(Depth - 1)
    <2>1. Finished' = Finished \cup {n} /\ n \in Names \ Finished /\ Finished \in SUBSET Names
      <3> HIDE DEF n
      <3> QED BY <1>3, <1>4, <1>5 DEF Finished
    <2>2. Cardinality(Finished \cup {n}) = c + 1 /\ c < Depth /\ c \in 0..Depth
      BY <2>1, PartOfNames
    <2>3. c \in 0..(Depth - 1)
      BY <2>2, DepthType
    <2> QED BY <2>1, <2>2, <2>3
  <1>7. Denotes' = Denotes
    BY <1>1, SameMeaning
  <1>8. pass # "alias" /\ Wanted = defs[n].target
    <2>1. Wanted = defs[n].target
      BY <1>3 DEF Wanted, AskedBy
    <2>2. Visiting
      BY <1>2 DEF Calling, Idle
    <2> QED BY <2>1, <2>2, WantedType
  <1>9. PICK d \in 0..c : Meant(answer, d, defs[n].target)
    BY <1>1, <1>2, <1>8 DEF Meanings, AnswerMeans
  <1>10. DefsMean'
    <2> SUFFICES ASSUME NEW m \in Finished'
                 PROVE  \E e \in 0..(Cardinality(Finished') - 1) :
                            /\ defs'[m].resolved.kind # "error"
                            /\ defs'[m].resolved
                                 = Under(defs'[m].target.form, Denotes'[e][defs'[m].target.name])
      BY DEF DefsMean, Meant
    <2>1. CASE m = n
      <3>1. d \in 0..(Cardinality(Finished') - 1)
        BY <1>6, <1>9
      <3>2. /\ defs'[m].resolved = answer /\ defs'[m].target = defs[n].target
        BY <1>5, <2>1
      <3> QED BY <1>7, <1>9, <3>1, <3>2 DEF Meant
    <2>2. CASE m # n
      <3>1. m \in Finished /\ defs'[m] = defs[m]
        BY <1>5, <1>6, <2>2 DEF Finished
      <3>2. PICK e \in 0..(c - 1) : Meant(defs[m].resolved, e, defs[m].target)
        BY <1>1, <3>1 DEF Meanings, DefsMean
      <3>3. e \in 0..(Cardinality(Finished') - 1)
        BY <1>6, <3>2
      <3> QED BY <1>7, <3>1, <3>2, <3>3 DEF Meant
    <2> QED BY <2>1, <2>2
  <1>11. AnswerMeans'
    <2>1. PICK e \in 0..(d + 1) : t = Denotes[e][n] /\ t.kind # "error"
      <3>1. d \in 0..(Depth - 1)
        BY <1>6, <1>9, DepthType
      <3> QED BY <1>1, <1>3, <1>4, <1>8, <1>9, <3>1, MeantDef
    <2>2. e \in 0..Cardinality(Finished')
      BY <1>6, <1>9, <2>1
    <2>3. Wanted'.name = n /\ Wanted'.form = f.form
      <3>1. PICK j \in Nat : j = k - 1
        BY <1>3
      <3>2. j \in 0..j /\ \A i \in 1..j : i \in DOMAIN stack /\ stack'[i] = stack[i]
        BY <1>3, <3>1
      <3>3. AskedBy(j)' = AskedBy(j)
        BY <1>1, <3>2, AskedKept
      <3>4. f.def = AskedBy(j).name /\ f.form = AskedBy(j).form
        BY <1>3, <3>1 DEF Calling
      <3>5. Wanted' = AskedBy(j)'
        BY <1>3, <3>1 DEF Wanted
      <3> QED BY <3>3, <3>4, <3>5
    <2>4. answer'.kind # "error" /\ answer' = Under(Wanted'.form, Denotes'[e][Wanted'.name])
      BY <1>2, <1>7, <2>1, <2>3, UnderKind
    <2>5. Wanted'.name \in Finished'
      BY <1>6, <2>3
    <2> QED BY <2>2, <2>4, <2>5 DEF AnswerMeans, Meant
  <1>12. RowMeans'
    BY <1>1, <1>6, RowKept DEF Meanings
  <1> QED BY <1>10, <1>11, <1>12 DEF Meanings

(* The type reaches the item.                                              *)
LEMMA DeliverMeanings ==
    IInv /\ Registry /\ Calling /\ Meanings /\ Deliver => Meanings'
  <1> SUFFICES ASSUME IInv, Registry, Calling, Meanings, Deliver, Plain' PROVE Meanings'
    BY DEF Meanings
  <1>1. Plain /\ UNCHANGED items
    BY ErrorsStay DEF Next
  <1>2. /\ answer # Null /\ stack = <<>> /\ row' = Append(row, answer) /\ answer' = Null
        /\ UNCHANGED <<pass, at, defs>> /\ Visiting
    BY DEF Deliver, tables, Calling, Idle
  <1>3. Denotes' = Denotes /\ Finished' = Finished /\ Item' = Item
    BY <1>1, <1>2, SameMeaning DEF Finished, Item
  <1>4. DefsMean'
    BY <1>1, <1>2, <1>3 DEF Meanings, DefsMean, Meant
  <1>5. /\ Wanted.name \in Names /\ Wanted = Asked
        /\ pass \in {"enum", "field", "force", "sig"} /\ Item.name \in Names /\ at \in DOMAIN items
    BY <1>2, WantedType DEF Wanted, AskedBy
  <1>6. PICK d \in 0..Cardinality(Finished) : Meant(answer, d, Wanted)
    BY <1>1, <1>2 DEF Meanings, AnswerMeans
  <1>7. Meant(answer, Depth, Wanted)
    <2>1. d \in 0..Depth /\ Depth \in 0..Depth /\ d <= Depth
      BY <1>6, FinishedSize
    <2> QED BY <1>1, <1>5, <1>6, <2>1, MeantDeeper DEF IInv, Plain
  <1>8. row \in Seq(ResolvedTypes) /\ answer \in ResolvedTypes
    BY <1>2 DEF IInv, TypeOK
  <1>9. /\ Len(row') = Len(row) + 1 /\ Len(row) \in Nat /\ row'[Len(row) + 1] = answer
        /\ \A k \in 1..Len(row) : row'[k] = row[k]
    BY <1>2, <1>8
  <1>10. CASE pass = "force"
    <2>1. Item.name \in Finished
      <3>1. Wanted.name = Item.name
        BY <1>5, <1>10 DEF Asked
      <3>2. Did(at, "alias")
        BY <1>2, <1>10, Numbers DEF Did, Past, Visiting, KindsOf, Item
      <3>3. defs[Item.name] # Absent
        BY <1>5, <3>2 DEF Registry, Listed, Item
      <3> QED BY <1>1, <1>2, <3>1, <3>3 DEF Meanings, AnswerMeans
    <2>2. RowMeans'
      BY <1>2, <1>3, <1>10, <2>1 DEF RowMeans
    <2> QED BY <1>2, <1>4, <2>2 DEF Meanings, AnswerMeans
  <1>11. CASE pass # "force"
    <2>1. Meant(answer, Depth, Item.types[Len(row) + 1])
      BY <1>5, <1>7, <1>11 DEF Asked
    <2>2. ASSUME NEW k \in 1..Len(row')
          PROVE  /\ row'[k].kind # "error"
                 /\ row'[k] = Under(Item.types[k].form, Denotes[Depth][Item.types[k].name])
      <3>1. CASE k = Len(row) + 1
        BY <1>9, <2>1, <3>1 DEF Meant
      <3>2. CASE k # Len(row) + 1
        <4>1. k \in 1..Len(row) /\ row'[k] = row[k]
          BY <1>9, <2>2, <3>2
        <4> QED BY <1>1, <1>11, <4>1 DEF Meanings, RowMeans, Meant
      <3> QED BY <3>1, <3>2
    <2>3. RowMeans'
      BY <1>2, <1>3, <1>11, <2>2 DEF RowMeans, Meant
    <2> QED BY <1>2, <1>4, <2>3 DEF Meanings, AnswerMeans
  <1> QED BY <1>10, <1>11

LEMMA MeaningsInductive ==
    IInv /\ Registry /\ Calling /\ InProgress /\ Meanings /\ [Next]_vars => Meanings'
  <1> SUFFICES ASSUME IInv, Registry, Calling, InProgress, Meanings, [Next]_vars PROVE Meanings'
    OBVIOUS
  <1>1. CASE UNCHANGED vars
    <2>1. Denotes' = Denotes
      BY <1>1, SameMeaning DEF vars
    <2> QED BY <1>1, <2>1 DEF vars, tables, calls, Meanings, Plain, Distinct, DefsMean, AnswerMeans,
                RowMeans, Meant, Finished, Wanted, AskedBy, Asked, Item
  <1>2. CASE ItemStep \/ NextPass
    BY <1>2, ItemMeanings
  <1>3. CASE Ask \/ ResolveTarget
    BY <1>3, TargetMeanings
  <1>4. CASE ResolveUnknown \/ ResolveCycle
    <2>1. errors' # <<>>
      BY <1>4, ReportAdds DEF ResolveUnknown, ResolveCycle, IInv
    <2> QED BY <2>1 DEF Meanings, Plain
  <1>5. CASE ResolveKnown \/ ResolveDone \/ Return \/ Deliver
    BY <1>5, KnownMeanings, DoneMeanings, ReturnMeanings, DeliverMeanings
  <1> QED BY <1>1, <1>2, <1>3, <1>4, <1>5 DEF Next, ItemStep

-----------------------------------------------------------------------------
(* What the passes have stored, while no error was reported.               *)
Stored(i) ==
    LET n == items[i].name types == items[i].types IN
    /\ Did(i, "enum") => n \in DOMAIN enums /\ enums[n] = TypesMeant(types)
    /\ Did(i, "struct") => n \in DOMAIN structs /\ DOMAIN structs[n] = DOMAIN types
    /\ Did(i, "field") => structs[n] = TypesMeant(types)
    /\ Did(i, "force") => n \in Finished
    /\ Did(i, "sig") => funcs[n] = TypesMeant(types)
InTables == Plain => \A i \in DOMAIN items : Stored(i)

LEMMA SameTypes == ASSUME UNCHANGED items, NEW types PROVE TypesMeant(types)' = TypesMeant(types)
  BY SameMeaning DEF TypesMeant, TypeMeant

(* The types of an item that is complete.                                  *)
LEMMA RowComplete ==
    ASSUME IInv, RowMeans, pass # "force", Item.types \in Seq(TypeExprs),
           Len(row) = Len(Item.types)
    PROVE  row = TypesMeant(Item.types)
  <1>1. /\ row \in Seq(ResolvedTypes) /\ DOMAIN row = 1..Len(row)
        /\ DOMAIN Item.types = 1..Len(row) /\ row = [k \in 1..Len(row) |-> row[k]]
    BY DEF IInv, TypeOK
  <1>2. \A k \in 1..Len(row) : row[k] = TypeMeant(Item.types[k])
    BY DEF RowMeans, Meant, TypeMeant, Depth
  <1> QED BY <1>1, <1>2 DEF TypesMeant

LEMMA StoredKept ==
    ASSUME UNCHANGED items, NEW i, Stored(i),
           Did(i, "enum")' => Did(i, "enum") /\ UNCHANGED enums,
           Did(i, "struct")' => Did(i, "struct") /\ UNCHANGED structs,
           Did(i, "field")' => Did(i, "field") /\ UNCHANGED structs,
           Did(i, "force")' => Did(i, "force") /\ Finished \subseteq Finished',
           Did(i, "sig")' => Did(i, "sig") /\ UNCHANGED funcs
    PROVE  Stored(i)'
  BY SameTypes DEF Stored

(* Two declarations that are both in a table have different names.         *)
LEMMA OtherName ==
    ASSUME Distinct, at \in DOMAIN items, NEW i \in DOMAIN items, i # at,
           items[i].kind # "func", Item.kind # "func"
    PROVE  items[i].name # Item.name
  BY DEF Distinct, Item

LEMMA DidKind ==
    ASSUME NEW i, NEW p, Did(i, p)
    PROVE  /\ p # "sig" /\ p \in Passes \ {"done"} => items[i].kind # "func"
           /\ items[i].kind \in KindsOf(p)
  BY DEF Did, KindsOf, Passes, AliasKinds

LEMMA CallStored == IInv /\ InTables /\ CallStep => InTables'
  <1> SUFFICES ASSUME IInv, InTables, CallStep, Plain', NEW i \in DOMAIN items' PROVE Stored(i)'
    BY DEF InTables
  <1>1. /\ UNCHANGED <<items, pass, at, structs, enums, funcs>> /\ Plain
    BY CallKeeps, ErrorsStay DEF Next, CallStep
  <1>2. Finished \subseteq Finished'
    <2>1. CASE Ask \/ ResolveKnown \/ ResolveUnknown \/ ResolveDone \/ Deliver
      BY <2>1 DEF Ask, ResolveKnown, ResolveUnknown, ResolveDone, Deliver, tables, Finished
    <2>2. CASE ResolveCycle
      <3>1. errors' # <<>>
        BY <2>2, ReportAdds DEF ResolveCycle, IInv
      <3> QED BY <3>1 DEF Plain
    <2>3. CASE ResolveTarget
      <3>1. /\ want.name \in Names /\ defs[want.name].state = "unresolved"
            /\ defs[want.name].resolved \in ResolvedTypes \cup {Null}
        BY <2>3, TargetFacts
      <3>2. defs' = [defs EXCEPT ![want.name] = Marked(@, "in_progress", defs[want.name].resolved)]
        BY <2>3 DEF ResolveTarget
      <3>3. \A m \in Names : m # want.name => defs'[m] = defs[m]
        BY <3>1, <3>2, MarkKeeps
      <3> QED BY <3>1, <3>3 DEF Finished
    <2>4. CASE Return
      <3> DEFINE n == stack[Len(stack)].def
      <3>1. n \in Names /\ defs[n].state # "absent" /\ answer \in ResolvedTypes
        BY <2>4, ReturnFacts
      <3>2. defs' = [defs EXCEPT ![n] = Marked(@, "done", answer)]
        BY <2>4 DEF Return
      <3>3. defs'[n].state = "done" /\ \A m \in Names : m # n => defs'[m] = defs[m]
        BY <3>1, <3>2, MarkKeeps
      <3> HIDE DEF n
      <3> QED BY <3>1, <3>3 DEF Finished
    <2> QED BY <2>1, <2>2, <2>3, <2>4 DEF CallStep
  <1>3. Stored(i) /\ \A p : Did(i, p)' <=> Did(i, p)
    BY <1>1, DidSame DEF InTables
  <1> QED BY <1>1, <1>2, <1>3, StoredKept

(* Passes over other items and the steps to the next pass.                 *)
LEMMA QuietStored == IInv /\ InTables /\ (Skip \/ NextPass) => InTables'
  <1> SUFFICES ASSUME IInv, InTables, Skip \/ NextPass, Plain', NEW i \in DOMAIN items'
               PROVE  Stored(i)'
    BY DEF InTables
  <1>1. Plain /\ UNCHANGED <<items, tables>> /\ Finished' = Finished
    BY ErrorsStay DEF Next, Skip, NextPass, tables, Finished
  <1>2. \A p \in Passes : Did(i, p)' => Did(i, p)
    <2>1. CASE Skip
      <3>1. at <= Len(items) /\ NextItem /\ Item.kind \notin KindsOf(pass)
        BY <2>1 DEF Skip
      <3> QED BY <1>1, <3>1, DidNextItem
    <2>2. CASE NextPass
      BY <1>1, <2>2, DidNextPass
    <2> QED BY <2>1, <2>2
  <1>3. Stored(i)
    BY <1>1 DEF InTables
  <1> QED BY <1>1, <1>2, <1>3, StoredKept DEF tables, Passes

LEMMA AliasStored == IInv /\ InTables /\ RegisterAlias => InTables'
  <1> SUFFICES ASSUME IInv, InTables, RegisterAlias, NEW i \in DOMAIN items' PROVE Stored(i)'
    BY DEF InTables
  <1>1. pass' = "alias"
    BY DEF RegisterAlias, Visits, NextItem
  <1>2. \A p \in Passes : p # "alias" => ~Did(i, p)'
    <2> TAKE p \in Passes
    <2>1. PassNo(p) \in 1..7 /\ PassNo("alias") = 1
      BY Numbers
    <2> QED BY <1>1, <2>1 DEF Did, Past
  <1> QED BY <1>2 DEF Stored, Passes

(* What a pass over the item at hand leaves of the others.                 *)
LEMMA OthersStored ==
    ASSUME IInv, InTables, Plain, ItemStep, UNCHANGED <<items, defs>>, NEW i \in DOMAIN items, i # at,
           Did(i, "enum") => enums'[items[i].name] = enums[items[i].name],
           Did(i, "struct") => structs'[items[i].name] = structs[items[i].name],
           Did(i, "sig") => funcs'[items[i].name] = funcs[items[i].name],
           DOMAIN enums \subseteq DOMAIN enums', DOMAIN structs \subseteq DOMAIN structs',
           Did(i, "field") => Did(i, "struct")
    PROVE  Stored(i)'
  <1>1. \A p \in Passes : Did(i, p)' => Did(i, p)
    BY ItemStepFacts, DidNextItem
  <1>2. Stored(i) /\ Finished' = Finished
    BY DEF InTables, Finished
  <1>3. \A types : TypesMeant(types)' = TypesMeant(types)
    BY SameTypes
  <1> QED BY <1>1, <1>2, <1>3 DEF Stored, Passes

LEMMA FieldsAfterNames == ASSUME IInv, NEW i, Did(i, "field") PROVE Did(i, "struct")
  <1>1. PassNo(pass) \in 1..7 /\ PassNo("field") = 4 /\ PassNo("struct") = 3
    BY Numbers DEF IInv, TypeOK
  <1>2. PassNo(pass) > 3
    BY <1>1 DEF Did, Past
  <1> QED BY <1>1, <1>2 DEF Did, Past, KindsOf

(* Each pass of items: what is stored for the item it is at, ...           *)
LEMMA EnumStored == IInv /\ Registry /\ Meanings /\ InTables /\ RegisterEnum => InTables'
  <1> SUFFICES ASSUME IInv, Registry, Meanings, InTables, RegisterEnum, Plain',
                      NEW i \in DOMAIN items'
               PROVE  Stored(i)'
    BY DEF InTables
  <1>1. /\ UNCHANGED <<items, structs, defs, funcs>> /\ NextItem /\ pass = "enum" /\ pass' = "enum"
        /\ at <= Len(items) /\ Item.kind = "enum" /\ Len(row) = Len(Item.types)
        /\ enums' = With(enums, Item.name, row) /\ ItemStep /\ Visits("enum")
    BY DEF RegisterEnum, NextItem, Visits, KindsOf, ItemStep
  <1>2. Plain /\ at \in DOMAIN items /\ Item.types \in Seq(TypeExprs)
    BY <1>1, ErrorsStay, VisitFacts DEF Next
  <1>3. /\ Item.name \in DOMAIN enums' /\ enums'[Item.name] = row
        /\ \A n \in DOMAIN enums : n \in DOMAIN enums' /\ (n # Item.name => enums'[n] = enums[n])
    BY <1>1 DEF With
  <1>4. CASE i = at
    <2>1. row = TypesMeant(Item.types)
      BY <1>1, <1>2, RowComplete DEF Meanings
    <2>2. enums'[items[i].name] = TypesMeant(items[i].types)'
      BY <1>1, <1>3, <1>4, <2>1, SameTypes DEF Item
    <2>3. \A p \in {"struct", "field", "force", "sig"} : ~Did(i, p)'
      BY <1>1, <1>4, Numbers DEF Did, Past
    <2> QED BY <1>1, <1>3, <1>4, <2>2, <2>3 DEF Stored, Item
  <1>5. CASE i # at
    <2>1. Did(i, "enum") => items[i].name # Item.name /\ items[i].name \in DOMAIN enums
      BY <1>1, <1>2, <1>5, OtherName, DidKind DEF Plain, Passes, InTables, Stored
    <2> QED BY <1>1, <1>2, <1>3, <1>5, <2>1, FieldsAfterNames, OthersStored
  <1> QED BY <1>4, <1>5

LEMMA StructStored == IInv /\ Registry /\ Meanings /\ InTables /\ RegisterStruct => InTables'
  <1> SUFFICES ASSUME IInv, Registry, Meanings, InTables, RegisterStruct, Plain',
                      NEW i \in DOMAIN items'
               PROVE  Stored(i)'
    BY DEF InTables
  <1> DEFINE r == [k \in DOMAIN Item.types |-> Null]
  <1>1. /\ UNCHANGED <<items, enums, defs, funcs>> /\ NextItem /\ pass = "struct" /\ pass' = "struct"
        /\ at <= Len(items) /\ Item.kind = "struct"
        /\ structs' = With(structs, Item.name, r) /\ ItemStep /\ Visits("struct")
    BY DEF RegisterStruct, NextItem, Visits, KindsOf, ItemStep
  <1>2. Plain /\ at \in DOMAIN items
    BY <1>1, ErrorsStay, VisitFacts DEF Next
  <1>3. /\ Item.name \in DOMAIN structs' /\ DOMAIN structs'[Item.name] = DOMAIN Item.types
        /\ \A n \in DOMAIN structs : n \in DOMAIN structs' /\ (n # Item.name => structs'[n] = structs[n])
    BY <1>1 DEF With
  <1>4. CASE i = at
    <2>1. ~Did(i, "enum")'
      BY <1>1, <1>4 DEF Did, KindsOf, Item
    <2>2. \A p \in {"field", "force", "sig"} : ~Did(i, p)'
      BY <1>1, <1>4, Numbers DEF Did, Past
    <2> QED BY <1>1, <1>3, <1>4, <2>1, <2>2 DEF Stored, Item
  <1>5. CASE i # at
    <2>1. Did(i, "struct") => items[i].name # Item.name /\ items[i].name \in DOMAIN structs
      BY <1>1, <1>2, <1>5, OtherName, DidKind DEF Plain, Passes, InTables, Stored
    <2> QED BY <1>1, <1>2, <1>3, <1>5, <2>1, FieldsAfterNames, OthersStored
  <1> QED BY <1>4, <1>5

LEMMA FieldStored == IInv /\ Registry /\ Meanings /\ InTables /\ ResolveFields => InTables'
  <1> SUFFICES ASSUME IInv, Registry, Meanings, InTables, ResolveFields, Plain',
                      NEW i \in DOMAIN items'
               PROVE  Stored(i)'
    BY DEF InTables
  <1>1. /\ UNCHANGED <<items, enums, defs, funcs>> /\ NextItem /\ pass = "field" /\ pass' = "field"
        /\ at <= Len(items) /\ Item.kind = "struct" /\ ItemStep /\ Visits("field")
    BY DEF ResolveFields, NextItem, Visits, KindsOf, ItemStep
  <1>2. Plain /\ at \in DOMAIN items /\ Item.types \in Seq(TypeExprs)
    BY <1>1, ErrorsStay, VisitFacts DEF Next
  <1>3. Did(at, "struct")
    BY <1>1, Numbers DEF Did, Past, KindsOf, Item
  <1>4. Item.name \in DOMAIN structs /\ DOMAIN structs[Item.name] = DOMAIN Item.types
    BY <1>2, <1>3 DEF InTables, Stored, Item
  <1>5. /\ Len(row) = Len(Item.types)
        /\ structs' = [structs EXCEPT ![Item.name] = SetFields(structs[Item.name], row)]
    BY <1>4 DEF ResolveFields
  <1>6. /\ DOMAIN structs' = DOMAIN structs
        /\ structs'[Item.name] = SetFields(structs[Item.name], row)
        /\ \A n \in DOMAIN structs : n # Item.name => structs'[n] = structs[n]
    BY <1>4, <1>5
  <1>7. CASE i = at
    <2>1. row = TypesMeant(Item.types)
      BY <1>1, <1>2, <1>5, RowComplete DEF Meanings
    <2>2. SetFields(structs[Item.name], row) = row
      <3>1. DOMAIN row = DOMAIN Item.types /\ row = [k \in DOMAIN row |-> row[k]]
        BY <2>1 DEF TypesMeant
      <3> QED BY <1>4, <3>1 DEF SetFields
    <2>3. structs'[items[i].name] = TypesMeant(items[i].types)'
      BY <1>1, <1>6, <1>7, <2>1, <2>2, SameTypes DEF Item
    <2>4. DOMAIN structs'[items[i].name] = DOMAIN items[i].types
      BY <1>4, <1>6, <1>7, <2>1, <2>2 DEF Item, TypesMeant
    <2>5. ~Did(i, "enum")'
      BY <1>1, <1>7 DEF Did, KindsOf, Item
    <2>6. \A p \in {"force", "sig"} : ~Did(i, p)'
      BY <1>1, <1>7, Numbers DEF Did, Past
    <2> QED BY <1>1, <1>4, <1>6, <1>7, <2>3, <2>4, <2>5, <2>6 DEF Stored, Item
  <1>8. CASE i # at
    <2>1. Did(i, "struct") => items[i].name # Item.name /\ items[i].name \in DOMAIN structs
      BY <1>1, <1>2, <1>8, OtherName, DidKind DEF Plain, Passes, InTables, Stored
    <2> QED BY <1>1, <1>2, <1>6, <1>8, <2>1, FieldsAfterNames, OthersStored
  <1> QED BY <1>7, <1>8

LEMMA ForcedStored == IInv /\ Registry /\ Meanings /\ InTables /\ Forced => InTables'
  <1> SUFFICES ASSUME IInv, Registry, Meanings, InTables, Forced, Plain',
                      NEW i \in DOMAIN items'
               PROVE  Stored(i)'
    BY DEF InTables
  <1>1. /\ UNCHANGED <<items, structs, enums, defs, funcs>> /\ NextItem /\ pass = "force"
        /\ pass' = "force" /\ at <= Len(items) /\ Item.kind \in AliasKinds /\ row # <<>>
        /\ ItemStep /\ Visits("force")
    BY DEF Forced, NextItem, Visits, KindsOf, ItemStep, tables
  <1>2. Plain /\ at \in DOMAIN items
    BY <1>1, ErrorsStay, VisitFacts DEF Next
  <1>3. CASE i = at
    <2>1. Item.name \in Finished /\ Finished' = Finished
      BY <1>1, <1>2 DEF Meanings, RowMeans, Finished
    <2>2. \A p \in {"enum", "struct", "field"} : ~Did(i, p)'
      BY <1>1, <1>3 DEF Did, KindsOf, Item, AliasKinds
    <2>3. ~Did(i, "sig")'
      BY <1>1, <1>3, Numbers DEF Did, Past
    <2> QED BY <1>1, <1>3, <2>1, <2>2, <2>3 DEF Stored, Item
  <1>4. CASE i # at
    BY <1>1, <1>2, <1>4, FieldsAfterNames, OthersStored
  <1> QED BY <1>3, <1>4

(* A function that is declared twice is reported.                          *)
LEMMA FuncStored == IInv /\ Registry /\ Meanings /\ InTables /\ RegisterFunc => InTables'
  <1> SUFFICES ASSUME IInv, Registry, Meanings, InTables, RegisterFunc, Plain',
                      NEW i \in DOMAIN items'
               PROVE  Stored(i)'
    BY DEF InTables
  <1>1. /\ UNCHANGED <<items, structs, enums, defs>> /\ NextItem /\ pass = "sig" /\ pass' = "sig"
        /\ at <= Len(items) /\ Item.kind = "func" /\ Len(row) = Len(Item.types)
        /\ funcs' = With(funcs, Item.name, row) /\ ItemStep /\ Visits("sig")
    BY Zenon DEF RegisterFunc, NextItem, Visits, KindsOf, ItemStep
  <1>2. Plain /\ at \in DOMAIN items /\ Item.types \in Seq(TypeExprs) /\ Item.name \in Names
    BY <1>1, ErrorsStay, VisitFacts DEF Next
  <1>3. Item.name \notin DOMAIN funcs
    <2> SUFFICES ASSUME Item.name \in DOMAIN funcs PROVE errors' # <<>>
      BY DEF Plain
    <2>1. PICK b : errors' = Report("duplicate", Item.name) \o b
                   /\ b \in {<<[what |-> "ref returned", name |-> Item.name]>>, <<>>}
      BY Zenon DEF RegisterFunc
    <2>2. Report("duplicate", Item.name) \in Seq(Reports) /\ Report("duplicate", Item.name) # <<>>
      <3>1. errors \in Seq(Reports) /\ TypeOK
        BY DEF IInv, TypeOK
      <3> QED BY <1>2, <3>1, ReportType, ReportAdds
    <2>3. b \in Seq(Reports)
      <3>1. [what |-> "ref returned", name |-> Item.name] \in Reports
        BY <1>2 DEF Reports
      <3>2. <<[what |-> "ref returned", name |-> Item.name]>> \in Seq(Reports)
        BY <3>1, OneElement
      <3>3. <<>> \in Seq(Reports)
        OBVIOUS
      <3> QED BY <2>1, <3>2, <3>3
    <2>4. \A s, t \in Seq(Reports) : s # <<>> => s \o t # <<>>
      OBVIOUS
    <2> QED BY <2>1, <2>2, <2>3, <2>4, Zenon
  <1>4. /\ funcs'[Item.name] = row
        /\ \A n \in DOMAIN funcs : funcs'[n] = funcs[n]
    BY <1>1, <1>3 DEF With
  <1>5. CASE i = at
    <2>1. row = TypesMeant(Item.types)
      BY <1>1, <1>2, RowComplete DEF Meanings
    <2>2. funcs'[items[i].name] = TypesMeant(items[i].types)'
      BY <1>1, <1>4, <1>5, <2>1, SameTypes DEF Item
    <2>3. \A p \in {"enum", "struct", "field", "force"} : ~Did(i, p)'
      BY <1>1, <1>5 DEF Did, KindsOf, Item, AliasKinds
    <2> QED BY <1>1, <2>2, <2>3 DEF Stored
  <1>6. CASE i # at
    <2>1. Did(i, "sig") => items[i].name \in DOMAIN funcs
      BY <1>1 DEF Registry, Listed
    <2> QED BY <1>1, <1>2, <1>4, <1>6, <2>1, FieldsAfterNames, OthersStored
  <1> QED BY <1>5, <1>6

LEMMA StoredInductive ==
    IInv /\ Registry /\ Meanings /\ InTables /\ [Next]_vars => InTables'
  <1> SUFFICES ASSUME IInv, Registry, Meanings, InTables, [Next]_vars PROVE InTables'
    OBVIOUS
  <1>1. CASE UNCHANGED vars
    <2>1. /\ UNCHANGED <<items, pass, at, structs, enums, funcs>> /\ Finished' = Finished
          /\ Plain' = Plain
      BY <1>1 DEF vars, tables, Finished, Plain, Distinct
    <2> QED BY <2>1, DidSame, StoredKept DEF InTables
  <1>2. CASE CallStep \/ Skip \/ NextPass \/ RegisterAlias
    BY <1>2, CallStored, QuietStored, AliasStored
  <1>3. CASE DuplicateEnum \/ DuplicateStruct
    <2>1. errors' # <<>>
      BY <1>3, ReportAdds DEF DuplicateEnum, DuplicateStruct, Duplicate, IInv
    <2> QED BY <2>1 DEF InTables, Plain
  <1>4. CASE RegisterEnum \/ RegisterStruct \/ ResolveFields \/ Forced \/ RegisterFunc
    BY <1>4, EnumStored, StructStored, FieldStored, ForcedStored, FuncStored
  <1> QED BY <1>1, <1>2, <1>3, <1>4 DEF Next, CallStep

(* ... and what all of them leave.                                         *)
TInv == IInv /\ Registry /\ Calling /\ InProgress /\ Meanings /\ InTables

LEMMA FirstTables == Init => TInv
  <1> SUFFICES ASSUME Init PROVE TInv
    OBVIOUS
  <1>1. items \in Seq(Items) /\ \A i \in DOMAIN items : i \in Nat /\ ~(i < 1)
    BY TableAssumption DEF Init
  <1>2. \A i \in DOMAIN items : \A p \in Passes : ~Did(i, p)
    BY <1>1 DEF Init, Did, Past, PassNo, Passes
  <1>3. InTables
    BY <1>2 DEF InTables, Stored, Passes
  <1>4. Calling /\ InProgress
    BY DEF Init, Calling, InProgress, Idle
  <1>5. Meanings
    BY DEF Init, Meanings, DefsMean, AnswerMeans, RowMeans, Finished, Absent
  <1> QED BY <1>3, <1>4, <1>5, Initial, FirstRegistry DEF TInv

LEMMA TablesInductive == TInv /\ [Next]_vars => TInv'
  BY Inductive, RegistryInductive, CallingInductive, MeaningsInductive, StoredInductive DEF TInv

(* When the passes are over each has handled its items, and in a module    *)
(* without errors no two declarations have a name.                         *)
LEMMA PassesDone ==
    ASSUME TInv, pass = "done"
    PROVE  /\ \A j \in DOMAIN items : \A p \in Passes \ {"done"} :
                  Did(j, p) <=> items[j].kind \in KindsOf(p)
           /\ errors = <<>> => Plain
  <1>1. \A j \in DOMAIN items : \A p \in Passes \ {"done"} : Did(j, p) <=> items[j].kind \in KindsOf(p)
    <2> TAKE j \in DOMAIN items
    <2> TAKE p \in Passes \ {"done"}
    <2>1. PassNo(pass) > PassNo(p)
      BY Numbers DEF Passes
    <2> QED BY <2>1 DEF Did, Past
  <1>2. \A j \in DOMAIN items : items[j].kind # "func" => Noted(j)
    <2> SUFFICES ASSUME NEW j \in DOMAIN items, items[j].kind # "func"
                 PROVE  \E p \in {"alias", "enum", "struct"} : items[j].kind \in KindsOf(p)
      BY <1>1 DEF Noted, Passes
    <2>1. items[j].kind \in AliasKinds \cup {"struct", "enum"}
      BY ItemAt DEF TInv, IInv
    <2> QED BY <2>1 DEF KindsOf
  <1>3. errors = <<>> => Plain
    BY <1>2 DEF TInv, Registry, Unique, Distinct, Plain
  <1> QED BY <1>1, <1>3

LEMMA TablesMean == TInv => TablesMeanDeclarations
  <1> SUFFICES ASSUME TInv, pass = "done", errors = <<>>, NEW i \in DOMAIN items
               PROVE  LET n == items[i].name IN
                      CASE items[i].kind = "struct" -> structs[n] = TypesMeant(items[i].types)
                        [] items[i].kind = "enum"   -> enums[n] = TypesMeant(items[i].types)
                        [] items[i].kind = "func"   -> funcs[n] = TypesMeant(items[i].types)
                        [] OTHER -> /\ defs[n].state = "done"
                                    /\ defs[n].resolved = TypeMeant(Head(items[i].types))
    BY DEF TablesMeanDeclarations
  <1>1. \A j \in DOMAIN items : \A p \in Passes \ {"done"} : Did(j, p) <=> items[j].kind \in KindsOf(p)
    BY PassesDone
  <1>2. Distinct /\ Plain
    BY PassesDone DEF Plain
  <1>4. Stored(i) /\ DefsMean
    BY <1>2 DEF TInv, InTables, Meanings
  <1>5. CASE items[i].kind \in {"struct", "enum", "func"}
    <2>1. CASE items[i].kind = "struct"
      BY <1>1, <1>4, <2>1 DEF Stored, KindsOf, Passes
    <2>2. CASE items[i].kind = "enum"
      BY <1>1, <1>4, <2>2 DEF Stored, KindsOf, Passes
    <2>3. CASE items[i].kind = "func"
      BY <1>1, <1>4, <2>3 DEF Stored, KindsOf, Passes
    <2> QED BY <1>5, <2>1, <2>2, <2>3
  <1>6. CASE items[i].kind \in AliasKinds
    <2> DEFINE n == items[i].name
    <2>1. Did(i, "force") /\ Did(i, "alias")
      BY <1>1, <1>6 DEF KindsOf, Passes
    <2>2. n \in Finished /\ defs[n].target = Head(items[i].types)
      BY <1>4, <2>1 DEF Stored, TInv, Registry, Targets
    <2>3. PICK d \in 0..(Cardinality(Finished) - 1) : Meant(defs[n].resolved, d, defs[n].target)
      BY <1>4, <2>2 DEF DefsMean
    <2>4. d \in 0..Depth /\ Depth \in 0..Depth /\ d <= Depth
      BY FinishedSize
    <2>5. Head(items[i].types).name \in Names
      <3>1. items[i].types \in Seq(TypeExprs) /\ items[i].types # <<>>
        BY <1>6, ItemAt DEF TInv, IInv
      <3>2. Head(items[i].types) \in TypeExprs
        BY <3>1
      <3> QED BY <3>2 DEF TypeExprs
    <2>6. Meant(defs[n].resolved, Depth, Head(items[i].types))
      BY <1>2, <2>2, <2>3, <2>4, <2>5, MeantDeeper DEF TInv, IInv
    <2>7. defs[n].state = "done" /\ defs[n].resolved = TypeMeant(Head(items[i].types))
      BY <2>2, <2>6 DEF Finished, Meant, TypeMeant, Depth
    <2> QED BY <1>6, <2>7 DEF AliasKinds
  <1>7. items[i].kind \in AliasKinds \cup {"struct", "enum", "func"}
    BY ItemAt DEF TInv, IInv
  <1> QED BY <1>5, <1>6, <1>7

(* When the passes end without a diagnostic the tables are what the        *)
(* declarations say, whatever the order in which definitions were first    *)
(* mentioned and however they refer to one another: memoizing what a       *)
(* definition stands for (types.cc:271) never stores a type read too early.*)
THEOREM TablesFaithful == Spec => []TablesMeanDeclarations
  BY FirstTables, TablesInductive, TablesMean, PTL DEF Spec

-----------------------------------------------------------------------------
(* Cycles of definitions.  First, what a definition leads to: with its     *)
(* members, their targets; every member of a cycle leads to all of it.     *)
LEMMA LedToTargets ==
    ASSUME NEW next, NEW n, NEW x \in LedTo(next, n) \cup {n}, next[x] \in DOMAIN next
    PROVE  next[x] \in LedTo(next, n)
  <1> SUFFICES ASSUME NEW S \in SUBSET DOMAIN next,
                      \A y \in S \cup {n} : next[y] \in DOMAIN next => next[y] \in S
               PROVE  next[x] \in S
    BY DEF LedTo
  <1>1. x \in S \cup {n}
    BY DEF LedTo
  <1> QED BY <1>1

LEMMA LedToLeast ==
    ASSUME NEW next, NEW n, NEW S \in SUBSET DOMAIN next,
           \A x \in S \cup {n} : next[x] \in DOMAIN next => next[x] \in S
    PROVE  LedTo(next, n) \subseteq S
  BY DEF LedTo

LEMMA NextOfCyclic ==
    ASSUME NEW next, NEW n, n \in LedTo(next, n), NEW y, y = next[n]
    PROVE  y \in DOMAIN next /\ y \in LedTo(next, y) /\ LedTo(next, y) = LedTo(next, n)
  <1>1. y \in DOMAIN next
    <2> SUFFICES ASSUME y \notin DOMAIN next PROVE FALSE
      OBVIOUS
    <2> DEFINE S == {}
    <2>1. S \in SUBSET DOMAIN next /\ \A x \in S \cup {n} : next[x] \in DOMAIN next => next[x] \in S
      OBVIOUS
    <2> HIDE DEF S
    <2>2. LedTo(next, n) \subseteq S
      BY <2>1, LedToLeast
    <2> QED BY <2>2 DEF S
  <1>2. y \in LedTo(next, n)
    BY <1>1, LedToTargets
  <1>3. LedTo(next, y) \subseteq LedTo(next, n)
    <2>1. \A x \in LedTo(next, n) \cup {y} : next[x] \in DOMAIN next => next[x] \in LedTo(next, n)
      BY <1>2, LedToTargets
    <2>2. LedTo(next, n) \in SUBSET DOMAIN next
      BY DEF LedTo
    <2> QED BY <2>1, <2>2, LedToLeast
  <1>4. LedTo(next, n) \subseteq LedTo(next, y) \cup {y}
    <2>1. \A x \in LedTo(next, y) \cup {y} : next[x] \in DOMAIN next => next[x] \in LedTo(next, y)
      BY LedToTargets
    <2> DEFINE S == LedTo(next, y) \cup {y}
    <2>2. \A x \in S \cup {n} : next[x] \in DOMAIN next => next[x] \in S
      BY <2>1
    <2>3. S \in SUBSET DOMAIN next
      BY <1>1 DEF LedTo
    <2> HIDE DEF S
    <2>4. LedTo(next, n) \subseteq S
      BY <2>2, <2>3, LedToLeast
    <2> QED BY <2>4 DEF S
  <1>5. y \in LedTo(next, y)
    <2>1. n \in LedTo(next, y) \cup {y}
      BY <1>4
    <2> QED BY <1>1, <2>1, LedToTargets
  <1> QED BY <1>1, <1>3, <1>4, <1>5

LEMMA OrbitOfCyclic ==
    ASSUME NEW next, NEW n, n \in LedTo(next, n), NEW m \in LedTo(next, n)
    PROVE  m \in LedTo(next, m) /\ LedTo(next, m) = LedTo(next, n)
  <1> DEFINE S == {x \in LedTo(next, n) : x \in LedTo(next, x) /\ LedTo(next, x) = LedTo(next, n)}
  <1>1. ASSUME NEW x \in S \cup {n}, next[x] \in DOMAIN next PROVE next[x] \in S
    <2>1. x \in LedTo(next, x) /\ LedTo(next, x) = LedTo(next, n)
      OBVIOUS
    <2>2. next[x] \in LedTo(next, next[x]) /\ LedTo(next, next[x]) = LedTo(next, x)
      BY <2>1, NextOfCyclic
    <2>3. next[x] \in LedTo(next, n)
      BY <2>1, <2>2
    <2> QED BY <2>1, <2>2, <2>3
  <1>2. S \in SUBSET DOMAIN next
    BY DEF LedTo
  <1> HIDE DEF S
  <1>3. LedTo(next, n) \subseteq S
    BY <1>1, <1>2, LedToLeast
  <1> QED BY <1>3 DEF S

LEMMA NextDefFacts ==
    ASSUME IInv
    PROVE  /\ \A n : n \in DOMAIN NextDef <=> n \in Names /\ defs[n] # Absent
           /\ \A n \in DOMAIN NextDef : NextDef[n] = defs[n].target.name
           /\ Cyclic \subseteq DOMAIN NextDef
           /\ \A n \in Names : defs[n].state # "absent" => n \in DOMAIN NextDef
           /\ \A n \in DOMAIN NextDef : defs[n].state \in {"unresolved", "in_progress", "done"}
  <1>1. \A n \in Names : defs[n].state # "absent" => defs[n] # Absent
    BY DEF Absent
  <1>2. \A n \in Names : defs[n] # Absent => defs[n].state \in {"unresolved", "in_progress", "done"}
    BY DEF IInv, TypeOK, AliasDefs
  <1> QED BY <1>1, <1>2 DEF NextDef, Cyclic

LEMMA SameCycles ==
    ASSUME \A n \in Names : SameDeclaration(n)
    PROVE  NextDef' = NextDef /\ Cyclic' = Cyclic /\ \A n : Orbit(n)' = Orbit(n)
  <1>1. NextDef' = NextDef
    BY DEF NextDef, SameDeclaration
  <1> QED BY <1>1 DEF Cyclic, Orbit

(* Following targets goes up the stack of calls, and from its top to what  *)
(* is asked for.                                                           *)
LEMMA StackPath ==
    ASSUME IInv, Calling
    PROVE  /\ Len(stack) \in Nat /\ DOMAIN stack = 1..Len(stack)
           /\ \A i \in DOMAIN stack : stack[i].def \in DOMAIN NextDef
           /\ \A i \in 1..(Len(stack) - 1) : NextDef[stack[i].def] = stack[i + 1].def
           /\ stack # <<>> => Len(stack) \in DOMAIN stack /\ NextDef[stack[Len(stack)].def] = Wanted.name
  <1>1. Len(stack) \in Nat /\ DOMAIN stack = 1..Len(stack) /\ stack \in Seq(Frames)
    BY DEF IInv, TypeOK
  <1>2. \A i \in DOMAIN stack : stack[i].def \in DOMAIN NextDef
    <2>1. \A i \in DOMAIN stack : stack[i].def \in Names /\ defs[stack[i].def].state # "absent"
      BY <1>1, FrameFields DEF IInv, ActiveCalls
    <2> QED BY <2>1, NextDefFacts
  <1>3. \A i \in DOMAIN stack : NextDef[stack[i].def] = AskedBy(i).name
    BY <1>1, <1>2, NextDefFacts DEF AskedBy
  <1>4. \A i \in 1..(Len(stack) - 1) : NextDef[stack[i].def] = stack[i + 1].def
    <2> TAKE i \in 1..(Len(stack) - 1)
    <2>1. i \in DOMAIN stack /\ i + 1 \in DOMAIN stack /\ i + 1 - 1 = i
      BY <1>1
    <2> QED BY <1>3, <2>1 DEF Calling
  <1>5. stack # <<>> => Len(stack) \in DOMAIN stack
    BY <1>1
  <1> QED BY <1>1, <1>2, <1>3, <1>4, <1>5 DEF Wanted

(* types.cc:51-52: a definition met in progress is on a cycle, all of      *)
(* which is being resolved.                                                *)
LEMMA MetInProgress ==
    ASSUME IInv, Calling, want # Nothing, defs[want.name].state = "in_progress"
    PROVE  want.name \in Cyclic /\ Orbit(want.name) \subseteq {stack[k].def : k \in DOMAIN stack}
  <1> DEFINE m == want.name
             N == Len(stack)
             T == {stack[k].def : k \in DOMAIN stack}
  <1>1. m \in Names /\ m = Wanted.name
    BY WantName DEF IInv, Calling
  <1>2. PICK i \in DOMAIN stack : stack[i].def = m
    BY <1>1 DEF IInv, ActiveCalls
  <1>3. /\ N \in Nat /\ DOMAIN stack = 1..N /\ N \in DOMAIN stack
        /\ T \in SUBSET DOMAIN NextDef /\ m \in T
        /\ NextDef[stack[N].def] = m
        /\ \A k \in 1..(N - 1) : NextDef[stack[k].def] = stack[k + 1].def
    BY <1>1, <1>2, StackPath
  <1>4. m \in Cyclic
    <2> SUFFICES ASSUME NEW S \in SUBSET DOMAIN NextDef,
                        \A x \in S \cup {m} : NextDef[x] \in DOMAIN NextDef => NextDef[x] \in S
                 PROVE  m \in S
      BY <1>3 DEF Cyclic, Orbit, LedTo
    <2> DEFINE Bad == {k \in i..N : stack[k].def \notin S \cup {m}}
    <2>1. Bad = {}
      <3> SUFFICES ASSUME Bad # {} PROVE FALSE
        OBVIOUS
      <3>1. Bad \in SUBSET Nat
        BY <1>2, <1>3
      <3>2. PICK b \in Bad : \A c \in Bad : b <= c
        <4> HIDE DEF Bad
        <4> QED BY <3>1, Least
      <3>3. b \in i..N /\ b # i /\ stack[b].def \notin S \cup {m}
        BY <1>2, <3>2
      <3>4. b - 1 \in i..N /\ b - 1 \in 1..(N - 1) /\ ~(b <= b - 1) /\ b \in DOMAIN stack /\ b - 1 + 1 = b
        BY <1>2, <1>3, <3>3
      <3>5. stack[b - 1].def \in S \cup {m}
        BY <3>2, <3>4
      <3>6. NextDef[stack[b - 1].def] = stack[b].def /\ stack[b].def \in DOMAIN NextDef
        BY <1>3, <3>4
      <3> QED BY <3>3, <3>5, <3>6
    <2>2. N \in i..N
      BY <1>2, <1>3
    <2>3. stack[N].def \in S \cup {m}
      BY <2>1, <2>2
    <2> QED BY <1>3, <2>3
  <1>5. ASSUME NEW x \in T \cup {m}, NextDef[x] \in DOMAIN NextDef PROVE NextDef[x] \in T
    <2>1. PICK k \in DOMAIN stack : x = stack[k].def
      BY <1>3
    <2>2. CASE k = N
      BY <1>3, <2>1, <2>2
    <2>3. CASE k # N
      <3>1. k \in 1..(N - 1) /\ k + 1 \in DOMAIN stack
        BY <1>3, <2>1, <2>3
      <3> QED BY <1>3, <2>1, <3>1
    <2> QED BY <2>2, <2>3
  <1>6. Orbit(m) \subseteq T
    <2> HIDE DEF T, m
    <2> QED BY <1>3, <1>5, LedToLeast DEF Orbit
  <1> QED BY <1>4, <1>6

-----------------------------------------------------------------------------
(* The type on its way answers a definition that is resolved; forcing an   *)
(* item resolves the definition it declares.                               *)
AnswerDone == answer # Null /\ defs[Wanted.name] # Absent => Wanted.name \in Finished
RowForced  == pass = "force" /\ row # <<>> => Item.name \in Finished
ForcedDone == \A i \in DOMAIN items : Did(i, "force") => items[i].name \in Finished

(* The names of definitions are no other types'; they come first, before   *)
(* anything is resolved.                                                   *)
IsCycle(i) == errors[i].what = "cycle"
NamesApart == \A n \in Names : defs[n] # Absent => ~Registered(n)
NamesFirst == pass = "alias" =>
    DOMAIN structs = {} /\ DOMAIN enums = {} /\ Finished = {} /\ \A i \in DOMAIN errors : ~IsCycle(i)
ForceInv   == AnswerDone /\ RowForced /\ ForcedDone /\ NamesApart /\ NamesFirst

(* A report is about a cycle; when it is made all of the cycle is being    *)
(* resolved, and nothing is entered before all of it is resolved, so that  *)
(* no other report is about it; and a cycle of which a member is resolved  *)
(* has a report.                                                           *)
ReportsCyclic  == \A i \in DOMAIN errors : IsCycle(i) => errors[i].name \in Cyclic
ReportsSettled == \A i \in DOMAIN errors : IsCycle(i) =>
    \A x \in Orbit(errors[i].name) :
        defs[x].state = "done" \/ (answer # Null /\ defs[x].state = "in_progress")
ReportsApart   == \A i, j \in DOMAIN errors :
    IsCycle(i) /\ IsCycle(j) /\ errors[j].name \in Orbit(errors[i].name) => i = j
CyclesSeen     == \A n \in Cyclic : n \in Finished => CycleReports(Orbit(n)) # {}
ReportInv      == ReportsCyclic /\ ReportsSettled /\ ReportsApart /\ CyclesSeen

(* Which steps write definitions and diagnostics.                          *)
LEMMA DefsStay ==
    ASSUME [Next]_vars, ~RegisterAlias, ~ResolveCycle, ~ResolveTarget, ~Return
    PROVE  UNCHANGED defs
  <1>1. CASE Skip \/ NextPass \/ DuplicateEnum \/ DuplicateStruct \/ Forced
    BY <1>1 DEF Skip, NextPass, DuplicateEnum, DuplicateStruct, Duplicate, Forced, tables
  <1>2. CASE RegisterEnum \/ RegisterStruct \/ ResolveFields \/ RegisterFunc
    BY <1>2 DEF RegisterEnum, RegisterStruct, ResolveFields, RegisterFunc
  <1>3. CASE Ask \/ ResolveKnown \/ ResolveUnknown \/ ResolveDone \/ Deliver
    BY <1>3 DEF Ask, ResolveKnown, ResolveUnknown, ResolveDone, Deliver, tables
  <1>4. CASE UNCHANGED vars
    BY <1>4 DEF vars, tables
  <1> QED BY <1>1, <1>2, <1>3, <1>4 DEF Next

LEMMA AliasDefsStep ==
    ASSUME IInv, RegisterAlias
    PROVE  \A n \in Names : defs'[n] = defs[n] \/
               (n = Item.name /\ defs[n] = Absent /\ defs'[n].state = "unresolved")
  <1> DEFINE d == [state |-> "unresolved", newtype |-> Item.kind = "newtype",
                   target |-> Head(Item.types), resolved |-> Null]
  <1>1. DOMAIN defs = Names /\ d.state = "unresolved"
    BY DEF IInv, TypeOK
  <1>2. UNCHANGED defs \/ (defs[Item.name] = Absent /\ defs' = [defs EXCEPT ![Item.name] = d])
    BY DEF RegisterAlias
  <1> HIDE DEF d
  <1> QED BY <1>1, <1>2

LEMMA TargetDefs ==
    ASSUME IInv, ResolveTarget
    PROVE  /\ \A n \in Names : SameDeclaration(n)
           /\ \A n \in Names : n # want.name => defs'[n] = defs[n]
           /\ defs[want.name].state = "unresolved" /\ defs'[want.name].state = "in_progress"
  <1>1. /\ want.name \in Names /\ defs[want.name].state = "unresolved"
        /\ defs[want.name].resolved \in ResolvedTypes \cup {Null}
    BY TargetFacts
  <1>2. defs' = [defs EXCEPT ![want.name] = Marked(@, "in_progress", defs[want.name].resolved)]
    BY DEF ResolveTarget
  <1> QED BY <1>1, <1>2, MarkKeeps

LEMMA CycleDefs ==
    ASSUME IInv, ResolveCycle
    PROVE  /\ \A n \in Names : SameDeclaration(n)
           /\ \A n \in Names : n # want.name => defs'[n] = defs[n]
           /\ want.name \in Names
           /\ defs[want.name].state = "in_progress" /\ defs'[want.name].state = "done"
  <1>1. want.name \in Names /\ defs[want.name].state = "in_progress"
    BY WantName DEF ResolveCycle, InState, IInv
  <1>2. defs' = [defs EXCEPT ![want.name] = Marked(@, "done", Error)]
    BY DEF ResolveCycle
  <1> QED BY <1>1, <1>2, ErrorType, MarkKeeps

LEMMA ReturnDefs ==
    ASSUME IInv, Return, NEW n, n = stack[Len(stack)].def
    PROVE  /\ \A m \in Names : SameDeclaration(m)
           /\ \A m \in Names : m # n => defs'[m] = defs[m]
           /\ n \in Names /\ defs'[n].state = "done"
  <1>1. n \in Names /\ defs[n].state # "absent" /\ answer \in ResolvedTypes
    BY ReturnFacts
  <1>2. defs' = [defs EXCEPT ![n] = Marked(@, "done", answer)]
    BY DEF Return
  <1> QED BY <1>1, <1>2, MarkKeeps

LEMMA FinishedGrows == ASSUME IInv, [Next]_vars PROVE Finished \subseteq Finished'
  <1>1. CASE RegisterAlias
    <2>1. Absent.state # "done"
      BY DEF Absent
    <2> QED BY <1>1, <2>1, AliasDefsStep DEF Finished
  <1>2. CASE ResolveCycle
    BY <1>2, CycleDefs DEF Finished
  <1>3. CASE ResolveTarget
    BY <1>3, TargetDefs DEF Finished
  <1>4. CASE Return
    BY <1>4, ReturnDefs DEF Finished
  <1>5. CASE ~RegisterAlias /\ ~ResolveCycle /\ ~ResolveTarget /\ ~Return
    BY <1>5, DefsStay DEF Finished
  <1> QED BY <1>1, <1>2, <1>3, <1>4, <1>5

(* All diagnostics but those of ResolveCycle are about something else.     *)
Adds(s, t) ==
    /\ \A i \in DOMAIN s : i \in DOMAIN t /\ t[i] = s[i]
    /\ \A i \in DOMAIN t : t[i].what = "cycle" => i \in DOMAIN s

LEMMA AddsOne ==
    ASSUME NEW s \in Seq(Reports), NEW r \in Reports, r.what # "cycle"
    PROVE  Adds(s, Append(s, r)) /\ Append(s, r) \in Seq(Reports)
  <1>1. /\ Append(s, r) \in Seq(Reports) /\ DOMAIN s = 1..Len(s) /\ Len(s) \in Nat
        /\ DOMAIN Append(s, r) = 1..(Len(s) + 1)
        /\ \A i \in 1..Len(s) : Append(s, r)[i] = s[i]
        /\ Append(s, r)[Len(s) + 1] = r
    OBVIOUS
  <1> QED BY <1>1 DEF Adds

LEMMA AddsReport ==
    ASSUME errors \in Seq(Reports), NEW n \in Names, NEW w \in {"duplicate", "unknown", "ref returned"}
    PROVE  Adds(errors, Report(w, n)) /\ Report(w, n) \in Seq(Reports)
  <1>1. [what |-> w, name |-> n] \in Reports /\ [what |-> w, name |-> n].what # "cycle"
    BY DEF Reports
  <1> QED BY <1>1, AddsOne DEF Report

LEMMA OtherReports ==
    ASSUME IInv, [Next]_vars, ~ResolveCycle
    PROVE  Adds(errors, errors')
  <1>1. errors \in Seq(Reports) /\ Adds(errors, errors)
    BY DEF IInv, TypeOK, Adds
  <1>2. CASE RegisterAlias \/ DuplicateEnum \/ DuplicateStruct
    <2>1. errors' = errors \/ errors' = Report("duplicate", Item.name)
      BY <1>2 DEF RegisterAlias, DuplicateEnum, DuplicateStruct, Duplicate
    <2>2. Item.name \in Names
      BY <1>2, VisitFacts DEF RegisterAlias, DuplicateEnum, DuplicateStruct, Duplicate
    <2> QED BY <1>1, <2>1, <2>2, AddsReport
  <1>3. CASE ResolveUnknown
    <2>1. want.name \in Names
      BY <1>3, WantName DEF ResolveUnknown, IInv
    <2> QED BY <1>1, <1>3, <2>1, AddsReport DEF ResolveUnknown
  <1>4. CASE RegisterFunc
    <2> DEFINE r == [what |-> "ref returned", name |-> Item.name]
    <2>1. PICK a, b : /\ errors' = a \o b
                      /\ a = Report("duplicate", Item.name) \/ a = errors
                      /\ b = <<r>> \/ b = <<>>
      BY <1>4, Zenon DEF RegisterFunc
    <2>2. Item.name \in Names
      <3>1. Visits("sig")
        BY <1>4, Zenon DEF RegisterFunc
      <3> QED BY <3>1, VisitFacts
    <2>3. Adds(errors, a) /\ a \in Seq(Reports)
      BY <1>1, <2>1, <2>2, AddsReport
    <2>4. r \in Reports /\ r.what # "cycle"
      BY <2>2 DEF Reports
    <2> HIDE DEF r
    <2>5. a \o <<r>> = Append(a, r) /\ a \o <<>> = a
      BY <2>3, <2>4
    <2>6. Adds(a, Append(a, r))
      BY <2>3, <2>4, AddsOne
    <2>7. errors' = a \/ errors' = Append(a, r)
      BY <2>1, <2>5
    <2> QED BY <2>3, <2>6, <2>7 DEF Adds
  <1>5. CASE Skip \/ NextPass \/ RegisterEnum \/ RegisterStruct \/ ResolveFields \/ Forced
    BY <1>1, <1>5 DEF Skip, NextPass, RegisterEnum, RegisterStruct, ResolveFields, Forced
  <1>6. CASE Ask \/ ResolveKnown \/ ResolveDone \/ ResolveTarget \/ Return \/ Deliver
    BY <1>1, <1>6 DEF Ask, ResolveKnown, ResolveDone, ResolveTarget, Return, Deliver
  <1>7. CASE UNCHANGED vars
    BY <1>1, <1>7 DEF vars
  <1> QED BY <1>2, <1>3, <1>4, <1>5, <1>6, <1>7 DEF Next

-----------------------------------------------------------------------------
(* The reports.  A step that makes none keeps what is said of them, as     *)
(* long as resolved definitions stay so and those in progress wait for a   *)
(* type on its way.                                                        *)
LEMMA ReportsKept ==
    ASSUME IInv, ReportInv, \A n \in Names : SameDeclaration(n), Adds(errors, errors'),
           Finished \subseteq Finished',
           answer # Null => \A x \in DOMAIN NextDef : defs[x].state = "in_progress" =>
               defs'[x].state = "done" \/ (answer' # Null /\ defs'[x].state = "in_progress"),
           \A n \in Cyclic : n \in Finished' => n \in Finished \/ CycleReports(Orbit(n)) # {}
    PROVE  ReportInv'
  <1>1. NextDef' = NextDef /\ Cyclic' = Cyclic /\ \A n : Orbit(n)' = Orbit(n)
    BY SameCycles
  <1>2. \A n : Orbit(n) \subseteq DOMAIN NextDef /\ DOMAIN NextDef \subseteq Names
    BY NextDefFacts DEF Orbit, LedTo
  <1>3. \A i \in DOMAIN errors' : IsCycle(i)' => i \in DOMAIN errors /\ errors'[i] = errors[i] /\ IsCycle(i)
    BY DEF Adds, IsCycle
  <1>4. ReportsCyclic'
    BY <1>1, <1>3 DEF ReportInv, ReportsCyclic
  <1>5. ReportsSettled'
    <2> SUFFICES ASSUME NEW i \in DOMAIN errors', IsCycle(i)', NEW x \in Orbit(errors[i].name)
                 PROVE  defs'[x].state = "done" \/ (answer' # Null /\ defs'[x].state = "in_progress")
      BY <1>1, <1>3 DEF ReportsSettled
    <2>1. defs[x].state = "done" \/ (answer # Null /\ defs[x].state = "in_progress")
      BY <1>3 DEF ReportInv, ReportsSettled
    <2>2. x \in DOMAIN NextDef /\ x \in Names
      BY <1>2
    <2> QED BY <2>1, <2>2 DEF Finished
  <1>6. ReportsApart'
    BY <1>1, <1>3 DEF ReportInv, ReportsApart
  <1>7. CyclesSeen'
    <2> SUFFICES ASSUME NEW n \in Cyclic, n \in Finished' PROVE CycleReports(Orbit(n))' # {}
      BY <1>1 DEF CyclesSeen
    <2>1. PICK i : i \in CycleReports(Orbit(n))
      BY DEF ReportInv, CyclesSeen
    <2>2. i \in DOMAIN errors' /\ errors'[i] = errors[i]
      BY <2>1 DEF CycleReports, Adds
    <2>3. i \in CycleReports(Orbit(n))'
      BY <1>1, <2>1, <2>2 DEF CycleReports
    <2> QED BY <2>3
  <1> QED BY <1>4, <1>5, <1>6, <1>7 DEF ReportInv

LEMMA ReturnReports == IInv /\ Calling /\ AnswerDone /\ ReportInv /\ Return => ReportInv'
  <1> SUFFICES ASSUME IInv, Calling, AnswerDone, ReportInv, Return PROVE ReportInv'
    OBVIOUS
  <1> DEFINE n == stack[Len(stack)].def
  <1>1. /\ \A m \in Names : SameDeclaration(m)
        /\ \A m \in Names : m # n => defs'[m] = defs[m]
        /\ n \in Names /\ defs'[n].state = "done"
    BY ReturnDefs
  <1>2. answer # Null /\ answer' # Null
    <2>1. stack # <<>> /\ answer # Null /\ answer \in ResolvedTypes
          /\ answer' = Under(stack[Len(stack)].form, TypeOfDef(n, answer))
      BY ReturnFacts DEF Return
    <2> QED BY <2>1, DefKind, BaseAnswer
  <1>3. Adds(errors, errors') /\ Finished \subseteq Finished'
    <2>1. ~ResolveCycle
      BY <1>2 DEF ResolveCycle, InState, Calling
    <2> QED BY <2>1, OtherReports, FinishedGrows DEF Next
  <1>4. n \in Cyclic => CycleReports(Orbit(n)) # {}
    <2> SUFFICES ASSUME n \in Cyclic PROVE CycleReports(Orbit(n)) # {}
      OBVIOUS
    <2>1. n \in DOMAIN NextDef /\ NextDef[n] = Wanted.name
      BY StackPath DEF Return
    <2>2. Wanted.name \in DOMAIN NextDef /\ Wanted.name \in Cyclic /\ Orbit(Wanted.name) = Orbit(n)
      BY <2>1, NextOfCyclic DEF Cyclic, Orbit
    <2>3. Wanted.name \in Finished
      BY <1>2, <2>2, NextDefFacts DEF AnswerDone
    <2> QED BY <2>2, <2>3 DEF ReportInv, CyclesSeen
  <1>5. \A m \in Cyclic : m \in Finished' => m \in Finished \/ CycleReports(Orbit(m)) # {}
    BY <1>1, <1>4 DEF Finished
  <1>6. \A x \in DOMAIN NextDef : defs[x].state = "in_progress" =>
            defs'[x].state = "done" \/ (answer' # Null /\ defs'[x].state = "in_progress")
    BY <1>1, <1>2, NextDefFacts
  <1> QED BY <1>1, <1>3, <1>5, <1>6, ReportsKept

LEMMA TargetReports == IInv /\ Calling /\ ReportInv /\ ResolveTarget => ReportInv'
  <1> SUFFICES ASSUME IInv, Calling, ReportInv, ResolveTarget PROVE ReportInv'
    OBVIOUS
  <1>1. /\ \A m \in Names : SameDeclaration(m)
        /\ \A m \in Names : m # want.name => defs'[m] = defs[m]
        /\ defs'[want.name].state = "in_progress"
    BY TargetDefs
  <1>2. answer = Null /\ ~ResolveCycle
    BY DEF Calling, ResolveTarget, InState, ResolveCycle
  <1>3. Adds(errors, errors') /\ Finished \subseteq Finished'
    BY <1>2, OtherReports, FinishedGrows DEF Next
  <1>4. Finished' \subseteq Finished
    BY <1>1 DEF Finished
  <1> QED BY <1>1, <1>2, <1>3, <1>4, ReportsKept

(* The cycle has no report yet: its members would be resolved.             *)
LEMMA CycleReported == IInv /\ Calling /\ ReportInv /\ ResolveCycle => ReportInv'
  <1> SUFFICES ASSUME IInv, Calling, ReportInv, ResolveCycle PROVE ReportInv'
    OBVIOUS
  <1> DEFINE m == want.name
             k == Len(errors) + 1
  <1>1. /\ \A n \in Names : SameDeclaration(n)
        /\ \A n \in Names : n # m => defs'[n] = defs[n]
        /\ m \in Names /\ defs[m].state = "in_progress" /\ defs'[m].state = "done"
    BY CycleDefs
  <1>2. answer = Null /\ want # Nothing
    BY DEF Calling, ResolveCycle, InState
  <1>3. answer' # Null
    <2>1. Error.kind # "null"
      BY DEF Error, Type
    <2> QED BY <2>1, BaseAnswer DEF ResolveCycle, Answer
  <1>4. m \in Cyclic /\ Orbit(m) \subseteq {stack[j].def : j \in DOMAIN stack}
    BY <1>1, <1>2, MetInProgress
  <1>5. NextDef' = NextDef /\ Cyclic' = Cyclic /\ \A n : Orbit(n)' = Orbit(n)
    BY <1>1, SameCycles
  <1>6. /\ k \in DOMAIN errors' /\ errors'[k].what = "cycle" /\ errors'[k].name = m
        /\ \A i \in DOMAIN errors' : i # k => i \in DOMAIN errors
        /\ \A i \in DOMAIN errors : i \in DOMAIN errors' /\ errors'[i] = errors[i]
    <2>1. errors \in Seq(Reports) /\ [what |-> "cycle", name |-> m] \in Reports
      BY <1>1 DEF IInv, TypeOK, Reports
    <2>2. errors' = Append(errors, [what |-> "cycle", name |-> m])
      BY DEF ResolveCycle, Report
    <2> QED BY <2>1, <2>2
  <1>7. \A n : Orbit(n) \subseteq DOMAIN NextDef /\ DOMAIN NextDef \subseteq Names
    BY NextDefFacts DEF Orbit, LedTo
  <1>8. Finished \subseteq Finished' /\ Finished' \subseteq Finished \cup {m}
    BY <1>1 DEF Finished
  <1> HIDE DEF k, m
  <1>9. \A i \in DOMAIN errors' : IsCycle(i)' => i = k \/ (i \in DOMAIN errors /\ IsCycle(i))
    BY <1>6 DEF IsCycle
  <1>10. ReportsCyclic'
    BY <1>4, <1>5, <1>6, <1>9 DEF ReportInv, ReportsCyclic
  <1>11. ReportsSettled'
    <2> SUFFICES ASSUME NEW i \in DOMAIN errors', IsCycle(i)', NEW x \in Orbit(errors'[i].name)
                 PROVE  defs'[x].state = "done" \/ defs'[x].state = "in_progress"
      BY <1>3, <1>5 DEF ReportsSettled
    <2>1. x \in Names
      BY <1>7
    <2>2. CASE i = k
      <3>1. PICK j \in DOMAIN stack : x = stack[j].def
        BY <1>4, <1>6, <2>2
      <3>2. defs[x].state \in {"in_progress", "done"}
        BY <3>1 DEF IInv, ActiveCalls
      <3> QED BY <1>1, <2>1, <3>2
    <2>3. CASE i # k
      <3>1. defs[x].state = "done"
        BY <1>2, <1>6, <1>9, <2>3 DEF ReportInv, ReportsSettled
      <3> QED BY <1>8, <2>1, <3>1 DEF Finished
    <2> QED BY <2>2, <2>3
  <1>12. \A i \in DOMAIN errors : IsCycle(i) => m \notin Orbit(errors[i].name)
    BY <1>1, <1>2 DEF ReportInv, ReportsSettled
  <1>13. \A i \in DOMAIN errors : IsCycle(i) => errors[i].name \notin Orbit(m)
    <2> SUFFICES ASSUME NEW i \in DOMAIN errors, IsCycle(i), errors[i].name \in Orbit(m) PROVE FALSE
      OBVIOUS
    <2>1. m \in Orbit(errors[i].name)
      BY <1>4, OrbitOfCyclic DEF Cyclic, Orbit
    <2> QED BY <1>12, <2>1
  <1>14. ReportsApart'
    <2> SUFFICES ASSUME NEW i \in DOMAIN errors', NEW j \in DOMAIN errors', IsCycle(i)', IsCycle(j)',
                        errors'[j].name \in Orbit(errors'[i].name)
                 PROVE  i = j
      BY <1>5 DEF ReportsApart
    <2> QED BY <1>6, <1>9, <1>12, <1>13 DEF ReportInv, ReportsApart
  <1>15. CyclesSeen'
    <2> SUFFICES ASSUME NEW n \in Cyclic, n \in Finished' PROVE \E i : i \in CycleReports(Orbit(n))'
      BY <1>5 DEF CyclesSeen
    <2>1. CASE n = m
      <3>1. k \in CycleReports(Orbit(n))'
        BY <1>4, <1>5, <1>6, <2>1 DEF CycleReports, Cyclic
      <3> QED BY <3>1
    <2>2. CASE n # m
      <3>1. PICK i : i \in CycleReports(Orbit(n))
        BY <1>8, <2>2 DEF ReportInv, CyclesSeen
      <3>2. i \in CycleReports(Orbit(n))'
        BY <1>5, <1>6, <3>1 DEF CycleReports
      <3> QED BY <3>2
    <2> QED BY <2>1, <2>2
  <1> QED BY <1>10, <1>11, <1>14, <1>15 DEF ReportInv

(* Names are declared before anything is resolved or reported.             *)
LEMMA AliasReports == IInv /\ NamesFirst /\ RegisterAlias => ReportInv' /\ NamesFirst'
  <1> SUFFICES ASSUME IInv, NamesFirst, RegisterAlias PROVE ReportInv' /\ NamesFirst'
    OBVIOUS
  <1>1. pass = "alias" /\ UNCHANGED <<structs, enums>>
    BY DEF RegisterAlias, Visits
  <1>2. Finished' = {}
    BY <1>1, AliasDefsStep DEF NamesFirst, Finished
  <1>3. \A i \in DOMAIN errors' : ~IsCycle(i)'
    <2>1. ~ResolveCycle
      BY <1>1 DEF RegisterAlias, Visits, Idle, ResolveCycle, InState
    <2>2. Adds(errors, errors')
      BY <2>1, OtherReports DEF Next
    <2> QED BY <1>1, <2>2 DEF NamesFirst, Adds, IsCycle
  <1>4. NamesFirst'
    BY <1>1, <1>2, <1>3 DEF NamesFirst
  <1>5. ReportInv'
    BY <1>2, <1>3 DEF ReportInv, ReportsCyclic, ReportsSettled, ReportsApart, CyclesSeen
  <1> QED BY <1>4, <1>5

LEMMA ReportsInductive ==
    IInv /\ Calling /\ ForceInv /\ ReportInv /\ [Next]_vars => ReportInv'
  <1> SUFFICES ASSUME IInv, Calling, ForceInv, ReportInv, [Next]_vars PROVE ReportInv'
    OBVIOUS
  <1>1. CASE RegisterAlias
    BY <1>1, AliasReports DEF ForceInv
  <1>2. CASE ResolveCycle \/ ResolveTarget \/ Return
    BY <1>2, CycleReported, TargetReports, ReturnReports DEF ForceInv
  <1>3. CASE ~RegisterAlias /\ ~ResolveCycle /\ ~ResolveTarget /\ ~Return
    <2>1. UNCHANGED defs /\ Adds(errors, errors')
      BY <1>3, DefsStay, OtherReports
    <2>2. Finished' = Finished /\ \A n \in Names : SameDeclaration(n)
      BY <2>1 DEF Finished, SameDeclaration
    <2>3. answer # Null => \A x \in DOMAIN NextDef : defs[x].state = "in_progress" =>
               defs'[x].state = "done" \/ (answer' # Null /\ defs'[x].state = "in_progress")
      <3> SUFFICES ASSUME answer # Null, NEW x \in DOMAIN NextDef, defs[x].state = "in_progress"
                   PROVE  answer' # Null
        BY <2>1
      <3>1. stack # <<>>
        <4>1. x \in Names
          BY NextDefFacts
        <4> QED BY <4>1 DEF IInv, ActiveCalls
      <3>2. ~Idle /\ ~Deliver /\ want = Nothing
        BY <3>1 DEF Idle, Deliver, Calling
      <3>3. ~ItemStep
        BY <3>2, ItemStepFacts
      <3>4. NextPass \/ Ask \/ UNCHANGED vars
        BY <1>3, <3>2, <3>3 DEF Next, ItemStep, ResolveKnown, ResolveUnknown, ResolveDone, InState
      <3> QED BY <3>4 DEF NextPass, Ask, vars, calls
    <2> QED BY <2>1, <2>2, <2>3, ReportsKept
  <1> QED BY <1>1, <1>2, <1>3

-----------------------------------------------------------------------------
(* Forcing resolves every definition: the type on its way is the resolved  *)
(* definition's, if one was asked for.                                     *)
LEMMA WantedKept ==
    ASSUME IInv, CallStep, UNCHANGED <<row, stack>>
    PROVE  Wanted' = Wanted
  <1>1. SameNames /\ UNCHANGED <<pass, at>>
    BY CallKeeps
  <1>2. Len(stack) \in Nat /\ DOMAIN stack = 1..Len(stack)
    BY DEF IInv, TypeOK
  <1>3. \A i \in 0..Len(stack) : AskedBy(i)' = AskedBy(i)
    BY <1>1, <1>2, AskedKept
  <1> QED BY <1>2, <1>3 DEF Wanted

LEMMA ResolvedAnswers ==
    ASSUME IInv, Calling, NamesApart, ResolveKnown \/ ResolveUnknown \/ ResolveDone \/ ResolveCycle
    PROVE  AnswerDone'
  <1>1. want # Nothing /\ UNCHANGED <<row, stack>> /\ CallStep
    BY DEF ResolveKnown, ResolveUnknown, ResolveDone, ResolveCycle, InState, CallStep
  <1>2. Wanted'.name = want.name /\ want.name \in Names
    BY <1>1, WantedKept, WantName DEF Calling, IInv
  <1>3. SameDeclaration(want.name)
    BY <1>1, <1>2, CallKeeps DEF SameNames
  <1>4. CASE ResolveKnown \/ ResolveUnknown
    <2>1. defs[want.name] = Absent
      BY <1>2, <1>4 DEF ResolveKnown, ResolveUnknown, NamesApart
    <2> QED BY <1>2, <1>3, <2>1 DEF AnswerDone, SameDeclaration
  <1>5. CASE ResolveDone
    <2>1. want.name \in Finished'
      BY <1>2, <1>5 DEF ResolveDone, InState, Finished, tables
    <2> QED BY <1>2, <2>1 DEF AnswerDone
  <1>6. CASE ResolveCycle
    BY <1>2, <1>6, CycleDefs DEF AnswerDone, Finished
  <1> QED BY <1>4, <1>5, <1>6

(* What a call answers is what the call below it, or the item, asked for.  *)
LEMMA ReturnWanted ==
    ASSUME IInv, Calling, Return, NEW n, n = stack[Len(stack)].def
    PROVE  Wanted'.name = n
  <1> DEFINE k == Len(stack)
  <1>1. UNCHANGED <<pass, at, row>>
    BY DEF Return
  <1>2. SameNames
    BY CallKeeps DEF CallStep
  <1>3. /\ k \in Nat \ {0} /\ DOMAIN stack = 1..k /\ Len(stack') = k - 1
        /\ \A i \in 1..(k - 1) : stack'[i] = stack[i]
    BY ReturnFacts
  <1>4. \A i \in 0..(k - 1) : AskedBy(i)' = AskedBy(i)
    <2>1. k - 1 \in Nat /\ \A i \in 1..(k - 1) : i \in DOMAIN stack
      BY <1>3
    <2> QED BY <1>1, <1>2, <1>3, <2>1, AskedKept
  <1>5. k - 1 \in 0..(k - 1) /\ k \in DOMAIN stack
    BY <1>3
  <1>6. Wanted' = AskedBy(k - 1)
    BY <1>3, <1>4, <1>5 DEF Wanted
  <1> QED BY <1>5, <1>6 DEF Calling

LEMMA ReturnAnswers == ASSUME IInv, Calling, Return PROVE AnswerDone'
  BY ReturnWanted, ReturnDefs DEF AnswerDone, Finished

LEMMA AnswerDoneInductive ==
    IInv /\ Calling /\ ForceInv /\ [Next]_vars => AnswerDone'
  <1> SUFFICES ASSUME IInv, Calling, ForceInv, [Next]_vars PROVE AnswerDone'
    OBVIOUS
  <1>1. CASE ItemStep
    BY <1>1, ItemStepFacts DEF AnswerDone, Idle
  <1>2. CASE NextPass
    <2>1. ~(at <= Len(items)) /\ answer' = answer
      BY <1>2 DEF NextPass, IInv, TypeOK, calls
    <2> QED BY <2>1 DEF AnswerDone, Calling, Visiting, Idle
  <1>3. CASE Ask \/ ResolveTarget \/ Deliver
    BY <1>3 DEF Ask, ResolveTarget, Deliver, Visits, Idle, InState, Calling, AnswerDone
  <1>4. CASE ResolveKnown \/ ResolveUnknown \/ ResolveDone \/ ResolveCycle
    BY <1>4, ResolvedAnswers DEF ForceInv
  <1>5. CASE Return
    BY <1>5, ReturnAnswers
  <1>6. CASE UNCHANGED vars
    BY <1>6 DEF vars, tables, calls, ForceInv, AnswerDone, Wanted, AskedBy, Asked, Item, Finished
  <1> QED BY <1>1, <1>2, <1>3, <1>4, <1>5, <1>6 DEF Next, ItemStep

(* In the pass that forces, the definition of the item is in the table.    *)
LEMMA ForcedItem ==
    ASSUME IInv, Registry, Visiting, pass = "force"
    PROVE  Item.name \in Names /\ defs[Item.name] # Absent
  <1>1. at \in DOMAIN items /\ at \in 1..Len(items)
    BY DEF IInv, TypeOK, Visiting
  <1>2. Item.kind \in KindsOf("alias")
    BY DEF Visiting, KindsOf
  <1>3. Past("alias", at)
    BY DEF Past, PassNo
  <1> QED BY <1>1, <1>2, <1>3, ItemTypes DEF Registry, Listed, Did, Item, IInv

LEMMA RowForcedInductive ==
    IInv /\ Registry /\ Calling /\ ForceInv /\ [Next]_vars => RowForced'
  <1> SUFFICES ASSUME IInv, Registry, Calling, ForceInv, [Next]_vars PROVE RowForced'
    OBVIOUS
  <1>1. CASE ItemStep
    BY <1>1, ItemStepFacts DEF RowForced
  <1>2. CASE NextPass
    BY <1>2 DEF NextPass, Calling, RowForced
  <1>3. CASE Deliver
    <2> SUFFICES ASSUME pass = "force" PROVE Item.name \in Finished'
      BY <1>3 DEF RowForced, Deliver, Item
    <2>1. Visiting /\ answer # Null /\ Wanted.name = Item.name
      <3>1. stack = <<>> /\ answer # Null
        BY <1>3 DEF Deliver
      <3> QED BY <3>1 DEF Calling, Idle, Wanted, AskedBy, Asked
    <2>2. Item.name \in Finished
      BY <2>1, ForcedItem DEF ForceInv, AnswerDone
    <2> QED BY <2>2, FinishedGrows
  <1>4. CASE (CallStep /\ ~Deliver) \/ UNCHANGED vars
    <2>1. UNCHANGED <<items, pass, at, row>>
      BY <1>4 DEF CallStep, Ask, ResolveKnown, ResolveUnknown, ResolveDone, ResolveCycle,
                  ResolveTarget, Return, vars
    <2> QED BY <2>1, FinishedGrows DEF ForceInv, RowForced, Item
  <1> QED BY <1>1, <1>2, <1>3, <1>4 DEF Next, ItemStep, CallStep

LEMMA ForcedDoneInductive ==
    IInv /\ ForceInv /\ [Next]_vars => ForcedDone'
  <1> SUFFICES ASSUME IInv, ForceInv, [Next]_vars, NEW i \in DOMAIN items', Did(i, "force")'
               PROVE  items'[i].name \in Finished'
    BY DEF ForcedDone
  <1>1. CASE Did(i, "force") /\ UNCHANGED items
    BY <1>1, FinishedGrows DEF ForceInv, ForcedDone
  <1>2. CASE CallStep \/ UNCHANGED vars
    <2>1. UNCHANGED <<items, pass, at>>
      BY <1>2, CallKeeps DEF vars
    <2> QED BY <1>1, <2>1, DidSame
  <1>3. CASE NextPass
    <2>1. UNCHANGED items
      BY <1>3 DEF NextPass
    <2> QED BY <1>1, <1>3, <2>1, DidNextPass DEF Passes
  <1>4. CASE ItemStep
    <2>1. UNCHANGED items /\ NextItem /\ at <= Len(items)
      BY <1>4, ItemStepFacts
    <2>2. Did(i, "force") \/ (pass = "force" /\ i = at /\ Item.kind \in KindsOf("force"))
      BY <2>1, DidNextItem DEF Passes
    <2>3. CASE pass = "force" /\ i = at /\ Item.kind \in KindsOf("force")
      <3>1. Forced
        BY <1>4, <2>3 DEF ItemStep, Skip, RegisterAlias, DuplicateEnum, RegisterEnum, DuplicateStruct,
                          RegisterStruct, ResolveFields, RegisterFunc, Duplicate, Visits
      <3>2. row # <<>>
        BY <3>1 DEF Forced
      <3>3. Item.name \in Finished
        BY <2>3, <3>2 DEF ForceInv, RowForced
      <3> QED BY <2>1, <2>3, <3>3, FinishedGrows DEF Item
    <2> QED BY <1>1, <2>1, <2>2, <2>3
  <1> QED BY <1>2, <1>3, <1>4 DEF Next, ItemStep, CallStep

LEMMA NamesApartInductive ==
    IInv /\ ForceInv /\ [Next]_vars => NamesApart'
  <1> SUFFICES ASSUME IInv, ForceInv, [Next]_vars PROVE NamesApart'
    OBVIOUS
  <1>1. NamesApart
    BY DEF ForceInv
  <1>2. CASE RegisterAlias
    <2>1. pass = "alias" /\ UNCHANGED <<structs, enums>>
      BY <1>2 DEF RegisterAlias, Visits
    <2>2. Item.name \notin Builtins
      <3>1. Visits("alias")
        BY <1>2 DEF RegisterAlias
      <3>2. at \in 1..Len(items) /\ items \in Seq(Items) /\ Item.kind \in KindsOf("alias")
        BY <3>1, VisitFacts
      <3>3. at \in DOMAIN items /\ Item.kind # "func"
        BY <3>2 DEF KindsOf, AliasKinds
      <3> QED BY <3>3, ItemAt DEF IInv, Item
    <2>3. DOMAIN structs = {} /\ DOMAIN enums = {}
      BY <2>1 DEF ForceInv, NamesFirst
    <2> QED BY <1>1, <1>2, <2>1, <2>2, <2>3, AliasDefsStep DEF NamesApart, Registered
  <1>3. CASE RegisterEnum
    <2>1. /\ UNCHANGED <<defs, structs>> /\ ~Taken(Item.name)
          /\ enums' = With(enums, Item.name, row)
      BY <1>3 DEF RegisterEnum
    <2>2. DOMAIN enums' = DOMAIN enums \cup {Item.name} /\ defs[Item.name] = Absent
      BY <2>1 DEF With, Taken
    <2> QED BY <1>1, <2>1, <2>2 DEF NamesApart, Registered
  <1>4. CASE RegisterStruct
    <2>1. /\ UNCHANGED <<defs, enums>> /\ ~Taken(Item.name)
          /\ structs' = With(structs, Item.name, [k \in DOMAIN Item.types |-> Null])
      BY <1>4 DEF RegisterStruct
    <2>2. DOMAIN structs' = DOMAIN structs \cup {Item.name} /\ defs[Item.name] = Absent
      BY <2>1 DEF With, Taken
    <2> QED BY <1>1, <2>1, <2>2 DEF NamesApart, Registered
  <1>5. CASE ResolveFields
    <2>1. UNCHANGED <<defs, enums>> /\ DOMAIN structs' = DOMAIN structs
      BY <1>5 DEF ResolveFields
    <2> QED BY <1>1, <2>1 DEF NamesApart, Registered
  <1>6. CASE Skip \/ NextPass \/ DuplicateEnum \/ DuplicateStruct \/ Forced \/ RegisterFunc \/ UNCHANGED vars
    <2>1. UNCHANGED <<defs, structs, enums>>
      BY <1>6, Zenon DEF Skip, NextPass, DuplicateEnum, DuplicateStruct, Duplicate, Forced, RegisterFunc,
                  tables, vars
    <2> QED BY <1>1, <2>1 DEF NamesApart, Registered
  <1>7. CASE CallStep
    <2>1. UNCHANGED <<structs, enums>> /\ \A n \in Names : SameDeclaration(n)
      BY <1>7, CallKeeps DEF SameNames
    <2> QED BY <1>1, <2>1 DEF NamesApart, Registered, SameDeclaration
  <1> QED BY <1>2, <1>3, <1>4, <1>5, <1>6, <1>7 DEF Next, CallStep

LEMMA NamesFirstInductive ==
    IInv /\ Calling /\ ForceInv /\ [Next]_vars => NamesFirst'
  <1> SUFFICES ASSUME IInv, Calling, ForceInv, [Next]_vars, pass' = "alias" PROVE NamesFirst'
    BY DEF NamesFirst
  <1>1. NamesFirst
    BY DEF ForceInv
  <1>2. CASE RegisterAlias
    BY <1>1, <1>2, AliasReports
  <1>3. ~NextPass
    BY DEF NextPass, After, IInv, TypeOK, Passes
  <1>4. pass = "alias"
    <2>1. CASE ItemStep
      BY <2>1, ItemStepFacts DEF NextItem
    <2>2. CASE CallStep
      BY <2>2, CallKeeps
    <2>3. CASE UNCHANGED vars
      BY <2>3 DEF vars
    <2> QED BY <1>3, <2>1, <2>2, <2>3 DEF Next, ItemStep, CallStep
  <1>5. Idle /\ ~Asks(pass)
    BY <1>4 DEF Calling, Visiting, Asks
  <1>6. RegisterAlias \/ Skip \/ UNCHANGED vars
    BY <1>3, <1>4, <1>5 DEF Next, DuplicateEnum, RegisterEnum, DuplicateStruct, Duplicate, Visits,
           RegisterStruct, ResolveFields, Forced, RegisterFunc, Ask, ResolveKnown, ResolveUnknown,
           ResolveDone, ResolveCycle, ResolveTarget, Return, Deliver, InState, Idle
  <1>7. CASE Skip \/ UNCHANGED vars
    <2>1. UNCHANGED <<defs, structs, enums, errors>>
      BY <1>7 DEF Skip, tables, vars
    <2> QED BY <1>1, <1>4, <2>1 DEF NamesFirst, Finished, IsCycle
  <1> QED BY <1>2, <1>6, <1>7

-----------------------------------------------------------------------------
CInv == IInv /\ Registry /\ Calling /\ InProgress /\ ForceInv /\ ReportInv

LEMMA FirstCycles == Init => CInv
  <1> SUFFICES ASSUME Init PROVE CInv
    OBVIOUS
  <1>1. IInv /\ Registry /\ Calling /\ InProgress
    BY FirstTables DEF TInv
  <1>2. Finished = {} /\ DOMAIN structs = {} /\ DOMAIN enums = {} /\ errors = <<>>
    BY DEF Init, Finished, Absent, Empty
  <1>3. AnswerDone /\ RowForced /\ NamesApart /\ NamesFirst
    BY <1>2 DEF Init, AnswerDone, RowForced, NamesApart, NamesFirst
  <1>4. ForcedDone
    <2>1. items \in Seq(Items) /\ \A i \in DOMAIN items : i \in Nat /\ ~(i < 1)
      BY TableAssumption DEF Init
    <2> QED BY <2>1 DEF Init, ForcedDone, Did, Past, PassNo
  <1>5. ReportInv
    BY <1>2 DEF ReportInv, ReportsCyclic, ReportsSettled, ReportsApart, CyclesSeen
  <1> QED BY <1>1, <1>3, <1>4, <1>5 DEF CInv, ForceInv

LEMMA CyclesInductive == CInv /\ [Next]_vars => CInv'
  BY Inductive, RegistryInductive, CallingInductive, AnswerDoneInductive, RowForcedInductive,
     ForcedDoneInductive, NamesApartInductive, NamesFirstInductive, ReportsInductive
  DEF CInv, ForceInv

LEMMA CyclesOnce == CInv => CyclesReportedOnce
  <1> SUFFICES ASSUME CInv PROVE CyclesReportedOnce
    OBVIOUS
  <1> USE DEF CInv
  <1>1. CycleReports(Names \ Cyclic) = {}
    BY DEF ReportInv, ReportsCyclic, CycleReports, IsCycle
  <1>2. ASSUME NEW n \in Cyclic PROVE Cardinality(CycleReports(Orbit(n))) <= 1
    <2> DEFINE R == CycleReports(Orbit(n))
    <2>1. \A i, j \in R : i = j
      <3> SUFFICES ASSUME NEW i \in R, NEW j \in R PROVE i = j
        OBVIOUS
      <3>1. /\ i \in DOMAIN errors /\ j \in DOMAIN errors /\ IsCycle(i) /\ IsCycle(j)
            /\ errors[i].name \in Orbit(n) /\ errors[j].name \in Orbit(n)
        BY DEF CycleReports, IsCycle
      <3>2. Orbit(errors[i].name) = Orbit(n)
        BY <3>1, OrbitOfCyclic DEF Cyclic, Orbit
      <3> QED BY <3>1, <3>2 DEF ReportInv, ReportsApart
    <2> HIDE DEF R
    <2>2. CASE R = {}
      <3>1. Cardinality(R) = 0
        BY <2>2, FS_EmptySet, Zenon
      <3> QED BY <3>1 DEF R
    <2>3. CASE R # {}
      <3>1. PICK i : R = {i}
        BY <2>1, <2>3
      <3>2. Cardinality(R) = 1
        BY <3>1, FS_Singleton, Zenon
      <3> QED BY <3>2 DEF R
    <2> QED BY <2>2, <2>3
  <1>3. ASSUME pass = "done", NEW n \in Cyclic PROVE CycleReports(Orbit(n)) # {}
    <2>1. n \in Names /\ defs[n] # Absent
      BY NextDefFacts
    <2>2. PICK i \in DOMAIN items : items[i].name = n /\ items[i].kind \in AliasKinds
      BY <2>1 DEF Registry, Declared, Declares
    <2>3. Did(i, "force")
      BY <1>3, <2>2 DEF Did, Past, PassNo, KindsOf
    <2>4. n \in Finished
      BY <2>2, <2>3 DEF ForceInv, ForcedDone
    <2> QED BY <2>4 DEF ReportInv, CyclesSeen
  <1> QED BY <1>1, <1>2, <1>3 DEF CyclesReportedOnce

(* types.cc:272-273, "reported once, then cached as Error so it can't loop *)
(* or cascade": whatever declarations a module has and wherever they are   *)
(* mentioned, a report of a cycle is about a cycle of definitions, no      *)
(* cycle has two, and each has one when the passes are over.               *)
THEOREM CyclesReported == Spec => []CyclesReportedOnce
  <1> QED BY FirstCycles, CyclesInductive, CyclesOnce, PTL DEF Spec
=============================================================================
