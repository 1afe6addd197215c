--------------------------- MODULE LowerTypesProofs ----------------------------
(***************************************************************************)
(* For every module the checker accepts: the tables that lower_module      *)
(* builds hold the representations of the types that check_module          *)
(* resolved, and what the lowerer refuses is enums in struct fields.       *)
(*                                                                         *)
(* First, what check_module knows when it resolves a name, and that its    *)
(* types are known names; then the tables of the lowerer, step by step;    *)
(* then the two readings of the declarations agree, by induction along     *)
(* the definitions, which have no cycle in a module without errors.        *)
(***************************************************************************)
EXTENDS LowerTypes, TypeTablesProofs

(* The names resolve_type has an answer for, ...                           *)
Known == Builtins \cup DOMAIN structs \cup DOMAIN enums \cup Finished

(* ... among them every name that was resolved without an error.           *)
AnswerKnown  == answer # Null => Wanted.name \in Known
TargetsKnown == \A n \in Finished : defs[n].target.name \in Known
RowKnown     == pass # "force" => \A k \in 1..Len(row) : Item.types[k].name \in Known
TypesKnown   == \A i \in DOMAIN items : \A p \in {"field", "sig"} :
    Did(i, p) => \A k \in DOMAIN items[i].types : items[i].types[k].name \in Known
EnumsListed  == \A n \in DOMAIN enums : \E i \in DOMAIN items : Did(i, "enum") /\ items[i].name = n

(* The payloads of an enum lead, through definitions, to builtins, structs *)
(* and enums declared before it.                                           *)
Grounded(G, j) == \A n \in G :
    \/ n \in Builtins \/ Declares(n, {"struct"})
    \/ \E i \in DOMAIN items : i < j /\ items[i].kind = "enum" /\ items[i].name = n
    \/ defs[n] # Absent /\ defs[n].target.name \in G
EnumGrounded(j) ==
    \E G \in SUBSET Names : /\ Grounded(G, j)
                            /\ \A k \in DOMAIN items[j].types : items[j].types[k].name \in G
EnumsGrounded == \A j \in DOMAIN items : Did(j, "enum") => EnumGrounded(j)

KnownInv ==
    Plain => /\ AnswerKnown /\ TargetsKnown /\ RowKnown
             /\ TypesKnown /\ EnumsListed /\ EnumsGrounded

LEMMA DidStays ==
    ASSUME IInv, [Next]_vars, NEW i \in DOMAIN items, NEW p \in Passes \ {"done"}, Did(i, p)
    PROVE  Did(i, p)' /\ UNCHANGED items
  <1>1. CASE CallStep \/ UNCHANGED vars
    <2>1. UNCHANGED <<items, pass, at>>
      BY <1>1, CallKeeps DEF vars
    <2> QED BY <2>1, DidSame
  <1>2. CASE ItemStep
    <2>1. UNCHANGED <<items, pass>> /\ at' = at + 1
      BY <1>2, ItemStepFacts DEF NextItem
    <2>2. at \in Nat /\ i \in Nat
      BY DEF IInv, TypeOK
    <2>3. i < at => i < at'
      BY <2>1, <2>2
    <2> QED BY <2>1, <2>3 DEF Did, Past
  <1>3. CASE NextPass
    <2>1. UNCHANGED items /\ pass \in Passes \ {"done"} /\ pass' = After[pass]
      BY <1>3 DEF NextPass, IInv, TypeOK
    <2>2. PassNo(pass') = PassNo(pass) + 1 /\ PassNo(pass) \in 1..7 /\ PassNo(p) \in 1..7
      BY <2>1, Numbers
    <2>3. PassNo(pass) >= PassNo(p)
      BY <2>2 DEF Did, Past
    <2>4. PassNo(pass') > PassNo(p)
      BY <2>2, <2>3
    <2> QED BY <2>1, <2>4 DEF Did, Past
  <1> QED BY <1>1, <1>2, <1>3 DEF Next, CallStep, ItemStep

LEMMA KnownGrows ==
    ASSUME IInv, [Next]_vars
    PROVE  /\ Known \subseteq Known'
           /\ DOMAIN structs \subseteq DOMAIN structs' /\ DOMAIN enums \subseteq DOMAIN enums'
  <1>1. DOMAIN structs \subseteq DOMAIN structs' /\ DOMAIN enums \subseteq DOMAIN enums'
    <2>1. CASE CallStep \/ UNCHANGED vars
      BY <2>1, CallKeeps DEF vars, tables
    <2>2. CASE Skip \/ NextPass \/ DuplicateEnum \/ DuplicateStruct \/ Forced \/ RegisterAlias
               \/ RegisterFunc
      BY <2>2 DEF Skip, NextPass, DuplicateEnum, DuplicateStruct, Duplicate, Forced, RegisterAlias,
                  RegisterFunc, tables
    <2>3. CASE RegisterEnum \/ RegisterStruct \/ ResolveFields
      BY <2>3 DEF RegisterEnum, RegisterStruct, ResolveFields, With
    <2> QED BY <2>1, <2>2, <2>3 DEF Next, CallStep
  <1> QED BY <1>1, FinishedGrows DEF Known

(* The answer is to a name that is known.                                  *)
LEMMA AnswerKnownInductive ==
    ASSUME IInv, Calling, AnswerKnown, Next, errors' = <<>>
    PROVE  AnswerKnown'
  <1>1. CASE ItemStep
    BY <1>1, ItemStepFacts DEF AnswerKnown, Idle
  <1>2. CASE NextPass
    <2>1. ~(at <= Len(items)) /\ answer' = answer
      BY <1>2 DEF NextPass, IInv, TypeOK, calls
    <2> QED BY <2>1 DEF AnswerKnown, Calling, Visiting, Idle
  <1>3. CASE Ask \/ ResolveTarget \/ Deliver
    BY <1>3 DEF Ask, ResolveTarget, Deliver, Visits, Idle, InState, Calling, AnswerKnown
  <1>4. CASE ResolveUnknown \/ ResolveCycle
    BY <1>4, ReportAdds DEF ResolveUnknown, ResolveCycle, IInv
  <1>5. CASE ResolveKnown \/ ResolveDone
    <2>1. want # Nothing /\ UNCHANGED <<row, stack>> /\ CallStep
      BY <1>5 DEF ResolveKnown, ResolveDone, InState, CallStep
    <2>2. Wanted'.name = want.name /\ want.name \in Names
      BY <2>1, WantedKept, WantName DEF Calling, IInv
    <2>3. want.name \in Known
      BY <1>5, <2>2 DEF ResolveKnown, ResolveDone, InState, Known, Finished, Registered
    <2> QED BY <2>2, <2>3, KnownGrows DEF AnswerKnown
  <1>6. CASE Return
    BY <1>6, ReturnWanted, ReturnDefs DEF AnswerKnown, Known, Finished
  <1> QED BY <1>1, <1>2, <1>3, <1>4, <1>5, <1>6 DEF Next, ItemStep

(* So is the target of a definition that is resolved.                      *)
LEMMA TargetsKnownInductive ==
    ASSUME IInv, Calling, AnswerKnown, TargetsKnown, Next, errors' = <<>>
    PROVE  TargetsKnown'
  <1> SUFFICES ASSUME NEW n \in Names, defs'[n].state = "done"
               PROVE  defs'[n].target.name \in Known'
    BY DEF TargetsKnown, Finished
  <1>1. Known \subseteq Known'
    BY KnownGrows
  <1>2. CASE n \in Finished /\ defs'[n].target = defs[n].target
    BY <1>1, <1>2 DEF TargetsKnown
  <1>3. CASE RegisterAlias
    BY <1>2, <1>3, AliasDefsStep DEF Finished
  <1>4. CASE ResolveCycle
    BY <1>4, ReportAdds DEF ResolveCycle, IInv
  <1>5. CASE ResolveTarget
    BY <1>2, <1>5, TargetDefs DEF Finished, SameDeclaration
  <1>6. CASE Return
    <2>1. SameDeclaration(n) /\ (n # stack[Len(stack)].def => defs'[n] = defs[n])
      BY <1>6, ReturnDefs
    <2>2. CASE n = stack[Len(stack)].def
      <3>1. defs'[n].target = Wanted /\ answer # Null
        <4>1. Len(stack) # 0 /\ answer # Null
          BY <1>6, ReturnFacts DEF Return
        <4> QED BY <2>1, <2>2, <4>1 DEF Wanted, AskedBy, SameDeclaration
      <3> QED BY <1>1, <3>1 DEF AnswerKnown
    <2> QED BY <1>2, <2>1, <2>2 DEF Finished, SameDeclaration
  <1>7. CASE ~RegisterAlias /\ ~ResolveCycle /\ ~ResolveTarget /\ ~Return
    BY <1>2, <1>7, DefsStay DEF Finished
  <1> QED BY <1>3, <1>4, <1>5, <1>6, <1>7

(* So are the types of the item so far, ...                                *)
LEMMA RowKnownInductive ==
    ASSUME IInv, Calling, AnswerKnown, RowKnown, Next
    PROVE  RowKnown'
  <1>1. Known \subseteq Known'
    BY KnownGrows
  <1>2. CASE ItemStep
    BY <1>2, ItemStepFacts DEF RowKnown
  <1>3. CASE NextPass
    <2>1. at > Len(items) /\ row' = row
      BY <1>3 DEF NextPass
    <2> QED BY <2>1 DEF RowKnown, Calling
  <1>4. CASE Deliver
    <2> SUFFICES ASSUME pass # "force", NEW k \in 1..Len(row') PROVE Item.types[k].name \in Known'
      BY <1>4 DEF RowKnown, Deliver, Item
    <2>1. /\ answer # Null /\ stack = <<>> /\ row' = Append(row, answer) /\ row \in Seq(ResolvedTypes)
          /\ answer \in ResolvedTypes
      BY <1>4 DEF Deliver, IInv, TypeOK
    <2>2. CASE k = Len(row) + 1
      <3>1. Wanted = Item.types[k]
        BY <2>1, <2>2 DEF Wanted, AskedBy, Asked
      <3> QED BY <1>1, <2>1, <3>1 DEF AnswerKnown
    <2>3. CASE k # Len(row) + 1
      <3>1. k \in 1..Len(row)
        BY <2>1, <2>3
      <3> QED BY <1>1, <3>1 DEF RowKnown
    <2> QED BY <2>2, <2>3
  <1>5. CASE CallStep /\ ~Deliver
    <2>1. UNCHANGED <<items, pass, at, row>>
      BY <1>5 DEF CallStep, Ask, ResolveKnown, ResolveUnknown, ResolveDone, ResolveCycle,
                  ResolveTarget, Return
    <2> QED BY <1>1, <2>1 DEF RowKnown, Item
  <1> QED BY <1>2, <1>3, <1>4, <1>5 DEF Next, ItemStep, CallStep

(* ... and those of an item that is complete.                              *)
LEMMA ItemKnown ==
    ASSUME IInv, RowKnown, pass # "force", Item.types \in Seq(TypeExprs), Len(row) = Len(Item.types)
    PROVE  \A k \in DOMAIN Item.types : Item.types[k].name \in Known
  <1>1. DOMAIN Item.types = 1..Len(row)
    OBVIOUS
  <1> QED BY <1>1 DEF RowKnown

(* An item is handled by the step of its pass that goes to the next.       *)
LEMMA HandledNow ==
    ASSUME IInv, Next, NEW i \in DOMAIN items, NEW p \in Passes \ {"done"}, Did(i, p)', ~Did(i, p)
    PROVE  /\ ItemStep /\ pass = p /\ i = at /\ Item.kind \in KindsOf(p) /\ at \in 1..Len(items)
           /\ items \in Modules
  <1>1. ~CallStep /\ ~NextPass
    BY CallKeeps, DidSame, DidNextPass
  <1>2. ItemStep
    BY <1>1 DEF Next, CallStep, ItemStep
  <1>3. pass = p /\ i = at /\ Item.kind \in KindsOf(p)
    BY <1>2, ItemStepFacts, DidNextItem
  <1> QED BY <1>2, <1>3 DEF IInv, TypeOK

LEMMA TypesKnownInductive ==
    ASSUME IInv, Plain, InTables, RowKnown, TypesKnown, Next
    PROVE  TypesKnown'
  <1>1. UNCHANGED items /\ Known \subseteq Known'
    BY ErrorsStay, KnownGrows
  <1> SUFFICES ASSUME NEW i \in DOMAIN items, NEW p \in {"field", "sig"}, Did(i, p)',
                      NEW k \in DOMAIN items[i].types
               PROVE  items[i].types[k].name \in Known
    BY <1>1 DEF TypesKnown
  <1>2. CASE Did(i, p)
    BY <1>2 DEF TypesKnown
  <1>3. CASE ~Did(i, p)
    <2>1. /\ ItemStep /\ pass = p /\ i = at /\ Item.kind \in KindsOf(p)
          /\ at \in 1..Len(items) /\ items \in Modules
      BY <1>3, HandledNow DEF Passes
    <2>2. Item.types \in Seq(TypeExprs)
      BY <2>1, ItemTypes
    <2>3. CASE p = "field"
      <3>1. ResolveFields
        BY <2>1, <2>3 DEF ItemStep, Skip, RegisterAlias, DuplicateEnum, RegisterEnum, DuplicateStruct,
                          RegisterStruct, Forced, RegisterFunc, Duplicate, Visits
      <3>2. Did(at, "struct")
        BY <2>1, <2>3 DEF Did, Past, PassNo, KindsOf, Item
      <3>3. Item.name \in DOMAIN structs
        BY <2>1, <3>2 DEF InTables, Stored, Item
      <3>4. Len(row) = Len(Item.types)
        BY <3>1, <3>3 DEF ResolveFields
      <3> QED BY <2>1, <2>2, <2>3, <3>4, ItemKnown DEF Item
    <2>4. CASE p = "sig"
      <3>1. RegisterFunc
        BY <2>1, <2>4 DEF ItemStep, Skip, RegisterAlias, DuplicateEnum, RegisterEnum, DuplicateStruct,
                          RegisterStruct, Forced, ResolveFields, Duplicate, Visits
      <3>2. Len(row) = Len(Item.types)
        BY <3>1 DEF RegisterFunc
      <3> QED BY <2>1, <2>2, <2>4, <3>2, ItemKnown DEF Item
    <2> QED BY <2>3, <2>4
  <1> QED BY <1>2, <1>3

LEMMA EnumsListedInductive ==
    ASSUME IInv, EnumsListed, Next PROVE EnumsListed'
  <1>1. UNCHANGED items
    BY ErrorsStay
  <1> SUFFICES ASSUME NEW n \in DOMAIN enums'
               PROVE  \E i \in DOMAIN items : Did(i, "enum")' /\ items[i].name = n
    BY <1>1 DEF EnumsListed
  <1>2. CASE n \in DOMAIN enums
    BY <1>2, DidStays DEF EnumsListed, Passes
  <1>3. CASE n \notin DOMAIN enums
    <2>1. RegisterEnum
      <3>1. ~CallStep
        BY <1>3, CallKeeps
      <3>2. ~RegisterStruct /\ ~ResolveFields /\ ~RegisterFunc /\ ~RegisterAlias
        BY <1>3 DEF RegisterStruct, ResolveFields, RegisterFunc, RegisterAlias
      <3>3. ~Skip /\ ~NextPass /\ ~DuplicateEnum /\ ~DuplicateStruct /\ ~Forced
        BY <1>3 DEF Skip, NextPass, DuplicateEnum, DuplicateStruct, Duplicate, Forced, tables
      <3> QED BY <3>1, <3>2, <3>3 DEF Next, CallStep
    <2>2. /\ Visits("enum") /\ enums' = With(enums, Item.name, row) /\ pass' = pass /\ at' = at + 1
      BY <2>1 DEF RegisterEnum, NextItem
    <2>3. n = Item.name
      BY <1>3, <2>2 DEF With
    <2>4. at \in 1..Len(items) /\ at \in DOMAIN items /\ Item.kind \in KindsOf("enum") /\ at < at + 1
      BY <2>2, VisitFacts
    <2>5. PICK i \in DOMAIN items : i = at
      BY <2>4
    <2>6. Did(i, "enum")'
      BY <1>1, <2>2, <2>4, <2>5 DEF Did, Past, Item, Visits, KindsOf
    <2> QED BY <2>3, <2>5, <2>6 DEF Item
  <1> QED BY <1>2, <1>3

(* A declaration that is in the table stays as it is.                      *)
LEMMA TargetsStay ==
    ASSUME IInv, Next, NEW n \in Names, defs[n] # Absent
    PROVE  defs'[n] # Absent /\ defs'[n].target = defs[n].target
  <1>1. CASE RegisterAlias
    BY <1>1, AliasDefsStep
  <1>2. CASE ResolveCycle \/ ResolveTarget \/ Return
    BY <1>2, CycleDefs, TargetDefs, ReturnDefs DEF SameDeclaration
  <1>3. CASE ~RegisterAlias /\ ~ResolveCycle /\ ~ResolveTarget /\ ~Return
    BY <1>3, DefsStay
  <1> QED BY <1>1, <1>2, <1>3

LEMMA GroundedStays ==
    ASSUME IInv, Next, NEW G \in SUBSET Names, NEW j, Grounded(G, j)
    PROVE  Grounded(G, j)'
  <1>1. UNCHANGED items
    BY ErrorsStay
  <1>2. \A n \in G : defs[n] # Absent => defs'[n] # Absent /\ defs'[n].target = defs[n].target
    BY TargetsStay
  <1> QED BY <1>1, <1>2 DEF Grounded, Declares

(* What is known when an enum is put in the table comes before it.         *)
LEMMA KnownGrounded ==
    ASSUME IInv, Registry, TargetsKnown, EnumsListed, pass = "enum"
    PROVE  Known \in SUBSET Names /\ Grounded(Known, at)
  <1>1. Known \in SUBSET Names
    BY TableAssumption DEF IInv, TypeOK, Tables, Known, Finished
  <1>2. ASSUME NEW n \in DOMAIN enums
        PROVE  \E i \in DOMAIN items : i < at /\ items[i].kind = "enum" /\ items[i].name = n
    <2>1. PICK i \in DOMAIN items : Did(i, "enum") /\ items[i].name = n
      BY DEF EnumsListed
    <2> QED BY <2>1, Numbers DEF Did, Past, KindsOf
  <1>3. \A n \in Finished : defs[n] # Absent /\ defs[n].target.name \in Known
    BY DEF TargetsKnown, Finished, Absent
  <1>4. \A n \in DOMAIN structs : Declares(n, {"struct"})
    BY DEF Registry, Declared
  <1>5. \A n \in Known :
           n \in Builtins \/ n \in DOMAIN structs \/ n \in DOMAIN enums \/ n \in Finished
    BY DEF Known
  <1> QED BY <1>1, <1>2, <1>3, <1>4, <1>5 DEF Grounded

LEMMA EnumsGroundedInductive ==
    ASSUME IInv, Registry, TargetsKnown, RowKnown, EnumsListed, EnumsGrounded, Next, errors' = <<>>
    PROVE  EnumsGrounded'
  <1>1. UNCHANGED items
    BY ErrorsStay
  <1> SUFFICES ASSUME NEW j \in DOMAIN items, Did(j, "enum")'
               PROVE  \E G \in SUBSET Names :
                         /\ Grounded(G, j)
                         /\ \A k \in DOMAIN items[j].types : items[j].types[k].name \in G
    BY <1>1, GroundedStays DEF EnumsGrounded, EnumGrounded
  <1>2. CASE Did(j, "enum")
    BY <1>2 DEF EnumsGrounded, EnumGrounded
  <1>3. CASE ~Did(j, "enum")
    <2>1. /\ ItemStep /\ pass = "enum" /\ j = at /\ Item.kind \in KindsOf("enum")
          /\ at \in 1..Len(items) /\ items \in Modules
      BY <1>3, HandledNow DEF Passes
    <2>2. RegisterEnum
      <3>1. ~DuplicateEnum
        BY ReportAdds DEF DuplicateEnum, Duplicate, IInv
      <3> QED BY <2>1, <3>1 DEF ItemStep, Skip, RegisterAlias, RegisterStruct, DuplicateStruct,
                        ResolveFields, Forced, RegisterFunc, Duplicate, Visits
    <2>3. Item.types \in Seq(TypeExprs) /\ Len(row) = Len(Item.types)
      BY <2>1, <2>2, ItemTypes DEF RegisterEnum
    <2>4. \A k \in DOMAIN Item.types : Item.types[k].name \in Known
      BY <2>1, <2>3, ItemKnown
    <2>5. Known \in SUBSET Names /\ Grounded(Known, j)
      BY <2>1, KnownGrounded
    <2> QED BY <2>1, <2>4, <2>5 DEF Item
  <1> QED BY <1>2, <1>3

LEMMA KnownInductive == TInv /\ KnownInv /\ [Next]_vars => KnownInv'
  <1> SUFFICES ASSUME TInv, KnownInv, [Next]_vars, Plain' PROVE KnownInv'
    BY DEF KnownInv
  <1>1. CASE UNCHANGED vars
    <2>1. UNCHANGED <<items, pass, at, row, defs, structs, enums, answer>> /\ Wanted' = Wanted
          /\ Known' = Known /\ Item' = Item /\ Plain' = Plain /\ Finished' = Finished
      BY <1>1 DEF vars, tables, calls, Wanted, AskedBy, Asked, Item, Known, Finished, Plain, Distinct
    <2>2. \A i, p : Did(i, p)' <=> Did(i, p)
      BY <2>1, DidSame
    <2>3. AnswerKnown' /\ TargetsKnown' /\ RowKnown'
      BY <2>1 DEF KnownInv, AnswerKnown, TargetsKnown, RowKnown
    <2>4. TypesKnown' /\ EnumsListed'
      BY <2>1, <2>2 DEF KnownInv, TypesKnown, EnumsListed
    <2>5. \A G, j : Grounded(G, j)' <=> Grounded(G, j)
      BY <2>1 DEF Grounded, Declares
    <2>6. EnumsGrounded'
      BY <2>1, <2>2, <2>5 DEF KnownInv, EnumsGrounded, EnumGrounded
    <2> QED BY <2>3, <2>4, <2>6 DEF KnownInv
  <1>2. CASE Next
    <2> USE <1>2 DEF TInv
    <2>1. Plain /\ errors' = <<>>
      BY ErrorsStay DEF Plain
    <2>2. AnswerKnown' /\ TargetsKnown'
      BY <2>1, AnswerKnownInductive, TargetsKnownInductive DEF KnownInv
    <2>3. RowKnown' /\ TypesKnown'
      BY <2>1, RowKnownInductive, TypesKnownInductive DEF KnownInv
    <2>4. EnumsListed' /\ EnumsGrounded'
      BY <2>1, EnumsListedInductive, EnumsGroundedInductive DEF KnownInv
    <2> QED BY <2>2, <2>3, <2>4 DEF KnownInv
  <1> QED BY <1>1, <1>2

LEMMA FirstKnown == Init => KnownInv
  <1> SUFFICES ASSUME Init PROVE KnownInv
    OBVIOUS
  <1>1. items \in Seq(Items) /\ \A i \in DOMAIN items : i \in Nat /\ ~(i < 1)
    BY TableAssumption DEF Init
  <1>2. \A i \in DOMAIN items : \A p \in Passes : ~Did(i, p)
    BY <1>1 DEF Init, Did, Past, PassNo, Passes
  <1>3. TypesKnown /\ EnumsListed /\ EnumsGrounded
    BY <1>2 DEF Init, Empty, TypesKnown, EnumsListed, EnumsGrounded, Passes
  <1> QED BY <1>3 DEF Init, KnownInv, AnswerKnown, TargetsKnown, RowKnown, Finished, Absent

-----------------------------------------------------------------------------
(* A module the checker accepted: every definition is resolved, and what   *)
(* a name stands for is decided by the table it is in.                     *)
Accepted == TInv /\ CInv /\ KnownInv /\ pass = "done" /\ errors = <<>>

LEMMA AcceptedFacts ==
    ASSUME Accepted
    PROVE  /\ IInv /\ Registry /\ NamesApart /\ Plain /\ Distinct /\ items \in Modules
           /\ \A i \in DOMAIN items : \A p \in Passes \ {"done"} :
                  Did(i, p) <=> items[i].kind \in KindsOf(p)
  BY PassesDone DEF Accepted, TInv, CInv, ForceInv, Plain, IInv

LEMMA ByTable ==
    ASSUME Accepted, NEW n \in Names
    PROVE  /\ n \in DOMAIN structs <=> Declares(n, {"struct"})
           /\ n \in DOMAIN enums <=> Declares(n, {"enum"})
           /\ defs[n] # Absent <=> Declares(n, AliasKinds)
  <1>1. \A i \in DOMAIN items : /\ Did(i, "struct") => items[i].name \in DOMAIN structs
                                /\ Did(i, "enum") => items[i].name \in DOMAIN enums
    BY AcceptedFacts DEF Accepted, TInv, InTables, Stored
  <1>2. \A i \in DOMAIN items : /\ items[i].kind = "struct" => Did(i, "struct")
                                /\ items[i].kind = "enum" => Did(i, "enum")
                                /\ items[i].kind \in AliasKinds => Did(i, "alias")
    BY AcceptedFacts DEF KindsOf, Passes
  <1>3. Listed /\ Declared
    BY AcceptedFacts DEF Registry
  <1> QED BY <1>1, <1>2, <1>3 DEF Listed, Declared, Declares

LEMMA RegisteredMeans ==
    ASSUME Accepted, NEW n \in Names, Registered(n), NEW d \in 0..Depth
    PROVE  Denotes[d][n] = Type(KindOf(n), n) /\ defs[n] = Absent
  <1>1. Denotes[0][n] = Type(KindOf(n), n) /\ defs[n] = Absent
    BY AcceptedFacts, MeantKnown
  <1>2. Denotes[0][n].kind # "error" /\ 0 \in 0..Depth /\ 0 <= d
    BY <1>1, KnownKind, DepthType
  <1> QED BY <1>1, <1>2, AcceptedFacts, DenotesStable

LEMMA DefinitionFacts ==
    ASSUME Accepted, NEW n \in DOMAIN NextDef
    PROVE  /\ n \in Names /\ ~Registered(n) /\ defs[n] # Absent
           /\ defs[n].target \in TypeExprs /\ NextDef[n] = defs[n].target.name
           /\ NextDef[n] \in Names /\ NextDef[n] \in Known
           /\ defs[n].resolved = TypeMeant(defs[n].target)
           /\ defs[n].resolved \in ResolvedTypes
           /\ defs[n].newtype \in BOOLEAN
  <1>1. n \in Names /\ defs[n] # Absent /\ NextDef[n] = defs[n].target.name
    BY AcceptedFacts, NextDefFacts
  <1>2. defs[n] \in AliasDefs
    BY <1>1, AcceptedFacts DEF IInv, TypeOK
  <1>3. PICK i \in DOMAIN items : items[i].name = n /\ items[i].kind \in AliasKinds
    BY <1>1, ByTable DEF Declares
  <1>4. defs[n].target = Head(items[i].types)
    BY <1>3, AcceptedFacts DEF Registry, Targets, Plain, KindsOf, Passes
  <1>5. defs[n].state = "done" /\ defs[n].resolved = TypeMeant(Head(items[i].types))
    <2>1. TablesMeanDeclarations
      BY TablesMean DEF Accepted
    <2> QED BY <1>3, <2>1 DEF Accepted, TablesMeanDeclarations, AliasKinds
  <1>6. defs[n].target.name \in Known /\ defs[n].resolved \in ResolvedTypes
    BY <1>1, <1>5, AcceptedFacts DEF Accepted, KnownInv, TargetsKnown, Finished, IInv, DoneResolved
  <1>7. ~Registered(n)
    BY <1>1, AcceptedFacts DEF NamesApart
  <1> QED BY <1>1, <1>2, <1>4, <1>5, <1>6, <1>7 DEF AliasDefs, TypeExprs

LEMMA NewtypeMeans ==
    ASSUME Accepted, NEW n \in DOMAIN NextDef, defs[n].newtype, NEW d \in 0..Depth
    PROVE  Denotes[d][n] = Type("newtype", n)
  <1>1. n \in Names /\ defs[n] # Absent
    BY DefinitionFacts
  <1>2. PICK i \in DOMAIN items : items[i].name = n /\ items[i].kind \in AliasKinds
    BY <1>1, ByTable DEF Declares
  <1>3. items[i].kind = "newtype"
    BY <1>2, AcceptedFacts DEF Registry, Targets, Plain, KindsOf, Passes
  <1> QED BY <1>1, <1>2, <1>3, AcceptedFacts, DenotesMeans, NewtypeStands

LEMMA AliasMeans ==
    ASSUME Accepted, NEW n \in DOMAIN NextDef, ~defs[n].newtype, NEW d \in 1..Depth
    PROVE  Denotes[d][n] = Under(defs[n].target.form, Denotes[d - 1][NextDef[n]])
  <1>1. n \in Names /\ defs[n] # Absent /\ NextDef[n] = defs[n].target.name /\ d \in 0..Depth /\ d > 0
    BY DefinitionFacts, DepthType
  <1>2. PICK i \in DOMAIN items : items[i].name = n /\ items[i].kind \in AliasKinds
    BY <1>1, ByTable DEF Declares
  <1>3. items[i].kind # "newtype" /\ defs[n].target = Head(items[i].types)
    BY <1>2, AcceptedFacts DEF Registry, Targets, Plain, KindsOf, Passes
  <1>4. items[i].kind = "alias"
    BY <1>2, <1>3 DEF AliasKinds
  <1>5. Denotes[d][n] = StandsFor(n, d, Denotes[d - 1])
    BY <1>1, DenotesMeans
  <1> QED BY <1>1, <1>2, <1>3, <1>4, <1>5, AcceptedFacts, AliasStands

LEMMA UnknownMeans ==
    ASSUME Accepted, NEW n \in Names, ~Registered(n), n \notin DOMAIN NextDef, NEW d \in 0..Depth
    PROVE  Denotes[d][n] = Error
  <1>1. n \notin Builtins /\ ~Declares(n, {"struct"}) /\ ~Declares(n, {"enum"})
        /\ ~Declares(n, AliasKinds)
    BY AcceptedFacts, NextDefFacts, ByTable DEF Registered
  <1>2. ~Declares(n, {"newtype"}) /\ ~Declares(n, {"alias"})
    BY <1>1 DEF Declares, AliasKinds
  <1>3. StandsFor(n, d, Denotes[d - 1]) = Error
    BY <1>1, <1>2 DEF StandsFor
  <1> QED BY <1>3, DenotesMeans

-----------------------------------------------------------------------------
(* Without cycles, a target leads to fewer definitions than what has it.   *)
Height(n) == IF n \in DOMAIN NextDef THEN Cardinality(Orbit(n) \cup {n}) ELSE 0

LEMMA NoCycles == ASSUME Accepted PROVE Cyclic = {}
  <1>1. CyclesReportedOnce
    BY CyclesOnce DEF Accepted
  <1> SUFFICES ASSUME NEW n \in Cyclic PROVE FALSE
    OBVIOUS
  <1>2. CycleReports(Orbit(n)) = {}
    BY DEF Accepted, CycleReports
  <1> QED BY <1>1, <1>2 DEF CyclesReportedOnce, Accepted

LEMMA HeightType ==
    ASSUME Accepted, NEW n \in Names
    PROVE  /\ Height(n) \in 0..Depth
           /\ n \in DOMAIN NextDef => /\ Orbit(n) \in SUBSET Names /\ n \notin Orbit(n)
                                      /\ Height(n) = Cardinality(Orbit(n)) + 1
  <1>1. CASE n \in DOMAIN NextDef
    <2>1. Orbit(n) \in SUBSET Names /\ n \notin Orbit(n)
      BY <1>1, NoCycles, AcceptedFacts, NextDefFacts DEF Orbit, LedTo, Cyclic
    <2>2. Orbit(n) \cup {n} \in SUBSET Names /\ n \in Names \ Orbit(n)
      BY <2>1
    <2> QED BY <1>1, <2>1, <2>2, PartOfNames DEF Height
  <1>2. CASE n \notin DOMAIN NextDef
    BY <1>2, DepthType DEF Height
  <1> QED BY <1>1, <1>2

LEMMA TargetLower ==
    ASSUME Accepted, NEW n \in DOMAIN NextDef
    PROVE  /\ n \in Names /\ NextDef[n] \in Names
           /\ Height(NextDef[n]) \in Nat /\ Height(n) \in 1..Depth
           /\ Height(NextDef[n]) <= Height(n) - 1
  <1> DEFINE t == NextDef[n]
  <1>1. n \in Names /\ t \in Names
    BY DefinitionFacts
  <1>2. Orbit(n) \in SUBSET Names /\ Height(n) = Cardinality(Orbit(n)) + 1 /\ Height(n) \in 0..Depth
    BY <1>1, HeightType
  <1>3. Cardinality(Orbit(n)) \in 0..Depth /\ IsFiniteSet(Orbit(n)) /\ Depth \in Nat
    BY <1>2, PartOfNames, DepthType
  <1>4. CASE t \in DOMAIN NextDef
    <2>1. t \in Orbit(n)
      BY <1>4, LedToTargets DEF Orbit
    <2>2. Orbit(t) \subseteq Orbit(n)
      <3>1. \A x \in Orbit(n) \cup {t} : NextDef[x] \in DOMAIN NextDef => NextDef[x] \in Orbit(n)
        BY <2>1, LedToTargets DEF Orbit
      <3>2. Orbit(n) \in SUBSET DOMAIN NextDef
        BY DEF Orbit, LedTo
      <3> DEFINE S == Orbit(n)
                 next == NextDef
      <3>3. S \in SUBSET DOMAIN next /\ \A x \in S \cup {t} : next[x] \in DOMAIN next => next[x] \in S
        BY <3>1, <3>2
      <3> HIDE DEF S, next, t
      <3>4. LedTo(next, t) \subseteq S
        BY <3>3, LedToLeast
      <3> QED BY <3>4 DEF S, next, Orbit
    <2>3. Orbit(t) \cup {t} \subseteq Orbit(n)
      BY <2>1, <2>2
    <2>4. Cardinality(Orbit(t) \cup {t}) <= Cardinality(Orbit(n))
      BY <1>3, <2>3, FS_Subset
    <2>5. Height(t) = Cardinality(Orbit(t) \cup {t}) /\ Height(t) \in 0..Depth
      BY <1>1, <1>4, HeightType DEF Height
    <2> QED BY <1>1, <1>2, <1>3, <2>4, <2>5
  <1>5. CASE t \notin DOMAIN NextDef
    <2>1. Height(t) = 0
      BY <1>5 DEF Height
    <2> QED BY <1>1, <1>2, <1>3, <2>1
  <1> QED BY <1>4, <1>5

(* What holds of a name whenever it holds of its target holds of all.      *)
LEMMA AlongTargets ==
    ASSUME Accepted, NEW S \in SUBSET Names,
           \A n \in Names \ DOMAIN NextDef : n \in S,
           \A n \in DOMAIN NextDef : NextDef[n] \in S => n \in S
    PROVE  \A n \in Names : n \in S
  <1> DEFINE H == {Height(n) : n \in Names \ S}
  <1> SUFFICES ASSUME H # {} PROVE FALSE
    OBVIOUS
  <1>1. H \in SUBSET Nat
    BY HeightType
  <1>2. PICK h \in H : \A m \in H : h <= m
    BY <1>1, Least
  <1>3. PICK n \in Names \ S : Height(n) = h
    BY <1>2
  <1>4. n \in DOMAIN NextDef /\ NextDef[n] \notin S
    BY <1>3
  <1>5. Height(NextDef[n]) \in H /\ Height(NextDef[n]) \in Nat /\ Height(NextDef[n]) <= h - 1
        /\ h \in Nat
    BY <1>1, <1>3, <1>4, TargetLower
  <1> QED BY <1>2, <1>5

-----------------------------------------------------------------------------
(* The two recursions of the representations are defined at every depth.   *)
Mappings(A, X, R, f, k) ==
    f = [d \in 0..k |-> [n \in Names |-> MapName(A, X, R, n, d, f[d - 1])]]

LEMMA MappingsMean ==
    ASSUME NEW A, NEW X, NEW R, NEW f, NEW k \in Nat,
           Mappings(A, X, R, f, k), NEW d \in 0..k
    PROVE  f[d] = [n \in Names |-> MapName(A, X, R, n, d, f[d - 1])]
  BY Zenon DEF Mappings

LEMMA MapNothing ==
    ASSUME NEW A, NEW X, NEW R, NEW n, NEW b, NEW c
    PROVE  MapName(A, X, R, n, 0, b) = MapName(A, X, R, n, 0, c)
  BY DEF MapName

LEMMA MappingsExist ==
    ASSUME NEW A, NEW X, NEW R, NEW k \in Nat PROVE \E f : Mappings(A, X, R, f, k)
  <1> DEFINE S == {m \in Nat : ~\E f : Mappings(A, X, R, f, m)}
  <1>1. SUFFICES ASSUME S # {} PROVE FALSE
    OBVIOUS
  <1>2. PICK m \in S : \A i \in S : m <= i
    BY <1>1, Least
  <1>3. CASE m = 0
    <2> DEFINE f == [d \in 0..0 |-> [n \in Names |-> MapName(A, X, R, n, 0, <<>>)]]
    <2>1. f = [d \in 0..0 |-> [n \in Names |-> MapName(A, X, R, n, d, f[d - 1])]]
      <3>1. \A d \in 0..0 : d = 0
        OBVIOUS
      <3>2. ASSUME NEW d \in 0..0
            PROVE  [n \in Names |-> MapName(A, X, R, n, 0, <<>>)]
                     = [n \in Names |-> MapName(A, X, R, n, d, f[d - 1])]
        <4>1. \A n, b, c : MapName(A, X, R, n, 0, b) = MapName(A, X, R, n, 0, c)
          BY MapNothing
        <4>2. d = 0
          BY <3>1
        <4> HIDE DEF f
        <4> QED BY <4>1, <4>2, Zenon
      <3> QED BY <3>1, <3>2, Zenon
    <2> HIDE DEF f
    <2>2. Mappings(A, X, R, f, 0)
      BY <2>1 DEF Mappings
    <2> QED BY <1>3, <2>2
  <1>4. CASE m # 0
    <2>1. m - 1 \in Nat /\ m - 1 \notin S
      BY <1>2, <1>4
    <2>2. PICK f : Mappings(A, X, R, f, m - 1)
      BY <2>1
    <2> DEFINE top == [n \in Names |-> MapName(A, X, R, n, m, f[m - 1])]
               g == [d \in 0..m |-> IF d = m THEN top ELSE f[d]]
    <2>3. ASSUME NEW d \in 0..m
          PROVE  g[d] = [n \in Names |-> MapName(A, X, R, n, d, g[d - 1])]
      <3>1. CASE d = m
        <4>1. g[m - 1] = f[m - 1] /\ g[m] = top
          BY <2>1
        <4> QED BY <3>1, <4>1
      <3>2. CASE d # m
        <4>1. d \in 0..(m - 1) /\ g[d] = f[d]
          BY <3>2, <2>1
        <4>2. f[d] = [n \in Names |-> MapName(A, X, R, n, d, f[d - 1])]
          BY <2>1, <2>2, <4>1, MappingsMean
        <4>3. CASE d = 0
          <5> HIDE DEF g
          <5>1. \A n : MapName(A, X, R, n, 0, f[d - 1]) = MapName(A, X, R, n, 0, g[d - 1])
            BY MapNothing
          <5>2. \A n : MapName(A, X, R, n, d, f[d - 1]) = MapName(A, X, R, n, d, g[d - 1])
            BY <4>3, <5>1
          <5> QED BY <4>1, <4>2, <5>2, Zenon
        <4>4. CASE d # 0
          <5>1. d - 1 \in 0..m /\ d - 1 # m
            BY <4>1, <4>4, <2>1
          <5>2. g[d - 1] = f[d - 1]
            BY <5>1
          <5> QED BY <4>1, <4>2, <5>2
        <4> QED BY <4>3, <4>4
      <3> QED BY <3>1, <3>2
    <2>4. g = [d \in 0..m |-> g[d]]
      OBVIOUS
    <2> HIDE DEF g
    <2>5. Mappings(A, X, R, g, m)
      BY <2>3, <2>4, Zenon DEF Mappings
    <2> QED BY <2>5
  <1> QED BY <1>3, <1>4

LEMMA NamesMapped ==
    ASSUME NEW A, NEW X, NEW R, NEW d \in 0..Depth, NEW n \in Names
    PROVE  MapNames(A, X, R)[d][n]
             = MapName(A, X, R, n, d, MapNames(A, X, R)[d - 1])
  <1> DEFINE f == MapNames(A, X, R)
  <1>1. \E g : Mappings(A, X, R, g, Depth)
    BY DepthType, MappingsExist
  <1>2. Mappings(A, X, R, f, Depth)
    BY <1>1, Zenon DEF MapNames, Mappings, Depth
  <1> HIDE DEF f
  <1>3. f[d] = [m \in Names |-> MapName(A, X, R, m, d, f[d - 1])]
    BY <1>2, DepthType, MappingsMean
  <1>4. f[d][n] = MapName(A, X, R, n, d, f[d - 1])
    BY <1>3, Zenon
  <1> QED BY <1>4 DEF f

Readings(f, k) == f = [d \in 0..k |-> [t \in ResolvedTypes |-> ReprIn(t, d, f[d - 1])]]

LEMMA ReadingsMean ==
    ASSUME NEW f, NEW k \in Nat, Readings(f, k), NEW d \in 0..k
    PROVE  f[d] = [t \in ResolvedTypes |-> ReprIn(t, d, f[d - 1])]
  BY Zenon DEF Readings

LEMMA ReadNothing ==
    ASSUME NEW t, NEW b, NEW c PROVE ReprIn(t, 0, b) = ReprIn(t, 0, c)
  BY DEF ReprIn, BaseRepr

LEMMA ReadingsExist ==
    ASSUME NEW k \in Nat PROVE \E f : Readings(f, k)
  <1> DEFINE S == {m \in Nat : ~\E f : Readings(f, m)}
  <1>1. SUFFICES ASSUME S # {} PROVE FALSE
    OBVIOUS
  <1>2. PICK m \in S : \A i \in S : m <= i
    BY <1>1, Least
  <1>3. CASE m = 0
    <2> DEFINE f == [d \in 0..0 |-> [t \in ResolvedTypes |-> ReprIn(t, 0, <<>>)]]
    <2>1. f = [d \in 0..0 |-> [t \in ResolvedTypes |-> ReprIn(t, d, f[d - 1])]]
      <3>1. \A d \in 0..0 : d = 0
        OBVIOUS
      <3>2. ASSUME NEW d \in 0..0
            PROVE  [t \in ResolvedTypes |-> ReprIn(t, 0, <<>>)]
                     = [t \in ResolvedTypes |-> ReprIn(t, d, f[d - 1])]
        BY <3>1, ReadNothing, Zenon
      <3> QED BY <3>1, <3>2, Zenon
    <2> HIDE DEF f
    <2>2. Readings(f, 0)
      BY <2>1 DEF Readings
    <2> QED BY <1>3, <2>2
  <1>4. CASE m # 0
    <2>1. m - 1 \in Nat /\ m - 1 \notin S
      BY <1>2, <1>4
    <2>2. PICK f : Readings(f, m - 1)
      BY <2>1
    <2> DEFINE top == [t \in ResolvedTypes |-> ReprIn(t, m, f[m - 1])]
               g == [d \in 0..m |-> IF d = m THEN top ELSE f[d]]
    <2>3. ASSUME NEW d \in 0..m
          PROVE  g[d] = [t \in ResolvedTypes |-> ReprIn(t, d, g[d - 1])]
      <3>1. CASE d = m
        <4>1. g[m - 1] = f[m - 1] /\ g[m] = top
          BY <2>1
        <4> QED BY <3>1, <4>1
      <3>2. CASE d # m
        <4>1. d \in 0..(m - 1) /\ g[d] = f[d]
          BY <3>2, <2>1
        <4>2. f[d] = [t \in ResolvedTypes |-> ReprIn(t, d, f[d - 1])]
          BY <2>1, <2>2, <4>1, ReadingsMean
        <4>3. CASE d = 0
          <5> HIDE DEF g
          <5>1. \A t : ReprIn(t, 0, f[d - 1]) = ReprIn(t, 0, g[d - 1])
            BY ReadNothing
          <5>2. \A t : ReprIn(t, d, f[d - 1]) = ReprIn(t, d, g[d - 1])
            BY <4>3, <5>1
          <5> QED BY <4>1, <4>2, <5>2, Zenon
        <4>4. CASE d # 0
          <5>1. d - 1 \in 0..m /\ d - 1 # m
            BY <4>1, <4>4, <2>1
          <5>2. g[d - 1] = f[d - 1]
            BY <5>1
          <5> QED BY <4>1, <4>2, <5>2
        <4> QED BY <4>3, <4>4
      <3> QED BY <3>1, <3>2
    <2>4. g = [d \in 0..m |-> g[d]]
      OBVIOUS
    <2> HIDE DEF g
    <2>5. Readings(g, m)
      BY <2>3, <2>4, Zenon DEF Readings
    <2> QED BY <2>5
  <1> QED BY <1>3, <1>4

LEMMA TypesRead ==
    ASSUME NEW d \in 0..Depth, NEW t \in ResolvedTypes
    PROVE  ReprOf[d][t] = ReprIn(t, d, ReprOf[d - 1])
  <1>1. \E f : Readings(f, Depth)
    BY DepthType, ReadingsExist
  <1>2. Readings(ReprOf, Depth)
    BY <1>1, Zenon DEF ReprOf, Readings, Depth
  <1>3. ReprOf[d] = [u \in ResolvedTypes |-> ReprIn(u, d, ReprOf[d - 1])]
    BY <1>2, DepthType, ReadingsMean
  <1> QED BY <1>3, Zenon

-----------------------------------------------------------------------------
(* A type of the lowerer, and what a layer around it makes of it.          *)
IsMType(m) ==
    m.bad \in BOOLEAN /\ m = [kind |-> m.kind, index |-> m.index, name |-> m.name, bad |-> m.bad]

LEMMA MTypeFacts ==
    /\ \A k, i : /\ IsMType(MType(k, i)) /\ ~MType(k, i).bad
                 /\ MType(k, i).kind = k /\ MType(k, i).index = i
    /\ \A n : IsMType(Builtin(n)) /\ ~Builtin(n).bad /\ Builtin(n).kind = "builtin"
    /\ IsMType(Unknown) /\ Unknown.bad
  <1>1. \A k, i : /\ IsMType(MType(k, i)) /\ ~MType(k, i).bad
                  /\ MType(k, i).kind = k /\ MType(k, i).index = i
    BY DEF IsMType, MType
  <1>2. \A n : IsMType(Builtin(n)) /\ ~Builtin(n).bad /\ Builtin(n).kind = "builtin"
    <2> TAKE n
    <2> DEFINE m == MType("builtin", 0)
    <2>1. Builtin(n) = [m EXCEPT !.name = n] /\ IsMType(m) /\ ~m.bad /\ m.kind = "builtin"
      BY <1>1 DEF Builtin
    <2> HIDE DEF m
    <2> QED BY <2>1 DEF IsMType
  <1>3. IsMType(Unknown) /\ Unknown.bad
    <2> DEFINE m == MType("int", 0)
    <2>1. Unknown = [m EXCEPT !.bad = TRUE] /\ IsMType(m)
      BY <1>1 DEF Unknown
    <2> HIDE DEF m
    <2> QED BY <2>1 DEF IsMType
  <1> QED BY <1>1, <1>2, <1>3

LEMMA MapFormFacts ==
    ASSUME NEW form \in Forms, NEW m, IsMType(m)
    PROVE  /\ IsMType(MapForm(form, m))
           /\ MapForm(form, m).bad <=> form # "ptr" /\ m.bad
           /\ form = "ptr" => MapForm(form, m) = MType("ptr", 0)
  <1>1. CASE form = "plain"
    BY <1>1 DEF MapForm
  <1>2. CASE form = "ptr"
    BY <1>2, MTypeFacts DEF MapForm
  <1>3. CASE form = "ref" /\ m.kind = "struct"
    <2>1. MapForm(form, m) = [m EXCEPT !.kind = "ref"]
      BY <1>3 DEF MapForm
    <2> QED BY <1>3, <2>1 DEF IsMType
  <1>4. CASE form = "ref" /\ m.kind # "struct"
    <2>1. MapForm(form, m) = [MType("ptr", 0) EXCEPT !.bad = m.bad]
      BY <1>4 DEF MapForm
    <2> QED BY <1>4, <2>1 DEF IsMType, MType
  <1> QED BY <1>1, <1>2, <1>3, <1>4 DEF Forms

LEMMA UnderLayers ==
    ASSUME NEW form \in Forms, NEW t \in ResolvedTypes, form # "plain"
    PROVE  LET u == Under(form, t) IN
           /\ u.layers = <<form>> \o t.layers /\ Len(u.layers) = Len(t.layers) + 1
           /\ u.layers[1] = form /\ \A k \in 1..Len(t.layers) : u.layers[k + 1] = t.layers[k]
           /\ DOMAIN u.layers = 1..(Len(t.layers) + 1) /\ DOMAIN t.layers = 1..Len(t.layers)
  <1> DEFINE u == Under(form, t)
  <1>1. t.layers \in Seq({"ptr", "ref"}) /\ u.layers = <<form>> \o t.layers
    BY DEF Under, ResolvedTypes
  <1>2. <<form>> \in Seq(Forms) /\ Len(<<form>>) = 1
    OBVIOUS
  <1> QED BY <1>1, <1>2

LEMMA UnderRefs ==
    ASSUME NEW form \in Forms, NEW t \in ResolvedTypes, form # "plain"
    PROVE  OnlyRefs(Under(form, t)) <=> form = "ref" /\ OnlyRefs(t)
  <1> DEFINE u == Under(form, t)
  <1>1. t.layers \in Seq({"ptr", "ref"})
    BY DEF ResolvedTypes
  <1>2. /\ u.layers[1] = form /\ \A k \in 1..Len(t.layers) : u.layers[k + 1] = t.layers[k]
        /\ DOMAIN u.layers = 1..(Len(t.layers) + 1) /\ DOMAIN t.layers = 1..Len(t.layers)
    BY UnderLayers
  <1>3. OnlyRefs(u) => form = "ref" /\ OnlyRefs(t)
    <2> SUFFICES ASSUME OnlyRefs(u) PROVE form = "ref" /\ OnlyRefs(t)
      OBVIOUS
    <2>1. u.layers[1] = "ref" /\ \A k \in 1..Len(t.layers) : u.layers[k + 1] = "ref"
      BY <1>1, <1>2 DEF OnlyRefs
    <2> QED BY <1>2, <2>1 DEF OnlyRefs
  <1>4. ASSUME form = "ref", OnlyRefs(t), NEW k \in DOMAIN u.layers PROVE u.layers[k] = "ref"
    <2>1. k = 1 \/ (k - 1 \in 1..Len(t.layers) /\ (k - 1) + 1 = k)
      BY <1>1, <1>2
    <2> QED BY <1>2, <1>4, <2>1 DEF OnlyRefs
  <1> QED BY <1>3, <1>4 DEF OnlyRefs

(* Layers as the checker collects them and as the lowerer erases them.     *)
LEMMA LayersErased ==
    ASSUME NEW form \in Forms, NEW t \in ResolvedTypes, NEW b, IsMType(b)
    PROVE  /\ IsMType(Layered(t, b))
           /\ Layered(Under(form, t), b) = MapForm(form, Layered(t, b))
  <1>1. t.layers \in Seq({"ptr", "ref"})
    BY DEF ResolvedTypes
  <1>2. IsMType(Layered(t, b))
    <2>1. CASE t.layers = <<>>
      BY <2>1 DEF Layered
    <2>2. CASE t.layers = <<"ref">> /\ b.kind = "struct"
      <3>1. Layered(t, b) = [b EXCEPT !.kind = "ref"]
        BY <2>2 DEF Layered
      <3> QED BY <3>1 DEF IsMType
    <2>3. CASE t.layers # <<>> /\ ~(t.layers = <<"ref">> /\ b.kind = "struct")
      <3>1. Layered(t, b) = [MType("ptr", 0) EXCEPT !.bad = OnlyRefs(t) /\ b.bad]
        BY <2>3 DEF Layered
      <3>2. (OnlyRefs(t) /\ b.bad) \in BOOLEAN
        OBVIOUS
      <3> DEFINE c == OnlyRefs(t) /\ b.bad
      <3> HIDE DEF c
      <3> QED BY <3>1, <3>2 DEF IsMType, MType, c
    <2> QED BY <2>1, <2>2, <2>3
  <1>3. CASE form = "plain"
    BY <1>2, <1>3 DEF Under, MapForm
  <1> DEFINE u == Under(form, t)
  <1>4. ASSUME form # "plain"
        PROVE  u.layers = <<form>> \o t.layers /\ Len(u.layers) = Len(t.layers) + 1
    BY <1>4, UnderLayers
  <1>5. ASSUME form # "plain" PROVE OnlyRefs(u) <=> form = "ref" /\ OnlyRefs(t)
    BY <1>5, UnderRefs
  <1>6. CASE form = "ptr"
    <2>1. u.layers # <<>> /\ u.layers # <<"ref">>
      BY <1>1, <1>4, <1>6
    <2>2. Layered(u, b) = [MType("ptr", 0) EXCEPT !.bad = FALSE]
      BY <1>5, <1>6, <2>1 DEF Layered
    <2>3. Layered(u, b) = MType("ptr", 0)
      BY <2>2 DEF MType
    <2> QED BY <1>2, <1>6, <2>3 DEF MapForm
  <1>7. CASE form = "ref" /\ t.layers = <<>>
    <2>1. Layered(t, b) = b /\ u.layers = <<"ref">>
      BY <1>4, <1>7 DEF Layered
    <2>2. OnlyRefs(u) /\ u.layers # <<>>
      BY <1>5, <1>7, <2>1 DEF OnlyRefs
    <2>3. CASE b.kind = "struct"
      BY <1>7, <2>1, <2>2, <2>3 DEF Layered, MapForm
    <2>4. CASE b.kind # "struct"
      <3>1. (OnlyRefs(u) /\ b.bad) = b.bad
        BY <2>2 DEF IsMType
      <3>2. Layered(u, b) = [MType("ptr", 0) EXCEPT !.bad = OnlyRefs(u) /\ b.bad]
        BY <2>1, <2>2, <2>4 DEF Layered
      <3> QED BY <1>7, <2>1, <2>4, <3>1, <3>2 DEF MapForm
    <2> QED BY <2>3, <2>4
  <1>8. CASE form = "ref" /\ t.layers # <<>>
    <2>1. u.layers # <<>> /\ u.layers # <<"ref">>
      <3>1. Len(u.layers) # 0 /\ Len(u.layers) # 1
        BY <1>1, <1>4, <1>8
      <3> HIDE DEF u
      <3>2. u.layers = <<>> => Len(u.layers) = 0
        OBVIOUS
      <3>3. u.layers = <<"ref">> => Len(u.layers) = 1
        OBVIOUS
      <3> QED BY <3>1, <3>2, <3>3, Zenon
    <2>2. Layered(u, b) = [MType("ptr", 0) EXCEPT !.bad = OnlyRefs(t) /\ b.bad]
      <3>1. (OnlyRefs(u) /\ b.bad) = (OnlyRefs(t) /\ b.bad)
        BY <1>5, <1>8
      <3>2. Layered(u, b) = [MType("ptr", 0) EXCEPT !.bad = OnlyRefs(u) /\ b.bad]
        BY <2>1 DEF Layered
      <3> QED BY <3>1, <3>2
    <2>3. Layered(t, b).kind # "struct" /\ Layered(t, b).bad = (OnlyRefs(t) /\ b.bad)
      <3>1. CASE t.layers = <<"ref">> /\ b.kind = "struct"
        <4>1. Layered(t, b) = [b EXCEPT !.kind = "ref"]
          BY <3>1, <1>8 DEF Layered
        <4>2. Layered(t, b).kind = "ref" /\ Layered(t, b).bad = b.bad
          BY <4>1 DEF IsMType
        <4>3. (OnlyRefs(t) /\ b.bad) = b.bad
          BY <3>1 DEF OnlyRefs, IsMType
        <4> QED BY <4>2, <4>3
      <3>2. CASE ~(t.layers = <<"ref">> /\ b.kind = "struct")
        <4> DEFINE c == OnlyRefs(t) /\ b.bad
        <4>1. Layered(t, b) = [MType("ptr", 0) EXCEPT !.bad = c]
          BY <3>2, <1>8 DEF Layered
        <4> HIDE DEF c
        <4>2. Layered(t, b).kind = "ptr" /\ Layered(t, b).bad = c
          BY <4>1 DEF MType
        <4> QED BY <4>2 DEF c
      <3> QED BY <3>1, <3>2
    <2> QED BY <1>2, <1>8, <2>2, <2>3 DEF MapForm
  <1> QED BY <1>2, <1>3, <1>6, <1>7, <1>8 DEF Forms

-----------------------------------------------------------------------------
(* The tables of names that the lowerer builds first, and what it makes of *)
(* a name with a table R of the enums it knows.                            *)
AliasTable  == typeAlias = [n \in DOMAIN NextDef |-> defs[n].target]
StructTable ==
    /\ DOMAIN structIndex = DOMAIN structs
    /\ \A n \in DOMAIN structs : structIndex[n] \in DOMAIN sdefs /\ sdefs[structIndex[n]].name = n
    /\ \A i \in DOMAIN sdefs : sdefs[i].name \in DOMAIN structs /\ structIndex[sdefs[i].name] = i
Tabled      == Accepted /\ AliasTable /\ StructTable
Numbered(R) == \A n \in DOMAIN R : n \in DOMAIN enums /\ IsMType(R[n].repr) /\ ~R[n].repr.bad
Shape(R, n) == MapNames(typeAlias, structIndex, R)[Depth][n]

LEMMA NamesDisjoint ==
    ASSUME Accepted, NEW n \in Names
    PROVE  /\ n \in Builtins => n \notin DOMAIN structs /\ n \notin DOMAIN enums
           /\ n \in DOMAIN structs => n \notin DOMAIN enums
           /\ n \in DOMAIN NextDef =>
                n \notin Builtins /\ n \notin DOMAIN structs /\ n \notin DOMAIN enums
  <1>1. n \in DOMAIN NextDef => n \notin Builtins /\ n \notin DOMAIN structs /\ n \notin DOMAIN enums
    BY DefinitionFacts DEF Registered
  <1>2. n \in DOMAIN structs => Declares(n, {"struct"})
    BY ByTable
  <1>3. n \in DOMAIN enums => Declares(n, {"enum"})
    BY ByTable
  <1>4. items \in Modules /\ Distinct
    BY AcceptedFacts
  <1>5. Declares(n, {"struct"}) => n \notin Builtins /\ ~Declares(n, {"enum"})
    BY <1>4, ItemAt DEF Declares, Distinct
  <1>6. Declares(n, {"enum"}) => n \notin Builtins
    BY <1>4, ItemAt DEF Declares
  <1> QED BY <1>1, <1>2, <1>3, <1>5, <1>6

LEMMA NameCases ==
    ASSUME Tabled, NEW R, Numbered(R), NEW n \in Names, NEW d, NEW b
    PROVE  LET m == MapName(typeAlias, structIndex, R, n, d, b) IN
           /\ n \in Builtins => m = Builtin(n)
           /\ n \in DOMAIN structs => m = MType("struct", structIndex[n])
           /\ n \in DOMAIN R => m = R[n].repr
           /\ n \in DOMAIN NextDef =>
                m = IF d = 0 THEN MType("loop", 0) ELSE MapForm(defs[n].target.form, b[NextDef[n]])
           /\ n \notin Builtins /\ n \notin DOMAIN structs /\ n \notin DOMAIN R
              /\ n \notin DOMAIN NextDef => m = Unknown
  <1>1. /\ DOMAIN typeAlias = DOMAIN NextDef /\ DOMAIN structIndex = DOMAIN structs
        /\ \A x \in DOMAIN NextDef : typeAlias[x] = defs[x].target /\ NextDef[x] = defs[x].target.name
    BY DefinitionFacts DEF Tabled, AliasTable, StructTable
  <1>2. n \in DOMAIN R => n \in DOMAIN enums
    BY DEF Numbered
  <1>3. /\ n \in Builtins => n \notin DOMAIN structs /\ n \notin DOMAIN enums
        /\ n \in DOMAIN structs => n \notin DOMAIN enums
        /\ n \in DOMAIN NextDef =>
             n \notin Builtins /\ n \notin DOMAIN structs /\ n \notin DOMAIN enums
    BY NamesDisjoint DEF Tabled
  <1> QED BY <1>1, <1>2, <1>3 DEF MapName

(* At a depth of its height a name is mapped as at every greater depth.    *)
LEMMA ShapeStable ==
    ASSUME Tabled, NEW R, Numbered(R), NEW n \in Names, NEW d \in Height(n)..Depth
    PROVE  MapNames(typeAlias, structIndex, R)[d][n] = Shape(R, n)
  <1> DEFINE M == MapNames(typeAlias, structIndex, R)
             S == {x \in Names : \A e \in Height(x)..Depth : M[e][x] = M[Depth][x]}
  <1>1. Accepted /\ Depth \in Nat /\ Depth \in 0..Depth
    BY DepthType DEF Tabled
  <1>2. \A e \in 0..Depth : \A x \in Names :
           M[e][x] = MapName(typeAlias, structIndex, R, x, e, M[e - 1])
    BY NamesMapped
  <1> HIDE DEF M
  <1>3. ASSUME NEW x \in Names \ DOMAIN NextDef PROVE x \in S
    <2> SUFFICES ASSUME NEW e \in Height(x)..Depth PROVE M[e][x] = M[Depth][x]
      OBVIOUS
    <2>1. e \in 0..Depth
      BY <1>1, HeightType
    <2>2. \A b, c : MapName(typeAlias, structIndex, R, x, e, b)
                      = MapName(typeAlias, structIndex, R, x, Depth, c)
      BY NameCases
    <2> QED BY <1>1, <1>2, <2>1, <2>2
  <1>4. ASSUME NEW x \in DOMAIN NextDef, NextDef[x] \in S PROVE x \in S
    <2> DEFINE t == NextDef[x]
    <2>1. x \in Names /\ t \in Names /\ Height(t) \in Nat /\ Height(x) \in 1..Depth
          /\ Height(t) <= Height(x) - 1
      BY <1>1, TargetLower
    <2> SUFFICES ASSUME NEW e \in Height(x)..Depth PROVE M[e][x] = M[Depth][x]
      BY <2>1
    <2>2. e \in 0..Depth /\ e # 0 /\ Depth # 0 /\ e - 1 \in Height(t)..Depth
          /\ Depth - 1 \in Height(t)..Depth
      BY <1>1, <2>1
    <2>3. /\ M[e][x] = MapForm(defs[x].target.form, M[e - 1][t])
          /\ M[Depth][x] = MapForm(defs[x].target.form, M[Depth - 1][t])
      BY <1>1, <1>2, <2>1, <2>2, NameCases
    <2>4. M[e - 1][t] = M[Depth][t] /\ M[Depth - 1][t] = M[Depth][t]
      BY <1>4, <2>2
    <2> QED BY <2>3, <2>4
  <1>5. n \in S
    <2> HIDE DEF S
    <2>1. S \in SUBSET Names
      BY DEF S
    <2> QED BY <1>1, <1>3, <1>4, <2>1, AlongTargets
  <1> QED BY <1>5 DEF Shape, M

LEMMA ShapeCases ==
    ASSUME Tabled, NEW R, Numbered(R), NEW n \in Names
    PROVE  /\ n \in Builtins => Shape(R, n) = Builtin(n)
           /\ n \in DOMAIN structs => Shape(R, n) = MType("struct", structIndex[n])
           /\ n \in DOMAIN R => Shape(R, n) = R[n].repr
           /\ n \in DOMAIN NextDef => Shape(R, n) = MapForm(defs[n].target.form, Shape(R, NextDef[n]))
           /\ n \notin Builtins /\ n \notin DOMAIN structs /\ n \notin DOMAIN R
              /\ n \notin DOMAIN NextDef => Shape(R, n) = Unknown
  <1> DEFINE M == MapNames(typeAlias, structIndex, R)
  <1>1. Accepted /\ Depth \in Nat /\ Depth \in 0..Depth
    BY DepthType DEF Tabled
  <1>2. Shape(R, n) = MapName(typeAlias, structIndex, R, n, Depth, M[Depth - 1])
    BY <1>1, NamesMapped DEF Shape
  <1>3. ASSUME n \in DOMAIN NextDef
        PROVE  Depth # 0 /\ M[Depth - 1][NextDef[n]] = Shape(R, NextDef[n])
    <2>1. /\ NextDef[n] \in Names /\ Height(NextDef[n]) \in Nat /\ Height(n) \in 1..Depth
          /\ Height(NextDef[n]) <= Height(n) - 1
      BY <1>1, <1>3, TargetLower
    <2>2. Depth # 0 /\ Depth - 1 \in Height(NextDef[n])..Depth
      BY <1>1, <2>1
    <2> QED BY <2>1, <2>2, ShapeStable
  <1> HIDE DEF M
  <1> QED BY <1>2, <1>3, NameCases

-----------------------------------------------------------------------------
(* What the checker makes of a name, which no depth beyond its height      *)
(* changes either.                                                         *)
Sense(n) == Denotes[Depth][n]

LEMMA SenseStable ==
    ASSUME Accepted, NEW n \in Names, NEW d \in Height(n)..Depth
    PROVE  Denotes[d][n] = Sense(n)
  <1> DEFINE S == {x \in Names : \A e \in Height(x)..Depth : Denotes[e][x] = Denotes[Depth][x]}
  <1>1. Depth \in Nat /\ Depth \in 0..Depth
    BY DepthType
  <1>2. ASSUME NEW x \in Names \ DOMAIN NextDef PROVE x \in S
    <2> SUFFICES ASSUME NEW e \in Height(x)..Depth PROVE Denotes[e][x] = Denotes[Depth][x]
      OBVIOUS
    <2>1. e \in 0..Depth
      BY <1>1, HeightType
    <2> QED BY <1>1, <2>1, RegisteredMeans, UnknownMeans
  <1>3. ASSUME NEW x \in DOMAIN NextDef, NextDef[x] \in S PROVE x \in S
    <2> DEFINE t == NextDef[x]
    <2>1. x \in Names /\ t \in Names /\ Height(t) \in Nat /\ Height(x) \in 1..Depth
          /\ Height(t) <= Height(x) - 1
      BY TargetLower
    <2> SUFFICES ASSUME NEW e \in Height(x)..Depth PROVE Denotes[e][x] = Denotes[Depth][x]
      BY <2>1
    <2>2. /\ e \in 0..Depth /\ e \in 1..Depth /\ Depth \in 1..Depth
          /\ e - 1 \in Height(t)..Depth /\ Depth - 1 \in Height(t)..Depth
      BY <1>1, <2>1
    <2>3. Denotes[e - 1][t] = Denotes[Depth][t] /\ Denotes[Depth - 1][t] = Denotes[Depth][t]
      BY <1>3, <2>2
    <2>4. CASE defs[x].newtype
      BY <1>1, <2>2, <2>4, NewtypeMeans
    <2>5. CASE ~defs[x].newtype
      BY <2>2, <2>3, <2>5, AliasMeans
    <2> QED BY <2>4, <2>5
  <1>4. n \in S
    <2> HIDE DEF S
    <2>1. S \in SUBSET Names
      BY DEF S
    <2> QED BY <1>2, <1>3, <2>1, AlongTargets
  <1> QED BY <1>4 DEF Sense

LEMMA SenseCases ==
    ASSUME Accepted, NEW n \in Names
    PROVE  /\ Registered(n) => Sense(n) = Type(KindOf(n), n)
           /\ n \in DOMAIN NextDef /\ defs[n].newtype => Sense(n) = Type("newtype", n)
           /\ n \in DOMAIN NextDef /\ ~defs[n].newtype =>
                Sense(n) = Under(defs[n].target.form, Sense(NextDef[n]))
           /\ ~Registered(n) /\ n \notin DOMAIN NextDef => Sense(n) = Error
  <1>1. Depth \in Nat /\ Depth \in 0..Depth
    BY DepthType
  <1>2. Registered(n) => Sense(n) = Type(KindOf(n), n)
    BY <1>1, RegisteredMeans DEF Sense
  <1>3. n \in DOMAIN NextDef /\ defs[n].newtype => Sense(n) = Type("newtype", n)
    BY <1>1, NewtypeMeans DEF Sense
  <1>4. ASSUME n \in DOMAIN NextDef, ~defs[n].newtype
        PROVE  Sense(n) = Under(defs[n].target.form, Sense(NextDef[n]))
    <2>1. /\ NextDef[n] \in Names /\ Height(NextDef[n]) \in Nat /\ Height(n) \in 1..Depth
          /\ Height(NextDef[n]) <= Height(n) - 1
      BY <1>4, TargetLower
    <2>2. Depth \in 1..Depth /\ Depth - 1 \in Height(NextDef[n])..Depth
      BY <1>1, <2>1
    <2>3. Denotes[Depth - 1][NextDef[n]] = Sense(NextDef[n])
      BY <2>1, <2>2, SenseStable
    <2> QED BY <1>4, <2>2, <2>3, AliasMeans DEF Sense
  <1>5. ~Registered(n) /\ n \notin DOMAIN NextDef => Sense(n) = Error
    BY <1>1, UnknownMeans DEF Sense
  <1> QED BY <1>2, <1>3, <1>4, <1>5

LEMMA SenseType == ASSUME Accepted, NEW n \in Names PROVE Sense(n) \in ResolvedTypes
  <1> DEFINE S == {x \in Names : Sense(x) \in ResolvedTypes}
  <1>1. ASSUME NEW x \in Names \ DOMAIN NextDef PROVE x \in S
    <2>1. CASE Registered(x)
      BY <2>1, SenseCases, BaseType DEF KindOf, BaseKinds
    <2>2. CASE ~Registered(x)
      BY <2>2, SenseCases, ErrorType
    <2> QED BY <2>1, <2>2
  <1>2. ASSUME NEW x \in DOMAIN NextDef, NextDef[x] \in S PROVE x \in S
    <2>1. x \in Names /\ defs[x].target.form \in Forms
      BY DefinitionFacts DEF TypeExprs
    <2>2. CASE defs[x].newtype
      BY <2>1, <2>2, SenseCases, BaseType DEF BaseKinds
    <2>3. CASE ~defs[x].newtype
      BY <1>2, <2>1, <2>3, SenseCases, UnderType
    <2> QED BY <2>2, <2>3
  <1>3. S \in SUBSET Names
    OBVIOUS
  <1> HIDE DEF S
  <1>4. n \in S
    BY <1>1, <1>2, <1>3, AlongTargets
  <1> QED BY <1>4 DEF S

LEMMA ResolvedSense ==
    ASSUME Accepted, NEW n \in DOMAIN NextDef
    PROVE  /\ defs[n].resolved = Under(defs[n].target.form, Sense(NextDef[n]))
           /\ defs[n].target.form \in Forms /\ NextDef[n] \in Names /\ n \in Names
           /\ Sense(NextDef[n]) \in ResolvedTypes
  BY DefinitionFacts, SenseType DEF TypeMeant, Sense, Depth, TypeExprs

-----------------------------------------------------------------------------
(* When every enum has its number, the two readings agree.                 *)
FullEnums ==
    /\ Numbered(enumByName) /\ DOMAIN enumByName = DOMAIN enums
    /\ \A n \in DOMAIN enums : enumByName[n].repr =
          IF enums[n] = <<>> THEN MType("tag", 0) ELSE MType("enum", At(edefs, n))

LEMMA TypeParts ==
    ASSUME NEW kind, NEW n
    PROVE  Type(kind, n).layers = <<>> /\ Type(kind, n).kind = kind /\ Type(kind, n).name = n
  BY DEF Type

LEMMA BareRead ==
    ASSUME NEW kind, NEW n, NEW b
    PROVE  Layered(Type(kind, n), b) = b
  <1> DEFINE t == Type(kind, n)
  <1>1. t.layers = <<>>
    BY TypeParts
  <1> HIDE DEF t
  <1>2. <<>> # <<"ref">>
    OBVIOUS
  <1>3. Layered(t, b) = b
    BY <1>1, <1>2, Zenon DEF Layered
  <1> QED BY <1>3 DEF t

LEMMA UnderKeeps ==
    ASSUME NEW form \in Forms, NEW t \in ResolvedTypes
    PROVE  Under(form, t).kind = t.kind /\ Under(form, t).name = t.name
  BY DEF Under, ResolvedTypes

LEMMA UnderBase ==
    ASSUME NEW form \in Forms, NEW t \in ResolvedTypes, NEW d, NEW b
    PROVE  BaseRepr(Under(form, t), d, b) = BaseRepr(t, d, b)
  BY UnderKeeps DEF BaseRepr

LEMMA UnderRead ==
    ASSUME NEW form \in Forms, NEW t \in ResolvedTypes, NEW d \in 0..Depth,
           IsMType(BaseRepr(t, d, ReprOf[d - 1]))
    PROVE  /\ ReprOf[d][Under(form, t)] = MapForm(form, ReprOf[d][t])
           /\ IsMType(ReprOf[d][t]) /\ IsMType(BaseRepr(Under(form, t), d, ReprOf[d - 1]))
  <1> DEFINE u == Under(form, t)
             b == BaseRepr(t, d, ReprOf[d - 1])
  <1>1. u \in ResolvedTypes
    BY UnderType
  <1>2. BaseRepr(u, d, ReprOf[d - 1]) = b
    BY UnderBase
  <1>3. ReprOf[d][t] = Layered(t, b)
    BY TypesRead DEF ReprIn
  <1>4. ReprOf[d][u] = Layered(u, b)
    BY <1>1, <1>2, TypesRead DEF ReprIn
  <1>5. IsMType(b)
    OBVIOUS
  <1>6. IsMType(Layered(t, b)) /\ Layered(u, b) = MapForm(form, Layered(t, b))
    <2> HIDE DEF b
    <2> QED BY <1>5, LayersErased
  <1> QED BY <1>2, <1>3, <1>4, <1>5, <1>6

LEMMA StructPlace ==
    ASSUME Tabled, NEW n \in DOMAIN structs
    PROVE  At(NamesOf(sdefs), n) = structIndex[n]
  <1>1. /\ structIndex[n] \in DOMAIN NamesOf(sdefs) /\ NamesOf(sdefs)[structIndex[n]] = n
        /\ \A i \in DOMAIN NamesOf(sdefs) : NamesOf(sdefs)[i] = n => structIndex[n] = i
    BY DEF Tabled, StructTable, NamesOf
  <1> QED BY <1>1 DEF At

(* What both readings make of a name, at a depth of its height or more.    *)
AgreeAt(n, e) ==
    /\ IsMType(BaseRepr(Sense(n), e, ReprOf[e - 1]))
    /\ ReprOf[e][Sense(n)] = Shape(enumByName, n)

LEMMA AgreeBare ==
    ASSUME Tabled, FullEnums, NEW n \in Names \ DOMAIN NextDef, NEW e \in 0..Depth
    PROVE  AgreeAt(n, e)
  <1> DEFINE b == BaseRepr(Sense(n), e, ReprOf[e - 1])
  <1>1. Accepted /\ Numbered(enumByName) /\ Sense(n) \in ResolvedTypes
    BY SenseType DEF Tabled, FullEnums
  <1>2. PICK kind, m : Sense(n) = Type(kind, m)
    BY <1>1, SenseCases DEF Error
  <1>3. ReprOf[e][Sense(n)] = b
    BY <1>1, <1>2, TypesRead, BareRead DEF ReprIn
  <1>4. CASE n \in Builtins
    <2>1. Registered(n) /\ KindOf(n) = "builtin"
      BY <1>1, <1>4, NamesDisjoint DEF Registered, KindOf
    <2>2. Sense(n) = Type("builtin", n)
      BY <1>1, <2>1, SenseCases
    <2>3. b = Builtin(n)
      BY <2>2, TypeParts DEF BaseRepr
    <2> QED BY <1>1, <1>3, <1>4, <2>3, ShapeCases, MTypeFacts DEF AgreeAt
  <1>5. CASE n \in DOMAIN structs
    <2>1. Sense(n) = Type("struct", n)
      BY <1>1, <1>5, SenseCases, NamesDisjoint DEF Registered, KindOf
    <2>2. b = MType("struct", structIndex[n])
      BY <1>5, <2>1, TypeParts, StructPlace DEF BaseRepr
    <2> QED BY <1>1, <1>3, <1>5, <2>2, ShapeCases, MTypeFacts DEF AgreeAt
  <1>6. CASE n \in DOMAIN enums
    <2>1. Sense(n) = Type("enum", n)
      BY <1>1, <1>6, SenseCases, NamesDisjoint DEF Registered, KindOf
    <2>2. b = enumByName[n].repr
      BY <1>6, <2>1, TypeParts DEF BaseRepr, FullEnums
    <2>3. n \in DOMAIN enumByName
      BY <1>6 DEF FullEnums
    <2>4. IsMType(b)
      BY <2>2, <2>3, <1>1 DEF Numbered
    <2> QED BY <1>1, <1>3, <2>2, <2>3, <2>4, ShapeCases DEF AgreeAt
  <1>7. CASE n \notin Builtins /\ n \notin DOMAIN structs /\ n \notin DOMAIN enums
    <2>1. Sense(n) = Type("error", NoName)
      BY <1>1, <1>7, SenseCases DEF Registered, Error
    <2>2. b = Unknown
      BY <2>1, TypeParts DEF BaseRepr
    <2>3. Shape(enumByName, n) = Unknown
      BY <1>1, <1>7, ShapeCases DEF FullEnums
    <2> QED BY <1>3, <2>2, <2>3, MTypeFacts DEF AgreeAt
  <1> QED BY <1>4, <1>5, <1>6, <1>7

LEMMA AgreeDefinition ==
    ASSUME Tabled, FullEnums, NEW n \in DOMAIN NextDef, NEW e \in 1..Depth,
           AgreeAt(NextDef[n], e), AgreeAt(NextDef[n], e - 1)
    PROVE  AgreeAt(n, e)
  <1> DEFINE t == NextDef[n]
             form == defs[n].target.form
  <1>1. Accepted /\ Numbered(enumByName)
    BY DEF Tabled, FullEnums
  <1>2. /\ n \in Names /\ t \in Names /\ form \in Forms /\ Sense(t) \in ResolvedTypes
        /\ Sense(n) \in ResolvedTypes /\ defs[n].resolved = Under(form, Sense(t))
        /\ e \in 0..Depth /\ e - 1 \in 0..Depth /\ e # 0
    BY <1>1, ResolvedSense, SenseType, DepthType
  <1>3. Shape(enumByName, n) = MapForm(form, Shape(enumByName, t))
    BY <1>1, <1>2, ShapeCases
  <1>4. CASE defs[n].newtype
    <2>1. Sense(n) = Type("newtype", n)
      BY <1>1, <1>2, <1>4, SenseCases
    <2>2. BaseRepr(Sense(n), e, ReprOf[e - 1]) = ReprOf[e - 1][defs[n].resolved]
      BY <1>2, <2>1, TypeParts DEF BaseRepr
    <2>3. /\ ReprOf[e - 1][Under(form, Sense(t))] = MapForm(form, ReprOf[e - 1][Sense(t)])
          /\ IsMType(ReprOf[e - 1][Sense(t)])
      BY <1>2, UnderRead DEF AgreeAt
    <2>4. ReprOf[e - 1][defs[n].resolved] = Shape(enumByName, n) /\ IsMType(Shape(enumByName, n))
      BY <1>2, <1>3, <2>3, MapFormFacts DEF AgreeAt
    <2>5. ReprOf[e][Sense(n)] = BaseRepr(Sense(n), e, ReprOf[e - 1])
      BY <1>2, <2>1, TypesRead, BareRead DEF ReprIn
    <2> QED BY <2>2, <2>4, <2>5 DEF AgreeAt
  <1>5. CASE ~defs[n].newtype
    <2>1. Sense(n) = Under(form, Sense(t))
      BY <1>1, <1>2, <1>5, SenseCases
    <2> QED BY <1>2, <1>3, <2>1, UnderRead DEF AgreeAt
  <1> QED BY <1>4, <1>5

LEMMA Agree ==
    ASSUME Tabled, FullEnums, NEW n \in Names
    PROVE  AgreeAt(n, Depth)
  <1> DEFINE S == {x \in Names : \A e \in Height(x)..Depth : AgreeAt(x, e)}
  <1>1. Accepted /\ Depth \in Nat
    BY DepthType DEF Tabled
  <1>2. ASSUME NEW x \in Names \ DOMAIN NextDef PROVE x \in S
    <2>1. \A e \in Height(x)..Depth : e \in 0..Depth
      BY <1>1, HeightType
    <2> QED BY <2>1, AgreeBare
  <1>3. ASSUME NEW x \in DOMAIN NextDef, NextDef[x] \in S PROVE x \in S
    <2> DEFINE t == NextDef[x]
    <2>1. x \in Names /\ t \in Names /\ Height(t) \in Nat /\ Height(x) \in 1..Depth
          /\ Height(t) <= Height(x) - 1
      BY <1>1, TargetLower
    <2>2. ASSUME NEW e \in Height(x)..Depth PROVE AgreeAt(x, e)
      <3>1. e \in 1..Depth /\ e \in Height(t)..Depth /\ e - 1 \in Height(t)..Depth
        BY <1>1, <2>1
      <3> QED BY <1>3, <3>1, AgreeDefinition
    <2> QED BY <2>1, <2>2
  <1>4. n \in S
    <2> HIDE DEF S
    <2>1. S \in SUBSET Names
      BY DEF S
    <2> QED BY <1>1, <1>2, <1>3, <2>1, AlongTargets
  <1>5. Depth \in Height(n)..Depth
    BY <1>1, HeightType
  <1> QED BY <1>4, <1>5

LEMMA ReprMapped ==
    ASSUME Tabled, FullEnums, NEW te \in TypeExprs
    PROVE  Repr(TypeMeant(te)) = Mapped(enumByName, te)
  <1>1. te.name \in Names /\ te.form \in Forms
    BY DEF TypeExprs
  <1>2. Depth \in 0..Depth /\ AgreeAt(te.name, Depth) /\ Sense(te.name) \in ResolvedTypes
    BY <1>1, DepthType, Agree, SenseType DEF Tabled
  <1>3. Repr(TypeMeant(te)) = ReprOf[Depth][Under(te.form, Sense(te.name))]
    BY DEF Repr, TypeMeant, Sense, Depth
  <1>4. ReprOf[Depth][Under(te.form, Sense(te.name))]
          = MapForm(te.form, ReprOf[Depth][Sense(te.name)])
    BY <1>1, <1>2, UnderRead DEF AgreeAt
  <1>5. Mapped(enumByName, te) = MapForm(te.form, Shape(enumByName, te.name))
    BY DEF Mapped, Shape, Depth
  <1> QED BY <1>2, <1>3, <1>4, <1>5 DEF AgreeAt

-----------------------------------------------------------------------------
(* What a name is mapped to is a type, and what is mapped with some of the *)
(* enums and not reported is mapped to the same with all.                  *)
LEMMA ShapeType ==
    ASSUME Tabled, NEW R, Numbered(R), NEW n \in Names PROVE IsMType(Shape(R, n))
  <1> DEFINE S == {x \in Names : IsMType(Shape(R, x))}
  <1>1. Accepted
    BY DEF Tabled
  <1>2. ASSUME NEW x \in Names \ DOMAIN NextDef PROVE x \in S
    <2>1. CASE x \in DOMAIN R
      BY <2>1, ShapeCases DEF Numbered
    <2>2. CASE x \notin DOMAIN R
      BY <1>2, <2>2, ShapeCases, MTypeFacts
    <2> QED BY <2>1, <2>2
  <1>3. ASSUME NEW x \in DOMAIN NextDef, NextDef[x] \in S PROVE x \in S
    <2>1. x \in Names /\ defs[x].target.form \in Forms
      BY <1>1, ResolvedSense
    <2>2. Shape(R, x) = MapForm(defs[x].target.form, Shape(R, NextDef[x]))
      BY <2>1, ShapeCases
    <2> QED BY <1>3, <2>1, <2>2, MapFormFacts
  <1>4. S \in SUBSET Names
    OBVIOUS
  <1> HIDE DEF S
  <1>5. n \in S
    BY <1>1, <1>2, <1>3, <1>4, AlongTargets
  <1> QED BY <1>5 DEF S

PartOf(Q, R) == \A n \in DOMAIN Q : n \in DOMAIN R /\ Q[n] = R[n]

LEMMA SameShape ==
    ASSUME Tabled, NEW Q, NEW R, Numbered(R), PartOf(Q, R), NEW n \in Names, ~Shape(Q, n).bad
    PROVE  Shape(Q, n) = Shape(R, n)
  <1> DEFINE S == {x \in Names : ~Shape(Q, x).bad => Shape(Q, x) = Shape(R, x)}
  <1>1. Accepted /\ Numbered(Q)
    BY DEF Tabled, Numbered, PartOf
  <1>2. ASSUME NEW x \in Names \ DOMAIN NextDef, ~Shape(Q, x).bad PROVE Shape(Q, x) = Shape(R, x)
    <2>1. x \in Builtins \/ x \in DOMAIN structs \/ x \in DOMAIN Q
      BY <1>1, <1>2, ShapeCases, MTypeFacts
    <2>2. CASE x \in DOMAIN Q
      BY <1>1, <2>2, ShapeCases DEF PartOf
    <2>3. CASE x \in Builtins \/ x \in DOMAIN structs
      BY <1>1, <2>3, ShapeCases
    <2> QED BY <2>1, <2>2, <2>3
  <1>3. ASSUME NEW x \in DOMAIN NextDef, NextDef[x] \in S, ~Shape(Q, x).bad
        PROVE  Shape(Q, x) = Shape(R, x)
    <2> DEFINE form == defs[x].target.form
               t == NextDef[x]
    <2>1. x \in Names /\ form \in Forms /\ t \in Names
      BY <1>1, ResolvedSense
    <2>2. Shape(Q, x) = MapForm(form, Shape(Q, t)) /\ Shape(R, x) = MapForm(form, Shape(R, t))
      BY <1>1, <2>1, ShapeCases
    <2>3. IsMType(Shape(Q, t)) /\ IsMType(Shape(R, t))
      BY <1>1, <2>1, ShapeType
    <2>4. CASE form = "ptr"
      BY <2>1, <2>2, <2>3, <2>4, MapFormFacts
    <2>5. CASE form # "ptr"
      <3>1. ~Shape(Q, t).bad
        BY <1>3, <2>1, <2>2, <2>3, <2>5, MapFormFacts
      <3> QED BY <1>3, <2>2, <3>1
    <2> QED BY <2>4, <2>5
  <1>4. /\ S \in SUBSET Names /\ \A x \in Names \ DOMAIN NextDef : x \in S
        /\ \A x \in DOMAIN NextDef : NextDef[x] \in S => x \in S
    <2>1. \A x \in DOMAIN NextDef : x \in Names
      BY <1>1, DefinitionFacts
    <2> QED BY <1>2, <1>3, <2>1
  <1> HIDE DEF S
  <1>5. n \in S
    BY <1>1, <1>4, AlongTargets
  <1> QED BY <1>5 DEF S

LEMMA MappedShape ==
    ASSUME Tabled, NEW R, Numbered(R), NEW te \in TypeExprs
    PROVE  /\ Mapped(R, te) = MapForm(te.form, Shape(R, te.name)) /\ IsMType(Mapped(R, te))
           /\ Mapped(R, te).bad <=> te.form # "ptr" /\ Shape(R, te.name).bad
           /\ te.name \in Names /\ te.form \in Forms
  <1>1. te.name \in Names /\ te.form \in Forms
    BY DEF TypeExprs
  <1>2. Mapped(R, te) = MapForm(te.form, Shape(R, te.name))
    BY DEF Mapped, Shape, Depth
  <1> QED BY <1>1, <1>2, ShapeType, MapFormFacts

LEMMA SameMapped ==
    ASSUME Tabled, NEW Q, NEW R, Numbered(R), PartOf(Q, R), NEW te \in TypeExprs, ~Mapped(Q, te).bad
    PROVE  Mapped(Q, te) = Mapped(R, te)
  <1>1. Numbered(Q)
    BY DEF Numbered, PartOf
  <1>2. te.name \in Names /\ te.form \in Forms /\ IsMType(Shape(Q, te.name))
        /\ IsMType(Shape(R, te.name))
    BY <1>1, MappedShape, ShapeType
  <1>3. CASE te.form = "ptr"
    BY <1>1, <1>2, <1>3, MappedShape, MapFormFacts
  <1>4. CASE te.form # "ptr"
    BY <1>1, <1>2, <1>4, MappedShape, SameShape
  <1> QED BY <1>3, <1>4

-----------------------------------------------------------------------------
(* What the lowerer reports.  Names that lead to builtins, structs and the *)
(* enums it knows are never reported, ...                                  *)
Reaches(G, R) == \A n \in G :
    \/ n \in Builtins \/ n \in DOMAIN structs \/ n \in DOMAIN R
    \/ n \in DOMAIN NextDef /\ NextDef[n] \in G

LEMMA NeverBad ==
    ASSUME Tabled, NEW R, Numbered(R), NEW G \in SUBSET Names, Reaches(G, R), NEW n \in G
    PROVE  ~Shape(R, n).bad
  <1> DEFINE S == {x \in Names : x \in G => ~Shape(R, x).bad}
  <1>1. Accepted
    BY DEF Tabled
  <1>2. ASSUME NEW x \in Names \ DOMAIN NextDef, x \in G PROVE ~Shape(R, x).bad
    <2>1. x \in Builtins \/ x \in DOMAIN structs \/ x \in DOMAIN R
      BY <1>2 DEF Reaches
    <2>2. CASE x \in DOMAIN R
      BY <2>2, ShapeCases DEF Numbered
    <2>3. CASE x \in Builtins \/ x \in DOMAIN structs
      BY <2>3, ShapeCases, MTypeFacts
    <2> QED BY <2>1, <2>2, <2>3
  <1>3. ASSUME NEW x \in DOMAIN NextDef, NextDef[x] \in S, x \in G PROVE ~Shape(R, x).bad
    <2> DEFINE form == defs[x].target.form
               t == NextDef[x]
    <2>1. x \in Names /\ form \in Forms /\ t \in Names
      BY <1>1, ResolvedSense
    <2>2. x \notin Builtins /\ x \notin DOMAIN structs /\ x \notin DOMAIN R
      BY <1>1, <2>1, NamesDisjoint DEF Numbered
    <2>3. ~Shape(R, t).bad
      BY <1>3, <2>2 DEF Reaches
    <2>4. Shape(R, x) = MapForm(form, Shape(R, t)) /\ IsMType(Shape(R, t))
      BY <2>1, ShapeCases, ShapeType
    <2> QED BY <2>1, <2>3, <2>4, MapFormFacts
  <1>4. /\ S \in SUBSET Names /\ \A x \in Names \ DOMAIN NextDef : x \in S
        /\ \A x \in DOMAIN NextDef : NextDef[x] \in S => x \in S
    <2>1. \A x \in DOMAIN NextDef : x \in Names
      BY <1>1, DefinitionFacts
    <2> QED BY <1>2, <1>3, <2>1
  <1> HIDE DEF S
  <1>5. \A x \in Names : x \in S
    BY <1>1, <1>4, AlongTargets
  <1> QED BY <1>5 DEF S

(* ... and before the enums are known, the known names that are reported   *)
(* are those that hold an enum.                                            *)
LEMMA HoldsUnder ==
    ASSUME NEW form \in Forms, NEW t \in ResolvedTypes, NEW S
    PROVE  Holds(S, Under(form, t)) <=> form # "ptr" /\ Holds(S, t)
  <1>1. CASE form = "plain"
    BY <1>1 DEF Under
  <1>2. CASE form # "plain"
    BY <1>2, UnderKeeps, UnderRefs DEF Holds, Forms
  <1> QED BY <1>1, <1>2

LEMMA HoldsBare ==
    ASSUME NEW kind, NEW n, NEW S
    PROVE  Holds(S, Type(kind, n)) <=> kind = "enum" \/ (kind = "newtype" /\ n \in S)
  BY TypeParts DEF Holds, OnlyRefs

LEMMA NothingNumbered == Numbered(Empty)
  BY DEF Numbered, Empty

ClosedNewtypes(S) == \A n \in Newtypes : Holds(S, defs[n].resolved) => n \in S

LEMMA BadHolds ==
    ASSUME Tabled, NEW S \in SUBSET Newtypes, ClosedNewtypes(S), NEW n \in Known, Shape(Empty, n).bad
    PROVE  Holds(S, Sense(n))
  <1> DEFINE T == {x \in Names : x \in Known /\ Shape(Empty, x).bad => Holds(S, Sense(x))}
  <1>1. Accepted /\ Numbered(Empty) /\ DOMAIN Empty = {}
    BY NothingNumbered DEF Tabled, Empty
  <1>2. Known \in SUBSET Names
    BY <1>1, AcceptedFacts, TableAssumption DEF IInv, TypeOK, Tables, Known, Finished
  <1>3. ASSUME NEW x \in Names \ DOMAIN NextDef, x \in Known, Shape(Empty, x).bad
        PROVE  Holds(S, Sense(x))
    <2>1. x \notin Builtins /\ x \notin DOMAIN structs
      BY <1>1, <1>3, ShapeCases, MTypeFacts
    <2>2. x \notin Finished
      BY <1>3 DEF NextDef, Finished, Absent
    <2>3. x \in DOMAIN enums /\ Registered(x) /\ KindOf(x) = "enum"
      BY <1>3, <2>1, <2>2 DEF Known, Registered, KindOf
    <2>4. Sense(x) = Type("enum", x)
      BY <1>1, <2>3, SenseCases
    <2> QED BY <2>4, HoldsBare
  <1>4. ASSUME NEW x \in DOMAIN NextDef, NextDef[x] \in T, x \in Known, Shape(Empty, x).bad
        PROVE  Holds(S, Sense(x))
    <2> DEFINE form == defs[x].target.form
               t == NextDef[x]
    <2>1. /\ x \in Names /\ form \in Forms /\ t \in Names /\ Sense(t) \in ResolvedTypes
          /\ defs[x].resolved = Under(form, Sense(t))
      BY <1>1, ResolvedSense
    <2>2. t \in Known /\ defs[x].newtype \in BOOLEAN
      BY <1>1, DefinitionFacts
    <2>3. Shape(Empty, x) = MapForm(form, Shape(Empty, t)) /\ IsMType(Shape(Empty, t))
      BY <1>1, <2>1, ShapeCases, ShapeType
    <2>4. form # "ptr" /\ Shape(Empty, t).bad
      BY <1>4, <2>1, <2>3, MapFormFacts
    <2>5. Holds(S, Under(form, Sense(t)))
      BY <1>4, <2>1, <2>2, <2>4, HoldsUnder
    <2>6. CASE defs[x].newtype
      <3>1. x \in S
        BY <2>1, <2>5, <2>6 DEF ClosedNewtypes, Newtypes
      <3>2. Sense(x) = Type("newtype", x)
        BY <1>1, <2>1, <2>6, SenseCases
      <3> QED BY <3>1, <3>2, HoldsBare
    <2>7. CASE ~defs[x].newtype
      BY <1>1, <2>1, <2>5, <2>7, SenseCases
    <2> QED BY <2>6, <2>7
  <1>5. /\ T \in SUBSET Names /\ \A x \in Names \ DOMAIN NextDef : x \in T
        /\ \A x \in DOMAIN NextDef : NextDef[x] \in T => x \in T
    <2>1. \A x \in DOMAIN NextDef : x \in Names
      BY <1>1, DefinitionFacts
    <2> QED BY <1>3, <1>4, <2>1
  <1> HIDE DEF T
  <1>6. \A x \in Names : x \in T
    BY <1>1, <1>5, AlongTargets
  <1> QED BY <1>2, <1>6 DEF T

BadNewtypes == {n \in Newtypes : Shape(Empty, n).bad}

LEMMA HoldsBad ==
    ASSUME Tabled, NEW n \in Names, Holds(BadNewtypes, Sense(n))
    PROVE  Shape(Empty, n).bad
  <1> DEFINE T == {x \in Names : Holds(BadNewtypes, Sense(x)) => Shape(Empty, x).bad}
  <1>1. Accepted /\ Numbered(Empty) /\ DOMAIN Empty = {}
    BY NothingNumbered DEF Tabled, Empty
  <1>2. ASSUME NEW x \in Names \ DOMAIN NextDef, Holds(BadNewtypes, Sense(x))
        PROVE  Shape(Empty, x).bad
    <2>1. Registered(x) /\ KindOf(x) = "enum"
      <3>1. Sense(x) = Error \/ (Registered(x) /\ Sense(x) = Type(KindOf(x), x))
        BY <1>1, SenseCases
      <3>2. KindOf(x) \in {"builtin", "struct", "enum"}
        BY DEF KindOf
      <3> QED BY <1>2, <3>1, <3>2, HoldsBare DEF Error
    <2>2. x \notin Builtins /\ x \notin DOMAIN structs
      BY <2>1 DEF KindOf
    <2> QED BY <1>1, <2>2, ShapeCases, MTypeFacts
  <1>3. ASSUME NEW x \in DOMAIN NextDef, NextDef[x] \in T, Holds(BadNewtypes, Sense(x))
        PROVE  Shape(Empty, x).bad
    <2> DEFINE form == defs[x].target.form
               t == NextDef[x]
    <2>1. x \in Names /\ form \in Forms /\ t \in Names /\ Sense(t) \in ResolvedTypes
      BY <1>1, ResolvedSense
    <2>2. defs[x].newtype \in BOOLEAN
      BY <1>1, DefinitionFacts
    <2>3. CASE defs[x].newtype
      <3>1. Sense(x) = Type("newtype", x)
        BY <1>1, <2>1, <2>3, SenseCases
      <3> QED BY <1>3, <3>1, HoldsBare DEF BadNewtypes
    <2>4. CASE ~defs[x].newtype
      <3>1. form # "ptr" /\ Holds(BadNewtypes, Sense(t))
        BY <1>1, <1>3, <2>1, <2>4, SenseCases, HoldsUnder
      <3>2. Shape(Empty, x) = MapForm(form, Shape(Empty, t)) /\ IsMType(Shape(Empty, t))
        BY <1>1, <2>1, ShapeCases, ShapeType
      <3> QED BY <1>3, <2>1, <3>1, <3>2, MapFormFacts
    <2> QED BY <2>2, <2>3, <2>4
  <1>4. /\ T \in SUBSET Names /\ \A x \in Names \ DOMAIN NextDef : x \in T
        /\ \A x \in DOMAIN NextDef : NextDef[x] \in T => x \in T
    <2>1. \A x \in DOMAIN NextDef : x \in Names
      BY <1>1, DefinitionFacts
    <2> QED BY <1>2, <1>3, <2>1
  <1> HIDE DEF T
  <1>5. \A x \in Names : x \in T
    BY <1>1, <1>4, AlongTargets
  <1> QED BY <1>5 DEF T

LEMMA BadClosed == ASSUME Tabled PROVE BadNewtypes \in SUBSET Newtypes /\ ClosedNewtypes(BadNewtypes)
  <1> SUFFICES ASSUME NEW n \in Newtypes, Holds(BadNewtypes, defs[n].resolved)
               PROVE  Shape(Empty, n).bad
    BY DEF BadNewtypes, ClosedNewtypes
  <1>1. Accepted /\ Numbered(Empty)
    BY NothingNumbered DEF Tabled
  <1>2. n \in DOMAIN NextDef
    BY DEF Newtypes, NextDef, Absent
  <1> DEFINE form == defs[n].target.form
             t == NextDef[n]
  <1>3. /\ n \in Names /\ form \in Forms /\ t \in Names /\ Sense(t) \in ResolvedTypes
        /\ defs[n].resolved = Under(form, Sense(t))
    BY <1>1, <1>2, ResolvedSense
  <1>4. form # "ptr" /\ Shape(Empty, t).bad
    BY <1>3, HoldsUnder, HoldsBad
  <1>5. Shape(Empty, n) = MapForm(form, Shape(Empty, t)) /\ IsMType(Shape(Empty, t))
    BY <1>1, <1>2, <1>3, ShapeCases, ShapeType
  <1> QED BY <1>3, <1>4, <1>5, MapFormFacts

LEMMA FieldBad ==
    ASSUME Tabled, NEW te \in TypeExprs, te.name \in Known
    PROVE  Mapped(Empty, te).bad <=> HoldsEnum(TypeMeant(te))
  <1>1. /\ Accepted /\ te.name \in Names /\ te.form \in Forms
        /\ Mapped(Empty, te).bad <=> te.form # "ptr" /\ Shape(Empty, te.name).bad
    BY NothingNumbered, MappedShape DEF Tabled
  <1>2. TypeMeant(te) = Under(te.form, Sense(te.name)) /\ Sense(te.name) \in ResolvedTypes
    BY <1>1, SenseType DEF TypeMeant, Sense, Depth
  <1>3. ASSUME Mapped(Empty, te).bad PROVE HoldsEnum(TypeMeant(te))
    <2> SUFFICES ASSUME NEW S \in SUBSET Newtypes, ClosedNewtypes(S) PROVE Holds(S, TypeMeant(te))
      BY DEF HoldsEnum, ClosedNewtypes
    <2> QED BY <1>1, <1>2, <1>3, BadHolds, HoldsUnder
  <1>4. ASSUME HoldsEnum(TypeMeant(te)) PROVE Mapped(Empty, te).bad
    <2>1. Holds(BadNewtypes, TypeMeant(te))
      BY <1>4, BadClosed DEF HoldsEnum, ClosedNewtypes
    <2> QED BY <1>1, <1>2, <2>1, HoldsUnder, HoldsBad
  <1>5. Mapped(Empty, te).bad \in BOOLEAN
    BY NothingNumbered, MappedShape DEF IsMType
  <1> QED BY <1>3, <1>4, <1>5

-----------------------------------------------------------------------------
(* The items of some kinds and their places among them.                    *)
LEMMA PlaceStep ==
    ASSUME items \in Modules, NEW kinds
    PROVE  /\ Place(kinds, 0) = 0 /\ Len(items) \in Nat /\ DOMAIN items = 1..Len(items)
           /\ \A i \in Nat : Place(kinds, i) \in Nat
           /\ \A i, j \in Nat : i <= j => Place(kinds, i) <= Place(kinds, j)
           /\ \A i \in Nat \ {0} : Place(kinds, i) =
                 IF items[i].kind \in kinds THEN Place(kinds, i - 1) + 1 ELSE Place(kinds, i - 1)
  <1> DEFINE P(i) == {j \in 1..i : items[j].kind \in kinds}
  <1>1. items \in Seq(Items)
    BY TableAssumption
  <1>2. ASSUME NEW i \in Nat PROVE IsFiniteSet(P(i)) /\ Cardinality(P(i)) \in Nat
    <2>1. IsFiniteSet(1..i)
      BY <1>2, FS_Interval
    <2>2. P(i) \in SUBSET (1..i)
      OBVIOUS
    <2> HIDE DEF P
    <2> QED BY <2>1, <2>2, FS_Subset, FS_CardinalityType
  <1>3. Place(kinds, 0) = 0
    <2>1. P(0) = {}
      OBVIOUS
    <2> QED BY <2>1, FS_EmptySet DEF Place
  <1>4. ASSUME NEW i \in Nat, NEW j \in Nat, i <= j PROVE Place(kinds, i) <= Place(kinds, j)
    <2>1. P(i) \subseteq P(j)
      BY <1>4
    <2>2. IsFiniteSet(P(j))
      BY <1>2
    <2>3. Place(kinds, i) = Cardinality(P(i)) /\ Place(kinds, j) = Cardinality(P(j))
      BY DEF Place
    <2> HIDE DEF P
    <2> QED BY <2>1, <2>2, <2>3, FS_Subset
  <1>5. ASSUME NEW i \in Nat \ {0}
        PROVE  Place(kinds, i) =
                 IF items[i].kind \in kinds THEN Place(kinds, i - 1) + 1 ELSE Place(kinds, i - 1)
    <2>1. i - 1 \in Nat /\ i \notin P(i - 1)
      OBVIOUS
    <2>2. P(i) = IF items[i].kind \in kinds THEN P(i - 1) \cup {i} ELSE P(i - 1)
      <3>1. \A j : j \in 1..i <=> j \in 1..(i - 1) \/ j = i
        BY <2>1
      <3> QED BY <3>1
    <2>3. Place(kinds, i) = Cardinality(P(i)) /\ Place(kinds, i - 1) = Cardinality(P(i - 1))
      BY DEF Place
    <2>4. IsFiniteSet(P(i - 1))
      BY <1>2, <2>1
    <2>5. CASE items[i].kind \in kinds
      <3>1. P(i) = P(i - 1) \cup {i}
        BY <2>2, <2>5
      <3> HIDE DEF P
      <3>2. Cardinality(P(i - 1) \cup {i}) = Cardinality(P(i - 1)) + 1
        BY <2>1, <2>4, FS_AddElement
      <3> QED BY <2>3, <2>5, <3>1, <3>2
    <2>6. CASE items[i].kind \notin kinds
      BY <2>2, <2>3, <2>6
    <2> QED BY <2>5, <2>6
  <1>6. \A i \in Nat : Place(kinds, i) \in Nat
    BY <1>2 DEF Place
  <1>7. Len(items) \in Nat /\ DOMAIN items = 1..Len(items)
    BY <1>1
  <1> QED BY <1>3, <1>4, <1>5, <1>6, <1>7

(* No two have the same place, and no place has none.                      *)
LEMMA PlaceUnique ==
    ASSUME items \in Modules, NEW kinds, NEW i \in DOMAIN items, NEW j \in DOMAIN items,
           items[i].kind \in kinds, items[j].kind \in kinds
    PROVE  /\ Place(kinds, i) \in 1..Place(kinds, Len(items))
           /\ i < j => Place(kinds, i) < Place(kinds, j)
           /\ Place(kinds, i) = Place(kinds, j) => i = j
  <1>1. \A m \in DOMAIN items :
           m \in Nat \ {0} /\ m - 1 \in Nat /\ m <= Len(items) /\ Len(items) \in Nat
    <2>1. items \in Seq(Items)
      BY TableAssumption
    <2> QED BY <2>1
  <1>2. ASSUME NEW k \in DOMAIN items, NEW m \in DOMAIN items, k < m, items[m].kind \in kinds
        PROVE  Place(kinds, k) < Place(kinds, m)
    <2>1. k \in Nat /\ m \in Nat \ {0} /\ m - 1 \in Nat /\ k <= m - 1
      BY <1>1, <1>2
    <2>2. Place(kinds, m) = Place(kinds, m - 1) + 1 /\ Place(kinds, k) <= Place(kinds, m - 1)
      BY <1>2, <2>1, PlaceStep
    <2>3. Place(kinds, k) \in Nat /\ Place(kinds, m - 1) \in Nat
      BY <2>1, PlaceStep
    <2> QED BY <2>2, <2>3
  <1>3. Place(kinds, i) \in 1..Place(kinds, Len(items))
    <2>1. Place(kinds, i) = Place(kinds, i - 1) + 1 /\ Place(kinds, i) <= Place(kinds, Len(items))
      BY <1>1, PlaceStep
    <2>2. Place(kinds, i - 1) \in Nat /\ Place(kinds, Len(items)) \in Nat
      BY <1>1, PlaceStep
    <2> QED BY <2>1, <2>2
  <1>4. Place(kinds, i) \in Nat /\ Place(kinds, j) \in Nat
    BY <1>1, PlaceStep
  <1>5. i < j \/ j < i \/ i = j
    BY <1>1
  <1> QED BY <1>2, <1>3, <1>4, <1>5

LEMMA NthFacts ==
    ASSUME items \in Modules, NEW kinds, NEW k \in 1..Place(kinds, Len(items))
    PROVE  /\ Nth(kinds, k) \in DOMAIN items /\ items[Nth(kinds, k)].kind \in kinds
           /\ Place(kinds, Nth(kinds, k)) = k
  <1> DEFINE S == {i \in 0..Len(items) : Place(kinds, i) >= k}
  <1>1. Len(items) \in Nat /\ Place(kinds, Len(items)) \in Nat /\ k \in Nat
        /\ k <= Place(kinds, Len(items))
    BY PlaceStep
  <1>2. Len(items) \in S /\ S \in SUBSET Nat
    BY <1>1
  <1>3. PICK m \in S : \A i \in S : m <= i
    BY <1>2, Least
  <1>4. m # 0
    BY <1>3, PlaceStep
  <1>5. m \in Nat \ {0} /\ m - 1 \in 0..Len(items) /\ m - 1 \in Nat /\ m \in DOMAIN items
    BY <1>1, <1>2, <1>4, PlaceStep
  <1>6. ~(Place(kinds, m - 1) >= k)
    BY <1>1, <1>3, <1>5
  <1>7. Place(kinds, m - 1) \in Nat /\ Place(kinds, m) \in Nat /\ Place(kinds, m) >= k
    BY <1>3, <1>5, PlaceStep
  <1>8. Place(kinds, m) =
            IF items[m].kind \in kinds THEN Place(kinds, m - 1) + 1 ELSE Place(kinds, m - 1)
    BY <1>5, PlaceStep
  <1>9. items[m].kind \in kinds /\ Place(kinds, m) = k
    BY <1>1, <1>6, <1>7, <1>8
  <1> QED BY <1>5, <1>9 DEF Nth

LEMMA OfKindFacts ==
    ASSUME items \in Modules, NEW kinds
    PROVE  /\ DOMAIN OfKind(kinds) = 1..Place(kinds, Len(items)) /\ Place(kinds, Len(items)) \in Nat
           /\ Len(OfKind(kinds)) = Place(kinds, Len(items))
           /\ \A k \in DOMAIN OfKind(kinds) : \E i \in DOMAIN items :
                 items[i].kind \in kinds /\ Place(kinds, i) = k /\ OfKind(kinds)[k] = items[i]
           /\ \A i \in DOMAIN items : items[i].kind \in kinds =>
                 Place(kinds, i) \in DOMAIN OfKind(kinds) /\ OfKind(kinds)[Place(kinds, i)] = items[i]
  <1> DEFINE n == Place(kinds, Len(items))
             s == [k \in 1..n |-> items[Nth(kinds, k)]]
  <1>1. OfKind(kinds) = s /\ n \in Nat
    BY PlaceStep DEF OfKind
  <1>2. DOMAIN s = 1..n /\ Len(s) = n /\ \A k \in 1..n : s[k] = items[Nth(kinds, k)]
    <2> HIDE DEF n
    <2> QED BY <1>1
  <1>3. \A k \in 1..n : /\ Nth(kinds, k) \in DOMAIN items /\ items[Nth(kinds, k)].kind \in kinds
                        /\ Place(kinds, Nth(kinds, k)) = k
    BY NthFacts
  <1>4. ASSUME NEW i \in DOMAIN items, items[i].kind \in kinds
        PROVE  Place(kinds, i) \in 1..n /\ Nth(kinds, Place(kinds, i)) = i
    <2>1. Place(kinds, i) \in 1..n
      BY <1>4, PlaceUnique
    <2> QED BY <1>3, <1>4, <2>1, PlaceUnique
  <1> HIDE DEF s
  <1> QED BY <1>1, <1>2, <1>3, <1>4

(* No two declarations of types have the same name.                        *)
LEMMA OfKindDistinct ==
    ASSUME items \in Modules, Distinct, NEW kinds, "func" \notin kinds
    PROVE  \A j, k \in DOMAIN OfKind(kinds) : OfKind(kinds)[j].name = OfKind(kinds)[k].name => j = k
  BY OfKindFacts DEF Distinct

-----------------------------------------------------------------------------
(* What the tables of lower_module hold, loop after loop.                  *)
Row(R, types) == [k \in DOMAIN types |-> Mapped(R, types[k])]
Structs       == OfKind({"struct"})
Enums         == {i \in DOMAIN items : items[i].kind = "enum"}

StructNames ==
    /\ DOMAIN sdefs = DOMAIN Structs
    /\ \A i \in DOMAIN Structs : sdefs[i] = [name |-> Structs[i].name, fields |-> sdefs[i].fields]
FieldRows == \A i \in DOMAIN Structs : sdefs[i].fields = Row(Empty, Structs[i].types)
BadField  == \E i \in DOMAIN sdefs : AnyBad(sdefs[i].fields)

(* The enums up to the one the loop is at are in the table, each with the  *)
(* payloads as the enums before it let them be mapped, ...                 *)
EnumCount  == Cardinality(DOMAIN enumByName)
EnumsSoFar == DOMAIN enumByName =
                  {items[i].name : i \in {x \in Enums : Place({"enum"}, x) <= EnumCount}}
EnumRow(i, R) == \E Q :
    /\ PartOf(Q, R)
    /\ \A h \in Enums : h < i => items[h].name \in DOMAIN Q
    /\ R[items[i].name].payloads = Row(Q, items[i].types)
EnumRows   == \A i \in Enums : items[i].name \in DOMAIN enumByName => EnumRow(i, enumByName)

(* ... and those with payloads are numbered by the table of them.          *)
EnumNumbers ==
    /\ \A x \in DOMAIN edefs : /\ edefs[x] \in DOMAIN enumByName
                               /\ enumByName[edefs[x]].repr = MType("enum", x)
    /\ \A n \in DOMAIN enumByName :
          IF enumByName[n].payloads = <<>> THEN enumByName[n].repr = MType("tag", 0)
                                           ELSE \E x \in DOMAIN edefs : edefs[x] = n
EnumTable   == EnumsSoFar /\ EnumRows /\ EnumNumbers /\ edefs \in Seq(Names)
Signatures  ==
    /\ DOMAIN sigs = DOMAIN OfKind({"func"})
    /\ \A i \in DOMAIN sigs : sigs[i] = Row(enumByName, OfKind({"func"})[i].types)

LInv ==
    /\ lowering \in {"", "structs", "fields", "enums", "funcs", "lowered"}
    /\ lowering # "" => pass = "done" /\ errors = <<>> /\ AliasTable
    /\ lowering \in {"", "structs", "fields"} => enumByName = Empty /\ edefs = <<>>
    /\ lowering \notin {"", "structs"} => StructTable /\ StructNames
    /\ lowering \in {"enums", "funcs", "lowered"} => FieldRows /\ EnumTable /\ (unknowns <=> BadField)
    /\ lowering \in {"funcs", "lowered"} => DOMAIN enumByName = DOMAIN enums
    /\ lowering = "lowered" => Signatures

LEMMA EmptyRow ==
    ASSUME NEW types \in Seq(TypeExprs), NEW R
    PROVE  Row(R, types) = <<>> <=> TypesMeant(types) = <<>>
  <1>1. DOMAIN types = 1..Len(types) /\ Len(types) \in Nat
    OBVIOUS
  <1>2. \A f : DOMAIN f = DOMAIN types /\ f = <<>> => DOMAIN types = {}
    OBVIOUS
  <1>3. DOMAIN Row(R, types) = DOMAIN types /\ DOMAIN TypesMeant(types) = DOMAIN types
    BY DEF Row, TypesMeant
  <1>4. DOMAIN types = {} => Row(R, types) = <<>>
    BY DEF Row
  <1>5. DOMAIN types = {} => TypesMeant(types) = <<>>
    BY DEF TypesMeant
  <1> QED BY <1>2, <1>3, <1>4, <1>5

(* The declarations of an accepted module are what its tables mean.        *)
LEMMA ItemMeant ==
    ASSUME Accepted, NEW i \in DOMAIN items
    PROVE  /\ items[i].name \in Names /\ items[i].types \in Seq(TypeExprs)
           /\ items[i].kind = "struct" => structs[items[i].name] = TypesMeant(items[i].types)
           /\ items[i].kind = "enum" => enums[items[i].name] = TypesMeant(items[i].types)
           /\ items[i].kind = "func" => funcs[items[i].name] = TypesMeant(items[i].types)
           /\ items[i].kind \in {"struct", "func"} =>
                 \A k \in DOMAIN items[i].types : items[i].types[k].name \in Known
           /\ items[i].kind = "enum" => EnumGrounded(i)
  <1>1. TablesMeanDeclarations /\ pass = "done" /\ errors = <<>>
    BY TablesMean DEF Accepted
  <1>2. items[i].name \in Names /\ items[i].types \in Seq(TypeExprs)
    BY AcceptedFacts, ItemAt
  <1>3. /\ items[i].kind = "struct" => structs[items[i].name] = TypesMeant(items[i].types)
        /\ items[i].kind = "enum" => enums[items[i].name] = TypesMeant(items[i].types)
        /\ items[i].kind = "func" => funcs[items[i].name] = TypesMeant(items[i].types)
    BY <1>1 DEF TablesMeanDeclarations
  <1>4. /\ items[i].kind = "struct" => Did(i, "field")
        /\ items[i].kind = "func" => Did(i, "sig")
        /\ items[i].kind = "enum" => Did(i, "enum")
    BY AcceptedFacts DEF KindsOf, Passes
  <1>5. TypesKnown /\ EnumsGrounded
    BY AcceptedFacts DEF Accepted, KnownInv
  <1> QED BY <1>2, <1>3, <1>4, <1>5 DEF TypesKnown, EnumsGrounded

LEMMA TypeAt ==
    ASSUME NEW types \in Seq(TypeExprs), NEW k \in DOMAIN types
    PROVE  types[k] \in TypeExprs
  OBVIOUS

LEMMA EnumsNumbered ==
    ASSUME Accepted, EnumTable
    PROVE  Numbered(enumByName)
  <1> SUFFICES ASSUME NEW n \in DOMAIN enumByName
               PROVE  n \in DOMAIN enums /\ IsMType(enumByName[n].repr) /\ ~enumByName[n].repr.bad
    BY DEF Numbered
  <1>1. PICK i \in Enums : items[i].name = n
    BY DEF EnumTable, EnumsSoFar
  <1>2. n \in Names /\ Declares(n, {"enum"})
    BY <1>1, ItemMeant DEF Enums, Declares
  <1>3. \E kind, x : enumByName[n].repr = MType(kind, x)
    BY DEF EnumTable, EnumNumbers
  <1> QED BY <1>2, <1>3, ByTable, MTypeFacts

(* The types of the payloads of an enum are never reported when the enums  *)
(* before it are known, nor are those of parameters and results.           *)
LEMMA PayloadsNeverBad ==
    ASSUME Tabled, NEW R, Numbered(R), NEW i \in Enums,
           \A h \in Enums : h < i => items[h].name \in DOMAIN R,
           NEW k \in DOMAIN items[i].types
    PROVE  ~Mapped(R, items[i].types[k]).bad
  <1>1. Accepted /\ i \in DOMAIN items /\ items[i].kind = "enum"
    BY DEF Tabled, Enums
  <1>2. PICK G \in SUBSET Names : /\ Grounded(G, i)
                                  /\ \A m \in DOMAIN items[i].types : items[i].types[m].name \in G
    BY <1>1, ItemMeant DEF EnumGrounded
  <1>3. Reaches(G, R)
    <2> SUFFICES ASSUME NEW n \in G
                 PROVE  \/ n \in Builtins \/ n \in DOMAIN structs \/ n \in DOMAIN R
                        \/ n \in DOMAIN NextDef /\ NextDef[n] \in G
      BY DEF Reaches
    <2>1. CASE n \in Builtins \/ Declares(n, {"struct"})
      BY <1>1, <2>1, ByTable
    <2>2. CASE \E h \in DOMAIN items : h < i /\ items[h].kind = "enum" /\ items[h].name = n
      BY <2>2 DEF Enums
    <2>3. CASE defs[n] # Absent /\ defs[n].target.name \in G
      BY <2>3 DEF NextDef
    <2> QED BY <1>2, <2>1, <2>2, <2>3 DEF Grounded
  <1>4. items[i].types[k] \in TypeExprs
    BY <1>1, ItemMeant, TypeAt
  <1> QED BY <1>2, <1>3, <1>4, NeverBad, MappedShape

LEMMA SignaturesNeverBad ==
    ASSUME Tabled, Numbered(enumByName), DOMAIN enumByName = DOMAIN enums,
           NEW i \in DOMAIN items, items[i].kind = "func", NEW k \in DOMAIN items[i].types
    PROVE  ~Mapped(enumByName, items[i].types[k]).bad
  <1>1. Accepted
    BY DEF Tabled
  <1>2. Known \in SUBSET Names
    BY <1>1, AcceptedFacts, TableAssumption DEF IInv, TypeOK, Tables, Known, Finished
  <1>3. Reaches(Known, enumByName)
    <2>1. \A n \in Finished : n \in DOMAIN NextDef /\ NextDef[n] \in Known
      BY <1>1, AcceptedFacts DEF Accepted, KnownInv, TargetsKnown, Finished, NextDef, Absent
    <2> QED BY <2>1 DEF Reaches, Known
  <1>4. items[i].types[k] \in TypeExprs /\ items[i].types[k].name \in Known
    BY <1>1, ItemMeant, TypeAt
  <1> QED BY <1>2, <1>3, <1>4, NeverBad, MappedShape

LEMMA EnumsFull ==
    ASSUME Tabled, EnumTable, DOMAIN enumByName = DOMAIN enums PROVE FullEnums
  <1>1. Accepted /\ Numbered(enumByName)
    BY EnumsNumbered DEF Tabled
  <1> SUFFICES ASSUME NEW n \in DOMAIN enums
               PROVE  enumByName[n].repr = IF enums[n] = <<>> THEN MType("tag", 0)
                                           ELSE MType("enum", At(edefs, n))
    BY <1>1 DEF FullEnums
  <1>2. PICK i \in Enums : items[i].name = n
    BY DEF EnumTable, EnumsSoFar
  <1>3. PICK Q : enumByName[n].payloads = Row(Q, items[i].types)
    BY <1>2 DEF EnumTable, EnumRows, EnumRow
  <1>4. enums[n] = TypesMeant(items[i].types) /\ items[i].types \in Seq(TypeExprs)
    BY <1>1, <1>2, ItemMeant DEF Enums
  <1>5. enumByName[n].payloads = <<>> <=> enums[n] = <<>>
    BY <1>3, <1>4, EmptyRow
  <1>6. ASSUME NEW x \in DOMAIN edefs, edefs[x] = n
        PROVE  At(edefs, n) = x /\ enumByName[n].repr = MType("enum", x)
    <2>1. enumByName[n].repr = MType("enum", x)
      BY <1>6 DEF EnumTable, EnumNumbers
    <2>2. \A y \in DOMAIN edefs : edefs[y] = n => MType("enum", x) = MType("enum", y)
      BY <2>1 DEF EnumTable, EnumNumbers
    <2>3. \A y \in DOMAIN edefs : edefs[y] = n => y = x
      BY <2>2, MTypeFacts
    <2> QED BY <1>6, <2>1, <2>3 DEF At
  <1> QED BY <1>5, <1>6 DEF EnumTable, EnumNumbers

(* With the tables complete, what they hold is what the checker resolved.  *)
LEMMA FieldsReported ==
    ASSUME Tabled, StructNames, FieldRows PROVE BadField <=> EnumInStruct
  <1>1. Accepted /\ StructTable /\ items \in Modules
    BY AcceptedFacts DEF Tabled
  <1>2. ASSUME NEW i \in DOMAIN Structs
        PROVE  /\ Structs[i].types \in Seq(TypeExprs) /\ sdefs[i].name = Structs[i].name
               /\ Structs[i].name \in DOMAIN structs
               /\ structs[Structs[i].name] = TypesMeant(Structs[i].types)
               /\ \A k \in DOMAIN Structs[i].types : Structs[i].types[k].name \in Known
    <2>1. PICK x \in DOMAIN items : items[x].kind = "struct" /\ Structs[i] = items[x]
      BY <1>1, OfKindFacts DEF Structs
    <2>2. sdefs[i].name = Structs[i].name /\ i \in DOMAIN sdefs
      BY DEF StructNames
    <2> QED BY <1>1, <2>1, <2>2, ItemMeant DEF StructTable
  <1>3. ASSUME NEW i \in DOMAIN Structs, NEW k \in DOMAIN Structs[i].types
        PROVE  /\ sdefs[i].fields[k].bad <=> HoldsEnum(structs[Structs[i].name][k])
               /\ DOMAIN sdefs[i].fields = DOMAIN Structs[i].types
               /\ DOMAIN structs[Structs[i].name] = DOMAIN Structs[i].types
    <2> DEFINE te == Structs[i].types[k]
    <2>1. sdefs[i].fields[k] = Mapped(Empty, te) /\ structs[Structs[i].name][k] = TypeMeant(te)
      BY <1>2 DEF FieldRows, Row, TypesMeant
    <2>2. te \in TypeExprs /\ te.name \in Known
      BY <1>2, TypeAt
    <2>3. DOMAIN sdefs[i].fields = DOMAIN Structs[i].types
          /\ DOMAIN structs[Structs[i].name] = DOMAIN Structs[i].types
      BY <1>2 DEF FieldRows, Row, TypesMeant
    <2> QED BY <2>1, <2>2, <2>3, FieldBad
  <1>4. \A i \in DOMAIN Structs : /\ DOMAIN sdefs[i].fields = DOMAIN Structs[i].types
                                  /\ DOMAIN structs[Structs[i].name] = DOMAIN Structs[i].types
    BY <1>2 DEF FieldRows, Row, TypesMeant
  <1>5. BadField => EnumInStruct
    BY <1>2, <1>3, <1>4 DEF BadField, AnyBad, EnumInStruct, StructNames
  <1>6. ASSUME NEW n \in DOMAIN structs, NEW k \in DOMAIN structs[n], HoldsEnum(structs[n][k])
        PROVE  BadField
    <2>1. structIndex[n] \in DOMAIN Structs /\ Structs[structIndex[n]].name = n
      BY <1>1, <1>2 DEF StructTable, StructNames
    <2>2. k \in DOMAIN Structs[structIndex[n]].types
      BY <1>4, <2>1
    <2> QED BY <1>3, <1>6, <2>1, <2>2 DEF BadField, AnyBad, StructNames
  <1> QED BY <1>5, <1>6 DEF EnumInStruct

LEMMA RowAgrees ==
    ASSUME Tabled, FullEnums, NEW types \in Seq(TypeExprs), NEW Q, PartOf(Q, enumByName),
           \A k \in DOMAIN types : ~Mapped(Q, types[k]).bad
    PROVE  Row(Q, types) = Reprs(TypesMeant(types))
  <1>1. ASSUME NEW k \in DOMAIN types PROVE Mapped(Q, types[k]) = Repr(TypeMeant(types[k]))
    <2>1. types[k] \in TypeExprs
      BY TypeAt
    <2> QED BY <2>1, SameMapped, ReprMapped DEF FullEnums
  <1>2. Reprs(TypesMeant(types)) = [k \in DOMAIN types |-> Repr(TypeMeant(types[k]))]
    BY DEF Reprs, TypesMeant
  <1> QED BY <1>1, <1>2 DEF Row

LEMMA TablesAgree == Accepted /\ LInv => RepresentationsAgree
  <1> SUFFICES ASSUME Accepted, LInv, lowering = "lowered"
               PROVE  /\ unknowns <=> EnumInStruct
                      /\ ~unknowns =>
                           /\ \A i \in DOMAIN sdefs : sdefs[i].fields = Reprs(structs[sdefs[i].name])
                           /\ \A n \in DOMAIN enums : enumByName[n].payloads = Reprs(enums[n])
                           /\ \A i \in DOMAIN sigs : sigs[i] = Reprs(funcs[OfKind({"func"})[i].name])
    BY DEF RepresentationsAgree
  <1>1. /\ Tabled /\ StructNames /\ FieldRows /\ EnumTable /\ (unknowns <=> BadField) /\ Signatures
        /\ DOMAIN enumByName = DOMAIN enums
    BY DEF LInv, Tabled
  <1>2. FullEnums /\ items \in Modules
    BY <1>1, EnumsFull, AcceptedFacts
  <1>3. unknowns <=> EnumInStruct
    BY <1>1, FieldsReported
  <1>4. ASSUME ~BadField, NEW i \in DOMAIN sdefs
        PROVE  sdefs[i].fields = Reprs(structs[sdefs[i].name])
    <2>1. i \in DOMAIN Structs /\ sdefs[i].name = Structs[i].name
      BY <1>1 DEF StructNames
    <2>2. PICK x \in DOMAIN items : items[x].kind = "struct" /\ Structs[i] = items[x]
      BY <1>2, <2>1, OfKindFacts DEF Structs
    <2>3. /\ Structs[i].types \in Seq(TypeExprs)
          /\ structs[Structs[i].name] = TypesMeant(Structs[i].types)
      BY <2>2, ItemMeant
    <2>4. sdefs[i].fields = Row(Empty, Structs[i].types)
      BY <1>1, <2>1 DEF FieldRows
    <2>5. \A k \in DOMAIN Structs[i].types : ~Mapped(Empty, Structs[i].types[k]).bad
      BY <1>4, <2>4 DEF BadField, AnyBad, Row
    <2>6. PartOf(Empty, enumByName)
      BY DEF PartOf, Empty
    <2> QED BY <1>1, <1>2, <2>1, <2>3, <2>4, <2>5, <2>6, RowAgrees
  <1>5. ASSUME NEW n \in DOMAIN enums PROVE enumByName[n].payloads = Reprs(enums[n])
    <2>1. PICK i \in Enums : items[i].name = n
      BY <1>1 DEF EnumTable, EnumsSoFar
    <2>2. PICK Q : /\ PartOf(Q, enumByName) /\ enumByName[n].payloads = Row(Q, items[i].types)
                   /\ \A h \in Enums : h < i => items[h].name \in DOMAIN Q
      BY <1>1, <2>1 DEF EnumTable, EnumRows, EnumRow
    <2>3. items[i].types \in Seq(TypeExprs) /\ enums[n] = TypesMeant(items[i].types)
      BY <2>1, ItemMeant DEF Enums
    <2>4. Numbered(Q)
      BY <1>2, <2>2 DEF FullEnums, Numbered, PartOf
    <2>5. \A k \in DOMAIN items[i].types : ~Mapped(Q, items[i].types[k]).bad
      BY <1>1, <2>2, <2>4, PayloadsNeverBad
    <2> QED BY <1>1, <1>2, <2>2, <2>3, <2>5, RowAgrees
  <1>6. ASSUME NEW i \in DOMAIN sigs PROVE sigs[i] = Reprs(funcs[OfKind({"func"})[i].name])
    <2>1. i \in DOMAIN OfKind({"func"}) /\ sigs[i] = Row(enumByName, OfKind({"func"})[i].types)
      BY <1>1 DEF Signatures
    <2>2. PICK x \in DOMAIN items : items[x].kind = "func" /\ OfKind({"func"})[i] = items[x]
      BY <1>2, <2>1, OfKindFacts
    <2>3. items[x].types \in Seq(TypeExprs) /\ funcs[items[x].name] = TypesMeant(items[x].types)
      BY <2>2, ItemMeant
    <2>4. \A k \in DOMAIN items[x].types : ~Mapped(enumByName, items[x].types[k]).bad
      BY <1>1, <1>2, <2>2, SignaturesNeverBad DEF FullEnums
    <2>5. PartOf(enumByName, enumByName)
      BY DEF PartOf
    <2> QED BY <1>1, <1>2, <2>1, <2>2, <2>3, <2>4, <2>5, RowAgrees
  <1> QED BY <1>1, <1>3, <1>4, <1>5, <1>6

-----------------------------------------------------------------------------
(* The loops of lower_module build these tables, one after the other.      *)
LEMMA SameModule ==
    ASSUME UNCHANGED vars
    PROVE  /\ UNCHANGED <<items, pass, defs, structs, enums, funcs, errors>>
           /\ NextDef' = NextDef /\ Structs' = Structs /\ Enums' = Enums
           /\ \A kinds : OfKind(kinds)' = OfKind(kinds)
           /\ \A kinds, i : Place(kinds, i)' = Place(kinds, i)
  <1>1. UNCHANGED <<items, pass, defs, structs, enums, funcs, errors>>
    BY DEF vars, tables
  <1>2. \A kinds, i : Place(kinds, i)' = Place(kinds, i)
    BY <1>1 DEF Place
  <1>3. \A kinds, k : Nth(kinds, k)' = Nth(kinds, k)
    BY <1>1 DEF Nth, Place
  <1>4. \A kinds : OfKind(kinds)' = OfKind(kinds)
    BY <1>1 DEF OfKind, Nth, Place
  <1>5. Structs' = Structs
    BY <1>1 DEF Structs, OfKind, Nth, Place
  <1> QED BY <1>1, <1>2, <1>4, <1>5 DEF NextDef, Enums

LEMMA SameRows ==
    ASSUME UNCHANGED <<typeAlias, structIndex>>
    PROVE  \A R, types : Row(R, types)' = Row(R, types)
  BY DEF Row, Mapped

LEMMA AliasesStep == Accepted /\ LInv /\ LowerAliases => LInv'
  <1> SUFFICES ASSUME Accepted, LInv, LowerAliases PROVE LInv'
    OBVIOUS
  <1> DEFINE as == OfKind(AliasKinds)
             Last(n) == CHOOSE i \in DOMAIN as :
                            as[i].name = n /\ \A j \in DOMAIN as : as[j].name = n => j <= i
  <1>1. /\ lowering = "" /\ lowering' = "structs" /\ UNCHANGED vars
        /\ UNCHANGED <<enumByName, edefs>> /\ pass = "done" /\ errors = <<>>
        /\ typeAlias' = [n \in {as[i].name : i \in DOMAIN as} |-> Head(as[Last(n)].types)]
    BY DEF LowerAliases
  <1>2. items \in Modules /\ Distinct /\ Registry /\ Plain
    BY AcceptedFacts
  <1>3. \A i \in DOMAIN as : \E x \in DOMAIN items : items[x].kind \in AliasKinds /\ as[i] = items[x]
    BY <1>2, OfKindFacts
  <1>4. \A x \in DOMAIN items : items[x].kind \in AliasKinds => \E i \in DOMAIN as : as[i] = items[x]
    BY <1>2, OfKindFacts
  <1>5. \A i, j \in DOMAIN as : as[i].name = as[j].name => i = j
    <2>1. "func" \notin AliasKinds
      BY DEF AliasKinds
    <2> QED BY <1>2, <2>1, OfKindDistinct
  <1>6. \A i \in DOMAIN as : i \in Nat
    BY <1>2, OfKindFacts
  <1> HIDE DEF as
  <1>7. \A n : n \in DOMAIN NextDef <=> \E i \in DOMAIN as : as[i].name = n
    <2>1. ASSUME NEW n \in DOMAIN NextDef PROVE \E i \in DOMAIN as : as[i].name = n
      <3>1. n \in Names /\ defs[n] # Absent
        BY DefinitionFacts
      <3>2. PICK x \in DOMAIN items : items[x].name = n /\ items[x].kind \in AliasKinds
        BY <3>1, ByTable DEF Declares
      <3> QED BY <1>4, <3>2
    <2>2. ASSUME NEW i \in DOMAIN as PROVE as[i].name \in DOMAIN NextDef
      <3>1. PICK x \in DOMAIN items : items[x].kind \in AliasKinds /\ as[i] = items[x]
        BY <1>3
      <3>2. as[i].name \in Names /\ Declares(as[i].name, AliasKinds)
        BY <1>2, <3>1, ItemAt DEF Declares
      <3> QED BY <3>2, ByTable DEF NextDef
    <2> QED BY <2>1, <2>2
  <1>8. ASSUME NEW n \in DOMAIN NextDef PROVE Head(as[Last(n)].types) = defs[n].target
    <2>1. PICK i \in DOMAIN as : as[i].name = n
      BY <1>7
    <2>2. Last(n) = i
      <3>1. \A j \in DOMAIN as : as[j].name = n => j = i
        BY <1>5, <2>1
      <3>2. i <= i
        <4>1. i \in Nat
          BY <1>6
        <4> QED BY <4>1
      <3>3. \A j \in DOMAIN as : as[j].name = n => j <= i
        BY <3>1, <3>2
      <3> QED BY <2>1, <3>1, <3>3
    <2>3. PICK x \in DOMAIN items : items[x].kind \in AliasKinds /\ as[i] = items[x]
      BY <1>3
    <2>4. Did(x, "alias")
      BY <2>3, AcceptedFacts DEF KindsOf, Passes
    <2>5. defs[items[x].name].target = Head(items[x].types)
      BY <1>2, <2>4 DEF Registry, Targets, Plain
    <2> QED BY <2>1, <2>2, <2>3, <2>5
  <1>9. AliasTable'
    <2>1. NextDef' = NextDef /\ defs' = defs
      BY <1>1, SameModule
    <2>2. {as[i].name : i \in DOMAIN as} = DOMAIN NextDef
      BY <1>7
    <2> HIDE DEF Last
    <2>3. typeAlias' = [n \in DOMAIN NextDef |-> defs[n].target]
      BY <1>1, <1>8, <2>2
    <2> QED BY <2>1, <2>3 DEF AliasTable
  <1>10. enumByName' = Empty /\ edefs' = <<>> /\ pass' = "done" /\ errors' = <<>>
    BY <1>1, SameModule DEF LInv
  <1> QED BY <1>1, <1>9, <1>10 DEF LInv

LEMMA StructsStep == Accepted /\ LInv /\ LowerStructs => LInv'
  <1> SUFFICES ASSUME Accepted, LInv, LowerStructs PROVE LInv'
    OBVIOUS
  <1> DEFINE ss == OfKind({"struct"})
             Last(n) == CHOOSE i \in DOMAIN ss :
                            ss[i].name = n /\ \A j \in DOMAIN ss : ss[j].name = n => j <= i
  <1>1. /\ lowering = "structs" /\ lowering' = "fields" /\ UNCHANGED vars
        /\ UNCHANGED <<typeAlias, enumByName, edefs>>
        /\ sdefs' = [i \in DOMAIN ss |-> [name |-> ss[i].name, fields |-> <<>>]]
        /\ structIndex' = [n \in {ss[i].name : i \in DOMAIN ss} |-> Last(n)]
    BY DEF LowerStructs
  <1>2. items \in Modules /\ Distinct
    BY AcceptedFacts
  <1>3. \A i \in DOMAIN ss : \E x \in DOMAIN items : items[x].kind = "struct" /\ ss[i] = items[x]
    BY <1>2, OfKindFacts
  <1>4. \A x \in DOMAIN items : items[x].kind = "struct" => \E i \in DOMAIN ss : ss[i] = items[x]
    BY <1>2, OfKindFacts
  <1>5. \A i, j \in DOMAIN ss : ss[i].name = ss[j].name => i = j
    BY <1>2, OfKindDistinct
  <1>6. \A i \in DOMAIN ss : i \in Nat
    BY <1>2, OfKindFacts
  <1>7. Structs = ss
    BY DEF Structs
  <1> HIDE DEF ss
  <1>8. \A n : n \in DOMAIN structs <=> \E i \in DOMAIN ss : ss[i].name = n
    <2>1. ASSUME NEW n \in DOMAIN structs PROVE \E i \in DOMAIN ss : ss[i].name = n
      <3>1. n \in Names
        BY AcceptedFacts DEF IInv, TypeOK, Tables
      <3>2. PICK x \in DOMAIN items : items[x].name = n /\ items[x].kind = "struct"
        BY <3>1, ByTable DEF Declares
      <3> QED BY <1>4, <3>2
    <2>2. ASSUME NEW i \in DOMAIN ss PROVE ss[i].name \in DOMAIN structs
      <3>1. PICK x \in DOMAIN items : items[x].kind = "struct" /\ ss[i] = items[x]
        BY <1>3
      <3>2. ss[i].name \in Names /\ Declares(ss[i].name, {"struct"})
        BY <1>2, <3>1, ItemAt DEF Declares
      <3> QED BY <3>2, ByTable
    <2> QED BY <2>1, <2>2
  <1>9. ASSUME NEW i \in DOMAIN ss PROVE Last(ss[i].name) = i
    <2>1. \A j \in DOMAIN ss : ss[j].name = ss[i].name => j = i
      BY <1>5
    <2>2. i <= i
      BY <1>6
    <2>3. \A j \in DOMAIN ss : ss[j].name = ss[i].name => j <= i
      BY <2>1, <2>2
    <2> QED BY <2>1, <2>3
  <1> HIDE DEF Last
  <1>10. structs' = structs /\ Structs' = Structs
    BY <1>1, SameModule
  <1>11. StructTable'
    <2>1. DOMAIN structIndex' = DOMAIN structs /\ DOMAIN sdefs' = DOMAIN ss
      BY <1>1, <1>8
    <2>2. \A i \in DOMAIN ss : /\ sdefs'[i].name = ss[i].name /\ ss[i].name \in DOMAIN structs
                               /\ structIndex'[ss[i].name] = i
      BY <1>1, <1>8, <1>9
    <2>3. \A n \in DOMAIN structs : \E i \in DOMAIN ss : ss[i].name = n
      BY <1>8
    <2> QED BY <1>10, <2>1, <2>2, <2>3 DEF StructTable
  <1>12. StructNames'
    BY <1>1, <1>7, <1>10 DEF StructNames
  <1>13. AliasTable' /\ enumByName' = Empty /\ edefs' = <<>> /\ pass' = "done" /\ errors' = <<>>
    BY <1>1, SameModule DEF LInv, AliasTable
  <1> QED BY <1>1, <1>11, <1>12, <1>13 DEF LInv

LEMMA FieldsStep == Accepted /\ LInv /\ LowerFields => LInv'
  <1> SUFFICES ASSUME Accepted, LInv, LowerFields PROVE LInv'
    OBVIOUS
  <1> DEFINE rows == [i \in DOMAIN Structs |-> MapTypes(Structs[i].types)]
  <1>1. /\ lowering = "fields" /\ lowering' = "enums" /\ UNCHANGED vars
        /\ UNCHANGED <<typeAlias, structIndex, enumByName, edefs>>
        /\ sdefs' = [i \in DOMAIN sdefs |-> [sdefs[i] EXCEPT !.fields = rows[i]]]
        /\ unknowns' = \E i \in DOMAIN rows : AnyBad(rows[i])
    BY DEF LowerFields, Structs
  <1>2. StructTable /\ StructNames /\ AliasTable /\ enumByName = Empty /\ edefs = <<>>
    BY <1>1 DEF LInv
  <1>3. \A i \in DOMAIN Structs : rows[i] = Row(Empty, Structs[i].types)
    BY <1>2 DEF MapTypes, MapType, Row
  <1>4. DOMAIN rows = DOMAIN Structs /\ DOMAIN sdefs' = DOMAIN Structs
    BY <1>1, <1>2 DEF StructNames
  <1> HIDE DEF rows
  <1>5. \A i \in DOMAIN Structs : sdefs'[i] = [name |-> Structs[i].name, fields |-> rows[i]]
    BY <1>1, <1>2 DEF StructNames
  <1>6. structs' = structs /\ Structs' = Structs /\ Enums' = Enums
    BY <1>1, SameModule
  <1>7. \A i \in DOMAIN Structs : sdefs'[i].fields = rows[i] /\ sdefs'[i].name = sdefs[i].name
    <2>1. \A i \in DOMAIN Structs : sdefs[i].name = Structs[i].name
      BY <1>2 DEF StructNames
    <2>2. ASSUME NEW s, NEW n, NEW r, s = [name |-> n, fields |-> r]
          PROVE  s.name = n /\ s.fields = r
      BY <2>2
    <2>3. \A i \in DOMAIN Structs : sdefs'[i].fields = rows[i] /\ sdefs'[i].name = Structs[i].name
      <3> SUFFICES ASSUME NEW i \in DOMAIN Structs
                   PROVE  sdefs'[i].fields = rows[i] /\ sdefs'[i].name = Structs[i].name
        OBVIOUS
      <3>1. sdefs'[i] = [name |-> Structs[i].name, fields |-> rows[i]]
        BY <1>5
      <3> QED BY <2>2, <3>1
    <2> QED BY <2>1, <2>3
  <1>8. StructNames'
    BY <1>4, <1>5, <1>6 DEF StructNames
  <1>9. StructTable'
    BY <1>1, <1>2, <1>4, <1>6, <1>7 DEF StructTable, StructNames
  <1>10. FieldRows'
    BY <1>1, <1>3, <1>6, <1>7, SameRows DEF FieldRows
  <1>11. unknowns' <=> BadField'
    <2>1. (\E i \in DOMAIN rows : AnyBad(rows[i]))
            <=> \E i \in DOMAIN sdefs' : AnyBad(sdefs'[i].fields)
      BY <1>4, <1>7
    <2>2. BadField' <=> \E i \in DOMAIN sdefs' : AnyBad(sdefs'[i].fields)
      BY DEF BadField, AnyBad
    <2> QED BY <1>1, <2>1, <2>2
  <1>12. EnumTable'
    <2>1. enumByName' = Empty /\ edefs' = <<>> /\ DOMAIN Empty = {}
      BY <1>1, <1>2 DEF Empty
    <2>2. \A x \in Enums : ~(Place({"enum"}, x) <= 0)
      <3>1. items \in Modules
        BY AcceptedFacts
      <3>2. \A x \in Enums : Place({"enum"}, x) \in 1..Place({"enum"}, Len(items))
                             /\ Place({"enum"}, Len(items)) \in Nat
        BY <3>1, PlaceUnique, OfKindFacts DEF Enums
      <3> QED BY <3>2
    <2>3. EnumsSoFar'
      <3>1. EnumCount' = 0
        BY <2>1, FS_EmptySet DEF EnumCount
      <3>2. \A x : Place({"enum"}, x)' = Place({"enum"}, x)
        BY <1>1, SameModule
      <3> QED BY <1>6, <2>1, <2>2, <3>1, <3>2 DEF EnumsSoFar
    <2>4. EnumRows' /\ EnumNumbers' /\ edefs' \in Seq(Names)
      BY <2>1 DEF EnumRows, EnumNumbers
    <2> QED BY <2>3, <2>4 DEF EnumTable
  <1>13. AliasTable' /\ pass' = "done" /\ errors' = <<>>
    BY <1>1, SameModule DEF LInv, AliasTable
  <1> QED BY <1>1, <1>8, <1>9, <1>10, <1>11, <1>12, <1>13 DEF LInv

(* The enum at a place is new, and comes after those in the table.         *)
LEMMA NextEnum ==
    ASSUME Accepted, EnumsSoFar, EnumCount + 1 <= Len(OfKind({"enum"}))
    PROVE  \E i \in Enums :
              /\ OfKind({"enum"})[EnumCount + 1] = items[i] /\ Place({"enum"}, i) = EnumCount + 1
              /\ items[i].name \in Names \ DOMAIN enumByName
              /\ \A x \in Enums : Place({"enum"}, x) <= EnumCount + 1
                                    <=> Place({"enum"}, x) <= EnumCount \/ x = i
              /\ \A x \in Enums : items[x].name = items[i].name => x = i
              /\ \A h \in Enums : h < i => items[h].name \in DOMAIN enumByName
              /\ DOMAIN enumByName \in SUBSET Names /\ EnumCount \in Nat
  <1> DEFINE E == {"enum"}
  <1>1. items \in Modules /\ Distinct
    BY AcceptedFacts
  <1>2. \A x \in Enums : x \in DOMAIN items /\ items[x].kind \in E /\ items[x].name \in Names
    BY <1>1, ItemAt DEF Enums
  <1>3. DOMAIN enumByName \in SUBSET Names
    BY <1>2 DEF EnumsSoFar
  <1>4. EnumCount \in Nat
    BY <1>3, PartOfNames DEF EnumCount
  <1>5. EnumCount + 1 \in DOMAIN OfKind(E)
    BY <1>1, <1>4, OfKindFacts
  <1>6. PICK i \in DOMAIN items : /\ items[i].kind \in E /\ Place(E, i) = EnumCount + 1
                                  /\ OfKind(E)[EnumCount + 1] = items[i]
    BY <1>1, <1>5, OfKindFacts
  <1>7. i \in Enums
    BY <1>6 DEF Enums
  <1>8. \A x \in Enums : Place(E, x) \in 1..Place(E, Len(items)) /\ Place(E, Len(items)) \in Nat
    BY <1>1, <1>2, PlaceUnique, OfKindFacts
  <1>9. \A x \in Enums : /\ Place(E, x) = EnumCount + 1 => x = i
                         /\ x < i => Place(E, x) < EnumCount + 1
    BY <1>1, <1>2, <1>6, PlaceUnique
  <1>10. \A x \in Enums : Place(E, x) <= EnumCount + 1 <=> Place(E, x) <= EnumCount \/ x = i
    BY <1>4, <1>6, <1>8, <1>9
  <1>11. \A x \in Enums : items[x].name = items[i].name => x = i
    BY <1>1, <1>2, <1>6 DEF Distinct
  <1>12. \A h \in Enums : h < i => items[h].name \in DOMAIN enumByName
    <2>1. \A h \in Enums : h < i => Place(E, h) <= EnumCount
      BY <1>4, <1>8, <1>9
    <2> QED BY <2>1 DEF EnumsSoFar
  <1>13. items[i].name \notin DOMAIN enumByName
    <2> SUFFICES ASSUME items[i].name \in DOMAIN enumByName PROVE FALSE
      OBVIOUS
    <2>1. PICK x \in Enums : Place(E, x) <= EnumCount /\ items[x].name = items[i].name
      BY DEF EnumsSoFar
    <2>2. x = i
      BY <1>11, <2>1
    <2> QED BY <1>4, <1>6, <2>1, <2>2
  <1> QED BY <1>2, <1>3, <1>4, <1>6, <1>7, <1>10, <1>11, <1>12, <1>13

LEMMA EnumAdded ==
    ASSUME Accepted, LInv, LowerEnum, EnumCount + 1 <= Len(OfKind({"enum"}))
    PROVE  LInv'
  <1>1. /\ lowering = "enums" /\ lowering' = lowering /\ UNCHANGED vars
        /\ UNCHANGED <<typeAlias, structIndex, sdefs>>
    <2>1. EnumCount \in Nat
      BY NextEnum DEF LInv, LowerEnum, EnumTable
    <2>2. Len(OfKind({"enum"})) \in Nat
      BY AcceptedFacts, OfKindFacts
    <2>3. ~(Cardinality(DOMAIN enumByName) + 1 > Len(OfKind({"enum"})))
      BY <2>1, <2>2 DEF EnumCount
    <2> QED BY <2>3 DEF LowerEnum
  <1>2. Tabled /\ EnumTable /\ StructNames /\ FieldRows /\ (unknowns <=> BadField)
        /\ Numbered(enumByName)
    BY <1>1, EnumsNumbered DEF LInv, Tabled
  <1>3. PICK i \in Enums :
              /\ OfKind({"enum"})[EnumCount + 1] = items[i] /\ Place({"enum"}, i) = EnumCount + 1
              /\ items[i].name \in Names \ DOMAIN enumByName
              /\ \A x \in Enums : Place({"enum"}, x) <= EnumCount + 1
                                    <=> Place({"enum"}, x) <= EnumCount \/ x = i
              /\ \A x \in Enums : items[x].name = items[i].name => x = i
              /\ \A h \in Enums : h < i => items[h].name \in DOMAIN enumByName
              /\ DOMAIN enumByName \in SUBSET Names /\ EnumCount \in Nat
    BY <1>2, NextEnum DEF EnumTable
  <1> DEFINE nm == items[i].name
             payloads == Row(enumByName, items[i].types)
             entry == [repr |-> EnumRepr(payloads), payloads |-> payloads]
  <1>4. /\ enumByName' = With(enumByName, nm, entry)
        /\ edefs' = IF payloads = <<>> THEN edefs ELSE Append(edefs, nm)
        /\ unknowns' = (unknowns \/ AnyBad(payloads))
    <2>1. MapTypes(items[i].types) = payloads
      BY DEF MapTypes, MapType, Row
    <2>2. ~(EnumCount + 1 > Len(OfKind({"enum"})))
      <3>1. Len(OfKind({"enum"})) \in Nat
        BY AcceptedFacts, OfKindFacts
      <3> QED BY <1>3, <3>1
    <2> HIDE DEF payloads
    <2> QED BY <1>3, <2>1, <2>2 DEF LowerEnum, EnumCount
  <1>5. entry.payloads = payloads /\ entry.repr = EnumRepr(payloads)
    OBVIOUS
  <1>6. ~AnyBad(payloads)
    <2>1. \A k \in DOMAIN items[i].types : ~Mapped(enumByName, items[i].types[k]).bad
      BY <1>2, <1>3, PayloadsNeverBad
    <2> QED BY <2>1 DEF AnyBad, Row
  <1> HIDE DEF payloads, entry
  <1>7. /\ DOMAIN enumByName' = DOMAIN enumByName \cup {nm} /\ enumByName'[nm] = entry
        /\ \A n \in DOMAIN enumByName : enumByName'[n] = enumByName[n] /\ n # nm
    BY <1>3, <1>4 DEF With
  <1>8. Enums' = Enums /\ UNCHANGED <<items, structs>> /\ Structs' = Structs
        /\ \A x : Place({"enum"}, x)' = Place({"enum"}, x)
    BY <1>1, SameModule
  <1>9. EnumsSoFar'
    <2>1. EnumCount' = EnumCount + 1
      BY <1>3, <1>7, PartOfNames DEF EnumCount
    <2>2. DOMAIN enumByName \cup {nm} =
              {items[x].name : x \in {y \in Enums : Place({"enum"}, y) <= EnumCount + 1}}
      BY <1>2, <1>3 DEF EnumTable, EnumsSoFar
    <2> QED BY <1>7, <1>8, <2>1, <2>2 DEF EnumsSoFar
  <1>10. EnumRows'
    <2>1. \A R, types : Row(R, types)' = Row(R, types)
      BY <1>1, SameRows
    <2> SUFFICES ASSUME NEW x \in Enums, items[x].name \in DOMAIN enumByName'
                 PROVE  EnumRow(x, enumByName')
      <3>1. \A x : EnumRow(x, enumByName)' <=> EnumRow(x, enumByName')
        BY <1>8, <2>1 DEF EnumRow, PartOf
      <3> QED BY <1>8, <3>1 DEF EnumRows
    <2>2. CASE items[x].name = nm
      <3>1. x = i
        BY <1>3, <2>2
      <3>2. PartOf(enumByName, enumByName')
        BY <1>7 DEF PartOf
      <3>3. enumByName'[items[i].name].payloads = Row(enumByName, items[i].types)
        BY <1>5, <1>7 DEF payloads
      <3> QED BY <1>3, <3>1, <3>2, <3>3 DEF EnumRow
    <2>3. CASE items[x].name # nm
      <3>1. items[x].name \in DOMAIN enumByName
        BY <1>7, <2>3
      <3>2. EnumRow(x, enumByName)
        BY <1>2, <3>1 DEF EnumTable, EnumRows
      <3>3. \A Q : PartOf(Q, enumByName) => PartOf(Q, enumByName')
        BY <1>7 DEF PartOf
      <3> QED BY <1>7, <3>1, <3>2, <3>3 DEF EnumRow
    <2> QED BY <2>2, <2>3
  <1>11. EnumNumbers' /\ edefs' \in Seq(Names)
    <2>1. edefs \in Seq(Names) /\ EnumNumbers
      BY <1>2 DEF EnumTable
    <2>2. CASE payloads = <<>>
      <3>1. edefs' = edefs /\ enumByName'[nm].payloads = <<>>
            /\ enumByName'[nm].repr = MType("tag", 0)
        BY <1>4, <1>5, <1>7, <2>2 DEF EnumRepr
      <3> QED BY <1>7, <2>1, <3>1 DEF EnumNumbers
    <2>3. CASE payloads # <<>>
      <3>1. edefs' = Append(edefs, nm) /\ nm \in Names
        BY <1>3, <1>4, <2>3
      <3>2. /\ edefs' \in Seq(Names) /\ DOMAIN edefs' = DOMAIN edefs \cup {Len(edefs) + 1}
            /\ \A x \in DOMAIN edefs : edefs'[x] = edefs[x]
            /\ edefs'[Len(edefs) + 1] = nm
        BY <2>1, <3>1
      <3>3. enumByName'[nm].payloads # <<>> /\ enumByName'[nm].repr = MType("enum", Len(edefs) + 1)
        BY <1>5, <1>7, <2>3 DEF EnumRepr
      <3>4. ASSUME NEW x \in DOMAIN edefs'
            PROVE  edefs'[x] \in DOMAIN enumByName' /\ enumByName'[edefs'[x]].repr = MType("enum", x)
        BY <1>7, <2>1, <3>2, <3>3 DEF EnumNumbers
      <3>5. ASSUME NEW n \in DOMAIN enumByName'
            PROVE  IF enumByName'[n].payloads = <<>> THEN enumByName'[n].repr = MType("tag", 0)
                                                     ELSE \E x \in DOMAIN edefs' : edefs'[x] = n
        BY <1>7, <2>1, <3>2, <3>3 DEF EnumNumbers
      <3> QED BY <3>2, <3>4, <3>5 DEF EnumNumbers
    <2> QED BY <2>2, <2>3
  <1>12. StructTable' /\ StructNames'
    BY <1>1, <1>2, <1>8 DEF Tabled, StructTable, StructNames
  <1>13. FieldRows'
    BY <1>1, <1>2, <1>8, SameRows DEF FieldRows
  <1>14. unknowns' <=> BadField'
    <2>1. BadField' <=> BadField
      BY <1>1 DEF BadField, AnyBad
    <2> QED BY <1>2, <1>4, <1>6, <2>1
  <1>15. AliasTable' /\ pass' = "done" /\ errors' = <<>>
    BY <1>1, SameModule DEF LInv, AliasTable
  <1> QED BY <1>1, <1>9, <1>10, <1>11, <1>12, <1>13, <1>14, <1>15 DEF LInv, EnumTable

(* What LInv says depends on nothing else.                                 *)
LEMMA SameTables ==
    ASSUME LInv, UNCHANGED vars, UNCHANGED <<typeAlias, structIndex, sdefs, enumByName, edefs>>
    PROVE  /\ AliasTable => AliasTable'
           /\ StructTable => StructTable'
           /\ StructNames => StructNames'
           /\ FieldRows => FieldRows'
           /\ EnumTable => EnumTable'
           /\ BadField' <=> BadField
  <1>1. /\ UNCHANGED <<items, defs, structs>> /\ NextDef' = NextDef /\ Structs' = Structs
        /\ Enums' = Enums /\ \A x : Place({"enum"}, x)' = Place({"enum"}, x)
        /\ \A R, types : Row(R, types)' = Row(R, types)
    BY SameModule, SameRows
  <1>2. AliasTable => AliasTable'
    BY <1>1 DEF AliasTable
  <1>3. (StructTable => StructTable') /\ (StructNames => StructNames') /\ (BadField' <=> BadField)
    BY <1>1 DEF StructTable, StructNames, BadField, AnyBad
  <1>4. FieldRows => FieldRows'
    BY <1>1 DEF FieldRows
  <1>5. EnumTable => EnumTable'
    <2>1. EnumsSoFar => EnumsSoFar'
      BY <1>1 DEF EnumsSoFar, EnumCount, Place
    <2>2. EnumRows => EnumRows'
      <3>1. \A x : EnumRow(x, enumByName)' <=> EnumRow(x, enumByName)
        BY <1>1 DEF EnumRow, PartOf
      <3> QED BY <1>1, <3>1 DEF EnumRows
    <2>3. EnumNumbers => EnumNumbers'
      BY DEF EnumNumbers
    <2> QED BY <2>1, <2>2, <2>3 DEF EnumTable
  <1> QED BY <1>2, <1>3, <1>4, <1>5

LEMMA EnumStep == Accepted /\ LInv /\ LowerEnum => LInv'
  <1> SUFFICES ASSUME Accepted, LInv, LowerEnum PROVE LInv'
    OBVIOUS
  <1>1. CASE EnumCount + 1 <= Len(OfKind({"enum"}))
    BY <1>1, EnumAdded
  <1>2. CASE ~(EnumCount + 1 <= Len(OfKind({"enum"})))
    <2>1. lowering = "enums" /\ UNCHANGED vars /\ UNCHANGED <<typeAlias, structIndex, sdefs>>
      BY DEF LowerEnum
    <2>2. /\ EnumTable /\ StructTable /\ StructNames /\ FieldRows /\ AliasTable
          /\ (unknowns <=> BadField) /\ pass = "done" /\ errors = <<>>
      BY <2>1 DEF LInv
    <2>3. items \in Modules
      BY AcceptedFacts
    <2>4. \A x \in Enums : x \in DOMAIN items /\ items[x].kind = "enum" /\ items[x].name \in Names
      BY <2>3, ItemAt DEF Enums
    <2>5. EnumCount \in Nat /\ Len(OfKind({"enum"})) \in Nat
      <3>1. DOMAIN enumByName \in SUBSET Names
        BY <2>2, <2>4 DEF EnumTable, EnumsSoFar
      <3>2. EnumCount \in Nat
        BY <3>1, PartOfNames DEF EnumCount
      <3> QED BY <2>3, <3>2, OfKindFacts
    <2>6. EnumCount + 1 > Len(OfKind({"enum"}))
      BY <1>2, <2>5
    <2>7. lowering' = "funcs" /\ UNCHANGED <<enumByName, edefs, unknowns>>
      BY <2>6 DEF LowerEnum, EnumCount
    <2>8. DOMAIN enumByName = DOMAIN enums
      <3>1. \A x \in Enums : Place({"enum"}, x) <= EnumCount
        <4>1. \A x \in Enums : Place({"enum"}, x) \in 1..Len(OfKind({"enum"}))
          BY <2>3, <2>4, PlaceUnique, OfKindFacts
        <4> QED BY <2>5, <2>6, <4>1
      <3>2. DOMAIN enumByName = {items[x].name : x \in Enums}
        BY <2>2, <3>1 DEF EnumTable, EnumsSoFar
      <3>3. DOMAIN enums \in SUBSET Names
        BY AcceptedFacts DEF IInv, TypeOK, Tables
      <3>4. \A n \in Names : n \in DOMAIN enums <=> \E x \in Enums : items[x].name = n
        BY ByTable DEF Declares, Enums
      <3> QED BY <2>4, <3>2, <3>3, <3>4
    <2>9. /\ AliasTable' /\ StructTable' /\ StructNames' /\ FieldRows' /\ EnumTable'
          /\ (unknowns' <=> BadField')
      BY <2>1, <2>2, <2>7, SameTables
    <2>10. DOMAIN enumByName' = DOMAIN enums' /\ pass' = "done" /\ errors' = <<>>
      BY <2>1, <2>2, <2>7, <2>8, SameModule
    <2> QED BY <2>7, <2>9, <2>10 DEF LInv
  <1> QED BY <1>1, <1>2

LEMMA FuncsStep == Accepted /\ LInv /\ LowerFuncs => LInv'
  <1> SUFFICES ASSUME Accepted, LInv, LowerFuncs PROVE LInv'
    OBVIOUS
  <1> DEFINE fs == OfKind({"func"})
  <1>1. /\ lowering = "funcs" /\ lowering' = "lowered" /\ UNCHANGED vars
        /\ UNCHANGED <<typeAlias, structIndex, sdefs, enumByName, edefs>>
        /\ sigs' = [i \in DOMAIN fs |-> MapTypes(fs[i].types)]
        /\ unknowns' = (unknowns \/ \E i \in DOMAIN fs : AnyBad(MapTypes(fs[i].types)))
    BY DEF LowerFuncs
  <1>2. /\ EnumTable /\ StructTable /\ StructNames /\ FieldRows /\ AliasTable
        /\ (unknowns <=> BadField) /\ pass = "done" /\ errors = <<>>
        /\ DOMAIN enumByName = DOMAIN enums
    BY <1>1 DEF LInv
  <1>3. Tabled /\ Numbered(enumByName) /\ items \in Modules
    BY <1>2, EnumsNumbered, AcceptedFacts DEF Tabled
  <1>4. \A types : MapTypes(types) = Row(enumByName, types)
    BY DEF MapTypes, MapType, Row
  <1>5. \A i \in DOMAIN fs : ~AnyBad(MapTypes(fs[i].types))
    <2> SUFFICES ASSUME NEW i \in DOMAIN fs PROVE ~AnyBad(Row(enumByName, fs[i].types))
      BY <1>4
    <2>1. PICK x \in DOMAIN items : items[x].kind = "func" /\ fs[i] = items[x]
      BY <1>3, OfKindFacts
    <2>2. \A k \in DOMAIN items[x].types : ~Mapped(enumByName, items[x].types[k]).bad
      BY <1>2, <1>3, <2>1, SignaturesNeverBad
    <2> QED BY <2>1, <2>2 DEF AnyBad, Row
  <1>6. Signatures'
    <2>1. fs' = fs
      BY <1>1, SameModule
    <2>2. \A R, types : Row(R, types)' = Row(R, types)
      BY <1>1, SameRows
    <2>3. DOMAIN sigs' = DOMAIN fs /\ \A i \in DOMAIN fs : sigs'[i] = Row(enumByName, fs[i].types)
      BY <1>1, <1>4
    <2> HIDE DEF fs
    <2>4. Signatures' <=> /\ DOMAIN sigs' = DOMAIN fs'
                          /\ \A i \in DOMAIN sigs' : sigs'[i] = Row(enumByName, fs[i].types)'
      BY <1>1, <2>1 DEF Signatures, fs
    <2> QED BY <1>1, <2>1, <2>2, <2>3, <2>4
  <1>7. /\ AliasTable' /\ StructTable' /\ StructNames' /\ FieldRows' /\ EnumTable'
        /\ (unknowns' <=> BadField')
    <2>1. unknowns' <=> unknowns
      BY <1>1, <1>5
    <2> QED BY <1>1, <1>2, <2>1, SameTables
  <1>8. DOMAIN enumByName' = DOMAIN enums' /\ pass' = "done" /\ errors' = <<>>
    BY <1>1, <1>2, SameModule
  <1> QED BY <1>1, <1>6, <1>7, <1>8 DEF LInv

(* When the passes are over, check_module does nothing more.               *)
LEMMA DoneStops ==
    ASSUME Calling, pass = "done", Next PROVE FALSE
  <1>1. Idle
    BY DEF Calling, Visiting
  <1>2. ~Skip /\ ~NextPass /\ ~Ask
    BY DEF Skip, NextPass, Ask
  <1>3. \A p \in Passes \ {"done"} : ~Visits(p)
    BY DEF Visits
  <1>4. /\ ~RegisterAlias /\ ~DuplicateEnum /\ ~RegisterEnum /\ ~DuplicateStruct /\ ~RegisterStruct
        /\ ~ResolveFields /\ ~Forced /\ ~RegisterFunc
    BY <1>3 DEF Passes, RegisterAlias, DuplicateEnum, RegisterEnum, DuplicateStruct, RegisterStruct,
                ResolveFields, Forced, RegisterFunc, Duplicate
  <1>5. /\ ~ResolveKnown /\ ~ResolveUnknown /\ ~ResolveDone /\ ~ResolveCycle /\ ~ResolveTarget
        /\ ~Return /\ ~Deliver
    BY <1>1 DEF Idle, ResolveKnown, ResolveUnknown, ResolveDone, ResolveCycle, ResolveTarget, Return,
                Deliver, InState
  <1> QED BY <1>2, <1>4, <1>5 DEF Next

(* The two halves of a compilation: the checker's tables, then the         *)
(* lowerer's.                                                              *)
Checked == TInv /\ CInv /\ KnownInv

LEMMA FirstFull == FullInit => Checked /\ LInv
  <1> SUFFICES ASSUME FullInit PROVE Checked /\ LInv
    OBVIOUS
  <1>1. Checked
    BY FirstTables, FirstCycles, FirstKnown DEF FullInit, Checked
  <1>2. LInv
    BY DEF FullInit, LowerInit, LInv
  <1> QED BY <1>1, <1>2

LEMMA FullInductive == Checked /\ LInv /\ [FullNext]_allVars => Checked' /\ LInv'
  <1> SUFFICES ASSUME Checked, LInv, [FullNext]_allVars PROVE Checked' /\ LInv'
    OBVIOUS
  <1>1. CASE Next /\ UNCHANGED lowerVars
    <2>1. Checked'
      BY <1>1, TablesInductive, CyclesInductive, KnownInductive DEF Checked
    <2>2. lowering = ""
      BY <1>1, DoneStops DEF LInv, Checked, TInv
    <2>3. LInv'
      BY <1>1, <2>2 DEF LInv, lowerVars
    <2> QED BY <2>1, <2>3
  <1>2. ASSUME UNCHANGED vars PROVE Checked'
    BY <1>2, TablesInductive, CyclesInductive, KnownInductive DEF Checked
  <1>3. CASE LowerAliases \/ LowerStructs \/ LowerFields \/ LowerEnum \/ LowerFuncs
    <2>1. UNCHANGED vars
      BY <1>3 DEF LowerAliases, LowerStructs, LowerFields, LowerEnum, LowerFuncs
    <2>2. Accepted
      <3>1. pass = "done" /\ errors = <<>>
        BY <1>3 DEF LowerAliases, LowerStructs, LowerFields, LowerEnum, LowerFuncs, LInv
      <3> QED BY <3>1 DEF Accepted, Checked
    <2> QED BY <1>2, <1>3, <2>1, <2>2, AliasesStep, StructsStep, FieldsStep, EnumStep, FuncsStep
  <1>4. CASE UNCHANGED allVars
    <2>1. UNCHANGED vars /\ UNCHANGED lowerVars
      BY <1>4 DEF allVars
    <2>2. UNCHANGED <<lowering, typeAlias, structIndex, sdefs, enumByName, edefs, sigs, unknowns>>
      BY <2>1 DEF lowerVars
    <2>3. /\ AliasTable => AliasTable'
          /\ StructTable => StructTable'
          /\ StructNames => StructNames'
          /\ FieldRows => FieldRows'
          /\ EnumTable => EnumTable'
          /\ BadField' <=> BadField
      BY <2>1, <2>2, SameTables
    <2>4. UNCHANGED <<pass, errors, enums>> /\ OfKind({"func"})' = OfKind({"func"})
          /\ \A R, types : Row(R, types)' = Row(R, types)
      BY <2>1, <2>2, SameModule, SameRows
    <2>5. Signatures => Signatures'
      BY <2>2, <2>4 DEF Signatures
    <2>6. LInv'
      BY <2>2, <2>3, <2>4, <2>5 DEF LInv
    <2> QED BY <1>2, <2>1, <2>6
  <1> QED BY <1>1, <1>3, <1>4 DEF FullNext

(* lower.cc:180, types.cc:212: map_type gives every field, payload,        *)
(* parameter and result of a module that check_module accepted the         *)
(* representation of the type that resolve_type gave it, and it refuses a  *)
(* module exactly when a struct field holds an enum - for every module, of *)
(* any number of items, whatever order they come in.                       *)
THEOREM TypesLoweredAlike == FullSpec => []RepresentationsAgree
  <1>1. Checked /\ LInv => RepresentationsAgree
    <2> SUFFICES ASSUME Checked, LInv, lowering = "lowered" PROVE RepresentationsAgree
      BY DEF RepresentationsAgree
    <2>1. Accepted
      BY DEF LInv, Checked, Accepted
    <2> QED BY <2>1, TablesAgree
  <1> QED BY <1>1, FirstFull, FullInductive, PTL DEF FullSpec
=============================================================================
