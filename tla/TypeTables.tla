------------------------------ MODULE TypeTables ------------------------------
(***************************************************************************)
(* The tables of types that check_module (front/types.cc) builds before it *)
(* checks bodies: the passes over the items of a module, and the lazy      *)
(* resolution of aliases and newtypes, which recurses from whatever        *)
(* position first names one. The recursion is an explicit stack: a frame   *)
(* is an active call of resolve_aliasdef.                                  *)
(*                                                                         *)
(* A type expression is a name, plain or under one `*` or `ref`; a field,  *)
(* a payload and a parameter are each one type expression of the item. The *)
(* last type of a function is its result. No declaration takes a builtin's *)
(* name.                                                                   *)
(***************************************************************************)
EXTENDS Naturals, Sequences, FiniteSets

CONSTANTS Names,       \* names a module may declare or mention
          Builtins,    \* those that name a builtin type
          Modules,     \* the modules considered, sequences of items
          NoName

AliasKinds == {"alias", "newtype"}
Forms      == {"plain", "ptr", "ref"}
TypeExprs  == [form : Forms, name : Names]
Items      == [kind : AliasKinds \cup {"struct", "enum", "func"},
               name : Names, types : Seq(TypeExprs)]

ASSUME TableAssumption ==
    /\ IsFiniteSet(Names)
    /\ Builtins \subseteq Names
    /\ NoName \notin Names
    /\ Modules \subseteq Seq(Items)
    /\ \A m \in Modules : \A i \in DOMAIN m :
          /\ m[i].kind # "func" => m[i].name \notin Builtins
          /\ m[i].kind \in AliasKinds \cup {"func"} => m[i].types # <<>>

(* A resolved type: the pointers and references around a base.             *)
BaseKinds == {"builtin", "struct", "enum", "newtype", "error"}
Type(kind, name) == [layers |-> <<>>, kind |-> kind, name |-> name]
Error    == Type("error", NoName)
Null     == Type("null", NoName)
Under(form, t) == IF form = "plain" THEN t ELSE [t EXCEPT !.layers = <<form>> \o @]
IsRef(t) == t.layers # <<>> /\ Head(t.layers) = "ref"

(* AliasDef: state 0, 1 and 2; "absent" when the name is not in type_defs. *)
Absent == [state |-> "absent", newtype |-> FALSE, target |-> [form |-> "plain", name |-> NoName],
           resolved |-> Null]

VARIABLES items,       \* the module
          pass, at,    \* the pass of check_module, the item it is at
          row,         \* types of that item resolved so far
          defs,        \* type_defs
          structs,     \* name -> field types
          enums,       \* name -> payload types
          funcs,       \* name -> parameter and result types
          want,        \* the type expression being resolved, if any
          answer,      \* its type, if known
          stack,       \* active calls of resolve_aliasdef
          errors       \* diagnostics

tables == <<defs, structs, enums, funcs>>
calls  == <<want, answer, stack>>
vars   == <<items, pass, at, row, tables, calls, errors>>

Nothing == [form |-> "none", name |-> NoName]
Empty   == [n \in {} |-> <<>>]
Item    == items[at]
With(f, n, v) == [x \in DOMAIN f \cup {n} |-> IF x = n THEN v ELSE f[x]]
Report(what, n) == Append(errors, [what |-> what, name |-> n])

Init ==
    /\ items \in Modules
    /\ pass = "alias" /\ at = 1 /\ row = <<>>
    /\ defs = [n \in Names |-> Absent]
    /\ structs = Empty /\ enums = Empty /\ funcs = Empty
    /\ want = Nothing /\ answer = Null /\ stack = <<>>
    /\ errors = <<>>

Idle == want = Nothing /\ answer = Null /\ stack = <<>>

(* The passes, in order, and the items each looks at.                      *)
After == [alias |-> "enum", enum |-> "struct", struct |-> "field",
          field |-> "force", force |-> "sig", sig |-> "done"]
Passes == {"alias", "enum", "struct", "field", "force", "sig", "done"}
KindsOf(p) == CASE p \in {"alias", "force"}  -> AliasKinds
                [] p = "enum"                -> {"enum"}
                [] p \in {"struct", "field"} -> {"struct"}
                [] OTHER                     -> {"func"}
Visits(p) == pass = p /\ Idle /\ at <= Len(items) /\ Item.kind \in KindsOf(p)

NextItem == at' = at + 1 /\ row' = <<>> /\ UNCHANGED <<items, pass, calls>>

Skip ==
    /\ pass # "done" /\ Idle /\ at <= Len(items)
    /\ Item.kind \notin KindsOf(pass)
    /\ NextItem /\ UNCHANGED <<tables, errors>>

NextPass ==
    /\ pass # "done" /\ at > Len(items)
    /\ pass' = After[pass] /\ at' = 1
    /\ UNCHANGED <<items, row, tables, calls, errors>>

-----------------------------------------------------------------------------
(* Pass 0: the names of aliases and newtypes; the first declaration wins.  *)
RegisterAlias ==
    /\ Visits("alias")
    /\ NextItem /\ UNCHANGED <<structs, enums, funcs>>
    /\ IF defs[Item.name] # Absent
       THEN errors' = Report("duplicate", Item.name) /\ UNCHANGED defs
       ELSE /\ defs' = [defs EXCEPT ![Item.name] =
                 [state |-> "unresolved", newtype |-> Item.kind = "newtype",
                  target |-> Head(Item.types), resolved |-> Null]]
            /\ UNCHANGED errors

Taken(n) == n \in DOMAIN enums \/ n \in DOMAIN structs \/ defs[n] # Absent

Duplicate(p) ==
    /\ Visits(p) /\ row = <<>> /\ Taken(Item.name)
    /\ errors' = Report("duplicate", Item.name)
    /\ NextItem /\ UNCHANGED tables

(* Enums: payloads are resolved before the name is in the table.           *)
DuplicateEnum == Duplicate("enum")
RegisterEnum_Unresolved ==
    /\ Visits("enum") /\ ~Taken(Item.name)
    /\ enums' = With(enums, Item.name, [k \in DOMAIN Item.types |-> Null])
    /\ NextItem /\ UNCHANGED <<defs, structs, funcs, errors>>
RegisterEnum ==
    /\ Visits("enum") /\ Len(row) = Len(Item.types) /\ ~Taken(Item.name)
    /\ enums' = With(enums, Item.name, row)
    /\ NextItem /\ UNCHANGED <<defs, structs, funcs, errors>>

(* Pass 0a: the names of structs, fields unresolved.                       *)
DuplicateStruct == Duplicate("struct")
RegisterStruct ==
    /\ Visits("struct") /\ ~Taken(Item.name)
    /\ structs' = With(structs, Item.name, [k \in DOMAIN Item.types |-> Null])
    /\ NextItem /\ UNCHANGED <<defs, enums, funcs, errors>>

(* Pass 0b: fields go to the struct registered under the name, whichever   *)
(* declaration that was. A duplicate with more fields than the first       *)
(* writes past its array; what lies there is not modelled.                 *)
SetFields(old, new) == [k \in DOMAIN old |-> IF k \in DOMAIN new THEN new[k] ELSE old[k]]
ResolveFields ==
    /\ Visits("field")
    /\ Item.name \in DOMAIN structs => Len(row) = Len(Item.types)
    /\ structs' = IF Item.name \in DOMAIN structs
                  THEN [structs EXCEPT ![Item.name] = SetFields(@, row)] ELSE structs
    /\ NextItem /\ UNCHANGED <<defs, enums, funcs, errors>>

Forced ==
    /\ Visits("force") /\ Len(row) = 1
    /\ NextItem /\ UNCHANGED <<tables, errors>>

(* Pass 1: signatures; a duplicate is reported (in the code before its      *)
(* types are resolved) and replaces the first.                             *)
RegisterFunc ==
    /\ Visits("sig") /\ Len(row) = Len(Item.types)
    /\ errors' = (IF Item.name \in DOMAIN funcs THEN Report("duplicate", Item.name) ELSE errors)
                 \o (IF IsRef(row[Len(row)])
                     THEN <<[what |-> "ref returned", name |-> Item.name]>> ELSE <<>>)
    /\ funcs' = With(funcs, Item.name, row)
    /\ NextItem /\ UNCHANGED <<defs, structs, enums>>

-----------------------------------------------------------------------------
(* The next type of the item, in the passes that resolve types. Forcing    *)
(* calls resolve_aliasdef on the name the item declares.                   *)
Asks(p) ==
    CASE p = "enum"  -> ~Taken(Item.name) /\ Len(row) < Len(Item.types)
      [] p = "field" -> Item.name \in DOMAIN structs /\ Len(row) < Len(Item.types)
      [] p = "force" -> row = <<>>
      [] p = "sig"   -> Len(row) < Len(Item.types)
      [] OTHER       -> FALSE

Ask ==
    /\ pass # "done" /\ Visits(pass) /\ Asks(pass)
    /\ want' = IF pass = "force" THEN [form |-> "plain", name |-> Item.name]
               ELSE Item.types[Len(row) + 1]
    /\ UNCHANGED <<items, pass, at, row, tables, answer, stack, errors>>

Answer(t) == answer' = Under(want.form, t) /\ want' = Nothing

(* resolve_type: a builtin, a struct, an enum.                             *)
Registered(n) == n \in Builtins \cup DOMAIN structs \cup DOMAIN enums
KindOf(n) == CASE n \in Builtins       -> "builtin"
               [] n \in DOMAIN structs -> "struct"
               [] OTHER                -> "enum"
ResolveKnown ==
    /\ want # Nothing /\ Registered(want.name)
    /\ Answer(Type(KindOf(want.name), want.name))
    /\ UNCHANGED <<items, pass, at, row, tables, stack, errors>>

ResolveUnknown ==
    /\ want # Nothing /\ ~Registered(want.name) /\ defs[want.name] = Absent
    /\ Answer(Error)
    /\ errors' = Report("unknown", want.name)
    /\ UNCHANGED <<items, pass, at, row, tables, stack>>

(* resolve_aliasdef: resolved already, ...                                 *)
InState(s) == want # Nothing /\ ~Registered(want.name) /\ defs[want.name].state = s
Marked(d, state, t) == [state |-> state, newtype |-> d.newtype, target |-> d.target, resolved |-> t]
TypeOfDef_Transparent(n, t) == t   \* the nominal identity is lost
TypeOfDef(n, t) == IF defs[n].newtype THEN Type("newtype", n) ELSE t
ResolveDone ==
    /\ InState("done")
    /\ Answer(TypeOfDef(want.name, defs[want.name].resolved))
    /\ UNCHANGED <<items, pass, at, row, tables, stack, errors>>

(* ... being resolved: a cycle, reported and cached as an error, ...       *)
ResolveCycle ==
    /\ InState("in_progress")
    /\ Answer(Error)
    /\ errors' = Report("cycle", want.name)
    /\ defs' = [defs EXCEPT ![want.name] = Marked(@, "done", Error)]
    /\ UNCHANGED <<items, pass, at, row, structs, enums, funcs, stack>>

(* State 1 is never set; state 2 is set at once; state 2 is not looked at.  *)
ResolveTarget_Unmarked ==
    /\ InState("unresolved")
    /\ stack' = Append(stack, [def |-> want.name, form |-> want.form])
    /\ want' = defs[want.name].target
    /\ UNCHANGED <<items, pass, at, row, tables, answer, errors>>
ResolveTarget_MarksDone ==
    /\ InState("unresolved")
    /\ defs' = [defs EXCEPT ![want.name] = Marked(@, "done", @.resolved)]
    /\ stack' = Append(stack, [def |-> want.name, form |-> want.form])
    /\ want' = defs[want.name].target
    /\ UNCHANGED <<items, pass, at, row, structs, enums, funcs, answer, errors>>
ResolveTarget_Again ==
    /\ InState("unresolved") \/ InState("done")
    /\ defs' = [defs EXCEPT ![want.name] = Marked(@, "in_progress", @.resolved)]
    /\ stack' = Append(stack, [def |-> want.name, form |-> want.form])
    /\ want' = defs[want.name].target
    /\ UNCHANGED <<items, pass, at, row, structs, enums, funcs, answer, errors>>

(* ... or not yet: its target is resolved first.                           *)
ResolveTarget ==
    /\ InState("unresolved")
    /\ defs' = [defs EXCEPT ![want.name] = Marked(@, "in_progress", @.resolved)]
    /\ stack' = Append(stack, [def |-> want.name, form |-> want.form])
    /\ want' = defs[want.name].target
    /\ UNCHANGED <<items, pass, at, row, structs, enums, funcs, answer, errors>>

(* A resolved definition stays in progress.                                *)
Return_NotDone ==
    /\ answer # Null /\ stack # <<>>
    /\ LET f == stack[Len(stack)] IN
       /\ defs' = [defs EXCEPT ![f.def] = Marked(@, @.state, answer)]
       /\ answer' = Under(f.form, TypeOfDef(f.def, answer))
    /\ stack' = SubSeq(stack, 1, Len(stack) - 1)
    /\ UNCHANGED <<items, pass, at, row, structs, enums, funcs, want, errors>>

Return ==
    /\ answer # Null /\ stack # <<>>
    /\ LET f == stack[Len(stack)] IN
       /\ defs' = [defs EXCEPT ![f.def] = Marked(@, "done", answer)]
       /\ answer' = Under(f.form, TypeOfDef(f.def, answer))
    /\ stack' = SubSeq(stack, 1, Len(stack) - 1)
    /\ UNCHANGED <<items, pass, at, row, structs, enums, funcs, want, errors>>

(* The type reaches the position that asked.                               *)
Deliver ==
    /\ answer # Null /\ stack = <<>>
    /\ row' = Append(row, answer) /\ answer' = Null
    /\ UNCHANGED <<items, pass, at, tables, want, stack, errors>>

-----------------------------------------------------------------------------
Next ==
    \/ Skip \/ NextPass
    \/ RegisterAlias \/ DuplicateEnum \/ RegisterEnum
    \/ DuplicateStruct \/ RegisterStruct \/ ResolveFields \/ Forced \/ RegisterFunc
    \/ Ask \/ ResolveKnown \/ ResolveUnknown \/ ResolveDone \/ ResolveCycle
    \/ ResolveTarget \/ Return \/ Deliver

Spec == Init /\ [][Next]_vars /\ WF_vars(Next)

-----------------------------------------------------------------------------
ResolvedTypes == [layers : Seq({"ptr", "ref"}), kind : BaseKinds, name : Names \cup {NoName}]
Frames  == [def : Names, form : Forms]
AliasDefs == [state : {"unresolved", "in_progress", "done"}, newtype : BOOLEAN,
              target : TypeExprs, resolved : ResolvedTypes \cup {Null}]
Reports == [what : {"duplicate", "unknown", "cycle", "ref returned"}, name : Names]
Tables(f, T) == DOMAIN f \subseteq Names /\ \A n \in DOMAIN f : f[n] \in Seq(T)

(* The variables have the types the code gives them.                       *)
TypeOK ==
    /\ items \in Seq(Items)
    /\ pass \in Passes
    /\ at \in 1..Len(items) + 1
    /\ row \in Seq(ResolvedTypes)
    /\ defs = [n \in Names |-> defs[n]]
    /\ \A n \in Names : \/ defs[n] = Absent
                       \/ defs[n] \in AliasDefs
    /\ Tables(structs, ResolvedTypes \cup {Null})
    /\ Tables(enums, ResolvedTypes) /\ Tables(funcs, ResolvedTypes)
    /\ want \in TypeExprs \cup {Nothing}
    /\ answer \in ResolvedTypes \cup {Null}
    /\ stack \in Seq(Frames)
    /\ errors \in Seq(Reports)

(* types.cc:51-52: a definition reached while it is being resolved is      *)
(* self-referential. The definitions in progress are those of the active   *)
(* calls of resolve_aliasdef, no definition is in two of them, and each    *)
(* call resolves the target of the one below: the recursion is never       *)
(* deeper than there are definitions.                                      *)
ActiveCalls ==
    /\ \A i, j \in DOMAIN stack : stack[i].def = stack[j].def => i = j
    /\ \A n \in Names : defs[n].state = "in_progress" => \E i \in DOMAIN stack : stack[i].def = n
    /\ \A i \in DOMAIN stack : defs[stack[i].def].state \in {"in_progress", "done"}

(* types.cc:271-273: the result is memoized; once no call is resolving a   *)
(* resolved definition, nothing changes what it stands for.                *)
OnceResolved ==
    [][\A n \in Names :
          defs[n].state = "done" /\ (\A i \in DOMAIN stack : stack[i].def # n)
              => defs'[n] = defs[n]]_vars

(* The definitions a definition leads to, following targets: the least set *)
(* that has its target and the targets of its members, as far as these are *)
(* definitions.                                                            *)
NextDef == [n \in {m \in Names : defs[m] # Absent} |-> defs[n].target.name]
LedTo(next, n) ==
    {m \in DOMAIN next : \A S \in SUBSET DOMAIN next :
        (\A x \in S \cup {n} : next[x] \in DOMAIN next => next[x] \in S) => m \in S}
Orbit(n)   == LedTo(NextDef, n)
Cyclic     == {n \in DOMAIN NextDef : n \in Orbit(n)}
CycleReports(S) == {i \in DOMAIN errors : errors[i].what = "cycle" /\ errors[i].name \in S}

(* types.cc:272-273, "reported once, then cached as Error so it can't loop *)
(* or cascade": when the passes are over every cycle of definitions has    *)
(* been reported exactly once, at one of its members, and nothing else has.*)
CyclesReportedOnce ==
    /\ CycleReports(Names \ Cyclic) = {}
    /\ \A n \in Cyclic : Cardinality(CycleReports(Orbit(n))) <= 1
    /\ pass = "done" => \A n \in Cyclic : CycleReports(Orbit(n)) # {}

(* What a name stands for, read off the declarations alone: aliases are    *)
(* replaced by their targets, at most d times.                             *)
Declares(n, kinds) == \E i \in DOMAIN items : items[i].name = n /\ items[i].kind \in kinds
Declaration(n)     == items[CHOOSE i \in DOMAIN items :
                          items[i].name = n /\ items[i].kind # "func"]
StandsFor(n, d, below) ==
    CASE n \in Builtins            -> Type("builtin", n)
      [] Declares(n, {"struct"})   -> Type("struct", n)
      [] Declares(n, {"enum"})     -> Type("enum", n)
      [] Declares(n, {"newtype"})  -> Type("newtype", n)
      [] Declares(n, {"alias"}) /\ d > 0 ->
            LET t == Head(Declaration(n).types) IN Under(t.form, below[t.name])
      [] OTHER                     -> Error
Denotes[d \in 0..Cardinality(Names)] == [n \in Names |-> StandsFor(n, d, Denotes[d - 1])]
TypeMeant(te)     == Under(te.form, Denotes[Cardinality(Names)][te.name])
TypesMeant(types) == [k \in DOMAIN types |-> TypeMeant(types[k])]

(* When the passes end without an error, every field, payload, parameter,  *)
(* result and newtype has the type its declaration means, whatever the     *)
(* order in which the definitions were resolved.                           *)
TablesMeanDeclarations ==
    pass = "done" /\ errors = <<>> =>
        \A i \in DOMAIN items :
            LET n == items[i].name IN
            CASE items[i].kind = "struct" -> structs[n] = TypesMeant(items[i].types)
              [] items[i].kind = "enum"   -> enums[n] = TypesMeant(items[i].types)
              [] items[i].kind = "func"   -> funcs[n] = TypesMeant(items[i].types)
              [] OTHER -> /\ defs[n].state = "done"
                          /\ defs[n].resolved = TypeMeant(Head(items[i].types))

(* check_module ends, whatever the definitions refer to.                   *)
Termination == <>(pass = "done")
=============================================================================
