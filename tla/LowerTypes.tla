------------------------------ MODULE LowerTypes ------------------------------
(***************************************************************************)
(* The tables of lower_module (ir/lower.cc), built over again from the     *)
(* items of a module that check_module accepted: aliases and newtypes are  *)
(* erased, structs and enums with payloads are numbered. Each loop over    *)
(* the items is one step; the enums, whose payloads see the enums before   *)
(* them, are one step each.                                                *)
(***************************************************************************)
EXTENDS TypeTables

VARIABLES lowering,    \* the loop lower_module is at, "" before it starts
          typeAlias,   \* name -> type expression
          structIndex, \* name -> index into sdefs
          sdefs,       \* struct table: name, field types
          enumByName,  \* name -> representation, payload types
          edefs,       \* names of the enums that have a table entry
          sigs,        \* per function: parameter and result types
          unknowns     \* a type was reported unknown

lowerVars == <<lowering, typeAlias, structIndex, sdefs, enumByName, edefs, sigs, unknowns>>
allVars   == <<vars, lowerVars>>

(* The items of some kinds, in order: an item's place among them is the    *)
(* number of them up to it.                                                *)
Place(kinds, i) == Cardinality({j \in 1..i : items[j].kind \in kinds})
Nth(kinds, k)   == CHOOSE i \in DOMAIN items : items[i].kind \in kinds /\ Place(kinds, i) = k
OfKind(kinds)   == [k \in 1..Place(kinds, Len(items)) |-> items[Nth(kinds, k)]]

(* The MType of a type; bad when map_type reports a name on the way, which *)
(* it then takes for an integer.                                           *)
MType(kind, index) == [kind |-> kind, index |-> index, name |-> NoName, bad |-> FALSE]
Builtin(n) == [MType("builtin", 0) EXCEPT !.name = n]
Unknown    == [MType("int", 0) EXCEPT !.bad = TRUE]
MapForm(form, t) ==
    CASE form = "plain" -> t
      [] form = "ptr"   -> MType("ptr", 0)
      [] form = "ref"   -> IF t.kind = "struct" THEN [t EXCEPT !.kind = "ref"]
                           ELSE [MType("ptr", 0) EXCEPT !.bad = t.bad]

(* The representation of the type a name stands for, through at most d     *)
(* aliases; "loop" stands for a recursion that goes deeper.                *)
MapName(aliases, index, reprs, n, d, below) ==
    CASE n \in Builtins       -> Builtin(n)
      [] n \in DOMAIN index   -> MType("struct", index[n])
      [] n \in DOMAIN reprs   -> reprs[n].repr
      [] n \in DOMAIN aliases -> IF d = 0 THEN MType("loop", 0)
                                 ELSE MapForm(aliases[n].form, below[aliases[n].name])
      [] OTHER                -> Unknown
MapNames(aliases, index, reprs) ==
    LET mapped[d \in 0..Cardinality(Names)] ==
            [n \in Names |-> MapName(aliases, index, reprs, n, d, mapped[d - 1])]
    IN  mapped
Mapped(reprs, te) ==
    MapForm(te.form, MapNames(typeAlias, structIndex, reprs)[Cardinality(Names)][te.name])

MapType(te)     == Mapped(enumByName, te)
MapTypes(types) == [k \in DOMAIN types |-> MapType(types[k])]
AnyBad(row1)    == \E k \in DOMAIN row1 : row1[k].bad

LowerInit ==
    /\ lowering = "" /\ typeAlias = Empty /\ structIndex = Empty /\ sdefs = <<>>
    /\ enumByName = Empty /\ edefs = <<>> /\ sigs = <<>> /\ unknowns = FALSE

(* build_file lowers a module only when check_module returned true.        *)
LowerAliases ==
    /\ pass = "done" /\ errors = <<>> /\ lowering = ""
    /\ LET as == OfKind(AliasKinds) IN
       typeAlias' = [n \in {as[i].name : i \in DOMAIN as} |->
                        LET i == CHOOSE i \in DOMAIN as :
                                   as[i].name = n /\ \A j \in DOMAIN as : as[j].name = n => j <= i
                        IN Head(as[i].types)]
    /\ lowering' = "structs"
    /\ UNCHANGED <<vars, structIndex, sdefs, enumByName, edefs, sigs, unknowns>>

LowerStructs ==
    /\ lowering = "structs" /\ lowering' = "fields"
    /\ LET ss == OfKind({"struct"}) IN
       /\ sdefs' = [i \in DOMAIN ss |-> [name |-> ss[i].name, fields |-> <<>>]]
       /\ structIndex' = [n \in {ss[i].name : i \in DOMAIN ss} |->
                             CHOOSE i \in DOMAIN ss :
                                 ss[i].name = n /\ \A j \in DOMAIN ss : ss[j].name = n => j <= i]
    /\ UNCHANGED <<vars, typeAlias, enumByName, edefs, sigs, unknowns>>

(* The fields are mapped before any enum is known.                         *)
LowerFields ==
    /\ lowering = "fields" /\ lowering' = "enums"
    /\ LET ss == OfKind({"struct"})
           rows == [i \in DOMAIN ss |-> MapTypes(ss[i].types)] IN
       /\ sdefs' = [i \in DOMAIN sdefs |-> [sdefs[i] EXCEPT !.fields = rows[i]]]
       /\ unknowns' = \E i \in DOMAIN rows : AnyBad(rows[i])
    /\ UNCHANGED <<vars, typeAlias, structIndex, enumByName, edefs, sigs>>

(* The index counts the enums without payloads too.                        *)
EnumRepr_ByItem(payloads) ==
    IF payloads = <<>> THEN MType("tag", 0)
    ELSE MType("enum", Cardinality(DOMAIN enumByName) + 1)

(* An enum is a number unless a variant has a payload.                     *)
EnumRepr(payloads) ==
    IF payloads = <<>> THEN MType("tag", 0) ELSE MType("enum", Len(edefs) + 1)

LowerEnum ==
    /\ lowering = "enums"
    /\ LET es == OfKind({"enum"})
           n == Cardinality(DOMAIN enumByName) + 1 IN
       IF n > Len(es)
       THEN lowering' = "funcs" /\ UNCHANGED <<enumByName, edefs, unknowns>>
       ELSE LET payloads == MapTypes(es[n].types) IN
            /\ enumByName' = With(enumByName, es[n].name,
                   [repr |-> EnumRepr(payloads), payloads |-> payloads])
            /\ edefs' = IF payloads = <<>> THEN edefs ELSE Append(edefs, es[n].name)
            /\ unknowns' = (unknowns \/ AnyBad(payloads))
            /\ UNCHANGED lowering
    /\ UNCHANGED <<vars, typeAlias, structIndex, sdefs, sigs>>

LowerFuncs ==
    /\ lowering = "funcs" /\ lowering' = "lowered"
    /\ LET fs == OfKind({"func"}) IN
       /\ sigs' = [i \in DOMAIN fs |-> MapTypes(fs[i].types)]
       /\ unknowns' = (unknowns \/ \E i \in DOMAIN fs : AnyBad(MapTypes(fs[i].types)))
    /\ UNCHANGED <<vars, typeAlias, structIndex, sdefs, enumByName, edefs>>

FullInit == Init /\ LowerInit
FullNext ==
    \/ Next /\ UNCHANGED lowerVars
    \/ LowerAliases \/ LowerStructs \/ LowerFields \/ LowerEnum \/ LowerFuncs
FullSpec == FullInit /\ [][FullNext]_allVars /\ WF_allVars(FullNext)

-----------------------------------------------------------------------------
(* What the type the checker resolved is at run time: a reference to a     *)
(* struct is one, everything else behind layers is an address; newtypes    *)
(* are what they are made of; an enum is a number or an entry of the table.*)
NamesOf(table) == [i \in DOMAIN table |-> table[i].name]
At(seq, n)     == CHOOSE i \in DOMAIN seq : seq[i] = n
OnlyRefs(t)    == \A k \in DOMAIN t.layers : t.layers[k] = "ref"
Layered(t, base) ==
    CASE t.layers = <<>> -> base
      [] t.layers = <<"ref">> /\ base.kind = "struct" -> [base EXCEPT !.kind = "ref"]
      [] OTHER -> [MType("ptr", 0) EXCEPT !.bad = OnlyRefs(t) /\ base.bad]
BaseRepr(t, d, below) ==
    CASE t.kind = "builtin" -> Builtin(t.name)
      [] t.kind = "struct"  -> MType("struct", At(NamesOf(sdefs), t.name))
      [] t.kind = "enum"    -> IF enums[t.name] = <<>> THEN MType("tag", 0)
                               ELSE MType("enum", At(edefs, t.name))
      [] t.kind = "newtype" -> IF d = 0 THEN MType("loop", 0) ELSE below[defs[t.name].resolved]
      [] OTHER              -> Unknown
ReprIn(t, d, below) == Layered(t, BaseRepr(t, d, below))
ReprOf[d \in 0..Cardinality(Names)] == [t \in ResolvedTypes |-> ReprIn(t, d, ReprOf[d - 1])]
Repr(t)      == ReprOf[Cardinality(Names)][t]
Reprs(types) == [k \in DOMAIN types |-> Repr(types[k])]

(* Types that hold an enum, through newtypes and references but not        *)
(* pointers: S is a set of newtypes with all that do.                      *)
Holds(S, t)  == OnlyRefs(t) /\ (t.kind = "enum" \/ (t.kind = "newtype" /\ t.name \in S))
Newtypes     == {n \in Names : defs[n].newtype}
HoldsEnum(t) ==
    \A S \in SUBSET Newtypes :
        (\A n \in Newtypes : Holds(S, defs[n].resolved) => n \in S) => Holds(S, t)

EnumInStruct ==
    \E n \in DOMAIN structs : \E k \in DOMAIN structs[n] : HoldsEnum(structs[n][k])

(* The declarations are resolved twice, by resolve_type (types.cc:212) and *)
(* by map_type (lower.cc:180), into tables that never meet.  Of the types  *)
(* of an accepted module the lowerer refuses one kind, and that always:    *)
(* struct fields of an enum, which lower_module maps before it has read    *)
(* the enums.  Of a module that both accept, its tables hold, for every    *)
(* field, payload, parameter and result, the representation of the type    *)
(* that check_module resolved there, and an index leads to the declaration *)
(* of that name.                                                           *)
RepresentationsAgree ==
    lowering = "lowered" =>
        /\ unknowns <=> EnumInStruct
        /\ ~unknowns =>
             /\ \A i \in DOMAIN sdefs : sdefs[i].fields = Reprs(structs[sdefs[i].name])
             /\ \A n \in DOMAIN enums : enumByName[n].payloads = Reprs(enums[n])
             /\ \A i \in DOMAIN sigs : sigs[i] = Reprs(funcs[OfKind({"func"})[i].name])
=============================================================================
