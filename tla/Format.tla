-------------------------------- MODULE Format --------------------------------
(***************************************************************************)
(* format_module (front/fmt.cc): the text of a module's tree, as the       *)
(* characters of Tokens. Blanks and indentation are left out, line breaks  *)
(* are not: the lexer reads them. Faithful says of which trees the text    *)
(* means the tree again.                                                   *)
(***************************************************************************)
EXTENDS Tokens

FmtAtom == 100          \* PREC_ATOM
FmtPrec(k) ==           \* bin_prec; a cast binds like the parser's `as`
    CASE k \in AssignOps                          -> 1
      [] k \in {"..", "..="}                      -> 2
      [] k = "??"                                 -> 3
      [] k = "||"                                 -> 4
      [] k = "&&"                                 -> 5
      [] k \in {"==", "!=", "<", ">", "<=", ">="} -> 6
      [] k = "|"                                  -> 7
      [] k = "^"                                  -> 8
      [] k = "&"                                  -> 9
      [] k \in {"<<", ">>"}                       -> 10
      [] k \in {"+", "-"}                         -> 11
      [] k \in {"*", "/", "%"}                    -> 12
      [] k = "as"                                 -> 13

OfKind(e, K) == SelectSeq(e.kids, LAMBDA k : k.kind \in K)
Parens(b, s) == IF b THEN <<"(">> \o s \o <<")">> ELSE s
Joined(seqs, sep) ==
    FlattenSeq([i \in 1..Len(seqs) |-> IF i = 1 THEN seqs[i] ELSE <<sep>> \o seqs[i]])
Lines(seqs)  == FlattenSeq([i \in 1..Len(seqs) |-> <<"nl">> \o seqs[i]]) \o <<"nl", "}">>

(* %g prints a whole number without a point; a borrow type has no name.    *)
FloatText(t) == IF t = <<"1.0">> THEN <<"1">> ELSE t
RECURSIVE FmtType(_)
FmtType(t) == CASE t.kind = "Named"   -> t.text
                [] t.kind = "Pointer" -> <<"*">> \o FmtType(t.kids[1])
                [] t.kind = "RefType" -> <<"_">>
TypeForms == {"Named", "Pointer", "RefType"}

EscapedText(text) ==
    FlattenSeq([i \in 1..Len(text) |->
                    CASE text[i] = "nl"                         -> <<"esc", "n">>
                      [] text[i] = "tab"                        -> <<"esc", "t">>
                      [] text[i] = "cr"                         -> <<"esc", "r">>
                      [] text[i] \in {"quote", "esc", "dollar"} -> <<"esc", text[i]>>
                      [] OTHER                                  -> <<text[i]>>])

Word(leaf) == IF leaf.text = <<>> THEN <<leaf.kind>> ELSE leaf.text

FmtPattern(p) ==
    IF p.kind # "Variant" THEN Word(p)
    ELSE p.kids[1].text \o <<".">> \o p.kids[2].text
         \o (IF Len(p.kids) = 3 THEN <<"(">> \o p.kids[3].text \o <<")">> ELSE <<>>)

(* The precedence an operand on the right of a binary operator is printed at.*)
RhsPrec_Same(p) == p
RhsPrec(p)      == IF p = 1 THEN p ELSE p + 1

RECURSIVE FmtExpr(_, _), FmtBlock(_), FmtStmt(_)

FmtExpr(e, parent) ==
    LET Part(i) == FmtExpr(e.kids[i], 0)
    IN  CASE e.kind \in {"Int", "Ident", "true", "false", "null"} -> Word(e)
          [] e.kind = "Float" -> FloatText(e.text)
          [] e.kind = "Str"   ->
                 <<"quote">> \o FlattenSeq([i \in 1..Len(e.kids) |->
                                    IF e.kids[i].kind = "StrText" THEN EscapedText(e.kids[i].text)
                                    ELSE <<"dollar", "{">> \o Part(i) \o <<"}">>])
                 \o <<"quote">>
          [] e.kind = "Unary" -> <<e.kids[1].kind>> \o FmtExpr(e.kids[2], FmtAtom)
          [] e.kind = "Binary" ->
                 LET p == FmtPrec(e.kids[2].kind)
                 IN  Parens(p < parent, FmtExpr(e.kids[1], IF p = 1 THEN p + 1 ELSE p)
                                        \o <<e.kids[2].kind>> \o FmtExpr(e.kids[3], RhsPrec(p)))
          [] e.kind = "Cast"  ->
                 Parens(FmtPrec("as") < parent,
                        FmtExpr(e.kids[1], FmtPrec("as")) \o <<"as">> \o FmtType(e.kids[2]))
          [] e.kind = "Call"  ->
                 FmtExpr(e.kids[1], FmtAtom) \o <<"(">>
                 \o Joined([i \in 1..(Len(e.kids) - 1) |-> Part(i + 1)], ",") \o <<")">>
          [] e.kind = "Field" -> FmtExpr(e.kids[1], FmtAtom) \o <<".">> \o e.kids[2].text
          [] e.kind = "StructLit" ->
                 e.kids[1].text \o <<"{">>
                 \o Joined([i \in 1..(Len(e.kids) - 1) |->
                               e.kids[i + 1].kids[1].text \o <<":">> \o FmtExpr(e.kids[i + 1].kids[2], 0)], ",")
                 \o <<"}">>
          [] e.kind = "Block" -> FmtBlock(e)
          [] e.kind = "If"    ->
                 <<"if">> \o Part(1) \o FmtBlock(e.kids[2])
                 \o (IF Len(e.kids) = 3 THEN <<"else">> \o Part(3) ELSE <<>>)
          [] e.kind = "While" -> <<"while">> \o Part(1) \o FmtBlock(e.kids[2])
          [] e.kind = "Loop"  -> <<"loop">> \o FmtBlock(e.kids[1])
          [] e.kind = "For"   -> <<"for">> \o e.kids[1].text \o <<"in">> \o Part(2) \o FmtBlock(e.kids[3])
          [] e.kind = "Match" ->
                 <<"match">> \o Part(1) \o <<"{">>
                 \o Lines([i \in 1..(Len(e.kids) - 1) |->
                        LET arm == e.kids[i + 1].kids
                        IN  FmtPattern(arm[1])
                            \o (IF Len(arm) = 3 THEN <<"if">> \o FmtExpr(arm[2], 0) ELSE <<>>)
                            \o <<"=>">> \o FmtExpr(Last(arm), 0) \o <<",">>])
          [] e.kind = "Ref"   -> <<>>    \* no case in the code

FmtStmt(s) ==
    LET Value == FmtExpr(Last(s.kids), 0)
    IN  CASE s.kind = "Binding"  ->
                 <<s.kids[1].kind>> \o s.kids[2].text
                 \o (IF Len(s.kids) = 4 THEN <<":">> \o FmtType(s.kids[3]) ELSE <<>>)
                 \o <<"=">> \o Value
          [] s.kind = "Return"   -> <<"return">> \o (IF s.kids = <<>> THEN <<>> ELSE Value)
          [] s.kind = "Defer"    -> <<"defer">> \o Value
          [] s.kind = "ExprStmt" -> Value
          [] s.kind \in {"break", "continue"} -> <<s.kind>>
          [] OTHER               -> FmtExpr(s, 0)      \* the tail

FmtBlock(b) == IF b.kids = <<>> THEN <<"{", "}">>
               ELSE <<"{">> \o Lines([i \in 1..Len(b.kids) |-> FmtStmt(b.kids[i])])

-------------------------------------------------------------------------------
Typed(p) == p.kids[1].text \o <<":">> \o FmtType(p.kids[2])

FmtFunc(f) ==
    LET opt(K, Show(_)) == LET k == OfKind(f, K) IN IF k = <<>> THEN <<>> ELSE Show(k[1])
        params == OfKind(f, {"Param"})
    IN  opt({"pub"}, LAMBDA k : <<"pub">>)
        \o opt({"extern"}, LAMBDA k : <<"extern", "quote", "c", "quote">>)
        \o <<"func">> \o OfKind(f, {"Ident"})[1].text
        \o <<"(">> \o Joined([i \in 1..Len(params) |-> Typed(params[i])], ",") \o <<")">>
        \o opt(TypeForms, LAMBDA t : <<"->">> \o FmtType(t))
        \o opt({"Block"}, FmtBlock)

FmtVariant(v) ==
    v.kids[1].text \o (IF Len(v.kids) = 2 THEN <<"(">> \o FmtType(v.kids[2]) \o <<")">> ELSE <<>>)

RECURSIVE FmtItem(_)
FmtItem(it) ==
    LET parts(Show(_)) == [i \in 1..(Len(it.kids) - 1) |-> Show(it.kids[i + 1])]
        head           == it.kids[1].text
    IN  CASE it.kind = "Func"       -> FmtFunc(it)
          [] it.kind = "Struct"     -> <<"type">> \o head \o <<"{">> \o Lines(parts(Typed))
          [] it.kind = "Enum"       -> <<"type">> \o head \o <<"=">> \o Joined(parts(FmtVariant), "|")
          [] it.kind = "Newtype"    -> <<"type">> \o head \o <<"=">> \o FmtType(it.kids[2])
          [] it.kind = "Alias"      -> <<"alias">> \o head \o <<"=">> \o FmtType(it.kids[2])
          [] it.kind = "Attributed" -> FmtItem(it.kids[1])

FormatModule(m) ==
    FlattenSeq([i \in 1..Len(m.kids) |-> (IF i = 1 THEN <<>> ELSE <<"nl", "nl">>) \o FmtItem(m.kids[i])])
    \o (IF m.kids = <<>> THEN <<>> ELSE <<"nl">>)

-------------------------------------------------------------------------------
(* The trees whose text means something else, or nothing: each conjunct is *)
(* a case the formatter does not handle, described in the README.          *)
RECURSIVE NodesOf(_), ShowsStructLit(_)
NodesOf(e) == {e} \cup UNION {NodesOf(e.kids[i]) : i \in 1..Len(e.kids)}

(* A struct literal outside of call arguments, where parsing needs parentheses. *)
ShowsStructLit(e) ==
    \/ e.kind = "StructLit"
    \/ \E i \in 1..Len(e.kids) : (e.kind = "Call" => i = 1) /\ ShowsStructLit(e.kids[i])
ConditionOf == [If |-> 1, While |-> 1, Match |-> 1, For |-> 2, Arm |-> 2]
InCondition(e) == /\ e.kind \in DOMAIN ConditionOf
                  /\ e.kind = "Arm" => Len(e.kids) = 3
                  /\ ShowsStructLit(e.kids[ConditionOf[e.kind]])

Faithful(m) ==
    \A e \in NodesOf(m) :
        /\ e.kind \notin {"Ref", "RefType", "Attributed"}
        /\ e.kind \in {"Call", "Field"} => e.kids[1].kind # "Unary"
        /\ e.kind = "Enum" => Len(e.kids) > 2 \/ (Len(e.kids) = 2 /\ Len(e.kids[2].kids) = 2)
        /\ e.kind = "Float" => FloatText(e.text) = e.text
        /\ OfKind(e, {"extern"}) # <<>> =>
               \E i \in 1..Len(e.kids) : e.kids[i] = [kind |-> "Abi", text |-> <<"c">>, kids |-> <<>>]
        /\ ~InCondition(e)
===============================================================================
