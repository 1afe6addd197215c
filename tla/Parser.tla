-------------------------------- MODULE Parser --------------------------------
(***************************************************************************)
(* parse_module (front/parse.cc) over the tokens in `toks`. The recursive  *)
(* descent is an agenda, the procedures still to run with what is left of  *)
(* each: a step either does one thing to the cursor, the flag, the errors  *)
(* or the tree, or replaces a procedure by its body, looking at the        *)
(* current token as the code does. Trees under construction are frames, a  *)
(* stack of lists of nodes: Open starts the list of a node's parts, Close  *)
(* makes the node and adds it to the list below. An absent part (no else,  *)
(* no type) is no node. Spans are left out.                                *)
(***************************************************************************)
EXTENDS Tokens

VARIABLES at,       \* pos of the code, from 1
          agenda,   \* procedures and steps to do, the next one first
          noLit,    \* no_struct_lit
          frames,   \* the parts of the nodes under construction
          failed    \* an error was reported (diag_has_errors)

parseVars == <<at, agenda, noLit, frames, failed>>

Kind      == toks[at].kind
Peek(k)   == IF at + k <= Len(toks) THEN toks[at + k].kind ELSE "Eof"
Forward   == IF Kind = "Eof" THEN at ELSE at + 1
Separator == {"Newline", "DocComment"}
ItemStart == {"func", "pub", "extern", "type", "alias"}

Node(kind, kids) == [kind |-> kind, text |-> <<>>, kids |-> kids]
Leaf(kind, text) == [kind |-> kind, text |-> text, kids |-> <<>>]

(* Procedures and steps; some have a kind of token or node, or a number.   *)
Do(op, arg, n) == [op |-> op, arg |-> arg, n |-> n]
Call(p)        == <<Do(p, "", 0)>>
Take           == Call("take")
Keep(kind)     == <<Do("keep", kind, 0)>>
Name           == Call("name")
Expect(k)      == <<Do("expect", k, 0)>>
Accept(k)      == <<Do("accept", k, 0)>>
Flag(k)        == <<Do("flag", k, 0)>>
Separators     == Call("separators")
Report         == Call("report")
Open           == Call("open")
Wrap           == Call("wrap")
Close(kind)    == <<Do("close", kind, 0)>>
Drop           == Call("drop")
Literals(b)    == Call(IF b THEN "forbid" ELSE "allow")
Progress       == <<Do("progress", "", at)>>

-------------------------------------------------------------------------------
(* Expressions.                                                            *)
Prec == [k \in Kinds |->
           CASE k \in AssignOps                            -> 1
             [] k \in {"..", "..="}                        -> 2
             [] k = "??"                                   -> 3
             [] k = "||"                                   -> 4
             [] k = "&&"                                   -> 5
             [] k \in {"==", "!=", "<", ">", "<=", ">="}   -> 6
             [] k = "|"                                    -> 7
             [] k = "^"                                    -> 8
             [] k = "&"                                    -> 9
             [] k \in {"<<", ">>"}                         -> 10
             [] k \in {"+", "-"}                           -> 11
             [] k \in {"*", "/", "%"}                      -> 12
             [] k = "as"                                   -> 13
             [] OTHER                                      -> 0]

BinaryFrom(n) == Call("unary") \o <<Do("operators", "", n)>>
Expr          == BinaryFrom(1)

(* The rest of a binary expression whose operators bind at least n.        *)
Operators(n) ==
    IF Prec[Kind] = 0 \/ Prec[Kind] < n THEN <<>>
    ELSE (IF Kind = "as" THEN Wrap \o Take \o Call("type") \o Close("Cast")
          ELSE Wrap \o Keep("") \o BinaryFrom(IF Prec[Kind] = 1 THEN 1 ELSE Prec[Kind] + 1)
               \o Close("Binary"))
         \o <<Do("operators", "", n)>>

Unary ==
    CASE Kind \in {"-", "!", "~", "*", "move"} -> Open \o Keep("") \o Call("unary") \o Close("Unary")
      [] Kind = "ref" -> Open \o Take \o Flag("mut") \o Call("unary") \o Close("Ref")
      [] OTHER        -> Call("primary") \o Call("postfix")

Postfix_SameFlag ==
    CASE Kind = "(" -> Wrap \o Take \o Call("arguments") \o Expect(")") \o Close("Call") \o Call("postfix")
      [] Kind = "." -> Wrap \o Take \o Name \o Close("Field") \o Call("postfix")
      [] OTHER      -> <<>>

Postfix ==
    CASE Kind = "(" -> Wrap \o Take \o Literals(FALSE) \o Call("arguments") \o Literals(noLit)
                       \o Expect(")") \o Close("Call") \o Call("postfix")
      [] Kind = "." -> Wrap \o Take \o Name \o Close("Field") \o Call("postfix")
      [] OTHER      -> <<>>

Arguments     == IF Kind = ")" THEN <<>> ELSE Expr \o Call("more arguments")
MoreArguments == IF Kind = "," THEN Take \o Expr \o Call("more arguments") ELSE <<>>

Primary ==
    CASE Kind \in {"Int", "Float", "true", "false", "null"} -> Keep("")
      [] Kind = "Ident"    -> Keep("") \o Call("struct literal")
      [] Kind = "StrStart" -> Open \o Take \o Call("string parts")
      [] Kind \in {"if", "while", "loop", "for", "match"} -> Open \o Take \o Call(Kind)
      [] Kind = "("        -> Take \o Literals(FALSE) \o Expr \o Literals(noLit) \o Expect(")")
      [] Kind = "{"        -> Call("block")
      [] OTHER             -> Report \o Call("placeholder") \o Take

StringParts ==
    CASE Kind = "StrText"     -> Keep("") \o Call("string parts")
      [] Kind = "InterpStart" -> Take \o Expr \o Expect("InterpEnd") \o Call("string parts")
      [] Kind = "StrEnd"      -> Take \o Close("Str")
      [] OTHER                -> Report \o Close("Str")

(* `Name {` is a struct literal, but not where a block may follow.         *)
StructLit == IF Kind = "{" /\ ~noLit
             THEN Wrap \o Take \o Separators \o Call("initializers")
             ELSE <<>>
Initializers ==
    IF Kind \in {"}", "Eof"} THEN Expect("}") \o Close("StructLit")
    ELSE Open \o Name \o Expect(":") \o Literals(FALSE) \o Expr \o Literals(noLit) \o Close("Init")
         \o Accept(",") \o Separators \o Progress \o Call("initializers")

Condition == Literals(TRUE) \o Expr \o Literals(noLit)
Body      == IF Kind = "{" THEN Call("block") ELSE Report
If        == Condition \o Call("body") \o Call("else") \o Close("If")
Else      == IF Kind = "else" THEN Take \o Call("else branch") ELSE <<>>
ElseBranch == IF Kind = "if" THEN Open \o Take \o Call("if") ELSE Body
While     == Condition \o Call("body") \o Close("While")
Loop      == Call("body") \o Close("Loop")
For       == Name \o Expect("in") \o Condition \o Call("body") \o Close("For")
Match     == Condition \o Expect("{") \o Separators \o Call("arms")

Arms ==
    IF Kind \in {"}", "Eof"} THEN Expect("}") \o Close("Match")
    ELSE Open \o Call("pattern") \o Call("guard") \o Expect("=>") \o Expr \o Close("Arm")
         \o Accept(",") \o Separators \o Progress \o Call("arms")
Guard == IF Kind = "if" THEN Take \o Condition ELSE <<>>

Pattern ==
    CASE Kind \in {"Int", "true", "false"}   -> Keep("")
      [] Kind = "Ident" /\ Peek(1) = "."     -> Open \o Keep("") \o Take \o Name
                                                \o Call("payload binding") \o Close("Variant")
      [] Kind = "Ident"                      -> Keep("")
      [] OTHER                               -> Report \o Call("placeholder")
PayloadBinding == IF Kind = "(" THEN Take \o Name \o Expect(")") ELSE <<>>

TypeExpr ==
    CASE Kind = "*"     -> Open \o Take \o Call("type") \o Close("Pointer")
      [] Kind = "ref"   -> Open \o Take \o Flag("mut") \o Call("type") \o Close("RefType")
      [] Kind = "Ident" -> Keep("Named")
      [] OTHER          -> Report \o Call("placeholder")

-------------------------------------------------------------------------------
(* Statements.                                                             *)
Block == Open \o Expect("{") \o Separators \o Call("statements")

Statement ==
    CASE Kind \in {"let", "var"} -> Open \o Keep("") \o Name \o Call("annotation") \o Expect("=")
                                    \o Expr \o Close("Binding")
      [] Kind = "return"         -> Open \o Take \o Call("result") \o Close("Return")
      [] Kind = "defer"          -> Open \o Take \o Expr \o Close("Defer")
      [] Kind \in {"break", "continue"} -> Keep("")
      [] OTHER                   -> Open \o Expr \o Close("ExprStmt")

Annotation == IF Kind = ":" THEN Take \o Call("type") ELSE <<>>
Result     == IF Kind \in {"Newline", "}", "Eof"} THEN <<>> ELSE Expr

Statements ==
    CASE Kind = "}"   -> Take \o Close("Block")
      [] Kind = "Eof" -> Report \o Close("Block")
      [] OTHER        -> Statement \o Call("finish") \o Progress \o Separators \o Call("statements")

Finish_Silent ==
    CASE Kind \in Separator    -> Separators
      [] Kind \in {"}", "Eof"} -> <<>>
      [] OTHER                 -> Call("rest of line") \o Separators

(* finish_stmt: junk after a statement is reported and skipped.            *)
Finish ==
    CASE Kind \in Separator    -> Separators
      [] Kind \in {"}", "Eof"} -> <<>>
      [] OTHER                 -> Report \o Call("rest of line") \o Separators
RestOfLine == IF Kind \in {"Newline", "}", "Eof"} THEN <<>> ELSE Take \o Call("rest of line")

-------------------------------------------------------------------------------
(* Items.                                                                  *)
Func == Open \o Flag("pub") \o Call("abi") \o Call("function")
Abi  == IF Kind = "extern"
        THEN Keep("") \o (IF Peek(1) = "StrStart" THEN Call("simple string") ELSE <<>>)
        ELSE <<>>
SimpleString == Expect("StrStart") \o Call("abi text") \o Expect("StrEnd")
AbiText      == IF Kind = "StrText" THEN Keep("Abi") ELSE <<>>

Function ==
    IF Kind # "func" THEN Report \o Drop
    ELSE Take \o Name \o Expect("(") \o Call("parameters") \o Expect(")") \o Call("return type")
         \o Call("function body") \o Close("Func")
Parameters == IF Kind = ")" THEN <<>> ELSE Call("parameter")
(* The loop's own break is on the condition on which `accept` ends it.      *)
Parameter  == Open \o Name \o Expect(":") \o Call("type") \o Close("Param") \o Call("more parameters")
MoreParameters == IF Kind = "," THEN Take \o Call("parameter") ELSE <<>>
ReturnType == IF Kind = "->" THEN Take \o Call("type") ELSE <<>>
IsExtern   == \E i \in 1..Len(Last(frames)) : Last(frames)[i].kind = "extern"
FunctionBody == IF IsExtern THEN <<>> ELSE Body

(* A sum type if the right side starts with `|`, or with a name and `|` or *)
(* `(`; else a newtype.                                                    *)
IsEnum == Peek(1) = "|" \/ (Peek(1) = "Ident" /\ Peek(2) \in {"|", "("})
TypeDecl == Open \o Take \o Name \o Call("type body")
TypeBody ==
    CASE Kind = "=" /\ IsEnum -> Take \o Separators \o Call("bar") \o Call("variant")
      [] Kind = "=" /\ ~IsEnum -> Take \o Call("type") \o Close("Newtype")
      [] Kind = "{"           -> Take \o Separators \o Call("fields")
      [] OTHER                -> Report \o Drop
Bar     == IF Kind = "|" THEN Take \o Separators ELSE <<>>
Variant == IF Kind # "Ident" THEN Report \o Close("Enum")
           ELSE Open \o Keep("") \o Call("payload") \o Close("EnumVariant") \o Separators
                \o Call("more variants")
MoreVariants == IF Kind = "|" THEN Take \o Separators \o Call("variant") ELSE Close("Enum")
Payload ==
    CASE Kind = "(" -> Take \o Call("type") \o Expect(")")
      [] Kind = "{" -> Report \o Take \o <<Do("braces", "", 1)>>
      [] OTHER      -> <<>>
Braces(depth) ==
    IF depth = 0 \/ Kind = "Eof" THEN <<>>
    ELSE Take \o <<Do("braces", "", CASE Kind = "{" -> depth + 1
                                      [] Kind = "}" -> depth - 1
                                      [] OTHER      -> depth)>>
Fields ==
    IF Kind \in {"}", "Eof"} THEN Expect("}") \o Close("Struct")
    ELSE Open \o Name \o Expect(":") \o Call("type") \o Close("FieldDecl")
         \o Accept(",") \o Separators \o Progress \o Call("fields")
Alias == Open \o Take \o Name \o Expect("=") \o Call("type") \o Close("Alias")

(* `@must_defer` is kept as a node around the struct or enum it is set on; *)
(* on a newtype it is dropped. After an error the tree is not looked at.   *)
Declaration ==
    CASE Kind = "type"  -> TypeDecl
      [] Kind = "alias" -> Alias
      [] Kind \in {"pub", "func", "extern"} -> Func
      [] OTHER          -> Report
Item == IF Kind = "@"
        THEN Take \o Call("attribute") \o Separators \o Call("attributed")
        ELSE Declaration
Attribute  == IF Kind = "Ident" /\ toks[at].text = <<"must_defer">> THEN Take ELSE Report
Attributed == IF Kind = "type" THEN TypeDecl \o Call("must defer") ELSE Report \o Declaration
MustDefer  == IF ~failed /\ Last(Last(frames)).kind \in {"Struct", "Enum"}
              THEN Wrap \o Close("Attributed")
              ELSE <<>>

Items == IF Kind = "Eof" THEN <<>>
         ELSE Item \o <<Do("recover", "", at)>> \o Separators \o Call("items")
Recover_Nothing(before) == <<>>

(* A step of the cursor was made, or the next item is looked for.          *)
Recover(before) ==
    CASE at # before                        -> <<>>
      [] at = before /\ Kind \in ItemStart  -> Take
      [] OTHER                              -> Call("to next item")
ToNextItem == IF Kind \in ItemStart \cup {"Eof"} THEN <<>> ELSE Take \o Call("to next item")
Start      == Separators \o Call("items")

BodyOf(p) ==
    CASE p.op = "unary"          -> Unary
      [] p.op = "operators"      -> Operators(p.n)
      [] p.op = "postfix"        -> Postfix
      [] p.op = "arguments"      -> Arguments
      [] p.op = "more arguments" -> MoreArguments
      [] p.op = "primary"        -> Primary
      [] p.op = "string parts"   -> StringParts
      [] p.op = "struct literal" -> StructLit
      [] p.op = "initializers"   -> Initializers
      [] p.op = "body"           -> Body
      [] p.op = "if"             -> If
      [] p.op = "else"           -> Else
      [] p.op = "else branch"    -> ElseBranch
      [] p.op = "while"          -> While
      [] p.op = "loop"           -> Loop
      [] p.op = "for"            -> For
      [] p.op = "match"          -> Match
      [] p.op = "arms"           -> Arms
      [] p.op = "guard"          -> Guard
      [] p.op = "pattern"        -> Pattern
      [] p.op = "payload binding" -> PayloadBinding
      [] p.op = "type"           -> TypeExpr
      [] p.op = "block"          -> Block
      [] p.op = "statements"     -> Statements
      [] p.op = "annotation"     -> Annotation
      [] p.op = "result"         -> Result
      [] p.op = "finish"         -> Finish
      [] p.op = "rest of line"   -> RestOfLine
      [] p.op = "abi"            -> Abi
      [] p.op = "simple string"  -> SimpleString
      [] p.op = "abi text"       -> AbiText
      [] p.op = "function"       -> Function
      [] p.op = "parameters"     -> Parameters
      [] p.op = "parameter"      -> Parameter
      [] p.op = "more parameters" -> MoreParameters
      [] p.op = "return type"    -> ReturnType
      [] p.op = "function body"  -> FunctionBody
      [] p.op = "type body"      -> TypeBody
      [] p.op = "bar"            -> Bar
      [] p.op = "variant"        -> Variant
      [] p.op = "more variants"  -> MoreVariants
      [] p.op = "payload"        -> Payload
      [] p.op = "braces"         -> Braces(p.n)
      [] p.op = "fields"         -> Fields
      [] p.op = "attribute"      -> Attribute
      [] p.op = "attributed"     -> Attributed
      [] p.op = "must defer"     -> MustDefer
      [] p.op = "items"          -> Items
      [] p.op = "recover"        -> Recover(p.n)
      [] p.op = "to next item"   -> ToNextItem

-------------------------------------------------------------------------------
(* The steps.                                                              *)
Steps == {"take", "keep", "name", "expect", "accept", "flag", "separators", "report", "open",
          "wrap", "close", "drop", "placeholder", "forbid", "allow", "progress"}

Parsed      == agenda = <<>>
Top         == Head(agenda)
Doing(step) == agenda # <<>> /\ Top.op = step /\ agenda' = Tail(agenda)

(* A list of parts; the one on top gets another part.                      *)
Below       == Front(frames)
Current(kind) == Leaf(IF kind = "" THEN Kind ELSE kind, toks[at].text)
AddTo(parts, node) == Append(Front(parts), Append(Last(parts), node))

(* A block that ends in an expression has it as its value.                 *)
WithTail(kids) == IF kids # <<>> /\ Last(kids).kind = "ExprStmt"
                  THEN Append(Front(kids), Last(kids).kids[1]) ELSE kids
Made(kind, kids) == Node(kind, IF kind = "Block" THEN WithTail(kids) ELSE kids)

ParseInit == /\ at = 1 /\ agenda = Start /\ noLit = FALSE /\ frames = <<<<>>>> /\ failed = FALSE

Expand ==
    /\ agenda # <<>> /\ Top.op \notin Steps
    /\ agenda' = BodyOf(Top) \o Tail(agenda)
    /\ UNCHANGED <<at, noLit, frames, failed>>

Advance == Doing("take") /\ at' = Forward /\ UNCHANGED <<noLit, frames, failed>>

KeepToken ==
    /\ \/ Doing("keep")
       \/ Doing("name") /\ Kind = "Ident"
       \/ Doing("flag") /\ Kind = Top.arg
    /\ frames' = AddTo(frames, Current(IF Top.op = "keep" THEN Top.arg ELSE "")) /\ at' = Forward
    /\ UNCHANGED <<noLit, failed>>

TakeExpected ==
    /\ Doing("expect") \/ Doing("accept")
    /\ Kind = Top.arg /\ at' = Forward
    /\ UNCHANGED <<noLit, frames, failed>>

Skip ==
    /\ Doing("accept") \/ Doing("flag")
    /\ Kind # Top.arg
    /\ UNCHANGED <<at, noLit, frames, failed>>

ErrorHere ==
    /\ \/ Doing("report")
       \/ Doing("name") /\ Kind # "Ident"
       \/ Doing("expect") /\ Kind # Top.arg
    /\ failed' = TRUE
    /\ UNCHANGED <<at, noLit, frames>>

SkipSeparators ==
    /\ Doing("separators")
    /\ at' = CHOOSE i \in at..Len(toks) : /\ toks[i].kind \notin Separator
                                          /\ \A k \in at..(i - 1) : toks[k].kind \in Separator
    /\ UNCHANGED <<noLit, frames, failed>>

(* The progress guard of a loop: a round that consumed nothing.            *)
GuardProgress ==
    /\ Doing("progress") /\ at' = IF at = Top.n THEN Forward ELSE at
    /\ UNCHANGED <<noLit, frames, failed>>

SetLiterals_Kept ==
    /\ Doing("forbid") \/ Doing("allow")
    /\ noLit' = (noLit \/ Top.op = "forbid")
    /\ UNCHANGED <<at, frames, failed>>

SetLiterals ==
    /\ Doing("forbid") \/ Doing("allow")
    /\ noLit' = (Top.op = "forbid")
    /\ UNCHANGED <<at, frames, failed>>

OpenNode == Doing("open") /\ frames' = Append(frames, <<>>) /\ UNCHANGED <<at, noLit, failed>>

(* The last part becomes the first part of a new node.                     *)
WrapNode ==
    /\ Doing("wrap")
    /\ frames' = Append(Append(Below, Front(Last(frames))), <<Last(Last(frames))>>)
    /\ UNCHANGED <<at, noLit, failed>>

CloseNode ==
    /\ Doing("close")
    /\ frames' = AddTo(Below, Made(Top.arg, Last(frames)))
    /\ UNCHANGED <<at, noLit, failed>>

DropNode == Doing("drop") /\ frames' = Below /\ UNCHANGED <<at, noLit, failed>>

Placeholder ==
    /\ Doing("placeholder") /\ frames' = AddTo(frames, Leaf("Int", <<"0">>))
    /\ UNCHANGED <<at, noLit, failed>>

ParseNext ==
    /\ UNCHANGED toks
    /\ \/ Expand \/ Advance \/ KeepToken \/ TakeExpected \/ Skip \/ ErrorHere \/ SkipSeparators
       \/ GuardProgress \/ SetLiterals \/ OpenNode \/ WrapNode \/ CloseNode \/ DropNode
       \/ Placeholder

(* The cursor never runs past Eof, and parts are only taken from a node    *)
(* that has them.                                                          *)
ParseTypeOK ==
    /\ at \in 1..Len(toks) /\ noLit \in BOOLEAN /\ failed \in BOOLEAN
    /\ frames # <<>>
    /\ Parsed => Len(frames) = 1 /\ ~noLit
===============================================================================
