----------------------------- MODULE MCLowerTypes -----------------------------
EXTENDS LowerTypes

MCNames == {"i32", "A", "B", "C"}

Te(form, n) == [form |-> form, name |-> n]
Decl(kind, n, types) == [kind |-> kind, name |-> n, types |-> types]
TypeKinds == AliasKinds \cup {"struct", "enum"}

(* Three declarations and a function. The first two declare A and B, an    *)
(* alias B under a reference, an enum B of i32 without a payload; the third *)
(* declares C or A again, with one field or payload more.                  *)
Second(kind, n) ==
    Decl(kind, "B", IF kind = "enum" /\ n = "i32" THEN <<>>
                    ELSE <<Te(IF kind = "alias" THEN "ref" ELSE "plain", n)>>)
Third == (TypeKinds \X {"C"}) \cup {<<"struct", "A">>, <<"enum", "A">>, <<"alias", "A">>}

MCModules ==
    {<<Decl(k1, "A", <<Te("plain", n1)>>), Second(k2, n2),
       Decl(d3[1], d3[2], <<Te("plain", n3), Te("ptr", "B")>>),
       Decl("func", "A", <<Te("ref", "A"), Te("plain", "A")>>)>> :
        k1 \in TypeKinds, k2 \in TypeKinds, d3 \in Third,
        n1 \in MCNames, n2 \in MCNames, n3 \in {"A", "i32"}}
=============================================================================
