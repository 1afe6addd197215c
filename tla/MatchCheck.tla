------------------------------ MODULE MatchCheck -------------------------------
(***************************************************************************)
(* front/types.cc, the arms of a match: what they cover, which arm is      *)
(* flagged as unreachable and what is reported as not handled.             *)
(*                                                                         *)
(* The type of the scrutinee is the set of the values patterns can name:   *)
(* the variants of an enum by number, 0 and 1 of bool, and for an integer  *)
(* one value, "others", that stands for those no literal names.  An arm is *)
(* a record with pat, n and guard (kind "none" when it has none), as in    *)
(* Lower.  Payload types and the types of the bodies are left out.         *)
(***************************************************************************)
EXTENDS Integers, Sequences

EnumType(n) == [kind |-> "enum", values |-> 0..n - 1]
BoolType    == [kind |-> "bool", values |-> {0, 1}]
IntType     == [kind |-> "int", values |-> {"others"}]

Guarded(arm) == arm.guard.k # "none"

(* The pattern may stand in a match on the type.                           *)
Fits(ty, arm) ==
    /\ arm.pat = "variant" => ty.kind = "enum" /\ arm.n \in ty.values
    /\ arm.pat = "bool"    => ty.kind = "bool"
    /\ arm.pat = "lit"     => ty.kind = "int"

(* What the arm adds to covered[], saw_bool_true and saw_bool_false, and   *)
(* to saw_catchall.                                                        *)
PatValue(arm)   == IF arm.pat \in {"variant", "bool"} THEN {arm.n} ELSE {}
(* Faulty variant: the guard is not looked at.                             *)
Covers_Guarded(arm) == PatValue(arm)
Covers(arm)     == IF Guarded(arm) THEN {} ELSE PatValue(arm)
CatchesAll(arm) == arm.pat \in {"bind", "wild"} /\ ~Guarded(arm)

Covered(arms, i)     == UNION {Covers(arms[j]) : j \in 1..i - 1}
SawCatchall(arms, i) == \E j \in 1..i - 1 : CatchesAll(arms[j])

(* "unreachable match arm: already covered by an earlier arm": a guarded   *)
(* arm is flagged behind a catch-all only.                                 *)
Flagged(arms, i) ==
    \/ SawCatchall(arms, i)
    \/ ~Guarded(arms[i]) /\ PatValue(arms[i]) \cap Covered(arms, i) # {}

NotHandled(ty, arms) ==
    IF SawCatchall(arms, Len(arms) + 1) THEN {} ELSE ty.values \ Covered(arms, Len(arms) + 1)

Accepted(ty, arms) ==
    /\ \A i \in 1..Len(arms) : Fits(ty, arms[i])
    /\ NotHandled(ty, arms) = {}

-----------------------------------------------------------------------------
(* What the arms mean when the match runs: the values v a scrutinee of the *)
(* type can have, and those the pattern of an arm takes.                   *)
Types == {EnumType(n) : n \in Nat} \cup {BoolType, IntType}
Inhabits(v, ty) ==
    /\ ty.kind = "enum" => v.tag \in ty.values
    /\ ty.kind = "bool" => v \in {0, 1}
    /\ ty.kind = "int"  => v \in Int
Matches(arm, v) ==
    /\ arm.pat = "variant"         => v.tag = arm.n
    /\ arm.pat \in {"lit", "bool"} => v = arm.n

(* The arm that runs, when the guard of arm j holds iff holds[j] does.     *)
Takes(arms, i, v, holds) == Matches(arms[i], v) /\ (Guarded(arms[i]) => holds[i])
Runs(arms, i, v, holds) ==
    Takes(arms, i, v, holds) /\ \A j \in 1..i - 1 : ~Takes(arms, j, v, holds)
================================================================================
