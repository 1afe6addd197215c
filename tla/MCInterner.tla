------------------------------ MODULE MCInterner ------------------------------
EXTENDS Interner

(* The empty string and two that are as long as each other.                *)
MCStrings == {"", "a", "b"}
MCLength  == [s \in MCStrings |-> IF s = "" THEN 0 ELSE 1]
=============================================================================
