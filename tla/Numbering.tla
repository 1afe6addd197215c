------------------------------ MODULE Numbering -------------------------------
(***************************************************************************)
(* What base/intern.h promises: identical strings get the same id, ids     *)
(* count from 1, and the string of an id never changes. A call is made,    *)
(* takes effect once and returns.                                          *)
(***************************************************************************)
EXTENDS Naturals, Sequences

CONSTANTS Strings, NoString

VARIABLES names,   \* the string of every id
          asked,   \* the string being interned, or NoString
          got      \* the id returned last

NumberingInit == names = <<>> /\ asked = NoString /\ got = 0

CallIntern(s) == asked = NoString /\ asked' = s /\ UNCHANGED <<names, got>>

Known ==
    /\ \E id \in DOMAIN names : names[id] = asked /\ got' = id
    /\ asked' = NoString /\ UNCHANGED names

Fresh ==
    /\ asked # NoString
    /\ \A id \in DOMAIN names : names[id] # asked
    /\ names' = Append(names, asked) /\ got' = Len(names')
    /\ asked' = NoString

NumberingNext == Known \/ Fresh \/ \E s \in Strings : CallIntern(s)
NumberingSpec == NumberingInit /\ [][NumberingNext]_<<names, asked, got>>
=============================================================================
