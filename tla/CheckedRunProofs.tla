--------------------------- MODULE CheckedRunProofs ----------------------------
(***************************************************************************)
(* Theorems about CheckedRun, for every set of names and bodies: the run   *)
(* keeps its shape; a body the checker accepts never reads a value it has  *)
(* moved away, as long as it keeps to the positions the checker follows;   *)
(* it discharges every @must_defer value it makes, as long as it keeps to  *)
(* the forms whose discharge check_must_defer can see; and it never uses   *)
(* an invalidated reference, as long as the checker follows its handles.   *)
(* Every match of an accepted body (MatchCheck) runs one of its arms.      *)
(***************************************************************************)
EXTENDS CheckedRun, BorrowCheckProofs, NaturalLemmas

Arms == INSTANCE MatchCheck

-----------------------------------------------------------------------------
(* Where a run is: between statements, or at a step of one.  What is       *)
(* registered is a statement with a defer in it.                           *)
HasDefer(st) == \E k \in 1..Len(st) : st[k].op = "defer"

Cursor ==
    /\ ri \in 1..(Len(prog) + 1) /\ rk \in Nat \ {0}
    /\ mode = "idle" => ri = 1 /\ rk = 1
    /\ ri <= Len(prog) => rk <= Len(prog[ri])
    /\ \A i \in 1..Len(pending) : HasDefer(prog[pending[i]])
    /\ mode = "defers" /\ ri <= Len(prog) => pending # <<>> /\ HasDefer(prog[ri])

RunInv == TypeOK /\ prog \in Programs /\ RunTypeOK /\ Cursor

LEMMA BodyFacts ==
    ASSUME TypeOK, prog \in Programs, NEW j \in 1..Len(prog)
    PROVE  /\ prog[j] \in Seq(Step) /\ Len(prog[j]) \in Nat \ {0} /\ Len(prog) \in Nat
           /\ \A k \in 1..Len(prog[j]) : prog[j][k] \in Step
           /\ prog[j][Len(prog[j])].op \in EndOps
<1>1. prog[j] \in Seq(Step) \ {<<>>}
  BY DEF TypeOK
<1>2. Len(prog[j]) \in Nat \ {0} /\ Len(prog) \in Nat
  BY <1>1 DEF TypeOK
<1> QED
  BY <1>1, <1>2, StatementsAssumption

LEMMA NowType ==
    ASSUME RunInv, NEW os, Doing(os)
    PROVE  /\ Now \in Step /\ Now.op \in os
           /\ ri \in 1..Len(prog) /\ rk \in 1..Len(prog[ri]) /\ rk \in Nat \ {0}
<1>1. ri \in 1..Len(prog) /\ rk \in Nat \ {0}
  BY DEF RunInv, Cursor, Doing, TypeOK
<1>2. rk \in 1..Len(prog[ri])
  BY <1>1, BodyFacts DEF RunInv, Cursor, Doing
<1> QED
  BY <1>1, <1>2, BodyFacts DEF Doing, Now, RunInv

(* Where a step that goes on, or branches, leads.                          *)
LEMMA StepsOn ==
    ASSUME RunInv, NEW os, Doing(os), Step1, UNCHANGED prog
    PROVE  Cursor' /\ pending' \in Seq(1..Len(prog)) /\ mode' = mode
<1>1. /\ ri \in 1..Len(prog) /\ rk \in 1..Len(prog[ri]) /\ rk \in Nat
      /\ Len(prog) \in Nat /\ Len(prog[ri]) \in Nat
  BY NowType, BodyFacts DEF RunInv
<1>2. pending \in Seq(1..Len(prog)) /\ Running
  BY DEF RunInv, RunTypeOK, Doing
<1>3. CASE rk < Len(prog[ri])
  <2>1. rk' = rk + 1 /\ ri' = ri /\ mode' = mode /\ pending' = pending
    BY <1>3 DEF Step1
  <2> QED
    BY <1>1, <1>2, <1>3, <2>1 DEF Cursor, RunInv, Running
<1>4. CASE rk = Len(prog[ri]) /\ mode = "body"
  <2>1. rk' = 1 /\ ri' = ri + 1 /\ mode' = mode /\ pending' = pending
    BY <1>1, <1>4 DEF Step1
  <2>2. ri + 1 <= Len(prog) => 1 <= Len(prog[ri + 1])
    BY <1>1, BodyFacts DEF RunInv
  <2> QED
    BY <1>1, <1>2, <1>4, <2>1, <2>2 DEF Cursor, RunInv
<1>5. CASE rk = Len(prog[ri]) /\ mode # "body"
  <2>1. /\ pending' = SubSeq(pending, 1, Len(pending) - 1)
        /\ rk' = 1 /\ ri' = Len(prog) + 1 /\ mode' = mode
    BY <1>1, <1>5 DEF Step1
  <2>2. mode = "defers"
    BY <1>2, <1>5 DEF Running
  <2>3. pending # <<>>
    BY <1>1, <2>2 DEF Cursor, RunInv
  <2>4. pending' \in Seq(1..Len(prog))
    BY <1>2, <2>1, <2>3, LastAndFront
  <2>5. \A i \in 1..Len(pending') : i \in 1..Len(pending) /\ pending'[i] = pending[i]
    BY <1>2, <2>1, <2>3, FrontOf
  <2>6. \A i \in 1..Len(pending') : HasDefer(prog[pending'[i]])
    BY <2>5 DEF Cursor, RunInv
  <2> QED
    BY <1>1, <2>1, <2>2, <2>4, <2>6 DEF Cursor
<1> QED
  BY <1>1, <1>3, <1>4, <1>5

LEMMA BranchesOn ==
    ASSUME RunInv, Doing({"split", "jump", "break", "back"}), Branch(Now.to), UNCHANGED prog
    PROVE  /\ Cursor' /\ pending' = pending /\ mode' = mode /\ ri' = ri
           /\ rk' = Now.to /\ rk' \in 1..Len(prog[ri])
<1>1. /\ ri \in 1..Len(prog) /\ rk \in 1..Len(prog[ri])
      /\ Now.op \in {"split", "jump", "break", "back"}
  BY NowType
<1>2. Now.to \in 1..Len(prog[ri])
  BY <1>1, BranchesAssumption DEF Now, RunInv
<1>3. Len(prog[ri]) \in Nat /\ Len(prog) \in Nat
  BY <1>1, BodyFacts DEF RunInv
<1>4. rk' = Now.to /\ ri' = ri /\ mode' = mode /\ pending' = pending
  BY DEF Branch
<1> HIDE DEF Now
<1> QED
  BY <1>1, <1>2, <1>3, <1>4 DEF Cursor, RunInv, Doing, Running

(* Bookkeeping keeps its types.                                            *)
LEMMA SpoilType ==
    ASSUME NEW r \in Reference, NEW n, NEW all
    PROVE  Spoil(r, n, all) \in Reference /\ Spoil(r, n, all).on = r.on
  BY Zenon DEF Spoil, Reference

LEMMA SlotsType ==
    ASSUME NEW s \in [Names -> Slot], NEW n, NEW all
    PROVE  SpoilSlots(s, n, all) \in [Names -> Slot]
<1>1. \A m \in Names : [s[m] EXCEPT !.ref = Spoil(@, n, all)] \in Slot
  BY SpoilType DEF Slot
<1> QED
  BY <1>1 DEF SpoilSlots

LEMMA TempsType ==
    ASSUME temps \in Seq(Reference), NEW n, NEW all
    PROVE  SpoilTemps(n, all) \in Seq(Reference) /\ Len(SpoilTemps(n, all)) = Len(temps)
<1>1. Len(temps) \in Nat /\ \A i \in 1..Len(temps) : temps[i] \in Reference
  OBVIOUS
<1>2. \A i \in 1..Len(temps) : Spoil(temps[i], n, all) \in Reference
  BY <1>1, SpoilType
<1> QED
  BY <1>1, <1>2 DEF SpoilTemps

LEMMA HeldType == \A ts \in Seq(Reference) : Held(ts) \in Seq(Reference)
  BY DEF Held

LEMMA ReboundType ==
    ASSUME NEW s \in [Names -> Slot], NEW n, NEW new \in Slot
    PROVE  Rebound(s, n, new) \in [Names -> Slot]
<1>1. SpoilSlots(s, StoredAgain, TRUE) \in [Names -> Slot]
  BY SlotsType
<1> QED
  BY <1>1 DEF Rebound

LEMMA NewSlotType ==
    ASSUME NEW v \in {"none", "whole", "gone"}, NEW t \in Types, NEW r \in Reference
    PROVE  [value |-> v, type |-> t, ref |-> r] \in Slot
  BY DEF Slot

LEMMA ValueType ==
    ASSUME NEW s \in [Names -> Slot], NEW n \in Names, NEW v \in {"none", "whole", "gone"}
    PROVE  [s EXCEPT ![n].value = v] \in [Names -> Slot]
<1>1. [s[n] EXCEPT !.value = v] \in Slot
  BY DEF Slot
<1> QED
  BY <1>1

LEMMA RefType == NoRef \in Reference /\ \A n \in Names, m \in BOOLEAN : NewRef(n, m) \in Reference
  BY DEF NoRef, NewRef, Reference

LEMMA GivenType ==
    ASSUME RunInv, Now \in Step PROVE Given \in Reference
<1>1. slot[Now.target].ref \in Reference
  BY DEF RunInv, RunTypeOK, Slot, Step
<1>2. temps \in Seq(Reference)
  BY DEF RunInv, RunTypeOK
<1> QED
  BY <1>1, <1>2, LastAndFront DEF Given

LEMMA StoredType ==
    ASSUME RunInv, Now \in Step, NEW s \in [Names -> Slot], NEW n \in Names
    PROVE  Stored(s[n]) \in Slot /\ [s EXCEPT ![n] = Stored(@)] \in [Names -> Slot]
<1>1. Given \in Reference
  BY GivenType
<1>2. Stored(s[n]) \in Slot
  BY <1>1 DEF Stored, Slot
<1> QED
  BY <1>2

LEMMA BorrowFaultsType == \A n : BorrowFaults(n) \subseteq FaultKinds
  BY DEF BorrowFaults, FaultKinds

LEMMA InitRunInv == CRInit => RunInv
<1> SUFFICES ASSUME CRInit PROVE RunInv
  OBVIOUS
<1>1. TypeOK /\ prog \in Programs
  BY InitTypeOK DEF CRInit, Init
<1>2. Empty \in Slot
  BY RefType DEF Empty, Slot, Types
<1>3. /\ mode = "idle" /\ ri = 1 /\ rk = 1 /\ slot = [n \in Names |-> Empty]
      /\ temps = <<>> /\ pending = <<>> /\ rounds = 0 /\ owed = {} /\ faults = {}
  BY DEF CRInit, RunInit
<1>4. RunTypeOK
  BY <1>2, <1>3, RunAssumption DEF RunTypeOK
<1>5. Len(prog) \in Nat /\ (1 <= Len(prog) => 1 <= Len(prog[1]))
  <2>1. Len(prog) \in Nat
    BY <1>1 DEF TypeOK
  <2> QED
    BY <1>1, <2>1, BodyFacts
<1>6. Cursor
  BY <1>3, <1>5 DEF Cursor
<1> QED
  BY <1>1, <1>4, <1>6 DEF RunInv

LEMMA RunKeepsType == RunInv /\ RunNext /\ UNCHANGED vars => RunInv'
<1> SUFFICES ASSUME RunInv, RunNext, UNCHANGED vars PROVE RunInv'
  OBVIOUS
<1>1. TypeOK' /\ prog' = prog /\ prog' \in Programs
  BY NextTypeOK DEF RunInv, vars
<1>2. /\ slot \in [Names -> Slot] /\ temps \in Seq(Reference) /\ pending \in Seq(1..Len(prog))
      /\ rounds \in 0..MaxIterations /\ owed \subseteq Names /\ faults \subseteq FaultKinds
      /\ mode \in {"idle", "body", "defers", "done"}
  BY DEF RunInv, RunTypeOK
<1> DEFINE Data ==
             /\ slot' \in [Names -> Slot] /\ temps' \in Seq(Reference)
             /\ rounds' \in 0..MaxIterations /\ owed' \subseteq Names /\ faults' \subseteq FaultKinds
           Control ==
             /\ Cursor' /\ pending' \in Seq(1..Len(prog))
             /\ mode' \in {"idle", "body", "defers", "done"}
<1>3. Data /\ Control => RunInv'
  BY <1>1 DEF RunInv, RunTypeOK
<1>4. \A os : Doing(os) => /\ Now \in Step /\ Now.name \in Names /\ Now.target \in Names
                          /\ Now.type \in Types /\ Now.excl \in BOOLEAN
  BY NowType DEF Step
<1>5. \A os : Doing(os) /\ Step1 => Control
  BY <1>1, <1>2, StepsOn
<1>6. \A f : f \subseteq FaultKinds /\ Fault(f) => faults' \subseteq FaultKinds
  BY <1>2 DEF Fault
<1> HIDE DEF Control
<1>7. CASE RunUse
  <2>1. faults' \subseteq FaultKinds
    BY <1>6, <1>7 DEF RunUse, FaultKinds
  <2> QED
    BY <1>2, <1>3, <1>5, <1>7, <2>1 DEF RunUse
<1>8. CASE RunRef
  <2>1. faults' \subseteq FaultKinds
    BY <1>6, <1>8, BorrowFaultsType DEF RunRef
  <2>2. slot' \in [Names -> Slot]
    BY <1>2, <1>8, SlotsType DEF RunRef
  <2>3. temps' \in Seq(Reference)
    <3>1. NewRef(Now.name, Now.excl) \in Reference
      BY <1>4, <1>8, RefType DEF RunRef
    <3> QED
      BY <1>2, <1>8, <3>1, TempsType DEF RunRef
  <2> QED
    BY <1>2, <1>3, <1>5, <1>8, <2>1, <2>2, <2>3 DEF RunRef
<1>9. CASE RunTransfer
  <2>1. CASE IsCopy(slot[Now.name].type)
    BY <1>2, <1>3, <1>5, <1>9, <2>1 DEF RunTransfer
  <2>2. CASE ~IsCopy(slot[Now.name].type)
    <3>1. faults' \subseteq FaultKinds
      BY <1>6, <1>9, <2>2 DEF RunTransfer, FaultKinds
    <3>2. [slot EXCEPT ![Now.name].value = "gone"] \in [Names -> Slot]
      BY <1>2, <1>4, <1>9, ValueType DEF RunTransfer
    <3>3. /\ slot' = SpoilSlots([slot EXCEPT ![Now.name].value = "gone"], Now.name, TRUE)
          /\ temps' = SpoilTemps(Now.name, TRUE)
      BY <1>9, <2>2 DEF RunTransfer
    <3>4. slot' \in [Names -> Slot] /\ temps' \in Seq(Reference)
      BY <1>2, <3>2, <3>3, SlotsType, TempsType
    <3> QED
      BY <1>2, <1>3, <1>5, <1>9, <3>1, <3>4 DEF RunTransfer
  <2> QED
    BY <2>1, <2>2
<1>10. CASE RunAssign
  <2>1. [slot EXCEPT ![Now.name] = Stored(@)] \in [Names -> Slot]
    BY <1>2, <1>4, <1>10, StoredType DEF RunAssign
  <2>2. slot' \in [Names -> Slot] /\ temps' \in Seq(Reference)
    BY <1>2, <1>10, <2>1, SlotsType, TempsType DEF RunAssign
  <2> QED
    BY <1>2, <1>3, <1>5, <1>10, <2>2 DEF RunAssign
<1>11. CASE RunField
  <2>1. CASE IsRef(slot[Now.name].type)
    <3> DEFINE r == slot[Now.name].ref
               s == SpoilSlots(slot, r.on, TRUE)
    <3>1. faults' \subseteq FaultKinds
      BY <1>6, <1>11, <2>1 DEF RunField, FaultKinds
    <3>2. s \in [Names -> Slot] /\ r \in Reference
      BY <1>2, <1>4, <1>11, SlotsType DEF RunField, Slot
    <3>3. /\ Doing({"field"}) /\ Step1 /\ UNCHANGED <<rounds, owed>>
          /\ slot' = [s EXCEPT ![Now.name].ref = r] /\ temps' = SpoilTemps(r.on, TRUE)
      BY <1>11, <2>1 DEF RunField
    <3> HIDE DEF s, r
    <3>4. temps' \in Seq(Reference)
      BY <1>2, <3>3, TempsType
    <3>5. slot' \in [Names -> Slot]
      <4>1. [s[Now.name] EXCEPT !.ref = r] \in Slot
        BY <1>4, <1>11, <3>2 DEF RunField, Slot
      <4> QED
        BY <3>2, <3>3, <4>1
    <3> QED
      BY <1>2, <1>3, <1>5, <3>1, <3>3, <3>4, <3>5
  <2>2. CASE ~IsRef(slot[Now.name].type)
    <3>1. faults' \subseteq FaultKinds
      BY <1>6, <1>11, <2>2, BorrowFaultsType DEF RunField
    <3>2. slot' \in [Names -> Slot] /\ temps' \in Seq(Reference)
      <4>1. slot' = SpoilSlots(slot, Now.name, TRUE) /\ temps' = SpoilTemps(Now.name, TRUE)
        BY <1>11, <2>2 DEF RunField
      <4> QED
        BY <1>2, <4>1, SlotsType, TempsType
    <3> QED
      BY <1>2, <1>3, <1>5, <1>11, <3>1, <3>2 DEF RunField
  <2> QED
    BY <2>1, <2>2
<1>12. CASE RunLet
  <2>1. (IF IsRef(Now.type) THEN Given ELSE NoRef) \in Reference
    BY <1>4, <1>12, GivenType, RefType DEF RunLet
  <2>2. slot' \in [Names -> Slot]
    BY <1>2, <1>4, <1>12, <2>1, NewSlotType, ReboundType DEF RunLet
  <2>3. temps' \in Seq(Reference) /\ owed' \subseteq Names
    BY <1>2, <1>4, <1>12, HeldType DEF RunLet
  <2> QED
    BY <1>2, <1>3, <1>5, <1>12, <2>2, <2>3 DEF RunLet
<1>13. CASE RunLetRef
  <2>1. faults' \subseteq FaultKinds
    BY <1>6, <1>13, BorrowFaultsType DEF RunLetRef
  <2>2. SpoilSlots(slot, Now.target, Now.excl) \in [Names -> Slot]
    BY <1>2, SlotsType
  <2>3. (IF Now.excl THEN "refmut" ELSE "ref") \in Types
    BY DEF Types
  <2>4. NewRef(Now.target, Now.excl) \in Reference
    BY <1>4, <1>13, RefType DEF RunLetRef
  <2>5. slot' \in [Names -> Slot]
    BY <1>13, <2>2, <2>3, <2>4, NewSlotType, ReboundType DEF RunLetRef
  <2>6. temps' \in Seq(Reference)
    BY <1>2, <1>13, TempsType, HeldType DEF RunLetRef
  <2> QED
    BY <1>2, <1>3, <1>5, <1>13, <2>1, <2>5, <2>6 DEF RunLetRef
<1>14. CASE RunCall
  <2>1. faults' \subseteq FaultKinds
    BY <1>6, <1>14 DEF RunCall, FaultKinds
  <2>2. temps' \in Seq(Reference)
    <3>1. temps' = SubSeq(temps, 1, Len(temps) - Now.to) /\ Now.to \in Nat
      BY <1>4, <1>14 DEF RunCall, Step
    <3>2. \A i \in 1..(Len(temps) - Now.to) : temps[i] \in Reference
      BY <1>2, <3>1
    <3>3. 1 \in Int /\ Len(temps) - Now.to \in Int
      BY <1>2, <3>1
    <3> QED
      BY <3>1, <3>2, <3>3, SubSeqProperties
  <2> QED
    BY <1>2, <1>3, <1>5, <1>14, <2>1, <2>2 DEF RunCall
<1>15. CASE RunSplit \/ RunJump \/ RunBack
  <2>1. Doing({"split", "jump", "break", "back"})
    BY <1>15 DEF RunSplit, RunJump, RunBack, Doing
  <2>2. Branch(Now.to) => Control
    BY <1>1, <1>2, <2>1, BranchesOn DEF Control
  <2>3. rounds' \in 0..MaxIterations
    BY <1>2, <1>15, RunAssumption DEF RunSplit, RunJump, RunBack
  <2>4. UNCHANGED <<slot, temps, owed, faults>> /\ (Branch(Now.to) \/ Step1)
    BY <1>15 DEF RunSplit, RunJump, RunBack
  <2> QED
    BY <1>2, <1>3, <1>5, <2>1, <2>2, <2>3, <2>4
<1>16. CASE RunDefer
  <2>1. /\ Now.op = "defer" /\ ri \in 1..Len(prog) /\ rk \in 1..Len(prog[ri]) /\ mode = "body"
        /\ Len(prog) \in Nat
    BY <1>16, NowType, BodyFacts DEF RunDefer, RunInv
  <2>2. HasDefer(prog[ri])
    BY <2>1 DEF HasDefer, Now
  <2>3. pending' \in Seq(1..Len(prog)) /\ Len(pending') = Len(pending) + 1
        /\ \A i \in 1..Len(pending') : HasDefer(prog[pending'[i]])
    <3>1. pending' = Append(pending, ri)
      BY <1>16 DEF RunDefer
    <3> QED
      BY <1>2, <2>1, <2>2, <3>1 DEF RunInv, Cursor
  <2>4. ri + 1 <= Len(prog) => 1 <= Len(prog[ri + 1])
    BY <2>1, BodyFacts DEF RunInv
  <2>5. ri' = ri + 1 /\ rk' = 1 /\ mode' = "body"
    BY <1>16, <2>1 DEF RunDefer
  <2>6. Control
    BY <1>1, <2>1, <2>3, <2>4, <2>5 DEF Control, Cursor
  <2> QED
    BY <1>2, <1>3, <1>16, <2>6 DEF RunDefer
<1>17. CASE RunMark
  BY <1>2, <1>3, <1>5, <1>17, HeldType DEF RunMark
<1>18. CASE RunReturn \/ RunFallOff
  <2>1. Exit
    BY <1>18 DEF RunReturn, RunFallOff
  <2>2. Len(prog) \in Nat
    BY <1>1 DEF TypeOK
  <2>3. Control
    BY <1>1, <1>2, <2>1, <2>2 DEF Exit, Control, Cursor, RunInv
  <2>4. Data
    BY <1>2, <2>1 DEF Exit
  <2> QED
    BY <1>3, <2>3, <2>4
<1>19. CASE RunNextDefer
  <2> DEFINE d == pending[Len(pending)]
  <2>1. /\ ri' = d /\ rk' = 2 /\ owed' \subseteq owed /\ pending # <<>>
        /\ UNCHANGED <<mode, slot, temps, pending, rounds, faults>> /\ mode = "defers"
    BY <1>19 DEF RunNextDefer
  <2>2. d \in 1..Len(prog) /\ Len(pending) \in 1..Len(pending)
    BY <1>2, <2>1, LastAndFront
  <2>3. HasDefer(prog[d])
    BY <2>2 DEF RunInv, Cursor
  <2> HIDE DEF d
  <2>4. PICK k \in 1..Len(prog[d]) : prog[d][k].op = "defer"
    BY <2>3 DEF HasDefer
  <2>5. k # Len(prog[d])
    BY <2>2, <2>4, BodyFacts DEF RunInv, EndOps
  <2>6. 2 <= Len(prog[d])
    BY <2>2, <2>4, <2>5, BodyFacts DEF RunInv
  <2>7. Cursor'
    BY <1>1, <2>1, <2>2, <2>3, <2>6 DEF Cursor, RunInv, TypeOK
  <2> QED
    BY <1>2, <1>3, <2>1, <2>7 DEF Control
<1>20. CASE RunDone
  <2>1. Cursor'
    BY <1>1, <1>20 DEF RunDone, Cursor, RunInv
  <2> QED
    BY <1>2, <1>3, <1>20, <2>1 DEF RunDone, Control
<1> QED
  BY <1>7, <1>8, <1>9, <1>10, <1>11, <1>12, <1>13, <1>14, <1>15, <1>16, <1>17, <1>18, <1>19,
     <1>20 DEF RunNext

LEMMA NextRunInv == RunInv /\ [CRNext]_crVars => RunInv'
<1> SUFFICES ASSUME RunInv, [CRNext]_crVars PROVE RunInv'
  OBVIOUS
<1>1. CASE Run
  BY <1>1, RunKeepsType DEF Run
<1>2. CASE Launch
  <2>1. TypeOK' /\ prog' = prog
    BY <1>2, NextTypeOK DEF RunInv, Launch, vars
  <2>2. RunTypeOK' /\ Cursor'
    BY <1>2, <2>1 DEF Launch, RunInv, RunTypeOK, Cursor
  <2> QED
    BY <2>1, <2>2 DEF RunInv
<1>3. CASE Check \/ Over \/ UNCHANGED crVars
  <2>1. [Next]_vars /\ UNCHANGED runVars
    BY <1>3 DEF Check, Over, crVars, Returned, vars
  <2>2. TypeOK' /\ prog' = prog
    BY <2>1, NextTypeOK, BodyKept DEF RunInv
  <2> QED
    BY <2>1, <2>2 DEF RunInv, RunTypeOK, Cursor, runVars, Running
<1> QED
  BY <1>1, <1>2, <1>3 DEF CRNext

(* Whatever is checked and run, the run stays within the body, and what it *)
(* keeps of values, references, defers and faults has its shape.           *)
THEOREM RunTyped == CRSpec => []RunTypeOK
<1>1. RunInv => RunTypeOK
  BY DEF RunInv
<1> QED
  BY <1>1, InitRunInv, NextRunInv, PTL DEF CRSpec

-----------------------------------------------------------------------------
(* What the text says of a name at a place: whether the value of the       *)
(* binding it has there can be moved, and whether it was moved since.      *)
Owns(p, q) == StepAt(p, q).op # "letref" /\ ~IsCopy(StepAt(p, q).type)
OwnedAt(p, n, r) == \E b \in Steps(p) : LastBinding(p, b, n, r) /\ Owns(p, b)
MovedAt(p, q, n) == Does(p, q, {"move"}, n) /\ OwnedAt(p, n, q)
GoneAt(p, n, r) ==
    \E q \in Steps(p) : MovedAt(p, q, n) /\ Before(q, r) /\ NoBinding(p, q, r, n)

(* r is the place after step q.                                            *)
Follows(p, q, r) == \A s \in Steps(p) : Before(s, r) <=> Before(s, q) \/ s = q

LEMMA StepFacts ==
    ASSUME NEW p \in Programs, NEW q \in Steps(p)
    PROVE  /\ q = <<q[1], q[2]>> /\ q[1] \in 1..Len(p) /\ q[2] \in 1..Len(p[q[1]])
           /\ q[1] \in Nat /\ q[2] \in Nat /\ StepAt(p, q) \in Step
<1>1. PICK i \in 1..Len(p) : q \in {<<i, k>> : k \in 1..Len(p[i])}
  BY Zenon DEF Steps
<1>2. PICK k \in 1..Len(p[i]) : q = <<i, k>>
  BY <1>1
<1>3. p \in Seq(Seq(Step) \ {<<>>})
  BY ProgramsAssumption
<1>4. Len(p) \in Nat /\ p[i] \in Seq(Step)
  BY <1>3
<1>5. Len(p[i]) \in Nat /\ p[i][k] \in Step
  BY <1>4
<1> QED
  BY <1>2, <1>4, <1>5 DEF StepAt

LEMMA StepPlace ==
    ASSUME NEW p, NEW i \in 1..Len(p), NEW k \in 1..Len(p[i])
    PROVE  <<i, k>> \in Steps(p)
<1>1. <<i, k>> \in {<<i, m>> : m \in 1..Len(p[i])}
  OBVIOUS
<1> QED
  BY <1>1, Zenon DEF Steps

LEMMA TextOrder ==
    ASSUME NEW p \in Programs
    PROVE  /\ \A q \in Steps(p) : ~Before(q, q)
           /\ \A q, r \in Steps(p) : q = r \/ Before(q, r) \/ Before(r, q)
           /\ \A q, r, s \in Steps(p) : Before(q, r) /\ Before(r, s) => Before(q, s)
<1>1. \A q \in Steps(p) : q = <<q[1], q[2]>> /\ q[1] \in Nat /\ q[2] \in Nat
  BY StepFacts
<1>2. ASSUME NEW q \in Steps(p), NEW r \in Steps(p)
      PROVE  ~Before(q, q) /\ (q = r \/ Before(q, r) \/ Before(r, q))
  BY <1>1 DEF Before
<1>3. ASSUME NEW q \in Steps(p), NEW r \in Steps(p), NEW s \in Steps(p),
             Before(q, r), Before(r, s)
      PROVE  Before(q, s)
  BY <1>1, <1>3 DEF Before
<1> QED
  BY <1>2, <1>3

(* The place after a step, in its statement or at the start of the next.   *)
LEMMA FollowsOn ==
    ASSUME NEW p \in Programs, NEW i \in 1..Len(p), NEW k \in 1..Len(p[i])
    PROVE  /\ Follows(p, <<i, k>>, <<i, k + 1>>)
           /\ k = Len(p[i]) => Follows(p, <<i, k>>, <<i + 1, 1>>)
<1>1. <<i, k>> \in Steps(p)
  BY StepPlace
<1>2. i \in Nat /\ k \in Nat
  BY <1>1, StepFacts
<1>3. \A s \in Steps(p) : Before(s, <<i, k + 1>>) <=> Before(s, <<i, k>>) \/ s = <<i, k>>
  <2> SUFFICES ASSUME NEW s \in Steps(p)
               PROVE  Before(s, <<i, k + 1>>) <=> Before(s, <<i, k>>) \/ s = <<i, k>>
    OBVIOUS
  <2>1. s = <<s[1], s[2]>> /\ s[1] \in Nat /\ s[2] \in Nat
    BY StepFacts
  <2> QED
    BY <1>2, <2>1 DEF Before
<1>4. ASSUME k = Len(p[i]), NEW s \in Steps(p)
      PROVE  Before(s, <<i + 1, 1>>) <=> Before(s, <<i, k>>) \/ s = <<i, k>>
  <2>1. s = <<s[1], s[2]>> /\ s[1] \in Nat /\ s[2] \in Nat /\ s[2] \in 1..Len(p[s[1]])
    BY StepFacts
  <2>2. s[1] = i => s[2] <= k
    BY <1>2, <1>4, <2>1
  <2>3. s[2] >= 1
    BY <2>1, <1>2
  <2> QED
    BY <1>2, <2>1, <2>2, <2>3 DEF Before
<1> QED
  BY <1>3, <1>4 DEF Follows

LEMMA LastIsOne ==
    ASSUME NEW p \in Programs, NEW b, NEW c, NEW n, NEW r,
           LastBinding(p, b, n, r), LastBinding(p, c, n, r)
    PROVE  b = c
  BY TextOrder DEF LastBinding, NoBinding

(* What passing a step changes.                                            *)
LEMMA BindingPassed ==
    ASSUME NEW p \in Programs, NEW q \in Steps(p), NEW r, Follows(p, q, r), NEW n
    PROVE  /\ Binds(p, q, n) => LastBinding(p, q, n, r)
           /\ ~Binds(p, q, n) => \A b : LastBinding(p, b, n, q) => LastBinding(p, b, n, r)
<1>1. ~Before(q, q)
  BY TextOrder
<1>2. ASSUME Binds(p, q, n) PROVE LastBinding(p, q, n, r)
  BY <1>1, <1>2, TextOrder DEF LastBinding, NoBinding, Follows
<1>3. ASSUME ~Binds(p, q, n), NEW b, LastBinding(p, b, n, q) PROVE LastBinding(p, b, n, r)
  BY <1>3 DEF LastBinding, NoBinding, Follows
<1> QED
  BY <1>2, <1>3

LEMMA GonePassed ==
    ASSUME NEW p \in Programs, NEW q \in Steps(p), NEW r, Follows(p, q, r), NEW n
    PROVE  /\ GoneAt(p, n, r) => ~Binds(p, q, n) /\ (GoneAt(p, n, q) \/ MovedAt(p, q, n))
           /\ MovedAt(p, q, n) => GoneAt(p, n, r)
           /\ ~Binds(p, q, n) /\ GoneAt(p, n, q) => GoneAt(p, n, r)
<1>1. ~Before(q, q) /\ Before(q, r)
  BY TextOrder DEF Follows
<1>2. ASSUME GoneAt(p, n, r) PROVE ~Binds(p, q, n) /\ (GoneAt(p, n, q) \/ MovedAt(p, q, n))
  <2>1. PICK m \in Steps(p) : MovedAt(p, m, n) /\ Before(m, r) /\ NoBinding(p, m, r, n)
    BY <1>2 DEF GoneAt
  <2>2. CASE m = q
    BY <2>1, <2>2 DEF MovedAt, Does, Binds
  <2>3. CASE Before(m, q)
    <3>1. ~Binds(p, q, n)
      BY <1>1, <2>1, <2>3 DEF NoBinding
    <3>2. NoBinding(p, m, q, n)
      BY <2>1 DEF NoBinding, Follows
    <3> QED
      BY <2>1, <2>3, <3>1, <3>2 DEF GoneAt
  <2> QED
    BY <2>1, <2>2, <2>3 DEF Follows
<1>3. ASSUME MovedAt(p, q, n) PROVE GoneAt(p, n, r)
  <2>1. NoBinding(p, q, r, n)
    BY <1>1, TextOrder DEF NoBinding, Follows
  <2> QED
    BY <1>1, <1>3, <2>1 DEF GoneAt
<1>4. ASSUME ~Binds(p, q, n), GoneAt(p, n, q) PROVE GoneAt(p, n, r)
  <2>1. PICK m \in Steps(p) : MovedAt(p, m, n) /\ Before(m, q) /\ NoBinding(p, m, q, n)
    BY <1>4 DEF GoneAt
  <2>2. Before(m, r) /\ NoBinding(p, m, r, n)
    BY <1>4, <2>1 DEF NoBinding, Follows
  <2> QED
    BY <2>1, <2>2 DEF GoneAt
<1> QED
  BY <1>2, <1>3, <1>4

-----------------------------------------------------------------------------
(* The checker's scope is the text read up to the cursor: the type of a    *)
(* name is that of its last binding, and a name whose value was moved      *)
(* since is marked.  Pattern names stand in front of none of these.        *)
Here == <<si, ei>>

BoundAsRead(n) ==
    scope[n].bound =>
        \E b \in Steps(prog) :
            LastBinding(prog, b, n, Here) /\ (Owns(prog, b) <=> ~IsCopy(scope[n].type))
MarkedIfGone(n) == GoneAt(prog, n, Here) => scope[n].moved \/ ~scope[n].bound
ScopeRead == \A n \in Transferred(prog) : BoundAsRead(n) /\ MarkedIfGone(n)

SavedUnbound ==
    \A i \in 1..Len(saved) : saved[i].name \in Transferred(prog) => ~saved[i].prev.bound

(* What has been let through: a name is used where it is bound and not     *)
(* gone, and only a root statement is a defer.                             *)
UsesChecked ==
    \A q \in Steps(prog) : \A n \in Transferred(prog) :
        Does(prog, q, {"use"}, n) /\ Before(q, Here) =>
            ~GoneAt(prog, n, q) /\ \E b \in Steps(prog) : LastBinding(prog, b, n, q)
DefersFirst ==
    \A q \in Steps(prog) : StepAt(prog, q).op = "defer" /\ Before(q, Here) => q[2] = 1

Accepted   == errors = {} => ScopeRead /\ SavedUnbound /\ UsesChecked
RootDefers == errors = {} => DefersFirst

LEMMA HereFollows ==
    ASSUME TypeOK, prog \in Programs, NEW ops, At(ops), After
    PROVE  /\ Here \in Steps(prog) /\ Follows(prog, Here, Here') /\ prog' = prog
           /\ StepAt(prog, Here) = Cur /\ Cur.op \in ops /\ Cur \in Step
<1>1. Cur.op \in ops /\ Cur \in Step /\ si \in 1..Len(prog) /\ ei \in 1..Len(prog[si])
  BY CurType
<1>2. Here \in Steps(prog)
  BY <1>1, StepPlace DEF Here
<1>3. Follows(prog, Here, Here')
  <2>1. CASE ei < Len(prog[si])
    <3>1. Here' = <<si, ei + 1>>
      BY <2>1 DEF After, Within, Here
    <3> QED
      BY <1>1, <3>1, FollowsOn DEF Here
  <2>2. CASE ei = Len(prog[si])
    <3>1. Here' = <<si + 1, 1>>
      BY <1>1, <2>2 DEF After, NextStmt, Here
    <3> QED
      BY <1>1, <2>2, <3>1, FollowsOn DEF Here
  <2>3. Len(prog[si]) \in Nat /\ ei \in Nat
    BY <1>1, BodyFacts DEF TypeOK
  <2> QED
    BY <1>1, <2>1, <2>2, <2>3
<1>4. prog' = prog
  BY AfterType
<1> QED
  BY <1>1, <1>2, <1>3, <1>4 DEF Here, StepAt, Cur

(* A step that does not bind n leaves what scope and text say of it.       *)
LEMMA NameKept ==
    ASSUME TypeOK, prog \in Programs, NEW ops, At(ops), After,
           NEW n, BoundAsRead(n), MarkedIfGone(n), ~Binds(prog, Here, n),
           scope'[n].bound =>
               /\ scope[n].bound /\ (IsCopy(scope'[n].type) <=> IsCopy(scope[n].type))
               /\ scope[n].moved => scope'[n].moved,
           MovedAt(prog, Here, n) => scope'[n].moved \/ ~scope'[n].bound
    PROVE  BoundAsRead(n)' /\ MarkedIfGone(n)'
<1>1. Here \in Steps(prog) /\ Follows(prog, Here, Here') /\ prog' = prog
  BY HereFollows
<1>2. ASSUME scope'[n].bound
      PROVE  \E b \in Steps(prog) :
                LastBinding(prog, b, n, Here') /\ (Owns(prog, b) <=> ~IsCopy(scope'[n].type))
  <2>1. PICK b \in Steps(prog) :
            LastBinding(prog, b, n, Here) /\ (Owns(prog, b) <=> ~IsCopy(scope[n].type))
    BY <1>2 DEF BoundAsRead
  <2>2. LastBinding(prog, b, n, Here')
    BY <1>1, <2>1, BindingPassed
  <2> QED
    BY <1>2, <2>1, <2>2
<1>3. ASSUME GoneAt(prog, n, Here') PROVE scope'[n].moved \/ ~scope'[n].bound
  <2>1. GoneAt(prog, n, Here) \/ MovedAt(prog, Here, n)
    BY <1>1, <1>3, GonePassed
  <2> QED
    BY <2>1 DEF MarkedIfGone
<1>4. BoundAsRead(n)'
  BY <1>1, <1>2 DEF BoundAsRead
<1>5. MarkedIfGone(n)'
  BY <1>1, <1>3 DEF MarkedIfGone
<1> QED
  BY <1>4, <1>5

LEMMA NameBound ==
    ASSUME TypeOK, prog \in Programs, NEW ops, At(ops), After,
           NEW n, Binds(prog, Here, n), Owns(prog, Here) <=> ~IsCopy(scope'[n].type)
    PROVE  BoundAsRead(n)' /\ MarkedIfGone(n)'
<1>1. Here \in Steps(prog) /\ Follows(prog, Here, Here') /\ prog' = prog
  BY HereFollows
<1>2. LastBinding(prog, Here, n, Here') /\ ~GoneAt(prog, n, Here')
  BY <1>1, BindingPassed, GonePassed
<1>3. BoundAsRead(n)'
  BY <1>1, <1>2 DEF BoundAsRead
<1>4. MarkedIfGone(n)'
  BY <1>1, <1>2 DEF MarkedIfGone
<1> QED
  BY <1>3, <1>4

CheckInv == TypeOK /\ prog \in Programs /\ Tracked(prog) /\ Accepted

(* The steps of the checker, each for the part of Accepted it is about.    *)
LEMMA NextScopeRead ==
    ASSUME CheckInv, Next, errors' = {}, errors = {}
    PROVE  ScopeRead'
<1>1. /\ TypeOK /\ prog \in Programs /\ ScopeRead /\ SavedUnbound /\ prog' = prog
  BY BodyKept DEF CheckInv, Accepted
<1> SUFFICES ASSUME NEW n \in Transferred(prog) PROVE BoundAsRead(n)' /\ MarkedIfGone(n)'
  BY <1>1 DEF ScopeRead
<1>2. BoundAsRead(n) /\ MarkedIfGone(n) /\ n \in Names
  BY <1>1 DEF ScopeRead, Transferred
<1> DEFINE Goal == BoundAsRead(n)' /\ MarkedIfGone(n)'
<1>3. \A ops : At(ops) => /\ Here \in Steps(prog) /\ StepAt(prog, Here) = Cur
                          /\ Cur.op \in ops /\ Cur \in Step
  <2> SUFFICES ASSUME NEW ops, At(ops)
               PROVE  /\ Here \in Steps(prog) /\ StepAt(prog, Here) = Cur
                      /\ Cur.op \in ops /\ Cur \in Step
    OBVIOUS
  <2>1. Cur.op \in ops /\ Cur \in Step /\ si \in 1..Len(prog) /\ ei \in 1..Len(prog[si])
    BY <1>1, CurType
  <2> QED
    BY <2>1, StepPlace DEF Here, StepAt, Cur
<1>4. \A ops : At(ops) => /\ \A os : Does(prog, Here, os, n) <=> Cur.op \in os /\ Cur.name = n
                          /\ MovedAt(prog, Here, n) => Cur.op = "move" /\ Cur.name = n
  BY <1>3 DEF Does, MovedAt, StepAt
<1>5. \A ops : At(ops) => (Binds(prog, Here, n) <=> Cur.op \in {"let", "letref", "bind"} /\ Cur.name = n)
  BY <1>4 DEF Binds
<1>6. ASSUME NEW ops, At(ops), After, ~Binds(prog, Here, n), "move" \notin ops, scope'[n] = scope[n]
      PROVE  Goal
  <2>1. ~MovedAt(prog, Here, n)
    BY <1>3, <1>4, <1>6
  <2> QED
    BY <1>1, <1>2, <1>6, <2>1, NameKept
<1>7. ASSUME NEW ops, At(ops), After, ops \cap {"let", "letref", "bind", "move"} = {},
             scope' = scope
      PROVE  Goal
  <2>1. ~Binds(prog, Here, n)
    BY <1>3, <1>5, <1>7
  <2> QED
    BY <1>6, <1>7, <2>1
<1>8. ASSUME NEW ops, At(ops), After, Binds(prog, Here, n), Owns(prog, Here) <=> ~IsCopy(scope'[n].type)
      PROVE  Goal
  BY <1>1, <1>8, NameBound
<1>9. scope \in [Names -> Binding]
  BY <1>1 DEF TypeOK
<1> SUFFICES Goal
  OBVIOUS
<1> HIDE DEF Goal
<1>10. CASE MaybeMove
  <2>1. At({"move"}) /\ After
    BY <1>10 DEF MaybeMove
  <2>2. Cur.op = "move" /\ Cur.name \in Names /\ ~Binds(prog, Here, n)
    BY <1>3, <1>5, <2>1 DEF Step
  <2>3. CASE Cur.name # n
    <3>1. scope'[n] = scope[n]
      <4>1. scope' = scope \/ scope' = [scope EXCEPT ![Cur.name] = MarkMoved(@)]
        BY <1>10 DEF MaybeMove
      <4> QED
        BY <1>2, <1>9, <2>2, <2>3, <4>1
    <3>2. ~MovedAt(prog, Here, n)
      BY <1>4, <2>1, <2>3
    <3> QED
      BY <1>1, <1>2, <2>1, <2>2, <3>1, <3>2, NameKept DEF Goal
  <2>4. CASE Cur.name = n
    <3>1. CASE scope[n].bound /\ ~IsCopy(scope[n].type)
      <4>1. scope'[n] = MarkMoved(scope[n])
        BY <1>9, <1>10, <2>2, <2>4, <3>1 DEF MaybeMove
      <4>2. scope'[n].bound = scope[n].bound /\ scope'[n].type = scope[n].type /\ scope'[n].moved
        BY <4>1 DEF MarkMoved
      <4> QED
        BY <1>1, <1>2, <2>1, <2>2, <3>1, <4>2, NameKept DEF Goal
    <3>2. CASE ~(scope[n].bound /\ ~IsCopy(scope[n].type))
      <4>1. scope' = scope
        BY <1>10, <2>4, <3>2 DEF MaybeMove
      <4>2. MovedAt(prog, Here, n) => ~scope[n].bound
        <5> SUFFICES ASSUME OwnedAt(prog, n, Here), scope[n].bound PROVE FALSE
          BY DEF MovedAt
        <5>1. PICK b \in Steps(prog) :
                  LastBinding(prog, b, n, Here) /\ (Owns(prog, b) <=> ~IsCopy(scope[n].type))
          BY <1>2 DEF BoundAsRead
        <5>2. PICK c \in Steps(prog) : LastBinding(prog, c, n, Here) /\ Owns(prog, c)
          BY DEF OwnedAt
        <5>3. b = c
          BY <1>1, <5>1, <5>2, LastIsOne
        <5> QED
          BY <3>2, <5>1, <5>2, <5>3
      <4> QED
        BY <1>1, <1>2, <2>1, <2>2, <4>1, <4>2, NameKept DEF Goal
    <3> QED
      BY <3>1, <3>2
  <2> QED
    BY <2>3, <2>4
<1>11. CASE CheckLet \/ CheckLetRef \/ BindPattern
  <2>1. At({"let", "letref", "bind"}) /\ After
    BY <1>11 DEF CheckLet, CheckLetRef, BindPattern, At
  <2>2. Cur.op \in {"let", "letref", "bind"} /\ Cur.name \in Names /\ Cur.excl \in BOOLEAN
    BY <1>3, <2>1 DEF Step
  <2>3. CASE Cur.name # n
    <3>1. scope'[n] = scope[n]
      <4>1. \E b : scope' = [scope EXCEPT ![Cur.name] = b]
        BY <1>11 DEF CheckLet, CheckLetRef, BindPattern
      <4> QED
        BY <1>2, <1>9, <2>2, <2>3, <4>1
    <3>2. ~Binds(prog, Here, n)
      BY <1>5, <2>1, <2>3
    <3> QED
      BY <1>6, <2>1, <3>1, <3>2
  <2>4. CASE Cur.name = n
    <3>1. Binds(prog, Here, n)
      BY <1>5, <2>1, <2>2, <2>4
    <3>2. CASE CheckLetRef
      <4>1. scope'[n].type \in {"ref", "refmut"}
        <5>1. scope' = [scope EXCEPT ![n] =
                           NewBinding(IF Cur.excl THEN "refmut" ELSE "ref", Cur.mut)]
          BY <2>4, <3>2 DEF CheckLetRef
        <5> QED
          BY <1>2, <1>9, <5>1 DEF NewBinding
      <4>2. ~Owns(prog, Here)
        BY <1>3, <3>2 DEF Owns, CheckLetRef
      <4> QED
        BY <2>1, <3>1, <4>1, <4>2, <1>8 DEF IsCopy
    <3>3. CASE CheckLet \/ BindPattern
      <4>1. scope'[n].type = Cur.type
        BY <1>2, <1>9, <2>4, <3>3 DEF CheckLet, BindPattern, NewBinding
      <4>2. Cur.op # "letref"
        <5>1. At({"let", "bind"})
          BY <3>3 DEF CheckLet, BindPattern, At
        <5> QED
          BY <1>3, <5>1
      <4>3. Owns(prog, Here) <=> ~IsCopy(Cur.type)
        BY <1>3, <2>1, <4>2 DEF Owns
      <4> QED
        BY <2>1, <3>1, <4>1, <4>3, <1>8
    <3> QED
      BY <1>11, <3>2, <3>3
  <2> QED
    BY <2>3, <2>4
<1>12. CASE UnbindPattern
  <2>1. At({"unbind"}) /\ After /\ saved # <<>>
    BY <1>12 DEF UnbindPattern
  <2>2. ~Binds(prog, Here, n) /\ ~MovedAt(prog, Here, n)
    BY <1>3, <1>4, <1>5, <2>1
  <2> DEFINE top == saved[Len(saved)]
  <2>3. top.name \in Names /\ (top.name \in Transferred(prog) => ~top.prev.bound)
    <3>1. saved \in Seq([name : Names, prev : Binding])
      BY <1>1 DEF TypeOK
    <3>2. top \in [name : Names, prev : Binding]
      BY <2>1, <3>1, LastAndFront
    <3>3. Len(saved) \in 1..Len(saved)
      <4>1. Len(saved) \in Nat \ {0}
        BY <2>1, <3>1
      <4> QED
        BY <4>1
    <3> QED
      BY <1>1, <3>2, <3>3 DEF SavedUnbound
  <2>4. scope' = [scope EXCEPT ![top.name] = top.prev]
    BY <1>12 DEF UnbindPattern
  <2> HIDE DEF top
  <2>5. scope'[n] = scope[n] \/ ~scope'[n].bound
    BY <1>2, <1>9, <2>3, <2>4
  <2> QED
    BY <1>1, <1>2, <2>1, <2>2, <2>5, NameKept DEF Goal
<1>13. CASE CheckUse \/ CheckRef \/ CheckAssign \/ CheckFieldAssign \/ EnterLoop
  BY <1>7, <1>13 DEF CheckUse, CheckRef, CheckAssign, CheckFieldAssign, EnterLoop
<1>14. CASE LeaveLoop \/ CheckBreak \/ CheckDefer \/ StmtEnd \/ PassMark
  BY <1>7, <1>14 DEF LeaveLoop, CheckBreak, CheckDefer, StmtEnd, PassMark
<1>15. CASE FinishFunc \/ Returned
  BY <1>1, <1>2, <1>15 DEF FinishFunc, Returned, vars, BoundAsRead, MarkedIfGone, Here, Goal
<1> QED
  BY <1>10, <1>11, <1>12, <1>13, <1>14, <1>15 DEF Next

LEMMA NextSavedUnbound ==
    ASSUME CheckInv, Next, errors' = {}, errors = {}
    PROVE  SavedUnbound'
<1>1. /\ TypeOK /\ prog \in Programs /\ ScopeRead /\ SavedUnbound /\ prog' = prog
      /\ ReboundAtRoot(prog) /\ saved \in Seq([name : Names, prev : Binding])
  BY BodyKept DEF CheckInv, Accepted, Tracked, TypeOK
<1>2. CASE BindPattern
  <2> DEFINE e == [name |-> Cur.name, prev |-> scope[Cur.name]]
  <2>1. At({"bind"}) /\ After /\ saved' = Append(saved, e)
    BY <1>2 DEF BindPattern
  <2>2. /\ Here \in Steps(prog) /\ Follows(prog, Here, Here') /\ StepAt(prog, Here) = Cur
        /\ Cur.op = "bind" /\ Cur.name \in Names
    BY <1>1, <2>1, HereFollows DEF Step
  <2>3. Cur.name \in Transferred(prog) => ~scope[Cur.name].bound
    <3> SUFFICES ASSUME Cur.name \in Transferred(prog), scope[Cur.name].bound PROVE FALSE
      OBVIOUS
    <3>1. PICK b \in Steps(prog) : LastBinding(prog, b, Cur.name, Here)
      BY <1>1 DEF ScopeRead, BoundAsRead
    <3>2. Binds(prog, b, Cur.name) /\ Before(b, Here) /\ b # Here
      BY <1>1, <2>2, <3>1, TextOrder DEF LastBinding
    <3>3. Binds(prog, Here, Cur.name)
      BY <2>2 DEF Binds, Does, StepAt
    <3>4. Here[2] = Len(prog[Here[1]])
      BY <1>1, <2>2, <3>2, <3>3 DEF ReboundAtRoot
    <3>5. StepAt(prog, Here).op \in EndOps
      BY <1>1, <2>2, <3>4, StepFacts, BodyFacts DEF StepAt
    <3> QED
      BY <2>2, <3>5 DEF EndOps
  <2>4. e \in [name : Names, prev : Binding]
    BY <1>1, <2>2 DEF TypeOK
  <2>5. e.name = Cur.name /\ e.prev = scope[Cur.name]
    OBVIOUS
  <2> HIDE DEF e
  <2>6. /\ Len(saved') = Len(saved) + 1 /\ saved'[Len(saved) + 1] = e
        /\ \A i \in 1..Len(saved) : saved'[i] = saved[i]
    BY <1>1, <2>1, <2>4
  <2>7. Len(saved) \in Nat
    BY <1>1
  <2>8. ASSUME NEW i \in 1..Len(saved'), saved'[i].name \in Transferred(prog)
        PROVE  ~saved'[i].prev.bound
    <3>1. CASE i = Len(saved) + 1
      BY <2>3, <2>5, <2>6, <2>8, <3>1
    <3>2. CASE i # Len(saved) + 1
      <4>1. i \in 1..Len(saved)
        BY <2>6, <2>7, <3>2
      <4> QED
        BY <1>1, <2>6, <2>8, <4>1 DEF SavedUnbound
    <3> QED
      BY <3>1, <3>2
  <2> QED
    BY <1>1, <2>8 DEF SavedUnbound
<1>3. CASE UnbindPattern
  <2>1. saved # <<>> /\ saved' = SubSeq(saved, 1, Len(saved) - 1)
    BY <1>3 DEF UnbindPattern
  <2>2. /\ Len(saved') = Len(saved) - 1 /\ \A i \in 1..(Len(saved) - 1) : saved'[i] = saved[i]
    BY <1>1, <2>1, FrontOf
  <2>3. \A i \in 1..Len(saved') : i \in 1..Len(saved) /\ saved'[i] = saved[i]
    BY <1>1, <2>2
  <2> QED
    BY <1>1, <2>3 DEF SavedUnbound
<1>4. CASE saved' = saved
  BY <1>1, <1>4 DEF SavedUnbound
<1> QED
  BY <1>2, <1>3, <1>4 DEF Next, CheckUse, CheckRef, MaybeMove, CheckAssign, CheckFieldAssign,
     CheckLet, CheckLetRef, EnterLoop, LeaveLoop, CheckBreak, CheckDefer, StmtEnd, PassMark,
     FinishFunc, Returned, vars

LEMMA NextUsesChecked ==
    ASSUME CheckInv, Next, errors' = {}, errors = {}
    PROVE  UsesChecked'
<1>1. TypeOK /\ prog \in Programs /\ ScopeRead /\ UsesChecked /\ prog' = prog
  BY BodyKept DEF CheckInv, Accepted
<1> DEFINE Used(q, n) == ~GoneAt(prog, n, q) /\ \E b \in Steps(prog) : LastBinding(prog, b, n, q)
           Passes == \A n \in Transferred(prog) : Does(prog, Here, {"use"}, n) => Used(Here, n)
<1>2. ASSUME NEW ops, At(ops), After, Passes PROVE UsesChecked'
  <2>1. Here \in Steps(prog) /\ Follows(prog, Here, Here')
    BY <1>1, <1>2, HereFollows
  <2>2. \A q \in Steps(prog) : Before(q, Here') <=> Before(q, Here) \/ q = Here
    BY <2>1 DEF Follows
  <2>3. ASSUME NEW q \in Steps(prog), NEW n \in Transferred(prog),
               Does(prog, q, {"use"}, n), Before(q, Here')
        PROVE  Used(q, n)
    BY <1>1, <1>2, <2>2, <2>3 DEF UsesChecked
  <2> QED
    BY <1>1, <2>3 DEF UsesChecked
<1>3. ASSUME NEW ops, At(ops), After
      PROVE  /\ Cur.op \in ops
             /\ \A n : Does(prog, Here, {"use"}, n) <=> Cur.op = "use" /\ Cur.name = n
  <2>1. StepAt(prog, Here) = Cur /\ Cur.op \in ops
    BY <1>1, <1>3, HereFollows
  <2> QED
    BY <2>1 DEF StepAt, Does
<1>4. ASSUME NEW ops, At(ops), After, "use" \notin ops PROVE UsesChecked'
  <2>1. Passes
    BY <1>3, <1>4
  <2> QED
    BY <1>2, <1>4, <2>1
<1> HIDE DEF Passes
<1>5. CASE CheckUse
  <2>1. At({"use"}) /\ After
    BY <1>5 DEF CheckUse
  <2>2. scope[Cur.name].bound /\ ~scope[Cur.name].moved
    <3> DEFINE ks == {k \in {"unknown"} : ~scope[Cur.name].bound} \cup
                     {k \in {"moved"} : scope[Cur.name].moved}
    <3>1. ks = {}
      BY <1>5, NoReport DEF CheckUse
    <3> QED
      BY <3>1
  <2>3. ASSUME NEW n \in Transferred(prog), Does(prog, Here, {"use"}, n) PROVE Used(Here, n)
    <3>1. n = Cur.name
      BY <1>3, <2>1, <2>3
    <3> QED
      BY <1>1, <2>2, <3>1 DEF ScopeRead, BoundAsRead, MarkedIfGone
  <2> QED
    BY <1>2, <2>1, <2>3 DEF Passes
<1>6. CASE CheckRef \/ MaybeMove \/ CheckAssign \/ CheckFieldAssign \/ CheckLet \/ CheckLetRef
  BY <1>4, <1>6 DEF CheckRef, MaybeMove, CheckAssign, CheckFieldAssign, CheckLet, CheckLetRef
<1>7. CASE BindPattern \/ UnbindPattern \/ EnterLoop \/ LeaveLoop \/ CheckBreak \/ StmtEnd
  BY <1>4, <1>7 DEF BindPattern, UnbindPattern, EnterLoop, LeaveLoop, CheckBreak, StmtEnd
<1>8. CASE CheckDefer \/ PassMark
  BY <1>4, <1>8 DEF CheckDefer, PassMark
<1>9. CASE FinishFunc \/ Returned
  <2>1. Here' = Here
    BY <1>9 DEF FinishFunc, Returned, vars, Here
  <2> QED
    BY <1>1, <2>1 DEF UsesChecked
<1> QED
  BY <1>5, <1>6, <1>7, <1>8, <1>9 DEF Next

LEMMA NextDefersFirst ==
    ASSUME TypeOK, prog \in Programs, DefersFirst, Next, errors' = {}, errors = {}
    PROVE  DefersFirst'
<1>1. prog' = prog
  BY BodyKept
<1>2. ASSUME NEW ops, At(ops), After, StepAt(prog, Here).op = "defer" => Here[2] = 1
      PROVE  DefersFirst'
  <2>1. Here \in Steps(prog) /\ Follows(prog, Here, Here')
    BY <1>2, HereFollows
  <2>2. \A q \in Steps(prog) : Before(q, Here') <=> Before(q, Here) \/ q = Here
    BY <2>1 DEF Follows
  <2>3. ASSUME NEW q \in Steps(prog), StepAt(prog, q).op = "defer", Before(q, Here')
        PROVE  q[2] = 1
    BY <1>2, <2>2, <2>3 DEF DefersFirst
  <2> QED
    BY <1>1, <2>3 DEF DefersFirst
<1>3. ASSUME NEW ops, At(ops), After, "defer" \notin ops PROVE DefersFirst'
  <2>1. StepAt(prog, Here).op # "defer"
    BY <1>3, HereFollows
  <2> QED
    BY <1>2, <1>3, <2>1
<1>4. CASE CheckDefer
  <2>1. At({"defer"}) /\ After
    BY <1>4 DEF CheckDefer
  <2>2. ~(ei > 1)
    <3> DEFINE ks == {k \in {"nestedDefer"} : ei > 1}
    <3>1. ks = {}
      BY <1>4, NoReport DEF CheckDefer
    <3> QED
      BY <3>1
  <2>3. Here[2] = 1
    BY <2>2 DEF TypeOK, Here
  <2> QED
    BY <1>2, <2>1, <2>3
<1>5. CASE CheckUse \/ CheckRef \/ MaybeMove \/ CheckAssign \/ CheckFieldAssign \/ CheckLet
  BY <1>3, <1>5 DEF CheckUse, CheckRef, MaybeMove, CheckAssign, CheckFieldAssign, CheckLet
<1>6. CASE CheckLetRef \/ BindPattern \/ UnbindPattern \/ EnterLoop \/ LeaveLoop
  BY <1>3, <1>6 DEF CheckLetRef, BindPattern, UnbindPattern, EnterLoop, LeaveLoop
<1>7. CASE CheckBreak \/ StmtEnd \/ PassMark
  BY <1>3, <1>7 DEF CheckBreak, StmtEnd, PassMark
<1>8. CASE FinishFunc \/ Returned
  BY <1>8 DEF FinishFunc, Returned, vars, Here, DefersFirst
<1> QED
  BY <1>4, <1>5, <1>6, <1>7, <1>8 DEF Next

LEMMA NextRootDefers == TypeOK /\ prog \in Programs /\ RootDefers /\ [Next]_vars => RootDefers'
<1> SUFFICES ASSUME TypeOK, prog \in Programs, RootDefers, [Next]_vars, errors' = {}
             PROVE  DefersFirst'
  BY DEF RootDefers
<1>1. errors = {} /\ DefersFirst
  BY Forward DEF RootDefers
<1>2. CASE Next
  BY <1>1, <1>2, NextDefersFirst
<1>3. CASE UNCHANGED vars
  BY <1>1, <1>3 DEF DefersFirst, Here, vars
<1> QED
  BY <1>2, <1>3

LEMMA NextCheckInv == CheckInv /\ [Next]_vars => CheckInv'
<1> SUFFICES ASSUME CheckInv, [Next]_vars PROVE CheckInv'
  OBVIOUS
<1>1. TypeOK' /\ prog' = prog /\ prog \in Programs /\ Tracked(prog)
  BY NextTypeOK, BodyKept DEF CheckInv
<1>2. ASSUME errors' = {} PROVE ScopeRead' /\ SavedUnbound' /\ UsesChecked'
  <2>1. errors = {}
    BY <1>2, Forward DEF CheckInv
  <2>2. CASE Next
    BY <1>2, <2>1, <2>2, NextScopeRead, NextSavedUnbound, NextUsesChecked
  <2>3. CASE UNCHANGED vars
    BY <2>1, <2>3 DEF CheckInv, Accepted, ScopeRead, SavedUnbound, UsesChecked,
       BoundAsRead, MarkedIfGone, Here, vars
  <2> QED
    BY <2>2, <2>3
<1> QED
  BY <1>1, <1>2 DEF CheckInv, Accepted

LEMMA InitCheckInv == Init /\ Tracked(prog) => CheckInv
<1> SUFFICES ASSUME Init, Tracked(prog) PROVE CheckInv
  OBVIOUS
<1>1. TypeOK /\ prog \in Programs /\ Here = <<1, 1>>
  BY InitTypeOK DEF Init, Here
<1>2. \A n \in Names : ~scope[n].bound
  BY DEF Init, Unbound
<1>3. ASSUME NEW q \in Steps(prog) PROVE ~Before(q, Here)
  BY <1>1, StepFacts DEF Before
<1>4. ScopeRead
  BY <1>2, <1>3 DEF ScopeRead, BoundAsRead, MarkedIfGone, Transferred
<1>5. UsesChecked
  BY <1>3 DEF UsesChecked
<1>6. SavedUnbound
  BY DEF SavedUnbound, Init
<1> QED
  BY <1>1, <1>4, <1>5, <1>6 DEF CheckInv, Accepted

(* A checker past the last statement has passed every step.                *)
LEMMA AllPassed ==
    ASSUME TypeOK, prog \in Programs, si > Len(prog)
    PROVE  \A q \in Steps(prog) : Before(q, Here)
<1> SUFFICES ASSUME NEW q \in Steps(prog) PROVE Before(q, Here)
  OBVIOUS
<1>1. q[1] \in 1..Len(prog) /\ q[1] \in Nat /\ si \in Nat /\ Len(prog) \in Nat
  BY StepFacts DEF TypeOK
<1>2. q[1] < si
  BY <1>1
<1> QED
  BY <1>2 DEF Before, Here

-----------------------------------------------------------------------------
(* The places of a run: it starts once the body has been accepted to its   *)
(* end, and the statements registered are defers from their first step on. *)
There == <<ri, rk>>
Leaving == ri <= Len(prog) /\ Now.op \in {"return", "tail"}

Launched ==
    /\ mode # "idle" => checked /\ errors = {}
    /\ mode = "idle" => slot = [n \in Names |-> Empty]
    /\ checked => si > Len(prog)
DefersOnly ==
    /\ \A i \in 1..Len(pending) : IsDeferStmt(prog[pending[i]])
    /\ mode = "defers" /\ ri <= Len(prog) => IsDeferStmt(prog[ri])

PlaceInv == RunInv /\ RootDefers /\ Launched /\ DefersOnly

LEMMA AcceptedDefers ==
    ASSUME PlaceInv, mode # "idle"
    PROVE  \A q \in Steps(prog) : StepAt(prog, q).op = "defer" => q[2] = 1
<1>1. errors = {} /\ si > Len(prog) /\ DefersFirst /\ prog \in Programs
  BY DEF PlaceInv, RootDefers, Launched, RunInv
<1> QED
  BY <1>1, AllPassed DEF DefersFirst, PlaceInv, RunInv

(* The step the run is at.                                                 *)
LEMMA ThereStep ==
    ASSUME RunInv, NEW os, Doing(os)
    PROVE  /\ There \in Steps(prog) /\ StepAt(prog, There) = Now /\ Now.op \in os /\ Now \in Step
           /\ \A ops, n : Does(prog, There, ops, n) <=> Now.op \in ops /\ Now.name = n
<1>1. /\ Now \in Step /\ Now.op \in os
      /\ ri \in 1..Len(prog) /\ rk \in 1..Len(prog[ri])
  BY NowType
<1> QED
  BY <1>1, StepPlace DEF There, StepAt, Now, Does

(* The ways a run moves on.                                                *)
WalkOps == {"use", "ref", "move", "give", "assign", "field", "let", "letref", "bind", "call",
            "split", "back", "unbind", "enter", "leave", "stmtend"}

LEMMA RunMoves ==
    ASSUME RunNext
    PROVE  \/ Doing(WalkOps) /\ Step1
           \/ Doing({"split", "jump", "break", "back"}) /\ Branch(Now.to)
           \/ RunDefer \/ RunReturn \/ RunFallOff \/ RunNextDefer \/ RunDone
<1>1. CASE RunUse \/ RunRef \/ RunTransfer \/ RunAssign \/ RunField
  BY <1>1 DEF RunUse, RunRef, RunTransfer, RunAssign, RunField, Doing, WalkOps
<1>2. CASE RunLet \/ RunLetRef \/ RunCall \/ RunMark
  BY <1>2 DEF RunLet, RunLetRef, RunCall, RunMark, Doing, WalkOps
<1>3. CASE RunSplit \/ RunJump \/ RunBack
  BY <1>3 DEF RunSplit, RunJump, RunBack, Doing, WalkOps
<1> QED
  BY <1>1, <1>2, <1>3 DEF RunNext

LEMMA RunningOnly == RunNext => mode # "idle" /\ mode' # "idle"
<1> SUFFICES ASSUME RunNext PROVE mode # "idle" /\ mode' # "idle"
  OBVIOUS
<1>1. mode # "idle"
  BY RunMoves DEF Doing, Running, RunDefer, RunReturn, RunFallOff, RunNextDefer, RunDone
<1> QED
  BY <1>1, RunMoves DEF Step1, Branch, RunDefer, RunReturn, RunFallOff, Exit, RunNextDefer, RunDone

(* Where the body goes on.                                                 *)
LEMMA Onward ==
    ASSUME RunInv, mode = "body", NEW os, Doing(os), Step1
    PROVE  /\ Follows(prog, There, There') /\ mode' = "body"
           /\ rk # Len(prog[ri]) => ri' = ri /\ rk' = rk + 1
           /\ rk = Len(prog[ri]) => ri' = ri + 1
<1>1. ri \in 1..Len(prog) /\ rk \in 1..Len(prog[ri]) /\ rk \in Nat \ {0} /\ prog \in Programs
  BY NowType DEF RunInv
<1>2. Len(prog[ri]) \in Nat
  BY <1>1, BodyFacts DEF RunInv
<1>3. CASE rk < Len(prog[ri])
  <2>1. rk' = rk + 1 /\ ri' = ri /\ mode' = mode
    BY <1>3 DEF Step1
  <2>2. There' = <<ri, rk + 1>>
    BY <2>1 DEF There
  <2>3. Follows(prog, There, <<ri, rk + 1>>)
    BY <1>1, FollowsOn DEF There
  <2> QED
    BY <1>3, <2>1, <2>2, <2>3
<1>4. CASE rk = Len(prog[ri])
  <2>1. rk' = 1 /\ ri' = ri + 1 /\ mode' = mode
    BY <1>2, <1>4 DEF Step1
  <2>2. There' = <<ri + 1, 1>>
    BY <2>1 DEF There
  <2> QED
    BY <1>1, <1>2, <1>4, <2>1, <2>2, FollowsOn DEF There
<1> QED
  BY <1>1, <1>2, <1>3, <1>4

(* A step within the body that neither returns nor falls off its end.      *)
LEMMA BodyMoves ==
    ASSUME RunNext, mode' = "body"
    PROVE  /\ mode = "body" /\ ~Leaving
           /\ \/ Doing(WalkOps) /\ Step1
              \/ Doing({"split", "jump", "break", "back"}) /\ Branch(Now.to)
              \/ RunDefer
<1>1. /\ ~RunReturn /\ ~RunFallOff /\ ~RunNextDefer /\ ~RunDone
  BY DEF RunReturn, RunFallOff, RunNextDefer, RunDone, Exit
<1>2. \/ Doing(WalkOps) /\ Step1
      \/ Doing({"split", "jump", "break", "back"}) /\ Branch(Now.to)
      \/ RunDefer
  BY <1>1, RunMoves
<1>3. mode' = mode
  BY <1>2 DEF Step1, Branch, RunDefer
<1>4. ~Leaving
  BY <1>2 DEF Leaving, Doing, WalkOps, RunDefer
<1> QED
  BY <1>2, <1>3, <1>4

(* A defer statement is skipped whole: it binds nothing at its end.        *)
LEMMA DeferPassed ==
    ASSUME PlaceInv, RunDefer
    PROVE  /\ IsDeferStmt(prog[ri]) /\ There = <<ri, 1>> /\ There' = <<ri + 1, 1>>
           /\ mode = "body" /\ mode' = "body"
           /\ prog[ri][Len(prog[ri])].op = "stmtend"
<1>1. Doing({"defer"}) /\ mode = "body" /\ mode' = mode /\ ri' = ri + 1 /\ rk' = 1
  BY DEF RunDefer
<1>2. There \in Steps(prog) /\ StepAt(prog, There).op = "defer" /\ ri \in 1..Len(prog)
  BY <1>1, ThereStep, NowType DEF PlaceInv
<1>3. rk = 1
  BY <1>1, <1>2, AcceptedDefers DEF There
<1>4. IsDeferStmt(prog[ri])
  BY <1>2, <1>3 DEF IsDeferStmt, StepAt, There
<1>5. There = <<ri, 1>> /\ There' = <<ri + 1, 1>>
  BY <1>1, <1>3 DEF There
<1>6. prog[ri][Len(prog[ri])].op = "stmtend"
  BY <1>2, <1>4, BranchesAssumption DEF PlaceInv, RunInv
<1> QED
  BY <1>1, <1>4, <1>5, <1>6

LEMMA NextDefersOnly ==
    ASSUME PlaceInv, RunNext, UNCHANGED vars
    PROVE  DefersOnly'
<1>1. /\ prog' = prog /\ prog \in Programs /\ RunInv /\ DefersOnly
      /\ pending \in Seq(1..Len(prog)) /\ Len(prog) \in Nat
  BY DEF vars, PlaceInv, RunInv, RunTypeOK, TypeOK
<1>2. CASE pending' = pending /\ (mode' = "defers" /\ ri' <= Len(prog) => mode = "defers" /\ ri' = ri)
  BY <1>1, <1>2 DEF DefersOnly
<1>3. ASSUME NEW os, Doing(os), Step1 PROVE DefersOnly'
  <2>1. ri \in 1..Len(prog) /\ rk \in 1..Len(prog[ri]) /\ Len(prog[ri]) \in Nat /\ Running
    BY <1>1, <1>3, NowType, BodyFacts DEF RunInv, Doing
  <2>2. CASE rk < Len(prog[ri])
    BY <1>2, <1>3, <2>2 DEF Step1
  <2>3. CASE rk = Len(prog[ri]) /\ mode = "body"
    BY <1>2, <1>3, <2>1, <2>3 DEF Step1
  <2>4. CASE rk = Len(prog[ri]) /\ mode # "body"
    <3>1. mode = "defers" /\ pending # <<>>
      BY <1>1, <2>1, <2>4 DEF Running, RunInv, Cursor
    <3>2. pending' = SubSeq(pending, 1, Len(pending) - 1) /\ ri' = Len(prog) + 1
      BY <1>3, <2>1, <2>4 DEF Step1
    <3>3. \A i \in 1..Len(pending') : i \in 1..Len(pending) /\ pending'[i] = pending[i]
      BY <1>1, <3>1, <3>2, FrontOf
    <3> QED
      BY <1>1, <3>2, <3>3 DEF DefersOnly
  <2> QED
    BY <2>1, <2>2, <2>3, <2>4
<1>4. CASE Branch(Now.to)
  BY <1>2, <1>4 DEF Branch
<1>5. CASE RunDefer
  <2>1. IsDeferStmt(prog[ri]) /\ mode' = "body" /\ ri \in 1..Len(prog)
    BY <1>1, <1>5, DeferPassed, NowType DEF RunDefer
  <2>2. pending' = Append(pending, ri)
    BY <1>5 DEF RunDefer
  <2> QED
    BY <1>1, <2>1, <2>2 DEF DefersOnly
<1>6. CASE RunReturn \/ RunFallOff
  BY <1>1, <1>2, <1>6 DEF RunReturn, RunFallOff, Exit
<1>7. CASE RunNextDefer
  <2>1. ri' = pending[Len(pending)] /\ pending' = pending /\ Len(pending) \in 1..Len(pending)
    <3>1. Len(pending) \in Nat \ {0}
      BY <1>1, <1>7 DEF RunNextDefer
    <3> QED
      BY <1>7, <3>1 DEF RunNextDefer
  <2> QED
    BY <1>1, <2>1 DEF DefersOnly
<1>8. CASE RunDone
  BY <1>2, <1>8 DEF RunDone
<1> QED
  BY <1>3, <1>4, <1>5, <1>6, <1>7, <1>8, RunMoves

LEMMA NextPlaceInv == PlaceInv /\ [CRNext]_crVars => PlaceInv'
<1> SUFFICES ASSUME PlaceInv, [CRNext]_crVars PROVE PlaceInv'
  OBVIOUS
<1>1. RunInv' /\ prog' = prog
  <2>1. [Next]_vars
    BY DEF CRNext, Check, Launch, Run, Over, crVars, vars
  <2> QED
    BY <2>1, NextRunInv, BodyKept DEF PlaceInv, RunInv
<1>2. RootDefers'
  <2>1. [Next]_vars
    BY DEF CRNext, Check, Launch, Run, Over, crVars, vars
  <2> QED
    BY <2>1, NextRootDefers DEF PlaceInv, RunInv
<1>3. CASE Run
  <2>1. RunNext /\ UNCHANGED vars /\ checked
    BY <1>3 DEF Run
  <2>2. mode # "idle" /\ mode' # "idle"
    BY <2>1, RunningOnly
  <2>3. Launched'
    BY <2>1, <2>2 DEF Launched, PlaceInv, vars
  <2> QED
    BY <1>1, <1>2, <2>1, <2>3, NextDefersOnly DEF PlaceInv
<1>4. CASE Launch
  <2>1. /\ checked /\ errors = {} /\ mode' = "body" /\ pending' = pending /\ UNCHANGED vars
    BY <1>4 DEF Launch
  <2>2. Launched' /\ DefersOnly'
    BY <2>1 DEF Launched, DefersOnly, PlaceInv, vars
  <2> QED
    BY <1>1, <1>2, <2>2 DEF PlaceInv
<1>5. CASE Check
  <2>1. ~checked /\ Next /\ UNCHANGED runVars
    BY <1>5 DEF Check
  <2>2. mode = "idle"
    BY <2>1 DEF PlaceInv, Launched
  <2>3. checked' => si' > Len(prog)
    <3>1. CASE FinishFunc
      BY <3>1 DEF FinishFunc
    <3>2. CASE ~FinishFunc
      <4>1. checked' = checked
        BY <2>1, <3>2 DEF Next, CheckUse, CheckRef, MaybeMove, CheckAssign,
           CheckFieldAssign, CheckLet, CheckLetRef, BindPattern, UnbindPattern, EnterLoop,
           LeaveLoop, CheckBreak, CheckDefer, StmtEnd, PassMark, Returned, After, Within, NextStmt
      <4> QED
        BY <2>1, <4>1
    <3> QED
      BY <3>1, <3>2
  <2>4. Launched' /\ DefersOnly'
    BY <1>1, <2>1, <2>2, <2>3 DEF Launched, DefersOnly, PlaceInv, runVars
  <2> QED
    BY <1>1, <1>2, <2>4 DEF PlaceInv
<1>6. CASE Over \/ UNCHANGED crVars
  <2>1. UNCHANGED <<vars, runVars>>
    BY <1>6 DEF Over, crVars
  <2>2. Launched' /\ DefersOnly'
    BY <2>1 DEF PlaceInv, vars, runVars, Launched, DefersOnly
  <2> QED
    BY <1>1, <1>2, <2>2 DEF PlaceInv
<1> QED
  BY <1>3, <1>4, <1>5, <1>6 DEF CRNext

LEMMA InitPlaceInv == CRInit => PlaceInv
<1> SUFFICES ASSUME CRInit PROVE PlaceInv
  OBVIOUS
<1>1. RunInv /\ mode = "idle" /\ pending = <<>> /\ ~checked /\ slot = [n \in Names |-> Empty]
  BY InitRunInv DEF CRInit, RunInit, Init
<1>2. DefersFirst
  <2>1. Here = <<1, 1>>
    BY DEF CRInit, Init, Here
  <2>2. \A q \in Steps(prog) : ~Before(q, Here)
    BY <1>1, <2>1, StepFacts DEF Before, RunInv
  <2> QED
    BY <2>2 DEF DefersFirst
<1> QED
  BY <1>1, <1>2 DEF PlaceInv, RootDefers, Launched, DefersOnly

-----------------------------------------------------------------------------
(* The run, beside the text.  A slot of a type whose values can be moved   *)
(* was filled by a binding inside a statement, which is then the only one  *)
(* of its name, or by the last root binding the run has passed.  A value   *)
(* that is gone was moved at an earlier place of the text and its name not *)
(* bound since, or the function is being left.                             *)
FilledBy(b, n) ==
    /\ Binds(prog, b, n) /\ Owns(prog, b)
    /\ \/ b[2] # Len(prog[b[1]])
       \/ /\ b[1] < ri
          /\ \A c \in Steps(prog) :
                Binds(prog, c, n) /\ c[2] = Len(prog[c[1]]) /\ c[1] < ri => c[1] <= b[1]
SlotsFilled ==
    mode = "body" =>
        \A n \in Transferred(prog) :
            ~IsCopy(slot[n].type) => \E b \in Steps(prog) : FilledBy(b, n)

GoneHanded == \A n \in Names : slot[n].value = "gone" => n \in Transferred(prog)
GoneInText ==
    mode = "body" =>
        \A n \in Names : slot[n].value = "gone" => Leaving \/ GoneAt(prog, n, There)

OwnInv == PlaceInv /\ CheckInv /\ SlotsFilled /\ GoneHanded /\ GoneInText /\ NoUseAfterMove

(* What was accepted of the uses, for every step of the body.              *)
LEMMA AcceptedText ==
    ASSUME OwnInv, mode # "idle"
    PROVE  \A q \in Steps(prog) : \A n \in Transferred(prog) :
               Does(prog, q, {"use"}, n) =>
                   ~GoneAt(prog, n, q) /\ \E b \in Steps(prog) : LastBinding(prog, b, n, q)
<1>1. TypeOK /\ si > Len(prog) /\ prog \in Programs /\ UsesChecked
  BY DEF OwnInv, PlaceInv, Launched, CheckInv, Accepted
<1> QED
  BY <1>1, AllPassed DEF UsesChecked

(* The evaluation before a transfer.                                       *)
LEMMA EvaluatedAt ==
    ASSUME NEW p \in Programs, EvaluatedFirst(p), NEW q \in Steps(p), NEW n \in Names,
           Does(p, q, {"move", "give"}, n)
    PROVE  \E u \in Steps(p) :
              /\ Does(p, u, {"use"}, n) /\ u[1] = q[1] /\ u[2] < q[2] /\ Before(u, q)
              /\ GoneAt(p, n, q) => GoneAt(p, n, u)
              /\ \A b : LastBinding(p, b, n, u) => LastBinding(p, b, n, q)
<1>1. /\ q = <<q[1], q[2]>> /\ q[1] \in 1..Len(p) /\ q[2] \in 1..Len(p[q[1]])
      /\ q[1] \in Nat /\ q[2] \in Nat
  BY StepFacts
<1>2. PICK k \in 1..(q[2] - 1) :
          /\ Does(p, <<q[1], k>>, {"use"}, n)
          /\ \A m \in k..(q[2] - 1) : ~Does(p, <<q[1], m>>, {"move", "let", "letref", "bind"}, n)
  BY DEF EvaluatedFirst
<1> DEFINE u == <<q[1], k>>
<1>3. k \in Nat /\ k < q[2] /\ k \in 1..Len(p[q[1]])
  <2>1. p \in Seq(Seq(Step) \ {<<>>})
    BY ProgramsAssumption
  <2>2. Len(p[q[1]]) \in Nat
    BY <1>1, <2>1
  <2> QED
    BY <1>1, <1>2, <2>2
<1>4. u \in Steps(p) /\ Before(u, q) /\ u[1] = q[1] /\ u[2] = k
  BY <1>1, <1>3, StepPlace DEF Before
(* The steps from u to q do nothing to n.                                  *)
<1>5. ASSUME NEW s \in Steps(p), Before(s, q), ~Before(s, u)
      PROVE  ~Does(p, s, {"move", "let", "letref", "bind"}, n)
  <2>1. s = <<s[1], s[2]>> /\ s[1] \in Nat /\ s[2] \in Nat
    BY StepFacts
  <2>2. s[1] = q[1] /\ s[2] \in k..(q[2] - 1)
    BY <1>1, <1>3, <1>5, <2>1 DEF Before
  <2> QED
    BY <1>2, <2>1, <2>2
<1> HIDE DEF u
<1>6. ASSUME GoneAt(p, n, q) PROVE GoneAt(p, n, u)
  <2>1. PICK m \in Steps(p) : MovedAt(p, m, n) /\ Before(m, q) /\ NoBinding(p, m, q, n)
    BY <1>6 DEF GoneAt
  <2>2. Before(m, u)
    BY <1>5, <2>1 DEF MovedAt, Does
  <2>3. NoBinding(p, m, u, n)
    BY <1>4, <2>1, TextOrder DEF NoBinding
  <2> QED
    BY <2>1, <2>2, <2>3 DEF GoneAt
<1>7. ASSUME NEW b, LastBinding(p, b, n, u) PROVE LastBinding(p, b, n, q)
  <2>1. b \in Steps(p) /\ Binds(p, b, n) /\ Before(b, u) /\ NoBinding(p, b, u, n)
    BY <1>7 DEF LastBinding
  <2>2. Before(b, q)
    BY <1>4, <2>1, TextOrder
  <2>3. NoBinding(p, b, q, n)
    <3> SUFFICES ASSUME NEW c \in Steps(p), Binds(p, c, n), Before(b, c), Before(c, q)
                 PROVE  FALSE
      BY DEF NoBinding
    <3>1. Before(c, u)
      BY <1>5 DEF Binds, Does
    <3> QED
      BY <2>1, <3>1 DEF NoBinding
  <2> QED
    BY <2>1, <2>2, <2>3 DEF LastBinding
<1> QED
  BY <1>2, <1>3, <1>4, <1>6, <1>7 DEF u

(* What a step does to the value and the type of a slot: a value goes when *)
(* it is handed on, a type changes when the name is bound.                 *)
Filling(n) == Doing({"let", "letref", "bind"}) /\ Now.name = n
HandsOn(n) == Doing({"move", "give"}) /\ Now.name = n /\ ~IsCopy(slot[n].type)

SlotKept(n)   == slot'[n].value = slot[n].value /\ slot'[n].type = slot[n].type
SlotFilled(n) == /\ slot'[n].value = "whole"
                 /\ ~IsCopy(slot'[n].type) <=> Now.op # "letref" /\ ~IsCopy(Now.type)
SlotPassed(n) == slot'[n].value \in {"whole", "gone"} /\ slot'[n].type = slot[n].type

LEMMA SpoilKeeps ==
    \A s \in [Names -> Slot], n \in Names : \A m, all :
        /\ SpoilSlots(s, m, all)[n].value = s[n].value
        /\ SpoilSlots(s, m, all)[n].type = s[n].type
<1> SUFFICES ASSUME NEW s \in [Names -> Slot], NEW n \in Names, NEW m, NEW all
             PROVE  /\ SpoilSlots(s, m, all)[n].value = s[n].value
                    /\ SpoilSlots(s, m, all)[n].type = s[n].type
  OBVIOUS
<1>1. SpoilSlots(s, m, all)[n] = [s[n] EXCEPT !.ref = Spoil(s[n].ref, m, all)]
  BY DEF SpoilSlots
<1>2. s[n] \in Slot
  OBVIOUS
<1> QED
  BY <1>1, <1>2 DEF Slot

LEMMA ReboundKeeps ==
    ASSUME NEW s \in [Names -> Slot], NEW m, NEW new, NEW n \in Names
    PROVE  /\ n = m => Rebound(s, m, new)[n] = new
           /\ n # m => /\ Rebound(s, m, new)[n].value = s[n].value
                       /\ Rebound(s, m, new)[n].type = s[n].type
<1>0. PICK x, all : all /\ Rebound(s, m, new) = [SpoilSlots(s, x, all) EXCEPT ![m] = new]
  BY Zenon DEF Rebound
<1> DEFINE t == SpoilSlots(s, x, all)
<1>1. /\ t \in [Names -> Slot]
      /\ t[n].value = s[n].value /\ t[n].type = s[n].type
  BY SlotsType, SpoilKeeps
<1>2. Rebound(s, m, new) = [t EXCEPT ![m] = new]
  BY <1>0, Zenon
<1> HIDE DEF t
<1> QED
  BY <1>1, <1>2

LEMMA SlotStep ==
    ASSUME RunInv, RunNext, NEW n \in Names
    PROVE  /\ Filling(n) => SlotFilled(n)
           /\ ~Filling(n) => slot'[n].type = slot[n].type
           /\ ~Filling(n) => (slot'[n].value = "gone" => slot[n].value = "gone" \/ HandsOn(n))
<1>1. slot \in [Names -> Slot]
  BY DEF RunInv, RunTypeOK
<1>2. \A os : Doing(os) => Now.op \in os /\ Now.name \in Names /\ Now \in Step
  BY NowType DEF Step
<1>3. slot[n] \in Slot
  BY <1>1
<1> DEFINE Goal == /\ Filling(n) => SlotFilled(n)
                   /\ ~Filling(n) => slot'[n].type = slot[n].type
                   /\ ~Filling(n) => (slot'[n].value = "gone" => slot[n].value = "gone" \/ HandsOn(n))
<1>4. SlotKept(n) /\ ~Filling(n) => Goal
  BY DEF SlotKept
<1>5. \A os : Doing(os) /\ os \cap {"let", "letref", "bind"} = {} => ~Filling(n)
  BY <1>2 DEF Filling
<1> SUFFICES Goal
  OBVIOUS
<1>6. CASE slot' = slot /\ ~Filling(n)
  BY <1>4, <1>6 DEF SlotKept
<1>7. CASE \E m, all : slot' = SpoilSlots(slot, m, all) /\ ~Filling(n)
  BY <1>1, <1>4, <1>7, SpoilKeeps DEF SlotKept
<1>8. CASE RunTransfer
  <2>1. Doing({"move", "give"}) /\ ~Filling(n)
    BY <1>5, <1>8 DEF RunTransfer
  <2>2. CASE IsCopy(slot[Now.name].type)
    BY <1>6, <1>8, <2>1, <2>2 DEF RunTransfer
  <2>3. CASE ~IsCopy(slot[Now.name].type)
    <3> DEFINE s == [slot EXCEPT ![Now.name].value = "gone"]
    <3>1. slot' = SpoilSlots(s, Now.name, TRUE)
      BY <1>8, <2>3 DEF RunTransfer
    <3>2. s \in [Names -> Slot]
      BY <1>1, <1>2, <2>1, ValueType
    <3>3. s[n].type = slot[n].type /\ (Now.name # n => s[n].value = slot[n].value)
      BY <1>1, <1>2, <1>3, <2>1 DEF Slot
    <3> HIDE DEF s
    <3>4. slot'[n].type = slot[n].type /\ (Now.name # n => slot'[n].value = slot[n].value)
      <4>1. PICK m, all : slot' = SpoilSlots(s, m, all)
        BY <3>1
      <4> QED
        BY <3>2, <3>3, <4>1, SpoilKeeps
    <3> QED
      BY <2>1, <2>3, <3>4 DEF HandsOn
  <2> QED
    BY <2>2, <2>3
<1>9. CASE RunAssign
  <2> DEFINE s == [slot EXCEPT ![Now.name] = Stored(@)]
  <2>1. Doing({"assign"}) /\ ~Filling(n) /\ slot' = SpoilSlots(s, Now.name, TRUE)
    BY <1>5, <1>9 DEF RunAssign
  <2>2. s \in [Names -> Slot]
    BY <1>1, <1>2, <2>1, StoredType
  <2>3. /\ s[n].type = slot[n].type
        /\ Now.name = n => s[n].value = "whole"
        /\ Now.name # n => s[n].value = slot[n].value
    BY <1>1, <1>2, <1>3, <2>1 DEF Stored
  <2> HIDE DEF s
  <2>4. slot'[n].type = slot[n].type /\ slot'[n].value = s[n].value
    <3>1. PICK m, all : slot' = SpoilSlots(s, m, all)
      BY <2>1
    <3> QED
      BY <2>2, <2>3, <3>1, SpoilKeeps
  <2> QED
    BY <2>1, <2>3, <2>4
<1>10. CASE RunField
  <2>1. Doing({"field"}) /\ ~Filling(n) /\ Now.name \in Names
    BY <1>2, <1>5, <1>10 DEF RunField
  <2>2. CASE IsRef(slot[Now.name].type)
    <3> DEFINE r == slot[Now.name].ref
               s == SpoilSlots(slot, r.on, TRUE)
    <3>1. slot' = [s EXCEPT ![Now.name].ref = r]
      BY <1>10, <2>2 DEF RunField
    <3>2. /\ s \in [Names -> Slot]
          /\ s[n].value = slot[n].value /\ s[n].type = slot[n].type
      <4>1. PICK m, all : s = SpoilSlots(slot, m, all)
        OBVIOUS
      <4> HIDE DEF s
      <4> QED
        BY <1>1, <4>1, SlotsType, SpoilKeeps
    <3> HIDE DEF s, r
    <3>3. s[n] \in Slot
      BY <3>2
    <3>4. slot'[n].value = s[n].value /\ slot'[n].type = s[n].type
      BY <2>1, <3>1, <3>2, <3>3 DEF Slot
    <3> QED
      BY <1>4, <2>1, <3>2, <3>4 DEF SlotKept
  <2>3. CASE ~IsRef(slot[Now.name].type)
    BY <1>7, <1>10, <2>1, <2>3 DEF RunField
  <2> QED
    BY <2>2, <2>3
<1>11. CASE RunLet
  <2> DEFINE r == IF IsRef(Now.type) THEN Given ELSE NoRef
             new == [value |-> "whole", type |-> Now.type, ref |-> r]
  <2>1. Doing({"let", "bind"}) /\ slot' = Rebound(slot, Now.name, new)
    BY <1>11 DEF RunLet
  <2>2. Filling(n) <=> Now.name = n
    BY <2>1 DEF Filling, Doing
  <2>3. new.value = "whole" /\ new.type = Now.type /\ Now.op # "letref"
    BY <1>2, <2>1
  <2> HIDE DEF new
  <2>4. /\ n = Now.name => slot'[n] = new
        /\ n # Now.name => SlotKept(n)
    BY <1>1, <2>1, ReboundKeeps DEF SlotKept
  <2>5. n = Now.name => SlotFilled(n)
    BY <2>3, <2>4 DEF SlotFilled
  <2> QED
    BY <1>4, <2>2, <2>4, <2>5
<1>12. CASE RunLetRef
  <2> DEFINE s == SpoilSlots(slot, Now.target, Now.excl)
             t == IF Now.excl THEN "refmut" ELSE "ref"
             new == [value |-> "whole", type |-> t, ref |-> NewRef(Now.target, Now.excl)]
  <2>1. Doing({"letref"}) /\ slot' = Rebound(s, Now.name, new)
    BY <1>12 DEF RunLetRef
  <2>2. Filling(n) <=> Now.name = n
    BY <2>1 DEF Filling, Doing
  <2>3. new.value = "whole" /\ IsCopy(new.type) /\ Now.op = "letref"
    BY <1>2, <2>1 DEF IsCopy
  <2>4. /\ s \in [Names -> Slot]
        /\ s[n].value = slot[n].value /\ s[n].type = slot[n].type
    BY <1>1, SlotsType, SpoilKeeps
  <2> HIDE DEF new, s
  <2>5. /\ n = Now.name => slot'[n] = new
        /\ n # Now.name => SlotKept(n)
    BY <2>1, <2>4, ReboundKeeps DEF SlotKept
  <2>6. n = Now.name => SlotFilled(n)
    BY <2>3, <2>5 DEF SlotFilled
  <2> QED
    BY <1>4, <2>2, <2>5, <2>6
<1>13. CASE RunRef
  BY <1>5, <1>7, <1>13 DEF RunRef
<1>14. CASE RunUse \/ RunCall \/ RunSplit \/ RunJump \/ RunBack \/ RunDefer \/ RunMark
  BY <1>5, <1>6, <1>14 DEF RunUse, RunCall, RunSplit, RunJump, RunBack, RunDefer, RunMark
<1>15. CASE RunReturn
  <2>1. ~Filling(n)
    BY <1>5, <1>15 DEF RunReturn
  <2> QED
    BY <1>6, <1>15, <2>1 DEF RunReturn, Exit
<1>16. CASE RunFallOff \/ RunNextDefer \/ RunDone
  <2>1. ri > Len(prog)
    BY <1>16 DEF RunFallOff, RunNextDefer, RunDone
  <2>2. ~Filling(n)
    <3>1. Len(prog) \in Nat /\ ri \in Nat
      BY DEF RunInv, TypeOK, Cursor
    <3> QED
      BY <2>1, <3>1 DEF Filling, Doing
  <2> QED
    BY <1>6, <1>16, <2>2 DEF RunFallOff, RunNextDefer, RunDone, Exit
<1> QED
  BY <1>8, <1>9, <1>10, <1>11, <1>12, <1>13, <1>14, <1>15, <1>16 DEF RunNext

(* A fault of reading what is gone is a use or a transfer of it.           *)
LEMMA FaultStep ==
    ASSUME RunInv, RunNext, NoUseAfterMove, ~NoUseAfterMove'
    PROVE  \E n \in Names :
              slot[n].value = "gone" /\ ((Doing({"use"}) /\ Now.name = n) \/ HandsOn(n))
<1>1. "afterMove" \notin faults /\ "afterMove" \in faults'
  BY DEF NoUseAfterMove
<1>2. \A os : Doing(os) => Now.op \in os /\ Now.name \in Names
  BY NowType DEF Step
<1>3. \A ks : Fault(ks) => "afterMove" \in ks
  BY <1>1 DEF Fault
<1>4. \A n : "afterMove" \notin BorrowFaults(n)
  BY DEF BorrowFaults
<1>5. CASE RunUse
  <2> DEFINE s == slot[Now.name]
  <2>1. Doing({"use"}) /\ s.value = "gone"
    BY <1>3, <1>5 DEF RunUse
  <2> QED
    BY <1>2, <2>1
<1>6. CASE RunTransfer
  <2>1. Doing({"move", "give"}) /\ ~IsCopy(slot[Now.name].type)
    BY <1>1, <1>6 DEF RunTransfer
  <2>2. Fault({k \in {"afterMove"} : slot[Now.name].value = "gone"})
    BY <1>6, <2>1 DEF RunTransfer
  <2>3. slot[Now.name].value = "gone"
    BY <1>3, <2>2
  <2> QED
    BY <1>2, <2>1, <2>3 DEF HandsOn
<1>7. CASE RunRef \/ RunLetRef
  BY <1>3, <1>4, <1>7 DEF RunRef, RunLetRef
<1>8. CASE RunField
  BY <1>3, <1>4, <1>8 DEF RunField
<1>9. CASE RunCall
  BY <1>3, <1>9 DEF RunCall
<1>10. faults' # faults
  BY <1>1
<1> QED
  BY <1>5, <1>6, <1>7, <1>8, <1>9, <1>10 DEF RunNext, RunAssign, RunLet, RunSplit, RunJump,
     RunBack, RunDefer, RunMark, RunReturn, RunFallOff, RunNextDefer, RunDone, Exit

(* In the body, a value that is handed on is the one the text says its     *)
(* name is bound to, and it is there.                                      *)
LEMMA OwnedWhereHanded ==
    ASSUME OwnInv, mode = "body", NEW n \in Names, HandsOn(n)
    PROVE  OwnedAt(prog, n, There) /\ slot[n].value # "gone"
<1> RunInv /\ PlaceInv
  BY DEF OwnInv, PlaceInv
<1>1. /\ There \in Steps(prog) /\ StepAt(prog, There) = Now /\ Now.op \in {"move", "give"}
      /\ Does(prog, There, {"move", "give"}, n) /\ prog \in Programs
  BY ThereStep DEF HandsOn, OwnInv, CheckInv
<1>2. n \in Transferred(prog) /\ ~IsCopy(slot[n].type)
  BY <1>1 DEF Transferred, HandsOn
<1>3. /\ ReboundAtRoot(prog) /\ EvaluatedFirst(prog) /\ mode # "idle"
      /\ SlotsFilled /\ GoneInText
  BY DEF OwnInv, CheckInv, Tracked
<1>4. PICK u \in Steps(prog) :
          /\ Does(prog, u, {"use"}, n)
          /\ GoneAt(prog, n, There) => GoneAt(prog, n, u)
          /\ \A b : LastBinding(prog, b, n, u) => LastBinding(prog, b, n, There)
  BY <1>1, <1>3, EvaluatedAt
<1>5. PICK c \in Steps(prog) : ~GoneAt(prog, n, u) /\ LastBinding(prog, c, n, u)
  BY <1>2, <1>3, <1>4, AcceptedText
<1>6. PICK b \in Steps(prog) : FilledBy(b, n)
  BY <1>2, <1>3 DEF SlotsFilled
<1>7. LastBinding(prog, c, n, There)
  BY <1>4, <1>5
<1>8. b = c
  <2> SUFFICES ASSUME b # c PROVE FALSE
    OBVIOUS
  <2>1. Binds(prog, b, n) /\ Binds(prog, c, n)
    BY <1>6, <1>7 DEF FilledBy, LastBinding
  <2>2. b[2] = Len(prog[b[1]]) /\ c[2] = Len(prog[c[1]])
    BY <1>2, <1>3, <2>1 DEF ReboundAtRoot
  <2>3. /\ b[1] < ri
        /\ c[1] < ri => c[1] <= b[1]
    BY <1>6, <2>1, <2>2 DEF FilledBy
  <2>4. /\ b = <<b[1], b[2]>> /\ c = <<c[1], c[2]>>
        /\ b[1] \in Nat /\ c[1] \in Nat /\ c[2] \in Nat
        /\ ri \in Nat /\ rk \in 1..Len(prog[ri])
    BY <1>1, StepFacts DEF There
  <2>5. Before(c, There)
    BY <1>7 DEF LastBinding
  <2>6. c[1] < ri
    BY <2>2, <2>4, <2>5 DEF Before, There
  <2>7. c[1] < b[1]
    <3>1. c[1] # b[1]
      BY <2>2, <2>4
    <3> QED
      BY <2>3, <2>4, <2>6, <3>1
  <2>8. Before(c, b) /\ Before(b, There)
    BY <2>3, <2>7 DEF Before, There
  <2> QED
    BY <1>7, <2>1, <2>8 DEF LastBinding, NoBinding
<1>9. OwnedAt(prog, n, There)
  BY <1>6, <1>7, <1>8 DEF OwnedAt, FilledBy
<1>10. ~Leaving
  BY <1>1 DEF Leaving
<1> QED
  BY <1>3, <1>4, <1>5, <1>9, <1>10 DEF GoneInText

(* In a registered defer nothing is handed on, and what it uses is there.  *)
LEMMA DeferKeeps ==
    ASSUME OwnInv, mode = "defers", NEW n \in Names,
           (Doing({"use"}) /\ Now.name = n) \/ HandsOn(n)
    PROVE  slot[n].value # "gone" /\ ~HandsOn(n)
<1> RunInv /\ PlaceInv
  BY DEF OwnInv, PlaceInv
<1>1. /\ prog \in Programs /\ DefersKeep(prog) /\ EvaluatedFirst(prog) /\ GoneHanded
  BY DEF OwnInv, CheckInv, Tracked
<1>2. Doing({"use", "move", "give"}) /\ Now.name = n
  BY DEF HandsOn, Doing
<1>3. There \in Steps(prog) /\ StepAt(prog, There) = Now /\ Now.op \in {"use", "move", "give"}
  BY <1>2, ThereStep
<1>4. IsDeferStmt(prog[There[1]])
  BY <1>2 DEF PlaceInv, DefersOnly, Doing, There
<1>5. CASE Doing({"use"})
  <2>1. Now.op = "use"
    BY <1>5 DEF Doing
  <2>2. n \notin Transferred(prog)
    BY <1>1, <1>2, <1>3, <1>4, <2>1 DEF DefersKeep, StepAt
  <2> QED
    BY <1>1, <2>1, <2>2 DEF GoneHanded, HandsOn, Doing
<1>6. CASE HandsOn(n)
  <2>1. Does(prog, There, {"move", "give"}, n)
    BY <1>6, ThereStep DEF HandsOn
  <2>2. n \in Transferred(prog)
    BY <1>3, <2>1 DEF Transferred
  <2>3. PICK u \in Steps(prog) : Does(prog, u, {"use"}, n) /\ u[1] = There[1]
    BY <1>1, <1>3, <2>1, EvaluatedAt
  <2>4. n \notin Transferred(prog)
    BY <1>1, <1>4, <2>3 DEF DefersKeep, Does
  <2> QED
    BY <2>2, <2>4
<1> QED
  BY <1>5, <1>6

(* A place reached with none of the moves before it undone, and with no    *)
(* root binding of the name passed.                                        *)
LEMMA StaysGone ==
    ASSUME NEW p \in Programs, ReboundAtRoot(p), NEW n \in Transferred(p),
           NEW q, NEW r, GoneAt(p, n, q),
           \A m \in Steps(p) : StepAt(p, m).op = "move" /\ Before(m, q) => Before(m, r),
           \A c \in Steps(p) : Binds(p, c, n) /\ Before(c, r) =>
               Before(c, q) \/ c[2] # Len(p[c[1]])
    PROVE  GoneAt(p, n, r)
<1>1. PICK m \in Steps(p) : MovedAt(p, m, n) /\ Before(m, q) /\ NoBinding(p, m, q, n)
  BY DEF GoneAt
<1>2. Before(m, r)
  BY <1>1 DEF MovedAt, Does, StepAt
<1>3. PICK b \in Steps(p) : LastBinding(p, b, n, m)
  BY <1>1 DEF MovedAt, OwnedAt
<1>4. NoBinding(p, m, r, n)
  <2> SUFFICES ASSUME NEW c \in Steps(p), Binds(p, c, n), Before(m, c), Before(c, r)
               PROVE  FALSE
    BY DEF NoBinding
  <2>1. c[2] # Len(p[c[1]])
    BY <1>1 DEF NoBinding
  <2>2. b # c /\ Binds(p, b, n)
    BY <1>3, TextOrder DEF LastBinding
  <2> QED
    BY <2>1, <2>2 DEF ReboundAtRoot
<1> QED
  BY <1>1, <1>2, <1>4 DEF GoneAt

LEMMA NextSlotsFilled ==
    ASSUME OwnInv, RunNext, UNCHANGED vars
    PROVE  SlotsFilled'
<1> SUFFICES ASSUME mode' = "body", NEW n \in Transferred(prog), ~IsCopy(slot'[n].type)
             PROVE  \E b \in Steps(prog) : FilledBy(b, n)'
  BY DEF SlotsFilled, vars
<1> RunInv /\ PlaceInv
  BY DEF OwnInv, PlaceInv
<1>1. /\ prog' = prog /\ prog \in Programs /\ n \in Names /\ mode = "body" /\ SlotsFilled
      /\ ri \in Nat /\ Len(prog) \in Nat
  <2>1. prog' = prog /\ prog \in Programs /\ n \in Names /\ SlotsFilled
    BY DEF vars, OwnInv, CheckInv, Transferred
  <2>2. ri \in Nat /\ Len(prog) \in Nat
    BY DEF RunInv, Cursor, TypeOK
  <2> QED
    BY <2>1, <2>2, BodyMoves
<1>2. CASE Filling(n)
  <2>1. /\ There \in Steps(prog) /\ StepAt(prog, There) = Now /\ Binds(prog, There, n)
        /\ Now.op \in {"let", "letref", "bind"}
    BY <1>2, ThereStep DEF Filling, Binds
  <2>2. Owns(prog, There)
    BY <1>1, <1>2, <2>1, SlotStep DEF Owns, SlotFilled, OwnInv
  <2>3. Doing(WalkOps) /\ Step1
    BY <2>1, BodyMoves, ThereStep DEF Doing, RunDefer
  <2>4. rk = Len(prog[ri]) => ri' = ri + 1
    BY <1>1, <2>3, Onward
  <2>5. ASSUME rk = Len(prog[ri]), NEW c \in Steps(prog), c[1] < ri + 1 PROVE c[1] <= ri
    BY <1>1, <2>5, StepFacts
  <2>6. PICK b \in Steps(prog) : b = There
    BY <2>1
  <2>7. b[2] # Len(prog[b[1]]) \/
             /\ b[1] < ri'
             /\ \A c \in Steps(prog) :
                   Binds(prog, c, n) /\ c[2] = Len(prog[c[1]]) /\ c[1] < ri' => c[1] <= b[1]
    <3>1. b[1] = ri /\ b[2] = rk
      BY <2>6 DEF There
    <3> QED
      BY <1>1, <2>4, <2>5, <3>1
  <2> QED
    BY <1>1, <2>1, <2>2, <2>6, <2>7 DEF FilledBy
<1>3. CASE ~Filling(n)
  <2>1. ~IsCopy(slot[n].type)
    BY <1>1, <1>3, SlotStep DEF OwnInv
  <2>2. PICK b \in Steps(prog) : FilledBy(b, n)
    BY <1>1, <2>1 DEF SlotsFilled
  <2>3. \/ ri' = ri
        \/ ri' = ri + 1 /\ ri \in 1..Len(prog) /\ ~Binds(prog, <<ri, Len(prog[ri])>>, n)
    <3>1. CASE Doing(WalkOps) /\ Step1
      <4>1. /\ rk # Len(prog[ri]) => ri' = ri
            /\ rk = Len(prog[ri]) => ri' = ri + 1
        BY <1>1, <3>1, Onward
      <4>2. ~Binds(prog, There, n) /\ ri \in 1..Len(prog)
        BY <1>3, <3>1, ThereStep, NowType DEF Filling, Doing, Binds, OwnInv
      <4> QED
        BY <4>1, <4>2 DEF There
    <3>2. CASE RunDefer
      <4>1. ri \in 1..Len(prog)
        BY <3>2, NowType DEF RunDefer, OwnInv
      <4>2. ri' = ri + 1
        BY <3>2 DEF RunDefer
      <4>3. prog[ri][Len(prog[ri])].op = "stmtend"
        BY <3>2, DeferPassed
      <4> QED
        BY <4>1, <4>2, <4>3 DEF Binds, Does
    <3>3. CASE Branch(Now.to)
      BY <3>3 DEF Branch
    <3> QED
      BY <3>1, <3>2, <3>3, BodyMoves
  <2>4. ASSUME b[2] = Len(prog[b[1]])
        PROVE  /\ b[1] < ri'
               /\ \A c \in Steps(prog) :
                     Binds(prog, c, n) /\ c[2] = Len(prog[c[1]]) /\ c[1] < ri' => c[1] <= b[1]
    <3>1. /\ b[1] < ri /\ b[1] \in Nat
          /\ \A c \in Steps(prog) :
                Binds(prog, c, n) /\ c[2] = Len(prog[c[1]]) /\ c[1] < ri => c[1] <= b[1]
      BY <1>1, <2>2, <2>4, StepFacts DEF FilledBy
    <3>2. b[1] < ri'
      BY <1>1, <2>3, <3>1
    <3>3. ASSUME NEW c \in Steps(prog),
                 Binds(prog, c, n), c[2] = Len(prog[c[1]]), c[1] < ri'
          PROVE  c[1] < ri
      <4>1. c = <<c[1], c[2]>> /\ c[1] \in Nat
        BY <1>1, StepFacts
      <4>2. c[1] = ri => Binds(prog, <<ri, Len(prog[ri])>>, n)
        BY <3>3, <4>1
      <4> QED
        BY <1>1, <2>3, <3>3, <4>1, <4>2
    <3> QED
      BY <3>1, <3>2, <3>3
  <2> QED
    BY <1>1, <2>2, <2>4 DEF FilledBy
<1> QED
  BY <1>2, <1>3

LEMMA NextGoneInText ==
    ASSUME OwnInv, RunNext, UNCHANGED vars
    PROVE  GoneInText'
<1> SUFFICES ASSUME mode' = "body", NEW n \in Names, slot'[n].value = "gone", ~Leaving'
             PROVE  GoneAt(prog, n, There')
  BY DEF GoneInText, vars
<1> RunInv /\ PlaceInv
  BY DEF OwnInv, PlaceInv
<1>1. /\ prog' = prog /\ prog \in Programs /\ mode = "body" /\ ~Leaving /\ RunInv
      /\ GivesLeave(prog) /\ LoopsKeep(prog) /\ ReboundAtRoot(prog) /\ GoneInText /\ GoneHanded
  BY BodyMoves DEF vars, OwnInv, CheckInv, Tracked
<1>2. ~Filling(n) /\ (slot[n].value = "gone" \/ HandsOn(n))
  <2>1. ~Filling(n)
    BY <1>1, SlotStep DEF SlotFilled
  <2> QED
    BY <1>1, <2>1, SlotStep
<1>3. ASSUME NEW os, Doing(os) PROVE There \in Steps(prog) /\ ~Binds(prog, There, n)
  <2>1. There \in Steps(prog)
    BY <1>3, ThereStep
  <2>2. Binds(prog, There, n) => Now.op \in {"let", "letref", "bind"} /\ Now.name = n
    BY <1>3, ThereStep DEF Binds
  <2> QED
    BY <1>2, <1>3, <2>1, <2>2 DEF Filling, Doing
<1>4. CASE HandsOn(n)
  <2>1. Doing({"move", "give"}) /\ Does(prog, There, {"move", "give"}, n) /\ There \in Steps(prog)
    BY <1>4, ThereStep DEF HandsOn
  <2>2. Now.op \in {"move", "give"} /\ StepAt(prog, There) = Now
    BY <2>1, ThereStep
  <2>3. Doing(WalkOps) /\ Step1
    BY <2>2, BodyMoves DEF Doing, RunDefer
  <2>4. Follows(prog, There, There')
    BY <1>1, <2>3, Onward
  <2>5. CASE Now.op = "move"
    <3>1. MovedAt(prog, There, n)
      <4>1. Does(prog, There, {"move"}, n)
        BY <2>1, <2>2, <2>5 DEF Does, StepAt
      <4> QED
        BY <1>1, <1>4, <4>1, OwnedWhereHanded DEF MovedAt
    <3> QED
      BY <1>1, <2>1, <2>4, <3>1, GonePassed
  <2>6. CASE Now.op = "give"
    <3>1. prog[ri][rk + 1].op \in {"return", "tail"}
      BY <1>1, <2>1, <2>2, <2>6 DEF GivesLeave, StepAt, There
    <3>2. rk # Len(prog[ri]) /\ ri \in 1..Len(prog) /\ Len(prog) \in Nat
      <4>1. ri \in 1..Len(prog)
        BY <1>1, <2>1, NowType
      <4>2. prog[ri][Len(prog[ri])].op \in EndOps /\ Len(prog) \in Nat
        BY <1>1, <4>1, BodyFacts DEF RunInv
      <4> QED
        BY <2>6, <4>1, <4>2 DEF Now, EndOps
    <3>3. ri' = ri /\ rk' = rk + 1
      BY <1>1, <2>3, <3>2, Onward
    <3>4. Leaving'
      BY <1>1, <3>1, <3>2, <3>3 DEF Leaving, Now
    <3> QED
      BY <3>4
  <2> QED
    BY <2>2, <2>5, <2>6
<1>5. CASE slot[n].value = "gone"
  <2>1. GoneAt(prog, n, There) /\ n \in Transferred(prog)
    BY <1>1, <1>5 DEF GoneInText, GoneHanded
  <2>2. CASE Doing(WalkOps) /\ Step1
    BY <1>1, <1>3, <2>1, <2>2, Onward, GonePassed
  <2>3. CASE Doing({"split", "jump", "break", "back"}) /\ Branch(Now.to)
    <3>1. /\ There \in Steps(prog) /\ StepAt(prog, There) = Now
          /\ Now.op \in {"split", "jump", "break", "back"} /\ There = <<ri, rk>>
      BY <2>3, ThereStep DEF There
    <3>2. ri' = ri /\ rk' = Now.to /\ rk' \in 1..Len(prog[ri])
      BY <1>1, <2>3, BranchesOn DEF vars
    <3>3. /\ There' = <<ri, Now.to>> /\ Now.to \in Nat /\ rk \in Nat /\ ri \in Nat
          /\ Now.to \in 1..Len(prog[ri]) /\ Len(prog[ri]) \in Nat
      <4>1. ri \in 1..Len(prog) /\ rk \in Nat
        BY <1>1, <2>3, NowType
      <4>2. Len(prog[ri]) \in Nat /\ Len(prog) \in Nat
        BY <1>1, <4>1, BodyFacts DEF RunInv
      <4> QED
        BY <3>2, <4>1, <4>2 DEF There
    <3>4. \A k \in Now.to .. rk : prog[ri][k].op # "move"
      BY <1>1, <3>1 DEF LoopsKeep, StepAt
    <3> DEFINE to == Now.to
    <3>5. to \in Nat /\ to \in 1..Len(prog[ri]) /\ There' = <<ri, to>>
          /\ \A k \in to .. rk : prog[ri][k].op # "move"
      BY <3>3, <3>4
    <3> HIDE DEF to
    <3>6. ASSUME NEW m \in Steps(prog), StepAt(prog, m).op = "move", Before(m, There)
          PROVE  Before(m, There')
      <4>1. m[1] \in Nat /\ m[2] \in Nat
        BY <1>1, StepFacts
      <4>2. m[1] < ri \/ (m[1] = ri /\ m[2] < rk)
        BY <3>1, <3>6 DEF Before
      <4>3. m[1] = ri => m[2] \notin to .. rk
        BY <3>5, <3>6 DEF StepAt
      <4>4. m[1] < ri \/ (m[1] = ri /\ m[2] < to)
        BY <3>3, <3>5, <4>1, <4>2, <4>3
      <4> QED
        BY <3>5, <4>4 DEF Before
    <3>7. ASSUME NEW c \in Steps(prog), Binds(prog, c, n), Before(c, There')
          PROVE  Before(c, There) \/ c[2] # Len(prog[c[1]])
      <4>1. c[1] \in Nat /\ c[2] \in Nat
        BY <1>1, StepFacts
      <4>2. c[1] < ri \/ (c[1] = ri /\ c[2] < to)
        BY <3>5, <3>7 DEF Before
      <4>3. c[1] = ri => c[2] # Len(prog[c[1]])
        BY <3>3, <3>5, <4>1, <4>2
      <4> QED
        BY <3>1, <4>2, <4>3 DEF Before
    <3> QED
      BY <1>1, <2>1, <3>6, <3>7, StaysGone
  <2>4. CASE RunDefer
    <3>1. /\ There = <<ri, 1>> /\ There' = <<ri + 1, 1>>
          /\ prog[ri][Len(prog[ri])].op = "stmtend"
      BY <2>4, DeferPassed
    <3>2. ri \in Nat
      BY <1>1 DEF RunInv, Cursor
    <3>3. ASSUME NEW m \in Steps(prog), StepAt(prog, m).op = "move", Before(m, There)
          PROVE  Before(m, There')
      BY <1>1, <3>1, <3>2, <3>3, StepFacts DEF Before
    <3>4. ASSUME NEW c \in Steps(prog), Binds(prog, c, n), Before(c, There')
          PROVE  Before(c, There) \/ c[2] # Len(prog[c[1]])
      <4>1. c[1] \in Nat /\ c[2] \in 1..Len(prog[c[1]]) /\ c[2] \in Nat
        BY <1>1, StepFacts
      <4>2. c[1] < ri \/ c[1] = ri
        BY <3>1, <3>2, <3>4, <4>1 DEF Before
      <4>3. c[1] = ri => c[2] # Len(prog[c[1]])
        BY <3>1, <3>4 DEF Binds, Does
      <4> QED
        BY <3>1, <4>2, <4>3 DEF Before
    <3> QED
      BY <1>1, <2>1, <3>3, <3>4, StaysGone
  <2> QED
    BY <2>2, <2>3, <2>4, BodyMoves
<1> QED
  BY <1>2, <1>4, <1>5

LEMMA RunOwnInv == OwnInv /\ Run => OwnInv'
<1> SUFFICES ASSUME OwnInv, RunNext, checked, UNCHANGED vars PROVE OwnInv'
  BY DEF Run
<1>1. PlaceInv' /\ CheckInv'
  BY NextPlaceInv, NextCheckInv DEF OwnInv, CRNext, Run
<1>2. mode # "idle" /\ RunInv
  BY RunningOnly DEF OwnInv, PlaceInv
<1>3. GoneHanded'
  <2> SUFFICES ASSUME NEW n \in Names, slot'[n].value = "gone" PROVE n \in Transferred(prog)
    BY DEF GoneHanded, vars
  <2>1. ~Filling(n)
    BY <1>2, SlotStep DEF SlotFilled
  <2>2. slot[n].value = "gone" \/ HandsOn(n)
    BY <1>2, <2>1, SlotStep
  <2>3. HandsOn(n) => There \in Steps(prog) /\ Does(prog, There, {"move", "give"}, n)
    BY <1>2, ThereStep DEF HandsOn
  <2> QED
    BY <2>2, <2>3 DEF OwnInv, GoneHanded, Transferred
<1>4. NoUseAfterMove'
  <2> SUFFICES ASSUME ~NoUseAfterMove' PROVE FALSE
    OBVIOUS
  <2>1. PICK n \in Names :
            slot[n].value = "gone" /\ ((Doing({"use"}) /\ Now.name = n) \/ HandsOn(n))
    BY <1>2, FaultStep DEF OwnInv
  <2>2. mode = "body"
    BY <2>1, DeferKeeps DEF HandsOn, Doing, Running
  <2>3. ~HandsOn(n) /\ Doing({"use"}) /\ Now.name = n
    BY <2>1, <2>2, OwnedWhereHanded
  <2>4. There \in Steps(prog) /\ Does(prog, There, {"use"}, n) /\ Now.op = "use"
    BY <1>2, <2>3, ThereStep
  <2>5. n \in Transferred(prog) /\ (Leaving \/ GoneAt(prog, n, There))
    BY <2>1, <2>2 DEF OwnInv, GoneHanded, GoneInText
  <2> QED
    BY <1>2, <2>4, <2>5, AcceptedText DEF Leaving
<1> QED
  BY <1>1, <1>3, <1>4, NextSlotsFilled, NextGoneInText DEF OwnInv

LEMMA NextOwnInv == OwnInv /\ [CRNext]_crVars => OwnInv'
<1> SUFFICES ASSUME OwnInv, [CRNext]_crVars PROVE OwnInv'
  OBVIOUS
<1>1. PlaceInv' /\ CheckInv' /\ prog' = prog
  <2>1. [Next]_vars
    BY DEF CRNext, Check, Launch, Run, Over, crVars, vars
  <2> QED
    BY <2>1, NextPlaceInv, NextCheckInv, BodyKept DEF OwnInv, CheckInv
<1>2. CASE Run
  BY <1>2, RunOwnInv
<1>3. CASE Launch
  <2>1. /\ slot' = slot /\ faults' = faults /\ slot = [n \in Names |-> Empty]
    BY <1>3 DEF Launch, Launched, OwnInv, PlaceInv
  <2>2. \A n \in Names : slot'[n].value = "none" /\ IsCopy(slot'[n].type)
    BY <2>1 DEF Empty, IsCopy
  <2>3. SlotsFilled' /\ GoneHanded' /\ GoneInText'
    BY <1>1, <2>2 DEF SlotsFilled, GoneHanded, GoneInText, Transferred
  <2> QED
    BY <1>1, <2>1, <2>3 DEF OwnInv, NoUseAfterMove
<1>4. CASE Check
  <2>1. ~checked /\ UNCHANGED runVars
    BY <1>4 DEF Check
  <2>2. mode = "idle"
    BY <2>1 DEF OwnInv, PlaceInv, Launched
  <2> QED
    BY <1>1, <2>1, <2>2 DEF OwnInv, runVars, SlotsFilled, GoneHanded, GoneInText, NoUseAfterMove
<1>5. CASE Over \/ UNCHANGED crVars
  <2>1. UNCHANGED <<vars, runVars>>
    BY <1>5 DEF Over, crVars
  <2>2. GoneHanded' /\ NoUseAfterMove'
    BY <2>1 DEF OwnInv, vars, runVars, GoneHanded, NoUseAfterMove
  <2>3. SlotsFilled' /\ GoneInText'
    BY <2>1 DEF OwnInv, vars, runVars, SlotsFilled, GoneInText, FilledBy, Leaving, Now, There
  <2> QED
    BY <1>1, <2>2, <2>3 DEF OwnInv
<1> QED
  BY <1>2, <1>3, <1>4, <1>5 DEF CRNext

LEMMA InitOwnInv == CRInit /\ Tracked(prog) => OwnInv
<1> SUFFICES ASSUME CRInit, Tracked(prog) PROVE OwnInv
  OBVIOUS
<1>1. PlaceInv /\ CheckInv
  BY InitPlaceInv, InitCheckInv DEF CRInit, Init
<1>2. mode = "idle" /\ faults = {} /\ slot = [n \in Names |-> Empty]
  BY DEF CRInit, RunInit, Init
<1>3. \A n \in Names : slot[n].value # "gone"
  BY <1>2 DEF Empty
<1> QED
  BY <1>1, <1>2, <1>3 DEF NoUseAfterMove, OwnInv, SlotsFilled, GoneHanded, GoneInText

(* "compile-time memory safety" (README.md:8), moves: in a run of a body   *)
(* the checker accepts, no value is read or handed on after it was moved   *)
(* away, whatever branches and loops the run takes and whatever its defers *)
(* do - for every set of bodies that keep to the positions the checker     *)
(* follows (Tracked); each part of that hypothesis leaves out bodies the   *)
(* checker accepts and that go wrong.                                      *)
THEOREM MovesRespected ==
    ASSUME \A p \in Programs : Tracked(p)
    PROVE  CRSpec => []NoUseAfterMove
<1>1. CRInit => OwnInv
  BY InitOwnInv DEF CRInit, Init
<1>2. OwnInv => NoUseAfterMove
  BY DEF OwnInv
<1> QED
  BY <1>1, <1>2, NextOwnInv, PTL DEF CRSpec

-----------------------------------------------------------------------------
(* What becomes of @must_defer values: the defers and the returns the run  *)
(* has passed, the values it has taken on, and those a registered defer is *)
(* still to release.                                                       *)
DefersRegistered ==
    mode = "body" =>
        \A d \in 1..Len(prog) :
            d < ri /\ IsDeferStmt(prog[d]) => \E t \in 1..Len(pending) : pending[t] = d
ReturnsLeft ==
    mode = "body" =>
        \A j \in 1..Len(prog) :
            j < ri /\ ~IsDeferStmt(prog[j]) => ~IsTail(prog[j]) /\ ~IsReturnStmt(prog[j])
Entered ==
    mode = "body" /\ ri <= Len(prog) =>
        IF IsDeferStmt(prog[ri]) THEN rk = 1
        ELSE IsReturnStmt(prog[ri]) => rk < Len(prog[ri])

BoundBefore(n) ==
    \E i \in 1..Len(prog) : i < ri /\ RootLet(i) /\ BoundName(prog[i]) = n
ReleasedLater(n) ==
    \E t \in 1..Len(pending) :
        TouchedIn(prog[pending[t]], n) /\ (ri <= Len(prog) => t < Len(pending))
OwedKept ==
    /\ mode = "body" => \A n \in owed : BoundBefore(n)
    /\ mode = "defers" => \A n \in owed : ReleasedLater(n)
    /\ mode \in {"idle", "done"} => owed = {}

ReleaseInv ==
    /\ PlaceInv /\ PairInv /\ Discharging(prog)
    /\ DefersRegistered /\ ReturnsLeft /\ Entered /\ OwedKept

LEMMA RootOnce == \A p \in Programs : BoundAtRoot(p) => NeverRebound(p)
<1> SUFFICES ASSUME NEW p \in Programs, BoundAtRoot(p), NEW i \in 1..Len(p),
                    NEW j \in (i + 1)..Len(p), NEW k \in 1..Len(p[j]),
                    p[i][Len(p[i])].op = "let", p[i][Len(p[i])].type = "resource",
                    p[j][k].op \in {"let", "letref"}, p[j][k].name = p[i][Len(p[i])].name
             PROVE  FALSE
  BY DEF NeverRebound
<1>1. p \in Seq(Seq(Step) \ {<<>>})
  BY ProgramsAssumption
<1>2. Len(p) \in Nat /\ p[i] \in Seq(Step) \ {<<>>}
  BY <1>1
<1>3. Len(p[i]) \in 1..Len(p[i])
  <2>1. Len(p[i]) \in Nat \ {0}
    BY <1>2
  <2> QED
    BY <2>1
<1>4. j \in 1..Len(p) /\ j # i
  BY <1>2
<1> DEFINE b == <<i, Len(p[i])>>
           c == <<j, k>>
<1>5. b \in Steps(p) /\ c \in Steps(p)
  BY <1>3, <1>4, StepPlace
<1>6. BindsResource(p, b)
  BY DEF BindsResource
<1>7. Binds(p, c, BoundName(p[b[1]]))
  BY DEF Binds, Does, BoundName
<1>8. b = c
  BY <1>5, <1>6, <1>7 DEF BoundAtRoot
<1> QED
  BY <1>4, <1>8

(* Within the body the run skips neither a defer nor a return.             *)
LEMMA PassedStep ==
    ASSUME ReleaseInv, RunNext, UNCHANGED vars, mode' = "body"
    PROVE  DefersRegistered' /\ ReturnsLeft' /\ Entered'
<1> PlaceInv /\ RunInv
  BY DEF ReleaseInv, PlaceInv
<1>1. /\ prog' = prog /\ mode = "body" /\ prog \in Programs
      /\ DefersRegistered /\ ReturnsLeft /\ Entered /\ ExitsPlain(prog)
  BY BodyMoves DEF vars, ReleaseInv, RunInv, Discharging
<1>2. ri \in Nat /\ Len(prog) \in Nat /\ pending \in Seq(1..Len(prog))
  BY DEF RunInv, Cursor, TypeOK, RunTypeOK
<1>3. ASSUME NEW os, Doing(os), "defer" \notin os PROVE ~IsDeferStmt(prog[ri])
  <2>1. IsDeferStmt(prog[ri]) => rk = 1
    BY <1>1, <1>3 DEF Entered, Doing
  <2> QED
    BY <1>3, <2>1 DEF Doing, Now, IsDeferStmt
<1>4. CASE Doing(WalkOps) /\ Step1
  <2>1. /\ ri \in 1..Len(prog) /\ rk \in 1..Len(prog[ri]) /\ Now.op \in WalkOps /\ rk \in Nat
        /\ Len(prog[ri]) \in Nat
    BY <1>4, NowType, BodyFacts DEF RunInv
  <2>2. ~IsDeferStmt(prog[ri])
    BY <1>3, <1>4 DEF WalkOps
  <2>3. IsReturnStmt(prog[ri]) => rk < Len(prog[ri])
    BY <1>1, <2>1, <2>2 DEF Entered
  <2>4. pending' = pending
    BY <1>1, <1>4 DEF Step1
  <2>5. CASE rk # Len(prog[ri])
    <3>1. ri' = ri /\ rk' = rk + 1
      BY <1>1, <1>4, <2>5, Onward
    <3>2. IsReturnStmt(prog[ri]) => rk + 1 < Len(prog[ri])
      <4> SUFFICES ASSUME IsReturnStmt(prog[ri]), rk + 1 = Len(prog[ri]) PROVE FALSE
        BY <2>1, <2>3
      <4>1. Len(prog[ri]) - 1 = rk
        BY <2>1
      <4>2. prog[ri][Len(prog[ri]) - 1].op = "return"
        BY DEF IsReturnStmt
      <4> QED
        BY <2>1, <4>1, <4>2 DEF Now, WalkOps
    <3> QED
      BY <1>1, <2>2, <2>4, <3>1, <3>2 DEF DefersRegistered, ReturnsLeft, Entered
  <2>6. CASE rk = Len(prog[ri])
    <3>1. ri' = ri + 1 /\ rk' = 1
      <4>1. ~(rk < Len(prog[ri]))
        BY <2>1, <2>6
      <4> QED
        BY <1>1, <1>4, <4>1 DEF Step1
    <3>2. ~IsTail(prog[ri]) /\ ~IsReturnStmt(prog[ri])
      <4>1. ~IsTail(prog[ri])
        BY <2>1, <2>6 DEF IsTail, Now, WalkOps
      <4> QED
        BY <2>1, <2>3, <2>6, <4>1
    <3>3. \A j \in 1..Len(prog) : j < ri + 1 => j < ri \/ j = ri
      BY <1>2
    <3>4. DefersRegistered' /\ ReturnsLeft'
      BY <1>1, <2>2, <2>4, <3>1, <3>2, <3>3 DEF DefersRegistered, ReturnsLeft
    <3>5. Entered'
      BY <1>1, <3>1 DEF Entered, IsReturnStmt
    <3> QED
      BY <3>4, <3>5
  <2> QED
    BY <2>5, <2>6
<1>5. CASE Doing({"split", "jump", "break", "back"}) /\ Branch(Now.to)
  <2>1. /\ There \in Steps(prog) /\ StepAt(prog, There) = Now /\ There[1] = ri
        /\ Now.op \in {"split", "jump", "break", "back"}
    BY <1>5, ThereStep DEF There
  <2>2. ri' = ri /\ rk' = Now.to /\ rk' \in 1..Len(prog[ri]) /\ pending' = pending
    BY <1>5, BranchesOn DEF vars
  <2>3. ri \in 1..Len(prog) /\ Len(prog[ri]) \in Nat
    BY <1>5, NowType, BodyFacts DEF RunInv
  <2>4. ~IsDeferStmt(prog[ri])
    BY <1>3, <1>5
  <2>5. IsReturnStmt(prog[ri]) => Now.to # Len(prog[ri])
    BY <1>1, <2>1 DEF ExitsPlain, StepAt
  <2>6. IsReturnStmt(prog[ri]) => rk' < Len(prog[ri])
    BY <2>2, <2>3, <2>5
  <2> QED
    BY <1>1, <2>2, <2>4, <2>6 DEF DefersRegistered, ReturnsLeft, Entered
<1>6. CASE RunDefer
  <2>1. IsDeferStmt(prog[ri]) /\ ri \in 1..Len(prog)
    BY <1>6, DeferPassed, NowType DEF RunDefer
  <2>2. pending' = Append(pending, ri) /\ ri' = ri + 1 /\ rk' = 1
    BY <1>6 DEF RunDefer
  <2>3. /\ Len(pending') = Len(pending) + 1 /\ Len(pending) \in Nat
        /\ pending'[Len(pending) + 1] = ri
        /\ \A t \in 1..Len(pending) : pending'[t] = pending[t]
    BY <1>2, <2>1, <2>2
  <2>4. \A j \in 1..Len(prog) : j < ri + 1 => j < ri \/ j = ri
    BY <1>2
  <2>5. ASSUME NEW d \in 1..Len(prog), d < ri + 1, IsDeferStmt(prog[d])
        PROVE  \E t \in 1..Len(pending') : pending'[t] = d
    <3>1. CASE d = ri
      BY <2>3, <3>1
    <3>2. CASE d < ri
      <4>1. PICK t \in 1..Len(pending) : pending[t] = d
        BY <1>1, <2>5, <3>2 DEF DefersRegistered
      <4> QED
        BY <2>3, <4>1
    <3> QED
      BY <2>4, <2>5, <3>1, <3>2
  <2>6. DefersRegistered'
    BY <1>1, <2>2, <2>5 DEF DefersRegistered
  <2>7. ReturnsLeft'
    BY <1>1, <2>1, <2>2, <2>4 DEF ReturnsLeft
  <2>8. Entered'
    BY <1>1, <2>2 DEF Entered, IsReturnStmt
  <2> QED
    BY <2>6, <2>7, <2>8
<1> QED
  BY <1>4, <1>5, <1>6, BodyMoves

(* Where the run takes on a value, and that it gives none up but to the    *)
(* caller or to a defer.                                                   *)
LEMMA OwedStep ==
    ASSUME PlaceInv, RunNext
    PROVE  \/ owed' = owed
           \/ RunReturn \/ RunFallOff \/ RunNextDefer
           \/ Doing({"let", "bind"}) /\ Step1 /\ Now.type = "resource" /\ owed' = owed \cup {Now.name}
<1>1. CASE RunUse \/ RunRef \/ RunTransfer \/ RunAssign \/ RunField \/ RunLetRef \/ RunCall
  BY <1>1 DEF RunUse, RunRef, RunTransfer, RunAssign, RunField, RunLetRef, RunCall
<1>2. CASE RunSplit \/ RunJump \/ RunBack \/ RunDefer \/ RunMark \/ RunDone
  BY <1>2 DEF RunSplit, RunJump, RunBack, RunDefer, RunMark, RunDone
<1>3. CASE RunLet
  BY <1>3 DEF RunLet
<1> QED
  BY <1>1, <1>2, <1>3 DEF RunNext

(* A value is taken on at the end of a root statement, in the body.        *)
LEMMA TakenOn ==
    ASSUME ReleaseInv, Doing({"let", "bind"}), Now.type = "resource"
    PROVE  /\ mode = "body" /\ rk = Len(prog[ri])
           /\ ri \in 1..Len(prog) /\ RootLet(ri) /\ BoundName(prog[ri]) = Now.name
<1>1. RunInv /\ PlaceInv /\ BoundAtRoot(prog)
  BY DEF ReleaseInv, PlaceInv, Discharging
<1>2. /\ There \in Steps(prog) /\ StepAt(prog, There) = Now /\ There[1] = ri /\ There[2] = rk
      /\ Now.op \in {"let", "bind"} /\ ri \in 1..Len(prog)
  BY <1>1, ThereStep, NowType DEF There
<1>3. BindsResource(prog, There)
  BY <1>2 DEF BindsResource, StepAt
<1>4. rk = Len(prog[ri]) /\ IsBindingStmt(prog[ri])
  BY <1>1, <1>2, <1>3 DEF BoundAtRoot
<1>5. prog[ri][Len(prog[ri])] = Now
  BY <1>4 DEF Now
<1>6. Now.op = "let"
  BY <1>2, <1>4, <1>5 DEF IsBindingStmt
<1>7. mode = "body"
  <2> SUFFICES ASSUME mode = "defers" PROVE FALSE
    BY DEF Doing, Running
  <2>1. IsDeferStmt(prog[ri])
    BY DEF Doing, PlaceInv, ReleaseInv, DefersOnly
  <2> QED
    BY <1>1, <1>2, <1>5, <1>6, <2>1, BranchesAssumption DEF RunInv
<1> QED
  BY <1>2, <1>4, <1>5, <1>6, <1>7 DEF RootLet, BoundName

(* A defer the body has passed is there when the function is left.         *)
LEMMA LeftToDefer ==
    ASSUME ReleaseInv, mode = "body", Exit, UNCHANGED vars,
           NEW n, NEW d \in 1..Len(prog), d < ri, IsDeferStmt(prog[d]), TouchedIn(prog[d], n)
    PROVE  ReleasedLater(n)'
<1>1. PICK t \in 1..Len(pending) : pending[t] = d
  BY DEF ReleaseInv, DefersRegistered
<1>2. ri' = Len(prog) + 1 /\ pending' = pending /\ prog' = prog
  BY DEF Exit, vars
<1>3. ~(ri' <= Len(prog))
  BY <1>2 DEF ReleaseInv, PairInv, TypeOK
<1> QED
  BY <1>1, <1>2, <1>3 DEF ReleasedLater

(* The pairing the checker asked for, at an exit behind it.                *)
LEMMA PairedBehind ==
    ASSUME ReleaseInv, mode = "body", NEW n, BoundBefore(n)
    PROVE  \E j \in 1..Len(prog) :
              TouchedIn(prog[j], n) /\ (j < ri => IsDeferStmt(prog[j]))
<1>1. checked /\ errors = {} /\ MustDeferPaired /\ ReturnsLeft
  BY DEF ReleaseInv, PlaceInv, Launched, PairInv
<1>2. PICK i \in 1..Len(prog) : i < ri /\ RootLet(i) /\ BoundName(prog[i]) = n
  BY DEF BoundBefore
<1>3. Paired(i, n)
  BY <1>1, <1>2 DEF MustDeferPaired, RootLet, IsBindingStmt
<1>4. PICK j \in 1..Len(prog) :
          /\ IsDeferStmt(prog[j]) \/ IsReturnStmt(prog[j]) \/ IsTail(prog[j])
          /\ Mentions(prog[j], n)
  BY <1>3 DEF Paired
<1>5. TouchedIn(prog[j], n)
  BY <1>4 DEF Mentions, TouchedIn
<1> QED
  BY <1>1, <1>4, <1>5 DEF ReturnsLeft

(* At every exit, what is still owed is left to a registered defer.        *)
LEMMA ExitKeeps ==
    ASSUME ReleaseInv, RunReturn \/ RunFallOff, UNCHANGED vars
    PROVE  OwedKept'
<1>1. /\ mode = "body" /\ Exit /\ PlaceInv /\ RunInv /\ prog \in Programs
      /\ ExitsPlain(prog) /\ EarlyReturnsKeep(prog)
  BY DEF RunReturn, RunFallOff, ReleaseInv, PlaceInv, RunInv, Discharging
<1>2. mode' = "defers" /\ prog' = prog
  BY <1>1 DEF Exit, vars
<1> SUFFICES ASSUME NEW n \in owed' PROVE ReleasedLater(n)'
  BY <1>2 DEF OwedKept
<1>3. n \in owed /\ n \in Names
  BY <1>1 DEF Exit, RunInv, RunTypeOK
<1>4. BoundBefore(n)
  BY <1>1, <1>3 DEF ReleaseInv, OwedKept
<1>5. ASSUME NEW d \in 1..Len(prog), d < ri, IsDeferStmt(prog[d]), TouchedIn(prog[d], n)
      PROVE  ReleasedLater(n)'
  BY <1>1, <1>5, LeftToDefer
<1>6. ri \in Nat /\ Len(prog) \in Nat
  BY <1>1 DEF RunInv, Cursor, TypeOK
<1>7. PICK j \in 1..Len(prog) : TouchedIn(prog[j], n) /\ (j < ri => IsDeferStmt(prog[j]))
  BY <1>1, <1>4, PairedBehind
<1>8. CASE RunFallOff
  <2>1. j < ri
    BY <1>6, <1>8 DEF RunFallOff
  <2> QED
    BY <1>5, <1>7, <2>1
<1>9. CASE RunReturn
  <2>1. /\ There \in Steps(prog) /\ StepAt(prog, There) = Now /\ There[1] = ri /\ There[2] = rk
        /\ Now.op \in {"return", "tail"} /\ ri \in 1..Len(prog) /\ rk \in Nat
    BY <1>1, <1>9, ThereStep, NowType DEF RunReturn, There
  <2>2. /\ ~(rk > 1 /\ prog[ri][rk - 1].op = "give" /\ prog[ri][rk - 1].name = n)
        /\ IsTail(prog[ri]) \/ IsReturnStmt(prog[ri]) => ~TouchedIn(prog[ri], n)
    <3>1. ~(ri > Len(prog))
      BY <1>6, <2>1
    <3>2. owed' = owed \ {m \in Names : \/ rk > 1 /\ prog[ri][rk - 1].op = "give"
                                               /\ prog[ri][rk - 1].name = m
                                        \/ (IsTail(prog[ri]) \/ IsReturnStmt(prog[ri]))
                                               /\ \E k \in 1..Len(prog[ri]) : Touches(prog[ri][k], m)}
      BY <1>1, <3>1 DEF Exit
    <3> QED
      BY <1>3, <3>2 DEF TouchedIn
  <2>3. CASE Now.op = "tail"
    <3>1. There = <<Len(prog), Len(prog[ri])>>
      BY <1>1, <2>1, <2>3 DEF ExitsPlain, StepAt
    <3>2. ri = Len(prog) /\ rk = Len(prog[ri])
      BY <2>1, <3>1
    <3>3. IsTail(prog[ri])
      BY <2>3, <3>2 DEF IsTail, Now
    <3>4. j # ri
      BY <1>7, <2>2, <3>3
    <3>5. j < ri
      BY <1>6, <3>2, <3>4
    <3> QED
      BY <1>5, <1>7, <3>5
  <2>4. CASE Now.op = "return"
    <3>1. PICK i \in 1..Len(prog) : i < ri /\ RootLet(i) /\ BoundName(prog[i]) = n
      BY <1>4 DEF BoundBefore
    <3> DEFINE b == <<i, Len(prog[i])>>
    <3>2. Len(prog[i]) \in 1..Len(prog[i])
      <4>1. Len(prog[i]) \in Nat \ {0}
        BY <1>1, BodyFacts DEF RunInv
      <4> QED
        BY <4>1
    <3>3. b \in Steps(prog) /\ BindsResource(prog, b) /\ prog[b[1]][b[2]].name = n /\ b[1] = i
      BY <3>1, <3>2, StepPlace DEF BindsResource, RootLet, BoundName
    <3> HIDE DEF b
    <3>4. \/ HandsBack(prog, There, n)
          \/ \E d \in (i + 1)..(ri - 1) : IsDeferStmt(prog[d]) /\ TouchedIn(prog[d], n)
      BY <1>1, <2>1, <2>4, <3>1, <3>3 DEF EarlyReturnsKeep, StepAt
    <3>5. ~HandsBack(prog, There, n)
      BY <2>1, <2>2 DEF HandsBack
    <3>6. PICK d \in (i + 1)..(ri - 1) : IsDeferStmt(prog[d]) /\ TouchedIn(prog[d], n)
      BY <3>4, <3>5
    <3>7. d \in 1..Len(prog) /\ d < ri
      BY <1>6, <2>1, <3>6
    <3> QED
      BY <1>5, <3>6, <3>7
  <2> QED
    BY <2>1, <2>3, <2>4
<1> QED
  BY <1>8, <1>9

(* The registered defers are started last to first, each one once.         *)
LEMMA DefersRelease ==
    ASSUME ReleaseInv, mode = "defers", RunNext, UNCHANGED vars
    PROVE  OwedKept'
<1>1. /\ RunInv /\ PlaceInv /\ prog' = prog /\ prog \in Programs
      /\ \A n \in owed : ReleasedLater(n)
  BY DEF ReleaseInv, PlaceInv, RunInv, OwedKept, vars
<1>2. ri \in Nat /\ Len(prog) \in Nat /\ pending \in Seq(1..Len(prog)) /\ Len(pending) \in Nat
  BY <1>1 DEF RunInv, Cursor, TypeOK, RunTypeOK
<1>3. ~RunReturn /\ ~RunFallOff /\ ~RunDefer
  BY DEF RunReturn, RunFallOff, RunDefer
<1>4. ~RunNextDefer => owed' = owed
  BY <1>1, <1>3, OwedStep, TakenOn
<1>5. CASE Doing(WalkOps) /\ Step1
  <2>1. ri \in 1..Len(prog) /\ rk \in 1..Len(prog[ri]) /\ Len(prog[ri]) \in Nat /\ ri <= Len(prog)
    BY <1>1, <1>2, <1>5, NowType, BodyFacts DEF RunInv
  <2>2. owed' = owed /\ mode' = "defers"
    <3>1. ~RunNextDefer
      BY <1>2, <2>1 DEF RunNextDefer
    <3> QED
      BY <1>4, <1>5, <3>1 DEF Step1
  <2>3. CASE rk < Len(prog[ri])
    <3>1. ri' = ri /\ pending' = pending
      BY <1>5, <2>3 DEF Step1
    <3> QED
      BY <1>1, <2>2, <3>1 DEF OwedKept, ReleasedLater
  <2>4. CASE rk = Len(prog[ri])
    <3>1. pending' = SubSeq(pending, 1, Len(pending) - 1) /\ ri' = Len(prog) + 1
      BY <1>5, <2>1, <2>4 DEF Step1
    <3>2. pending # <<>>
      BY <1>1, <2>1 DEF RunInv, Cursor
    <3>3. /\ Len(pending') = Len(pending) - 1
          /\ \A t \in 1..(Len(pending) - 1) : pending'[t] = pending[t]
      BY <1>2, <3>1, <3>2, FrontOf
    <3>4. ASSUME NEW n \in owed PROVE ReleasedLater(n)'
      <4>1. PICK t \in 1..Len(pending) : TouchedIn(prog[pending[t]], n) /\ t < Len(pending)
        BY <1>1, <2>1 DEF ReleasedLater
      <4>2. t \in 1..Len(pending') /\ pending'[t] = pending[t]
        BY <1>2, <3>3, <4>1
      <4>3. ~(ri' <= Len(prog))
        BY <1>2, <3>1
      <4> QED
        BY <1>1, <4>1, <4>2, <4>3 DEF ReleasedLater
    <3> QED
      BY <2>2, <3>4 DEF OwedKept
  <2> QED
    BY <2>1, <2>3, <2>4
<1>6. CASE Doing({"split", "jump", "break", "back"}) /\ Branch(Now.to)
  <2>1. ri \in 1..Len(prog)
    BY <1>1, <1>6, NowType
  <2>2. ~RunNextDefer
    BY <1>2, <2>1 DEF RunNextDefer
  <2>3. UNCHANGED <<ri, mode, pending, owed>>
    BY <1>4, <1>6, <2>2 DEF Branch
  <2> QED
    BY <1>1, <2>3 DEF OwedKept, ReleasedLater
<1>7. CASE RunNextDefer
  <2> DEFINE d == pending[Len(pending)]
  <2>1. /\ ri > Len(prog) /\ pending' = pending /\ mode' = "defers"
        /\ owed' = owed \ {n \in Names : TouchedIn(prog[d], n)}
    BY <1>7 DEF RunNextDefer, TouchedIn
  <2>2. ASSUME NEW n \in owed' PROVE ReleasedLater(n)'
    <3>1. n \in owed /\ n \in Names /\ ~TouchedIn(prog[d], n)
      BY <1>1, <2>1, <2>2 DEF RunInv, RunTypeOK
    <3>2. PICK t \in 1..Len(pending) : TouchedIn(prog[pending[t]], n)
      BY <1>1, <3>1 DEF ReleasedLater
    <3>3. t < Len(pending)
      BY <1>2, <3>1, <3>2
    <3> QED
      BY <1>1, <2>1, <3>2, <3>3 DEF ReleasedLater
  <2> QED
    BY <2>1, <2>2 DEF OwedKept
<1>8. CASE RunDone
  <2>1. mode' = "done" /\ pending = <<>> /\ owed' = owed
    BY <1>8 DEF RunDone
  <2>2. owed = {}
    BY <1>1, <2>1 DEF ReleasedLater
  <2> QED
    BY <2>1, <2>2 DEF OwedKept
<1> QED
  BY <1>3, <1>5, <1>6, <1>7, <1>8, RunMoves

LEMMA BodyOwes ==
    ASSUME ReleaseInv, mode = "body", RunNext, UNCHANGED vars
    PROVE  OwedKept'
<1>1. /\ RunInv /\ PlaceInv /\ prog' = prog /\ \A n \in owed : BoundBefore(n)
  BY DEF ReleaseInv, PlaceInv, RunInv, OwedKept, vars
<1>2. ri \in Nat
  BY <1>1 DEF RunInv, Cursor
<1>3. CASE RunReturn \/ RunFallOff
  BY <1>3, ExitKeeps
<1>4. CASE ~RunReturn /\ ~RunFallOff
  <2>1. \/ Doing(WalkOps) /\ Step1
        \/ Doing({"split", "jump", "break", "back"}) /\ Branch(Now.to)
        \/ RunDefer
    BY <1>4, RunMoves DEF RunNextDefer, RunDone
  <2>2. mode' = "body" /\ (ri' = ri \/ ri' = ri + 1)
    <3>1. CASE Doing(WalkOps) /\ Step1
      BY <1>1, <3>1, Onward
    <3>2. CASE Branch(Now.to) \/ RunDefer
      BY <3>2 DEF Branch, RunDefer
    <3> QED
      BY <2>1, <3>1, <3>2
  <2>3. ASSUME NEW n \in owed PROVE BoundBefore(n)'
    <3>1. PICK i \in 1..Len(prog) : i < ri /\ RootLet(i) /\ BoundName(prog[i]) = n
      BY <1>1 DEF BoundBefore
    <3>2. i < ri'
      <4>1. Len(prog) \in Nat
        BY <1>1 DEF RunInv, TypeOK
      <4> QED
        BY <1>2, <2>2, <3>1, <4>1
    <3> QED
      BY <1>1, <3>1, <3>2 DEF BoundBefore, RootLet
  <2>4. CASE owed' = owed
    BY <2>2, <2>3, <2>4 DEF OwedKept
  <2>5. CASE /\ Doing({"let", "bind"}) /\ Step1 /\ Now.type = "resource"
             /\ owed' = owed \cup {Now.name}
    <3>1. /\ rk = Len(prog[ri]) /\ ri \in 1..Len(prog)
          /\ RootLet(ri) /\ BoundName(prog[ri]) = Now.name
      BY <2>5, TakenOn
    <3>2. ri' = ri + 1
      BY <1>1, <2>5, <3>1, Onward
    <3>3. ri < ri'
      BY <1>2, <3>2
    <3>4. PICK i \in 1..Len(prog) : i = ri
      BY <3>1
    <3>5. \A n \in {Now.name} : BoundBefore(n)'
      BY <1>1, <3>1, <3>3, <3>4 DEF BoundBefore, RootLet
    <3> QED
      BY <2>2, <2>3, <2>5, <3>5 DEF OwedKept
  <2> QED
    BY <1>1, <1>4, <2>4, <2>5, OwedStep DEF RunNextDefer
<1> QED
  BY <1>3, <1>4

LEMMA RunReleases == ReleaseInv /\ Run => OwedKept' /\ DefersRegistered' /\ ReturnsLeft' /\ Entered'
<1> SUFFICES ASSUME ReleaseInv, Run
             PROVE  OwedKept' /\ DefersRegistered' /\ ReturnsLeft' /\ Entered'
  OBVIOUS
<1>1. RunNext /\ UNCHANGED vars
  BY DEF Run
<1>2. OwedKept'
  <2>1. mode \in {"body", "defers"}
    BY <1>1, RunMoves DEF Doing, Running, RunDefer, RunReturn, RunFallOff, RunNextDefer, RunDone
  <2> QED
    BY <1>1, <2>1, BodyOwes, DefersRelease
<1>3. CASE mode' = "body"
  BY <1>1, <1>2, <1>3, PassedStep
<1>4. CASE mode' # "body"
  BY <1>2, <1>4 DEF DefersRegistered, ReturnsLeft, Entered
<1> QED
  BY <1>3, <1>4

LEMMA NextReleaseInv == ReleaseInv /\ [CRNext]_crVars => ReleaseInv'
<1> SUFFICES ASSUME ReleaseInv, [CRNext]_crVars PROVE ReleaseInv'
  OBVIOUS
<1>1. PlaceInv' /\ PairInv' /\ prog' = prog /\ Discharging(prog)
  <2>1. [Next]_vars
    BY DEF CRNext, Check, Launch, Run, Over, crVars, vars
  <2> QED
    BY <2>1, NextPlaceInv, NextPairInv, BodyKept DEF ReleaseInv, PairInv
<1>2. CASE Run
  BY <1>1, <1>2, RunReleases DEF ReleaseInv
<1>3. CASE Launch
  <2>1. /\ ri' = 1 /\ rk' = 1 /\ owed' = {} /\ mode' = "body"
    BY <1>3 DEF Launch, ReleaseInv, PlaceInv, RunInv, Cursor, OwedKept
  <2>2. \A d \in 1..Len(prog) : ~(d < 1)
    BY <1>1 DEF PairInv, TypeOK
  <2> QED
    BY <1>1, <2>1, <2>2 DEF ReleaseInv, DefersRegistered, ReturnsLeft, Entered, OwedKept, IsReturnStmt
<1>4. CASE Check \/ Over \/ UNCHANGED crVars
  <2>1. UNCHANGED runVars
    BY <1>4 DEF Check, Over, crVars
  <2> QED
    BY <1>1, <2>1 DEF ReleaseInv, runVars, DefersRegistered, ReturnsLeft, Entered, OwedKept,
       BoundBefore, RootLet, ReleasedLater
<1> QED
  BY <1>2, <1>3, <1>4 DEF CRNext

(* Every @must_defer value is handed to a defer that ran or to the caller  *)
(* (types.cc:1430): the run of an accepted body ends with none left, for   *)
(* every set of bodies in which such a value is bound at the root, under a *)
(* name of its own, and an early return hands it back or comes after its   *)
(* defer (Discharging); the checker checks none of these.                  *)
THEOREM ResourcesReleased ==
    ASSUME \A p \in Programs : Discharging(p)
    PROVE  CRSpec => []ResourcesDischarged
<1>1. CRInit => ReleaseInv
  <2> SUFFICES ASSUME CRInit PROVE ReleaseInv
    OBVIOUS
  <2>1. prog \in Programs /\ Init
    BY DEF CRInit, Init
  <2>2. Discharging(prog) /\ NeverRebound(prog)
    BY <2>1, RootOnce DEF Discharging
  <2>3. PlaceInv /\ PairInv
    BY <2>1, <2>2, InitPlaceInv, InitPairInv
  <2>4. mode = "idle" /\ owed = {}
    BY DEF CRInit, RunInit
  <2> QED
    BY <2>2, <2>3, <2>4 DEF ReleaseInv, DefersRegistered, ReturnsLeft, Entered, OwedKept
<1>2. ReleaseInv => ResourcesDischarged
  BY DEF ReleaseInv, OwedKept, ResourcesDischarged
<1> QED
  BY <1>1, <1>2, NextReleaseInv, PTL DEF CRSpec

-----------------------------------------------------------------------------
(* References.  What the text says is lent at a place, by an anonymous     *)
(* reference of the statement or by one bound to a name that this or a     *)
(* later statement mentions; and the rules of types.cc:67-74 for the step  *)
(* at a place, said of the text alone.                                     *)
Unreleased(p, i, k, m) == \A j \in k..(m - 1) : ~Releases(p[i], j)
AnonHeld(p, q, x, m) ==
    \E k \in 1..(q[2] - 1) :
        /\ Does(p, <<q[1], k>>, {"ref"}, x) /\ p[q[1]][k].excl = m
        /\ Unreleased(p, q[1], k, q[2])
LendsTo(p, b, x, m, h) ==
    StepAt(p, b).op = "letref" /\ StepAt(p, b).name = h
        /\ StepAt(p, b).target = x /\ StepAt(p, b).excl = m
LetHeld(p, q, x, m, h) ==
    \E b \in Steps(p) :
        /\ LendsTo(p, b, x, m, h) /\ Before(b, q)
        /\ b[1] = q[1] \/ \E j \in q[1]..Len(p) : Mentions(p[j], h)
Lent(p, q, x, m) == AnonHeld(p, q, x, m) \/ \E h \in Names : LetHeld(p, q, x, m, h)

Overwrites(p, q, x) ==
    \/ Does(p, q, {"assign"}, x)
    \/ Does(p, q, {"field"}, x) /\ x \notin Handles(p)
    \/ MovedAt(p, q, x)
Borrows(p, q, x) ==
    Does(p, q, {"ref"}, x) \/ (StepAt(p, q).op = "letref" /\ StepAt(p, q).target = x)
StoresThrough(p, q, b, h) == Does(p, q, {"field"}, h) /\ h \in Handles(p) /\ LastBinding(p, b, h, q)

Respects(p, q) ==
    /\ \A x \in Names, m \in BOOLEAN :
          Overwrites(p, q, x) \/ (Borrows(p, q, x) /\ (StepAt(p, q).excl \/ m)) => ~Lent(p, q, x, m)
    /\ \A b \in Steps(p), h, x \in Names, m \in BOOLEAN :
          StoresThrough(p, q, b, h) /\ LendsTo(p, b, x, m, h) =>
             /\ m
             /\ \A a \in BOOLEAN : ~AnonHeld(p, q, x, a)
             /\ \A a \in BOOLEAN, g \in Names : LetHeld(p, q, x, a, g) => g = h
    /\ \A h \in Handles(p) : Reads(p, q, h) => \E b \in Steps(p) : LastBinding(p, b, h, q)

-----------------------------------------------------------------------------
(* The checker.  The references of the statement are counted until they    *)
(* are released; a handle has the type of its last binding; a name that    *)
(* was used is bound as long as no pattern ends.                           *)
PatternName(p, n) == \E b \in Steps(p) : Does(p, b, {"bind"}, n)

AnonKept ==
    si <= Len(prog) =>
        \A k \in 1..(ei - 1) :
            prog[si][k].op = "ref" /\ Unreleased(prog, si, k, ei) =>
                IF prog[si][k].excl THEN anonExcl[prog[si][k].name]
                ELSE anonShared[prog[si][k].name] > 0
SavedPlain == \A i \in 1..Len(saved) : PatternName(prog, saved[i].name) /\ ~IsRef(saved[i].prev.type)
PlainScope == \A n \in Names \ Handles(prog) : ~IsRef(scope[n].type)
TypeAsRead(h) ==
    scope[h].bound =>
        \E b \in Steps(prog) :
            /\ LastBinding(prog, b, h, Here)
            /\ StepAt(prog, b).op = "letref" =>
                  scope[h].type = IF StepAt(prog, b).excl THEN "refmut" ELSE "ref"
HandleScope == \A h \in Handles(prog) : TypeAsRead(h)
UsedBound ==
    si <= Len(prog) =>
        \A k \in 1..(ei - 1), n \in Names :
            /\ Does(prog, <<si, k>>, {"use"}, n)
            /\ (\A j \in k..(ei - 1) : prog[si][j].op # "unbind") \/ ~PatternName(prog, n)
            => scope[n].bound
AllRespected == \A q \in Steps(prog) : Before(q, Here) => Respects(prog, q)

RefsChecked == AnonKept /\ SavedPlain /\ PlainScope /\ HandleScope /\ UsedBound /\ AllRespected
RefInv ==
    /\ CheckInv /\ ExclusiveExcludesOthers /\ Registered /\ Followed(prog)
    /\ errors = {} => RefsChecked

(* A step of the walk, and what it does to a name.                         *)
Walking == At(Ops) /\ After

LEMMA NextWalks ==
    ASSUME Next
    PROVE  Walking \/ UNCHANGED <<prog, si, ei, scope, saved, anonShared, anonExcl, letBorrows>>
<1>1. \A ops : At(ops) /\ ops \subseteq Ops => At(Ops)
  BY DEF At
<1>2. CASE CheckUse \/ CheckRef \/ MaybeMove \/ CheckAssign \/ CheckFieldAssign \/ CheckLet
  BY <1>1, <1>2 DEF CheckUse, CheckRef, MaybeMove, CheckAssign, CheckFieldAssign, CheckLet,
     Walking, Ops, MentionOps
<1>3. CASE CheckLetRef \/ BindPattern \/ UnbindPattern \/ EnterLoop \/ LeaveLoop \/ CheckBreak
  BY <1>1, <1>3 DEF CheckLetRef, BindPattern, UnbindPattern, EnterLoop, LeaveLoop, CheckBreak,
     Walking, Ops, MentionOps
<1>4. CASE CheckDefer \/ StmtEnd \/ PassMark
  BY <1>1, <1>4 DEF CheckDefer, StmtEnd, PassMark, Walking, Ops, MentionOps
<1>5. CASE FinishFunc \/ Returned
  BY <1>5 DEF FinishFunc, Returned, vars, borrowVars
<1> QED
  BY <1>2, <1>3, <1>4, <1>5 DEF Next

LEMMA WalkFacts ==
    ASSUME TypeOK, prog \in Programs, Walking
    PROVE  /\ Here \in Steps(prog) /\ Follows(prog, Here, Here') /\ prog' = prog
           /\ StepAt(prog, Here) = Cur /\ Cur \in Step
           /\ si \in 1..Len(prog) /\ ei \in 1..Len(prog[si])
           /\ \A ops, n : Does(prog, Here, ops, n) <=> Cur.op \in ops /\ Cur.name = n
           /\ \A ops : At(ops) <=> Cur.op \in ops
<1>1. At(Ops) /\ After
  BY DEF Walking
<1>2. /\ Here \in Steps(prog) /\ Follows(prog, Here, Here') /\ prog' = prog
      /\ StepAt(prog, Here) = Cur /\ Cur \in Step
  BY <1>1, HereFollows
<1>3. \A ops : At(ops) <=> Cur.op \in ops
  BY <1>1 DEF At
<1>4. \A ops, n : Does(prog, Here, ops, n) <=> Cur.op \in ops /\ Cur.name = n
  BY <1>2 DEF Does, StepAt
<1> QED
  BY <1>1, <1>2, <1>3, <1>4, CurType

(* Which action it is.                                                     *)
LEMMA ActionAt ==
    ASSUME Next, Walking
    PROVE  /\ Cur.op = "use" => CheckUse
           /\ Cur.op = "ref" => CheckRef
           /\ Cur.op = "move" => MaybeMove
           /\ Cur.op = "assign" => CheckAssign
           /\ Cur.op = "field" => CheckFieldAssign
           /\ Cur.op = "let" => CheckLet
           /\ Cur.op = "letref" => CheckLetRef
           /\ Cur.op = "bind" => BindPattern
           /\ Cur.op = "unbind" => UnbindPattern
           /\ Cur.op \in {"stmtend", "tail"} => StmtEnd
           /\ Cur.op \notin {"use", "ref", "move", "assign", "field", "let", "letref", "bind",
                             "unbind", "stmtend", "tail"} =>
                 UNCHANGED <<scope, saved, borrowVars>>
<1>1. At(Ops) /\ ~FinishFunc /\ ~Returned
  <2>1. ~checked /\ si <= Len(prog)
    BY DEF Walking, At, InBody
  <2>2. At(Ops)
    BY DEF Walking
  <2>3. si' = si + 1 \/ si' = si
    BY DEF Walking, After, Within, NextStmt
  <2>4. checked' = checked
    BY DEF Walking, After, Within, NextStmt
  <2> QED
    BY <2>1, <2>2, <2>4 DEF FinishFunc, Returned
<1>2. \A ops : At(ops) <=> Cur.op \in ops
  BY <1>1 DEF At
<1>3. CASE CheckUse \/ CheckRef \/ MaybeMove \/ CheckAssign \/ CheckFieldAssign \/ CheckLet
  BY <1>2, <1>3 DEF CheckUse, CheckRef, MaybeMove, CheckAssign, CheckFieldAssign, CheckLet
<1>4. CASE CheckLetRef \/ BindPattern \/ UnbindPattern \/ StmtEnd
  BY <1>2, <1>4 DEF CheckLetRef, BindPattern, UnbindPattern, StmtEnd
<1>5. CASE EnterLoop \/ LeaveLoop \/ CheckBreak \/ CheckDefer \/ PassMark
  BY <1>2, <1>5 DEF EnterLoop, LeaveLoop, CheckBreak, CheckDefer, PassMark
<1> QED
  BY <1>1, <1>3, <1>4, <1>5 DEF Next

ScopeKept(n)  == scope'[n].bound = scope[n].bound /\ scope'[n].type = scope[n].type
ScopeBound(n) == /\ scope'[n].bound
                 /\ scope'[n].type = IF Cur.op # "letref" THEN Cur.type
                                     ELSE IF Cur.excl THEN "refmut" ELSE "ref"
PutBack(n)    == \E i \in 1..Len(saved) : saved[i].name = n /\ scope'[n] = saved[i].prev

LEMMA NameStep ==
    ASSUME TypeOK, prog \in Programs, Next, Walking, NEW n \in Names
    PROVE  /\ Binds(prog, Here, n) => ScopeBound(n)
           /\ ~Binds(prog, Here, n) => ScopeKept(n) \/ (Cur.op = "unbind" /\ PutBack(n))
<1>1. Cur \in Step /\ \A ops, m : Does(prog, Here, ops, m) <=> Cur.op \in ops /\ Cur.name = m
  BY WalkFacts
<1>2. Binds(prog, Here, n) <=> Cur.op \in {"let", "letref", "bind"} /\ Cur.name = n
  BY <1>1 DEF Binds
<1>3. scope \in [Names -> Binding] /\ Cur.name \in Names /\ Cur.excl \in BOOLEAN
  BY <1>1 DEF TypeOK, Step
<1> DEFINE Goal == /\ Binds(prog, Here, n) => ScopeBound(n)
                   /\ ~Binds(prog, Here, n) => ScopeKept(n) \/ (Cur.op = "unbind" /\ PutBack(n))
<1> SUFFICES Goal
  OBVIOUS
<1>4. CASE Cur.op = "let" \/ Cur.op = "bind"
  <2>1. \E m : scope' = [scope EXCEPT ![Cur.name] = NewBinding(Cur.type, m)]
    BY <1>4, ActionAt DEF CheckLet, BindPattern
  <2>2. PICK m : scope' = [scope EXCEPT ![Cur.name] = NewBinding(Cur.type, m)]
    BY <2>1
  <2>3. Cur.name = n => scope'[n] = NewBinding(Cur.type, m)
    BY <1>3, <2>2
  <2>4. Cur.name # n => scope'[n] = scope[n]
    BY <1>3, <2>2
  <2> QED
    BY <1>2, <1>4, <2>3, <2>4 DEF NewBinding, ScopeBound, ScopeKept
<1>5. CASE Cur.op = "letref"
  <2> DEFINE t == IF Cur.excl THEN "refmut" ELSE "ref"
  <2>1. scope' = [scope EXCEPT ![Cur.name] = NewBinding(t, Cur.mut)]
    BY <1>5, ActionAt DEF CheckLetRef
  <2>2. Cur.name = n => scope'[n] = NewBinding(t, Cur.mut)
    BY <1>3, <2>1
  <2>3. Cur.name # n => scope'[n] = scope[n]
    BY <1>3, <2>1
  <2> QED
    BY <1>2, <1>5, <2>2, <2>3 DEF NewBinding, ScopeBound, ScopeKept
<1>6. CASE Cur.op = "move"
  <2>1. scope' = scope \/ scope' = [scope EXCEPT ![Cur.name] = MarkMoved(@)]
    BY <1>6, ActionAt DEF MaybeMove
  <2>2. scope'[n] = scope[n] \/ scope'[n] = MarkMoved(scope[n])
    BY <1>3, <2>1
  <2>3. ScopeKept(n)
    BY <2>2 DEF MarkMoved, ScopeKept
  <2> QED
    BY <1>2, <1>6, <2>3
<1>7. CASE Cur.op = "unbind"
  <2> DEFINE top == saved[Len(saved)]
  <2>1. saved # <<>> /\ scope' = [scope EXCEPT ![top.name] = top.prev]
    BY <1>7, ActionAt DEF UnbindPattern
  <2>2. Len(saved) \in 1..Len(saved)
    <3>1. saved \in Seq([name : Names, prev : Binding])
      BY DEF TypeOK
    <3>2. Len(saved) \in Nat \ {0}
      BY <2>1, <3>1
    <3> QED
      BY <3>2
  <2>3. top.name = n => scope'[n] = top.prev
    BY <1>3, <2>1
  <2>4. top.name # n => scope'[n] = scope[n]
    BY <1>3, <2>1
  <2>5. ScopeKept(n) \/ PutBack(n)
    BY <2>2, <2>3, <2>4 DEF ScopeKept, PutBack
  <2> QED
    BY <1>2, <1>7, <2>5
<1>8. CASE scope' = scope /\ Cur.op \notin {"let", "letref", "bind"}
  BY <1>2, <1>8 DEF ScopeKept
<1>9. Cur.op \notin {"let", "letref", "bind", "move", "unbind"} => scope' = scope
  BY ActionAt DEF CheckUse, CheckRef, CheckAssign, CheckFieldAssign, StmtEnd
<1> QED
  BY <1>4, <1>5, <1>6, <1>7, <1>8, <1>9

LEMMA SavedStep ==
    ASSUME TypeOK, prog \in Programs, Next, Walking, NEW i \in 1..Len(saved')
    PROVE  \/ i \in 1..Len(saved) /\ saved'[i] = saved[i]
           \/ Cur.op = "bind" /\ saved'[i] = [name |-> Cur.name, prev |-> scope[Cur.name]]
<1>1. saved \in Seq([name : Names, prev : Binding]) /\ Cur.name \in Names /\ scope \in [Names -> Binding]
  BY WalkFacts DEF TypeOK, Step
<1> DEFINE e == [name |-> Cur.name, prev |-> scope[Cur.name]]
<1>2. e \in [name : Names, prev : Binding]
  BY <1>1
<1>3. CASE Cur.op = "bind"
  <2>1. saved' = Append(saved, e)
    BY <1>3, ActionAt DEF BindPattern
  <2> HIDE DEF e
  <2>2. i \in 1..(Len(saved) + 1) /\ Len(saved) \in Nat
    BY <1>1, <1>2, <2>1
  <2>3. i = Len(saved) + 1 => saved'[i] = e
    BY <1>1, <1>2, <2>1
  <2>4. i # Len(saved) + 1 => i \in 1..Len(saved) /\ saved'[i] = saved[i]
    BY <1>1, <1>2, <2>1, <2>2
  <2> QED
    BY <1>3, <2>3, <2>4 DEF e
<1>4. CASE Cur.op = "unbind"
  <2>1. saved # <<>> /\ saved' = SubSeq(saved, 1, Len(saved) - 1)
    BY <1>4, ActionAt DEF UnbindPattern
  <2>2. Len(saved') = Len(saved) - 1 /\ \A j \in 1..(Len(saved) - 1) : saved'[j] = saved[j]
    BY <1>1, <2>1, FrontOf
  <2>3. i \in 1..(Len(saved) - 1)
    BY <2>2
  <2>4. i \in 1..Len(saved)
    BY <1>1, <2>3
  <2> QED
    BY <2>2, <2>3, <2>4
<1>5. Cur.op \notin {"bind", "unbind"} => saved' = saved
  BY ActionAt DEF CheckUse, CheckRef, MaybeMove, CheckAssign, CheckFieldAssign, CheckLet,
     CheckLetRef, StmtEnd
<1> QED
  BY <1>3, <1>4, <1>5

(* Handles are no pattern names.                                           *)
LEMMA NoHandlePattern ==
    ASSUME NEW p \in Programs, HandlesBound(p), NEW h \in Handles(p)
    PROVE  ~PatternName(p, h)
  BY DEF HandlesBound, PatternName, Binds, Does, StepAt

LEMMA NextScopeTypes ==
    ASSUME RefInv, RefsChecked, Next, Walking
    PROVE  PlainScope' /\ SavedPlain' /\ HandleScope'
<1> TypeOK /\ prog \in Programs /\ HandlesBound(prog) /\ PlainScope /\ SavedPlain /\ HandleScope
  BY DEF RefInv, CheckInv, Followed, RefsChecked
<1>1. /\ Here \in Steps(prog) /\ Follows(prog, Here, Here') /\ prog' = prog
      /\ StepAt(prog, Here) = Cur /\ Cur \in Step
      /\ \A ops, m : Does(prog, Here, ops, m) <=> Cur.op \in ops /\ Cur.name = m
  BY WalkFacts
<1>2. \A n : Binds(prog, Here, n) <=> Cur.op \in {"let", "letref", "bind"} /\ Cur.name = n
  BY <1>1 DEF Binds
<1>3. Cur.name \in Names
  BY <1>1 DEF Step
<1>4. PlainScope'
  <2> SUFFICES ASSUME NEW n \in Names \ Handles(prog) PROVE ~IsRef(scope'[n].type)
    BY <1>1 DEF PlainScope
  <2>1. CASE Binds(prog, Here, n)
    <3>1. ~BindsRef(prog, Here)
      BY <1>1, <2>1 DEF Handles
    <3> QED
      BY <1>1, <2>1, <3>1, NameStep DEF BindsRef, ScopeBound
  <2>2. CASE ~Binds(prog, Here, n)
    <3>1. ScopeKept(n) => ~IsRef(scope'[n].type)
      BY DEF ScopeKept, PlainScope
    <3>2. PutBack(n) => ~IsRef(scope'[n].type)
      BY DEF PutBack, SavedPlain
    <3> QED
      BY <2>2, <3>1, <3>2, NameStep
  <2> QED
    BY <2>1, <2>2
<1>5. SavedPlain'
  <2> SUFFICES ASSUME NEW i \in 1..Len(saved')
               PROVE  PatternName(prog, saved'[i].name) /\ ~IsRef(saved'[i].prev.type)
    BY <1>1 DEF SavedPlain
  <2>1. CASE i \in 1..Len(saved) /\ saved'[i] = saved[i]
    BY <2>1 DEF SavedPlain
  <2>2. CASE Cur.op = "bind" /\ saved'[i] = [name |-> Cur.name, prev |-> scope[Cur.name]]
    <3>1. PatternName(prog, Cur.name)
      BY <1>1, <2>2 DEF PatternName
    <3>2. Cur.name \notin Handles(prog)
      BY <3>1, NoHandlePattern
    <3> QED
      BY <1>3, <2>2, <3>1, <3>2 DEF PlainScope
  <2> QED
    BY <2>1, <2>2, SavedStep
<1>6. HandleScope'
  <2> SUFFICES ASSUME NEW h \in Handles(prog) PROVE TypeAsRead(h)'
    BY <1>1 DEF HandleScope
  <2>1. h \in Names /\ TypeAsRead(h)
    BY DEF HandleScope, Handles
  <2>2. CASE Binds(prog, Here, h)
    <3>1. LastBinding(prog, Here, h, Here')
      BY <1>1, <2>2, BindingPassed
    <3>2. ScopeBound(h)
      BY <2>1, <2>2, NameStep
    <3> QED
      BY <1>1, <3>1, <3>2 DEF TypeAsRead, ScopeBound
  <2>3. CASE ~Binds(prog, Here, h)
    <3>1. ~PutBack(h)
      BY NoHandlePattern DEF PutBack, SavedPlain
    <3>2. ScopeKept(h)
      BY <2>1, <2>3, <3>1, NameStep
    <3>3. \A b : LastBinding(prog, b, h, Here) => LastBinding(prog, b, h, Here')
      BY <1>1, <2>3, BindingPassed
    <3> QED
      BY <1>1, <2>1, <3>2, <3>3 DEF TypeAsRead, ScopeKept
  <2> QED
    BY <2>2, <2>3
<1> QED
  BY <1>4, <1>5, <1>6

LEMMA CursorOn ==
    ASSUME TypeOK, prog \in Programs, Walking, NEW k \in 1..(ei' - 1)
    PROVE  si' = si /\ ei' = ei + 1 /\ k \in 1..ei /\ (k # ei => k \in 1..(ei - 1))
<1>1. ei \in Nat
  BY DEF TypeOK
<1>2. Within \/ NextStmt
  BY DEF Walking, After
<1>3. ~NextStmt
  BY DEF NextStmt
<1> QED
  BY <1>1, <1>2, <1>3 DEF Within

LEMMA UseIsBound ==
    ASSUME TypeOK, prog \in Programs, Next, Walking, errors' = {}, NEW n, Does(prog, Here, {"use"}, n)
    PROVE  scope[n].bound /\ scope' = scope
<1>1. Cur.op = "use" /\ Cur.name = n
  BY WalkFacts
<1>2. CheckUse
  BY <1>1, ActionAt
<1> DEFINE ks == {k \in {"unknown"} : ~scope[Cur.name].bound} \cup
                 {k \in {"moved"} : scope[Cur.name].moved}
<1>3. ks = {}
  BY <1>2, NoReport DEF CheckUse
<1> QED
  BY <1>1, <1>2, <1>3 DEF CheckUse

LEMMA NextUsedBound ==
    ASSUME RefInv, RefsChecked, Next, Walking, errors' = {}
    PROVE  UsedBound'
<1> TypeOK /\ prog \in Programs /\ UsedBound /\ SavedPlain
  BY DEF RefInv, CheckInv, RefsChecked
<1>1. /\ Here \in Steps(prog) /\ prog' = prog /\ StepAt(prog, Here) = Cur
      /\ si \in 1..Len(prog) /\ ei \in Nat
  BY WalkFacts DEF TypeOK
<1> SUFFICES ASSUME NEW k \in 1..(ei' - 1), NEW n \in Names, Does(prog, <<si', k>>, {"use"}, n),
                    (\A j \in k..(ei' - 1) : prog[si'][j].op # "unbind") \/ ~PatternName(prog, n)
             PROVE  scope'[n].bound
  BY <1>1 DEF UsedBound
<1>2. si' = si /\ ei' = ei + 1 /\ k \in 1..ei /\ (k # ei => k \in 1..(ei - 1))
  BY CursorOn
<1>3. CASE k = ei
  BY <1>2, <1>3, UseIsBound DEF Here
<1>4. CASE k # ei
  <2>1. k \in 1..(ei - 1) /\ \A j \in k..(ei - 1) : j \in k..(ei' - 1)
    BY <1>1, <1>2, <1>4
  <2>2. scope[n].bound
    BY <1>1, <1>2, <2>1 DEF UsedBound
  <2>3. ei \in k..(ei' - 1) /\ Cur = prog[si][ei]
    BY <1>1, <1>2 DEF Cur
  <2>4. Cur.op # "unbind" \/ ~PutBack(n)
    BY <1>2, <2>3 DEF PutBack, SavedPlain
  <2>5. ScopeBound(n) \/ ScopeKept(n)
    BY <2>4, NameStep
  <2> QED
    BY <2>2, <2>5 DEF ScopeBound, ScopeKept
<1> QED
  BY <1>3, <1>4

LEMMA NextAnonKept ==
    ASSUME RefInv, RefsChecked, Next, Walking, errors' = {}
    PROVE  AnonKept'
<1> TypeOK /\ prog \in Programs /\ AnonKept
  BY DEF RefInv, CheckInv, RefsChecked
<1>1. /\ prog' = prog /\ si \in 1..Len(prog) /\ ei \in Nat /\ Cur \in Step
      /\ prog[si][ei] = Cur
  BY WalkFacts DEF TypeOK, Cur
<1> DEFINE Counted(s) == IF s.excl THEN anonExcl[s.name] ELSE anonShared[s.name] > 0
           Counts(s)  == IF s.excl THEN anonExcl'[s.name] ELSE anonShared'[s.name] > 0
<1> SUFFICES ASSUME NEW k \in 1..(ei' - 1), prog[si'][k].op = "ref", Unreleased(prog, si', k, ei')
             PROVE  Counts(prog[si][k])
  <2>1. \A k \in 1..(ei' - 1) : si' = si
    BY CursorOn
  <2> QED
    BY <1>1, <2>1 DEF AnonKept
<1>2. si' = si /\ ei' = ei + 1 /\ k \in 1..ei /\ (k # ei => k \in 1..(ei - 1))
  BY CursorOn
<1>3. ~Releases(prog[si], ei)
  <2>1. ei \in k..(ei' - 1)
    BY <1>1, <1>2
  <2> QED
    BY <1>2, <2>1 DEF Unreleased
<1>4. Cur.op \notin {"stmtend", "tail", "let", "letref"}
  BY <1>1, <1>3 DEF Releases
<1>5. anonShared \in [Names -> Nat] /\ anonExcl \in [Names -> BOOLEAN] /\ Cur.name \in Names
  BY <1>1 DEF TypeOK, Step
<1>6. CASE Cur.op = "ref"
  <2>1. CheckRef /\ scope[Cur.name].bound
    BY <1>6, ActionAt, NoReport DEF CheckRef
  <2>2. IF Cur.excl THEN anonExcl' = [anonExcl EXCEPT ![Cur.name] = TRUE] /\ anonShared' = anonShared
        ELSE anonShared' = [anonShared EXCEPT ![Cur.name] = @ + 1] /\ anonExcl' = anonExcl
    BY <2>1 DEF CheckRef
  <2>3. \A x \in Names : /\ anonExcl[x] => anonExcl'[x]
                         /\ anonShared[x] > 0 => anonShared'[x] > 0
    BY <1>5, <2>2
  <2>4. Counts(Cur)
    <3>1. anonShared[Cur.name] \in Nat
      BY <1>5
    <3>2. Cur.excl => anonExcl'[Cur.name]
      BY <1>5, <2>2
    <3>3. ~Cur.excl => anonShared'[Cur.name] = anonShared[Cur.name] + 1
      BY <1>5, <2>2
    <3> QED
      BY <3>1, <3>2, <3>3
  <2>5. CASE k = ei
    BY <1>1, <2>4, <2>5
  <2>6. CASE k # ei
    <3>1. k \in 1..(ei - 1) /\ Unreleased(prog, si, k, ei)
      BY <1>1, <1>2, <2>6 DEF Unreleased
    <3>2. Counted(prog[si][k])
      <4>1. si <= Len(prog)
        BY <1>1 DEF TypeOK
      <4>2. prog[si][k].op = "ref"
        BY <1>1, <1>2
      <4> QED
        BY <3>1, <4>1, <4>2 DEF AnonKept
    <3>3. prog[si][k] \in Step
      BY <1>1, <1>2, BodyFacts, WalkFacts
    <3>4. prog[si][k].name \in Names
      BY <3>3 DEF Step
    <3> QED
      BY <1>1, <2>3, <3>2, <3>4
  <2> QED
    BY <2>5, <2>6
<1>7. CASE Cur.op # "ref"
  <2>1. anonShared' = anonShared /\ anonExcl' = anonExcl
    BY <1>4, <1>7, ActionAt DEF borrowVars, CheckUse, MaybeMove, CheckAssign, CheckFieldAssign,
       BindPattern, UnbindPattern
  <2>2. k # ei
    BY <1>1, <1>2, <1>7
  <2>3. k \in 1..(ei - 1) /\ Unreleased(prog, si, k, ei)
    BY <1>1, <1>2, <2>2 DEF Unreleased
  <2>4. Counted(prog[si][k])
    BY <1>1, <1>2, <2>3 DEF AnonKept
  <2> QED
    BY <1>1, <1>2, <2>1, <2>4
<1> QED
  BY <1>6, <1>7

(* What the text lends is live in the checker's pools.                     *)
LEMMA AnonLive ==
    ASSUME AnonKept, si <= Len(prog), NEW x, NEW m \in BOOLEAN, AnonHeld(prog, Here, x, m)
    PROVE  IF m THEN anonExcl[x] ELSE anonShared[x] > 0
<1>1. PICK k \in 1..(ei - 1) :
          /\ Does(prog, <<si, k>>, {"ref"}, x) /\ prog[si][k].excl = m
          /\ Unreleased(prog, si, k, ei)
  BY DEF AnonHeld, Here
<1>2. prog[si][k].op = "ref" /\ prog[si][k].name = x
  BY <1>1 DEF Does
<1> QED
  BY <1>1, <1>2 DEF AnonKept

LEMMA LetLive ==
    ASSUME TypeOK, prog \in Programs, Registered, errors = {}, Here \in Steps(prog),
           NEW x, NEW m, NEW h, LetHeld(prog, Here, x, m, h)
    PROVE  \E i \in 1..Len(letBorrows[x]) :
              LiveAt(x, i) /\ letBorrows[x][i].excl = m /\ letBorrows[x][i].handle = h
<1>1. PICK b \in Steps(prog) :
          /\ LendsTo(prog, b, x, m, h) /\ Before(b, Here)
          /\ b[1] = si \/ \E j \in si..Len(prog) : Mentions(prog[j], h)
  BY DEF LetHeld, Here
<1>2. /\ b[1] \in 1..Len(prog) /\ b[2] \in 1..Len(prog[b[1]]) /\ b[1] \in Nat
      /\ si \in Nat /\ Len(prog) \in Nat
  BY <1>1, StepFacts DEF TypeOK
<1>3. Passed(b[1], b[2]) /\ b[1] <= si
  BY <1>1, <1>2 DEF Before, Here, Passed
<1>4. /\ prog[b[1]][b[2]].op = "letref" /\ prog[b[1]][b[2]].target = x
      /\ prog[b[1]][b[2]].name = h /\ prog[b[1]][b[2]].excl = m
  BY <1>1 DEF LendsTo, StepAt
<1>5. Covered(b[1], b[2])
  BY <1>2, <1>3, <1>4 DEF Registered
<1>6. PICK i \in 1..Len(letBorrows[x]) :
          /\ letBorrows[x][i].handle = h /\ letBorrows[x][i].excl = m
          /\ b[1] \in letBorrows[x][i].uses
          /\ \A j \in 1..Len(prog) : j > b[1] /\ Mentions(prog[j], h) => j \in letBorrows[x][i].uses
  BY <1>4, <1>5 DEF Covered
<1>7. \E j \in letBorrows[x][i].uses : si <= j
  <2>1. CASE b[1] = si
    BY <1>2, <1>6, <2>1
  <2>2. CASE b[1] # si
    <3>1. PICK j \in si..Len(prog) : Mentions(prog[j], h)
      BY <1>1, <2>2
    <3>2. j \in 1..Len(prog) /\ j > b[1] /\ si <= j
      BY <1>2, <1>3, <2>2
    <3> QED
      BY <1>6, <3>1, <3>2
  <2> QED
    BY <2>1, <2>2
<1> QED
  BY <1>6, <1>7 DEF LiveAt, Live

LEMMA LentLive ==
    ASSUME RefInv, errors = {}, Here \in Steps(prog), NEW x, NEW m \in BOOLEAN,
           Lent(prog, Here, x, m)
    PROVE  (m => EffExcl(x)) /\ (~m => EffShared(x))
<1> TypeOK /\ prog \in Programs /\ Registered /\ AnonKept
  BY DEF RefInv, CheckInv, RefsChecked
<1>1. si <= Len(prog)
  BY StepFacts DEF Here, TypeOK
<1>2. CASE AnonHeld(prog, Here, x, m)
  BY <1>1, <1>2, AnonLive DEF EffExcl, EffShared
<1>3. CASE \E h \in Names : LetHeld(prog, Here, x, m, h)
  <2>1. \E i \in 1..Len(letBorrows[x]) : LiveAt(x, i) /\ letBorrows[x][i].excl = m
    BY <1>3, LetLive
  <2> QED
    BY <2>1 DEF EffExcl, EffShared
<1> QED
  BY <1>2, <1>3 DEF Lent

(* A value that is moved is bound at the place it is moved at, ...         *)
LEMMA MovedIsBound ==
    ASSUME RefInv, errors = {}, Walking, NEW n \in Names, MovedAt(prog, Here, n)
    PROVE  scope[n].bound /\ ~IsCopy(scope[n].type) /\ Cur.op = "move" /\ Cur.name = n
<1> TypeOK /\ prog \in Programs /\ UsedBound /\ MovedInScope(prog) /\ EvaluatedFirst(prog)
  BY DEF RefInv, CheckInv, RefsChecked, Followed, Tracked
<1>1. /\ Here \in Steps(prog) /\ Cur.op = "move" /\ Cur.name = n
      /\ si \in 1..Len(prog) /\ ei \in Nat /\ si \in Nat /\ Len(prog) \in Nat
      /\ Does(prog, Here, {"move"}, n) /\ Does(prog, Here, {"move", "give"}, n)
  BY WalkFacts DEF MovedAt, TypeOK
<1>2. si <= Len(prog)
  BY <1>1
<1>3. scope[n].bound
  <2>1. CASE PatternName(prog, n)
    <3>1. PICK b \in Steps(prog) : Does(prog, b, {"bind"}, n)
      BY <2>1 DEF PatternName
    <3>2. PICK u \in 1..(ei - 1) :
              /\ Does(prog, <<si, u>>, {"use"}, n)
              /\ \A k \in u..(ei - 1) : prog[si][k].op # "unbind"
      BY <1>1, <3>1 DEF MovedInScope, Here
    <3> QED
      BY <1>2, <3>2 DEF UsedBound
  <2>2. CASE ~PatternName(prog, n)
    <3>1. PICK u \in 1..(ei - 1) : Does(prog, <<si, u>>, {"use"}, n)
      BY <1>1 DEF EvaluatedFirst, Here
    <3> QED
      BY <1>2, <2>2, <3>1 DEF UsedBound
  <2> QED
    BY <2>1, <2>2
<1>4. ~IsCopy(scope[n].type)
  <2>1. n \in Transferred(prog)
    BY <1>1 DEF Transferred
  <2>2. BoundAsRead(n)
    BY <2>1 DEF RefInv, CheckInv, Accepted, ScopeRead
  <2>3. PICK b \in Steps(prog) :
            LastBinding(prog, b, n, Here) /\ (Owns(prog, b) <=> ~IsCopy(scope[n].type))
    BY <1>3, <2>2 DEF BoundAsRead
  <2>4. PICK c \in Steps(prog) : LastBinding(prog, c, n, Here) /\ Owns(prog, c)
    BY DEF MovedAt, OwnedAt
  <2> QED
    BY <2>3, <2>4, LastIsOne
<1> QED
  BY <1>1, <1>3, <1>4

(* ... so no step that overwrites a value, or borrows one, finds it lent.  *)
LEMMA OverwritesUnlent ==
    ASSUME RefInv, errors = {}, Next, Walking, errors' = {}, NEW x \in Names,
           Overwrites(prog, Here, x)
    PROVE  ~Borrowed(x)
<1> TypeOK /\ prog \in Programs /\ PlainScope /\ RefsChecked
  BY DEF RefInv, CheckInv, RefsChecked
<1>1. Invalidates(x)
  <2>1. CASE Does(prog, Here, {"assign"}, x)
    BY <2>1, WalkFacts DEF Invalidates
  <2>2. CASE Does(prog, Here, {"field"}, x) /\ x \notin Handles(prog)
    BY <2>2, WalkFacts DEF Invalidates, PlainScope
  <2>3. CASE MovedAt(prog, Here, x)
    BY <2>3, WalkFacts, MovedIsBound DEF Invalidates
  <2> QED
    BY <2>1, <2>2, <2>3 DEF Overwrites
<1> QED
  BY <1>1, InvalidatesUnborrowed

LEMMA BorrowsUnlent ==
    ASSUME TypeOK, prog \in Programs, Next, Walking, errors' = {}, NEW x \in Names,
           Borrows(prog, Here, x)
    PROVE  ~EffExcl(x) /\ (Cur.excl => ~EffShared(x))
<1>1. /\ StepAt(prog, Here) = Cur /\ Cur \in Step
      /\ \A ops, n : Does(prog, Here, ops, n) <=> Cur.op \in ops /\ Cur.name = n
  BY WalkFacts
<1>2. Cur.excl \in BOOLEAN
  BY <1>1 DEF Step
<1>3. CASE Cur.op = "ref" /\ Cur.name = x
  <2>1. CheckRef
    BY <1>3, ActionAt
  <2>2. RefErrors(x, Cur.excl) = {}
    BY <1>3, <2>1, NoReport DEF CheckRef
  <2> QED
    BY <1>2, <2>2, NoRefErrors
<1>4. CASE Cur.op = "letref" /\ Cur.target = x
  <2>1. CheckLetRef
    BY <1>4, ActionAt
  <2>2. RefErrors(x, Cur.excl) = {}
    BY <1>4, <2>1, NoReport DEF CheckLetRef
  <2> QED
    BY <1>2, <2>2, NoRefErrors
<1> QED
  BY <1>1, <1>3, <1>4 DEF Borrows

(* A store through a handle: it is one of an exclusive borrow, the only    *)
(* one there is.                                                           *)
LEMMA StoresAlone ==
    ASSUME RefInv, errors = {}, Next, Walking, errors' = {},
           NEW b \in Steps(prog), NEW h \in Names, NEW x \in Names, NEW m \in BOOLEAN,
           StoresThrough(prog, Here, b, h), LendsTo(prog, b, x, m, h)
    PROVE  /\ m
           /\ \A a \in BOOLEAN : ~AnonHeld(prog, Here, x, a)
           /\ \A a \in BOOLEAN, g \in Names : LetHeld(prog, Here, x, a, g) => g = h
<1> /\ TypeOK /\ prog \in Programs /\ RefsChecked /\ HandleScope /\ AnonKept /\ Registered
    /\ HandlesSeen(prog) /\ AloneIfExclusive(x)
  BY DEF RefInv, CheckInv, RefsChecked, Followed, ExclusiveExcludesOthers
<1>1. /\ Here \in Steps(prog) /\ StepAt(prog, Here) = Cur /\ si \in 1..Len(prog)
      /\ ei \in 1..Len(prog[si]) /\ Len(prog) \in Nat /\ si \in Nat
      /\ Cur.op = "field" /\ Cur.name = h /\ h \in Handles(prog)
      /\ LastBinding(prog, b, h, Here)
  BY WalkFacts DEF StoresThrough, TypeOK
<1>2. CheckFieldAssign
  BY <1>1, ActionAt
<1> DEFINE ks == IF ~scope[h].bound THEN {"unknown"}
                 ELSE IF IsRef(scope[h].type) THEN {k \in {"immutable"} : scope[h].type = "ref"}
                 ELSE AssignErrors(h)
<1>3. ks = {}
  BY <1>1, <1>2, NoReport DEF CheckFieldAssign
<1>4. scope[h].bound
  BY <1>3
<1>5. StepAt(prog, b).op = "letref" /\ StepAt(prog, b).excl = m
  BY DEF LendsTo
<1>6. scope[h].type = IF m THEN "refmut" ELSE "ref"
  <2>1. PICK c \in Steps(prog) :
            /\ LastBinding(prog, c, h, Here)
            /\ StepAt(prog, c).op = "letref" =>
                  scope[h].type = IF StepAt(prog, c).excl THEN "refmut" ELSE "ref"
    BY <1>1, <1>4 DEF HandleScope, TypeAsRead
  <2>2. c = b
    BY <1>1, <2>1, LastIsOne
  <2> QED
    BY <1>5, <2>1, <2>2
<1>7. m
  <2> SUFFICES ASSUME ~m PROVE FALSE
    OBVIOUS
  <2>1. IsRef(scope[h].type) /\ scope[h].type = "ref"
    BY <1>6 DEF IsRef
  <2>2. "immutable" \in ks
    BY <1>4, <2>1
  <2> QED
    BY <1>3, <2>2
<1>8. LetHeld(prog, Here, x, m, h)
  <2>1. Mentions(prog[si], h)
    <3>1. Touches(Cur, h)
      BY <1>1 DEF Touches, MentionOps
    <3>2. Cur.seen
      BY <1>1, <3>1 DEF HandlesSeen
    <3> QED
      BY <1>1, <3>1, <3>2 DEF Mentions, Cur
  <2>2. si \in si..Len(prog)
    BY <1>1
  <2>3. Before(b, Here)
    BY <1>1 DEF LastBinding
  <2> QED
    BY <2>1, <2>2, <2>3 DEF LetHeld, Here
<1>9. PICK i \in 1..Len(letBorrows[x]) :
          LiveAt(x, i) /\ letBorrows[x][i].excl = m /\ letBorrows[x][i].handle = h
  BY <1>1, <1>8, LetLive
<1>10. anonShared[x] = 0 /\ \A j \in 1..Len(letBorrows[x]) : LiveAt(x, j) => j = i
  BY <1>7, <1>9 DEF AloneIfExclusive
<1>11. ~anonExcl[x]
  BY <1>9 DEF AloneIfExclusive
<1>12. ASSUME NEW a \in BOOLEAN PROVE ~AnonHeld(prog, Here, x, a)
  <2>1. si <= Len(prog)
    BY <1>1
  <2>2. ~(0 > 0)
    OBVIOUS
  <2> QED
    BY <1>10, <1>11, <2>1, <2>2, AnonLive
<1>13. ASSUME NEW a \in BOOLEAN, NEW g \in Names, LetHeld(prog, Here, x, a, g) PROVE g = h
  <2>1. PICK j \in 1..Len(letBorrows[x]) : LiveAt(x, j) /\ letBorrows[x][j].handle = g
    BY <1>1, <1>13, LetLive
  <2> QED
    BY <1>9, <1>10, <2>1
<1> QED
  BY <1>7, <1>12, <1>13

(* A step that is let through keeps the rules.                             *)
LEMMA RespectsHere ==
    ASSUME RefInv, errors = {}, Next, Walking, errors' = {}
    PROVE  Respects(prog, Here)
<1> TypeOK /\ prog \in Programs /\ RefsChecked /\ HandleScope
  BY DEF RefInv, CheckInv, RefsChecked
<1>1. /\ Here \in Steps(prog) /\ StepAt(prog, Here) = Cur
      /\ \A ops, n : Does(prog, Here, ops, n) <=> Cur.op \in ops /\ Cur.name = n
  BY WalkFacts
<1>2. ASSUME NEW x \in Names, NEW m \in BOOLEAN, Overwrites(prog, Here, x)
      PROVE  ~Lent(prog, Here, x, m)
  BY <1>1, <1>2, OverwritesUnlent, LentLive DEF Borrowed
<1>3. ASSUME NEW x \in Names, NEW m \in BOOLEAN,
             Borrows(prog, Here, x), StepAt(prog, Here).excl \/ m
      PROVE  ~Lent(prog, Here, x, m)
  BY <1>1, <1>3, BorrowsUnlent, LentLive
<1>4. ASSUME NEW h \in Handles(prog), Reads(prog, Here, h)
      PROVE  \E b \in Steps(prog) : LastBinding(prog, b, h, Here)
  <2>1. scope[h].bound
    <3>1. CASE Does(prog, Here, {"use"}, h)
      BY <3>1, UseIsBound
    <3>2. CASE Does(prog, Here, {"field"}, h)
      <4>1. Cur.op = "field" /\ Cur.name = h
        BY <1>1, <3>2
      <4>2. CheckFieldAssign
        BY <4>1, ActionAt
      <4> DEFINE ks == IF ~scope[h].bound THEN {"unknown"}
                       ELSE IF IsRef(scope[h].type) THEN {k \in {"immutable"} : scope[h].type = "ref"}
                       ELSE AssignErrors(h)
      <4>3. ks = {}
        BY <4>1, <4>2, NoReport DEF CheckFieldAssign
      <4> QED
        BY <4>3
    <3> QED
      BY <1>1, <1>4, <3>1, <3>2 DEF Reads
  <2> QED
    BY <2>1 DEF HandleScope, TypeAsRead
<1>5. \A b \in Steps(prog), h, x \in Names, m \in BOOLEAN :
          StoresThrough(prog, Here, b, h) /\ LendsTo(prog, b, x, m, h) =>
             /\ m
             /\ \A a \in BOOLEAN : ~AnonHeld(prog, Here, x, a)
             /\ \A a \in BOOLEAN, g \in Names : LetHeld(prog, Here, x, a, g) => g = h
  BY StoresAlone
<1> QED
  BY <1>2, <1>3, <1>4, <1>5 DEF Respects

LEMMA NextRefInv == RefInv /\ [Next]_vars => RefInv'
<1> SUFFICES ASSUME RefInv, [Next]_vars PROVE RefInv'
  OBVIOUS
<1>1. /\ CheckInv' /\ ExclusiveExcludesOthers' /\ Registered' /\ prog' = prog /\ Followed(prog)
      /\ TypeOK /\ prog \in Programs
  BY NextCheckInv, NextExclusive, NextRegistered, BodyKept DEF RefInv, CheckInv
<1>2. ASSUME errors' = {} PROVE RefsChecked'
  <2>1. errors = {} /\ RefsChecked
    BY <1>1, <1>2, Forward DEF RefInv
  <2>2. CASE Next /\ Walking
    <3>1. PlainScope' /\ SavedPlain' /\ HandleScope' /\ AnonKept' /\ UsedBound'
      BY <1>2, <2>1, <2>2, NextScopeTypes, NextAnonKept, NextUsedBound
    <3>2. \A q \in Steps(prog) : Before(q, Here') <=> Before(q, Here) \/ q = Here
      BY <1>1, <2>2, WalkFacts DEF Follows
    <3>3. Respects(prog, Here)
      BY <1>2, <2>1, <2>2, RespectsHere
    <3>4. AllRespected'
      BY <1>1, <2>1, <3>2, <3>3 DEF AllRespected, RefsChecked
    <3> QED
      BY <3>1, <3>4 DEF RefsChecked
  <2>3. CASE UNCHANGED <<prog, si, ei, scope, saved, anonShared, anonExcl, letBorrows>>
    BY <2>1, <2>3 DEF RefsChecked, AnonKept, SavedPlain, PlainScope, HandleScope, TypeAsRead,
       UsedBound, AllRespected, Here
  <2> QED
    BY <2>2, <2>3, NextWalks DEF vars, borrowVars
<1> QED
  BY <1>1, <1>2 DEF RefInv

LEMMA InitRefInv == Init /\ Tracked(prog) /\ Followed(prog) => RefInv
<1> SUFFICES ASSUME Init, Tracked(prog), Followed(prog) PROVE RefInv
  OBVIOUS
<1>1. /\ CheckInv /\ ExclusiveExcludesOthers /\ Registered
      /\ TypeOK /\ prog \in Programs /\ Here = <<1, 1>> /\ si = 1 /\ ei = 1 /\ saved = <<>>
  BY InitCheckInv, InitExclusive, InitRegistered, InitTypeOK DEF Init, Here
<1>2. \A n \in Names : ~scope[n].bound /\ ~IsRef(scope[n].type)
  BY DEF Init, Unbound, IsRef
<1>3. \A q \in Steps(prog) : ~Before(q, Here)
  BY <1>1, StepFacts DEF Before
<1>4. AnonKept /\ UsedBound
  BY <1>1 DEF AnonKept, UsedBound
<1>5. PlainScope /\ HandleScope
  BY <1>2 DEF PlainScope, HandleScope, TypeAsRead, Handles
<1>6. SavedPlain
  BY <1>1 DEF SavedPlain
<1>7. AllRespected
  BY <1>3 DEF AllRespected
<1> QED
  BY <1>1, <1>4, <1>5, <1>6, <1>7 DEF RefInv, RefsChecked

-----------------------------------------------------------------------------
(* Pending, unfolded: a least place where it would not exist has a         *)
(* predecessor where it does.                                              *)
Onto(c, s) == IF s.op = "ref" THEN c + 1 ELSE IF s.op = "call" THEN c - s.to ELSE c
Takes(f, st, n) == f = [k \in 0..n |-> IF k = 0 THEN 0 ELSE Onto(f[k - 1], st[k])]

LEMMA TakesMeans ==
    ASSUME NEW st, NEW n \in Nat, NEW f, Takes(f, st, n)
    PROVE  f[0] = 0 /\ \A k \in 1..n : f[k] = Onto(f[k - 1], st[k])
<1> DEFINE Value(k) == IF k = 0 THEN 0 ELSE Onto(f[k - 1], st[k])
<1>1. f = [k \in 0..n |-> Value(k)]
  BY Zenon DEF Takes
<1> HIDE DEF Value
<1>2. \A k \in 0..n : f[k] = Value(k)
  BY <1>1
<1>3. 0 \in 0..n /\ \A k \in 1..n : k \in 0..n /\ k # 0
  OBVIOUS
<1> QED
  BY <1>2, <1>3 DEF Value

LEMMA TakesExist ==
    ASSUME NEW st, NEW k \in Nat PROVE \E f : Takes(f, st, k)
<1> DEFINE S == {n \in Nat : ~\E f : Takes(f, st, n)}
<1>1. SUFFICES ASSUME S # {} PROVE FALSE
  OBVIOUS
<1>2. PICK n \in S : \A m \in S : n <= m
  BY <1>1, Least
<1>3. CASE n = 0
  <2> DEFINE f == [i \in 0..0 |-> 0]
  <2>1. f = [i \in 0..0 |-> IF i = 0 THEN 0 ELSE Onto(f[i - 1], st[i])]
    OBVIOUS
  <2> HIDE DEF f
  <2>2. Takes(f, st, 0)
    BY <2>1 DEF Takes
  <2> QED
    BY <1>3, <2>2
<1>4. CASE n # 0
  <2>1. n - 1 \in Nat /\ n - 1 \notin S
    BY <1>2, <1>4
  <2>2. PICK f : Takes(f, st, n - 1)
    BY <2>1
  <2> DEFINE g == [i \in 0..n |-> IF i = n THEN Onto(f[n - 1], st[n]) ELSE f[i]]
  <2>3. f[0] = 0 /\ \A i \in 1..(n - 1) : f[i] = Onto(f[i - 1], st[i])
    BY <2>1, <2>2, TakesMeans
  <2>4. ASSUME NEW i \in 0..n
        PROVE  g[i] = IF i = 0 THEN 0 ELSE Onto(g[i - 1], st[i])
    <3>1. CASE i = 0
      BY <3>1, <1>4, <2>3
    <3>2. CASE i = n
      <4>1. g[n - 1] = f[n - 1] /\ g[n] = Onto(f[n - 1], st[n])
        BY <2>1
      <4> QED
        BY <3>2, <4>1, <1>4
    <3>3. CASE i # 0 /\ i # n
      <4>1. i \in 1..(n - 1) /\ i - 1 \in 0..n /\ i - 1 # n
        BY <3>3, <2>1
      <4>2. g[i] = f[i] /\ g[i - 1] = f[i - 1]
        BY <3>3, <4>1
      <4> QED
        BY <3>3, <4>1, <4>2, <2>3
    <3> QED
      BY <3>1, <3>2, <3>3
  <2>5. g = [i \in 0..n |-> g[i]]
    OBVIOUS
  <2> HIDE DEF g
  <2>6. Takes(g, st, n)
    BY <2>4, <2>5, Zenon DEF Takes
  <2> QED
    BY <2>6
<1> QED
  BY <1>3, <1>4

LEMMA PendingIs ==
    ASSUME NEW st, Len(st) \in Nat
    PROVE  /\ Pending(st)[0] = 0
           /\ \A k \in 1..Len(st) :
                 Pending(st)[k] = IF st[k].op = "ref" THEN Pending(st)[k - 1] + 1
                                  ELSE IF st[k].op = "call" THEN Pending(st)[k - 1] - st[k].to
                                  ELSE Pending(st)[k - 1]
<1> DEFINE f == CHOOSE f : Takes(f, st, Len(st))
<1>1. Takes(f, st, Len(st))
  BY TakesExist
<1>2. Pending(st) = f
  BY Zenon DEF Pending, Takes, Onto
<1> HIDE DEF f
<1> QED
  BY <1>1, <1>2, TakesMeans DEF Onto

-----------------------------------------------------------------------------
(* The run.  A step invalidates a reference on x by a store to x or a      *)
(* transfer of it, by a borrow of x, or by a store through a handle of x.  *)
Stores(x) ==
    \/ Doing({"assign"}) /\ Now.name = x
    \/ Doing({"field"}) /\ Now.name = x /\ ~IsRef(slot[x].type)
    \/ HandsOn(x)
Lends(x, m) ==
    /\ (Doing({"ref"}) /\ Now.name = x) \/ (Doing({"letref"}) /\ Now.target = x)
    /\ Now.excl \/ m
Through(g, x) == Doing({"field"}) /\ Now.name = g /\ IsRef(slot[g].type) /\ slot[g].ref.on = x
Spoilt(r, n) ==
    r.on # Nowhere /\ (Stores(r.on) \/ Lends(r.on, r.excl) \/ \E g \in Names : g # n /\ Through(g, r.on))
(* A nested binding of x stores to the alloca that x may already have.     *)
BindsAgain(x) == Doing({"let", "letref", "bind"}) /\ rk < Len(prog[ri]) /\ Now.name = x
RefPassed(r, s, n) ==
    /\ s.on = r.on /\ s.excl = r.excl
    /\ r.valid => s.valid \/ Spoilt(r, n) \/ BindsAgain(r.on)

LEMMA SpoilRef ==
    ASSUME NEW r \in Reference, NEW x, NEW all
    PROVE  /\ Spoil(r, x, all).on = r.on /\ Spoil(r, x, all).excl = r.excl
           /\ r.valid => Spoil(r, x, all).valid \/ (x # Nowhere /\ r.on = x /\ (all \/ r.excl))
<1> DEFINE v == r.valid /\ ~Invalid(r, x, all)
<1>1. Spoil(r, x, all) = [r EXCEPT !.valid = v]
  BY Zenon DEF Spoil
<1>2. r.valid => v \/ (x # Nowhere /\ r.on = x /\ (all \/ r.excl))
  BY Zenon DEF Invalid
<1> HIDE DEF v
<1>3. Spoil(r, x, all).on = r.on /\ Spoil(r, x, all).excl = r.excl /\ Spoil(r, x, all).valid = v
  BY <1>1 DEF Reference
<1> QED
  BY <1>2, <1>3, Zenon

LEMMA SpoilSlotsRef ==
    ASSUME NEW s \in [Names -> Slot], NEW n \in Names, NEW x, NEW all
    PROVE  SpoilSlots(s, x, all)[n].ref = Spoil(s[n].ref, x, all)
<1>1. SpoilSlots(s, x, all)[n] = [s[n] EXCEPT !.ref = Spoil(s[n].ref, x, all)]
  BY DEF SpoilSlots
<1> QED
  BY <1>1 DEF Slot

LEMMA ReboundRef ==
    ASSUME NEW s \in [Names -> Slot], NEW n \in Names, NEW m, n # m, NEW new
    PROVE  LET t == Rebound(s, m, new)[n].ref
               r == s[n].ref
           IN  /\ t.on = r.on /\ t.excl = r.excl
               /\ r.valid => t.valid \/ (rk < Len(prog[ri]) /\ r.on = Now.name)
<1>0. PICK x, all : x = StoredAgain /\ all
                    /\ Rebound(s, m, new) = [SpoilSlots(s, x, all) EXCEPT ![m] = new]
  BY Zenon DEF Rebound
<1> DEFINE u == SpoilSlots(s, x, all)
           r == s[n].ref
           v == Spoil(r, x, all)
<1>1. u \in [Names -> Slot] /\ u[n].ref = v
  BY SlotsType, SpoilSlotsRef
<1>2. Rebound(s, m, new) = [u EXCEPT ![m] = new]
  BY <1>0, Zenon
<1> HIDE DEF u
<1>3. Rebound(s, m, new)[n].ref = v
  BY <1>1, <1>2
<1>4. x # Nowhere => rk < Len(prog[ri]) /\ x = Now.name
  BY <1>0 DEF StoredAgain
<1>5. r \in Reference
  BY DEF Slot
<1>6. v.on = r.on /\ v.excl = r.excl /\ (r.valid => v.valid \/ (x # Nowhere /\ r.on = x))
  BY <1>5, SpoilRef
<1> HIDE DEF r, v
<1> QED
  BY <1>3, <1>4, <1>6, Zenon DEF r

LEMMA RefStep ==
    ASSUME RunInv, RunNext, NEW n \in Names, ~Filling(n),
           ~(Doing({"assign"}) /\ Now.name = n /\ IsRef(slot[n].type))
    PROVE  RefPassed(slot[n].ref, slot'[n].ref, n)
<1>1. slot \in [Names -> Slot] /\ slot[n].ref \in Reference
  BY DEF RunInv, RunTypeOK, Slot
<1>2. \A os : Doing(os) => Now.op \in os /\ Now.name \in Names /\ Now \in Step
  BY NowType DEF Step
<1> DEFINE r == slot[n].ref
           Goal == RefPassed(r, slot'[n].ref, n)
<1> SUFFICES Goal
  OBVIOUS
<1>3. slot'[n].ref = r => Goal
  BY DEF RefPassed
<1>4. ASSUME NEW x, NEW all, slot'[n].ref = Spoil(r, x, all),
             x # Nowhere /\ r.on = x /\ (all \/ r.excl) => Spoilt(r, n)
      PROVE  Goal
  BY <1>1, <1>4, SpoilRef DEF RefPassed
<1> HIDE DEF Goal
<1>5. CASE RunRef
  <2>1. Doing({"ref"}) /\ slot' = SpoilSlots(slot, Now.name, Now.excl)
    BY <1>5 DEF RunRef
  <2>2. slot'[n].ref = Spoil(r, Now.name, Now.excl)
    BY <1>1, <2>1, SpoilSlotsRef
  <2> QED
    BY <1>4, <2>1, <2>2 DEF Spoilt, Lends
<1>6. CASE RunAssign
  <2> DEFINE s == [slot EXCEPT ![Now.name] = Stored(@)]
  <2>1. PICK all : all /\ Doing({"assign"}) /\ slot' = SpoilSlots(s, Now.name, all)
    BY <1>6, Zenon DEF RunAssign
  <2>2. s \in [Names -> Slot]
    BY <1>1, <1>2, <2>1, StoredType
  <2>3. s[n].ref = r
    BY <1>1, <1>2, <2>1 DEF Stored
  <2> HIDE DEF s
  <2>4. slot' = SpoilSlots(s, Now.name, all)
    BY <2>1, Zenon
  <2>5. slot'[n].ref = Spoil(r, Now.name, all)
    BY <2>2, <2>3, <2>4, SpoilSlotsRef
  <2> QED
    BY <1>4, <2>1, <2>5 DEF Spoilt, Stores
<1>7. CASE RunTransfer
  <2>1. CASE IsCopy(slot[Now.name].type)
    BY <1>3, <1>7, <2>1 DEF RunTransfer
  <2>2. CASE ~IsCopy(slot[Now.name].type)
    <3> DEFINE s == [slot EXCEPT ![Now.name].value = "gone"]
    <3>1. PICK all : all /\ Doing({"move", "give"}) /\ slot' = SpoilSlots(s, Now.name, all)
      BY <1>7, <2>2, Zenon DEF RunTransfer
    <3>2. s \in [Names -> Slot]
      BY <1>1, <1>2, <3>1, ValueType
    <3>3. s[n].ref = r
      BY <1>1 DEF Slot
    <3> HIDE DEF s
    <3>4. slot' = SpoilSlots(s, Now.name, all)
      BY <3>1, Zenon
    <3>5. slot'[n].ref = Spoil(r, Now.name, all)
      BY <3>2, <3>3, <3>4, SpoilSlotsRef
    <3> QED
      BY <1>4, <2>2, <3>1, <3>5 DEF Spoilt, Stores, HandsOn
  <2> QED
    BY <2>1, <2>2
<1>8. CASE RunField
  <2>1. Doing({"field"}) /\ Now.name \in Names
    BY <1>2, <1>8 DEF RunField
  <2>2. CASE ~IsRef(slot[Now.name].type)
    <3>1. PICK all : all /\ slot' = SpoilSlots(slot, Now.name, all)
      BY <1>8, <2>2, Zenon DEF RunField
    <3>2. slot' = SpoilSlots(slot, Now.name, all)
      BY <3>1, Zenon
    <3>3. slot'[n].ref = Spoil(r, Now.name, all)
      BY <1>1, <3>2, SpoilSlotsRef
    <3> QED
      BY <1>4, <2>1, <2>2, <3>3 DEF Spoilt, Stores
  <2>3. CASE IsRef(slot[Now.name].type)
    <3> DEFINE x == slot[Now.name].ref.on
               s(all) == SpoilSlots(slot, x, all)
    <3>1. PICK all : all /\ slot' = [s(all) EXCEPT ![Now.name].ref = slot[Now.name].ref]
      BY <1>8, <2>3, Zenon DEF RunField
    <3>2. s(all) \in [Names -> Slot] /\ s(all)[n].ref = Spoil(r, x, all)
      BY <1>1, SlotsType, SpoilSlotsRef
    <3> HIDE DEF s
    <3>3. CASE n = Now.name
      <4>1. slot'[n].ref = r
        BY <2>1, <3>1, <3>2, <3>3 DEF Slot
      <4> QED
        BY <1>3, <4>1
    <3>4. CASE n # Now.name
      <4>1. slot'[n].ref = Spoil(r, x, all)
        BY <2>1, <3>1, <3>2, <3>4
      <4> QED
        BY <1>4, <2>1, <2>3, <3>4, <4>1 DEF Spoilt, Through
    <3> QED
      BY <3>3, <3>4
  <2> QED
    BY <2>2, <2>3
<1>9. CASE RunLet
  <2>1. Doing({"let", "bind"}) /\ \E new : slot' = Rebound(slot, Now.name, new)
    BY <1>9 DEF RunLet
  <2>2. n # Now.name
    BY <2>1 DEF Filling, Doing
  <2>3. Doing({"let", "letref", "bind"})
    BY <2>1 DEF Doing
  <2> QED
    BY <1>1, <2>1, <2>2, <2>3, ReboundRef DEF Goal, RefPassed, BindsAgain
<1>10. CASE RunLetRef
  <2> DEFINE s == SpoilSlots(slot, Now.target, Now.excl)
  <2>1. Doing({"letref"}) /\ \E new : slot' = Rebound(s, Now.name, new)
    BY <1>10 DEF RunLetRef
  <2>2. n # Now.name
    BY <2>1 DEF Filling, Doing
  <2>3. s \in [Names -> Slot] /\ s[n].ref = Spoil(r, Now.target, Now.excl)
    BY <1>1, SlotsType, SpoilSlotsRef
  <2> HIDE DEF s
  <2> DEFINE t == slot'[n].ref
             u == Spoil(r, Now.target, Now.excl)
  <2>4. /\ t.on = u.on /\ t.excl = u.excl
        /\ u.valid => t.valid \/ (rk < Len(prog[ri]) /\ u.on = Now.name)
    BY <2>1, <2>2, <2>3, ReboundRef
  <2>5. /\ u.on = r.on /\ u.excl = r.excl
        /\ r.valid => u.valid \/ (Now.target # Nowhere /\ r.on = Now.target /\ (Now.excl \/ r.excl))
    BY <1>1, SpoilRef
  <2>6. Now.target # Nowhere /\ r.on = Now.target /\ (Now.excl \/ r.excl) => Spoilt(r, n)
    BY <2>1 DEF Spoilt, Lends
  <2> HIDE DEF t, u
  <2>8. Doing({"let", "letref", "bind"})
    BY <2>1 DEF Doing
  <2>7. RefPassed(r, t, n)
    BY <2>4, <2>5, <2>6, <2>8 DEF RefPassed, BindsAgain
  <2> QED
    BY <2>7 DEF Goal, t
<1>11. CASE RunUse \/ RunCall \/ RunSplit \/ RunJump \/ RunBack \/ RunDefer \/ RunMark
  BY <1>3, <1>11 DEF RunUse, RunCall, RunSplit, RunJump, RunBack, RunDefer, RunMark
<1>12. CASE RunReturn \/ RunFallOff \/ RunNextDefer \/ RunDone
  BY <1>3, <1>12 DEF RunReturn, RunFallOff, RunNextDefer, RunDone, Exit
<1> QED
  BY <1>5, <1>6, <1>7, <1>8, <1>9, <1>10, <1>11, <1>12 DEF RunNext

(* What a binding puts in its slot.                                        *)
LEMMA RefFilled ==
    ASSUME RunInv, RunNext, NEW n \in Names, Filling(n)
    PROVE  /\ Now.op = "letref" =>
                 /\ slot'[n].type = IF Now.excl THEN "refmut" ELSE "ref"
                 /\ slot'[n].ref = NewRef(Now.target, Now.excl)
           /\ Now.op # "letref" =>
                 /\ slot'[n].type = Now.type
                 /\ slot'[n].ref = IF IsRef(Now.type) THEN Given ELSE NoRef
<1>1. Doing({"let", "letref", "bind"}) /\ Now.name = n
  BY DEF Filling
<1>2. Now.op \in {"let", "letref", "bind"}
  BY <1>1 DEF Doing
<1>3. RunLet \/ RunLetRef
  <2>1. ~RunUse /\ ~RunRef /\ ~RunTransfer /\ ~RunAssign /\ ~RunField /\ ~RunCall
    BY <1>2 DEF Doing, RunUse, RunRef, RunTransfer, RunAssign, RunField, RunCall
  <2>2. ~RunSplit /\ ~RunJump /\ ~RunBack /\ ~RunDefer /\ ~RunMark /\ ~RunReturn
    BY <1>2 DEF Doing, RunSplit, RunJump, RunBack, RunDefer, RunMark, RunReturn
  <2>3. ri \in 1..Len(prog) /\ Len(prog) \in Nat
    BY <1>1, NowType DEF RunInv, TypeOK
  <2>4. ~(ri > Len(prog))
    BY <2>3
  <2> QED
    BY <2>1, <2>2, <2>4 DEF RunNext, RunFallOff, RunNextDefer, RunDone
<1>4. CASE RunLet
  <2>1. Doing({"let", "bind"})
    BY <1>4 DEF RunLet
  <2>2. slot'[n] = [value |-> "whole", type |-> Now.type,
                    ref |-> IF IsRef(Now.type) THEN Given ELSE NoRef]
    <3>1. \E s, new : /\ s \in [Names -> Slot] /\ slot' = Rebound(s, n, new)
                      /\ new = [value |-> "whole", type |-> Now.type,
                                ref |-> IF IsRef(Now.type) THEN Given ELSE NoRef]
      BY <1>1, <1>4 DEF RunLet, RunInv, RunTypeOK
    <3> QED
      BY <3>1, ReboundKeeps
  <2> QED
    BY <2>1, <2>2 DEF Doing
<1>5. CASE RunLetRef
  <2>1. Doing({"letref"})
    BY <1>5 DEF RunLetRef
  <2>2. slot'[n] = [value |-> "whole", type |-> IF Now.excl THEN "refmut" ELSE "ref",
                    ref |-> NewRef(Now.target, Now.excl)]
    <3>1. \E s, new : /\ s \in [Names -> Slot] /\ slot' = Rebound(s, n, new)
                      /\ new = [value |-> "whole", type |-> IF Now.excl THEN "refmut" ELSE "ref",
                                ref |-> NewRef(Now.target, Now.excl)]
      <4>1. SpoilSlots(slot, Now.target, Now.excl) \in [Names -> Slot]
        BY SlotsType DEF RunInv, RunTypeOK
      <4> QED
        BY <1>1, <1>5, <4>1 DEF RunLetRef
    <3> QED
      BY <3>1, ReboundKeeps
  <2> QED
    BY <2>1, <2>2 DEF Doing
<1> QED
  BY <1>3, <1>4, <1>5

-----------------------------------------------------------------------------
(* What references a run holds.  Outside handles there are none; from its  *)
(* binding on to the last place it is read at, a handle is valid and, as   *)
(* long as it is on a name, on the one its binding borrowed; and those     *)
(* taken and not yet passed to their call are valid and in the text.       *)
PlainSlots == \A n \in Names \ Handles(prog) : slot[n].ref = NoRef /\ ~IsRef(slot[n].type)
HandleHolds(b, h) ==
    /\ slot[h].ref.valid /\ IsRef(slot[h].type)
    /\ slot[h].ref.on # Nowhere => LendsTo(prog, b, slot[h].ref.on, slot[h].ref.excl, h)
HandleSlots ==
    mode = "body" /\ ~Leaving =>
        \A b, e \in Steps(prog), h \in Handles(prog) :
            Between(b, e, There) /\ Stretch(prog, b, e, h) => HandleHolds(b, h)
TempHolds(i, q) == temps[i].valid /\ AnonHeld(prog, q, temps[i].on, temps[i].excl)
TempsHeld ==
    IF ri <= Len(prog)
    THEN Leaving \/ (/\ Len(temps) = Pending(prog[ri])[rk - 1]
                     /\ \A i \in 1..Len(temps) : TempHolds(i, There))
    ELSE temps = <<>>

FollowInv ==
    OwnInv /\ RefInv /\ PlainSlots /\ HandleSlots /\ TempsHeld /\ NoStaleReference

LEMMA FollowFacts ==
    ASSUME FollowInv
    PROVE  /\ OwnInv /\ PlaceInv /\ RunInv /\ prog \in Programs /\ TypeOK /\ GivesLeave(prog)
           /\ HandlesBound(prog) /\ LoansLast(prog) /\ HandlesSeen(prog) /\ ReadsInStretch(prog)
           /\ ArgumentsPassed(prog)
           /\ slot \in [Names -> Slot] /\ temps \in Seq(Reference)
           /\ PlainSlots /\ HandleSlots /\ TempsHeld /\ NoStaleReference
  BY DEF FollowInv, OwnInv, PlaceInv, RunInv, RunTypeOK, RefInv, CheckInv, Tracked, Followed

(* Every step of the body keeps the rules.                                 *)
LEMMA AcceptedRespects ==
    ASSUME FollowInv, mode # "idle"
    PROVE  \A q \in Steps(prog) : Respects(prog, q)
<1>1. TypeOK /\ prog \in Programs /\ errors = {} /\ si > Len(prog)
  BY FollowFacts DEF PlaceInv, Launched
<1>2. AllRespected
  BY <1>1 DEF FollowInv, RefInv, RefsChecked
<1> QED
  BY <1>1, <1>2, AllPassed DEF AllRespected

(* Where a handle is read it holds what it was bound to.                   *)
LEMMA HandleRead ==
    ASSUME FollowInv, NEW h \in Handles(prog), Doing({"use", "field"}), Now.name = h
    PROVE  \E b \in Steps(prog) : LastBinding(prog, b, h, There) /\ HandleHolds(b, h)
<1> /\ RunInv /\ PlaceInv /\ prog \in Programs /\ HandlesSeen(prog) /\ ReadsInStretch(prog)
    /\ HandleSlots
  BY FollowFacts
<1>1. /\ There \in Steps(prog) /\ StepAt(prog, There) = Now /\ Now.op \in {"use", "field"}
      /\ Reads(prog, There, h)
  BY ThereStep DEF Reads
<1>2. Touches(Now, h)
  BY <1>1 DEF Touches, MentionOps
<1>3. mode = "body" /\ ~Leaving
  <2>1. ~IsDeferStmt(prog[ri])
    BY <1>1, <1>2 DEF HandlesSeen, There
  <2>2. mode # "defers"
    BY <2>1 DEF PlaceInv, DefersOnly, Doing
  <2>3. ~Leaving
    BY <1>1 DEF Leaving
  <2> QED
    BY <2>2, <2>3 DEF Doing, Running
<1>4. Respects(prog, There)
  BY <1>1, <1>3, AcceptedRespects
<1>5. PICK b \in Steps(prog) : LastBinding(prog, b, h, There)
  BY <1>1, <1>4 DEF Respects
<1>6. PICK e \in Steps(prog) : ~Before(e, There) /\ Stretch(prog, b, e, h)
  BY <1>1, <1>5 DEF ReadsInStretch
<1>7. Between(b, e, There)
  BY <1>5, <1>6 DEF Between, LastBinding
<1>8. HandleHolds(b, h)
  BY <1>3, <1>6, <1>7 DEF HandleSlots
<1> QED
  BY <1>5, <1>8

(* A `give` is followed by the return it is for.                           *)
LEMMA GiveLeaves ==
    ASSUME FollowInv, RunNext, UNCHANGED vars, Doing({"give"})
    PROVE  Leaving'
<1> RunInv /\ prog \in Programs /\ GivesLeave(prog) /\ TypeOK
  BY FollowFacts
<1>1. /\ There \in Steps(prog) /\ StepAt(prog, There) = Now /\ Now.op = "give"
      /\ ri \in 1..Len(prog) /\ rk \in 1..Len(prog[ri]) /\ rk \in Nat
  BY ThereStep, NowType
<1>2. prog[ri][rk].op = "give"
  BY <1>1 DEF Now
<1>3. prog[ri][rk + 1].op \in {"return", "tail"}
  BY <1>1, <1>2 DEF GivesLeave, There
<1>4. prog[ri][Len(prog[ri])].op \in EndOps /\ Len(prog[ri]) \in Nat /\ Len(prog) \in Nat
  BY <1>1, BodyFacts
<1>5. rk < Len(prog[ri])
  <2>1. rk # Len(prog[ri])
    BY <1>2, <1>4 DEF EndOps
  <2> QED
    BY <1>1, <1>4, <2>1
<1>6. Step1
  BY <1>1, RunMoves DEF Doing, RunDefer, RunReturn, RunFallOff, RunNextDefer, RunDone
<1>7. ri' = ri /\ rk' = rk + 1 /\ prog' = prog
  BY <1>5, <1>6 DEF Step1, vars
<1>8. ri <= Len(prog)
  BY <1>1, <1>4
<1> QED
  BY <1>3, <1>7, <1>8 DEF Leaving, Now

(* What is lent is neither stored to, transferred nor borrowed against.    *)
LEMMA LentUnspoilt ==
    ASSUME FollowInv, RunNext, UNCHANGED vars, ~Leaving', NEW x \in Names, NEW m \in BOOLEAN,
           Stores(x) \/ Lends(x, m)
    PROVE  ~Lent(prog, There, x, m)
<1> /\ RunInv /\ PlaceInv /\ OwnInv /\ prog \in Programs
  BY FollowFacts
<1>1. \A os : Doing(os) =>
          /\ There \in Steps(prog) /\ StepAt(prog, There) = Now /\ Now.op \in os
          /\ \A ops, n : Does(prog, There, ops, n) <=> Now.op \in ops /\ Now.name = n
  BY ThereStep
<1>2. mode # "idle" /\ There \in Steps(prog)
  BY <1>1, RunningOnly DEF Stores, Lends, HandsOn
<1>3. Respects(prog, There)
  BY <1>2, AcceptedRespects
<1>4. Overwrites(prog, There, x) => ~Lent(prog, There, x, m)
  BY <1>3 DEF Respects
<1>5. CASE Doing({"assign"}) /\ Now.name = x
  BY <1>1, <1>4, <1>5 DEF Overwrites
<1>6. CASE Doing({"field"}) /\ Now.name = x /\ ~IsRef(slot[x].type)
  <2>1. Doing({"use", "field"})
    BY <1>6 DEF Doing
  <2>2. x \notin Handles(prog)
    BY <1>6, <2>1, HandleRead DEF HandleHolds
  <2> QED
    BY <1>1, <1>4, <1>6, <2>2 DEF Overwrites
<1>7. CASE HandsOn(x)
  <2>1. Now.op = "move" /\ Now.name = x
    BY <1>1, <1>7, GiveLeaves DEF HandsOn, Doing
  <2>2. mode = "body"
    BY <1>7, DeferKeeps DEF HandsOn, Doing, Running
  <2>3. OwnedAt(prog, x, There)
    BY <1>7, <2>2, OwnedWhereHanded
  <2>4. MovedAt(prog, There, x)
    BY <1>1, <1>7, <2>1, <2>3 DEF MovedAt, HandsOn
  <2> QED
    BY <1>4, <2>4 DEF Overwrites
<1>8. CASE Lends(x, m)
  <2>1. Borrows(prog, There, x) /\ (StepAt(prog, There).excl \/ m)
    <3>1. CASE Doing({"ref"}) /\ Now.name = x
      BY <1>1, <1>8, <3>1 DEF Lends, Borrows
    <3>2. CASE Doing({"letref"}) /\ Now.target = x
      BY <1>1, <1>8, <3>2 DEF Lends, Borrows
    <3> QED
      BY <1>8, <3>1, <3>2 DEF Lends
  <2> QED
    BY <1>3, <2>1 DEF Respects
<1> QED
  BY <1>5, <1>6, <1>7, <1>8 DEF Stores

(* A store through a handle is one to a value lent to nothing else.        *)
LEMMA ThroughUnspoilt ==
    ASSUME FollowInv, RunNext, UNCHANGED vars, NEW g \in Names, NEW x \in Names, Through(g, x),
           NEW m \in BOOLEAN
    PROVE  ~AnonHeld(prog, There, x, m) /\ \A h \in Names : LetHeld(prog, There, x, m, h) => h = g
<1> /\ RunInv /\ prog \in Programs /\ PlainSlots /\ slot \in [Names -> Slot]
  BY FollowFacts
<1>1. Doing({"field"}) /\ Doing({"use", "field"}) /\ Now.name = g /\ IsRef(slot[g].type)
      /\ slot[g].ref.on = x
  BY DEF Through, Doing
<1>2. There \in Steps(prog) /\ Does(prog, There, {"field"}, g) /\ mode # "idle"
  BY <1>1, ThereStep, RunningOnly
<1>3. g \in Handles(prog)
  BY <1>1 DEF PlainSlots
<1>4. PICK b \in Steps(prog) : LastBinding(prog, b, g, There) /\ HandleHolds(b, g)
  BY <1>1, <1>3, HandleRead
<1>5. x # Nowhere /\ slot[g].ref.excl \in BOOLEAN
  BY RunAssumption DEF Slot, Reference
<1>6. LendsTo(prog, b, x, slot[g].ref.excl, g)
  BY <1>1, <1>4, <1>5 DEF HandleHolds
<1>7. StoresThrough(prog, There, b, g)
  BY <1>2, <1>3, <1>4 DEF StoresThrough
<1>8. Respects(prog, There)
  BY <1>2, AcceptedRespects
<1> QED
  BY <1>5, <1>6, <1>7, <1>8 DEF Respects

LEMMA NextPlainSlots ==
    ASSUME FollowInv, RunNext, UNCHANGED vars
    PROVE  PlainSlots'
<1> RunInv /\ prog \in Programs /\ PlainSlots
  BY FollowFacts
<1>1. prog' = prog /\ slot' \in [Names -> Slot]
  BY RunKeepsType DEF vars, RunInv, RunTypeOK
<1> SUFFICES ASSUME NEW n \in Names \ Handles(prog)
             PROVE  slot'[n].ref = NoRef /\ ~IsRef(slot'[n].type)
  BY <1>1 DEF PlainSlots
<1>2. slot[n].ref = NoRef /\ ~IsRef(slot[n].type)
  BY DEF PlainSlots
<1>3. CASE Filling(n)
  <2>1. There \in Steps(prog) /\ StepAt(prog, There) = Now /\ Binds(prog, There, n)
    BY <1>3, ThereStep DEF Filling, Binds
  <2>2. ~BindsRef(prog, There)
    BY <2>1 DEF Handles
  <2>3. Now.op # "letref" /\ ~IsRef(Now.type)
    BY <2>1, <2>2 DEF BindsRef
  <2> QED
    BY <1>3, <2>3, RefFilled
<1>4. CASE ~Filling(n)
  <2>1. RefPassed(NoRef, slot'[n].ref, n) /\ slot'[n].type = slot[n].type
    BY <1>2, <1>4, RefStep, SlotStep
  <2>2. slot'[n].ref \in Reference
    BY <1>1 DEF Slot
  <2>4. ~BindsAgain(Nowhere)
    BY NowType, RunAssumption DEF BindsAgain, Step
  <2>3. slot'[n].ref = NoRef
    BY <2>1, <2>2, <2>4 DEF RefPassed, Spoilt, NoRef, Reference
  <2> QED
    BY <1>2, <2>1, <2>3
<1> QED
  BY <1>3, <1>4

(* On the way from its binding to the last place it is read at, a handle   *)
(* is mentioned by this or a later statement.                              *)
LEMMA HandleLent ==
    ASSUME FollowInv, NEW b \in Steps(prog), NEW e \in Steps(prog), NEW h \in Handles(prog),
           Between(b, e, There), Stretch(prog, b, e, h), NEW x, NEW m, LendsTo(prog, b, x, m, h)
    PROVE  LetHeld(prog, There, x, m, h)
<1> RunInv /\ prog \in Programs /\ HandlesSeen(prog)
  BY FollowFacts
<1>1. PICK u \in Steps(prog) : u[1] = e[1] /\ Reads(prog, u, h)
  BY DEF Stretch
<1>2. Touches(StepAt(prog, u), h)
  BY <1>1 DEF Reads, Does, Touches, MentionOps, StepAt
<1>3. StepAt(prog, u).seen
  BY <1>2 DEF HandlesSeen
<1>4. u[2] \in 1..Len(prog[e[1]]) /\ e[1] \in 1..Len(prog)
  BY <1>1, StepFacts
<1>5. Mentions(prog[e[1]], h)
  BY <1>1, <1>2, <1>3, <1>4 DEF Mentions, StepAt
<1>6. e[1] \in ri..Len(prog)
  <2>1. ~(e[1] < ri)
    BY DEF Between, Before, There
  <2>2. ri \in Nat /\ Len(prog) \in Nat
    BY DEF RunInv, Cursor, TypeOK
  <2> QED
    BY <1>4, <2>1, <2>2
<1>7. \E j \in There[1]..Len(prog) : Mentions(prog[j], h)
  BY <1>5, <1>6 DEF There
<1> QED
  BY <1>7 DEF LetHeld, Between

LEMMA HandleSpared ==
    ASSUME FollowInv, RunNext, UNCHANGED vars, mode = "body", ~Leaving, ~Leaving',
           NEW b \in Steps(prog), NEW e \in Steps(prog), NEW h \in Handles(prog),
           Between(b, e, There), Stretch(prog, b, e, h)
    PROVE  HandleHolds(b, h)'
<1> RunInv /\ prog \in Programs /\ HandleSlots /\ h \in Names /\ prog' = prog
  BY FollowFacts DEF Handles, vars
<1> DEFINE r == slot[h].ref
<1>1. HandleHolds(b, h)
  BY DEF HandleSlots
<1>2. ~Filling(h)
  BY ThereStep DEF Filling, Binds, Stretch
<1>8. ~(Doing({"assign"}) /\ Now.name = h)
  BY ThereStep, FollowFacts DEF HandlesBound
<1>3. RefPassed(r, slot'[h].ref, h) /\ slot'[h].type = slot[h].type
  BY <1>2, <1>8, RefStep, SlotStep
<1>4. r \in Reference
  BY FollowFacts DEF Slot
<1>5. ~Spoilt(r, h)
  <2> SUFFICES ASSUME r.on # Nowhere, Spoilt(r, h) PROVE FALSE
    BY DEF Spoilt
  <2>1. r.on \in Names /\ r.excl \in BOOLEAN
    BY <1>4 DEF Reference
  <2>2. LendsTo(prog, b, r.on, r.excl, h)
    BY <1>1 DEF HandleHolds
  <2>3. LetHeld(prog, There, r.on, r.excl, h)
    BY <2>2, HandleLent
  <2> HIDE DEF r
  <2>4. ~Stores(r.on) /\ ~Lends(r.on, r.excl)
    BY <2>1, <2>3, LentUnspoilt DEF Lent
  <2>5. \A g \in Names : g # h => ~Through(g, r.on)
    BY <2>1, <2>3, ThroughUnspoilt
  <2> QED
    BY <2>4, <2>5 DEF Spoilt
<1>9. ~BindsAgain(r.on)
  <2> SUFFICES ASSUME BindsAgain(r.on) PROVE FALSE
    OBVIOUS
  <2>1. There \in Steps(prog) /\ Binds(prog, There, r.on) /\ r.on \in Names
    BY ThereStep DEF BindsAgain, Binds, Step
  <2>2. LendsTo(prog, b, r.on, r.excl, h)
    BY <1>1, <2>1, RunAssumption DEF HandleHolds
  <2> HIDE DEF r
  <2>3. StepAt(prog, b).op = "letref" /\ StepAt(prog, b).target = r.on
    BY <2>2 DEF LendsTo
  <2>4. Before(b, There)
    BY DEF Between
  <2>5. There[2] = Len(prog[There[1]])
    BY <2>1, <2>3, <2>4, FollowFacts DEF LoansLast
  <2>6. rk = Len(prog[ri])
    BY <2>5 DEF There
  <2> QED
    BY <2>6 DEF BindsAgain
<1>6. slot'[h].ref.valid /\ IsRef(slot'[h].type)
  BY <1>1, <1>3, <1>5, <1>9 DEF HandleHolds, RefPassed
<1>7. slot'[h].ref.on # Nowhere => LendsTo(prog, b, slot'[h].ref.on, slot'[h].ref.excl, h)
  BY <1>1, <1>3 DEF HandleHolds, RefPassed
<1> QED
  BY <1>6, <1>7 DEF HandleHolds

LEMMA HandleFilled ==
    ASSUME FollowInv, RunNext, UNCHANGED vars, NEW h \in Handles(prog), Filling(h), NEW b, b = There
    PROVE  HandleHolds(b, h)'
<1> /\ RunInv /\ prog \in Programs /\ HandlesBound(prog) /\ ArgumentsPassed(prog) /\ TempsHeld
    /\ PlainSlots /\ h \in Names /\ prog' = prog
  BY FollowFacts DEF Handles, vars
<1>1. /\ There \in Steps(prog) /\ StepAt(prog, There) = Now /\ Binds(prog, There, h)
      /\ Now \in Step /\ Now.op \in {"let", "letref", "bind"} /\ Now.name = h
  BY ThereStep DEF Filling, Binds
<1>2. CASE Now.op = "letref"
  <2>1. /\ slot'[h].type = IF Now.excl THEN "refmut" ELSE "ref"
        /\ slot'[h].ref = NewRef(Now.target, Now.excl)
    BY <1>2, RefFilled
  <2>2. slot'[h].ref.on = Now.target /\ slot'[h].ref.excl = Now.excl /\ slot'[h].ref.valid
    BY <2>1 DEF NewRef
  <2>3. IsRef(slot'[h].type)
    BY <2>1 DEF IsRef
  <2>4. LendsTo(prog, There, Now.target, Now.excl, h)
    BY <1>1, <1>2 DEF LendsTo
  <2> QED
    BY <2>2, <2>3, <2>4 DEF HandleHolds
<1>3. CASE Now.op # "letref"
  <2>1. BindsRef(prog, There) /\ Now.op = "let" /\ Now.target \notin Handles(prog)
    BY <1>1, <1>3 DEF HandlesBound, IsParameter
  <2>2. IsRef(Now.type) /\ Now.target \in Names
    BY <1>1, <1>3, <2>1 DEF BindsRef, Step
  <2>3. ri \in 1..Len(prog) /\ rk \in 1..Len(prog[ri]) /\ Len(prog) \in Nat
    BY NowType DEF Filling, RunInv, TypeOK
  <2>4. Pending(prog[ri])[rk - 1] = 0
    BY <2>1, <2>3 DEF ArgumentsPassed, Releases, Now
  <2>5. ri <= Len(prog) /\ ~Leaving
    BY <2>1, <2>3 DEF Leaving
  <2>6. Len(temps) = 0
    BY <2>4, <2>5 DEF TempsHeld
  <2>7. temps = <<>>
    BY <2>6, FollowFacts
  <2>8. slot[Now.target].ref = NoRef
    BY <2>1, <2>2 DEF PlainSlots
  <2>9. slot'[h].ref = NoRef /\ slot'[h].type = Now.type
    BY <1>3, <2>2, <2>7, <2>8, RefFilled DEF Given
  <2> QED
    BY <2>2, <2>9 DEF HandleHolds, NoRef
<1> QED
  BY <1>2, <1>3

LEMMA NextHandleSlots ==
    ASSUME FollowInv, RunNext, UNCHANGED vars
    PROVE  HandleSlots'
<1> /\ RunInv /\ PlaceInv /\ prog \in Programs /\ HandlesBound(prog) /\ prog' = prog
  BY FollowFacts DEF vars
<1> SUFFICES ASSUME mode' = "body", ~Leaving',
                    NEW b \in Steps(prog), NEW e \in Steps(prog), NEW h \in Handles(prog),
                    Between(b, e, There'), Stretch(prog, b, e, h)
             PROVE  HandleHolds(b, h)'
  BY DEF HandleSlots
<1>1. mode = "body" /\ ~Leaving
  BY BodyMoves
<1>2. CASE Between(b, e, There)
  BY <1>1, <1>2, HandleSpared
<1>3. ASSUME ~Between(b, e, There), Doing(WalkOps), Step1 PROVE HandleHolds(b, h)'
  <2>1. Follows(prog, There, There')
    BY <1>1, <1>3, Onward
  <2>2. b = There
    BY <1>3, <2>1 DEF Follows, Between
  <2>3. Binds(prog, There, h)
    BY <2>2 DEF Stretch
  <2>4. Now.op \in {"let", "letref", "bind"} /\ Now.name = h
    BY <1>3, <2>3, ThereStep DEF Binds
  <2>5. Filling(h)
    BY <1>3, <2>4 DEF Filling, Doing
  <2> QED
    BY <2>2, <2>5, HandleFilled
<1>4. ASSUME ~Between(b, e, There), Doing({"split", "jump", "break", "back"}), Branch(Now.to)
      PROVE  FALSE
  <2>1. /\ There \in Steps(prog) /\ StepAt(prog, There) = Now
        /\ Now.op \in {"split", "jump", "break", "back"}
    BY <1>4, ThereStep
  <2>2. There' = <<There[1], StepAt(prog, There).to>>
    BY <1>4, <2>1 DEF Branch, There
  <2>3. ~Between(b, e, <<There[1], StepAt(prog, There).to>>)
    BY <1>4, <2>1 DEF Stretch
  <2> QED
    BY <2>2, <2>3
<1>5. ASSUME ~Between(b, e, There), RunDefer PROVE FALSE
  <2>1. IsDeferStmt(prog[ri]) /\ There = <<ri, 1>> /\ There' = <<ri + 1, 1>>
    BY <1>5, DeferPassed
  <2>2. ri \in Nat
    BY DEF RunInv, Cursor
  <2>3. /\ b[1] \in Nat /\ b[2] \in Nat /\ b[2] >= 1 /\ e[1] \in Nat /\ e[2] \in Nat /\ e[2] >= 1
    BY StepFacts
  <2>4. Binds(prog, b, h)
    BY DEF Stretch
  <2>5. b[1] # ri
    BY <2>1, <2>4 DEF HandlesBound
  <2>6. b[1] < ri + 1
    BY <2>1, <2>2, <2>3 DEF Between, Before
  <2>7. b[1] < ri
    BY <2>2, <2>3, <2>5, <2>6
  <2>8. ~(e[1] < ri + 1)
    BY <2>1 DEF Between, Before
  <2>9. ~(e[1] < ri) /\ e[1] # ri
    BY <2>2, <2>3, <2>8
  <2> QED
    BY <1>5, <2>1, <2>7, <2>9 DEF Between, Before
<1> QED
  BY <1>2, <1>3, <1>4, <1>5, BodyMoves

-----------------------------------------------------------------------------
(* The references taken and not yet passed: one more at a `ref`, fewer at a *)
(* call, otherwise the same ones, as long as nothing invalidates them.      *)
TempPassed(r, s) ==
    s.on = r.on /\ s.excl = r.excl /\ (r.valid => s.valid \/ Spoilt(r, Nowhere))

(* At the end of a statement none is pending.                              *)
LEMMA EndEmpty ==
    ASSUME FollowInv, NEW os, Doing(os), Now.op \notin {"return", "tail"}
    PROVE  /\ Len(temps) = Pending(prog[ri])[rk - 1] /\ Len(temps) \in Nat
           /\ \A i \in 1..Len(temps) : TempHolds(i, There)
           /\ rk = Len(prog[ri]) => Releases(prog[ri], rk)
           /\ Releases(prog[ri], rk) => Len(temps) = 0
<1> RunInv /\ prog \in Programs /\ TypeOK /\ ArgumentsPassed(prog) /\ TempsHeld /\ temps \in Seq(Reference)
  BY FollowFacts
<1>1. ri \in 1..Len(prog) /\ rk \in 1..Len(prog[ri]) /\ Len(prog) \in Nat
  BY NowType DEF TypeOK
<1>2. ri <= Len(prog) /\ ~Leaving
  BY <1>1 DEF Leaving
<1>3. Len(temps) = Pending(prog[ri])[rk - 1] /\ \A i \in 1..Len(temps) : TempHolds(i, There)
  BY <1>2 DEF TempsHeld
<1>4. prog[ri][Len(prog[ri])].op \in EndOps
  BY <1>1, BodyFacts
<1>5. rk = Len(prog[ri]) => Releases(prog[ri], rk)
  BY <1>4 DEF EndOps, Releases
<1>6. Releases(prog[ri], rk) => Pending(prog[ri])[rk - 1] = 0
  BY <1>1 DEF ArgumentsPassed
<1> QED
  BY <1>3, <1>5, <1>6

LEMMA HeldSame ==
    ASSUME FollowInv, NEW os, Doing(os), Now.op \notin {"return", "tail"},
           NEW ts \in Seq(Reference), Len(ts) = Len(temps)
    PROVE  Held(ts) = ts
<1>1. rk = Len(prog[ri]) => Len(ts) = 0
  BY EndEmpty
<1>2. Len(ts) = 0 => ts = <<>>
  OBVIOUS
<1> QED
  BY <1>1, <1>2 DEF Held

LEMMA SpoilTempsAt ==
    ASSUME temps \in Seq(Reference), NEW x, NEW all, NEW i \in 1..Len(temps)
    PROVE  SpoilTemps(x, all)[i] = Spoil(temps[i], x, all) /\ temps[i] \in Reference
  BY DEF SpoilTemps

LEMMA TempsStep ==
    ASSUME FollowInv, RunNext, NEW os, Doing(os), Now.op \notin {"return", "tail", "defer"}
    PROVE  /\ temps' \in Seq(Reference) /\ Len(temps') = Pending(prog[ri])[rk]
           /\ \A i \in 1..Len(temps') :
                 \/ i \in 1..Len(temps) /\ TempPassed(temps[i], temps'[i])
                 \/ Now.op = "ref" /\ temps'[i] = NewRef(Now.name, Now.excl)
<1> /\ RunInv /\ prog \in Programs /\ TypeOK /\ temps \in Seq(Reference) /\ Len(temps) \in Nat
    /\ ArgumentsPassed(prog)
  BY FollowFacts
<1>1. /\ ri \in 1..Len(prog) /\ rk \in 1..Len(prog[ri]) /\ Len(prog) \in Nat
      /\ Now \in Step /\ Len(prog[ri]) \in Nat
  BY NowType, BodyFacts DEF TypeOK
<1>2. Len(temps) = Pending(prog[ri])[rk - 1]
  BY EndEmpty
<1>3. Pending(prog[ri])[rk] = IF Now.op = "ref" THEN Len(temps) + 1
                              ELSE IF Now.op = "call" THEN Len(temps) - Now.to ELSE Len(temps)
  BY <1>1, <1>2, PendingIs DEF Now
<1> DEFINE Goal == /\ temps' \in Seq(Reference) /\ Len(temps') = Pending(prog[ri])[rk]
                   /\ \A i \in 1..Len(temps') :
                         \/ i \in 1..Len(temps) /\ TempPassed(temps[i], temps'[i])
                         \/ Now.op = "ref" /\ temps'[i] = NewRef(Now.name, Now.excl)
<1> SUFFICES Goal
  OBVIOUS
<1>4. Now.op \notin {"ref", "call"} /\ temps' = temps => Goal
  BY <1>3 DEF TempPassed
<1>5. ASSUME NEW x, NEW all, temps' = SpoilTemps(x, all), Now.op \notin {"ref", "call"},
             \A m : x # Nowhere /\ (all \/ m) => Stores(x) \/ Lends(x, m)
                                                 \/ \E g \in Names : g # Nowhere /\ Through(g, x)
      PROVE  Goal
  <2>1. temps' \in Seq(Reference) /\ Len(temps') = Len(temps)
    BY <1>5, TempsType
  <2>2. ASSUME NEW i \in 1..Len(temps) PROVE TempPassed(temps[i], temps'[i])
    <3>1. temps'[i] = Spoil(temps[i], x, all) /\ temps[i] \in Reference
      BY <1>5, SpoilTempsAt
    <3> DEFINE r == temps[i]
               s == temps'[i]
    <3>2. /\ s.on = r.on /\ s.excl = r.excl
          /\ r.valid => s.valid \/ (x # Nowhere /\ r.on = x /\ (all \/ r.excl))
      BY <3>1, SpoilRef
    <3> HIDE DEF r, s
    <3>3. x # Nowhere /\ r.on = x /\ (all \/ r.excl) => Spoilt(r, Nowhere)
      BY <1>5 DEF Spoilt
    <3>4. TempPassed(r, s)
      BY <3>2, <3>3 DEF TempPassed
    <3> QED
      BY <3>4 DEF r, s
  <2> QED
    BY <1>3, <1>5, <2>1, <2>2
<1> HIDE DEF Goal
<1>6. CASE RunRef
  <2>1. Doing({"ref"}) /\ Now.op = "ref" /\ Now.name \in Names /\ Now.excl \in BOOLEAN
    BY <1>1, <1>6 DEF RunRef, Doing, Step
  <2> DEFINE ts == SpoilTemps(Now.name, Now.excl)
             new == NewRef(Now.name, Now.excl)
  <2>2. temps' = Append(ts, new)
    BY <1>6 DEF RunRef
  <2>3. ts \in Seq(Reference) /\ Len(ts) = Len(temps) /\ new \in Reference
    BY <2>1, TempsType, RefType
  <2>4. ASSUME NEW i \in 1..Len(temps) PROVE TempPassed(temps[i], ts[i])
    <3>1. ts[i] = Spoil(temps[i], Now.name, Now.excl) /\ temps[i] \in Reference
      BY SpoilTempsAt
    <3> DEFINE r == temps[i]
               s == ts[i]
    <3>2. /\ s.on = r.on /\ s.excl = r.excl
          /\ r.valid => s.valid \/ (Now.name # Nowhere /\ r.on = Now.name /\ (Now.excl \/ r.excl))
      BY <3>1, SpoilRef
    <3> HIDE DEF r, s
    <3>3. Now.name # Nowhere /\ r.on = Now.name /\ (Now.excl \/ r.excl) => Spoilt(r, Nowhere)
      BY <2>1 DEF Spoilt, Lends
    <3>4. TempPassed(r, s)
      BY <3>2, <3>3 DEF TempPassed
    <3> QED
      BY <3>4 DEF r, s
  <2> HIDE DEF ts
  <2> HIDE DEF new
  <2>5. /\ temps' \in Seq(Reference) /\ Len(temps') = Len(temps) + 1
        /\ temps'[Len(temps) + 1] = new /\ \A i \in 1..Len(temps) : temps'[i] = ts[i]
    BY <2>2, <2>3
  <2>6. ASSUME NEW i \in 1..Len(temps')
        PROVE  \/ i \in 1..Len(temps) /\ TempPassed(temps[i], temps'[i])
               \/ temps'[i] = new
    <3>1. i = Len(temps) + 1 \/ i \in 1..Len(temps)
      BY <2>5
    <3> QED
      BY <2>4, <2>5, <3>1
  <2> QED
    BY <1>3, <2>1, <2>5, <2>6 DEF Goal, new
<1>7. CASE RunTransfer
  <2>1. Doing({"move", "give"}) /\ Now.op \in {"move", "give"}
    BY <1>7 DEF RunTransfer, Doing
  <2>2. CASE IsCopy(slot[Now.name].type)
    BY <1>4, <1>7, <2>1, <2>2 DEF RunTransfer
  <2>3. CASE ~IsCopy(slot[Now.name].type)
    <3>1. PICK all : all /\ temps' = SpoilTemps(Now.name, all)
      BY <1>7, <2>3, Zenon DEF RunTransfer
    <3>2. temps' = SpoilTemps(Now.name, all)
      BY <3>1, Zenon
    <3>3. Stores(Now.name)
      BY <2>1, <2>3 DEF Stores, HandsOn
    <3> QED
      BY <1>5, <2>1, <3>2, <3>3
  <2> QED
    BY <2>2, <2>3
<1>8. CASE RunAssign
  <2>1. Doing({"assign"}) /\ Now.op = "assign"
    BY <1>8 DEF RunAssign, Doing
  <2>2. PICK all : all /\ temps' = SpoilTemps(Now.name, all)
    BY <1>8, Zenon DEF RunAssign
  <2>3. temps' = SpoilTemps(Now.name, all)
    BY <2>2, Zenon
  <2>4. Stores(Now.name)
    BY <2>1 DEF Stores
  <2> QED
    BY <1>5, <2>1, <2>3, <2>4
<1>9. CASE RunField
  <2>1. Doing({"field"}) /\ Now.op = "field" /\ Now.name \in Names
    BY <1>1, <1>9 DEF RunField, Doing, Step
  <2>2. CASE ~IsRef(slot[Now.name].type)
    <3>1. PICK all : all /\ temps' = SpoilTemps(Now.name, all)
      BY <1>9, <2>2, Zenon DEF RunField
    <3>2. temps' = SpoilTemps(Now.name, all)
      BY <3>1, Zenon
    <3>3. Stores(Now.name)
      BY <2>1, <2>2 DEF Stores
    <3> QED
      BY <1>5, <2>1, <3>2, <3>3
  <2>3. CASE IsRef(slot[Now.name].type)
    <3> DEFINE x == slot[Now.name].ref.on
    <3>1. PICK all : all /\ temps' = SpoilTemps(x, all)
      BY <1>9, <2>3, Zenon DEF RunField
    <3>2. temps' = SpoilTemps(x, all)
      BY <3>1, Zenon
    <3>3. Through(Now.name, x) /\ Now.name # Nowhere
      BY <2>1, <2>3, RunAssumption DEF Through
    <3> HIDE DEF x
    <3> QED
      BY <1>5, <2>1, <3>2, <3>3
  <2> QED
    BY <2>2, <2>3
<1>10. CASE RunLetRef
  <2>1. Doing({"letref"}) /\ Now.op = "letref"
    BY <1>10 DEF RunLetRef, Doing
  <2> DEFINE ts == SpoilTemps(Now.target, Now.excl)
  <2>2. temps' = Held(ts)
    BY <1>10 DEF RunLetRef
  <2>3. ts \in Seq(Reference) /\ Len(ts) = Len(temps)
    BY TempsType
  <2> HIDE DEF ts
  <2>4. temps' = ts
    BY <2>1, <2>2, <2>3, HeldSame
  <2>5. temps' = SpoilTemps(Now.target, Now.excl)
    BY <2>4 DEF ts
  <2>6. \A m : Now.excl \/ m => Lends(Now.target, m)
    BY <2>1 DEF Lends
  <2> QED
    BY <1>5, <2>1, <2>5, <2>6
<1>11. CASE RunLet \/ RunMark
  <2>1. temps' = Held(temps) /\ Now.op \notin {"ref", "call"}
    BY <1>11 DEF RunLet, RunMark, Doing
  <2>2. temps' = temps
    BY <2>1, HeldSame
  <2> QED
    BY <1>4, <2>1, <2>2
<1>12. CASE RunCall
  <2>1. Now.op = "call" /\ temps' = SubSeq(temps, 1, Len(temps) - Now.to)
    BY <1>12 DEF RunCall, Doing
  <2>2. Now.to \in Nat /\ Now.to <= Len(temps)
    BY <1>1, <1>2, <2>1 DEF ArgumentsPassed, Now, Step
  <2> DEFINE n == Len(temps) - Now.to
  <2>3. n \in 0..Len(temps)
    BY <2>2
  <2> HIDE DEF n
  <2>4. SubSeq(temps, 1, n) \in Seq(Reference) /\ Len(SubSeq(temps, 1, n)) = n
        /\ \A i \in 1..n : SubSeq(temps, 1, n)[i] = temps[i]
    BY <2>3
  <2>5. /\ temps' \in Seq(Reference) /\ Len(temps') = n
        /\ \A i \in 1..n : i \in 1..Len(temps) /\ temps'[i] = temps[i]
    BY <2>1, <2>3, <2>4 DEF n
  <2>6. \A i \in 1..n : TempPassed(temps[i], temps'[i])
    BY <2>5 DEF TempPassed
  <2> QED
    BY <1>3, <2>1, <2>5, <2>6 DEF Goal, n
<1>13. CASE RunUse \/ RunSplit \/ RunJump \/ RunBack
  <2>1. Now.op \notin {"ref", "call"} /\ temps' = temps
    BY <1>13 DEF RunUse, RunSplit, RunJump, RunBack, Doing
  <2> QED
    BY <1>4, <2>1
<1>14. ~RunDefer /\ ~RunReturn /\ ~RunFallOff /\ ~RunNextDefer /\ ~RunDone
  <2>1. ~(ri > Len(prog)) /\ Running
    BY <1>1 DEF Doing
  <2> QED
    BY <2>1 DEF Doing, RunDefer, RunReturn, RunFallOff, RunNextDefer, RunDone
<1> QED
  BY <1>6, <1>7, <1>8, <1>9, <1>10, <1>11, <1>12, <1>13, <1>14 DEF RunNext

(* A reference taken in the statement stays one that the text says is held *)
(* up to the step that releases it.                                        *)
LEMMA AnonOn ==
    ASSUME NEW p, NEW i, NEW k \in Nat, NEW m \in Nat, k <= m, Unreleased(p, i, k, m),
           NEW x, NEW e, AnonHeld(p, <<i, k>>, x, e)
    PROVE  AnonHeld(p, <<i, m>>, x, e)
<1>1. PICK j \in 1..(k - 1) : /\ Does(p, <<i, j>>, {"ref"}, x) /\ p[i][j].excl = e
                              /\ Unreleased(p, i, j, k)
  BY DEF AnonHeld
<1>2. j \in 1..(m - 1)
  BY <1>1
<1>3. Unreleased(p, i, j, m)
  <2> SUFFICES ASSUME NEW l \in j..(m - 1) PROVE ~Releases(p[i], l)
    BY DEF Unreleased
  <2>1. l \in j..(k - 1) \/ l \in k..(m - 1)
    BY <1>1
  <2> QED
    BY <1>1, <2>1 DEF Unreleased
<1> QED
  BY <1>1, <1>2, <1>3 DEF AnonHeld

(* Nothing the checker accepts invalidates one that is pending.            *)
LEMMA TempSpared ==
    ASSUME FollowInv, RunNext, UNCHANGED vars, ~Leaving', NEW r \in Reference,
           AnonHeld(prog, There, r.on, r.excl)
    PROVE  ~Spoilt(r, Nowhere)
<1> SUFFICES ASSUME r.on # Nowhere, Spoilt(r, Nowhere) PROVE FALSE
  BY DEF Spoilt
<1>1. r.on \in Names /\ r.excl \in BOOLEAN
  BY DEF Reference
<1>2. ~Stores(r.on) /\ ~Lends(r.on, r.excl)
  BY <1>1, LentUnspoilt DEF Lent
<1>3. \A g \in Names : ~Through(g, r.on)
  BY <1>1, ThroughUnspoilt
<1> QED
  BY <1>2, <1>3 DEF Spoilt

(* Where the statement goes on after the step.                             *)
LEMMA TempsOn ==
    ASSUME FollowInv, RunNext, UNCHANGED vars, NEW os, Doing(os),
           Now.op \notin {"return", "tail", "defer"}, ~Leaving',
           ri' = ri, rk' \in Nat, Pending(prog[ri])[rk' - 1] = Pending(prog[ri])[rk],
           Len(temps) > 0 => rk <= rk' /\ Unreleased(prog, ri, rk, rk'),
           Now.op = "ref" => rk' = rk + 1
    PROVE  TempsHeld'
<1> /\ RunInv /\ prog \in Programs /\ TypeOK /\ temps \in Seq(Reference) /\ Len(temps) \in Nat
    /\ prog' = prog
  BY FollowFacts DEF vars
<1>1. /\ ri \in 1..Len(prog) /\ rk \in 1..Len(prog[ri]) /\ Len(prog) \in Nat /\ rk \in Nat
      /\ Now \in Step
  <2>1. Len(prog) \in Nat
    BY DEF TypeOK
  <2> QED
    BY <2>1, NowType
<1>2. /\ Len(temps') = Pending(prog[ri])[rk' - 1]
      /\ \A i \in 1..Len(temps') :
            \/ i \in 1..Len(temps) /\ TempPassed(temps[i], temps'[i])
            \/ Now.op = "ref" /\ temps'[i] = NewRef(Now.name, Now.excl)
  BY TempsStep
<1>3. There' = <<ri, rk'>>
  BY DEF There
<1>4. ASSUME NEW i \in 1..Len(temps')
      PROVE  temps'[i].valid /\ AnonHeld(prog, <<ri, rk'>>, temps'[i].on, temps'[i].excl)
  <2>1. CASE i \in 1..Len(temps) /\ TempPassed(temps[i], temps'[i])
    <3>1. TempHolds(i, There) /\ temps[i] \in Reference
      BY <2>1, EndEmpty
    <3> DEFINE r == temps[i]
               s == temps'[i]
    <3>2. r.valid /\ AnonHeld(prog, There, r.on, r.excl)
      BY <3>1 DEF TempHolds
    <3>3. TempPassed(r, s) /\ r \in Reference
      BY <2>1, <3>1
    <3> HIDE DEF r, s
    <3>4. ~Spoilt(r, Nowhere)
      BY <3>2, <3>3, TempSpared
    <3>5. s.valid /\ s.on = r.on /\ s.excl = r.excl
      BY <3>2, <3>3, <3>4 DEF TempPassed
    <3>6. AnonHeld(prog, <<ri, rk>>, r.on, r.excl)
      BY <3>2 DEF There
    <3>7. AnonHeld(prog, <<ri, rk'>>, r.on, r.excl)
      BY <1>1, <2>1, <3>6, AnonOn
    <3> QED
      BY <3>5, <3>7 DEF r, s
  <2>2. CASE Now.op = "ref" /\ temps'[i] = NewRef(Now.name, Now.excl)
    <3>1. temps'[i].valid /\ temps'[i].on = Now.name /\ temps'[i].excl = Now.excl
      BY <2>2 DEF NewRef
    <3>2. Does(prog, <<ri, rk>>, {"ref"}, Now.name) /\ prog[ri][rk].excl = Now.excl
      BY <2>2 DEF Does, Now
    <3>3. Unreleased(prog, ri, rk, rk + 1)
      BY <1>1, <2>2 DEF Unreleased, Releases, Now
    <3>4. rk' = rk + 1 /\ rk \in 1..(rk' - 1)
      BY <1>1, <2>2
    <3>5. AnonHeld(prog, <<ri, rk'>>, Now.name, Now.excl)
      BY <3>2, <3>3, <3>4 DEF AnonHeld
    <3> QED
      BY <3>1, <3>5
  <2> QED
    BY <1>2, <2>1, <2>2
<1>5. \A i \in 1..Len(temps') : TempHolds(i, There)'
  BY <1>3, <1>4 DEF TempHolds
<1>6. Len(temps') = Pending(prog'[ri'])[rk' - 1] /\ ri' <= Len(prog')
  BY <1>1, <1>2
<1> QED
  BY <1>5, <1>6 DEF TempsHeld

LEMMA NextTempsHeld ==
    ASSUME FollowInv, RunNext, UNCHANGED vars
    PROVE  TempsHeld'
<1> /\ RunInv /\ PlaceInv /\ prog \in Programs /\ TypeOK /\ temps \in Seq(Reference)
    /\ Len(temps) \in Nat /\ ArgumentsPassed(prog) /\ TempsHeld /\ prog' = prog
  BY FollowFacts DEF vars
<1> Len(prog) \in Nat /\ ri \in Nat
  BY DEF RunInv, Cursor, TypeOK
<1>1. ASSUME temps' = <<>>, ri' <= Len(prog) => Pending(prog[ri'])[rk' - 1] = 0
      PROVE  TempsHeld'
  BY <1>1 DEF TempsHeld
<1>2. ASSUME NEW j \in 1..Len(prog) PROVE Len(prog[j]) \in Nat \ {0} /\ Pending(prog[j])[0] = 0
  BY BodyFacts, PendingIs
<1>3. CASE Leaving' /\ ri' <= Len(prog)
  BY <1>3 DEF TempsHeld
<1>4. ASSUME ~(Leaving' /\ ri' <= Len(prog)) PROVE ~Leaving'
  BY <1>4 DEF Leaving
<1>5. ASSUME ~Leaving', Doing(WalkOps), Step1 PROVE TempsHeld'
  <2>1. Now.op \notin {"return", "tail", "defer"}
    BY <1>5 DEF Doing, WalkOps
  <2>2. /\ ri \in 1..Len(prog) /\ rk \in 1..Len(prog[ri]) /\ rk \in Nat
    BY <1>5, NowType
  <2>3. CASE rk < Len(prog[ri])
    <3>1. rk' = rk + 1 /\ ri' = ri
      BY <1>5, <2>3 DEF Step1
    <3>2. Len(temps) > 0 => ~Releases(prog[ri], rk)
      BY <1>5, <2>1, EndEmpty
    <3>3. Len(temps) > 0 => rk <= rk' /\ Unreleased(prog, ri, rk, rk')
      <4>1. \A j \in rk..(rk' - 1) : j = rk
        BY <2>2, <3>1
      <4> QED
        BY <2>2, <3>1, <3>2, <4>1 DEF Unreleased
    <3>4. rk' \in Nat /\ rk' - 1 = rk
      BY <2>2, <3>1
    <3> QED
      BY <1>5, <2>1, <3>1, <3>3, <3>4, TempsOn
  <2>4. CASE rk = Len(prog[ri])
    <3>1. Releases(prog[ri], rk) /\ Len(temps) = 0 /\ Pending(prog[ri])[rk - 1] = 0
      BY <1>5, <2>1, <2>4, EndEmpty
    <3>2. Pending(prog[ri])[rk] = 0
      <4>1. prog[ri][rk].op \notin {"ref", "call"}
        BY <3>1 DEF Releases
      <4> QED
        BY <1>2, <2>2, <3>1, <4>1, PendingIs
    <3>3. temps' \in Seq(Reference) /\ Len(temps') = 0
      BY <1>5, <2>1, <3>2, TempsStep
    <3>4. temps' = <<>>
      BY <3>3
    <3>5. rk' = 1 /\ (ri' = ri + 1 \/ ri' = Len(prog) + 1)
      BY <1>2, <1>5, <2>2, <2>4 DEF Step1
    <3>6. ri' <= Len(prog) => ri' \in 1..Len(prog)
      BY <3>5
    <3>7. rk' - 1 = 0
      BY <3>5
    <3> QED
      BY <1>1, <1>2, <3>4, <3>6, <3>7
  <2> QED
    BY <1>2, <2>2, <2>3, <2>4
<1>6. ASSUME ~Leaving', Doing({"split", "jump", "break", "back"}), Branch(Now.to) PROVE TempsHeld'
  <2>1. Now.op \in {"split", "jump", "break", "back"}
    BY <1>6 DEF Doing
  <2>2. /\ ri \in 1..Len(prog) /\ rk \in 1..Len(prog[ri]) /\ rk \in Nat
        /\ rk' = Now.to /\ rk' \in 1..Len(prog[ri]) /\ ri' = ri
    BY <1>6, NowType, BranchesOn DEF RunInv
  <2>3. /\ Pending(prog[ri])[rk' - 1] = Pending(prog[ri])[rk - 1]
        /\ Pending(prog[ri])[rk - 1] > 0 =>
              rk' > rk /\ \A j \in rk..(rk' - 1) : ~Releases(prog[ri], j)
    BY <2>1, <2>2 DEF ArgumentsPassed, Now
  <2>4. Pending(prog[ri])[rk] = Pending(prog[ri])[rk - 1]
    BY <1>2, <2>1, <2>2, PendingIs DEF Now
  <2>5. Len(temps) = Pending(prog[ri])[rk - 1]
    BY <1>6, <2>1, EndEmpty
  <2>6. rk' \in Nat
    BY <2>2
  <2>7. Len(temps) > 0 => rk <= rk' /\ Unreleased(prog, ri, rk, rk')
    BY <2>2, <2>3, <2>5, <2>6 DEF Unreleased
  <2> QED
    BY <1>6, <2>1, <2>2, <2>3, <2>4, <2>6, <2>7, TempsOn
<1>7. CASE RunDefer
  <2>1. There = <<ri, 1>> /\ There' = <<ri + 1, 1>> /\ Doing({"defer"}) /\ temps' = temps
    BY <1>7, DeferPassed DEF RunDefer
  <2>2. rk - 1 = 0 /\ ri' = ri + 1 /\ rk' - 1 = 0
    BY <2>1 DEF There
  <2>3. ri \in 1..Len(prog) /\ Now.op = "defer"
    BY <2>1, NowType
  <2>4. Len(temps) = 0
    BY <1>2, <2>1, <2>2, <2>3, EndEmpty
  <2>5. temps' = <<>>
    BY <2>1, <2>4
  <2>6. ri' <= Len(prog) => ri' \in 1..Len(prog)
    BY <2>2
  <2> QED
    BY <1>1, <1>2, <2>2, <2>5, <2>6
<1>8. CASE RunReturn \/ RunFallOff
  <2>1. temps' = <<>> /\ ri' = Len(prog) + 1
    BY <1>8 DEF RunReturn, RunFallOff, Exit
  <2> QED
    BY <1>1, <2>1
<1>9. CASE RunNextDefer
  <2>1. ri > Len(prog) /\ temps' = temps /\ pending # <<>> /\ rk' = 2 /\ ri' = pending[Len(pending)]
    BY <1>9 DEF RunNextDefer
  <2>2. temps' = <<>>
    BY <2>1 DEF TempsHeld
  <2>3. Len(pending) \in 1..Len(pending) /\ ri' \in 1..Len(prog)
    <3>1. pending \in Seq(1..Len(prog))
      BY DEF RunInv, RunTypeOK
    <3>2. Len(pending) \in 1..Len(pending)
      BY <2>1, <3>1
    <3> QED
      BY <2>1, <3>1, <3>2
  <2>4. prog[ri'][1].op = "defer"
    BY <2>1, <2>3 DEF PlaceInv, DefersOnly, IsDeferStmt
  <2>5. 1 \in 1..Len(prog[ri']) /\ 1 - 1 = 0
    BY <1>2, <2>3
  <2>6. Pending(prog[ri'])[1] = 0
    <3> DEFINE st == prog[ri']
    <3>1. Len(st) \in Nat /\ 1 \in 1..Len(st) /\ st[1].op = "defer" /\ Pending(st)[0] = 0
      BY <1>2, <2>3, <2>4, <2>5
    <3> HIDE DEF st
    <3>2. Pending(st)[1] = Pending(st)[1 - 1]
      BY <3>1, PendingIs
    <3>3. Pending(st)[1] = 0
      BY <3>1, <3>2
    <3> QED
      BY <3>3 DEF st
  <2>7. rk' - 1 = 1
    BY <2>1
  <2> QED
    BY <1>1, <2>2, <2>6, <2>7
<1>10. CASE RunDone
  <2>1. ri > Len(prog) /\ temps' = temps /\ ri' = ri
    BY <1>10 DEF RunDone
  <2>2. temps' = <<>> /\ ~(ri' <= Len(prog))
    BY <2>1 DEF TempsHeld
  <2> QED
    BY <1>1, <2>2
<1> QED
  BY <1>3, <1>4, <1>5, <1>6, <1>7, <1>8, <1>9, <1>10, RunMoves

-----------------------------------------------------------------------------
(* Where a step goes wrong: a handle is read or dereferenced, or an        *)
(* argument, that is no longer valid.                                      *)
LEMMA StaleStep ==
    ASSUME RunInv, RunNext, NoStaleReference, ~NoStaleReference'
    PROVE  \/ \E n \in Names :
                 Doing({"use", "field"}) /\ Now.name = n /\ ~slot[n].ref.valid
           \/ Doing({"call"}) /\ \E i \in (Len(temps) - Now.to + 1)..Len(temps) : ~temps[i].valid
<1>1. "stale" \notin faults /\ "stale" \in faults'
  BY DEF NoStaleReference
<1>2. \A os : Doing(os) => Now.op \in os /\ Now.name \in Names /\ Now \in Step
  BY NowType DEF Step
<1>3. \A ks : Fault(ks) => "stale" \in ks
  BY <1>1 DEF Fault
<1>4. \A n : "stale" \notin BorrowFaults(n)
  BY DEF BorrowFaults
<1>5. CASE RunUse
  <2> DEFINE s == slot[Now.name]
  <2>1. Doing({"use"}) /\ ~s.ref.valid
    BY <1>3, <1>5 DEF RunUse
  <2> QED
    BY <1>2, <2>1 DEF Doing
<1>6. CASE RunField
  <2>1. Doing({"field"}) /\ IsRef(slot[Now.name].type)
    BY <1>3, <1>4, <1>6 DEF RunField
  <2>2. Fault({k \in {"stale"} : ~slot[Now.name].ref.valid})
    BY <1>6, <2>1 DEF RunField
  <2>3. ~slot[Now.name].ref.valid
    BY <1>3, <2>2
  <2> QED
    BY <1>2, <2>1, <2>3 DEF Doing
<1>7. CASE RunCall
  <2> DEFINE rest == Len(temps) - Now.to
  <2>1. Doing({"call"}) /\ \E i \in (rest + 1)..Len(temps) : ~temps[i].valid
    BY <1>3, <1>7 DEF RunCall
  <2>2. PICK i \in (rest + 1)..Len(temps) : ~temps[i].valid
    BY <2>1
  <2> QED
    BY <2>1, <2>2
<1>8. CASE RunTransfer
  <2>1. \E n : Fault({k \in {"afterMove"} : slot[n].value = "gone"})
    BY <1>1, <1>8 DEF RunTransfer
  <2> QED
    BY <1>3, <2>1
<1>9. CASE RunRef \/ RunLetRef
  BY <1>3, <1>4, <1>9 DEF RunRef, RunLetRef
<1>10. faults' # faults
  BY <1>1
<1> QED
  BY <1>5, <1>6, <1>7, <1>8, <1>9, <1>10 DEF RunNext, RunAssign, RunLet, RunSplit, RunJump,
     RunBack, RunDefer, RunMark, RunReturn, RunFallOff, RunNextDefer, RunDone, Exit

LEMMA RunFollowInv == FollowInv /\ Run => FollowInv'
<1> SUFFICES ASSUME FollowInv, RunNext, checked, UNCHANGED vars PROVE FollowInv'
  BY DEF Run
<1>1. OwnInv'
  BY RunOwnInv DEF FollowInv, Run
<1>2. RefInv'
  BY NextRefInv DEF FollowInv
<1>3. PlainSlots' /\ HandleSlots' /\ TempsHeld'
  BY NextPlainSlots, NextHandleSlots, NextTempsHeld
<1>4. NoStaleReference'
  <2> SUFFICES ASSUME ~NoStaleReference' PROVE FALSE
    OBVIOUS
  <2> RunInv /\ PlainSlots /\ NoStaleReference
    BY FollowFacts
  <2>1. CASE \E n \in Names : Doing({"use", "field"}) /\ Now.name = n /\ ~slot[n].ref.valid
    <3>1. PICK n \in Names : Doing({"use", "field"}) /\ Now.name = n /\ ~slot[n].ref.valid
      BY <2>1
    <3>2. n \in Handles(prog)
      BY <3>1 DEF PlainSlots, NoRef
    <3> QED
      BY <3>1, <3>2, HandleRead DEF HandleHolds
  <2>2. CASE Doing({"call"}) /\ \E i \in (Len(temps) - Now.to + 1)..Len(temps) : ~temps[i].valid
    <3>1. Now.op = "call" /\ Now \in Step /\ ri \in 1..Len(prog) /\ rk \in 1..Len(prog[ri])
      BY <2>2, NowType
    <3>2. /\ Len(temps) = Pending(prog[ri])[rk - 1] /\ Len(temps) \in Nat
          /\ \A i \in 1..Len(temps) : TempHolds(i, There)
      BY <2>2, <3>1, EndEmpty
    <3>3. Now.to \in Nat /\ Now.to <= Len(temps)
      BY <3>1, <3>2, FollowFacts DEF ArgumentsPassed, Now, Step
    <3>4. PICK i \in (Len(temps) - Now.to + 1)..Len(temps) : ~temps[i].valid
      BY <2>2
    <3>5. i \in 1..Len(temps)
      BY <3>2, <3>3, <3>4
    <3> QED
      BY <3>2, <3>4, <3>5 DEF TempHolds
  <2> QED
    BY <2>1, <2>2, StaleStep
<1> QED
  BY <1>1, <1>2, <1>3, <1>4 DEF FollowInv

LEMMA NextFollowInv == FollowInv /\ [CRNext]_crVars => FollowInv'
<1> SUFFICES ASSUME FollowInv, [CRNext]_crVars PROVE FollowInv'
  OBVIOUS
<1>1. OwnInv' /\ RefInv' /\ prog' = prog
  <2>1. [Next]_vars
    BY DEF CRNext, Check, Launch, Run, Over, crVars, vars
  <2> QED
    BY <2>1, NextOwnInv, NextRefInv, BodyKept DEF FollowInv, OwnInv, CheckInv
<1>2. CASE Run
  BY <1>2, RunFollowInv
<1>3. CASE UNCHANGED <<ri, rk, slot, temps, faults>> /\ (mode' = mode \/ mode = "idle")
  <2>1. There' = There /\ (Leaving' <=> Leaving)
    BY <1>1, <1>3 DEF There, Leaving, Now
  <2>2. PlainSlots' /\ NoStaleReference'
    BY <1>1, <1>3 DEF FollowInv, PlainSlots, NoStaleReference
  <2>3. TempsHeld'
    BY <1>1, <1>3, <2>1 DEF FollowInv, TempsHeld, TempHolds
  <2>4. HandleSlots'
    <3>1. CASE mode' = mode
      BY <1>1, <1>3, <2>1, <3>1 DEF FollowInv, HandleSlots, HandleHolds
    <3>2. CASE mode = "idle"
      <4>1. There = <<1, 1>> /\ prog \in Programs
        BY <3>2, FollowFacts DEF There, RunInv, Cursor
      <4>2. \A b \in Steps(prog) : ~Before(b, There')
        BY <2>1, <4>1, StepFacts DEF Before
      <4> QED
        BY <1>1, <4>2 DEF HandleSlots, Between
    <3> QED
      BY <1>3, <3>1, <3>2
  <2> QED
    BY <1>1, <2>2, <2>3, <2>4 DEF FollowInv
<1>4. Launch => mode = "idle" /\ UNCHANGED <<ri, rk, slot, temps, faults>>
  BY DEF Launch
<1>5. Check \/ Over \/ UNCHANGED crVars => mode' = mode /\ UNCHANGED <<ri, rk, slot, temps, faults>>
  BY DEF Check, Over, crVars, runVars
<1> QED
  BY <1>2, <1>3, <1>4, <1>5 DEF CRNext

(* "Borrow rules on references" (types.cc:67-74): in a run of a body the   *)
(* checker accepts no reference is dereferenced, copied or passed to a     *)
(* call after the value it is on was stored to, moved away or borrowed in  *)
(* conflict - whatever branches and loops the run takes, for every set of  *)
(* bodies that keep to the positions the checker follows (Tracked) and in  *)
(* which it sees every use of a reference (Followed); each part of those   *)
(* hypotheses leaves out bodies the checker accepts and that go wrong.     *)
THEOREM ReferencesFollowed ==
    ASSUME \A p \in Programs : Tracked(p) /\ Followed(p)
    PROVE  CRSpec => []NoStaleReference
<1>1. CRInit => FollowInv
  <2> SUFFICES ASSUME CRInit PROVE FollowInv
    OBVIOUS
  <2>1. Init /\ prog \in Programs /\ mode = "idle" /\ faults = {} /\ temps = <<>>
        /\ ri = 1 /\ rk = 1 /\ slot = [n \in Names |-> Empty]
    BY DEF CRInit, RunInit, Init
  <2>2. Tracked(prog) /\ Followed(prog)
    BY <2>1
  <2>3. OwnInv /\ RefInv /\ TypeOK
    BY <2>1, <2>2, InitOwnInv, InitRefInv DEF OwnInv, CheckInv
  <2>4. PlainSlots /\ HandleSlots /\ NoStaleReference
    BY <2>1 DEF PlainSlots, HandleSlots, NoStaleReference, Empty, IsRef
  <2>5. TempsHeld
    <3>1. CASE ri <= Len(prog)
      <4>1. 1 \in 1..Len(prog) /\ rk - 1 = 0
        BY <2>1, <2>3, <3>1 DEF TypeOK
      <4>2. Pending(prog[1])[0] = 0
        BY <2>1, <2>3, <4>1, BodyFacts, PendingIs
      <4> QED
        BY <2>1, <3>1, <4>1, <4>2 DEF TempsHeld
    <3>2. CASE ~(ri <= Len(prog))
      BY <2>1, <3>2 DEF TempsHeld
    <3> QED
      BY <3>1, <3>2
  <2> QED
    BY <2>3, <2>4, <2>5 DEF FollowInv
<1>2. FollowInv => NoStaleReference
  BY DEF FollowInv
<1> QED
  BY <1>1, <1>2, NextFollowInv, PTL DEF CRSpec

-----------------------------------------------------------------------------
(* The arms of a match.  An arm that covers a value without a guard, or    *)
(* catches all, takes it whatever the guards of the others answer.         *)
LEMMA CoveredTaken ==
    ASSUME NEW ty \in Arms!Types, NEW S, NEW arms \in Seq(S), NEW holds, NEW v,
           \A j \in 1..Len(arms) : Arms!Fits(ty, arms[j]),
           Arms!Inhabits(v, ty), NEW i \in 1..Len(arms),
           \/ Arms!CatchesAll(arms[i])
           \/ ty.kind = "enum" /\ v.tag \in Arms!Covers(arms[i])
           \/ ty.kind = "bool" /\ v \in Arms!Covers(arms[i])
    PROVE  Arms!Takes(arms, i, v, holds)
<1>1. ~Arms!Guarded(arms[i])
  BY DEF Arms!CatchesAll, Arms!Covers
<1>2. CASE Arms!CatchesAll(arms[i])
  BY <1>1, <1>2 DEF Arms!CatchesAll, Arms!Takes, Arms!Matches
<1>3. CASE ty.kind = "enum" /\ v.tag \in Arms!Covers(arms[i])
  <2>1. arms[i].pat \in {"variant", "bool"} /\ v.tag = arms[i].n
    BY <1>3 DEF Arms!Covers, Arms!PatValue
  <2>2. arms[i].pat = "variant"
    BY <1>3, <2>1 DEF Arms!Fits
  <2> QED
    BY <1>1, <2>1, <2>2 DEF Arms!Takes, Arms!Matches
<1>4. CASE ty.kind = "bool" /\ v \in Arms!Covers(arms[i])
  <2>1. arms[i].pat \in {"variant", "bool"} /\ v = arms[i].n
    BY <1>4 DEF Arms!Covers, Arms!PatValue
  <2>2. arms[i].pat = "bool"
    BY <1>4, <2>1 DEF Arms!Fits
  <2> QED
    BY <1>1, <2>1, <2>2 DEF Arms!Takes, Arms!Matches
<1> QED
  BY <1>2, <1>3, <1>4

(* What an accepted match handles, some arm takes.                         *)
LEMMA SomeArmTakes ==
    ASSUME NEW ty \in Arms!Types, NEW S, NEW arms \in Seq(S), NEW holds, NEW v,
           Arms!Accepted(ty, arms), Arms!Inhabits(v, ty)
    PROVE  \E i \in 1..Len(arms) : Arms!Takes(arms, i, v, holds)
<1>1. Len(arms) \in Nat /\ \A j \in 1..Len(arms) : Arms!Fits(ty, arms[j])
  BY DEF Arms!Accepted
<1>2. CASE Arms!SawCatchall(arms, Len(arms) + 1)
  <2>1. PICK i \in 1..Len(arms) : Arms!CatchesAll(arms[i])
    BY <1>1, <1>2 DEF Arms!SawCatchall
  <2> QED
    BY <1>1, <2>1, CoveredTaken
<1>3. CASE ~Arms!SawCatchall(arms, Len(arms) + 1)
  <2>1. \A w \in ty.values : \E i \in 1..Len(arms) : w \in Arms!Covers(arms[i])
    BY <1>1, <1>3 DEF Arms!Accepted, Arms!NotHandled, Arms!Covered
  <2>2. CASE ty.kind = "enum"
    <3>1. v.tag \in ty.values
      BY <2>2 DEF Arms!Inhabits
    <3> QED
      BY <1>1, <2>1, <2>2, <3>1, CoveredTaken
  <2>3. CASE ty.kind = "bool"
    <3>1. v \in ty.values
      BY <2>3 DEF Arms!Inhabits, Arms!Types, Arms!EnumType, Arms!BoolType, Arms!IntType
    <3> QED
      BY <1>1, <2>1, <2>3, <3>1, CoveredTaken
  <2>4. CASE ty.kind = "int"
    <3>1. "others" \in ty.values
      BY <2>4 DEF Arms!Types, Arms!EnumType, Arms!BoolType, Arms!IntType
    <3>2. PICK i \in 1..Len(arms) : "others" \in Arms!Covers(arms[i])
      BY <2>1, <3>1
    <3>3. arms[i].pat \in {"variant", "bool"}
      BY <3>2 DEF Arms!Covers, Arms!PatValue
    <3> QED
      BY <1>1, <2>4, <3>3 DEF Arms!Fits
  <2> QED
    BY <2>2, <2>3, <2>4 DEF Arms!Types, Arms!EnumType, Arms!BoolType, Arms!IntType
<1> QED
  BY <1>2, <1>3

(* What a flagged arm takes, an arm before it takes.                       *)
LEMMA FlaggedTaken ==
    ASSUME NEW ty \in Arms!Types, NEW S, NEW arms \in Seq(S), NEW holds, NEW v,
           \A j \in 1..Len(arms) : Arms!Fits(ty, arms[j]),
           Arms!Inhabits(v, ty), NEW i \in 1..Len(arms),
           Arms!Flagged(arms, i), Arms!Takes(arms, i, v, holds)
    PROVE  \E j \in 1..i - 1 : Arms!Takes(arms, j, v, holds)
<1>1. i \in Nat /\ \A j \in 1..i - 1 : j \in 1..Len(arms)
  OBVIOUS
<1>2. CASE Arms!SawCatchall(arms, i)
  BY <1>1, <1>2, CoveredTaken DEF Arms!SawCatchall
<1>3. CASE Arms!PatValue(arms[i]) \cap Arms!Covered(arms, i) # {}
  <2>1. PICK j \in 1..i - 1 : arms[i].n \in Arms!Covers(arms[j])
    BY <1>3 DEF Arms!PatValue, Arms!Covered
  <2>2. arms[i].pat \in {"variant", "bool"}
    BY <1>3 DEF Arms!PatValue
  <2>3. CASE arms[i].pat = "variant"
    <3>1. ty.kind = "enum" /\ v.tag = arms[i].n
      BY <2>3 DEF Arms!Fits, Arms!Takes, Arms!Matches
    <3> QED
      BY <1>1, <2>1, <3>1, CoveredTaken
  <2>4. CASE arms[i].pat = "bool"
    <3>1. ty.kind = "bool" /\ v = arms[i].n
      BY <2>4 DEF Arms!Fits, Arms!Takes, Arms!Matches
    <3> QED
      BY <1>1, <2>1, <3>1, CoveredTaken
  <2> QED
    BY <2>2, <2>3, <2>4
<1> QED
  BY <1>2, <1>3 DEF Arms!Flagged

(* types.cc:1005, 1095: of a match check_expr accepts, whatever value the  *)
(* scrutinee has and whatever the guards answer, some arm runs, so that    *)
(* the block lower_match ends with is never entered, and the arm that runs *)
(* is none of those warned about as unreachable.                           *)
THEOREM ArmsReached ==
    ASSUME NEW ty \in Arms!Types, NEW S, NEW arms \in Seq(S), Arms!Accepted(ty, arms),
           NEW v, Arms!Inhabits(v, ty), NEW holds \in [1..Len(arms) -> BOOLEAN]
    PROVE  \E i \in 1..Len(arms) : Arms!Runs(arms, i, v, holds) /\ ~Arms!Flagged(arms, i)
<1> DEFINE Taking == {i \in 1..Len(arms) : Arms!Takes(arms, i, v, holds)}
<1>1. Taking \in SUBSET Nat /\ Taking # {}
  BY SomeArmTakes
<1>2. PICK i \in Taking : \A j \in Taking : i <= j
  <2> HIDE DEF Taking
  <2> QED
    BY <1>1, Least
<1>3. \A j \in 1..i - 1 : ~Arms!Takes(arms, j, v, holds)
  BY <1>2
<1>4. ~Arms!Flagged(arms, i)
  BY <1>2, <1>3, FlaggedTaken DEF Arms!Accepted
<1> QED
  BY <1>2, <1>3, <1>4 DEF Arms!Runs
=============================================================================
