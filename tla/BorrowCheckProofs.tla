--------------------------- MODULE BorrowCheckProofs ---------------------------
(***************************************************************************)
(* Proofs about BorrowCheck for every set of names and every set of        *)
(* bodies.                                                                 *)
(***************************************************************************)
EXTENDS BorrowCheck, SequenceTheorems, FiniteSetTheorems, TLAPS

(* The step under the cursor is a step of the body.                        *)
LEMMA CurType ==
    ASSUME TypeOK, NEW ops, At(ops)
    PROVE  Cur \in Step /\ Cur.op \in ops /\ si \in 1..Len(prog) /\ ei \in 1..Len(prog[si])
<1>1. si \in 1..Len(prog)
  BY DEF TypeOK, At, InBody
<1>2. prog[si] \in Seq(Step) \ {<<>>}
  BY <1>1 DEF TypeOK
<1>3. ei \in 1..Len(prog[si])
  BY <1>2 DEF TypeOK, At
<1> QED
  BY <1>1, <1>2, <1>3 DEF At, Cur

(* Moving on keeps the cursor a cursor and the body the body.              *)
LEMMA AfterType ==
    ASSUME TypeOK, After
    PROVE  /\ si' \in Nat \ {0} /\ ei' \in Nat \ {0}
           /\ prog' = prog /\ checked' = checked
  BY DEF TypeOK, After, Within, NextStmt

(* Diagnostics are added, never withdrawn, at the current step.            *)
LEMMA ReportType ==
    ASSUME TypeOK, NEW ks, ks \subseteq Kinds, Report(ks)
    PROVE  errors' \subseteq Kinds \X Nat \X Nat
  BY DEF TypeOK, Report

LEMMA InitTypeOK == Init => TypeOK
<1> SUFFICES ASSUME Init PROVE TypeOK
  OBVIOUS
<1>1. prog \in Seq(Seq(Step) \ {<<>>})
  BY ProgramsAssumption DEF Init
<1>2. scope \in [Names -> Binding]
  BY DEF Init, Binding, Unbound, Types
<1>3. letBorrows \in [Names -> Seq(LetBorrow)]
  BY DEF Init
<1>4. saved \in Seq([name : Names, prev : Binding])
  BY DEF Init
<1>5. anonExcl \in [Names -> BOOLEAN]
  BY Zenon DEF Init
<1>6. /\ anonShared \in [Names -> Nat] /\ loopDepth \in Int /\ errors \subseteq Kinds \X Nat \X Nat
      /\ tracked \subseteq Names
  BY DEF Init
<1>7. si \in Nat \ {0} /\ ei \in Nat \ {0} /\ checked \in BOOLEAN
  <2>1. si = 1 /\ ei = 1
    BY Zenon DEF Init
  <2>2. checked \in BOOLEAN
    BY Zenon DEF Init
  <2>3. si \in Nat \ {0} /\ ei \in Nat \ {0}
    BY <2>1
  <2> QED
    BY <2>2, <2>3, Zenon
<1> QED
  BY <1>1, <1>2, <1>3, <1>4, <1>5, <1>6, <1>7 DEF TypeOK

LEMMA RefErrorsType == \A x, m : RefErrors(x, m) \subseteq Kinds
  BY DEF RefErrors, Kinds

LEMMA AssignErrorsType == \A x : AssignErrors(x) \subseteq Kinds
  BY DEF AssignErrors, Kinds

LEMMA NewBindingType ==
    ASSUME NEW t \in Types, NEW m \in BOOLEAN
    PROVE  NewBinding(t, m) \in Binding
  BY DEF NewBinding, Binding

LEMMA MarkMovedType == ASSUME NEW b \in Binding PROVE MarkMoved(b) \in Binding
  BY DEF MarkMoved, Binding

LEMMA LastAndFront ==
    ASSUME NEW S, NEW s \in Seq(S), s # <<>>
    PROVE  s[Len(s)] \in S /\ SubSeq(s, 1, Len(s) - 1) \in Seq(S)
<1>1. Len(s) \in Nat \ {0} /\ \A i \in 1..Len(s) : s[i] \in S
  OBVIOUS
<1>2. Len(s) \in 1..Len(s) /\ \A i \in 1..(Len(s) - 1) : s[i] \in S
  BY <1>1
<1>3. 1 \in Int /\ Len(s) - 1 \in Int
  BY <1>1
<1> QED
  BY <1>1, <1>2, <1>3, SubSeqProperties

LEMMA NextTypeOK == TypeOK /\ [Next]_vars => TypeOK'
<1> SUFFICES ASSUME TypeOK, [Next]_vars PROVE TypeOK'
  OBVIOUS
<1>1. CASE CheckUse
  <2>1. errors' \subseteq Kinds \X Nat \X Nat
    BY <1>1, ReportType DEF CheckUse, Kinds
  <2> QED
    BY <1>1, <2>1, AfterType DEF CheckUse, borrowVars, TypeOK
<1>2. CASE CheckRef
  <2>1. Cur \in Step
    BY <1>2, CurType DEF CheckRef
  <2>2. errors' \subseteq Kinds \X Nat \X Nat
    BY <1>2, ReportType, RefErrorsType DEF CheckRef, Kinds
  <2>3. anonShared' \in [Names -> Nat] /\ anonExcl' \in [Names -> BOOLEAN]
    <3>1. Cur.name \in Names
      BY <2>1 DEF Step
    <3>2. \/ anonShared' = anonShared
          \/ anonShared' = [anonShared EXCEPT ![Cur.name] = @ + 1]
      BY <1>2 DEF CheckRef
    <3>5. anonExcl' = anonExcl \/ anonExcl' = [anonExcl EXCEPT ![Cur.name] = TRUE]
      BY <1>2 DEF CheckRef
    <3>6. anonShared \in [Names -> Nat]
      BY DEF TypeOK
    <3>3. anonShared' \in [Names -> Nat]
      BY <3>1, <3>2, <3>6
    <3>4. anonExcl' \in [Names -> BOOLEAN]
      BY <3>1, <3>5, Zenon DEF TypeOK
    <3> QED
      BY <3>3, <3>4
  <2>4. tracked' \subseteq Names
    BY <1>2, <2>1 DEF CheckRef, TypeOK, Step
  <2> QED
    BY <1>2, <2>2, <2>3, <2>4, AfterType DEF CheckRef, TypeOK
<1>3. CASE MaybeMove
  <2>1. Cur \in Step
    BY <1>3, CurType DEF MaybeMove
  <2>2. errors' \subseteq Kinds \X Nat \X Nat
    BY <1>3, ReportType DEF MaybeMove, Kinds, TypeOK
  <2>3. scope' \in [Names -> Binding]
    <3>1. Cur.name \in Names
      BY <2>1 DEF Step
    <3>2. MarkMoved(scope[Cur.name]) \in Binding
      BY <3>1, MarkMovedType DEF TypeOK
    <3>3. scope' = scope \/ scope' = [scope EXCEPT ![Cur.name] = MarkMoved(@)]
      BY <1>3 DEF MaybeMove
    <3> QED
      BY <3>1, <3>2, <3>3 DEF TypeOK
  <2> QED
    BY <1>3, <2>2, <2>3, AfterType DEF MaybeMove, borrowVars, TypeOK
<1>4. CASE CheckAssign
  <2>1. errors' \subseteq Kinds \X Nat \X Nat
    BY <1>4, ReportType, AssignErrorsType DEF CheckAssign, Kinds
  <2> QED
    BY <1>4, <2>1, AfterType DEF CheckAssign, borrowVars, TypeOK
<1>5. CASE CheckFieldAssign
  <2>1. errors' \subseteq Kinds \X Nat \X Nat
    BY <1>5, ReportType, AssignErrorsType DEF CheckFieldAssign, Kinds
  <2> QED
    BY <1>5, <2>1, AfterType DEF CheckFieldAssign, borrowVars, TypeOK
<1>6. CASE CheckLet
  <2>1. Cur \in Step
    BY <1>6, CurType DEF CheckLet
  <2>2. NewBinding(Cur.type, Cur.mut) \in Binding
    BY <2>1, NewBindingType DEF Step
  <2>3. scope' \in [Names -> Binding]
    BY <1>6, <2>1, <2>2 DEF CheckLet, TypeOK, Step
  <2> QED
    BY <1>6, <2>3, AfterType DEF CheckLet, ReleaseAnonBorrows, TypeOK
<1>7. CASE CheckLetRef
  <2>1. Cur \in Step /\ si \in 1..Len(prog)
    BY <1>7, CurType DEF CheckLetRef
  <2>2. errors' \subseteq Kinds \X Nat \X Nat
    BY <1>7, ReportType, RefErrorsType DEF CheckLetRef, Kinds
  <2>3. NewBinding(IF Cur.excl THEN "refmut" ELSE "ref", Cur.mut) \in Binding
    BY <2>1, NewBindingType DEF Step, Types
  <2>4. scope' \in [Names -> Binding]
    BY <1>7, <2>1, <2>3 DEF CheckLetRef, TypeOK, Step
  <2>5. UseWindow(Cur.name) \in SUBSET (Nat \ {0})
    BY <2>1 DEF UseWindow, TypeOK
  <2>6. [handle |-> Cur.name, excl |-> Cur.excl, uses |-> UseWindow(Cur.name)] \in LetBorrow
    BY <2>1, <2>5 DEF LetBorrow, Step
  <2>7. letBorrows' \in [Names -> Seq(LetBorrow)]
    <3> DEFINE lb == [handle |-> Cur.name, excl |-> Cur.excl, uses |-> UseWindow(Cur.name)]
    <3>1. Cur.target \in Names
      BY <2>1 DEF Step
    <3>2. Append(letBorrows[Cur.target], lb) \in Seq(LetBorrow)
      BY <2>6, <3>1 DEF TypeOK
    <3>3. letBorrows' = letBorrows
          \/ letBorrows' = [letBorrows EXCEPT ![Cur.target] = Append(@, lb)]
      BY <1>7 DEF CheckLetRef
    <3> HIDE DEF lb
    <3> QED
      BY <3>1, <3>2, <3>3 DEF TypeOK
  <2>8. tracked' \subseteq Names
    BY <1>7, <2>1 DEF CheckLetRef, TypeOK, Step
  <2> QED
    BY <1>7, <2>2, <2>4, <2>7, <2>8, AfterType DEF CheckLetRef, ReleaseAnonBorrows, TypeOK
<1>8. CASE BindPattern
  <2>1. Cur \in Step
    BY <1>8, CurType DEF BindPattern
  <2>2. NewBinding(Cur.type, FALSE) \in Binding
    BY <2>1, NewBindingType DEF Step
  <2>3. scope' \in [Names -> Binding]
    BY <1>8, <2>1, <2>2 DEF BindPattern, TypeOK, Step
  <2>4. saved' \in Seq([name : Names, prev : Binding])
    <3>1. Cur.name \in Names
      BY <2>1 DEF Step
    <3>2. [name |-> Cur.name, prev |-> scope[Cur.name]] \in [name : Names, prev : Binding]
      BY <3>1 DEF TypeOK
    <3> QED
      BY <1>8, <3>2 DEF BindPattern, TypeOK
  <2> QED
    BY <1>8, <2>3, <2>4, AfterType DEF BindPattern, borrowVars, TypeOK
<1>9. CASE UnbindPattern
  <2>1. /\ saved[Len(saved)] \in [name : Names, prev : Binding]
        /\ SubSeq(saved, 1, Len(saved) - 1) \in Seq([name : Names, prev : Binding])
    BY <1>9, LastAndFront DEF UnbindPattern, TypeOK
  <2>2. scope' \in [Names -> Binding]
    BY <1>9, <2>1 DEF UnbindPattern, TypeOK
  <2>3. saved' \in Seq([name : Names, prev : Binding])
    BY <1>9, <2>1 DEF UnbindPattern, TypeOK
  <2> QED
    BY <1>9, <2>2, <2>3, AfterType DEF UnbindPattern, borrowVars, TypeOK
<1>10. CASE EnterLoop
  BY <1>10, AfterType DEF EnterLoop, borrowVars, TypeOK
<1>11. CASE LeaveLoop
  BY <1>11, AfterType DEF LeaveLoop, borrowVars, TypeOK
<1>12. CASE CheckBreak
  <2>1. errors' \subseteq Kinds \X Nat \X Nat
    BY <1>12, ReportType DEF CheckBreak, Kinds
  <2> QED
    BY <1>12, <2>1, AfterType DEF CheckBreak, borrowVars, TypeOK
<1>13. CASE CheckDefer
  <2>1. errors' \subseteq Kinds \X Nat \X Nat
    BY <1>13, ReportType DEF CheckDefer, Kinds
  <2> QED
    BY <1>13, <2>1, AfterType DEF CheckDefer, borrowVars, TypeOK
<1>14. CASE StmtEnd
  BY <1>14, AfterType DEF StmtEnd, ReleaseAnonBorrows, TypeOK
<1>15. CASE PassMark
  BY <1>15, AfterType DEF PassMark, borrowVars, TypeOK
<1>16. CASE FinishFunc
  <2>1. Unpaired \subseteq Nat
    BY DEF Unpaired, TypeOK
  <2>2. errors' \subseteq Kinds \X Nat \X Nat
    BY <1>16, <2>1 DEF FinishFunc, TypeOK, Kinds
  <2> QED
    BY <1>16, <2>2 DEF FinishFunc, borrowVars, TypeOK
<1>17. CASE Returned \/ UNCHANGED vars
  BY <1>17 DEF Returned, vars, TypeOK
<1> QED
  BY <1>1, <1>2, <1>3, <1>4, <1>5, <1>6, <1>7, <1>8, <1>9, <1>10, <1>11,
     <1>12, <1>13, <1>14, <1>15, <1>16, <1>17 DEF Next

(* The checker's state keeps its shape whatever the bodies are.            *)
THEOREM TypeCorrect == Spec => []TypeOK
  BY InitTypeOK, NextTypeOK, PTL DEF Spec
-----------------------------------------------------------------------------
(* Exclusivity.  A borrow that is not live stays so, since the cursor only *)
(* moves forward; a borrow is added only when RefErrors is empty.          *)

(* The cursor never moves back, in a step or over a stutter.               *)
LEMMA LiveShrinks ==
    ASSUME TypeOK, si' \in Nat, si' >= si,
           NEW x \in Names, letBorrows'[x] = letBorrows[x],
           NEW i, LiveAt(x, i)'
    PROVE  LiveAt(x, i)
<1>1. i \in 1..Len(letBorrows[x]) /\ Live(letBorrows[x][i])'
  BY DEF LiveAt
<1>2. letBorrows[x][i] \in LetBorrow
  BY <1>1 DEF TypeOK
<1>3. PICK j \in letBorrows[x][i].uses : si' <= j
  BY <1>1 DEF LiveAt, Live
<1>4. j \in Nat /\ si \in Nat
  BY <1>2, <1>3 DEF LetBorrow, TypeOK
<1>5. si <= j
  BY <1>3, <1>4
<1> QED
  BY <1>1, <1>3, <1>5 DEF LiveAt, Live

(* Every step moves the cursor forward and withdraws no diagnostic.        *)
LEMMA Forward ==
    ASSUME TypeOK, [Next]_vars
    PROVE  si' \in Nat /\ si' >= si /\ errors \subseteq errors'
<1>1. si \in Nat
  BY DEF TypeOK
<1>2. CASE After
  <2>1. si' \in Nat /\ si' >= si
    BY <1>1, <1>2 DEF After, Within, NextStmt
  <2>2. errors \subseteq errors'
    BY <1>2 DEF Next, vars, Report, CheckUse, CheckRef, MaybeMove, CheckAssign,
       CheckFieldAssign, CheckLet, CheckLetRef, BindPattern, UnbindPattern,
       EnterLoop, LeaveLoop, CheckBreak, CheckDefer, StmtEnd, PassMark, FinishFunc,
       Returned
  <2> QED
    BY <2>1, <2>2
<1>3. CASE FinishFunc
  BY <1>1, <1>3 DEF FinishFunc
<1>4. CASE Returned \/ UNCHANGED vars
  BY <1>1, <1>4 DEF Returned, vars
<1> QED
  BY <1>2, <1>3, <1>4 DEF Next, CheckUse, CheckRef, MaybeMove, CheckAssign,
     CheckFieldAssign, CheckLet, CheckLetRef, BindPattern, UnbindPattern,
     EnterLoop, LeaveLoop, CheckBreak, CheckDefer, StmtEnd, PassMark

(* A step that adds no borrow leaves exclusive borrows alone.              *)
LEMMA NoNewBorrow ==
    ASSUME TypeOK, [Next]_vars, NEW x \in Names, AloneIfExclusive(x),
           letBorrows'[x] = letBorrows[x],
           \/ anonShared'[x] = anonShared[x] /\ anonExcl'[x] = anonExcl[x]
           \/ anonShared'[x] = 0 /\ anonExcl'[x] = FALSE
    PROVE  AloneIfExclusive(x)'
<1>1. \A i : LiveAt(x, i)' => LiveAt(x, i)
  BY Forward, LiveShrinks
<1> QED
  BY <1>1 DEF AloneIfExclusive

(* No diagnostic for a new borrow means that nothing it conflicts with is  *)
(* live.                                                                   *)
LEMMA NoRefErrors ==
    ASSUME NEW x, NEW m \in BOOLEAN, RefErrors(x, m) = {}
    PROVE  ~EffExcl(x) /\ (m => ~EffShared(x))
<1>1. m => ~EffShared(x)
  BY DEF RefErrors
<1>2. ~EffExcl(x)
  BY <1>1 DEF RefErrors
<1> QED
  BY <1>1, <1>2

LEMMA NoReport ==
    ASSUME NEW ks, Report(ks), errors' = {}
    PROVE  ks = {} /\ errors = {}
  BY DEF Report

LEMMA RefExclusive ==
    ASSUME TypeOK, ExclusiveExcludesOthers, CheckRef, errors' = {}, NEW x \in Names
    PROVE  AloneIfExclusive(x)'
<1> DEFINE t == Cur.name
<1>0. [Next]_vars /\ Cur \in Step
  BY CurType DEF CheckRef, Next
<1>1. errors = {} /\ AloneIfExclusive(x)
  BY <1>0, Forward DEF ExclusiveExcludesOthers
<1>2. CASE x # t \/ ~scope[t].bound
  <2>1. anonShared'[x] = anonShared[x] /\ anonExcl'[x] = anonExcl[x]
    BY <1>2 DEF CheckRef, TypeOK
  <2> QED
    BY <1>0, <1>1, <2>1, NoNewBorrow DEF CheckRef
<1>3. CASE x = t /\ scope[t].bound
  <2>1. Cur.excl \in BOOLEAN
    BY <1>0 DEF Step
  <2>2. RefErrors(x, Cur.excl) = {}
    BY <1>3, NoReport DEF CheckRef
  <2>3. ~EffExcl(x) /\ (Cur.excl => ~EffShared(x))
    BY <2>1, <2>2, NoRefErrors
  <2>4. \A i : LiveAt(x, i)' => LiveAt(x, i)
    BY <1>0, Forward, LiveShrinks DEF CheckRef
  <2>5. \A i : ~(LiveAt(x, i) /\ letBorrows[x][i].excl)
    BY <2>3 DEF EffExcl, LiveAt
  <2>6. ~anonExcl[x]
    BY <2>3 DEF EffExcl
  <2>7. CASE Cur.excl
    <3>1. \A i : ~LiveAt(x, i)
      BY <2>3, <2>5, <2>7 DEF EffShared, LiveAt
    <3>2. anonShared[x] = 0
      BY <2>3, <2>7 DEF EffShared, TypeOK
    <3>3. anonShared'[x] = 0
      BY <3>2, <2>7 DEF CheckRef
    <3> QED
      BY <2>4, <3>1, <3>3 DEF AloneIfExclusive
  <2>8. CASE ~Cur.excl
    <3>1. anonExcl'[x] = anonExcl[x]
      BY <2>8 DEF CheckRef
    <3>2. letBorrows' = letBorrows
      BY DEF CheckRef
    <3> QED
      BY <2>4, <2>5, <2>6, <3>1, <3>2 DEF AloneIfExclusive
  <2> QED
    BY <2>7, <2>8
<1> QED
  BY <1>2, <1>3

LEMMA LetRefExclusive ==
    ASSUME TypeOK, ExclusiveExcludesOthers, CheckLetRef, errors' = {}, NEW x \in Names
    PROVE  AloneIfExclusive(x)'
<1> DEFINE t == Cur.target
           lb == [handle |-> Cur.name, excl |-> Cur.excl, uses |-> UseWindow(Cur.name)]
<1>0. [Next]_vars /\ Cur \in Step
  BY CurType DEF CheckLetRef, Next
<1>1. errors = {} /\ AloneIfExclusive(x)
  BY <1>0, Forward DEF ExclusiveExcludesOthers
<1>2. anonShared'[x] = 0 /\ anonExcl'[x] = FALSE
  BY DEF CheckLetRef, ReleaseAnonBorrows
<1>3. CASE letBorrows'[x] = letBorrows[x]
  BY <1>0, <1>1, <1>2, <1>3, NoNewBorrow
<1>4. CASE letBorrows'[x] # letBorrows[x]
  <2>0. scope[t].bound
    BY NoReport DEF CheckLetRef
  <2>1. x = t /\ scope[t].bound /\ letBorrows'[x] = Append(letBorrows[x], lb)
    BY <1>4, <2>0 DEF CheckLetRef, TypeOK
  <2>2. Cur.excl \in BOOLEAN
    BY <1>0 DEF Step
  <2>3. RefErrors(x, Cur.excl) = {}
    BY <2>1, NoReport DEF CheckLetRef
  <2>4. ~EffExcl(x) /\ (Cur.excl => ~EffShared(x))
    BY <2>2, <2>3, NoRefErrors
  <2>5. letBorrows[x] \in Seq(LetBorrow)
    BY DEF TypeOK
  <2>6. /\ Len(letBorrows'[x]) = Len(letBorrows[x]) + 1
        /\ \A i \in 1..Len(letBorrows[x]) : letBorrows'[x][i] = letBorrows[x][i]
        /\ letBorrows'[x][Len(letBorrows[x]) + 1] = lb
    BY <2>1, <2>5
  <2> DEFINE n == Len(letBorrows[x])
  <2>7. n \in Nat
    BY <2>5
  <2>8. \A i \in 1..n : LiveAt(x, i)' => LiveAt(x, i)
    <3> SUFFICES ASSUME NEW i \in 1..n, LiveAt(x, i)' PROVE LiveAt(x, i)
      OBVIOUS
    <3>1. PICK j \in letBorrows[x][i].uses : si' <= j
      BY <2>6 DEF LiveAt, Live
    <3>2. letBorrows[x][i] \in LetBorrow
      BY <2>5
    <3>3. j \in Nat /\ si \in Nat /\ si' \in Nat /\ si' >= si
      BY <1>0, <3>1, <3>2, Forward DEF LetBorrow, TypeOK
    <3>4. si <= j
      BY <3>1, <3>3
    <3> QED
      BY <3>1, <3>4 DEF LiveAt, Live
  <2>9. \A i \in 1..n : ~(LiveAt(x, i) /\ letBorrows[x][i].excl)
    BY <2>4 DEF EffExcl
  <2>10. \A i : LiveAt(x, i)' => i \in 1..n \/ i = n + 1
    BY <2>6, <2>7 DEF LiveAt
  <2>11. \A i : LiveAt(x, i)' /\ letBorrows'[x][i].excl => i = n + 1 /\ Cur.excl
    BY <2>6, <2>8, <2>9, <2>10
  <2>12. Cur.excl => \A i : LiveAt(x, i)' => i = n + 1
    <3>1. Cur.excl => \A i \in 1..n : ~LiveAt(x, i)
      BY <2>4, <2>9 DEF EffShared
    <3> QED
      BY <2>8, <2>10, <3>1
  <2>13. \A i, j : LiveAt(x, i)' /\ letBorrows'[x][i].excl /\ LiveAt(x, j)' => j = i
    BY <2>11, <2>12
  <2> QED
    BY <1>2, <2>13 DEF AloneIfExclusive
<1> QED
  BY <1>3, <1>4

LEMMA NextExclusive ==
    TypeOK /\ ExclusiveExcludesOthers /\ [Next]_vars => ExclusiveExcludesOthers'
<1> SUFFICES ASSUME TypeOK, ExclusiveExcludesOthers, [Next]_vars, errors' = {},
                    NEW x \in Names
             PROVE  AloneIfExclusive(x)'
  BY DEF ExclusiveExcludesOthers
<1>1. AloneIfExclusive(x)
  BY Forward DEF ExclusiveExcludesOthers
<1>2. CASE CheckRef
  BY <1>2, RefExclusive
<1>3. CASE CheckLetRef
  BY <1>3, LetRefExclusive
<1>4. CASE CheckLet \/ StmtEnd
  <2>1. letBorrows'[x] = letBorrows[x] /\ anonShared'[x] = 0 /\ anonExcl'[x] = FALSE
    BY <1>4 DEF CheckLet, StmtEnd, ReleaseAnonBorrows
  <2> QED
    BY <1>1, <2>1, NoNewBorrow
<1>5. CASE UNCHANGED borrowVars
  <2>1. /\ letBorrows'[x] = letBorrows[x]
        /\ anonShared'[x] = anonShared[x] /\ anonExcl'[x] = anonExcl[x]
    BY <1>5 DEF borrowVars
  <2> QED
    BY <1>1, <2>1, NoNewBorrow
<1> QED
  BY <1>2, <1>3, <1>4, <1>5 DEF Next, vars, borrowVars, CheckUse, MaybeMove,
     CheckAssign, CheckFieldAssign, BindPattern, UnbindPattern, EnterLoop,
     LeaveLoop, CheckBreak, CheckDefer, PassMark, FinishFunc, Returned

LEMMA InitExclusive == Init => ExclusiveExcludesOthers
<1> SUFFICES ASSUME Init, NEW x \in Names PROVE AloneIfExclusive(x)
  BY DEF ExclusiveExcludesOthers
<1>1. ~anonExcl[x]
  BY Zenon DEF Init
<1>2. letBorrows[x] = <<>>
  BY Zenon DEF Init
<1> QED
  BY <1>1, <1>2 DEF AloneIfExclusive

(* "exclusive excludes all others" (types.cc:74), for every body: in a     *)
(* walk without a diagnostic a live exclusive borrow is its binding's only *)
(* live borrow.                                                            *)
THEOREM ExclusiveBorrows == Spec => []ExclusiveExcludesOthers
  BY InitTypeOK, NextTypeOK, InitExclusive, NextExclusive, PTL DEF Spec

-----------------------------------------------------------------------------
(* Stores, moves and exclusive borrows respect let-borrows.  The inductive *)
(* invariant ties the text of the body to the let pool: a let-borrow that  *)
(* the walk has passed without a diagnostic is registered, with a window   *)
(* that holds its own statement and every later mention of its handle.     *)

Covered(j, k) ==
    \E i \in 1..Len(letBorrows[prog[j][k].target]) :
        LET lb == letBorrows[prog[j][k].target][i] IN
        /\ lb.handle = prog[j][k].name /\ lb.excl = prog[j][k].excl
        /\ j \in lb.uses
        /\ \A m \in 1..Len(prog) :
              m > j /\ Mentions(prog[m], prog[j][k].name) => m \in lb.uses

Passed(j, k) == j < si \/ (j = si /\ k < ei)

Registered ==
    errors = {} =>
        \A j \in 1..Len(prog) : \A k \in 1..Len(prog[j]) :
            Passed(j, k) /\ prog[j][k].op = "letref" => Covered(j, k)

(* A step passes exactly the step under the cursor.                        *)
LEMMA PassesCur ==
    ASSUME TypeOK, After, si \in 1..Len(prog), ei \in 1..Len(prog[si]),
           NEW j \in 1..Len(prog), NEW k \in 1..Len(prog[j]), Passed(j, k)'
    PROVE  Passed(j, k) \/ (j = si /\ k = ei)
<1>1. si \in Nat /\ ei \in Nat /\ j \in Nat /\ k \in Nat
  BY DEF TypeOK
<1>2. CASE Within
  BY <1>1, <1>2 DEF Within, Passed
<1>3. CASE ~(ei < Len(prog[si])) /\ NextStmt
  <2>1. Len(prog[si]) = ei
    <3>1. prog[si] \in Seq(Step) \ {<<>>}
      BY DEF TypeOK
    <3>2. Len(prog[si]) \in Nat
      BY <3>1
    <3> QED
      BY <1>1, <1>3, <3>2
  <2> QED
    BY <1>1, <1>3, <2>1 DEF NextStmt, Passed
<1> QED
  BY <1>2, <1>3 DEF After

(* A let pool only grows.                                                  *)
LEMMA PoolGrows ==
    ASSUME TypeOK, [Next]_vars, NEW x \in Names
    PROVE  /\ Len(letBorrows[x]) \in Nat /\ Len(letBorrows'[x]) >= Len(letBorrows[x])
           /\ Len(letBorrows'[x]) \in Nat
           /\ \A i \in 1..Len(letBorrows[x]) : letBorrows'[x][i] = letBorrows[x][i]
<1>1. letBorrows[x] \in Seq(LetBorrow)
  BY DEF TypeOK
<1>2. CASE letBorrows' = letBorrows
  BY <1>1, <1>2
<1>3. CASE CheckLetRef
  <2> DEFINE lb == [handle |-> Cur.name, excl |-> Cur.excl, uses |-> UseWindow(Cur.name)]
  <2>1. letBorrows'[x] = letBorrows[x] \/ letBorrows'[x] = Append(letBorrows[x], lb)
    BY <1>3 DEF CheckLetRef, TypeOK
  <2> HIDE DEF lb
  <2> QED
    BY <1>1, <2>1
<1> QED
  BY <1>2, <1>3 DEF Next, vars, borrowVars, CheckUse, CheckRef, MaybeMove, CheckLet,
     CheckAssign, CheckFieldAssign, BindPattern, UnbindPattern, EnterLoop, StmtEnd,
     LeaveLoop, CheckBreak, CheckDefer, PassMark, FinishFunc, Returned

LEMMA CoveredStays ==
    ASSUME TypeOK, [Next]_vars, prog' = prog,
           NEW j \in 1..Len(prog), NEW k \in 1..Len(prog[j]), Covered(j, k)
    PROVE  Covered(j, k)'
<1> DEFINE x == prog[j][k].target
<1>1. x \in Names
  <2>1. prog[j] \in Seq(Step) \ {<<>>}
    BY DEF TypeOK
  <2>2. prog[j][k] \in Step
    BY <2>1
  <2> QED
    BY <2>2 DEF Step
<1>2. PICK i \in 1..Len(letBorrows[x]) :
          /\ letBorrows[x][i].handle = prog[j][k].name /\ letBorrows[x][i].excl = prog[j][k].excl
          /\ j \in letBorrows[x][i].uses
          /\ \A m \in 1..Len(prog) :
                m > j /\ Mentions(prog[m], prog[j][k].name) => m \in letBorrows[x][i].uses
  BY DEF Covered
<1>3. i \in 1..Len(letBorrows'[x]) /\ letBorrows'[x][i] = letBorrows[x][i]
  BY <1>1, <1>2, PoolGrows
<1> QED
  BY <1>2, <1>3 DEF Covered

LEMMA LetRefCovered ==
    ASSUME TypeOK, CheckLetRef, errors' = {}, NEW j, NEW k, j = si, k = ei
    PROVE  Covered(j, k)'
<1> DEFINE x == Cur.target
           lb == [handle |-> Cur.name, excl |-> Cur.excl, uses |-> UseWindow(Cur.name)]
<1>1. Cur \in Step /\ si \in 1..Len(prog) /\ ei \in 1..Len(prog[si])
  BY CurType DEF CheckLetRef
<1>2. scope[x].bound
  BY NoReport DEF CheckLetRef
<1>3. x \in Names
  BY <1>1 DEF Step
<1>4. letBorrows'[x] = Append(letBorrows[x], lb)
  BY <1>2, <1>3 DEF CheckLetRef, TypeOK
<1>5. letBorrows[x] \in Seq(LetBorrow)
  BY <1>3 DEF TypeOK
<1>6. PICK i \in 1..Len(letBorrows'[x]) : letBorrows'[x][i] = lb
  BY <1>4, <1>5
<1>7. lb.uses = UseWindow(Cur.name) /\ lb.handle = Cur.name /\ lb.excl = Cur.excl
  OBVIOUS
<1>8. prog' = prog /\ prog[j][k] = Cur
  BY AfterType DEF CheckLetRef, Cur
<1> HIDE DEF lb
<1> QED
  BY <1>6, <1>7, <1>8 DEF Covered, UseWindow

LEMMA NextRegistered == TypeOK /\ Registered /\ [Next]_vars => Registered'
<1> SUFFICES ASSUME TypeOK, Registered, [Next]_vars, errors' = {},
                    NEW j \in (1..Len(prog))', NEW k \in (1..Len(prog[j]))',
                    Passed(j, k)', prog'[j][k].op = "letref"
             PROVE  Covered(j, k)'
  BY DEF Registered
<1>1. prog' = prog
  BY AfterType DEF Next, vars, CheckUse, CheckRef, MaybeMove, CheckLet, CheckLetRef,
     CheckAssign, CheckFieldAssign, BindPattern, UnbindPattern, EnterLoop, StmtEnd,
     LeaveLoop, CheckBreak, CheckDefer, PassMark, FinishFunc, Returned
<1>2. j \in 1..Len(prog) /\ k \in 1..Len(prog[j]) /\ prog[j][k].op = "letref"
  BY <1>1
<1>3. errors = {}
  BY Forward
<1>4. CASE Passed(j, k)
  BY <1>1, <1>2, <1>3, <1>4, CoveredStays DEF Registered
<1>5. CASE ~Passed(j, k) /\ CheckLetRef
  <2>1. si \in 1..Len(prog) /\ ei \in 1..Len(prog[si])
    BY <1>5, CurType DEF CheckLetRef
  <2>2. j = si /\ k = ei
    BY <1>2, <1>5, <2>1, PassesCur DEF CheckLetRef
  <2> QED
    BY <1>5, <2>2, LetRefCovered
<1>6. CASE ~Passed(j, k) /\ ~CheckLetRef
  <2>1. CASE FinishFunc \/ Returned \/ UNCHANGED vars
    BY <1>6, <2>1 DEF FinishFunc, Returned, vars, Passed
  <2>2. CASE \E ops : At(ops) /\ "letref" \notin ops /\ After
    <3>1. PICK ops : At(ops) /\ "letref" \notin ops /\ After
      BY <2>2
    <3>2. Cur.op \in ops /\ si \in 1..Len(prog) /\ ei \in 1..Len(prog[si])
      BY <3>1, CurType
    <3>3. j = si /\ k = ei
      BY <1>2, <1>6, <3>1, <3>2, PassesCur
    <3> QED
      BY <1>2, <3>1, <3>2, <3>3 DEF Cur
  <2> DEFINE Quiet(ops) == At(ops) /\ After
  <2>3. \A ops : Quiet(ops) /\ "letref" \notin ops => Covered(j, k)'
    BY <2>2
  <2>4. CASE CheckUse
    BY <2>4, <2>3 DEF CheckUse
  <2>5. CASE CheckRef
    BY <2>5, <2>3 DEF CheckRef
  <2>6. CASE MaybeMove \/ CheckAssign \/ CheckFieldAssign \/ CheckLet
    BY <2>6, <2>3 DEF MaybeMove, CheckAssign, CheckFieldAssign, CheckLet
  <2>7. CASE BindPattern \/ UnbindPattern \/ EnterLoop \/ LeaveLoop
    BY <2>7, <2>3 DEF BindPattern, UnbindPattern, EnterLoop, LeaveLoop
  <2>8. CASE CheckBreak \/ CheckDefer \/ StmtEnd \/ PassMark
    BY <2>8, <2>3 DEF CheckBreak, CheckDefer, StmtEnd, PassMark
  <2> QED
    BY <1>6, <2>1, <2>4, <2>5, <2>6, <2>7, <2>8 DEF Next
<1> QED
  BY <1>4, <1>5, <1>6

LEMMA InitRegistered == Init => Registered
<1> SUFFICES ASSUME Init, NEW j \in 1..Len(prog), NEW k \in 1..Len(prog[j]), Passed(j, k)
             PROVE  FALSE
  BY DEF Registered
<1>1. si = 1 /\ ei = 1
  BY Zenon DEF Init
<1>2. prog \in Seq(Seq(Step) \ {<<>>})
  BY ProgramsAssumption DEF Init
<1>3. Len(prog) \in Nat /\ Len(prog[j]) \in Nat
  BY <1>2
<1> QED
  BY <1>1, <1>3 DEF Passed

(* A step that invalidates x without a diagnostic found no live borrow.    *)
LEMMA InvalidatesUnborrowed ==
    ASSUME TypeOK, Next, NEW x \in Names, Invalidates(x), errors' = {}
    PROVE  ~Borrowed(x) /\ InBody
<1>1. InBody /\ ~checked /\ ~FinishFunc /\ ~Returned
  <2>1. InBody
    BY Zenon DEF Invalidates, At
  <2>2. ~checked /\ ~Returned
    BY <2>1, Zenon DEF InBody, Returned
  <2>3. si \in Nat /\ Len(prog) \in Nat /\ si <= Len(prog)
    BY <2>1 DEF InBody, TypeOK
  <2>4. ~(si > Len(prog))
    BY <2>3
  <2> QED
    BY <2>1, <2>2, <2>4, Zenon DEF FinishFunc
<1>2. CASE At({"assign"}) /\ Cur.name = x
  <2>1. CheckAssign
    BY <1>1, <1>2 DEF Next, At, CheckUse, CheckRef, MaybeMove, CheckLet, CheckLetRef,
       CheckFieldAssign, BindPattern, UnbindPattern, EnterLoop, StmtEnd, LeaveLoop,
       CheckBreak, CheckDefer, PassMark
  <2>2. AssignErrors(x) = {}
    BY <1>2, <2>1, NoReport DEF CheckAssign
  <2> QED
    BY <1>1, <2>2 DEF AssignErrors
<1>3. CASE At({"field"}) /\ Cur.name = x /\ ~IsRef(scope[x].type)
  <2>1. CheckFieldAssign
    BY <1>1, <1>3 DEF Next, At, CheckUse, CheckRef, MaybeMove, CheckLet, CheckLetRef,
       CheckAssign, BindPattern, UnbindPattern, EnterLoop, StmtEnd, LeaveLoop,
       CheckBreak, CheckDefer, PassMark
  <2>2. AssignErrors(x) = {}
    BY <1>3, <2>1, NoReport DEF CheckFieldAssign
  <2> QED
    BY <1>1, <2>2 DEF AssignErrors
<1>4. CASE At({"move"}) /\ Cur.name = x /\ scope[x].bound /\ ~IsCopy(scope[x].type)
  <2>1. MaybeMove
    BY <1>1, <1>4 DEF Next, At, CheckUse, CheckRef, CheckAssign, CheckLet, CheckLetRef,
       CheckFieldAssign, BindPattern, UnbindPattern, EnterLoop, StmtEnd, LeaveLoop,
       CheckBreak, CheckDefer, PassMark
  <2>2. {k \in {"moveBorrowed"} : Borrowed(x)} = {}
    BY <1>4, <2>1, NoReport DEF MaybeMove
  <2> QED
    BY <1>1, <2>2
<1>5. CASE At({"ref"}) /\ Cur.name = x /\ Cur.excl
  <2>1. CheckRef
    BY <1>1, <1>5 DEF Next, At, CheckUse, MaybeMove, CheckAssign, CheckLet, CheckLetRef,
       CheckFieldAssign, BindPattern, UnbindPattern, EnterLoop, StmtEnd, LeaveLoop,
       CheckBreak, CheckDefer, PassMark
  <2>2. RefErrors(x, TRUE) = {}
    BY <1>5, <2>1, NoReport, CurType DEF CheckRef, Step
  <2> QED
    BY <1>1, <2>2, NoRefErrors DEF Borrowed
<1>6. CASE At({"letref"}) /\ Cur.target = x /\ Cur.excl
  <2>1. CheckLetRef
    BY <1>1, <1>6 DEF Next, At, CheckUse, CheckRef, MaybeMove, CheckAssign, CheckLet,
       CheckFieldAssign, BindPattern, UnbindPattern, EnterLoop, StmtEnd, LeaveLoop,
       CheckBreak, CheckDefer, PassMark
  <2>2. RefErrors(x, TRUE) = {}
    BY <1>6, <2>1, NoReport, CurType DEF CheckLetRef, Step
  <2> QED
    BY <1>1, <2>2, NoRefErrors DEF Borrowed
<1> QED
  BY <1>2, <1>3, <1>4, <1>5, <1>6 DEF Invalidates

(* Every step is in a place expr_mentions descends to.                     *)
AllSeen(p) == \A j \in 1..Len(p) : \A k \in 1..Len(p[j]) : p[j][k].seen

(* A registered borrow that is used later is live.                         *)
LEMMA UsedLaterBorrowed ==
    ASSUME TypeOK, Registered, errors = {}, AllSeen(prog), InBody,
           NEW x \in Names, NEW h \in Names, TakenBefore(x, h), UsedLater(h)
    PROVE  Borrowed(x)
<1>1. PICK j \in 1..Len(prog) : \E k \in 1..Len(prog[j]) :
          Passed(j, k) /\ prog[j][k].op = "letref"
            /\ prog[j][k].target = x /\ prog[j][k].name = h
  BY DEF TakenBefore, Passed
<1>2. PICK k \in 1..Len(prog[j]) :
          Passed(j, k) /\ prog[j][k].op = "letref"
            /\ prog[j][k].target = x /\ prog[j][k].name = h
  BY <1>1
<1>3. Covered(j, k)
  BY <1>2 DEF Registered
<1>4. PICK i \in 1..Len(letBorrows[x]) :
          /\ j \in letBorrows[x][i].uses
          /\ \A m \in 1..Len(prog) :
                m > j /\ Mentions(prog[m], h) => m \in letBorrows[x][i].uses
  BY <1>2, <1>3 DEF Covered
<1>5. PICK m \in 1..Len(prog) : \E q \in 1..Len(prog[m]) :
          (m > si \/ (m = si /\ q > ei)) /\ Touches(prog[m][q], h)
  BY DEF UsedLater
<1>6. Mentions(prog[m], h)
  BY <1>5 DEF AllSeen, Mentions
<1>7. si \in Nat /\ j \in Nat /\ m \in Nat /\ j <= si /\ si <= m
  <2>1. si \in Nat /\ Len(prog) \in Nat
    BY DEF TypeOK
  <2>2. j \in Nat /\ m \in Nat
    BY <2>1
  <2>3. j < si \/ j = si
    BY <1>2 DEF Passed
  <2>4. m > si \/ m = si
    BY <1>5
  <2> QED
    BY <2>1, <2>2, <2>3, <2>4
<1>8. m \in letBorrows[x][i].uses
  <2>1. CASE m > j
    BY <1>4, <1>6, <2>1
  <2>2. CASE m = j
    BY <1>4, <2>2
  <2> QED
    BY <1>7, <2>1, <2>2
<1>9. LiveAt(x, i)
  BY <1>7, <1>8 DEF LiveAt, Live
<1> QED
  BY <1>9 DEF Borrowed, EffShared, EffExcl

(* In bodies whose every mention is visible to the last-use scan, no step  *)
(* that the checker lets through stores to, moves or exclusively borrows a *)
(* binding while a let-bound borrow of it will still be used.              *)
THEOREM BorrowsRespected ==
    ASSUME \A p \in Programs : AllSeen(p)
    PROVE  Spec => InvalidationRespectsBorrows
<1> DEFINE Inv == TypeOK /\ Registered /\ AllSeen(prog)
           Safe == \A x, h \in Names :
                     Invalidates(x) /\ TakenBefore(x, h) /\ errors' = {} => ~UsedLater(h)
<1>1. Init => Inv
  BY InitTypeOK, InitRegistered DEF Init
<1>2. Inv /\ [Next]_vars => Inv'
  <2> SUFFICES ASSUME Inv, [Next]_vars PROVE Inv'
    OBVIOUS
  <2>1. prog' = prog
    BY AfterType DEF Next, vars, CheckUse, CheckRef, MaybeMove, CheckLet, CheckLetRef,
       CheckAssign, CheckFieldAssign, BindPattern, UnbindPattern, EnterLoop, StmtEnd,
       LeaveLoop, CheckBreak, CheckDefer, PassMark, FinishFunc, Returned
  <2> QED
    BY <2>1, NextTypeOK, NextRegistered
<1>3. Inv /\ [Next]_vars => [Safe]_vars
  <2> SUFFICES ASSUME Inv, Next, NEW x \in Names, NEW h \in Names, Invalidates(x),
                      TakenBefore(x, h), errors' = {}, UsedLater(h)
               PROVE  FALSE
    BY DEF Safe
  <2>1. ~Borrowed(x) /\ InBody
    BY InvalidatesUnborrowed
  <2>2. errors = {}
    BY Forward
  <2> QED
    BY <2>1, <2>2, UsedLaterBorrowed
<1> QED
  BY <1>1, <1>2, <1>3, PTL DEF Spec, InvalidationRespectsBorrows
-----------------------------------------------------------------------------
(* Why a borrow diagnostic has a cause.  Whatever the diagnostics so far,  *)
(* the anon pool holds borrows of the current statement only, and a let-   *)
(* borrow stands for a `let h = ref x` that was passed, with a window of   *)
(* that statement and of statements that mention h.                        *)

AnonRefs == \A x \in Names :
    anonShared[x] > 0 \/ anonExcl[x] =>
        \E k \in 1..(ei - 1) : prog[si][k].op = "ref" /\ prog[si][k].name = x

TakenAt(x, lb, j, k) ==
    /\ Passed(j, k)
    /\ prog[j][k].op = "letref" /\ prog[j][k].target = x /\ prog[j][k].name = lb.handle
    /\ \A m \in lb.uses : m = j \/ (m \in 1..Len(prog) /\ Mentions(prog[m], lb.handle))

Taken(x, lb) == \E j \in 1..Len(prog) : \E k \in 1..Len(prog[j]) : TakenAt(x, lb, j, k)

LetsTaken == \A x \in Names : \A i \in 1..Len(letBorrows[x]) : Taken(x, letBorrows[x][i])

Ended == \A j \in 1..Len(prog) : prog[j][Len(prog[j])].op \in EndOps

(* A let-borrow that still counts is a cause to reject a step on x.        *)
LEMMA LiveCause ==
    ASSUME TypeOK, LetsTaken, NEW x \in Names, NEW i, LiveAt(x, i), InBody
    PROVE  BorrowCause(x)
<1> DEFINE lb == letBorrows[x][i]
<1>1. i \in 1..Len(letBorrows[x]) /\ Live(lb)
  BY DEF LiveAt
<1>2. PICK j \in 1..Len(prog) : \E k \in 1..Len(prog[j]) : TakenAt(x, lb, j, k)
  BY <1>1 DEF LetsTaken, Taken
<1>2a. PICK k \in 1..Len(prog[j]) : TakenAt(x, lb, j, k)
  BY <1>2
<1>3. lb \in LetBorrow
  BY <1>1 DEF TypeOK
<1>4. lb.handle \in Names /\ lb.uses \subseteq Nat
  BY <1>3 DEF LetBorrow
<1>5. PICK m \in lb.uses : si <= m
  BY <1>1 DEF Live
<1>6. m \in Nat /\ si \in Nat /\ Len(prog) \in Nat /\ j \in Nat
  BY <1>4, <1>5 DEF TypeOK
<1>7. TakenBefore(x, lb.handle)
  BY <1>2a DEF TakenAt, Passed, TakenBefore
<1>8. CASE m \in 1..Len(prog) /\ Mentions(prog[m], lb.handle)
  <2>1. m \in si..Len(prog)
    BY <1>5, <1>6, <1>8
  <2> QED
    BY <1>4, <1>7, <1>8, <2>1 DEF BorrowCause
<1>9. CASE m = j
  <2>1. j = si /\ k < ei
    BY <1>2a, <1>5, <1>6, <1>9 DEF TakenAt, Passed
  <2>2. k \in Nat /\ ei \in Nat /\ 1 <= k
    <3>1. prog[j] \in Seq(Step) \ {<<>>}
      BY DEF TypeOK
    <3>2. Len(prog[j]) \in Nat
      BY <3>1
    <3> QED
      BY <3>2 DEF TypeOK
  <2>3. k \in 1..(ei - 1)
    BY <2>1, <2>2
  <2> QED
    BY <1>2a, <2>1, <2>3 DEF TakenAt, BorrowCause
<1> QED
  BY <1>2a, <1>5, <1>8, <1>9 DEF TakenAt

LEMMA BorrowedCause ==
    ASSUME TypeOK, LetsTaken, AnonRefs, NEW x \in Names, Borrowed(x), InBody
    PROVE  BorrowCause(x)
<1>1. CASE anonShared[x] > 0 \/ anonExcl[x]
  BY <1>1 DEF AnonRefs, BorrowCause
<1>2. CASE \E i : LiveAt(x, i)
  BY <1>2, LiveCause
<1> QED
  BY <1>1, <1>2 DEF Borrowed, EffShared, EffExcl

LEMMA BodyKept == TypeOK /\ [Next]_vars => prog' = prog
  BY AfterType DEF Next, vars, CheckUse, CheckRef, MaybeMove, CheckLet, CheckLetRef,
     CheckAssign, CheckFieldAssign, BindPattern, UnbindPattern, EnterLoop, StmtEnd,
     LeaveLoop, CheckBreak, CheckDefer, PassMark, FinishFunc, Returned

(* A statement is left over the step it ends in.                           *)
LEMMA StaysWithin ==
    ASSUME TypeOK, Ended, NEW ops, At(ops), ops \cap EndOps = {}, After
    PROVE  Within
<1>1. Cur.op \in ops /\ si \in 1..Len(prog) /\ ei \in 1..Len(prog[si])
  BY CurType
<1>2. Cur.op \notin EndOps
  BY <1>1
<1>3. prog[si] \in Seq(Step) \ {<<>>}
  BY <1>1 DEF TypeOK
<1>4. Len(prog[si]) \in Nat /\ ei \in Nat
  BY <1>3 DEF TypeOK
<1>5. ei # Len(prog[si])
  BY <1>1, <1>2 DEF Ended, Cur
<1> QED
  BY <1>1, <1>4, <1>5 DEF After

LEMMA NextAnonRefs == TypeOK /\ AnonRefs /\ Ended /\ [Next]_vars => AnonRefs'
<1> SUFFICES ASSUME TypeOK, AnonRefs, Ended, [Next]_vars, NEW x \in Names,
                    anonShared'[x] > 0 \/ anonExcl'[x]
             PROVE  \E k \in 1..(ei' - 1) : prog'[si'][k].op = "ref" /\ prog'[si'][k].name = x
  BY DEF AnonRefs
<1>1. ei \in Nat \ {0} /\ prog' = prog
  BY BodyKept DEF TypeOK
<1>2. \A k \in 1..(ei - 1) : k \in 1..((ei + 1) - 1)
  BY <1>1
<1> DEFINE Step1(ops) == At(ops) /\ After /\ ops \cap EndOps = {}
           Same == anonShared'[x] = anonShared[x] /\ anonExcl'[x] = anonExcl[x]
           Goal == \E k \in 1..(ei' - 1) : prog'[si'][k].op = "ref" /\ prog'[si'][k].name = x
<1>3. \A ops : Step1(ops) => si' = si /\ ei' = ei + 1
  BY StaysWithin DEF Within
<1>4. (si' = si /\ (ei' = ei \/ ei' = ei + 1)) /\ Same => Goal
  BY <1>1, <1>2 DEF AnonRefs
<1> SUFFICES Goal
  OBVIOUS
<1> HIDE DEF Goal
<1>5. CASE CheckRef
  <2>1. si' = si /\ ei' = ei + 1
    BY <1>3, <1>5 DEF CheckRef, EndOps
  <2>2. CASE Same
    BY <1>4, <2>1, <2>2
  <2>3. CASE ~Same
    <3>1. x = Cur.name
      BY <1>5, <2>3 DEF CheckRef, TypeOK
    <3>2. Cur.op = "ref"
      BY <1>5 DEF CheckRef, At
    <3>3. ei \in 1..(ei' - 1)
      BY <1>1, <2>1
    <3> QED
      BY <1>1, <2>1, <3>1, <3>2, <3>3 DEF Goal, Cur
  <2> QED
    BY <2>2, <2>3
<1>6. CASE CheckLet \/ CheckLetRef \/ StmtEnd
  <2>1. anonShared'[x] = 0 /\ anonExcl'[x] = FALSE
    BY <1>6 DEF CheckLet, CheckLetRef, StmtEnd, ReleaseAnonBorrows
  <2> QED
    BY <2>1
<1>7. CASE FinishFunc \/ Returned \/ UNCHANGED vars
  BY <1>4, <1>7 DEF FinishFunc, Returned, vars, borrowVars
<1>8. CASE CheckUse \/ MaybeMove \/ CheckAssign \/ CheckFieldAssign \/ BindPattern
             \/ UnbindPattern \/ EnterLoop \/ LeaveLoop \/ CheckBreak \/ CheckDefer \/ PassMark
  <2>1. Same
    BY <1>8 DEF borrowVars, CheckUse, MaybeMove, CheckAssign, CheckFieldAssign, BindPattern,
       UnbindPattern, EnterLoop, LeaveLoop, CheckBreak, CheckDefer, PassMark
  <2>2. si' = si /\ ei' = ei + 1
    <3>1. CASE CheckUse \/ MaybeMove \/ CheckAssign
      BY <1>3, <3>1 DEF CheckUse, MaybeMove, CheckAssign, EndOps
    <3>2. CASE CheckFieldAssign \/ BindPattern \/ UnbindPattern \/ EnterLoop
      BY <1>3, <3>2 DEF CheckFieldAssign, BindPattern, UnbindPattern, EnterLoop, EndOps
    <3>3. CASE LeaveLoop \/ CheckBreak \/ CheckDefer \/ PassMark
      BY <1>3, <3>3 DEF LeaveLoop, CheckBreak, CheckDefer, PassMark, EndOps
    <3> QED
      BY <1>8, <3>1, <3>2, <3>3
  <2> QED
    BY <1>4, <2>1, <2>2
<1> QED
  BY <1>5, <1>6, <1>7, <1>8 DEF Next

(* What is passed stays passed, and a step passes the one it takes.        *)
LEMMA PassedStays ==
    ASSUME TypeOK, [Next]_vars, NEW j \in Nat, NEW k \in Nat, Passed(j, k)
    PROVE  Passed(j, k)'
<1>1. si \in Nat /\ ei \in Nat
  BY DEF TypeOK
<1>2. CASE After
  BY <1>1, <1>2 DEF After, Within, NextStmt, Passed
<1>3. CASE UNCHANGED <<si, ei>>
  BY <1>3 DEF Passed
<1> QED
  BY <1>2, <1>3 DEF Next, vars, CheckUse, CheckRef, MaybeMove, CheckLet, CheckLetRef,
     CheckAssign, CheckFieldAssign, BindPattern, UnbindPattern, EnterLoop, StmtEnd,
     LeaveLoop, CheckBreak, CheckDefer, PassMark, FinishFunc, Returned

LEMMA CurPassed ==
    ASSUME TypeOK, After, NEW j, NEW k, j = si, k = ei
    PROVE  Passed(j, k)'
  BY DEF TypeOK, After, Within, NextStmt, Passed

LEMMA NextLetsTaken == TypeOK /\ LetsTaken /\ [Next]_vars => LetsTaken'
<1> SUFFICES ASSUME TypeOK, LetsTaken, [Next]_vars, NEW x \in Names,
                    NEW i \in 1..Len(letBorrows'[x]), NEW new, new = letBorrows'[x][i]
             PROVE  Taken(x, new)'
  BY DEF LetsTaken
<1>1. prog' = prog
  BY BodyKept
<1>2. letBorrows[x] \in Seq(LetBorrow)
  BY DEF TypeOK
<1>3. ASSUME NEW lb, Taken(x, lb) PROVE Taken(x, lb)'
  <2>1. PICK j \in 1..Len(prog) : \E k \in 1..Len(prog[j]) : TakenAt(x, lb, j, k)
    BY <1>3 DEF Taken
  <2>2. PICK k \in 1..Len(prog[j]) : TakenAt(x, lb, j, k)
    BY <2>1
  <2>3. prog[j] \in Seq(Step) \ {<<>>} /\ Len(prog) \in Nat
    BY DEF TypeOK
  <2>4. j \in Nat /\ k \in Nat
    BY <2>3
  <2>5. Passed(j, k)'
    BY <2>2, <2>4, PassedStays DEF TakenAt
  <2>6. TakenAt(x, lb, j, k)'
    BY <1>1, <2>2, <2>5 DEF TakenAt
  <2> QED
    BY <1>1, <2>6 DEF Taken
<1>4. CASE i \in 1..Len(letBorrows[x]) /\ letBorrows'[x][i] = letBorrows[x][i]
  BY <1>3, <1>4 DEF LetsTaken
<1>5. CASE ~(i \in 1..Len(letBorrows[x]) /\ letBorrows'[x][i] = letBorrows[x][i])
  <2>0. PICK j, k : j = si /\ k = ei
    OBVIOUS
  <2> DEFINE lb == [handle |-> Cur.name, excl |-> Cur.excl, uses |-> UseWindow(Cur.name)]
  <2>1. CheckLetRef
    BY <1>5 DEF Next, vars, borrowVars, CheckUse, CheckRef, MaybeMove, CheckLet,
       CheckAssign, CheckFieldAssign, BindPattern, UnbindPattern, EnterLoop, StmtEnd,
       LeaveLoop, CheckBreak, CheckDefer, PassMark, FinishFunc, Returned
  <2>2. letBorrows' = [letBorrows EXCEPT ![Cur.target] = Append(@, lb)]
    BY <1>5, <2>1 DEF CheckLetRef
  <2>3. /\ Cur \in Step /\ Cur.op = "letref"
        /\ si \in 1..Len(prog) /\ ei \in 1..Len(prog[si])
    BY <2>1, CurType DEF CheckLetRef
  <2>4. x = Cur.target /\ letBorrows'[x] = Append(letBorrows[x], lb)
    BY <1>5, <2>2 DEF TypeOK
  <2>5. lb \in LetBorrow
    <3>1. UseWindow(Cur.name) \in SUBSET (Nat \ {0})
      BY <2>3 DEF UseWindow, TypeOK
    <3>2. Cur.name \in Names /\ Cur.excl \in BOOLEAN
      BY <2>3 DEF Step
    <3> QED
      BY <3>1, <3>2 DEF LetBorrow
  <2>6. lb.handle = Cur.name /\ lb.uses = UseWindow(Cur.name)
    OBVIOUS
  <2>7. letBorrows'[x][i] = lb
    <3> HIDE DEF lb
    <3> QED
      BY <1>2, <1>5, <2>4, <2>5
  <2> HIDE DEF lb
  <2>8. Passed(j, k)'
    BY <2>0, <2>1, CurPassed DEF CheckLetRef
  <2>9. TakenAt(x, new, j, k)'
    <3>1. new.handle = Cur.name /\ new.uses = UseWindow(Cur.name)
      BY <2>6, <2>7
    <3>2. \A m \in new.uses : m = j \/ (m \in 1..Len(prog) /\ Mentions(prog[m], new.handle))
      BY <2>0, <3>1 DEF UseWindow
    <3>3. prog[j][k].op = "letref" /\ prog[j][k].target = x /\ prog[j][k].name = new.handle
      BY <2>0, <2>3, <2>4, <3>1 DEF Cur
    <3> QED
      BY <1>1, <2>8, <3>2, <3>3 DEF TakenAt
  <2>10. j \in 1..Len(prog') /\ k \in 1..Len(prog'[j])
    BY <1>1, <2>0, <2>3
  <2> QED
    BY <2>9, <2>10 DEF Taken
<1> QED
  BY <1>4, <1>5

LEMMA InitCauses == Init => AnonRefs /\ LetsTaken /\ Ended
<1> SUFFICES ASSUME Init PROVE AnonRefs /\ LetsTaken /\ Ended
  OBVIOUS
<1>1. AnonRefs
  <2>1. \A x \in Names : anonShared[x] = 0 /\ anonExcl[x] = FALSE
    BY Zenon DEF Init
  <2> QED
    BY <2>1 DEF AnonRefs
<1>2. LetsTaken
  <2>1. \A x \in Names : letBorrows[x] = <<>>
    BY Zenon DEF Init
  <2> QED
    BY <2>1 DEF LetsTaken
<1>3. Ended
  BY StatementsAssumption DEF Init, Ended
<1> QED
  BY <1>1, <1>2, <1>3

(* The kinds of the diagnostics a step adds.                               *)
LEMMA BorrowReport ==
    ASSUME TypeOK, Next, NEW e \in errors' \ errors, e[1] \in BorrowKinds
    PROVE  /\ InBody
           /\ LET x == IF Cur.op = "letref" THEN Cur.target ELSE Cur.name IN
              x \in Names /\ Borrowed(x)
<1>1. CASE CheckRef
  <2>1. InBody /\ Cur \in Step /\ Cur.op = "ref"
    BY <1>1, CurType DEF CheckRef, At
  <2>2. e[1] \in RefErrors(Cur.name, Cur.excl)
    BY <1>1 DEF CheckRef, Report, BorrowKinds
  <2>3. Borrowed(Cur.name)
    BY <2>2 DEF RefErrors, Borrowed, BorrowKinds
  <2> QED
    BY <2>1, <2>3 DEF Step
<1>2. CASE CheckLetRef
  <2>1. InBody /\ Cur \in Step /\ Cur.op = "letref"
    BY <1>2, CurType DEF CheckLetRef, At
  <2>2. e[1] \in RefErrors(Cur.target, Cur.excl)
    BY <1>2 DEF CheckLetRef, Report, BorrowKinds
  <2>3. Borrowed(Cur.target)
    BY <2>2 DEF RefErrors, Borrowed, BorrowKinds
  <2> QED
    BY <2>1, <2>3 DEF Step
<1>3. CASE MaybeMove
  <2>1. InBody /\ Cur \in Step /\ Cur.op = "move"
    BY <1>3, CurType DEF MaybeMove, At
  <2>2. Borrowed(Cur.name)
    BY <1>3 DEF MaybeMove, Report
  <2> QED
    BY <2>1, <2>2 DEF Step
<1>4. CASE CheckAssign \/ CheckFieldAssign
  <2>1. InBody /\ Cur \in Step /\ Cur.op \in {"assign", "field"}
    BY <1>4, CurType DEF CheckAssign, CheckFieldAssign, At
  <2>2. e[1] \in AssignErrors(Cur.name)
    BY <1>4 DEF CheckAssign, CheckFieldAssign, Report, BorrowKinds
  <2>3. Borrowed(Cur.name)
    BY <2>2 DEF AssignErrors, BorrowKinds
  <2> QED
    BY <2>1, <2>3 DEF Step
<1>5. CASE CheckUse \/ CheckBreak \/ CheckDefer \/ FinishFunc
  BY <1>5 DEF CheckUse, CheckBreak, CheckDefer, FinishFunc, Report, BorrowKinds
<1> QED
  BY <1>1, <1>2, <1>3, <1>4, <1>5 DEF Next, vars, CheckLet, BindPattern, UnbindPattern,
     EnterLoop, StmtEnd, LeaveLoop, PassMark, Returned

(* For every body, a borrow diagnostic has a cause: an expired or released *)
(* borrow rejects nothing (types.cc:70-72).                                *)
THEOREM DiagnosticsCaused == Spec => NoSpuriousBorrowError
<1> DEFINE Inv == TypeOK /\ AnonRefs /\ LetsTaken /\ Ended
           Justified == \A e \in errors' \ errors :
               e[1] \in BorrowKinds =>
                   BorrowCause(IF Cur.op = "letref" THEN Cur.target ELSE Cur.name)
<1>1. Init => Inv
  BY InitTypeOK, InitCauses
<1>2. Inv /\ [Next]_vars => Inv'
  <2> SUFFICES ASSUME Inv, [Next]_vars PROVE Inv'
    OBVIOUS
  <2>1. Ended'
    BY BodyKept DEF Ended
  <2> QED
    BY <2>1, NextTypeOK, NextAnonRefs, NextLetsTaken
<1>3. Inv /\ [Next]_vars => [Justified]_vars
  BY BorrowReport, BorrowedCause
<1> QED
  BY <1>1, <1>2, <1>3, PTL DEF Spec, NoSpuriousBorrowError
-----------------------------------------------------------------------------
(* @must_defer.  check_must_defer looks a name up after the walk, so a     *)
(* root `let` is judged by the binding its name has then.  Between the two *)
(* a pattern name may stand in front of it: the invariant follows the      *)
(* binding into `saved` and back.                                          *)

Resource(b) == b.bound /\ b.type = "resource"

(* The binding x has once every pattern name is put back.                  *)
Restored(x) ==
    /\ (\A q \in 1..Len(saved) : saved[q].name # x) => Resource(scope[x])
    /\ \A q \in 1..Len(saved) :
          saved[q].name = x /\ (\A r \in 1..(q - 1) : saved[r].name # x)
            => Resource(saved[q].prev)

RootLet(i) ==
    /\ prog[i][Len(prog[i])].op = "let"
    /\ prog[i][Len(prog[i])].type = "resource"

LetsKept == \A i \in 1..Len(prog) : i < si /\ RootLet(i) => Restored(BoundName(prog[i]))

(* Pattern names are put back by the end of the statement.                 *)
Nesting == IF si <= Len(prog) THEN Len(saved) = Opened(prog[si], ei - 1) ELSE saved = <<>>

(* No `let` after it gives the name of a @must_defer value another type.   *)
NeverRebound(p) ==
    \A i \in 1..Len(p) : \A j \in (i + 1)..Len(p) : \A k \in 1..Len(p[j]) :
        LET b == p[i][Len(p[i])] IN
        /\ b.op = "let" /\ b.type = "resource"
        /\ p[j][k].op \in {"let", "letref"} /\ p[j][k].name = b.name
        => p[j][k].op = "let" /\ p[j][k].type = "resource"

BalancedBody == \A j \in 1..Len(prog) : Opened(prog[j], Len(prog[j])) = 0

LEMMA CountStep ==
    ASSUME NEW st, NEW k \in Nat, NEW o
    PROVE  /\ Count(st, k, o) \in Nat
           /\ Count(st, k + 1, o) = Count(st, k, o) + (IF st[k + 1].op = o THEN 1 ELSE 0)
<1> DEFINE S == {i \in 1..k : st[i].op = o}
           T == {i \in 1..(k + 1) : st[i].op = o}
<1>1. IsFiniteSet(S)
  <2>1. IsFiniteSet(1..k) /\ S \in SUBSET (1..k)
    BY FS_Interval
  <2> QED
    BY <2>1, FS_Subset
<1>2. Cardinality(S) \in Nat
  BY <1>1, FS_CardinalityType
<1>3. CASE st[k + 1].op = o
  <2>1. T = S \cup {k + 1} /\ k + 1 \notin S
    BY <1>3
  <2>2. Cardinality(T) = Cardinality(S) + 1
    BY <1>1, <2>1, FS_AddElement
  <2> QED
    BY <1>2, <1>3, <2>2 DEF Count
<1>4. CASE st[k + 1].op # o
  <2>1. T = S
    BY <1>4
  <2> QED
    BY <1>2, <1>4, <2>1 DEF Count
<1> QED
  BY <1>3, <1>4

LEMMA CountNone == \A st, o : Count(st, 0, o) = 0
<1> SUFFICES ASSUME NEW st, NEW o PROVE Count(st, 0, o) = 0
  OBVIOUS
<1>1. {i \in 1..0 : st[i].op = o} = {}
  OBVIOUS
<1> QED
  BY <1>1, FS_EmptySet DEF Count

(* What a step does to the pattern names that are open.                    *)
LEMMA OpenedStep ==
    ASSUME NEW st, NEW k \in Nat \ {0}
    PROVE  /\ Opened(st, k - 1) \in Int
           /\ st[k].op = "bind" => Opened(st, k) = Opened(st, k - 1) + 1
           /\ st[k].op = "unbind" => Opened(st, k) = Opened(st, k - 1) - 1
           /\ st[k].op \notin {"bind", "unbind"} => Opened(st, k) = Opened(st, k - 1)
<1> DEFINE b(i) == Count(st, i, "bind")
           u(i) == Count(st, i, "unbind")
<1>1. k - 1 \in Nat /\ (k - 1) + 1 = k
  OBVIOUS
<1>2. b(k - 1) \in Nat /\ b(k) = b(k - 1) + (IF st[k].op = "bind" THEN 1 ELSE 0)
  BY <1>1, CountStep
<1>3. u(k - 1) \in Nat /\ u(k) = u(k - 1) + (IF st[k].op = "unbind" THEN 1 ELSE 0)
  BY <1>1, CountStep
<1>4. \A i : Opened(st, i) = b(i) - u(i)
  BY DEF Opened
<1> HIDE DEF b, u
<1> QED
  BY <1>2, <1>3, <1>4

LEMMA FrontOf ==
    ASSUME NEW S, NEW s \in Seq(S), s # <<>>
    PROVE  /\ Len(SubSeq(s, 1, Len(s) - 1)) = Len(s) - 1
           /\ \A i \in 1..(Len(s) - 1) : SubSeq(s, 1, Len(s) - 1)[i] = s[i]
<1> DEFINE k == Len(s) - 1
<1>1. k \in Nat /\ \A i \in 1..k : s[i] \in S
  OBVIOUS
<1> HIDE DEF k
<1>2. 1 \in Int /\ k \in Int
  BY <1>1
<1>3. /\ Len(SubSeq(s, 1, k)) = IF 1 <= k THEN k - 1 + 1 ELSE 0
      /\ \A i \in 1..k - 1 + 1 : SubSeq(s, 1, k)[i] = s[1 + i - 1]
  BY <1>1, <1>2, SubSeqProperties
<1>4. Len(SubSeq(s, 1, k)) = k
  BY <1>1, <1>3
<1>5. \A i \in 1..k : SubSeq(s, 1, k)[i] = s[i]
  BY <1>1, <1>3
<1> QED
  BY <1>4, <1>5 DEF k

(* A step that neither binds nor puts back leaves `saved` as it is.        *)
LEMMA NestingStep ==
    ASSUME TypeOK, BalancedBody, Nesting, NEW ops, At(ops), After,
           saved' \in Seq([name : Names, prev : Binding]),
           \/ "bind" \notin ops /\ "unbind" \notin ops /\ saved' = saved
           \/ ops = {"bind"} /\ Len(saved') = Len(saved) + 1
           \/ ops = {"unbind"} /\ Len(saved') = Len(saved) - 1
    PROVE  Nesting' /\ Len(saved') = Opened(prog[si], ei)
<1>1. Cur \in Step /\ Cur.op \in ops /\ si \in 1..Len(prog) /\ ei \in 1..Len(prog[si])
  BY CurType
<1>2. Cur = prog[si][ei] /\ ei \in Nat \ {0} /\ si \in Nat /\ Len(prog) \in Nat
  BY DEF Cur, TypeOK
<1>3. Len(saved) = Opened(prog[si], ei - 1)
  BY <1>1, <1>2 DEF Nesting
<1>4. Len(saved') = Opened(prog[si], ei)
  <2>1. /\ Cur.op = "bind" => Opened(prog[si], ei) = Opened(prog[si], ei - 1) + 1
        /\ Cur.op = "unbind" => Opened(prog[si], ei) = Opened(prog[si], ei - 1) - 1
        /\ Cur.op \notin {"bind", "unbind"} => Opened(prog[si], ei) = Opened(prog[si], ei - 1)
    BY <1>2, OpenedStep
  <2> QED BY <1>1, <1>3, <2>1
<1>5. CASE Within
  BY <1>1, <1>2, <1>4, <1>5 DEF Within, Nesting
<1>6. CASE NextStmt /\ ~(ei < Len(prog[si]))
  <2>1. Len(prog[si]) \in Nat
    <3>1. prog[si] \in Seq(Step) \ {<<>>}
      BY <1>1 DEF TypeOK
    <3> QED
      BY <3>1
  <2>2. Opened(prog[si], ei) = 0
    BY <1>1, <1>2, <1>6, <2>1 DEF BalancedBody
  <2>3. Opened(prog[si + 1], 0) = 0
    BY CountNone DEF Opened
  <2>4. saved' = <<>>
    BY <1>4, <2>2
  <2> QED
    BY <1>4, <1>6, <2>2, <2>3 DEF NextStmt, Nesting
<1> QED
  BY <1>5, <1>6 DEF After

LEMMA NextNesting == TypeOK /\ BalancedBody /\ Nesting /\ [Next]_vars => Nesting'
<1> SUFFICES ASSUME TypeOK, BalancedBody, Nesting, [Next]_vars PROVE Nesting'
  OBVIOUS
<1>1. saved' \in Seq([name : Names, prev : Binding])
  BY NextTypeOK DEF TypeOK
<1>2. CASE BindPattern
  <2>1. Len(saved') = Len(saved) + 1
    BY <1>2 DEF BindPattern, TypeOK
  <2> QED
    BY <1>1, <1>2, <2>1, NestingStep DEF BindPattern
<1>3. CASE UnbindPattern
  <2>1. Len(saved') = Len(saved) - 1
    BY <1>3, FrontOf DEF UnbindPattern, TypeOK
  <2> QED
    BY <1>1, <1>3, <2>1, NestingStep DEF UnbindPattern
<1>4. CASE FinishFunc \/ Returned \/ UNCHANGED vars
  BY <1>4 DEF FinishFunc, Returned, vars, Nesting
<1> DEFINE Quiet(ops) == At(ops) /\ After /\ "bind" \notin ops /\ "unbind" \notin ops /\ saved' = saved
<1>5. \A ops : Quiet(ops) => Nesting'
  BY <1>1, NestingStep
<1>6. CASE CheckUse \/ CheckRef \/ MaybeMove \/ CheckAssign
  BY <1>5, <1>6 DEF CheckUse, CheckRef, MaybeMove, CheckAssign
<1>7. CASE CheckFieldAssign \/ CheckLet \/ CheckLetRef \/ EnterLoop
  BY <1>5, <1>7 DEF CheckFieldAssign, CheckLet, CheckLetRef, EnterLoop
<1>8. CASE LeaveLoop \/ CheckBreak \/ CheckDefer \/ StmtEnd \/ PassMark
  BY <1>5, <1>8 DEF LeaveLoop, CheckBreak, CheckDefer, StmtEnd, PassMark
<1> QED
  BY <1>2, <1>3, <1>4, <1>6, <1>7, <1>8 DEF Next

(* The steps that leave x's binding, and what stands in front of it, alone *)
(* or move it.                                                             *)
LEMMA RestoredPlain ==
    ASSUME TypeOK, NEW x \in Names, Restored(x), saved' = saved,
           Resource(scope[x]) => Resource(scope'[x])
    PROVE  Restored(x)'
  BY DEF Restored

LEMMA RestoredBind ==
    ASSUME TypeOK, BindPattern, NEW x \in Names, Restored(x)
    PROVE  Restored(x)'
<1> DEFINE e == [name |-> Cur.name, prev |-> scope[Cur.name]]
           n == Len(saved)
<1>1. Cur \in Step /\ Cur.name \in Names
  BY CurType DEF BindPattern, Step
<1>2. e \in [name : Names, prev : Binding] /\ e.name = Cur.name /\ e.prev = scope[Cur.name]
  BY <1>1 DEF TypeOK
<1>3. saved' = Append(saved, e) /\ saved \in Seq([name : Names, prev : Binding])
  BY DEF BindPattern, TypeOK
<1> HIDE DEF e
<1>4. /\ n \in Nat /\ Len(saved') = n + 1 /\ saved'[n + 1] = e
      /\ \A q \in 1..n : saved'[q] = saved[q]
  BY <1>2, <1>3
<1> HIDE DEF n
<1>5. x # Cur.name => scope'[x] = scope[x]
  BY DEF BindPattern, TypeOK
<1>6. \A q \in 1..n + 1 : q \in 1..n \/ q = n + 1
  BY <1>4
<1>7. n + 1 \in 1..(n + 1) /\ \A q \in 1..n : q \in 1..(n + 1) /\ \A r \in 1..(q - 1) : r \in 1..n
  BY <1>4
<1>8. \A r \in 1..n : r \in 1..((n + 1) - 1)
  BY <1>4
<1>9. ASSUME \A q \in 1..(n + 1) : saved'[q].name # x PROVE Resource(scope'[x])
  BY <1>2, <1>4, <1>5, <1>7, <1>9 DEF Restored, n
<1>10. ASSUME NEW q \in 1..(n + 1), saved'[q].name = x, \A r \in 1..(q - 1) : saved'[r].name # x
       PROVE  Resource(saved'[q].prev)
  <2>1. CASE q \in 1..n
    BY <1>4, <1>7, <1>10, <2>1 DEF Restored, n
  <2>2. CASE q = n + 1
    BY <1>2, <1>4, <1>8, <1>10, <2>2 DEF Restored, n
  <2> QED
    BY <1>6, <2>1, <2>2
<1> QED
  BY <1>4, <1>9, <1>10 DEF Restored

LEMMA RestoredUnbind ==
    ASSUME TypeOK, UnbindPattern, NEW x \in Names, Restored(x)
    PROVE  Restored(x)'
<1> DEFINE n == Len(saved)
<1>1. saved \in Seq([name : Names, prev : Binding]) /\ saved # <<>>
  BY DEF UnbindPattern, TypeOK
<1>2. n \in Nat \ {0} /\ saved[n].name \in Names
  <2>1. saved[n] \in [name : Names, prev : Binding]
    BY <1>1, LastAndFront
  <2> QED
    BY <1>1, <2>1
<1>3. Len(saved') = n - 1 /\ \A q \in 1..(n - 1) : saved'[q] = saved[q]
  BY <1>1, FrontOf DEF UnbindPattern
<1>4. scope'[x] = IF saved[n].name = x THEN saved[n].prev ELSE scope[x]
  BY <1>2 DEF UnbindPattern, TypeOK
<1> HIDE DEF n
<1>5. \A q \in 1..n : q \in 1..(n - 1) \/ q = n
  BY <1>2
<1>6. /\ n \in 1..n
      /\ \A q \in 1..(n - 1) : q \in 1..n /\ \A r \in 1..(q - 1) : r \in 1..(n - 1)
  BY <1>2
<1>7. ASSUME \A q \in 1..(n - 1) : saved'[q].name # x PROVE Resource(scope'[x])
  <2>1. \A q \in 1..(n - 1) : saved[q].name # x
    BY <1>3, <1>7
  <2>2. CASE saved[n].name = x
    BY <1>4, <1>6, <2>1, <2>2 DEF Restored, n
  <2>3. CASE saved[n].name # x
    <3>1. \A q \in 1..n : saved[q].name # x
      BY <1>5, <2>1, <2>3
    <3> QED
      BY <1>4, <2>3, <3>1 DEF Restored, n
  <2> QED
    BY <2>2, <2>3
<1>8. ASSUME NEW q \in 1..(n - 1), saved'[q].name = x, \A r \in 1..(q - 1) : saved'[r].name # x
      PROVE  Resource(saved'[q].prev)
  BY <1>3, <1>6, <1>8 DEF Restored, n
<1> QED
  BY <1>3, <1>7, <1>8 DEF Restored

(* Passing a root `let` of a @must_defer value establishes the invariant   *)
(* for it, since no pattern name is open then; no later step disturbs it.  *)
LEMMA RootLetKept ==
    ASSUME TypeOK, BalancedBody, Nesting, Next, After, NEW i \in 1..Len(prog),
           RootLet(i), i = si, si' # si
    PROVE  Restored(BoundName(prog[i]))'
<1> DEFINE x == BoundName(prog[i])
<1>0. ~FinishFunc /\ ~Returned
  BY DEF FinishFunc, Returned, vars
<1>1. si \in Nat /\ ei \in Nat /\ ei = Len(prog[si])
  <2>1. prog[si] \in Seq(Step) \ {<<>>}
    BY DEF TypeOK
  <2>2. Len(prog[si]) \in Nat
    BY <2>1
  <2>3. ei < Len(prog[si]) => si' = si
    BY DEF After, Within
  <2>4. ei <= Len(prog[si])
    BY <1>0 DEF Next, At, CheckUse, CheckRef, MaybeMove, CheckLet, CheckLetRef,
       CheckAssign, CheckFieldAssign, BindPattern, UnbindPattern, EnterLoop, StmtEnd,
       LeaveLoop, CheckBreak, CheckDefer, PassMark
  <2> QED
    BY <2>2, <2>3, <2>4 DEF TypeOK
<1>2. Cur.op = "let" /\ Cur.type = "resource" /\ x = Cur.name
  BY <1>1 DEF RootLet, Cur, BoundName
<1>3. CheckLet
  BY <1>0, <1>2 DEF Next, At, CheckUse, CheckRef, MaybeMove, CheckLetRef,
     CheckAssign, CheckFieldAssign, BindPattern, UnbindPattern, EnterLoop, StmtEnd,
     LeaveLoop, CheckBreak, CheckDefer, PassMark
<1>4. saved' = saved /\ saved \in Seq([name : Names, prev : Binding])
  BY <1>3 DEF CheckLet, TypeOK
<1>5. Len(saved') = Opened(prog[si], ei)
  BY <1>3, <1>4, NestingStep DEF CheckLet
<1>6. Len(saved) = 0
  BY <1>1, <1>4, <1>5 DEF BalancedBody
<1>7. Cur \in Step /\ x \in Names
  BY <1>2, <1>3, CurType DEF CheckLet, Step
<1>8. Resource(scope'[x])
  BY <1>2, <1>3, <1>7 DEF CheckLet, TypeOK, NewBinding, Resource
<1>9. prog' = prog
  BY BodyKept
<1> QED
  BY <1>4, <1>6, <1>8, <1>9 DEF Restored

LEMMA LetStaysKept ==
    ASSUME TypeOK, NeverRebound(prog), [Next]_vars, NEW i \in 1..Len(prog),
           RootLet(i), i < si, Restored(BoundName(prog[i]))
    PROVE  Restored(BoundName(prog[i]))'
<1>1. PICK x : x = BoundName(prog[i])
  OBVIOUS
<1>2. prog' = prog
  BY BodyKept
<1>3. SUFFICES Restored(x)'
  BY <1>1, <1>2
<1>4. x \in Names
  <2>1. prog[i] \in Seq(Step) \ {<<>>}
    BY DEF TypeOK
  <2>2. prog[i][Len(prog[i])] \in Step
    BY <2>1, LastAndFront
  <2> QED
    BY <1>1, <2>2 DEF Step, BoundName
<1>5. Restored(x)
  BY <1>1
<1>6. CASE BindPattern
  BY <1>4, <1>5, <1>6, RestoredBind
<1>7. CASE UnbindPattern
  BY <1>4, <1>5, <1>7, RestoredUnbind
<1>8. CASE ~BindPattern /\ ~UnbindPattern
  <2>1. saved' = saved
    BY <1>8 DEF Next, vars, CheckUse, CheckRef, MaybeMove, CheckLet, CheckLetRef,
       CheckAssign, CheckFieldAssign, EnterLoop, StmtEnd, LeaveLoop, CheckBreak,
       CheckDefer, PassMark, FinishFunc, Returned
  <2>2. ASSUME Cur.op \in {"let", "letref"}, At({"let", "letref"}), Cur.name = x
        PROVE  Cur.op = "let" /\ Cur.type = "resource"
    <3>1. si \in 1..Len(prog) /\ ei \in 1..Len(prog[si])
      BY <2>2, CurType
    <3>2. si \in (i + 1)..Len(prog)
      BY <3>1 DEF TypeOK
    <3> QED
      BY <1>1, <2>2, <3>1, <3>2 DEF NeverRebound, RootLet, Cur, BoundName
  <2>3. Resource(scope[x]) => Resource(scope'[x])
    <3>1. CASE CheckLet
      <4>1. scope' = [scope EXCEPT ![Cur.name] = NewBinding(Cur.type, Cur.mut)]
        BY <3>1 DEF CheckLet
      <4>2. Cur.name = x => Cur.type = "resource"
        BY <2>2, <3>1 DEF CheckLet, At
      <4> QED
        BY <1>4, <4>1, <4>2 DEF TypeOK, NewBinding, Resource
    <3>2. CASE CheckLetRef
      <4>1. Cur.name # x
        BY <2>2, <3>2 DEF CheckLetRef, At
      <4> QED
        BY <1>4, <3>2, <4>1 DEF CheckLetRef, TypeOK
    <3>3. CASE MaybeMove
      <4>1. scope' = scope \/ scope' = [scope EXCEPT ![Cur.name] = MarkMoved(@)]
        BY <3>3 DEF MaybeMove
      <4>2. \A b : Resource(b) => Resource(MarkMoved(b))
        BY DEF MarkMoved, Resource
      <4>3. scope'[x] = scope[x] \/ scope'[x] = MarkMoved(scope[x])
        BY <1>4, <4>1 DEF TypeOK
      <4> QED
        BY <4>2, <4>3
    <3>4. CASE ~CheckLet /\ ~CheckLetRef /\ ~MaybeMove
      <4>1. scope' = scope
        BY <1>8, <3>4 DEF Next, vars, CheckUse, CheckRef, CheckAssign, CheckFieldAssign,
           EnterLoop, StmtEnd, LeaveLoop, CheckBreak, CheckDefer, PassMark, FinishFunc, Returned
      <4> QED
        BY <4>1
    <3> QED
      BY <3>1, <3>2, <3>3, <3>4
  <2> QED
    BY <1>4, <1>5, <2>1, <2>3, RestoredPlain
<1> QED
  BY <1>6, <1>7, <1>8

LEMMA NextLetsKept ==
    TypeOK /\ BalancedBody /\ NeverRebound(prog) /\ Nesting /\ LetsKept /\ [Next]_vars
      => LetsKept'
<1> SUFFICES ASSUME TypeOK, BalancedBody, NeverRebound(prog), Nesting, LetsKept, [Next]_vars,
                    NEW i \in (1..Len(prog))', i < si', RootLet(i)'
             PROVE  Restored(BoundName(prog[i]))'
  BY DEF LetsKept
<1>1. i \in 1..Len(prog) /\ RootLet(i)
  BY BodyKept DEF RootLet
<1>2. CASE i < si
  BY <1>1, <1>2, LetStaysKept DEF LetsKept
<1>3. CASE ~(i < si)
  <2>1. si \in Nat /\ Len(prog) \in Nat
    BY DEF TypeOK
  <2>2. si' # si
    BY <1>1, <1>3, <2>1
  <2>3. Next /\ After
    BY <2>2 DEF Next, vars, CheckUse, CheckRef, MaybeMove, CheckLet, CheckLetRef,
       CheckAssign, CheckFieldAssign, BindPattern, UnbindPattern, EnterLoop, StmtEnd,
       LeaveLoop, CheckBreak, CheckDefer, PassMark, FinishFunc, Returned
  <2>4. i = si
    BY <1>1, <1>3, <2>1, <2>3 DEF After, Within, NextStmt
  <2> QED
    BY <1>1, <2>2, <2>3, <2>4, RootLetKept
<1> QED
  BY <1>2, <1>3

LEMMA NextPaired ==
    TypeOK /\ Nesting /\ LetsKept /\ MustDeferPaired /\ [Next]_vars => MustDeferPaired'
<1> SUFFICES ASSUME TypeOK, Nesting, LetsKept, MustDeferPaired, [Next]_vars,
                    checked', errors' = {}, NEW i \in 1..Len(prog), RootLet(i)
             PROVE  Paired(i, BoundName(prog[i]))
  BY BodyKept DEF MustDeferPaired, RootLet, Paired
<1>1. CASE checked
  <2>1. errors = {}
    BY Forward
  <2> QED
    BY <1>1, <2>1 DEF MustDeferPaired, RootLet, IsBindingStmt
<1>2. CASE ~checked
  <2>1. FinishFunc
    BY <1>2, AfterType DEF Next, vars, CheckUse, CheckRef, MaybeMove, CheckLet, CheckLetRef,
       CheckAssign, CheckFieldAssign, BindPattern, UnbindPattern, EnterLoop, StmtEnd,
       LeaveLoop, CheckBreak, CheckDefer, PassMark, Returned
  <2>2. si \in Nat /\ Len(prog) \in Nat /\ si > Len(prog) /\ i < si
    BY <2>1 DEF FinishFunc, TypeOK
  <2>3. saved = <<>>
    BY <2>2 DEF Nesting
  <2>4. Resource(scope[BoundName(prog[i])])
    BY <2>2, <2>3 DEF LetsKept, Restored
  <2>5. i \notin Unpaired
    BY <2>1 DEF FinishFunc
  <2> QED
    BY <2>4, <2>5 DEF Unpaired, Resource, RootLet, IsBindingStmt
<1> QED
  BY <1>1, <1>2

LEMMA InitPaired ==
    Init => BalancedBody /\ Nesting /\ LetsKept /\ MustDeferPaired
<1> SUFFICES ASSUME Init PROVE BalancedBody /\ Nesting /\ LetsKept /\ MustDeferPaired
  OBVIOUS
<1>1. BalancedBody
  BY BindingsAssumption DEF Init, BalancedBody
<1>2. si = 1 /\ ei = 1 /\ saved = <<>> /\ checked = FALSE
  BY Zenon DEF Init
<1>3. Opened(prog[si], ei - 1) = 0
  BY <1>2, CountNone DEF Opened
<1>4. LetsKept
  <2>1. \A i \in 1..Len(prog) : ~(i < 1)
    BY InitTypeOK DEF TypeOK
  <2> QED
    BY <1>2, <2>1 DEF LetsKept
<1> QED
  BY <1>1, <1>2, <1>3, <1>4 DEF Nesting, MustDeferPaired

PairInv ==
    TypeOK /\ BalancedBody /\ NeverRebound(prog) /\ Nesting /\ LetsKept /\ MustDeferPaired

LEMMA InitPairInv == Init /\ NeverRebound(prog) => PairInv
  BY InitTypeOK, InitPaired DEF PairInv

LEMMA NextPairInv == PairInv /\ [Next]_vars => PairInv'
<1> SUFFICES ASSUME PairInv, [Next]_vars PROVE PairInv'
  OBVIOUS
<1>1. prog' = prog
  BY BodyKept DEF PairInv
<1>2. BalancedBody' /\ NeverRebound(prog)'
  BY <1>1 DEF BalancedBody, PairInv
<1> QED
  BY <1>2, NextTypeOK, NextNesting, NextLetsKept, NextPaired DEF PairInv

(* "each top-level binding of @must_defer type is paired" (types.cc:1430): *)
(* for every body that gives the name of such a value to no later `let` of *)
(* another type; without that premise the run of a rebinding body shows a  *)
(* value that is dropped.                                                  *)
THEOREM ResourcesPaired ==
    ASSUME \A p \in Programs : NeverRebound(p)
    PROVE  Spec => []MustDeferPaired
<1>1. Init => PairInv
  BY InitPairInv DEF Init
<1>2. PairInv => MustDeferPaired
  BY DEF PairInv
<1> QED
  BY <1>1, <1>2, NextPairInv, PTL DEF Spec
=============================================================================
