----------------------- MODULE ConfigValidation_proof -----------------------
(***************************************************************************)
(* Proofs about Config::validate for any groups, values and list lengths.  *)
(***************************************************************************)
EXTENDS ConfigValidation, TLAPS

(* What the proofs use of a Vec<String> of the configuration. *)
LEMMA ListingIsSeq ==
  ASSUME NEW s \in Contract!Listing
  PROVE  /\ Len(s) \in Nat
         /\ \A i \in 1..Len(s) : s[i] \in Value
<1>1. PICK n \in 0..MaxListed : s \in [1..n -> Value]
  BY DEF Contract!Listing
<1>2. n \in Nat
  BY <1>1, ValidationAssumption DEF Contract!ConfigAssumption
<1>3. Len(s) = n
  BY <1>1, <1>2
<1> QED BY <1>1, <1>2, <1>3

(* Type correctness. *)
THEOREM TypeInvariant == Spec => []TypeOK
<1> USE ValidationAssumption DEF Contract!ConfigAssumption
<1>1. Init => TypeOK
  BY DEF Init, TypeOK, Keys, Blame, Errors, Contract!EmptyTable
<1>2. TypeOK /\ [Next]_vars => TypeOK'
  <2> SUFFICES ASSUME TypeOK, [Next]_vars PROVE TypeOK'
    OBVIOUS
  <2> USE DEF TypeOK, Errors
  <2>1. \A g \in Keys(groups) :
           /\ Len(groups[g]) \in Nat
           /\ \A i \in 1..Len(groups[g]) : groups[g][i] \in Value
    BY ListingIsSeq DEF Keys
  <2>2. ASSUME NEW g \in todo, EnterGroup(g) PROVE TypeOK'
    BY <2>1, <2>2 DEF EnterGroup, At, Keys
  <2>3. ASSUME NEW g \in todo, RejectUnconfiguredGroup(g) PROVE TypeOK'
    BY <2>3 DEF RejectUnconfiguredGroup, Fail, Blame
  <2>4. CASE InsertValue
    BY <2>1, <2>4 DEF InsertValue, Keys
  <2>5. CASE RejectDuplicate
    BY <2>1, <2>5 DEF RejectDuplicate, Fail, Blame, Keys
  <2>6. CASE LeaveGroup
    BY <2>6 DEF LeaveGroup
  <2>7. CASE StartConditions
    BY <2>7 DEF StartConditions, Keys
  <2>8. ASSUME NEW g \in todo, CheckChoice(g) PROVE TypeOK'
    BY <2>8 DEF CheckChoice, Keys
  <2>9. ASSUME NEW g \in todo, RejectUnlistedGroup(g) PROVE TypeOK'
    BY <2>9 DEF RejectUnlistedGroup, Fail, Blame
  <2>10. ASSUME NEW g \in todo, RejectChoice(g) PROVE TypeOK'
    <3>1. conditions[g] \in Value \cup {Absent}
      BY <2>10 DEF RejectChoice, ChoiceAllowed
    <3> QED BY <2>10, <3>1 DEF RejectChoice, Fail, Blame
  <2>11. CASE Accept
    BY <2>11 DEF Accept
  <2>12. CASE UNCHANGED vars
    BY <2>12 DEF vars, Keys
  <2> QED
    BY <2>2, <2>3, <2>4, <2>5, <2>6, <2>7, <2>8, <2>9, <2>10, <2>11, <2>12
    DEF Next
<1> QED BY <1>1, <1>2, PTL DEF Spec

-----------------------------------------------------------------------------

(* How far each list has been scanned, and what a full scan amounts to. *)
LEMMA ScannedBounds ==
  ASSUME TypeOK, NEW g \in Group
  PROVE  /\ Scanned(g) \in Nat
         /\ groups[g] = Absent => Scanned(g) = 0
         /\ groups[g] # Absent =>
              /\ Len(groups[g]) \in Nat
              /\ Scanned(g) <= Len(groups[g])
              /\ \A i \in 1..Len(groups[g]) : groups[g][i] \in Value
<1>1. groups[g] # Absent =>
        /\ Len(groups[g]) \in Nat
        /\ \A i \in 1..Len(groups[g]) : groups[g][i] \in Value
  BY ListingIsSeq DEF TypeOK
<1> QED BY <1>1 DEF Scanned, TypeOK, Keys

LEMMA FullScan ==
  ASSUME TypeOK, pc = "conditions" \/ (pc = "groups" /\ todo = {}),
         NEW g \in Group
  PROVE  Scanned(g) = IF groups[g] = Absent THEN 0 ELSE Len(groups[g])
BY DEF Scanned

(* A step that scans nothing new keeps the table and its uniqueness. *)
LEMMA SameScan ==
  ASSUME TypeOK, ScannedOnce, TableExact,
         UNCHANGED <<groups, valueToGroup>>,
         \A g \in Group : Scanned(g)' = Scanned(g)
  PROVE  ScannedOnce' /\ TableExact'
BY DEF ScannedOnce, TableExact

(* After a full scan, no value is listed twice and the table is the one    *)
(* the contract describes.                                                 *)
LEMMA FullScanResolves ==
  ASSUME TypeOK, ScannedOnce, TableExact,
         pc = "conditions" \/ (pc = "groups" /\ todo = {})
  PROVE  Contract!ListedOnce /\ Contract!Resolves(valueToGroup)
<1>1. \A g \in Group : groups[g] # Absent => Scanned(g) = Len(groups[g])
  BY FullScan
<1>2. Contract!ListedOnce
  BY <1>1 DEF ScannedOnce, Contract!ListedOnce
<1>3. ASSUME NEW v \in Value, NEW g \in Group
      PROVE  valueToGroup[v] = g <=> Contract!Listed(v, g)
  <2>1. CASE groups[g] = Absent
    <3>1. Scanned(g) = 0
      BY <2>1, ScannedBounds
    <3> QED BY <2>1, <3>1 DEF TableExact, Contract!Listed
  <2>2. CASE groups[g] # Absent
    BY <1>1, <2>2 DEF TableExact, Contract!Listed
  <2> QED BY <2>1, <2>2
<1> QED BY <1>2, <1>3 DEF Contract!Resolves

(* An insertion that finds no earlier entry scans one value more.          *)
LEMMA InsertValueKeeps ==
  ASSUME TypeOK, ScannedOnce, TableExact, GroupsVisited, InsertValue
  PROVE  ScannedOnce' /\ TableExact'
<1> DEFINE new == groups[current][index]
<1>1. /\ current \in Group
      /\ groups[current] # Absent
      /\ index \in 1..Len(groups[current])
      /\ new \in Value
      /\ valueToGroup[new] = Absent
  BY ScannedBounds DEF InsertValue, TypeOK, Keys
<1>2. \A g \in Group : Scanned(g)' = IF g = current THEN index ELSE Scanned(g)
  BY <1>1 DEF Scanned, InsertValue, TypeOK, GroupsVisited
<1>3. Scanned(current) = index - 1
  BY <1>1 DEF Scanned, InsertValue, GroupsVisited
<1>4. \A g \in Group : \A i \in 1..Scanned(g) : groups[g][i] # new
  <2>1. \A g \in Group : valueToGroup[new] # g
    BY <1>1, ValidationAssumption DEF Contract!ConfigAssumption
  <2> QED BY <1>1, <2>1 DEF TableExact
<1>5. UNCHANGED groups
  BY DEF InsertValue
<1>6. ScannedOnce'
  <2> SUFFICES ASSUME NEW g \in Group, NEW h \in Group,
                      NEW i \in 1..Scanned(g)', NEW j \in 1..Scanned(h)',
                      groups[g][i] = groups[h][j]
               PROVE  g = h /\ i = j
    BY <1>5 DEF ScannedOnce
  <2>1. (g = current /\ i = index) \/ i \in 1..Scanned(g)
    BY <1>1, <1>2, <1>3, ScannedBounds
  <2>2. (h = current /\ j = index) \/ j \in 1..Scanned(h)
    BY <1>1, <1>2, <1>3, ScannedBounds
  <2> QED BY <2>1, <2>2, <1>4 DEF ScannedOnce
<1>7. TableExact'
  <2> SUFFICES ASSUME NEW v \in Value, NEW g \in Group
               PROVE  valueToGroup'[v] = g <=>
                        \E i \in 1..Scanned(g)' : groups[g][i] = v
    BY <1>5 DEF TableExact
  <2>1. valueToGroup' = [valueToGroup EXCEPT ![new] = current]
    BY DEF InsertValue
  <2>2. CASE v = new
    <3>1. valueToGroup'[v] = current
      BY <2>1, <2>2, <1>1 DEF TypeOK
    <3>2. g # current => ~ \E i \in 1..Scanned(g)' : groups[g][i] = v
      BY <2>2, <1>2, <1>4
    <3> QED BY <2>2, <3>1, <3>2, <1>1, <1>2
  <2>3. CASE v # new
    <3>1. valueToGroup'[v] = valueToGroup[v]
      BY <2>1, <2>3 DEF TypeOK
    <3>2. (\E i \in 1..Scanned(g)' : groups[g][i] = v)
            <=> (\E i \in 1..Scanned(g) : groups[g][i] = v)
      BY <2>3, <1>1, <1>2, <1>3, ScannedBounds
    <3> QED BY <3>1, <3>2 DEF TableExact
  <2> QED BY <2>2, <2>3
<1> QED BY <1>6, <1>7

-----------------------------------------------------------------------------

LEMMA InitIInv == Init => IInv
<1> SUFFICES ASSUME Init PROVE IInv
  OBVIOUS
<1> USE ValidationAssumption DEF Contract!ConfigAssumption
<1>1. TypeOK
  BY DEF Init, TypeOK, Keys, Blame, Errors, Contract!EmptyTable
<1>2. \A g \in Group : Scanned(g) = 0
  BY DEF Init, Scanned, Keys
<1>3. \A g \in Group : \A i \in 1..Scanned(g) : FALSE
  BY <1>2
<1>4. \A v \in Value, g \in Group : valueToGroup[v] # g
  BY DEF Init, Contract!EmptyTable
<1>5. ScannedOnce
  BY <1>3 DEF ScannedOnce
<1>6. TableExact
  BY <1>3, <1>4 DEF TableExact
<1>7. GroupsVisited /\ ChoicesVisited /\ VerdictRight
  BY DEF Init, GroupsVisited, ChoicesVisited, VerdictRight, Keys, Errors
<1> QED BY <1>1, <1>5, <1>6, <1>7 DEF IInv, Init

(* A rejection is deserved: each error contradicts the contract.           *)
LEMMA RejectionDeserved ==
  ASSUME IInv,
         \/ \E g \in todo : \/ RejectUnconfiguredGroup(g)
                            \/ RejectUnlistedGroup(g)
                            \/ RejectChoice(g)
         \/ RejectDuplicate
  PROVE  ~Contract!WellFormed
<1> USE DEF IInv
<1>1. ASSUME NEW g \in todo, RejectUnconfiguredGroup(g)
      PROVE  ~Contract!SameGroups
  BY <1>1 DEF RejectUnconfiguredGroup, TypeOK, Keys, Contract!SameGroups
<1>2. ASSUME NEW g \in todo, RejectUnlistedGroup(g)
      PROVE  ~Contract!SameGroups
  BY <1>2 DEF RejectUnlistedGroup, TypeOK, Keys, Contract!SameGroups
<1>3. ASSUME NEW g \in todo, RejectChoice(g)
      PROVE  ~Contract!ChoicesListed
  <2>1. g \in Group /\ conditions[g] # Null /\ conditions[g] # Absent
    BY <1>3 DEF RejectChoice, ChoiceAllowed, TypeOK, Keys
  <2>2. conditions[g] \in Value
    BY <2>1 DEF TypeOK
  <2> QED BY <1>3, <2>1, <2>2 DEF RejectChoice, ChoiceAllowed,
                                  Contract!ChoicesListed
<1>4. ASSUME RejectDuplicate PROVE ~Contract!ListedOnce
  <2> DEFINE value == groups[current][index]
  <2>1. /\ current \in Group
        /\ groups[current] # Absent
        /\ index \in 1..Len(groups[current])
        /\ value \in Value
        /\ valueToGroup[value] \in Group
    BY <1>4, ScannedBounds DEF RejectDuplicate, TypeOK, Keys
  <2>2. PICK j \in 1..Scanned(valueToGroup[value]) :
          groups[valueToGroup[value]][j] = value
    BY <1>4, <2>1 DEF RejectDuplicate, TableExact
  <2>3. valueToGroup[value] = current => j # index
    BY <1>4, <2>1, <2>2 DEF Scanned, RejectDuplicate, GroupsVisited
  <2>4. /\ groups[valueToGroup[value]] # Absent
        /\ j \in 1..Len(groups[valueToGroup[value]])
    BY <2>1, <2>2, ScannedBounds
  <2> QED BY <2>1, <2>2, <2>3, <2>4 DEF Contract!ListedOnce
<1> QED BY <1>1, <1>2, <1>3, <1>4 DEF Contract!WellFormed

(* An acceptance is deserved.                                              *)
LEMMA AcceptanceDeserved ==
  ASSUME IInv, Accept
  PROVE  Contract!WellFormed /\ Contract!Resolves(valueToGroup)
<1> USE DEF IInv
<1>1. pc = "conditions" /\ todo = {}
  BY DEF Accept
<1>2. Contract!ListedOnce /\ Contract!Resolves(valueToGroup)
  BY <1>1, FullScanResolves
<1>3. Contract!SameGroups
  BY <1>1 DEF GroupsVisited, ChoicesVisited, Keys, Contract!SameGroups
<1>4. Contract!ChoicesListed
  <2> SUFFICES ASSUME NEW g \in Group, conditions[g] \in Value
               PROVE  Contract!Listed(conditions[g], g)
    BY DEF Contract!ChoicesListed
  <2>1. conditions[g] # Absent /\ conditions[g] # Null
    BY ValidationAssumption DEF Contract!ConfigAssumption
  <2> QED BY <1>1, <2>1 DEF ChoicesVisited, ChoiceAllowed, Keys
<1> QED BY <1>2, <1>3, <1>4 DEF Contract!WellFormed

-----------------------------------------------------------------------------

(* A deserved rejection ends the run with the invariant intact.            *)
LEMMA RejectedStep ==
  ASSUME IInv, TypeOK', ~Contract!WellFormed,
         UNCHANGED <<groups, conditions>>, pc' = "done", verdict' \in Errors
  PROVE  IInv'
<1>1. (~Contract!WellFormed)'
  BY DEF Contract!WellFormed, Contract!SameGroups, Contract!ListedOnce,
         Contract!ChoicesListed, Contract!Listed
<1> QED BY <1>1 DEF IInv, VerdictRight, Errors

(* The invariant is inductive: one step per action of Next.                *)
LEMMA StepIInv ==
  ASSUME IInv, [Next]_vars, TypeOK'
  PROVE  IInv'
<1> USE DEF IInv
<1>1. \A g \in Group : groups[g] # Absent => Scanned(g) <= Len(groups[g])
  BY ScannedBounds
<1>2. ASSUME NEW g \in todo, EnterGroup(g) PROVE IInv'
  <2>1. \A h \in Group : Scanned(h)' = Scanned(h)
    BY <1>2 DEF EnterGroup, At, Scanned, TypeOK, Keys
  <2>2. ScannedOnce' /\ TableExact'
    BY <1>2, <2>1, SameScan DEF EnterGroup, Errors, VerdictRight
  <2>3. GroupsVisited' /\ ChoicesVisited' /\ VerdictRight'
    BY <1>2 DEF EnterGroup, At, GroupsVisited, ChoicesVisited, VerdictRight,
                Keys, Errors
  <2> QED BY <1>2, <2>2, <2>3 DEF EnterGroup, VerdictRight, Errors
<1>3. ASSUME NEW g \in todo,
             RejectUnconfiguredGroup(g) \/ RejectUnlistedGroup(g)
               \/ RejectChoice(g)
      PROVE  IInv'
  <2>1. ~Contract!WellFormed
    BY <1>3, RejectionDeserved
  <2>2. UNCHANGED <<groups, conditions>> /\ pc' = "done" /\ verdict' \in Errors
    BY <1>3 DEF RejectUnconfiguredGroup, RejectUnlistedGroup, RejectChoice,
                Fail, Errors
  <2> QED BY <2>1, <2>2, RejectedStep
<1>4. CASE RejectDuplicate
  <2>1. ~Contract!WellFormed
    BY <1>4, RejectionDeserved
  <2>2. UNCHANGED <<groups, conditions>> /\ pc' = "done" /\ verdict' \in Errors
    BY <1>4 DEF RejectDuplicate, Fail, Errors
  <2> QED BY <2>1, <2>2, RejectedStep
<1>5. CASE InsertValue
  <2>1. ScannedOnce' /\ TableExact'
    BY <1>5, InsertValueKeeps DEF InsertValue
  <2>2. GroupsVisited' /\ ChoicesVisited' /\ VerdictRight'
    BY <1>5 DEF InsertValue, GroupsVisited, ChoicesVisited, VerdictRight,
                Keys, Errors
  <2> QED BY <1>5, <2>1, <2>2 DEF InsertValue, VerdictRight, Errors
<1>6. CASE LeaveGroup
  <2>1. \A h \in Group : Scanned(h)' = Scanned(h)
    <3>1. index = Len(groups[current]) + 1 /\ Len(groups[current]) \in Nat
      BY <1>6, ScannedBounds DEF LeaveGroup, TypeOK, Keys
    <3> QED BY <1>6, <3>1 DEF LeaveGroup, Scanned, GroupsVisited
  <2>2. ScannedOnce' /\ TableExact'
    BY <1>6, <2>1, SameScan DEF LeaveGroup
  <2>3. GroupsVisited' /\ ChoicesVisited' /\ VerdictRight'
    BY <1>6 DEF LeaveGroup, GroupsVisited, ChoicesVisited, VerdictRight,
                Keys, Errors
  <2> QED BY <1>6, <2>2, <2>3 DEF LeaveGroup, VerdictRight, Errors
<1>7. CASE StartConditions
  <2>1. \A h \in Group : Scanned(h)' = Scanned(h)
    BY <1>7 DEF StartConditions, Scanned
  <2>2. ScannedOnce' /\ TableExact'
    BY <1>7, <2>1, SameScan DEF StartConditions
  <2>3. GroupsVisited' /\ ChoicesVisited' /\ VerdictRight'
    BY <1>7 DEF StartConditions, GroupsVisited, ChoicesVisited, VerdictRight,
                Keys, Errors
  <2> QED BY <1>7, <2>2, <2>3 DEF StartConditions, VerdictRight, Errors
<1>8. ASSUME NEW g \in todo, CheckChoice(g) PROVE IInv'
  <2>1. \A h \in Group : Scanned(h)' = Scanned(h)
    BY <1>8 DEF CheckChoice, Scanned
  <2>2. ScannedOnce' /\ TableExact'
    BY <1>8, <2>1, SameScan DEF CheckChoice
  <2>3. GroupsVisited' /\ ChoicesVisited' /\ VerdictRight'
    BY <1>8 DEF CheckChoice, GroupsVisited, ChoicesVisited, VerdictRight,
                ChoiceAllowed, Contract!Listed, Keys, Errors
  <2> QED BY <1>8, <2>2, <2>3 DEF CheckChoice, VerdictRight, Errors
<1>9. CASE Accept
  <2>1. Contract!WellFormed /\ Contract!Resolves(valueToGroup)
    BY <1>9, AcceptanceDeserved
  <2>2. /\ UNCHANGED <<groups, conditions, valueToGroup>>
        /\ pc' = "done"
        /\ verdict' = "ok"
    BY <1>9 DEF Accept
  <2>3. Contract!WellFormed' /\ Contract!Resolves(valueToGroup)'
    BY <2>1, <2>2 DEF Contract!WellFormed, Contract!SameGroups,
         Contract!ListedOnce, Contract!ChoicesListed, Contract!Listed,
         Contract!Resolves
  <2> QED BY <2>2, <2>3 DEF VerdictRight, Errors
<1>10. CASE UNCHANGED vars
  BY <1>10 DEF vars, VerdictRight, ScannedOnce, TableExact, Scanned,
       GroupsVisited, ChoicesVisited, ChoiceAllowed, Keys,
       Contract!WellFormed, Contract!SameGroups, Contract!ListedOnce,
       Contract!ChoicesListed, Contract!Listed, Contract!Resolves
<1> QED
  BY <1>2, <1>3, <1>4, <1>5, <1>6, <1>7, <1>8, <1>9, <1>10 DEF Next

(* The strengthening that follows the two loops holds of every run.        *)
LEMMA Invariance == Spec => []IInv
<1>1. Init => IInv
  BY InitIInv
<1>2. IInv /\ TypeOK' /\ [Next]_vars => IInv'
  BY StepIInv
<1> QED BY <1>1, <1>2, TypeInvariant, PTL DEF Spec

(* validate accepts exactly the well-formed configurations and then        *)
(* returns the table that resolves every listed value to its group.        *)
THEOREM Refinement == Spec => ImplementsContract
<1> USE ValidationAssumption DEF Contract!ConfigAssumption
<1>1. Init => Contract!Init
  BY DEF Init, Contract!Init, Contract!EmptyTable
<1>2. IInv /\ IInv' /\ [Next]_vars => [Contract!Next]_(Contract!vars)
  <2> SUFFICES ASSUME IInv, IInv', [Next]_vars
               PROVE  [Contract!Next]_(Contract!vars)
    OBVIOUS
  <2>1. ASSUME NEW g \in todo,
               RejectUnconfiguredGroup(g) \/ RejectUnlistedGroup(g)
                 \/ RejectChoice(g)
        PROVE  Contract!Refuse
    <3>1. ~Contract!WellFormed
      BY <2>1, RejectionDeserved
    <3> QED BY <2>1, <3>1 DEF RejectUnconfiguredGroup, RejectUnlistedGroup,
                 RejectChoice, Fail, Contract!Refuse, IInv, VerdictRight
  <2>2. ASSUME RejectDuplicate PROVE Contract!Refuse
    <3>1. ~Contract!WellFormed
      BY <2>2, RejectionDeserved
    <3> QED BY <2>2, <3>1 DEF RejectDuplicate, Fail, Contract!Refuse, IInv,
                 VerdictRight
  <2>3. ASSUME Accept PROVE Contract!Accept
    <3>1. Contract!WellFormed /\ Contract!Resolves(valueToGroup)
      BY <2>3, AcceptanceDeserved
    <3>2. valueToGroup \in [Value -> Group \cup {Absent}]
      BY DEF IInv, TypeOK
    <3>3. verdict = "running" /\ verdict' = "ok"
          /\ UNCHANGED <<groups, conditions, valueToGroup>>
      BY <2>3 DEF Accept, IInv, VerdictRight
    <3> QED BY <3>1, <3>2, <3>3 DEF Contract!Accept, Contract!Resolves,
                 Contract!Listed
  <2>4. ASSUME InsertValue \/ LeaveGroup \/ StartConditions
        PROVE  UNCHANGED Contract!vars
    BY <2>4 DEF InsertValue, LeaveGroup, StartConditions, Contract!vars, IInv,
         VerdictRight
  <2>5. ASSUME NEW g \in todo, EnterGroup(g) \/ CheckChoice(g)
        PROVE  UNCHANGED Contract!vars
    BY <2>5 DEF EnterGroup, CheckChoice, Contract!vars, IInv, VerdictRight
  <2>6. CASE UNCHANGED vars
    BY <2>6 DEF vars, Contract!vars
  <2> QED BY <2>1, <2>2, <2>3, <2>4, <2>5, <2>6 DEF Next, Contract!Next
<1> QED BY <1>1, <1>2, Invariance, PTL
        DEF Spec, ImplementsContract, Contract!Spec

-----------------------------------------------------------------------------
(* Errors.  The groups visited come before those that are not, and the one *)
(* whose values are inserted is the last of them.                          *)

VisitedInOrder ==
  /\ pc \in {"groups", "values"} =>
       \A g \in Keys(groups) \ todo, h \in todo : g <= h
  /\ pc = "values" => \A g \in Keys(groups) \ todo : g <= current

LEMMA StepInOrder ==
  ASSUME TypeOK, VisitedInOrder, [Next]_vars PROVE VisitedInOrder'
<1> USE ValidationAssumption DEF Contract!ConfigAssumption
<1>1. \A g \in Group : g <= g
  OBVIOUS
<1>2. ASSUME NEW g \in todo, EnterGroup(g) PROVE VisitedInOrder'
  <2>1. \A h \in Keys(groups)' \ todo' : h <= g
    BY <1>1, <1>2 DEF EnterGroup, VisitedInOrder, Keys
  <2>2. \A h \in todo' : g <= h
    BY <1>2 DEF EnterGroup, At
  <2>3. todo' \subseteq Group /\ Keys(groups)' \subseteq Group /\ g \in Group
    BY <1>2 DEF EnterGroup, TypeOK, Keys
  <2>4. \A h \in Keys(groups)' \ todo', k \in todo' : h <= k
    <3> SUFFICES ASSUME NEW h \in Keys(groups)' \ todo', NEW k \in todo' PROVE h <= k
      OBVIOUS
    <3>1. h \in Nat /\ g \in Nat /\ k \in Nat
      BY <2>3
    <3> QED BY <2>1, <2>2, <3>1
  <2>5. pc' = "values" /\ current' = g
    BY <1>2 DEF EnterGroup
  <2> QED BY <2>1, <2>4, <2>5 DEF VisitedInOrder
<1>3. ASSUME NEW g \in todo,
             RejectUnconfiguredGroup(g) \/ RejectUnlistedGroup(g) \/ RejectChoice(g)
      PROVE  VisitedInOrder'
  BY <1>3 DEF RejectUnconfiguredGroup, RejectUnlistedGroup, RejectChoice, Fail,
              VisitedInOrder
<1>4. ASSUME NEW g \in todo, CheckChoice(g) PROVE VisitedInOrder'
  BY <1>4 DEF CheckChoice, VisitedInOrder
<1>5. CASE InsertValue \/ LeaveGroup
  BY <1>5 DEF InsertValue, LeaveGroup, VisitedInOrder, Keys
<1>6. CASE RejectDuplicate \/ StartConditions \/ Accept
  BY <1>6 DEF RejectDuplicate, Fail, StartConditions, Accept, VisitedInOrder
<1>7. CASE UNCHANGED vars
  BY <1>7 DEF vars, VisitedInOrder, Keys
<1> QED BY <1>2, <1>3, <1>4, <1>5, <1>6, <1>7 DEF Next

(* A place scanned is no repeat: the places before it are scanned too, and *)
(* no two scanned places hold one value.                                   *)
LEMMA ScannedIsNoRepeat ==
  ASSUME IInv, VisitedInOrder, pc # "done",
         NEW g \in Group, NEW i \in 1..Scanned(g)
  PROVE  ~IsRepeat(g, i)
<1> USE ValidationAssumption DEF Contract!ConfigAssumption
<1> SUFFICES ASSUME NEW h \in Keys(groups), NEW j \in 1..Len(groups[h]),
                    Repeats(h, j, g, i)
             PROVE  FALSE
  BY DEF IsRepeat
<1>1. h \in Group /\ groups[h] # Absent /\ g \in Nat /\ h \in Nat
  BY DEF Keys
<1>2. TypeOK /\ pc \in {"groups", "values", "conditions"}
  BY DEF IInv, TypeOK
<1>3. Scanned(g) \in Nat /\ Scanned(h) \in Nat /\ Len(groups[h]) \in Nat
  BY <1>1, <1>2, ScannedBounds
<1>4. groups[g] # Absent
  BY <1>2, <1>3, ScannedBounds
<1>5. CASE h = g
  <2>1. j \in 1..Scanned(h)
    BY <1>1, <1>3, <1>5 DEF Repeats, Before
  <2>2. j < i
    BY <1>1, <1>5 DEF Repeats, Before
  <2> QED BY <1>2, <1>5, <2>1, <2>2 DEF IInv, ScannedOnce, Repeats
<1>6. CASE h < g
  <2>1. pc \in {"groups", "values"} => g \notin todo
    BY <1>3 DEF Scanned
  <2>2. pc \in {"groups", "values"} => h \notin todo
    <3> SUFFICES ASSUME pc \in {"groups", "values"}, h \in todo PROVE FALSE
      OBVIOUS
    <3>1. g \in Keys(groups) \ todo
      BY <1>4, <2>1 DEF Keys
    <3>2. g <= h
      BY <3>1 DEF VisitedInOrder
    <3> QED BY <1>1, <1>6, <3>2
  <2>3. pc = "values" => h # current
    <3> SUFFICES ASSUME pc = "values", h = current PROVE FALSE
      OBVIOUS
    <3>1. g \in Keys(groups) \ todo
      BY <1>4, <2>1 DEF Keys
    <3>2. g <= current
      BY <3>1 DEF VisitedInOrder
    <3> QED BY <1>1, <1>6, <3>2
  <2>4. Scanned(h) = Len(groups[h])
    BY <1>1, <2>2, <2>3 DEF Scanned
  <2>5. g = h
    BY <1>1, <1>2, <2>4 DEF IInv, ScannedOnce, Repeats
  <2> QED BY <1>1, <1>6, <2>5
<1> QED BY <1>5, <1>6 DEF Repeats, Before

(* The groups the first loop has left pass it.                             *)
LEMMA LeftGroupPasses ==
  ASSUME IInv, VisitedInOrder, pc # "done",
         NEW g \in Keys(groups), pc \in {"groups", "values"} => g \notin todo,
         pc = "values" => g # current
  PROVE  GroupPasses(g)
<1>1. g \in Group /\ groups[g] # Absent
  BY DEF Keys
<1>2. pc \in {"groups", "values", "conditions"}
  BY DEF IInv, TypeOK
<1>3. conditions[g] # Absent
  BY <1>1, <1>2 DEF IInv, GroupsVisited, Keys
<1>4. Scanned(g) = Len(groups[g])
  BY <1>1 DEF Scanned
<1> QED BY <1>1, <1>3, <1>4, ScannedIsNoRepeat DEF GroupPasses

(* The groups before the one the first loop is at pass it.                 *)
LEMMA EarlierGroupPasses ==
  ASSUME IInv, VisitedInOrder, NEW g \in Group,
         \/ pc = "groups" /\ At(g)
         \/ pc = "values" /\ g = current,
         NEW h \in Keys(groups), h < g
  PROVE  GroupPasses(h)
<1> USE ValidationAssumption DEF Contract!ConfigAssumption
<1>1. h \in Group /\ h \in Nat /\ g \in Nat
  BY DEF Keys
<1>2. h \notin todo
  <2>1. CASE pc = "groups" /\ At(g)
    BY <1>1, <2>1 DEF At
  <2>2. CASE pc = "values" /\ g = current
    <3>1. g \in Keys(groups) \ todo
      BY <2>2 DEF IInv, TypeOK, GroupsVisited
    <3>2. h \in todo => g <= h
      BY <2>2, <3>1 DEF VisitedInOrder
    <3> QED BY <1>1, <3>2
  <2> QED BY <2>1, <2>2
<1>3. pc = "values" => h # current
  BY <1>1
<1>4. pc # "done"
  OBVIOUS
<1> QED BY <1>2, <1>3, <1>4, LeftGroupPasses

(* The place reported repeats an earlier one, of the group in the table.   *)
LEMMA DuplicateBlamed ==
  ASSUME IInv, VisitedInOrder, RejectDuplicate
  PROVE  LET value == groups[current][index]
             other == valueToGroup[value]
         IN  /\ current \in Keys(groups) /\ other \in Keys(groups)
             /\ \E i \in 1..Len(groups[current]) :
                  /\ groups[current][i] = value
                  /\ \A k \in 1..(i - 1) : ~IsRepeat(current, k)
                  /\ \E j \in 1..Len(groups[other]) : Repeats(other, j, current, i)
<1> USE ValidationAssumption DEF Contract!ConfigAssumption
<1> DEFINE value == groups[current][index]
           other == valueToGroup[value]
<1>1. /\ current \in Group
      /\ groups[current] # Absent
      /\ index \in 1..Len(groups[current])
      /\ value \in Value
      /\ other \in Group
      /\ pc = "values"
  BY ScannedBounds DEF RejectDuplicate, IInv, TypeOK, Keys
<1> HIDE DEF value
<1>2. PICK j \in 1..Scanned(other) : groups[other][j] = value
  BY <1>1 DEF IInv, TableExact
<1>3. groups[other] # Absent /\ j \in 1..Len(groups[other])
  <2> HIDE DEF other
  <2>1. Scanned(other) \in Nat /\ j <= Scanned(other) /\ Scanned(other) # 0
    BY <1>1, <1>2, ScannedBounds DEF IInv
  <2> QED BY <1>1, <1>2, <2>1, ScannedBounds DEF IInv
<1>4. other \notin todo
  BY <1>1, <1>2 DEF Scanned
<1>5. other <= current
  BY <1>1, <1>3, <1>4 DEF VisitedInOrder, Keys
<1>6. other = current => j < index
  BY <1>1, <1>2, <1>4 DEF Scanned
<1>7. other < current \/ (other = current /\ j < index)
  <2>1. other \in Nat /\ current \in Nat
    BY <1>1
  <2> QED BY <1>5, <1>6, <2>1
<1>8. groups[current][index] = value
  BY DEF value
<1>9. Repeats(other, j, current, index)
  BY <1>2, <1>7, <1>8 DEF Repeats, Before
<1>10. \A k \in 1..(index - 1) : ~IsRepeat(current, k)
  <2>1. Scanned(current) = index - 1
    BY <1>1 DEF Scanned, IInv, GroupsVisited
  <2> QED BY <1>1, <2>1, ScannedIsNoRepeat
<1>11. current \in Keys(groups) /\ other \in Keys(groups)
  BY <1>1, <1>3 DEF Keys
<1> QED BY <1>1, <1>3, <1>8, <1>9, <1>10, <1>11 DEF value

(* In the second loop every group passes, and every choice before it.      *)
LEMMA EarlierChoicePasses ==
  ASSUME IInv, VisitedInOrder, pc = "conditions", NEW g \in todo, At(g)
  PROVE  /\ \A h \in Keys(groups) : GroupPasses(h)
         /\ g \in Keys(conditions)
         /\ \A h \in Keys(conditions) : h < g => ChoicePasses(h)
<1> USE ValidationAssumption DEF Contract!ConfigAssumption
<1>1. \A h \in Keys(groups) : GroupPasses(h)
  BY LeftGroupPasses
<1>2. g \in Keys(conditions)
  BY DEF IInv, TypeOK
<1>3. ASSUME NEW h \in Keys(conditions), h < g PROVE ChoicePasses(h)
  <2>1. h \in Nat /\ g \in Nat
    BY <1>2 DEF Keys
  <2>2. h \notin todo
    BY <1>3, <2>1 DEF At
  <2> QED BY <2>2 DEF IInv, ChoicesVisited, ChoiceAllowed, ChoicePasses
<1> QED BY <1>1, <1>2, <1>3

(* What the errors are stated with depends on the configuration only.      *)
LEMMA SameOffenders ==
  ASSUME UNCHANGED <<groups, conditions>>
  PROVE  /\ Keys(groups)' = Keys(groups) /\ Keys(conditions)' = Keys(conditions)
         /\ \A g, i : IsRepeat(g, i)' = IsRepeat(g, i)
         /\ \A h, j, g, i : Repeats(h, j, g, i)' = Repeats(h, j, g, i)
         /\ \A g : GroupPasses(g)' = GroupPasses(g)
         /\ \A g : ChoicePasses(g)' = ChoicePasses(g)
BY DEF Keys, IsRepeat, Repeats, Before, GroupPasses, ChoicePasses, Contract!Listed

LEMMA StepBlames ==
  ASSUME IInv, VisitedInOrder, BlamesTheCulprit, [Next]_vars
  PROVE  BlamesTheCulprit'
<1> USE ValidationAssumption DEF Contract!ConfigAssumption
<1>1. ASSUME NEW g \in todo, RejectUnconfiguredGroup(g) PROVE BlamesTheCulprit'
  <2>1. pc = "groups" /\ At(g) /\ conditions[g] = Absent /\ g \in Keys(groups)
    BY <1>1 DEF RejectUnconfiguredGroup, IInv, TypeOK
  <2>2. \A h \in Keys(groups) : h < g => GroupPasses(h)
    BY <2>1, EarlierGroupPasses DEF Keys
  <2>3. verdict' = "groupNotInConditions" /\ blame'.group = g
    BY <1>1 DEF RejectUnconfiguredGroup, Fail, Blame
  <2>4. UNCHANGED <<groups, conditions>>
    BY <1>1 DEF RejectUnconfiguredGroup
  <2> QED BY <2>1, <2>2, <2>3, <2>4, SameOffenders DEF BlamesTheCulprit
<1>2. CASE RejectDuplicate
  <2> DEFINE value == groups[current][index]
             other == valueToGroup[value]
  <2>1. /\ current \in Keys(groups) /\ other \in Keys(groups)
        /\ \E i \in 1..Len(groups[current]) :
             /\ groups[current][i] = value
             /\ \A k \in 1..(i - 1) : ~IsRepeat(current, k)
             /\ \E j \in 1..Len(groups[other]) : Repeats(other, j, current, i)
    BY <1>2, DuplicateBlamed
  <2>2. /\ verdict' = "valueInTwoGroups" /\ UNCHANGED <<groups, conditions>>
        /\ blame'.group = current /\ blame'.other = other /\ blame'.value = value
    BY <1>2 DEF RejectDuplicate, Fail, Blame
  <2>3. pc = "values" /\ conditions[current] # Absent
    BY <1>2 DEF RejectDuplicate, IInv, GroupsVisited
  <2>4. \A h \in Keys(groups) : h < current => GroupPasses(h)
    BY <2>1, <2>3, EarlierGroupPasses DEF Keys
  <2> HIDE DEF value, other
  <2> QED BY <2>1, <2>2, <2>3, <2>4, SameOffenders DEF BlamesTheCulprit
<1>3. ASSUME NEW g \in todo, RejectUnlistedGroup(g) PROVE BlamesTheCulprit'
  <2>1. pc = "conditions" /\ At(g) /\ groups[g] = Absent
    BY <1>3 DEF RejectUnlistedGroup
  <2>2. /\ \A h \in Keys(groups) : GroupPasses(h)
        /\ g \in Keys(conditions)
        /\ \A h \in Keys(conditions) : h < g => ChoicePasses(h)
    BY <2>1, EarlierChoicePasses
  <2>3. verdict' = "groupNotInGroups" /\ blame'.group = g
    BY <1>3 DEF RejectUnlistedGroup, Fail, Blame
  <2>4. UNCHANGED <<groups, conditions>>
    BY <1>3 DEF RejectUnlistedGroup
  <2> QED BY <2>1, <2>2, <2>3, <2>4, SameOffenders DEF BlamesTheCulprit
<1>4. ASSUME NEW g \in todo, RejectChoice(g) PROVE BlamesTheCulprit'
  <2>1. pc = "conditions" /\ At(g) /\ groups[g] # Absent /\ ~ChoicePasses(g)
    BY <1>4 DEF RejectChoice, ChoiceAllowed, ChoicePasses
  <2>2. /\ \A h \in Keys(groups) : GroupPasses(h)
        /\ g \in Keys(conditions)
        /\ \A h \in Keys(conditions) : h < g => ChoicePasses(h)
    BY <2>1, EarlierChoicePasses
  <2>3. /\ verdict' = "choiceNotInGroup" /\ blame'.group = g
        /\ blame'.value = conditions[g] /\ UNCHANGED <<groups, conditions>>
    BY <1>4 DEF RejectChoice, Fail, Blame
  <2> QED BY <2>1, <2>2, <2>3, SameOffenders DEF BlamesTheCulprit
<1>5. ASSUME verdict' \in {"running", "ok"} PROVE BlamesTheCulprit'
  BY <1>5 DEF BlamesTheCulprit
<1>6. ASSUME pc # "done", UNCHANGED verdict PROVE BlamesTheCulprit'
  BY <1>5, <1>6 DEF IInv, VerdictRight
<1>7. ASSUME NEW g \in todo, EnterGroup(g) \/ CheckChoice(g) PROVE BlamesTheCulprit'
  BY <1>6, <1>7 DEF EnterGroup, CheckChoice
<1>8. CASE InsertValue \/ LeaveGroup \/ StartConditions
  BY <1>6, <1>8 DEF InsertValue, LeaveGroup, StartConditions
<1>9. CASE Accept
  BY <1>5, <1>9 DEF Accept
<1>10. CASE UNCHANGED vars
  <2>1. UNCHANGED <<groups, conditions, verdict, blame>>
    BY <1>10 DEF vars
  <2> QED BY <2>1, SameOffenders DEF BlamesTheCulprit
<1> QED
  BY <1>1, <1>2, <1>3, <1>4, <1>7, <1>8, <1>9, <1>10 DEF Next

(* The error of a rejected configuration names its first offender of any   *)
(* kind, in the order of the scan, whatever the groups, values and lists.  *)
THEOREM Blames == Spec => []BlamesTheCulprit
<1>1. Init => VisitedInOrder /\ BlamesTheCulprit
  BY DEF Init, VisitedInOrder, BlamesTheCulprit
<1>2. TypeOK /\ VisitedInOrder /\ [Next]_vars => VisitedInOrder'
  BY StepInOrder
<1>3. IInv /\ VisitedInOrder /\ BlamesTheCulprit /\ [Next]_vars => BlamesTheCulprit'
  BY StepBlames
<1> QED BY <1>1, <1>2, <1>3, TypeInvariant, Invariance, PTL DEF Spec
=============================================================================
