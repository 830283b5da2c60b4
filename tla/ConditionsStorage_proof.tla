----------------------- MODULE ConditionsStorage_proof -----------------------
(***************************************************************************)
(* Proofs about the conditions storage, for any tasks, groups, values and  *)
(* number of conditions objects.                                           *)
(***************************************************************************)
EXTENDS ConditionsStorage, TLAPS

LEMMA InputsAreConditions ==
  ASSUME NEW c \in Inputs PROVE c \in ByValue!Conditions
BY StorageAssumption DEF ByValue!ByValueAssumption

(* Merging conditions gives conditions. *)
LEMMA MergeType ==
  ASSUME NEW old \in ByValue!Conditions, NEW new \in ByValue!Conditions
  PROVE  ByValue!Merge(old, new) \in ByValue!Conditions
BY DEF ByValue!Merge, ByValue!Conditions

LEMMA ReadType ==
  ASSUME TypeOK, NEW ref \in Ref
  PROVE  Read(ref) \in ByValue!Conditions
<1>1. CASE ref = None
  BY <1>1 DEF Read, ByValue!Conditions
<1>2. CASE ref # None
  BY <1>2 DEF Read, Ref, TypeOK
<1> QED BY <1>1, <1>2

(* A new object: the references that existed read as before, the new one   *)
(* reads as its contents.                                                  *)
LEMMA AllocateReads ==
  ASSUME TypeOK, NEW contents \in ByValue!Conditions, Allocate(contents)
  PROVE  /\ objects' \in Seq(ByValue!Conditions)
         /\ Ref \subseteq Ref'
         /\ Len(objects') \in Ref'
         /\ Len(objects') # None
         /\ objects'[Len(objects')] = contents
         /\ \A ref \in Ref \ {None} : objects'[ref] = objects[ref]
BY DEF Allocate, TypeOK, Ref, None

(* Type correctness: no reference dangles.                                 *)
LEMMA StepTypeOK == TypeOK /\ [Next]_vars => TypeOK'
<1> SUFFICES ASSUME TypeOK, [Next]_vars PROVE TypeOK'
  OBVIOUS
<1>1. None \in Ref /\ None \in Ref'
  BY DEF Ref
<1>2. UNCHANGED objects => Ref' = Ref
  BY DEF Ref
<1>3. ASSUME NEW t \in Task, NEW c \in Inputs, EnterScope(t, c) PROVE TypeOK'
  BY <1>3, InputsAreConditions, AllocateReads DEF EnterScope, TypeOK
<1>4. ASSUME NEW t \in Task, NEW c \in Inputs, SetBuildConditions(t, c)
      PROVE  TypeOK'
  <2>1. ByValue!Merge(Read(global), c) \in ByValue!Conditions
    BY InputsAreConditions, ReadType, MergeType DEF TypeOK
  <2> QED BY <1>4, <2>1, AllocateReads DEF SetBuildConditions, Ends, TypeOK
<1>5. ASSUME NEW t \in Task,
             LeaveScope(t) \/ RefuseSet(t) \/ GetBuildConditions(t)
               \/ RefuseGet(t)
      PROVE  TypeOK'
  <2>1. Stored(t) \in Ref
    BY DEF Stored, TypeOK
  <2> QED BY <1>1, <1>2, <1>5, <2>1
          DEF LeaveScope, RefuseSet, GetBuildConditions, RefuseGet, Ends, TypeOK
<1>6. CASE SetBuildConditionsStorage \/ ResetBuildConditionsStorage
  BY <1>1, <1>2, <1>6
  DEF SetBuildConditionsStorage, ResetBuildConditionsStorage, TypeOK
<1>7. CASE UNCHANGED vars
  BY <1>2, <1>7 DEF vars, TypeOK
<1> QED BY <1>3, <1>4, <1>5, <1>6, <1>7 DEF Next

(* Type correctness: whatever tasks hold, and the storage, is an object.   *)
THEOREM TypeInvariant == Spec => []TypeOK
<1>1. Init => TypeOK
  BY DEF Init, TypeOK, Ref
<1> QED BY <1>1, StepTypeOK, PTL DEF Spec

-----------------------------------------------------------------------------

(* An object has keys exactly when reading it gives some conditions.       *)
LEMMA KeysAreConditions ==
  ASSUME TypeOK, NEW ref \in Ref
  PROVE  HasKeys(ref) <=> Read(ref) # ByValue!Nothing
<1>1. CASE ref = None
  BY <1>1 DEF Read, HasKeys, ByValue!Nothing
<1>2. CASE ref # None
  <2>1. objects[ref] \in ByValue!Conditions
    BY <1>2 DEF Ref, TypeOK
  <2> QED BY <1>2, <2>1 DEF Read, HasKeys, ByValue!Nothing, ByValue!Conditions
<1> QED BY <1>1, <1>2

(* The heap is only ever extended: who kept a reference keeps its value.   *)
LEMMA ReadsStay ==
  ASSUME TypeOK, [Next]_vars, NEW ref \in Ref
  PROVE  Read(ref)' = Read(ref)
<1>1. CASE ref = None
  BY <1>1 DEF Read
<1>2. CASE ref # None /\ UNCHANGED objects
  BY <1>2 DEF Read
<1>3. CASE ref # None /\ \E contents \in ByValue!Conditions : Allocate(contents)
  BY <1>3, AllocateReads DEF Read
<1>4. UNCHANGED objects \/ \E contents \in ByValue!Conditions : Allocate(contents)
  <2>1. ASSUME NEW t \in Task, NEW c \in Inputs, EnterScope(t, c)
        PROVE  \E contents \in ByValue!Conditions : Allocate(contents)
    BY <2>1, InputsAreConditions DEF EnterScope
  <2>2. ASSUME NEW t \in Task, NEW c \in Inputs, SetBuildConditions(t, c)
        PROVE  \E contents \in ByValue!Conditions : Allocate(contents)
    BY <2>2, InputsAreConditions, ReadType, MergeType
    DEF SetBuildConditions, TypeOK
  <2> QED BY <2>1, <2>2
      DEF Next, vars, LeaveScope, RefuseSet, GetBuildConditions, RefuseGet,
          SetBuildConditionsStorage, ResetBuildConditionsStorage
<1> QED BY <1>1, <1>2, <1>3, <1>4

(* What the tasks see of a step: their conditions, by value.               *)
Shared == Read(global)
Own == [t \in Task |-> Read(scope[t])]
Given == [t \in Task |-> Read(held[t])]

LEMMA SharedStays ==
  ASSUME TypeOK, [Next]_vars, UNCHANGED global PROVE Shared' = Shared
BY ReadsStay DEF Shared, TypeOK

LEMMA OwnStays ==
  ASSUME TypeOK, [Next]_vars, UNCHANGED scope PROVE Own' = Own
<1>1. ASSUME NEW t \in Task PROVE Read(scope[t])' = Read(scope[t])
  BY ReadsStay DEF TypeOK, Read
<1> QED BY <1>1 DEF Own

LEMMA GivenStays ==
  ASSUME TypeOK, [Next]_vars, UNCHANGED held PROVE Given' = Given
<1>1. ASSUME NEW t \in Task PROVE Read(held[t])' = Read(held[t])
  BY ReadsStay DEF TypeOK, Read
<1> QED BY <1>1 DEF Given

(* A task that gets a new reference sees the contents it refers to; what   *)
(* the other tasks see stays.                                              *)
LEMMA OwnChanges ==
  ASSUME TypeOK, [Next]_vars, NEW t \in Task, NEW ref \in Ref',
         scope' = [scope EXCEPT ![t] = ref]
  PROVE  Own' = [Own EXCEPT ![t] = Read(ref)']
<1>1. ASSUME NEW u \in Task, u # t PROVE Read(scope[u])' = Read(scope[u])
  <2>1. scope'[u] = scope[u]
    BY <1>1 DEF TypeOK
  <2> QED BY <2>1, ReadsStay DEF TypeOK, Read
<1>2. Read(scope[t])' = Read(ref)'
  BY DEF TypeOK, Read
<1> QED BY <1>1, <1>2 DEF Own

LEMMA GivenChanges ==
  ASSUME TypeOK, [Next]_vars, NEW t \in Task, NEW ref \in Ref',
         held' = [held EXCEPT ![t] = ref]
  PROVE  Given' = [Given EXCEPT ![t] = Read(ref)']
<1>1. ASSUME NEW u \in Task, u # t PROVE Read(held[u])' = Read(held[u])
  <2>1. held'[u] = held[u]
    BY <1>1 DEF TypeOK
  <2> QED BY <2>1, ReadsStay DEF TypeOK, Read
<1>2. Read(held[t])' = Read(ref)'
  BY DEF TypeOK, Read
<1> QED BY <1>1, <1>2 DEF Given

LEMMA CurrentIsStored ==
  ASSUME TypeOK, NEW t \in Task
  PROVE  Stored(t) \in Ref /\ ByValue!Current(t) = Read(Stored(t))
BY DEF TypeOK, Stored, ByValue!Current

-----------------------------------------------------------------------------

(* Every step is a step of the storage that copies.                        *)
LEMMA EnterRefines ==
  ASSUME TypeOK, NEW t \in Task, NEW c \in Inputs, EnterScope(t, c)
  PROVE  ByValue!Enter(t)
<1>1. Next
  BY DEF Next
<1>2. /\ Len(objects') \in Ref'
      /\ Len(objects') # None
      /\ objects'[Len(objects')] = c
  BY InputsAreConditions, AllocateReads DEF EnterScope
<1>3. Own' = [Own EXCEPT ![t] = c]
  BY <1>1, <1>2, OwnChanges DEF EnterScope, Read
<1>4. Shared' = Shared /\ Given' = Given
  BY <1>1, SharedStays, GivenStays DEF EnterScope
<1> QED BY <1>3, <1>4 DEF EnterScope, ByValue!Enter, Own, Shared, Given

LEMMA SetRefines ==
  ASSUME TypeOK, NEW t \in Task, NEW c \in Inputs, SetBuildConditions(t, c)
  PROVE  ByValue!Set(t)
<1>1. Next
  BY DEF Next
<1>2. ByValue!Merge(Read(global), c) \in ByValue!Conditions
  BY InputsAreConditions, ReadType, MergeType DEF TypeOK
<1>3. /\ Len(objects') # None
      /\ objects'[Len(objects')] = ByValue!Merge(Read(global), c)
  BY <1>2, AllocateReads DEF SetBuildConditions
<1>4. Shared' = ByValue!Merge(Shared, c)
  BY <1>3 DEF SetBuildConditions, Shared, Read
<1>5. Own' = Own /\ Given' = Given
  BY <1>1, OwnStays, GivenStays DEF SetBuildConditions
<1> QED BY <1>4, <1>5 DEF SetBuildConditions, Ends, ByValue!Set, ByValue!Ends,
                          Own, Shared, Given

LEMMA GetRefines ==
  ASSUME TypeOK, NEW t \in Task, GetBuildConditions(t)
  PROVE  ByValue!Get(t)
<1>1. Next
  BY DEF Next
<1>2. Stored(t) \in Ref /\ Stored(t) \in Ref'
  BY CurrentIsStored DEF GetBuildConditions, Ref
<1>3. Given' = [Given EXCEPT ![t] = ByValue!Current(t)]
  BY <1>1, <1>2, GivenChanges, CurrentIsStored DEF GetBuildConditions, Read
<1>4. ByValue!Current(t) # ByValue!Nothing
  BY <1>2, CurrentIsStored, KeysAreConditions DEF GetBuildConditions
<1>5. Shared' = Shared /\ Own' = Own
  BY <1>1, SharedStays, OwnStays DEF GetBuildConditions
<1> QED BY <1>3, <1>4, <1>5
        DEF GetBuildConditions, Ends, ByValue!Get, ByValue!Ends, Own, Shared,
            Given

LEMMA LeaveRefines ==
  ASSUME TypeOK, NEW t \in Task, LeaveScope(t)
  PROVE  ByValue!Leave(t)
<1>1. Next
  BY DEF Next
<1>2. None \in Ref' /\ Read(None)' = ByValue!Nothing
  BY DEF Ref, Read, ByValue!Nothing
<1>3. Own' = [Own EXCEPT ![t] = ByValue!Nothing]
  BY <1>1, <1>2, OwnChanges DEF LeaveScope
<1>4. Given' = [Given EXCEPT ![t] = ByValue!Nothing]
  BY <1>1, <1>2, GivenChanges DEF LeaveScope
<1>5. Shared' = Shared
  BY <1>1, SharedStays DEF LeaveScope
<1> QED BY <1>3, <1>4, <1>5
        DEF LeaveScope, Ends, ByValue!Leave, ByValue!Ends, Own, Shared, Given

(* References are invisible, for any number of tasks and of objects.       *)
THEOREM StorageIsByValue == Spec => ImplementsByValue
<1>1. Init => ByValue!Init
  BY DEF Init, ByValue!Init, ByValue!Nothing, Read
<1>2. TypeOK /\ [Next]_vars => [ByValue!Next]_(ByValue!vars)
  <2> SUFFICES ASSUME TypeOK, [Next]_vars
               PROVE  [ByValue!Next]_(ByValue!vars)
    OBVIOUS
  <2>1. ASSUME NEW t \in Task, RefuseSet(t) PROVE ByValue!RefuseSet(t)
    <3>1. Shared' = Shared /\ Own' = Own /\ Given' = Given
      BY <2>1, SharedStays, OwnStays, GivenStays DEF RefuseSet
    <3> QED BY <2>1, <3>1 DEF RefuseSet, Ends, ByValue!RefuseSet, ByValue!Ends,
                              Own, Shared, Given
  <2>2. ASSUME NEW t \in Task, RefuseGet(t) PROVE ByValue!RefuseGet(t)
    <3>1. Shared' = Shared /\ Own' = Own /\ Given' = Given
      BY <2>2, SharedStays, OwnStays, GivenStays DEF RefuseGet
    <3>2. ByValue!Current(t) = ByValue!Nothing
      BY <2>2, CurrentIsStored, KeysAreConditions DEF RefuseGet
    <3> QED BY <2>2, <3>1, <3>2 DEF RefuseGet, Ends, ByValue!RefuseGet,
                                    ByValue!Ends, Own, Shared, Given
  <2>3. CASE SetBuildConditionsStorage
    <3>1. Shared' = Shared /\ Own' = Own /\ Given' = Given
      BY <2>3, SharedStays, OwnStays, GivenStays DEF SetBuildConditionsStorage
    <3>2. ByValue!Register
      BY <2>3, <3>1 DEF SetBuildConditionsStorage, ByValue!Register, Own,
                        Shared, Given
    <3> QED BY <3>2 DEF ByValue!Next
  <2>4. CASE ResetBuildConditionsStorage
    <3>1. Own' = Own /\ Given' = Given
      BY <2>4, OwnStays, GivenStays DEF ResetBuildConditionsStorage
    <3>2. Shared' = ByValue!Nothing
      BY <2>4 DEF ResetBuildConditionsStorage, Shared, Read, ByValue!Nothing
    <3>3. ByValue!Reset
      BY <2>4, <3>1, <3>2 DEF ResetBuildConditionsStorage, ByValue!Reset, Own,
                              Shared, Given
    <3> QED BY <3>3 DEF ByValue!Next
  <2>5. CASE UNCHANGED vars
    <3>1. Shared' = Shared /\ Own' = Own /\ Given' = Given
      BY <2>5, SharedStays, OwnStays, GivenStays DEF vars
    <3> QED BY <2>5, <3>1 DEF vars, ByValue!vars, Own, Shared, Given
  <2> QED BY <2>1, <2>2, <2>3, <2>4, <2>5, EnterRefines, SetRefines,
             GetRefines, LeaveRefines DEF Next, ByValue!Next
<1> QED BY <1>1, <1>2, TypeInvariant, PTL
        DEF Spec, ImplementsByValue, ByValue!Spec

-----------------------------------------------------------------------------

(* What could be read of an object can still be: it is never written.      *)
LEMMA KeysStay ==
  ASSUME TypeOK, NEW ref \in Ref, HasKeys(ref),
         \/ UNCHANGED objects
         \/ \E c \in ByValue!Conditions : Allocate(c)
  PROVE  HasKeys(ref)'
<1>1. objects'[ref] = objects[ref]
  BY AllocateReads DEF HasKeys
<1> QED
  BY <1>1 DEF HasKeys

(* A merge keeps the keys that were there. *)
LEMMA MergeHasKeys ==
  ASSUME TypeOK, NEW conditions \in ByValue!Conditions, HasKeys(global),
         Allocate(ByValue!Merge(Read(global), conditions)),
         global' = Len(objects')
  PROVE  HasKeys(global)'
<1> DEFINE merged == ByValue!Merge(Read(global), conditions)
<1>1. merged \in ByValue!Conditions
  BY ReadType, MergeType DEF TypeOK
<1>2. global' # None /\ objects'[global'] = merged
  BY <1>1, AllocateReads
<1>3. PICK g \in Group : objects[global][g] # Absent
  BY DEF HasKeys
<1>4. merged[g] # Absent
  BY <1>3 DEF HasKeys, Read, ByValue!Merge
<1> HIDE DEF merged
<1> QED
  BY <1>2, <1>4 DEF HasKeys

(* No call makes conditions disappear from a task that could read some,    *)
(* its own or another's, but a reset, a new storage or the end of its      *)
(* scope.                                                                  *)
THEOREM ConditionsStay == Spec => OnlyResetUnsets
<1>1. ASSUME TypeOK, [Next]_vars, NEW t \in Task, Readable(t), ~Readable(t)'
      PROVE  \/ ResetBuildConditionsStorage
             \/ SetBuildConditionsStorage
             \/ LeaveScope(t)
  <2> SUFFICES ASSUME ~ResetBuildConditionsStorage,
                      ~SetBuildConditionsStorage, ~LeaveScope(t)
               PROVE  Readable(t)'
    BY <1>1
  <2>1. Stored(t) \in Ref /\ HasKeys(Stored(t)) /\ Stored(t) # None
    BY <1>1 DEF Stored, Readable, HasKeys, TypeOK
  <2>2. ASSUME NEW s \in Task, NEW c \in Inputs, EnterScope(s, c)
        PROVE  Readable(t)'
    <3>1. Stored(t)' = Stored(t)
      BY <1>1, <2>1, <2>2 DEF EnterScope, Stored, TypeOK
    <3> QED
      BY <1>1, <2>1, <2>2, <3>1, KeysStay, InputsAreConditions
      DEF EnterScope, Readable, HasKeys
  <2>3. ASSUME NEW s \in Task, NEW c \in Inputs, SetBuildConditions(s, c)
        PROVE  Readable(t)'
    <3>1. Stored(t) = global /\ Stored(t)' = global'
      BY <2>3 DEF SetBuildConditions, Stored
    <3> QED
      BY <1>1, <2>1, <2>3, <3>1, MergeHasKeys, InputsAreConditions
      DEF SetBuildConditions, Readable, HasKeys
  <2>4. ASSUME UNCHANGED objects, Stored(t)' = Stored(t) PROVE Readable(t)'
    BY <2>1, <2>4 DEF Readable, HasKeys
  <2>5. ASSUME NEW s \in Task, LeaveScope(s) PROVE Readable(t)'
    <3>1. s # t
      BY <2>5
    <3> QED
      BY <1>1, <2>4, <2>5, <3>1 DEF LeaveScope, Stored, TypeOK
  <2>6. ASSUME NEW s \in Task,
               RefuseSet(s) \/ GetBuildConditions(s) \/ RefuseGet(s)
        PROVE  Readable(t)'
    BY <2>4, <2>6 DEF RefuseSet, GetBuildConditions, RefuseGet, Stored
  <2>7. CASE UNCHANGED vars
    BY <2>4, <2>7 DEF vars, Stored
  <2> QED
    BY <1>1, <2>2, <2>3, <2>5, <2>6, <2>7 DEF Next
<1>2. TypeOK /\ [Next]_vars =>
        [\A t \in Task :
           Readable(t) /\ ~Readable(t)' =>
             \/ ResetBuildConditionsStorage
             \/ SetBuildConditionsStorage
             \/ LeaveScope(t)]_vars
  BY <1>1
<1> QED
  BY <1>2, TypeInvariant, PTL DEF Spec, OnlyResetUnsets
=============================================================================
