-------------------------- MODULE ConditionsStorage --------------------------
(***************************************************************************)
(* The storage of the active conditions (src/storage.ts) and the tasks     *)
(* that share it, which interleave at every await.  getBuildConditions     *)
(* hands out the stored object itself, so conditions objects are           *)
(* references into a heap.                                                 *)
(***************************************************************************)
EXTENDS Integers, Sequences

CONSTANTS
  Task, Group, Value, Undefined, Absent, Inputs,
  MaxObjects  \* bound: conditions objects ever created

VARIABLES
  objects,  \* the heap: contents of each conditions object
  storage,  \* "default" or "scoped"
  global,   \* globalThis.__BUILD_CONDITIONS__: an object, or None
  scope,    \* task -> the object its als.run carries, or None
  held,     \* task -> what its last getBuildConditions returned, or None
  outcome   \* task -> how its last call ended

vars == <<objects, storage, global, scope, held, outcome>>

None == 0

Read(ref) == IF ref = None THEN [g \in Group |-> Absent] ELSE objects[ref]

ByValue == INSTANCE ConditionsByValue WITH
  shared <- Read(global),
  own <- [t \in Task |-> Read(scope[t])],
  answer <- [t \in Task |-> Read(held[t])]

ASSUME StorageAssumption ==
  /\ ByValue!ByValueAssumption
  /\ MaxObjects \in Nat

Allocate(contents) ==
  /\ Len(objects) < MaxObjects
  /\ objects' = Append(objects, contents)

(* storage.get(), called from task t *)
Stored(t) == IF storage = "default" THEN global ELSE scope[t]

Init ==
  /\ objects = <<>>
  /\ storage = "default"
  /\ global = None
  /\ scope = [t \in Task |-> None]
  /\ held = [t \in Task |-> None]
  /\ outcome = [t \in Task |-> "none"]

Ends(t, how) == outcome' = [outcome EXCEPT ![t] = how]

(* als.run(conditions, callback): its scope is the task. *)
EnterScope(t, conditions) ==
  /\ scope[t] = None
  /\ Allocate(conditions)
  /\ scope' = [scope EXCEPT ![t] = Len(objects')]
  /\ UNCHANGED <<storage, global, held, outcome>>

(* The callback ends, and its locals with it. *)
LeaveScope(t) ==
  /\ scope[t] # None
  /\ scope' = [scope EXCEPT ![t] = None]
  /\ held' = [held EXCEPT ![t] = None]
  /\ Ends(t, "none")
  /\ UNCHANGED <<objects, storage, global>>

(* Mutant: the stored object is updated in place. *)
SetInPlace(t, conditions) ==
  /\ storage = "default"
  /\ IF global = None
     THEN Allocate(conditions) /\ global' = Len(objects')
     ELSE /\ objects' = [objects EXCEPT
                           ![global] = ByValue!Merge(@, conditions)]
          /\ UNCHANGED global
  /\ Ends(t, "set")
  /\ UNCHANGED <<storage, scope, held>>

(* Mutant: the global variable is set, the object is not created. *)
SetDangling(t, conditions) ==
  /\ storage = "default"
  /\ global' = Len(objects) + 1
  /\ Ends(t, "set")
  /\ UNCHANGED <<objects, storage, scope, held>>

(* Mutant: the new conditions replace the old ones. *)
SetReplacing(t, conditions) ==
  /\ storage = "default"
  /\ Allocate(conditions)
  /\ global' = Len(objects')
  /\ Ends(t, "set")
  /\ UNCHANGED <<storage, scope, held>>

SetBuildConditions(t, conditions) ==
  /\ storage = "default"
  /\ Allocate(ByValue!Merge(Read(global), conditions))
  /\ global' = Len(objects')
  /\ Ends(t, "set")
  /\ UNCHANGED <<storage, scope, held>>

(* if (!storage.set) throw *)
RefuseSet(t) ==
  /\ storage = "scoped"
  /\ Ends(t, "readOnly")
  /\ UNCHANGED <<objects, storage, global, scope, held>>

(* Object.keys(conditions).length > 0, of an object that exists *)
HasKeys(ref) == ref # None /\ \E g \in Group : objects[ref][g] # Absent

GetBuildConditions(t) ==
  /\ HasKeys(Stored(t))
  /\ held' = [held EXCEPT ![t] = Stored(t)]
  /\ Ends(t, "got")
  /\ UNCHANGED <<objects, storage, global, scope>>

RefuseGet(t) ==
  /\ ~HasKeys(Stored(t))
  /\ Ends(t, "notSet")
  /\ UNCHANGED <<objects, storage, global, scope, held>>

SetBuildConditionsStorage ==
  /\ storage' = "scoped"
  /\ UNCHANGED <<objects, global, scope, held, outcome>>

ResetBuildConditionsStorage ==
  /\ storage' = "default"
  /\ global' = None
  /\ UNCHANGED <<objects, scope, held, outcome>>

Next ==
  \/ \E t \in Task :
       \/ \E c \in Inputs : EnterScope(t, c) \/ SetBuildConditions(t, c)
       \/ LeaveScope(t) \/ RefuseSet(t)
       \/ GetBuildConditions(t) \/ RefuseGet(t)
  \/ SetBuildConditionsStorage
  \/ ResetBuildConditionsStorage

Spec == Init /\ [][Next]_vars

-----------------------------------------------------------------------------

Ref == {None} \cup DOMAIN objects

(* The type invariant: no reference dangles.                               *)
TypeOK ==
  /\ objects \in Seq(ByValue!Conditions)
  /\ storage \in {"default", "scoped"}
  /\ global \in Ref
  /\ scope \in [Task -> Ref]
  /\ held \in [Task -> Ref]
  /\ outcome \in [Task -> {"none", "set", "readOnly", "got", "notSet"}]

(* References are invisible: whatever the tasks do between two awaits, the *)
(* storage behaves as one that copies.  No update is lost, no request sees *)
(* another's conditions, and none of the objects it was given changes.     *)
ImplementsByValue == ByValue!Spec

(* Conditions, once there, stay there: a task that could read them can     *)
(* read some until the storage is reset or replaced or its scope ends.     *)
Readable(t) == HasKeys(Stored(t))

OnlyResetUnsets ==
  [][\A t \in Task :
       Readable(t) /\ ~Readable(t)' =>
         \/ ResetBuildConditionsStorage
         \/ SetBuildConditionsStorage
         \/ LeaveScope(t)]_vars
=============================================================================
