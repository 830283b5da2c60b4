-------------------------- MODULE ConditionsByValue --------------------------
(***************************************************************************)
(* What the conditions storage (src/storage.ts) promises its users: shared *)
(* conditions that merge, conditions of one's own in the scope of an       *)
(* als.run, and answers that are values, which nobody changes afterwards.  *)
(*                                                                         *)
(* Conditions map a group to its value, to Undefined for a key whose value *)
(* is undefined, or to Absent.                                             *)
(***************************************************************************)
CONSTANTS
  Task,       \* test cases, stories or requests, interleaved at awaits
  Group,
  Value,
  Undefined,
  Absent,
  Inputs      \* the conditions that callers pass

Conditions == [Group -> Value \cup {Undefined, Absent}]

ByValueAssumption ==
  /\ Absent \notin Value \cup {Undefined}
  /\ Inputs \subseteq Conditions

VARIABLES
  storage,  \* "default", or "scoped": the registered AsyncLocalStorage one
  shared,   \* the conditions of the default storage
  own,      \* task -> the conditions of its als.run
  answer,   \* task -> the conditions it was last given
  outcome   \* task -> how its last call ended

vars == <<storage, shared, own, answer, outcome>>

Nothing == [g \in Group |-> Absent]

(* { ...old, ...new } *)
Merge(old, new) ==
  [g \in Group |-> IF new[g] # Absent THEN new[g] ELSE old[g]]

(* The conditions task t is under. *)
Current(t) == IF storage = "default" THEN shared ELSE own[t]

Init ==
  /\ storage = "default"
  /\ shared = Nothing
  /\ own = [t \in Task |-> Nothing]
  /\ answer = [t \in Task |-> Nothing]
  /\ outcome = [t \in Task |-> "none"]

Ends(t, how) == outcome' = [outcome EXCEPT ![t] = how]

Enter(t) ==
  /\ \E c \in Inputs : own' = [own EXCEPT ![t] = c]
  /\ UNCHANGED <<storage, shared, answer, outcome>>

Set(t) ==
  /\ storage = "default"
  /\ \E c \in Inputs : shared' = Merge(shared, c)
  /\ Ends(t, "set")
  /\ UNCHANGED <<storage, own, answer>>

RefuseSet(t) ==
  /\ storage = "scoped"
  /\ Ends(t, "readOnly")
  /\ UNCHANGED <<storage, shared, own, answer>>

Get(t) ==
  /\ Current(t) # Nothing
  /\ answer' = [answer EXCEPT ![t] = Current(t)]
  /\ Ends(t, "got")
  /\ UNCHANGED <<storage, shared, own>>

RefuseGet(t) ==
  /\ Current(t) = Nothing
  /\ Ends(t, "notSet")
  /\ UNCHANGED <<storage, shared, own, answer>>

Leave(t) ==
  /\ own' = [own EXCEPT ![t] = Nothing]
  /\ answer' = [answer EXCEPT ![t] = Nothing]
  /\ Ends(t, "none")
  /\ UNCHANGED <<storage, shared>>

Register ==
  /\ storage' = "scoped"
  /\ UNCHANGED <<shared, own, answer, outcome>>

Reset ==
  /\ storage' = "default"
  /\ shared' = Nothing
  /\ UNCHANGED <<own, answer, outcome>>

Next ==
  \/ \E t \in Task : \/ Enter(t) \/ Set(t) \/ RefuseSet(t)
                     \/ Get(t) \/ RefuseGet(t) \/ Leave(t)
  \/ Register
  \/ Reset

Spec == Init /\ [][Next]_vars
=============================================================================
