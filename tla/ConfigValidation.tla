-------------------------- MODULE ConfigValidation --------------------------
(***************************************************************************)
(* Config::validate of the SWC plugin (swc-plugin/src/lib.rs), one step    *)
(* per iteration of its loops.  Both loops run over a BTreeMap, that is in *)
(* the order of the group names, and leave at the first error.             *)
(***************************************************************************)
EXTENDS Integers, Sequences

CONSTANTS Group, Value, Null, Absent, MaxListed

VARIABLES
  groups,        \* input: group -> its values
  conditions,    \* input: group -> chosen value or Null
  pc,            \* "groups", "values", "conditions" or "done"
  todo,          \* keys the running loop has not reached
  current,       \* the group whose values are being inserted
  index,         \* the next of its values
  valueToGroup,  \* the table under construction
  verdict,       \* "running", "ok" or the kind of error
  blame          \* what the error message names

vars == <<groups, conditions, pc, todo, current, index, valueToGroup,
          verdict, blame>>

Contract == INSTANCE ConfigContract WITH
  table <- IF verdict = "ok" THEN valueToGroup ELSE [v \in Value |-> Absent],
  verdict <- IF verdict \in {"running", "ok"} THEN verdict ELSE "rejected"

ASSUME ValidationAssumption == Contract!ConfigAssumption

Keys(map) == {g \in Group : map[g] # Absent}

(* Mutant: a HashMap, whose iterator yields the keys in any order. *)
AtAny(g) == g \in todo

(* The BTreeMap iterator is at g: the least key it has not yielded. *)
At(g) == g \in todo /\ \A h \in todo : g <= h

Errors == {"groupNotInConditions", "valueInTwoGroups", "groupNotInGroups",
           "choiceNotInGroup"}

Blame(g, h, v) == [group |-> g, other |-> h, value |-> v]

Init ==
  /\ groups \in [Group -> Contract!Listing \cup {Absent}]
  /\ conditions \in [Group -> Value \cup {Null, Absent}]
  /\ pc = "groups"
  /\ todo = Keys(groups)
  /\ current = Absent
  /\ index = 1
  /\ valueToGroup = Contract!EmptyTable
  /\ verdict = "running"
  /\ blame = Blame(Absent, Absent, Absent)

Fail(error, culprit) ==
  /\ pc' = "done"
  /\ verdict' = error
  /\ blame' = culprit

(* Mutant: the value iterator is not restarted for the next group. *)
EnterGroupMidway(g) ==
  /\ pc = "groups"
  /\ At(g)
  /\ conditions[g] # Absent
  /\ pc' = "values"
  /\ current' = g
  /\ todo' = todo \ {g}
  /\ UNCHANGED <<groups, conditions, index, valueToGroup, verdict, blame>>

(* for (group, values) in &self.groups: the group is configured. *)
EnterGroup(g) ==
  /\ pc = "groups"
  /\ At(g)
  /\ conditions[g] # Absent
  /\ pc' = "values"
  /\ current' = g
  /\ todo' = todo \ {g}
  /\ index' = 1
  /\ UNCHANGED <<groups, conditions, valueToGroup, verdict, blame>>

RejectUnconfiguredGroup(g) ==
  /\ pc = "groups"
  /\ At(g)
  /\ conditions[g] = Absent
  /\ Fail("groupNotInConditions", Blame(g, Absent, Absent))
  /\ UNCHANGED <<groups, conditions, todo, current, index, valueToGroup>>

(* value_to_group.insert(value, group) finds no earlier entry. *)
InsertValue ==
  /\ pc = "values"
  /\ index <= Len(groups[current])
  /\ valueToGroup[groups[current][index]] = Absent
  /\ valueToGroup' = [valueToGroup EXCEPT ![groups[current][index]] = current]
  /\ index' = index + 1
  /\ UNCHANGED <<groups, conditions, pc, todo, current, verdict, blame>>

(* The insert has already replaced the entry when it reports the old one. *)
RejectDuplicate ==
  LET value == groups[current][index] IN
  /\ pc = "values"
  /\ index <= Len(groups[current])
  /\ valueToGroup[value] # Absent
  /\ valueToGroup' = [valueToGroup EXCEPT ![value] = current]
  /\ Fail("valueInTwoGroups", Blame(current, valueToGroup[value], value))
  /\ UNCHANGED <<groups, conditions, todo, current, index>>

LeaveGroup ==
  /\ pc = "values"
  /\ index > Len(groups[current])
  /\ pc' = "groups"
  /\ UNCHANGED <<groups, conditions, todo, current, index, valueToGroup,
                 verdict, blame>>

StartConditions ==
  /\ pc = "groups"
  /\ todo = {}
  /\ pc' = "conditions"
  /\ todo' = Keys(conditions)
  /\ UNCHANGED <<groups, conditions, current, index, valueToGroup, verdict,
                 blame>>

(* Mutant: the choice may be a value of any group. *)
ChoiceInSomeGroup(g) ==
  conditions[g] = Null \/ \E h \in Group : Contract!Listed(conditions[g], h)

ChoiceAllowed(g) ==
  conditions[g] = Null \/ Contract!Listed(conditions[g], g)

(* Mutant: the iterator does not advance. *)
CheckSameChoice(g) ==
  /\ pc = "conditions"
  /\ At(g)
  /\ groups[g] # Absent
  /\ ChoiceAllowed(g)
  /\ UNCHANGED vars

(* for (group, chosen) in &self.conditions: the choice is allowed. *)
CheckChoice(g) ==
  /\ pc = "conditions"
  /\ At(g)
  /\ groups[g] # Absent
  /\ ChoiceAllowed(g)
  /\ todo' = todo \ {g}
  /\ UNCHANGED <<groups, conditions, pc, current, index, valueToGroup,
                 verdict, blame>>

RejectUnlistedGroup(g) ==
  /\ pc = "conditions"
  /\ At(g)
  /\ groups[g] = Absent
  /\ Fail("groupNotInGroups", Blame(g, Absent, Absent))
  /\ UNCHANGED <<groups, conditions, todo, current, index, valueToGroup>>

RejectChoice(g) ==
  /\ pc = "conditions"
  /\ At(g)
  /\ groups[g] # Absent
  /\ ~ChoiceAllowed(g)
  /\ Fail("choiceNotInGroup", Blame(g, Absent, conditions[g]))
  /\ UNCHANGED <<groups, conditions, todo, current, index, valueToGroup>>

Accept ==
  /\ pc = "conditions"
  /\ todo = {}
  /\ pc' = "done"
  /\ verdict' = "ok"
  /\ UNCHANGED <<groups, conditions, todo, current, index, valueToGroup,
                 blame>>

Next ==
  \/ \E g \in todo :
       \/ EnterGroup(g) \/ RejectUnconfiguredGroup(g)
       \/ CheckChoice(g) \/ RejectUnlistedGroup(g) \/ RejectChoice(g)
  \/ InsertValue \/ RejectDuplicate \/ LeaveGroup
  \/ StartConditions
  \/ Accept

(* A plain sequential function: once called it runs to its return. *)
Spec == Init /\ [][Next]_vars /\ WF_vars(Next)

-----------------------------------------------------------------------------

(* The type invariant: each loop of validate runs over keys of its own     *)
(* map, and its index never passes one beyond the list it reads.           *)
TypeOK ==
  /\ groups \in [Group -> Contract!Listing \cup {Absent}]
  /\ conditions \in [Group -> Value \cup {Null, Absent}]
  /\ pc \in {"groups", "values", "conditions", "done"}
  /\ todo \in SUBSET Group
  /\ pc \in {"groups", "values"} => todo \subseteq Keys(groups)
  /\ pc = "conditions" => todo \subseteq Keys(conditions)
  /\ current \in Group \cup {Absent}
  /\ index \in Nat
  /\ pc = "values" => /\ current \in Keys(groups)
                      /\ index \in 1..(Len(groups[current]) + 1)
  /\ valueToGroup \in [Value -> Group \cup {Absent}]
  /\ verdict \in {"running", "ok"} \cup Errors
  /\ blame \in [group: Group \cup {Absent}, other: Group \cup {Absent},
                value: Value \cup {Absent}]

(* What the scan of the configuration looks at: a place of a group's list  *)
(* repeats the value of an earlier one; a group passes the first loop, a   *)
(* choice the second.                                                      *)
Before(h, j, g, i) == h < g \/ (h = g /\ j < i)

Repeats(h, j, g, i) == Before(h, j, g, i) /\ groups[h][j] = groups[g][i]

IsRepeat(g, i) ==
  \E h \in Keys(groups) : \E j \in 1..Len(groups[h]) : Repeats(h, j, g, i)

GroupPasses(g) ==
  conditions[g] # Absent /\ \A i \in 1..Len(groups[g]) : ~IsRepeat(g, i)

ChoicePasses(g) ==
  /\ groups[g] # Absent
  /\ conditions[g] = Null \/ Contract!Listed(conditions[g], g)

(* The error names the first offender of any kind: in the order of the     *)
(* group names, the groups (an unconfigured one, or the first place of its *)
(* list that repeats a value, with the group of the earlier place), then   *)
(* the choices (an unlisted group, or a choice its group does not list).   *)
(* A value that one list repeats is blamed on that group twice: only then  *)
(* is the text of the error, that two groups hold it, untrue.              *)
BlamesTheCulprit ==
  /\ verdict \in {"groupNotInConditions", "valueInTwoGroups"} =>
       /\ blame.group \in Keys(groups)
       /\ \A g \in Keys(groups) : g < blame.group => GroupPasses(g)
  /\ verdict = "groupNotInConditions" => conditions[blame.group] = Absent
  /\ verdict = "valueInTwoGroups" =>
       /\ conditions[blame.group] # Absent
       /\ blame.other \in Keys(groups)
       /\ \E i \in 1..Len(groups[blame.group]) :
            /\ groups[blame.group][i] = blame.value
            /\ \A k \in 1..(i - 1) : ~IsRepeat(blame.group, k)
            /\ \E j \in 1..Len(groups[blame.other]) :
                 Repeats(blame.other, j, blame.group, i)
  /\ verdict \in {"groupNotInGroups", "choiceNotInGroup"} =>
       /\ \A g \in Keys(groups) : GroupPasses(g)
       /\ blame.group \in Keys(conditions)
       /\ \A g \in Keys(conditions) : g < blame.group => ChoicePasses(g)
  /\ verdict = "groupNotInGroups" => groups[blame.group] = Absent
  /\ verdict = "choiceNotInGroup" =>
       /\ groups[blame.group] # Absent
       /\ blame.value = conditions[blame.group]
       /\ ~ChoicePasses(blame.group)

(* validate implements its contract: it accepts exactly the well-formed    *)
(* configurations and then returns the exact value-to-group table.         *)
ImplementsContract == Contract!Spec

(* Every call of validate returns. *)
Returns == <>(verdict # "running")

-----------------------------------------------------------------------------

(* The inductive invariant.  Scanned(g) counts the values of g inserted so *)
(* far; it follows the two nested loops through their phases.              *)
Scanned(g) ==
  IF groups[g] = Absent \/ (pc \in {"groups", "values"} /\ g \in todo)
  THEN 0
  ELSE IF pc = "values" /\ g = current THEN index - 1 ELSE Len(groups[g])

ScannedOnce ==
  \A g, h \in Group : \A i \in 1..Scanned(g), j \in 1..Scanned(h) :
    groups[g][i] = groups[h][j] => g = h /\ i = j

TableExact ==
  \A v \in Value, g \in Group :
    valueToGroup[v] = g <=> \E i \in 1..Scanned(g) : groups[g][i] = v

GroupsVisited ==
  /\ pc = "values" => current \notin todo /\ conditions[current] # Absent
  /\ pc \in {"groups", "values"} =>
       \A g \in Keys(groups) \ todo : conditions[g] # Absent
  /\ pc = "conditions" => Keys(groups) \subseteq Keys(conditions)

ChoicesVisited ==
  pc = "conditions" =>
    \A g \in Keys(conditions) \ todo : groups[g] # Absent /\ ChoiceAllowed(g)

VerdictRight ==
  /\ pc = "done" <=> verdict # "running"
  /\ verdict = "ok" => Contract!WellFormed
  /\ verdict \in Errors => ~Contract!WellFormed

IInv ==
  /\ TypeOK
  /\ VerdictRight
  /\ pc \in {"groups", "values", "conditions"} =>
       ScannedOnce /\ TableExact /\ GroupsVisited /\ ChoicesVisited
  /\ verdict = "ok" => Contract!Resolves(valueToGroup)
=============================================================================
