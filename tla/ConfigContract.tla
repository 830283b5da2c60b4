--------------------------- MODULE ConfigContract ---------------------------
(***************************************************************************)
(* What Config::validate promises its only caller, TransformVisitor::new:  *)
(* one verdict on a plugin configuration, and, when it is accepted, the    *)
(* table that resolves a condition value to its group.                     *)
(*                                                                         *)
(* A BTreeMap or HashMap is a total function with Absent for a missing     *)
(* key; a Vec<String> is a sequence; None (JSON null) is Null.             *)
(***************************************************************************)
EXTENDS Integers, Sequences

CONSTANTS
  Group,      \* group names, numbered in the order of their strings
  Value,      \* condition values
  Null,       \* the group is switched at runtime
  Absent,     \* no such key
  MaxListed   \* bound: values listed for one group

(* What the values of the constants must satisfy. *)
ConfigAssumption ==
  /\ Group \subseteq Nat
  /\ MaxListed \in Nat
  /\ Null \notin Value
  /\ Absent \notin Group \cup Value \cup {Null}

VARIABLES
  groups,      \* group -> all of its values
  conditions,  \* group -> the chosen value, or Null
  table,       \* value -> its group
  verdict      \* "running", "ok" or "rejected"

vars == <<groups, conditions, table, verdict>>

Listing == UNION {[1..n -> Value] : n \in 0..MaxListed}

EmptyTable == [v \in Value |-> Absent]

Listed(v, g) ==
  /\ groups[g] # Absent
  /\ \E i \in 1..Len(groups[g]) : groups[g][i] = v

(* The group sets in groups and conditions match. *)
SameGroups == \A g \in Group : groups[g] = Absent <=> conditions[g] = Absent

(* No value is listed twice, in two groups or in one. *)
ListedOnce ==
  \A g, h \in Group :
    groups[g] # Absent /\ groups[h] # Absent =>
      \A i \in 1..Len(groups[g]), j \in 1..Len(groups[h]) :
        groups[g][i] = groups[h][j] => g = h /\ i = j

(* A fixed value belongs to its group. *)
ChoicesListed ==
  \A g \in Group : conditions[g] \in Value => Listed(conditions[g], g)

WellFormed == SameGroups /\ ListedOnce /\ ChoicesListed

(* The table resolves exactly the listed values, each to its group. *)
Resolves(t) ==
  \A v \in Value, g \in Group : t[v] = g <=> Listed(v, g)

Init ==
  /\ groups \in [Group -> Listing \cup {Absent}]
  /\ conditions \in [Group -> Value \cup {Null, Absent}]
  /\ table = EmptyTable
  /\ verdict = "running"

Accept ==
  /\ verdict = "running"
  /\ WellFormed
  /\ verdict' = "ok"
  /\ table' \in [Value -> Group \cup {Absent}]
  /\ Resolves(table')
  /\ UNCHANGED <<groups, conditions>>

Refuse ==
  /\ verdict = "running"
  /\ ~WellFormed
  /\ verdict' = "rejected"
  /\ UNCHANGED <<groups, conditions, table>>

Next == Accept \/ Refuse

Spec == Init /\ [][Next]_vars
=============================================================================
