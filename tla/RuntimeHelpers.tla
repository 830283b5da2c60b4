--------------------------- MODULE RuntimeHelpers ---------------------------
(***************************************************************************)
(* The program as written: every call of isBuildConditions and             *)
(* switchBuildCondition is decided at runtime, from the conditions active  *)
(* at the moment of the call (src/isBuildConditions.ts and resolve in      *)
(* src/switchBuildCondition.ts).                                           *)
(*                                                                         *)
(* The answer of an is-call is a boolean; that of a switch is the key of   *)
(* the branch it delegates to, or NoBranch when it throws.                 *)
(***************************************************************************)
EXTENDS Integers, Sequences, Functions

CONSTANTS
  Site,      \* the helper calls of the program, numbered in visiting order
  Group,     \* condition groups
  Name,      \* condition values, and misspelt ones
  GroupOf,   \* value -> its group, Absent for a misspelt one
  Default,   \* the key `default`
  Null,      \* group decided at runtime
  Absent,    \* no such key
  NoBranch,  \* the switch throws: no value for the current conditions
  Pending,   \* not called yet
  MaxNames,  \* bound: condition values or keys of one call
  Programs   \* the programs considered: what each site calls

VARIABLES
  calls,   \* the program: what each site calls
  choice,  \* the deployment: group -> fixed value, or Null
  active,  \* the conditions in the storage
  answer   \* what each site's last call returned

vars == <<calls, choice, active, answer>>

ValuesOf(g) == {v \in Name : GroupOf[v] = g}

NamesOver(S) == UNION {[1..n -> S] : n \in 0..MaxNames}

(* literal: the argument is spelt out in the source.  The keys of an       *)
(* object literal are distinct.                                            *)
Call ==
  [kind: {"is"}, literal: BOOLEAN, names: NamesOver(Name)] \cup
  {c \in [kind: {"switch"}, literal: BOOLEAN,
          names: NamesOver(Name \cup {Default})] : IsInjective(c.names)}

(* Names, keys and markers are all different; a name has at most one group *)
(* (ConfigContract!ListedOnce).                                            *)
HelpersAssumption ==
  /\ Site \subseteq Nat
  /\ MaxNames \in Nat
  /\ GroupOf \in [Name -> Group \cup {Absent}]
  /\ Absent \notin Group
  /\ \A marker \in {Default, Null, Absent, NoBranch, Pending} :
       marker \notin Name \cup BOOLEAN
  /\ Default # NoBranch /\ Default # Pending /\ Pending # NoBranch
  /\ Null # Absent
  /\ Programs \subseteq [Site -> Call]

Choice ==
  {c \in [Group -> Name \cup {Null}] :
     \A g \in Group : c[g] \in ValuesOf(g) \cup {Null}}

(* Contents of an initialised storage: at least one group is set, and the  *)
(* groups fixed at build time are set to what they were fixed to.          *)
Context ==
  {a \in [Group -> Name \cup {Absent}] :
     /\ \E g \in Group : a[g] # Absent
     /\ \A g \in Group : /\ a[g] \in ValuesOf(g) \cup {Absent}
                         /\ choice[g] # Null => a[g] = choice[g]}

Answer == BOOLEAN \cup Name \cup {Default, NoBranch}

(* activeValues.includes(name) *)
Holds(name, context) == \E g \in Group : context[g] = name

(* list.every(condition => activeValues.includes(condition)) *)
AllHold(names, context) == \A i \in DOMAIN names : Holds(names[i], context)

(* The first key, in source order, that is active. *)
FirstHolding(names, i, context) ==
  /\ names[i] # Default
  /\ Holds(names[i], context)
  /\ \A j \in DOMAIN names :
       j < i => ~(names[j] # Default /\ Holds(names[j], context))

NoneHolds(names, context) ==
  \A i \in DOMAIN names : names[i] # Default => ~Holds(names[i], context)

HasDefault(names) == \E i \in DOMAIN names : names[i] = Default

(* In context, the call answers r. *)
Answers(call, context, r) ==
  \/ /\ call.kind = "is"
     /\ r = AllHold(call.names, context)
  \/ /\ call.kind = "switch"
     /\ \/ \E i \in DOMAIN call.names :
             FirstHolding(call.names, i, context) /\ r = call.names[i]
        \/ /\ NoneHolds(call.names, context)
           /\ r = IF HasDefault(call.names) THEN Default ELSE NoBranch

Init ==
  /\ calls \in Programs
  /\ choice \in Choice
  /\ active \in Context
  /\ answer = [s \in Site |-> Pending]

(* setBuildConditions, or another request's storage. *)
SwitchContext ==
  /\ active' \in Context
  /\ UNCHANGED <<calls, choice, answer>>

Evaluate(s) ==
  \E r \in Answer :
    /\ Answers(calls[s], active, r)
    /\ answer' = [answer EXCEPT ![s] = r]
    /\ UNCHANGED <<calls, choice, active>>

Next == SwitchContext \/ \E s \in Site : Evaluate(s)

Spec == Init /\ [][Next]_vars
=============================================================================
