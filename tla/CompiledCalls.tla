---------------------------- MODULE CompiledCalls ----------------------------
(***************************************************************************)
(* The program as built: the SWC plugin decides each helper call from the  *)
(* fixed groups (transform_is and transform_switch of                      *)
(* swc-plugin/src/transform.rs), and the calls it leaves run as in         *)
(* RuntimeHelpers.  A call with an error stays in the program and fails    *)
(* the build.                                                              *)
(***************************************************************************)
EXTENDS Integers, Sequences, Functions

CONSTANTS Site, Group, Name, GroupOf, Default, Null, Absent, NoBranch,
          Pending, MaxNames, Programs,
          Kept      \* the call stays in the program

VARIABLES
  calls, choice, active, answer,
  form,    \* what a site was compiled to: Kept, or the answer
  errors,  \* the diagnostics of the build
  phase    \* "compiling", "failed" or "running"

vars == <<calls, choice, active, answer, form, errors, phase>>

Runtime == INSTANCE RuntimeHelpers

ASSUME CompiledAssumption ==
  /\ Runtime!HelpersAssumption
  /\ Kept \notin Runtime!Answer \cup {Pending}

Errors == {"notLiteral", "unknownValue", "mixedGroups", "noBranch"}

(* ConditionState, and None for a value of no group. *)
State(v) ==
  IF GroupOf[v] = Absent THEN "unknown"
  ELSE IF choice[GroupOf[v]] = Null THEN "runtime"
  ELSE IF choice[GroupOf[v]] = v THEN "activeFixed" ELSE "inactiveFixed"

Init ==
  /\ Runtime!Init
  /\ form = [s \in Site |-> Pending]
  /\ errors = {}
  /\ phase = "compiling"

(* The visitor reaches the sites in source order. *)
Visits(s) ==
  /\ phase = "compiling"
  /\ form[s] = Pending
  /\ \A t \in Site : t < s => form[t] # Pending

(* Mutant: the outcome of the last call is that of the build. *)
CompileToUnharmed(s, result) ==
  /\ form' = [form EXCEPT ![s] = result]
  /\ errors' = {}
  /\ UNCHANGED <<calls, choice, active, answer, phase>>

CompileTo(s, result) ==
  /\ form' = [form EXCEPT ![s] = result]
  /\ UNCHANGED <<calls, choice, active, answer, errors, phase>>

(* span_err on the handler: the call stays. *)
Report(s, error) ==
  /\ form' = [form EXCEPT ![s] = Kept]
  /\ errors' = errors \cup {<<s, error>>}
  /\ UNCHANGED <<calls, choice, active, answer, phase>>

RejectDynamic(s) ==
  /\ Visits(s)
  /\ ~calls[s].literal
  /\ Report(s, "notLiteral")

-----------------------------------------------------------------------------

IsCall(s) == Visits(s) /\ calls[s].literal /\ calls[s].kind = "is"

(* Mutant: a value of another branch of the build does not stop the loop. *)
StopsOnUnknown(v) == State(v) = "unknown"

(* The loop of eval_is_values leaves at its first value that is unknown,   *)
(* or of a group fixed to another value.                                   *)
Stops(v) == State(v) \in {"unknown", "inactiveFixed"}

StopsAt(names, i) ==
  /\ i \in DOMAIN names
  /\ Stops(names[i])
  /\ \A j \in DOMAIN names : j < i => ~Stops(names[j])

RunsThrough(names) == \A i \in DOMAIN names : ~Stops(names[i])

(* Mutant: the call is kept only when every value is of a runtime group. *)
OnlyRuntime(names) ==
  names # <<>> /\ \A i \in DOMAIN names : State(names[i]) = "runtime"

SomeRuntime(names) == \E i \in DOMAIN names : State(names[i]) = "runtime"

RejectUnknownValue(s) ==
  /\ IsCall(s)
  /\ \E i \in DOMAIN calls[s].names :
       StopsAt(calls[s].names, i) /\ State(calls[s].names[i]) = "unknown"
  /\ Report(s, "unknownValue")

FoldFalse(s) ==
  /\ IsCall(s)
  /\ \E i \in DOMAIN calls[s].names :
       StopsAt(calls[s].names, i) /\ State(calls[s].names[i]) = "inactiveFixed"
  /\ CompileTo(s, FALSE)

KeepIs(s) ==
  /\ IsCall(s)
  /\ RunsThrough(calls[s].names)
  /\ SomeRuntime(calls[s].names)
  /\ CompileTo(s, Kept)

FoldTrue(s) ==
  /\ IsCall(s)
  /\ RunsThrough(calls[s].names)
  /\ ~SomeRuntime(calls[s].names)
  /\ CompileTo(s, TRUE)

-----------------------------------------------------------------------------

SwitchCall(s) == Visits(s) /\ calls[s].literal /\ calls[s].kind = "switch"

(* Mutant: a key is compared with the key before it only. *)
MisplacedNextTo(names, i) ==
  /\ names[i] # Default
  /\ \/ GroupOf[names[i]] = Absent
     \/ \E j \in DOMAIN names :
          j = i - 1 /\ names[j] # Default
            /\ GroupOf[names[j]] # GroupOf[names[i]]

(* The loop over the keys leaves at the first that has no group, or        *)
(* another group than the keys before it.                                  *)
Misplaced(names, i) ==
  /\ names[i] # Default
  /\ \/ GroupOf[names[i]] = Absent
     \/ \E j \in DOMAIN names :
          j < i /\ names[j] # Default /\ GroupOf[names[j]] # GroupOf[names[i]]

FirstMisplaced(names, i) ==
  /\ Misplaced(names, i)
  /\ \A j \in DOMAIN names : j < i => ~Misplaced(names, j)

OneGroup(names) == \A i \in DOMAIN names : ~Misplaced(names, i)

RejectKey(s) ==
  /\ SwitchCall(s)
  /\ \E i \in DOMAIN calls[s].names :
       /\ FirstMisplaced(calls[s].names, i)
       /\ Report(s, IF GroupOf[calls[s].names[i]] = Absent
                    THEN "unknownValue" ELSE "mixedGroups")

(* Mutant: nobody asks whether the group of the keys is fixed. *)
NoRuntimeGroup(names) == FALSE

(* The keys have one group, if there is any key but default. *)
RuntimeGroup(names) ==
  \E i \in DOMAIN names :
    names[i] # Default /\ choice[GroupOf[names[i]]] = Null

KeepSwitch(s) ==
  /\ SwitchCall(s)
  /\ OneGroup(calls[s].names)
  /\ RuntimeGroup(calls[s].names)
  /\ CompileTo(s, Kept)

Wins(names, i) ==
  names[i] # Default /\ State(names[i]) = "activeFixed"

(* winner_index is the matching branch *)
InlineBranch(s) ==
  /\ SwitchCall(s)
  /\ OneGroup(calls[s].names)
  /\ ~RuntimeGroup(calls[s].names)
  /\ \E i \in DOMAIN calls[s].names :
       /\ Wins(calls[s].names, i)
       /\ CompileTo(s, calls[s].names[i])

NoWinner(s) ==
  /\ SwitchCall(s)
  /\ OneGroup(calls[s].names)
  /\ ~RuntimeGroup(calls[s].names)
  /\ \A i \in DOMAIN calls[s].names : ~Wins(calls[s].names, i)

InlineDefault(s) ==
  /\ NoWinner(s)
  /\ Runtime!HasDefault(calls[s].names)
  /\ CompileTo(s, Default)

RejectNoBranch(s) ==
  /\ NoWinner(s)
  /\ ~Runtime!HasDefault(calls[s].names)
  /\ Report(s, "noBranch")

-----------------------------------------------------------------------------

(* An error on the handler fails the build; otherwise the program runs. *)
FinishBuild ==
  /\ phase = "compiling"
  /\ \A s \in Site : form[s] # Pending
  /\ phase' = IF errors = {} THEN "running" ELSE "failed"
  /\ UNCHANGED <<calls, choice, active, answer, form, errors>>

SwitchContext ==
  /\ phase = "running"
  /\ Runtime!SwitchContext
  /\ UNCHANGED <<form, errors, phase>>

EvaluateKept(s) ==
  /\ phase = "running"
  /\ form[s] = Kept
  /\ Runtime!Evaluate(s)
  /\ UNCHANGED <<form, errors, phase>>

(* Mutant: a call that stays in the program is taken for a literal. *)
EvaluateAnyForm(s) ==
  /\ phase = "running"
  /\ answer' = [answer EXCEPT ![s] = form[s]]
  /\ UNCHANGED <<calls, choice, active, form, errors, phase>>

EvaluateFolded(s) ==
  /\ phase = "running"
  /\ form[s] # Kept
  /\ answer' = [answer EXCEPT ![s] = form[s]]
  /\ UNCHANGED <<calls, choice, active, form, errors, phase>>

CompileIs(s) ==
  RejectUnknownValue(s) \/ FoldFalse(s) \/ KeepIs(s) \/ FoldTrue(s)

CompileSwitch(s) ==
  \/ RejectKey(s) \/ KeepSwitch(s)
  \/ InlineBranch(s) \/ InlineDefault(s) \/ RejectNoBranch(s)

Compile(s) == RejectDynamic(s) \/ CompileIs(s) \/ CompileSwitch(s)

Next ==
  \/ \E s \in Site : Compile(s) \/ EvaluateKept(s) \/ EvaluateFolded(s)
  \/ FinishBuild
  \/ SwitchContext

(* The visitor traverses a finite tree without waiting for anything. *)
Spec == Init /\ [][Next]_vars
             /\ WF_vars(FinishBuild \/ \E s \in Site : Compile(s))

-----------------------------------------------------------------------------

TypeOK ==
  /\ calls \in [Site -> Runtime!Call]
  /\ choice \in Runtime!Choice
  /\ active \in Runtime!Context
  /\ answer \in [Site -> Runtime!Answer \cup {Pending}]
  /\ form \in [Site -> Runtime!Answer \cup {Pending, Kept}]
  /\ errors \subseteq Site \X Errors
  /\ phase \in {"compiling", "failed", "running"}

(* Folding is sound: whatever conditions become active, a program whose    *)
(* build succeeds answers every call as the source would.                  *)
ImplementsRuntime == Runtime!Spec

(* What the TypeScript signatures demand of the names of a call            *)
(* (src/types.ts): that they are known, of distinct groups for is and of   *)
(* one group for a switch.  A typed variable satisfies them like a literal.*)
GroupAt(c, i) == GroupOf[c.names[i]]

WellTyped(c) ==
  /\ \A i \in DOMAIN c.names :
       c.names[i] # Default => GroupAt(c, i) # Absent
  /\ \A i, j \in DOMAIN c.names :
       c.names[i] # Default /\ c.names[j] # Default /\ i # j =>
         (GroupAt(c, i) = GroupAt(c, j) <=> c.kind = "switch")

AlwaysAnswers(c, r) ==
  \A context \in Runtime!Context : Runtime!Answers(c, context, r)

(* The build fails for a call only if its argument is dynamic (well-typed  *)
(* or not: README.md rules it out), or if the types reject it, or if it    *)
(* throws whatever conditions become active.  No other working program is  *)
(* refused.                                                                *)
RefusalsAreJustified ==
  \A e \in errors :
    \/ ~calls[e[1]].literal
    \/ e[2] # "notLiteral" /\ ~WellTyped(calls[e[1]])
    \/ e[2] = "noBranch" /\ AlwaysAnswers(calls[e[1]], NoBranch)

(* No call of a program that runs breaks a rule of the plugin, wherever it *)
(* stands: arguments are literals; values are known, except in an is-call  *)
(* that is false in any case; the keys of a switch are known, of one       *)
(* group, and some context has a branch.                                   *)
SwitchAdmitted(c) ==
  /\ \A i \in DOMAIN c.names :
       c.names[i] # Default => GroupAt(c, i) # Absent
  /\ \A i, j \in DOMAIN c.names :
       c.names[i] # Default /\ c.names[j] # Default =>
         GroupAt(c, i) = GroupAt(c, j)
  /\ ~AlwaysAnswers(c, NoBranch)

IsAdmitted(c) ==
  \/ \A i \in DOMAIN c.names : GroupAt(c, i) # Absent
  \/ AlwaysAnswers(c, FALSE)

Admitted(c) ==
  /\ c.literal
  /\ c.kind = "is" => IsAdmitted(c)
  /\ c.kind = "switch" => SwitchAdmitted(c)

RulesEnforced == phase = "running" => \A s \in Site : Admitted(calls[s])

(* A call is left to runtime only when it must be: the conditions that can *)
(* become active make a well-typed one answer differently.                 *)
KeptCallsAreUndecided ==
  phase = "running" =>
    \A s \in Site : form[s] = Kept /\ WellTyped(calls[s]) =>
      \A r \in Runtime!Answer : ~AlwaysAnswers(calls[s], r)

(* An error fails the build in the end, whatever is compiled after it.     *)
ErrorsFailTheBuild == errors # {} ~> phase = "failed"

-----------------------------------------------------------------------------

(* README.md: "a value not found in any group is a build error (catches    *)
(* typos)".                                                                *)
TyposFailTheBuild ==
  phase = "running" =>
    \A s \in Site : \A i \in DOMAIN calls[s].names :
      calls[s].names[i] # Default => GroupOf[calls[s].names[i]] # Absent
-----------------------------------------------------------------------------

(* The inductive invariant: what a site was folded to is the answer in     *)
(* every context, and each refusal is justified.                           *)
FoldedSoundly ==
  \A s \in Site :
    form[s] \in Runtime!Answer => AlwaysAnswers(calls[s], form[s])

AllCompiled == phase # "compiling" => \A s \in Site : form[s] # Pending

IInv == TypeOK /\ FoldedSoundly /\ AllCompiled /\ RefusalsAreJustified
=============================================================================
