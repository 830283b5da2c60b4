------------------------------ MODULE Storybook ------------------------------
(***************************************************************************)
(* The decorators for Storybook (src/addon/index.ts and                    *)
(* src/decorators/withBuildConditions.tsx) on the default storage: which   *)
(* conditions a story renders under.                                       *)
(*                                                                         *)
(* Storybook shows one story at a time and renders it again when somebody  *)
(* selects another value in the toolbar.  To render is to run the          *)
(* decorators, from the preview's to the story's own, then the story.      *)
(***************************************************************************)
EXTENDS Naturals, Sequences

CONSTANTS
  Story, Group, Value, Undefined, Absent,
  Configs,  \* configs of the addon: group in it -> [values, defaultValue]
  Own       \* story -> the conditions of its withBuildConditions decorators,
            \* from the outermost to the innermost

VARIABLES
  shared,   \* globalThis.__BUILD_CONDITIONS__
  answer,   \* story -> the conditions it last found
  outcome,  \* story -> how its last call, or its decorators', ended
  config,   \* what the addon is given, no groups if it is not installed
  globals,  \* group -> the value selected in the toolbar, or Absent
  stage,    \* "blank", "decorating" or "shown"
  story,    \* the one on the stage
  applied,  \* how many of its decorators have run
  stale     \* something was selected since they ran

storageVars == <<shared, answer, outcome>>
vars == <<shared, answer, outcome, config, globals, stage, story, applied, stale>>

Storage == INSTANCE ConditionsByValue WITH
  Task <- Story,
  Inputs <- [Group -> Value \cup {Undefined, Absent}],
  storage <- "default",
  own <- [s \in Story |-> [g \in Group |-> Absent]]

ASSUME StorybookAssumption ==
  /\ Absent \notin Value \cup {Undefined}
  /\ \A c \in Configs :
       /\ DOMAIN c \subseteq Group
       /\ \A g \in DOMAIN c : /\ c[g].values \subseteq Value
                              /\ c[g].defaultValue \in Value
  /\ Own \in [Story -> Seq(Storage!Conditions)]

(* Mutant: the group's configuration instead of its default. *)
SelectedOrConfig(g) == IF globals[g] # Absent THEN globals[g] ELSE config[g]

(* context.globals[...] ?? groupConfig.defaultValue *)
Selected(g) ==
  IF globals[g] # Absent THEN globals[g] ELSE config[g].defaultValue

(* What the i-th decorator of story s sets. *)
Decorator(s, i) ==
  IF i = 1
  THEN [g \in Group |-> IF g \in DOMAIN config THEN Selected(g) ELSE Absent]
  ELSE Own[s][i - 1]

Depth(s) == 1 + Len(Own[s])

Init ==
  /\ shared = Storage!Nothing
  /\ answer = [s \in Story |-> Storage!Nothing]
  /\ outcome = [s \in Story |-> "none"]
  /\ config \in Configs
  /\ globals = [g \in Group |-> Absent]
  /\ stage = "blank"
  /\ story \in Story
  /\ applied = 0
  /\ stale = FALSE

(* Mutant: what is selected is set at once. *)
SelectAndSet(g, v) ==
  /\ stage # "decorating"
  /\ globals' = [globals EXCEPT ![g] = v]
  /\ shared' = [shared EXCEPT ![g] = v]
  /\ stale' = TRUE
  /\ UNCHANGED <<answer, outcome, config, stage, story, applied>>

(* An item of the toolbar.  Decorators and stories run without a break. *)
Select(g, v) ==
  /\ stage # "decorating"
  /\ globals' = [globals EXCEPT ![g] = v]
  /\ stale' = TRUE
  /\ UNCHANGED <<storageVars, config, stage, story, applied>>

Render(s) ==
  /\ \/ stage = "blank"
     \/ stage = "shown" /\ story = s
  /\ stage' = "decorating"
  /\ story' = s
  /\ applied' = 0
  /\ stale' = FALSE
  /\ UNCHANGED <<storageVars, config, globals>>

(* Mutant: the old conditions win. *)
SetUnderneath(conditions) == shared' = Storage!Merge(conditions, shared)

SetBuildConditions(conditions) == shared' = Storage!Merge(shared, conditions)

Decorate ==
  /\ stage = "decorating"
  /\ applied < Depth(story)
  /\ applied' = applied + 1
  /\ SetBuildConditions(Decorator(story, applied'))
  /\ outcome' = [outcome EXCEPT ![story] = "set"]
  /\ UNCHANGED <<answer, config, globals, stage, story, stale>>

(* getBuildConditions, on behalf of a helper that the story calls *)
GetBuildConditions ==
  IF shared # Storage!Nothing
  THEN /\ answer' = [answer EXCEPT ![story] = shared]
       /\ outcome' = [outcome EXCEPT ![story] = "got"]
  ELSE /\ outcome' = [outcome EXCEPT ![story] = "notSet"]
       /\ UNCHANGED answer

(* Mutant: the story first. *)
RunStoryFirst ==
  /\ stage = "decorating"
  /\ GetBuildConditions
  /\ stage' = "shown"
  /\ UNCHANGED <<shared, config, globals, story, applied, stale>>

(* return story() *)
RunStory ==
  /\ stage = "decorating"
  /\ applied = Depth(story)
  /\ GetBuildConditions
  /\ stage' = "shown"
  /\ UNCHANGED <<shared, config, globals, story, applied, stale>>

(* A component of the story renders, now or later. *)
RenderComponent ==
  /\ stage = "shown"
  /\ GetBuildConditions
  /\ UNCHANGED <<shared, config, globals, stage, story, applied, stale>>

Close ==
  /\ stage = "shown"
  /\ stage' = "blank"
  /\ answer' = [answer EXCEPT ![story] = Storage!Nothing]
  /\ outcome' = [outcome EXCEPT ![story] = "none"]
  /\ UNCHANGED <<shared, config, globals, story, applied, stale>>

Next ==
  \/ \E g \in DOMAIN config : \E v \in config[g].values : Select(g, v)
  \/ \E s \in Story : Render(s)
  \/ Decorate
  \/ RunStory
  \/ RenderComponent
  \/ Close

Spec == Init /\ [][Next]_vars

-----------------------------------------------------------------------------

TypeOK ==
  /\ shared \in Storage!Conditions
  /\ answer \in [Story -> Storage!Conditions]
  /\ outcome \in [Story -> {"none", "set", "got", "notSet"}]
  /\ config \in Configs
  /\ globals \in [Group -> Value \cup {Absent}]
  /\ stage \in {"blank", "decorating", "shown"}
  /\ story \in Story
  /\ applied \in 0..Depth(story)
  /\ stage = "shown" => applied = Depth(story)
  /\ stale \in BOOLEAN

(* Decorator i is the innermost that has a say about group g. *)
Decides(s, i, g) ==
  /\ Decorator(s, i)[g] # Absent
  /\ \A j \in (i + 1)..Depth(s) : Decorator(s, j)[g] = Absent

(* Whatever was shown before, a story and its components find the          *)
(* conditions of its innermost decorator that sets them, and the toolbar's *)
(* selection where none of its own does, until somebody selects anew.      *)
InnermostDecides ==
  stage = "shown" /\ ~stale =>
    \A i \in 1..Depth(story), g \in Group :
      Decides(story, i, g) =>
        /\ shared[g] = Decorator(story, i)[g]
        /\ outcome[story] = "got" => answer[story][g] = Decorator(story, i)[g]

(* A story one of whose decorators sets something never finds the          *)
(* conditions unset: getBuildConditions does not throw while it is shown.  *)
DecoratedStoriesRender ==
  stage = "shown" /\ (\E i \in 1..Depth(story), g \in Group :
                        Decorator(story, i)[g] # Absent)
    => outcome[story] = "got"

(* A component that renders later finds exactly what its story found,      *)
(* also when the toolbar has another selection since and the story is yet  *)
(* to run again: half a story is never under other conditions.             *)
ComponentsFindTheSame ==
  [][RenderComponent => UNCHANGED <<answer, outcome>>]_vars
=============================================================================
