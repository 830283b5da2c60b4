--------------------------- MODULE Storybook_proof ---------------------------
(***************************************************************************)
(* Proofs about the Storybook decorators, for any stories, decorators,     *)
(* toolbar configurations, groups and values.                              *)
(***************************************************************************)
EXTENDS Storybook, TLAPS

LEMMA DepthType == ASSUME NEW s \in Story PROVE Depth(s) \in Nat \ {0}
BY StorybookAssumption DEF Depth

(* A decorator sets conditions, and a group of the toolbar is always set.  *)
LEMMA DecoratorType ==
  ASSUME TypeOK, NEW s \in Story, NEW i \in 1..Depth(s)
  PROVE  Decorator(s, i) \in Storage!Conditions
<1>1. CASE i = 1
  <2>1. ASSUME NEW g \in DOMAIN config PROVE Selected(g) \in Value \cup {Undefined, Absent}
    BY <2>1, StorybookAssumption DEF Selected, TypeOK
  <2> QED BY <1>1, <2>1 DEF Decorator, Storage!Conditions
<1>2. CASE i # 1
  <2>1. i - 1 \in 1..Len(Own[s])
    BY <1>2, StorybookAssumption DEF Depth
  <2>2. Own[s] \in Seq(Storage!Conditions)
    BY StorybookAssumption
  <2> QED BY <1>2, <2>1, <2>2 DEF Decorator
<1> QED BY <1>1, <1>2

LEMMA MergeType ==
  ASSUME NEW old \in Storage!Conditions, NEW new \in Storage!Conditions
  PROVE  /\ Storage!Merge(old, new) \in Storage!Conditions
         /\ \A g \in Group : /\ new[g] # Absent => Storage!Merge(old, new)[g] = new[g]
                             /\ new[g] = Absent => Storage!Merge(old, new)[g] = old[g]
BY DEF Storage!Merge, Storage!Conditions

LEMMA NothingType == Storage!Nothing \in Storage!Conditions
BY DEF Storage!Nothing, Storage!Conditions

-----------------------------------------------------------------------------

LEMMA InitTypeOK == Init => TypeOK
<1> SUFFICES ASSUME Init PROVE TypeOK
  OBVIOUS
<1>1. story \in Story /\ applied = 0
  BY DEF Init
<1>2. 0 \in 0..Depth(story)
  BY <1>1, DepthType
<1> QED BY <1>1, <1>2, NothingType DEF Init, TypeOK

LEMMA GetTypeOK ==
  ASSUME TypeOK, GetBuildConditions
  PROVE  /\ answer' \in [Story -> Storage!Conditions]
         /\ outcome' \in [Story -> {"none", "set", "got", "notSet"}]
BY DEF GetBuildConditions, TypeOK

LEMMA StepTypeOK == TypeOK /\ [Next]_vars => TypeOK'
<1> SUFFICES ASSUME TypeOK, [Next]_vars PROVE TypeOK'
  OBVIOUS
<1>1. ASSUME NEW g \in DOMAIN config, NEW v \in config[g].values, Select(g, v)
      PROVE  TypeOK'
  <2>1. g \in Group /\ v \in Value
    BY StorybookAssumption DEF TypeOK
  <2> QED BY <1>1, <2>1 DEF Select, TypeOK, storageVars, Depth
<1>2. ASSUME NEW s \in Story, Render(s) PROVE TypeOK'
  <2>1. 0 \in 0..Depth(s) /\ Depth(story)' = Depth(s)
    BY <1>2, DepthType DEF Render, Depth
  <2> QED BY <1>2, <2>1 DEF Render, TypeOK, storageVars
<1>3. CASE Decorate
  <2>1. applied' \in 1..Depth(story) /\ Depth(story)' = Depth(story)
    BY <1>3, DepthType DEF Decorate, TypeOK, Depth
  <2>2. applied + 1 \in 1..Depth(story)
    BY <1>3, <2>1 DEF Decorate
  <2>3. Decorator(story, applied + 1) \in Storage!Conditions
    BY <2>2, DecoratorType DEF TypeOK
  <2>4. Decorator(story, applied') = Decorator(story, applied + 1)
    BY <1>3 DEF Decorate
  <2>5. shared' \in Storage!Conditions
    BY <1>3, <2>3, <2>4, MergeType DEF Decorate, SetBuildConditions, TypeOK
  <2> QED BY <1>3, <2>1, <2>5 DEF Decorate, TypeOK
<1>4. CASE RunStory
  BY <1>4, GetTypeOK DEF RunStory, TypeOK, Depth
<1>5. CASE RenderComponent
  BY <1>5, GetTypeOK DEF RenderComponent, TypeOK, Depth
<1>6. CASE Close
  BY <1>6, NothingType DEF Close, TypeOK, Depth
<1>7. CASE UNCHANGED vars
  BY <1>7 DEF vars, TypeOK, Depth
<1> QED BY <1>1, <1>2, <1>3, <1>4, <1>5, <1>6, <1>7 DEF Next

(* Type correctness, for any stories and configurations.                   *)
THEOREM TypeInvariant == Spec => []TypeOK
BY InitTypeOK, StepTypeOK, PTL DEF Spec

-----------------------------------------------------------------------------

(* What the decorators that have run have set. *)

DecidesSoFar(i, g) ==
  /\ Decorator(story, i)[g] # Absent
  /\ \A j \in (i + 1)..applied : Decorator(story, j)[g] = Absent

(* The storage holds it, *)
InnermostSoFar ==
  stage # "blank" /\ ~stale =>
    \A i \in 1..applied, g \in Group :
      DecidesSoFar(i, g) => shared[g] = Decorator(story, i)[g]

(* and is not empty, even when another value was selected since.           *)
SomethingSet ==
  stage # "blank" =>
    \A i \in 1..applied, g \in Group :
      Decorator(story, i)[g] # Absent => shared # Storage!Nothing

(* A story, and whatever it renders later, has read what is there.         *)
Found ==
  stage = "shown" =>
    IF shared = Storage!Nothing THEN outcome[story] = "notSet"
    ELSE outcome[story] = "got" /\ answer[story] = shared

IInv == TypeOK /\ InnermostSoFar /\ SomethingSet /\ Found

LEMMA InitIInv == Init => IInv
BY InitTypeOK DEF Init, IInv, InnermostSoFar, SomethingSet, Found

(* Selecting a value does not change which groups a decorator sets.        *)
LEMMA SelectKeepsGroups ==
  ASSUME TypeOK, TypeOK', NEW g \in Group, NEW i \in 1..applied,
         NEW h \in DOMAIN config, NEW v \in config[h].values, Select(h, v),
         Decorator(story, i)'[g] # Absent
  PROVE  Decorator(story, i)[g] # Absent
<1>1. CASE i = 1
  <2>1. g \in DOMAIN config
    BY <1>1 DEF Decorator, Select
  <2>2. Selected(g) # Absent
    BY <2>1, StorybookAssumption DEF Selected, TypeOK
  <2> QED BY <1>1, <2>1, <2>2 DEF Decorator
<1>2. CASE i # 1
  BY <1>2 DEF Decorator, Select
<1> QED BY <1>1, <1>2

(* Reading leaves the storage and the decorators as they are. *)
LEMMA GetFound ==
  ASSUME TypeOK, GetBuildConditions, UNCHANGED <<shared, story>>
  PROVE  Found'
BY DEF GetBuildConditions, Found, TypeOK

LEMMA SameDecorators ==
  ASSUME UNCHANGED <<shared, config, globals, story, applied, stale>>,
         stage # "blank", InnermostSoFar, SomethingSet
  PROVE  InnermostSoFar' /\ SomethingSet'
<1>1. \A i \in 1..applied, g \in Group :
        Decorator(story, i)' = Decorator(story, i) /\ (DecidesSoFar(i, g)' <=> DecidesSoFar(i, g))
  BY DEF Decorator, Selected, DecidesSoFar
<1> QED BY <1>1 DEF InnermostSoFar, SomethingSet

LEMMA DecorateIInv == ASSUME IInv, TypeOK', Decorate PROVE IInv'
<1> DEFINE n == applied + 1
           new == Decorator(story, n)
<1>1. applied' = n /\ applied \in Nat /\ n \in 1..Depth(story)
  BY DepthType DEF Decorate, IInv, TypeOK
<1>2. new \in Storage!Conditions /\ shared \in Storage!Conditions
  BY <1>1, DecoratorType DEF IInv, TypeOK
<1>3. shared' = Storage!Merge(shared, new)
  BY <1>1 DEF Decorate, SetBuildConditions
<1>4. \A i : Decorator(story, i)' = Decorator(story, i)
  BY DEF Decorate, Decorator, Selected
<1>5. ASSUME NEW i \in 1..n, NEW g \in Group, DecidesSoFar(i, g)', ~stale
      PROVE  shared'[g] = Decorator(story, i)[g]
  <2>1. CASE i = n
    BY <1>2, <1>3, <1>4, <1>5, <2>1, MergeType DEF DecidesSoFar
  <2>2. CASE i # n
    <3>1. i \in 1..applied /\ n \in (i + 1)..n /\ (i + 1)..applied \subseteq (i + 1)..n
      BY <1>1, <2>2
    <3>2. Decorator(story, i)[g] # Absent
          /\ \A j \in (i + 1)..n : Decorator(story, j)[g] = Absent
      BY <1>1, <1>4, <1>5 DEF DecidesSoFar, Decorate
    <3>3. DecidesSoFar(i, g)
      BY <3>1, <3>2 DEF DecidesSoFar
    <3>4. shared[g] = Decorator(story, i)[g]
      BY <1>5, <3>1, <3>3 DEF IInv, InnermostSoFar, Decorate
    <3>5. new[g] = Absent
      BY <3>1, <3>2
    <3> QED BY <1>2, <1>3, <3>4, <3>5, MergeType
  <2> QED BY <2>1, <2>2
<1>6. InnermostSoFar'
  BY <1>1, <1>4, <1>5 DEF InnermostSoFar, Decorate
<1>7. ASSUME NEW i \in 1..n, NEW g \in Group, Decorator(story, i)[g] # Absent
      PROVE  shared' # Storage!Nothing
  <2>1. CASE i = n
    <3>1. shared'[g] = new[g]
      BY <1>2, <1>3, <1>7, <2>1, MergeType
    <3> QED BY <1>7, <2>1, <3>1 DEF Storage!Nothing
  <2>2. CASE i # n
    <3>1. i \in 1..applied
      BY <1>1, <2>2
    <3>2. shared # Storage!Nothing
      BY <1>7, <3>1 DEF IInv, SomethingSet, Decorate
    <3>3. PICK h \in Group : shared[h] # Absent
      BY <1>2, <3>2 DEF Storage!Nothing, Storage!Conditions
    <3>4. shared'[h] # Absent
      BY <1>2, <1>3, <3>3, MergeType
    <3> QED BY <3>4 DEF Storage!Nothing
  <2> QED BY <2>1, <2>2
<1>8. SomethingSet'
  BY <1>1, <1>4, <1>7 DEF SomethingSet, Decorate
<1>9. Found'
  BY DEF Found, Decorate
<1> QED BY <1>6, <1>8, <1>9 DEF IInv

LEMMA StepIInv == IInv /\ [Next]_vars => IInv'
<1> SUFFICES ASSUME IInv, [Next]_vars PROVE IInv'
  OBVIOUS
<1>1. TypeOK /\ TypeOK'
  BY StepTypeOK DEF IInv
<1>2. ASSUME NEW g \in DOMAIN config, NEW v \in config[g].values, Select(g, v)
      PROVE  IInv'
  <2>1. InnermostSoFar'
    BY <1>2 DEF Select, InnermostSoFar
  <2>2. SomethingSet'
    <3>1. ASSUME NEW i \in 1..applied, NEW h \in Group, stage # "blank",
                 Decorator(story, i)'[h] # Absent
          PROVE  shared # Storage!Nothing
      BY <1>1, <1>2, <3>1, SelectKeepsGroups DEF IInv, SomethingSet
    <3> QED BY <1>2, <3>1 DEF Select, storageVars, SomethingSet
  <2>3. Found'
    BY <1>2 DEF Select, storageVars, IInv, Found
  <2> QED BY <1>1, <2>1, <2>2, <2>3 DEF IInv
<1>3. ASSUME NEW s \in Story, Render(s) PROVE IInv'
  BY <1>1, <1>3 DEF Render, IInv, InnermostSoFar, SomethingSet, Found
<1>4. CASE Decorate
  BY <1>1, <1>4, DecorateIInv
<1>5. CASE RunStory \/ RenderComponent
  <2>1. Found'
    BY <1>1, <1>5, GetFound DEF RunStory, RenderComponent
  <2>2. InnermostSoFar' /\ SomethingSet'
    BY <1>5, SameDecorators DEF RunStory, RenderComponent, IInv
  <2> QED BY <1>1, <2>1, <2>2 DEF IInv
<1>6. CASE Close
  BY <1>1, <1>6 DEF Close, IInv, InnermostSoFar, SomethingSet, Found
<1>7. CASE UNCHANGED vars
  <2>1. Found'
    BY <1>7 DEF vars, IInv, Found
  <2>2. InnermostSoFar' /\ SomethingSet'
    <3>1. CASE stage = "blank"
      BY <1>7, <3>1 DEF vars, InnermostSoFar, SomethingSet
    <3> QED BY <1>7, <3>1, SameDecorators DEF vars, IInv
  <2> QED BY <1>1, <2>1, <2>2 DEF IInv
<1> QED BY <1>2, <1>3, <1>4, <1>5, <1>6, <1>7 DEF Next

LEMMA Inductive == Spec => []IInv
BY InitIInv, StepIInv, PTL DEF Spec

(* However many stories were shown before, and whatever they set, a story  *)
(* finds what its innermost decorator sets.                                *)
THEOREM Innermost == Spec => []InnermostDecides
<1>1. IInv => InnermostDecides
  <2> SUFFICES ASSUME IInv, stage = "shown", ~stale,
                      NEW i \in 1..Depth(story), NEW g \in Group, Decides(story, i, g)
               PROVE  /\ shared[g] = Decorator(story, i)[g]
                      /\ outcome[story] = "got" => answer[story][g] = Decorator(story, i)[g]
    BY DEF InnermostDecides
  <2>1. applied = Depth(story)
    BY DEF IInv, TypeOK
  <2>2. shared[g] = Decorator(story, i)[g]
    BY <2>1 DEF IInv, InnermostSoFar, Decides, DecidesSoFar
  <2> QED BY <2>2 DEF IInv, Found
<1> QED BY <1>1, Inductive, PTL

(* A decorated story never finds the conditions unset.                     *)
THEOREM Rendered == Spec => []DecoratedStoriesRender
<1>1. IInv => DecoratedStoriesRender
  BY DEF IInv, TypeOK, SomethingSet, Found, DecoratedStoriesRender
<1> QED BY <1>1, Inductive, PTL

(* Nothing comes between a story and its components that sets conditions,  *)
(* so both read the same.                                                  *)
LEMMA ComponentStep ==
  ASSUME IInv, RenderComponent PROVE UNCHANGED <<answer, outcome>>
<1>1. /\ answer \in [Story -> Storage!Conditions] /\ story \in Story
      /\ outcome \in [Story -> {"none", "set", "got", "notSet"}]
  BY DEF IInv, TypeOK
<1>2. CASE shared = Storage!Nothing
  BY <1>1, <1>2 DEF IInv, Found, RenderComponent, GetBuildConditions
<1>3. CASE shared # Storage!Nothing
  BY <1>1, <1>3 DEF IInv, Found, RenderComponent, GetBuildConditions
<1> QED BY <1>2, <1>3

(* Whatever is selected in the toolbar meanwhile, the components of a      *)
(* story find the conditions the story found.                              *)
THEOREM Components == Spec => ComponentsFindTheSame
<1>1. IInv /\ [Next]_vars =>
        [RenderComponent => UNCHANGED <<answer, outcome>>]_vars
  BY ComponentStep
<1> QED
  BY <1>1, Inductive, PTL DEF Spec, ComponentsFindTheSame
=============================================================================
