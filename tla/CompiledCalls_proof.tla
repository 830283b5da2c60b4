------------------------- MODULE CompiledCalls_proof -------------------------
(***************************************************************************)
(* Proofs about the folding of helper calls, for any program, any groups   *)
(* and any deployment.                                                     *)
(***************************************************************************)
EXTENDS CompiledCalls, TLAPS

(* What an argument list is, for any bound on its length. *)
LEMMA NamesAreSeq ==
  ASSUME NEW S, NEW names \in Runtime!NamesOver(S)
  PROVE  /\ DOMAIN names \subseteq Nat
         /\ \A i \in DOMAIN names : names[i] \in S
BY CompiledAssumption
   DEF Runtime!NamesOver, Runtime!HelpersAssumption

LEMMA CallsAreTyped ==
  ASSUME NEW c \in Runtime!Call
  PROVE  /\ c.kind \in {"is", "switch"}
         /\ DOMAIN c.names \subseteq Nat
         /\ \A i \in DOMAIN c.names : c.names[i] \in Name \cup {Default}
         /\ c.kind = "is" => \A i \in DOMAIN c.names : c.names[i] \in Name
         /\ c.kind = "switch" =>
              \A i, j \in DOMAIN c.names : c.names[i] = c.names[j] => i = j
<1>1. CASE c \in [kind: {"is"}, literal: BOOLEAN, names: Runtime!NamesOver(Name)]
  BY <1>1, NamesAreSeq
<1>2. CASE c \in {d \in [kind: {"switch"}, literal: BOOLEAN,
                         names: Runtime!NamesOver(Name \cup {Default})] :
                    Runtime!IsInjective(d.names)}
  <2>1. c.names \in Runtime!NamesOver(Name \cup {Default})
    BY <1>2
  <2> QED BY <1>2, <2>1, NamesAreSeq DEF Runtime!IsInjective
<1> QED BY <1>1, <1>2 DEF Runtime!Call

(* A value of a fixed group is active in exactly the contexts of a build   *)
(* that fixes the group to it: in all of them or in none.                  *)
LEMMA FixedValue ==
  ASSUME TypeOK, NEW context \in Runtime!Context,
         NEW v \in Name, GroupOf[v] # Absent, choice[GroupOf[v]] # Null
  PROVE  Runtime!Holds(v, context) <=> choice[GroupOf[v]] = v
<1>1. GroupOf[v] \in Group /\ v # Absent
  BY CompiledAssumption DEF Runtime!HelpersAssumption
<1>2. context[GroupOf[v]] = choice[GroupOf[v]]
  BY <1>1 DEF Runtime!Context
<1>3. ASSUME NEW g \in Group, context[g] = v PROVE g = GroupOf[v]
  BY <1>1, <1>3 DEF Runtime!Context, Runtime!ValuesOf
<1> QED BY <1>1, <1>2, <1>3 DEF Runtime!Holds

-----------------------------------------------------------------------------

(* Each way of folding a call gives its answer in every context.           *)
LEMMA FoldFalseSound ==
  ASSUME TypeOK, NEW s \in Site, FoldFalse(s), NEW context \in Runtime!Context
  PROVE  Runtime!Answers(calls[s], context, FALSE)
<1> DEFINE names == calls[s].names
<1>1. calls[s].kind = "is" /\ \A i \in DOMAIN names : names[i] \in Name
  BY CallsAreTyped DEF FoldFalse, IsCall, TypeOK
<1>2. PICK i \in DOMAIN names : State(names[i]) = "inactiveFixed"
  BY DEF FoldFalse
<1>3. /\ GroupOf[names[i]] # Absent
      /\ choice[GroupOf[names[i]]] # Null
      /\ choice[GroupOf[names[i]]] # names[i]
  BY <1>2 DEF State
<1>4. ~Runtime!Holds(names[i], context)
  BY <1>1, <1>3, FixedValue
<1> QED BY <1>1, <1>4 DEF Runtime!Answers, Runtime!AllHold

LEMMA FoldTrueSound ==
  ASSUME TypeOK, NEW s \in Site, FoldTrue(s), NEW context \in Runtime!Context
  PROVE  Runtime!Answers(calls[s], context, TRUE)
<1> DEFINE names == calls[s].names
<1>1. calls[s].kind = "is" /\ \A i \in DOMAIN names : names[i] \in Name
  BY CallsAreTyped DEF FoldTrue, IsCall, TypeOK
<1>2. ASSUME NEW i \in DOMAIN names PROVE Runtime!Holds(names[i], context)
  <2>1. State(names[i]) \notin {"unknown", "inactiveFixed", "runtime"}
    BY DEF FoldTrue, RunsThrough, Stops, SomeRuntime
  <2>2. /\ GroupOf[names[i]] # Absent
        /\ choice[GroupOf[names[i]]] # Null
        /\ choice[GroupOf[names[i]]] = names[i]
    BY <2>1 DEF State
  <2> QED BY <1>1, <2>2, FixedValue
<1> QED BY <1>1, <1>2 DEF Runtime!Answers, Runtime!AllHold

(* The keys of a switch that is inlined are of one fixed group. *)
LEMMA InlinedKeys ==
  ASSUME TypeOK, NEW s \in Site, SwitchCall(s), OneGroup(calls[s].names),
         ~RuntimeGroup(calls[s].names)
  PROVE  /\ calls[s].kind = "switch"
         /\ DOMAIN calls[s].names \subseteq Nat
         /\ \A i, j \in DOMAIN calls[s].names :
              calls[s].names[i] = calls[s].names[j] => i = j
         /\ \A i \in DOMAIN calls[s].names :
              calls[s].names[i] # Default =>
                /\ calls[s].names[i] \in Name
                /\ GroupOf[calls[s].names[i]] # Absent
                /\ choice[GroupOf[calls[s].names[i]]] # Null
<1>1. calls[s] \in Runtime!Call /\ calls[s].kind = "switch"
  BY DEF SwitchCall, TypeOK
<1> QED BY <1>1, CallsAreTyped DEF OneGroup, Misplaced, RuntimeGroup

LEMMA InlineBranchSound ==
  ASSUME TypeOK, NEW s \in Site, InlineBranch(s),
         NEW i \in DOMAIN calls[s].names, Wins(calls[s].names, i),
         NEW context \in Runtime!Context
  PROVE  Runtime!Answers(calls[s], context, calls[s].names[i])
<1> DEFINE names == calls[s].names
<1>1. SwitchCall(s) /\ OneGroup(names) /\ ~RuntimeGroup(names)
  BY DEF InlineBranch
<1>2. /\ names[i] # Default
      /\ choice[GroupOf[names[i]]] = names[i]
  BY DEF Wins, State
<1>3. Runtime!Holds(names[i], context)
  BY <1>1, <1>2, InlinedKeys, FixedValue
<1>4. ASSUME NEW j \in DOMAIN names, j < i, names[j] # Default
      PROVE  ~Runtime!Holds(names[j], context)
  <2>1. GroupOf[names[j]] = GroupOf[names[i]]
    BY <1>1, <1>2, <1>4 DEF OneGroup, Misplaced
  <2>2. i \in Nat /\ j \in Nat /\ names[j] # names[i]
    BY <1>1, <1>4, InlinedKeys
  <2> QED BY <1>1, <1>2, <1>4, <2>1, <2>2, InlinedKeys, FixedValue
<1>5. Runtime!FirstHolding(names, i, context)
  BY <1>2, <1>3, <1>4 DEF Runtime!FirstHolding
<1> QED BY <1>1, <1>5, InlinedKeys DEF Runtime!Answers

LEMMA NoWinnerSound ==
  ASSUME TypeOK, NEW s \in Site, NoWinner(s), NEW context \in Runtime!Context
  PROVE  Runtime!Answers(calls[s], context,
           IF Runtime!HasDefault(calls[s].names) THEN Default ELSE NoBranch)
<1> DEFINE names == calls[s].names
<1>1. SwitchCall(s) /\ OneGroup(names) /\ ~RuntimeGroup(names)
  BY DEF NoWinner
<1>2. ASSUME NEW i \in DOMAIN names, names[i] # Default
      PROVE  ~Runtime!Holds(names[i], context)
  <2>1. /\ names[i] \in Name
        /\ GroupOf[names[i]] # Absent
        /\ choice[GroupOf[names[i]]] # Null
    BY <1>1, <1>2, InlinedKeys
  <2>2. choice[GroupOf[names[i]]] # names[i]
    BY <1>2, <2>1 DEF NoWinner, Wins, State
  <2> QED BY <2>1, <2>2, FixedValue
<1>3. Runtime!NoneHolds(names, context)
  BY <1>2 DEF Runtime!NoneHolds
<1> QED BY <1>1, <1>3, InlinedKeys DEF Runtime!Answers

-----------------------------------------------------------------------------

(* What the steps of the visitor have in common: one call is decided.      *)
LEMMA CompileStep ==
  ASSUME TypeOK, NEW s \in Site, Compile(s)
  PROVE  /\ phase = "compiling"
         /\ form[s] = Pending
         /\ UNCHANGED <<calls, choice, active, answer, phase>>
         /\ \/ /\ errors' = errors
               /\ \E r \in Runtime!Answer \cup {Kept} :
                    form' = [form EXCEPT ![s] = r]
            \/ /\ form' = [form EXCEPT ![s] = Kept]
               /\ \E error \in Errors : errors' = errors \cup {<<s, error>>}
<1>1. Visits(s)
  BY DEF Compile, CompileIs, CompileSwitch, RejectDynamic, RejectUnknownValue,
         FoldFalse, KeepIs, FoldTrue, RejectKey, KeepSwitch, InlineBranch,
         InlineDefault, RejectNoBranch, NoWinner, IsCall, SwitchCall
<1>2. CASE RejectDynamic(s)
  BY <1>1, <1>2 DEF RejectDynamic, Report, Visits, Errors
<1>3. CASE RejectUnknownValue(s)
  BY <1>1, <1>3 DEF RejectUnknownValue, Report, Visits, Errors
<1>4. CASE RejectKey(s)
  BY <1>1, <1>4 DEF RejectKey, Report, Visits, Errors
<1>5. CASE RejectNoBranch(s)
  BY <1>1, <1>5 DEF RejectNoBranch, Report, Visits, Errors
<1>6. CASE FoldFalse(s) \/ FoldTrue(s) \/ KeepIs(s) \/ KeepSwitch(s)
             \/ InlineDefault(s)
  BY <1>1, <1>6 DEF FoldFalse, FoldTrue, KeepIs, KeepSwitch, InlineDefault,
       CompileTo, Visits, Runtime!Answer
<1>7. CASE InlineBranch(s)
  <2>1. PICK i \in DOMAIN calls[s].names : CompileTo(s, calls[s].names[i])
    BY <1>7 DEF InlineBranch
  <2>2. calls[s].names[i] \in Runtime!Answer
    BY CallsAreTyped DEF TypeOK, Runtime!Answer
  <2> QED BY <1>1, <2>1, <2>2 DEF CompileTo, Visits
<1> QED BY <1>2, <1>3, <1>4, <1>5, <1>6, <1>7
        DEF Compile, CompileIs, CompileSwitch

(* Type correctness. *)
LEMMA StepTypeOK == TypeOK /\ [Next]_vars => TypeOK'
<1> SUFFICES ASSUME TypeOK, [Next]_vars PROVE TypeOK'
  OBVIOUS
<1>1. UNCHANGED choice => Runtime!Context' = Runtime!Context
  BY DEF Runtime!Context
<1>2. ASSUME NEW s \in Site, Compile(s) PROVE TypeOK'
  BY <1>1, <1>2, CompileStep DEF TypeOK
<1>3. CASE FinishBuild
  BY <1>1, <1>3 DEF FinishBuild, TypeOK
<1>4. CASE SwitchContext
  BY <1>1, <1>4 DEF SwitchContext, Runtime!SwitchContext, TypeOK
<1>5. ASSUME NEW s \in Site, EvaluateKept(s) PROVE TypeOK'
  BY <1>1, <1>5 DEF EvaluateKept, Runtime!Evaluate, TypeOK
<1>6. ASSUME NEW s \in Site, EvaluateFolded(s) PROVE TypeOK'
  BY <1>1, <1>6 DEF EvaluateFolded, TypeOK
<1>7. CASE UNCHANGED vars
  BY <1>1, <1>7 DEF vars, TypeOK
<1> QED BY <1>2, <1>3, <1>4, <1>5, <1>6, <1>7 DEF Next

(* The type invariant holds of every build and every run of its program.   *)
THEOREM TypeInvariant == Spec => []TypeOK
<1>1. Init => TypeOK
  BY CompiledAssumption
     DEF Init, Runtime!Init, TypeOK, Runtime!HelpersAssumption
<1> QED BY <1>1, StepTypeOK, PTL DEF Spec

-----------------------------------------------------------------------------

(* A call is decided for all contexts, and no error is reported without    *)
(* its reason.                                                             *)
LEMMA DecisionSound ==
  ASSUME TypeOK, NEW s \in Site, Compile(s), form'[s] \in Runtime!Answer,
         NEW context \in Runtime!Context
  PROVE  Runtime!Answers(calls[s], context, form'[s])
<1>1. Kept \notin Runtime!Answer /\ form \in [Site -> Runtime!Answer \cup {Pending, Kept}]
  BY CompiledAssumption DEF TypeOK
<1>2. CASE FoldFalse(s)
  BY <1>1, <1>2, FoldFalseSound DEF FoldFalse, CompileTo
<1>3. CASE FoldTrue(s)
  BY <1>1, <1>3, FoldTrueSound DEF FoldTrue, CompileTo
<1>4. CASE InlineBranch(s)
  <2>1. PICK i \in DOMAIN calls[s].names :
          Wins(calls[s].names, i) /\ CompileTo(s, calls[s].names[i])
    BY <1>4 DEF InlineBranch
  <2>2. form'[s] = calls[s].names[i]
    BY <1>1, <2>1 DEF CompileTo
  <2> QED BY <1>4, <2>1, <2>2, InlineBranchSound
<1>5. CASE InlineDefault(s)
  BY <1>1, <1>5, NoWinnerSound DEF InlineDefault, CompileTo
<1>6. CASE KeepIs(s) \/ KeepSwitch(s)
  BY <1>1, <1>6 DEF KeepIs, KeepSwitch, CompileTo
<1>7. CASE RejectDynamic(s) \/ RejectUnknownValue(s) \/ RejectKey(s)
             \/ RejectNoBranch(s)
  BY <1>1, <1>7 DEF RejectDynamic, RejectUnknownValue, RejectKey,
       RejectNoBranch, Report
<1> QED BY <1>2, <1>3, <1>4, <1>5, <1>6, <1>7
        DEF Compile, CompileIs, CompileSwitch

(* What RefusalsAreJustified says of one error of a call.                   *)
Justified(c, error) ==
  \/ ~c.literal
  \/ error # "notLiteral" /\ ~WellTyped(c)
  \/ error = "noBranch" /\ AlwaysAnswers(c, NoBranch)

LEMMA RefusalSound ==
  ASSUME TypeOK, NEW s \in Site, Compile(s), NEW error,
         <<s, error>> \in errors' \ errors
  PROVE  Justified(calls[s], error)
<1> DEFINE names == calls[s].names
<1>1. calls[s] \in Runtime!Call
  BY DEF TypeOK
<1>2. CASE RejectDynamic(s)
  BY <1>2 DEF RejectDynamic, Justified
<1>3. CASE RejectUnknownValue(s)
  <2>1. PICK i \in DOMAIN names : State(names[i]) = "unknown"
    BY <1>3 DEF RejectUnknownValue
  <2>2. names[i] \in Name /\ names[i] # Default
    BY <1>1, <1>3, CallsAreTyped, CompiledAssumption
       DEF RejectUnknownValue, IsCall, Runtime!HelpersAssumption
  <2>3. error = "unknownValue"
    BY <1>3 DEF RejectUnknownValue, Report
  <2> QED BY <2>1, <2>2, <2>3 DEF State, WellTyped, GroupAt, Justified
<1>4. CASE RejectKey(s)
  <2>1. PICK i \in DOMAIN names : Misplaced(names, i)
    BY <1>4 DEF RejectKey, FirstMisplaced
  <2>2. calls[s].kind = "switch" /\ DOMAIN names \subseteq Nat
    BY <1>1, <1>4, CallsAreTyped DEF RejectKey, SwitchCall
  <2>3. error \in {"unknownValue", "mixedGroups"}
    BY <1>4 DEF RejectKey, Report
  <2> QED BY <2>1, <2>2, <2>3 DEF Misplaced, WellTyped, GroupAt, Justified
<1>5. CASE RejectNoBranch(s)
  BY <1>5, NoWinnerSound DEF RejectNoBranch, Report, Justified, AlwaysAnswers
<1>6. CASE FoldFalse(s) \/ FoldTrue(s) \/ KeepIs(s) \/ KeepSwitch(s)
             \/ InlineDefault(s) \/ InlineBranch(s)
  BY <1>6 DEF FoldFalse, FoldTrue, KeepIs, KeepSwitch, InlineDefault,
       InlineBranch, CompileTo
<1> QED BY <1>2, <1>3, <1>4, <1>5, <1>6
        DEF Compile, CompileIs, CompileSwitch

-----------------------------------------------------------------------------

(* Steps that leave the deployment alone leave its contexts, and with them *)
(* the answers in each of them, as they are.                               *)
LEMMA SameContexts ==
  ASSUME UNCHANGED choice
  PROVE  Runtime!Context' = Runtime!Context
BY DEF Runtime!Context

LEMMA InitIInv == Init => IInv
<1> SUFFICES ASSUME Init PROVE IInv
  OBVIOUS
<1>1. TypeOK
  BY CompiledAssumption
     DEF Init, Runtime!Init, TypeOK, Runtime!HelpersAssumption
<1>2. Pending \notin Runtime!Answer
  BY CompiledAssumption DEF Runtime!HelpersAssumption, Runtime!Answer
<1>3. FoldedSoundly
  BY <1>2 DEF Init, FoldedSoundly
<1> QED BY <1>1, <1>3 DEF Init, IInv, AllCompiled, RefusalsAreJustified

LEMMA StepIInv ==
  ASSUME IInv, [Next]_vars
  PROVE  IInv'
<1>1. TypeOK /\ TypeOK'
  BY StepTypeOK DEF IInv
<1>2. ASSUME NEW s \in Site, Compile(s) PROVE IInv'
  <2>1. /\ UNCHANGED <<calls, choice, phase>>
        /\ phase = "compiling"
        /\ Runtime!Context' = Runtime!Context
        /\ \A t \in Site : t # s => form'[t] = form[t]
    BY <1>1, <1>2, CompileStep, SameContexts DEF TypeOK
  <2>2. FoldedSoundly'
    <3> SUFFICES ASSUME NEW t \in Site, form'[t] \in Runtime!Answer,
                        NEW context \in Runtime!Context
                 PROVE  Runtime!Answers(calls[t], context, form'[t])
      BY <2>1 DEF FoldedSoundly, AlwaysAnswers
    <3>1. CASE t = s
      BY <1>1, <1>2, <3>1, DecisionSound
    <3>2. CASE t # s
      BY <2>1, <3>2 DEF IInv, FoldedSoundly, AlwaysAnswers
    <3> QED BY <3>1, <3>2
  <2>3. RefusalsAreJustified'
    <3> SUFFICES ASSUME NEW e \in errors' PROVE Justified(calls[e[1]], e[2])
      BY <2>1 DEF RefusalsAreJustified, Justified, WellTyped, GroupAt,
                  AlwaysAnswers
    <3>1. CASE e \in errors
      BY <3>1 DEF IInv, RefusalsAreJustified, Justified
    <3>2. CASE e \notin errors
      <4>1. PICK error : errors' = errors \cup {<<s, error>>}
        BY <1>1, <1>2, <3>2, CompileStep
      <4>2. e = <<s, error>> /\ e[1] = s /\ e[2] = error
        BY <3>2, <4>1
      <4> QED BY <1>1, <1>2, <3>2, <4>2, RefusalSound
    <3> QED BY <3>1, <3>2
  <2> QED BY <1>1, <2>1, <2>2, <2>3 DEF IInv, AllCompiled
<1>3. ASSUME UNCHANGED <<calls, choice, form, errors>>, AllCompiled'
      PROVE  IInv'
  BY <1>1, <1>3, SameContexts
     DEF IInv, FoldedSoundly, RefusalsAreJustified, WellTyped, GroupAt,
         AlwaysAnswers
<1>4. CASE FinishBuild
  BY <1>3, <1>4 DEF FinishBuild, AllCompiled
<1>5. CASE SwitchContext
  BY <1>3, <1>5 DEF SwitchContext, Runtime!SwitchContext, IInv, AllCompiled
<1>6. ASSUME NEW s \in Site, EvaluateKept(s) \/ EvaluateFolded(s) PROVE IInv'
  BY <1>3, <1>6 DEF EvaluateKept, Runtime!Evaluate, EvaluateFolded, IInv,
       AllCompiled
<1>7. CASE UNCHANGED vars
  BY <1>3, <1>7 DEF vars, IInv, AllCompiled
<1> QED BY <1>2, <1>4, <1>5, <1>6, <1>7 DEF Next

(* The strengthening: every folded call has its answer in every context.   *)
LEMMA Invariance == Spec => []IInv
<1>1. IInv /\ [Next]_vars => IInv'
  BY StepIInv
<1> QED BY <1>1, InitIInv, PTL DEF Spec

(* The build refuses no program whose calls have literal arguments, are    *)
(* well-typed and have a branch in some context.                           *)
THEOREM Refusals == Spec => []RefusalsAreJustified
<1>1. IInv => RefusalsAreJustified
  BY DEF IInv
<1> QED BY <1>1, Invariance, PTL

(* Folding is sound: a program that was built behaves as its source would. *)
THEOREM FoldingIsSound == Spec => ImplementsRuntime
<1>1. Init => Runtime!Init
  BY DEF Init
<1>2. IInv /\ [Next]_vars => [Runtime!Next]_(Runtime!vars)
  <2> SUFFICES ASSUME IInv, [Next]_vars
               PROVE  [Runtime!Next]_(Runtime!vars)
    OBVIOUS
  <2>1. ASSUME NEW s \in Site, Compile(s) PROVE UNCHANGED Runtime!vars
    BY <2>1, CompileStep DEF IInv, Runtime!vars
  <2>2. ASSUME NEW s \in Site, EvaluateFolded(s) PROVE Runtime!Evaluate(s)
    <3>1. form[s] \in Runtime!Answer
      BY <2>2 DEF EvaluateFolded, IInv, TypeOK, AllCompiled
    <3>2. Runtime!Answers(calls[s], active, form[s])
      BY <3>1 DEF IInv, TypeOK, FoldedSoundly, AlwaysAnswers
    <3> QED BY <2>2, <3>1, <3>2 DEF EvaluateFolded, Runtime!Evaluate
  <2>3. ASSUME NEW s \in Site, EvaluateKept(s) PROVE Runtime!Evaluate(s)
    BY <2>3 DEF EvaluateKept
  <2>4. CASE FinishBuild
    BY <2>4 DEF FinishBuild, Runtime!vars
  <2>5. CASE SwitchContext
    BY <2>5 DEF SwitchContext, Runtime!Next
  <2>6. CASE UNCHANGED vars
    BY <2>6 DEF vars, Runtime!vars
  <2> QED BY <2>1, <2>2, <2>3, <2>4, <2>5, <2>6 DEF Next, Runtime!Next
<1> QED BY <1>1, <1>2, Invariance, PTL DEF Spec, ImplementsRuntime, Runtime!Spec

-----------------------------------------------------------------------------

(* The configuration lists more than one condition value.  With a single   *)
(* one, no group fixed, every check of it succeeds whenever anything is    *)
(* set, and yet the plugin keeps it.                                       *)
TwoValues == \A v \in Name : \E w \in Name : w # v /\ GroupOf[w] # Absent

(* A value is held by its group or not at all. *)
LEMMA HeldByItsGroup ==
  ASSUME TypeOK, NEW context \in Runtime!Context, NEW v \in Name,
         Runtime!Holds(v, context)
  PROVE  GroupOf[v] # Absent /\ context[GroupOf[v]] = v
<1>1. PICK g \in Group : context[g] = v
  BY DEF Runtime!Holds
<1>2. v # Absent /\ Absent \notin Group
  BY CompiledAssumption DEF Runtime!HelpersAssumption
<1>3. context[g] \in Runtime!ValuesOf(g) \cup {Absent}
  BY DEF Runtime!Context
<1>4. GroupOf[v] = g
  BY <1>1, <1>2, <1>3 DEF Runtime!ValuesOf
<1> QED BY <1>1, <1>2, <1>4

(* A value of a group that is not fixed may be inactive. *)
LEMMA MayFail ==
  ASSUME TypeOK, TwoValues, NEW v \in Name, GroupOf[v] # Absent,
         choice[GroupOf[v]] = Null
  PROVE  \E context \in Runtime!Context : ~Runtime!Holds(v, context)
<1>1. PICK w \in Name : w # v /\ GroupOf[w] # Absent
  BY DEF TwoValues
<1>2. /\ GroupOf[v] \in Group /\ GroupOf[w] \in Group
      /\ Absent \notin Name /\ Null \notin Name
  BY <1>1, CompiledAssumption DEF Runtime!HelpersAssumption
<1>3. \A g \in Group : choice[g] \in Runtime!ValuesOf(g) \cup {Null}
  BY DEF TypeOK, Runtime!Choice
<1> DEFINE context == [g \in Group |->
             IF choice[g] # Null THEN choice[g]
             ELSE IF GroupOf[w] = g THEN w ELSE Absent]
<1>4. \A g \in Group : context[g] \in Runtime!ValuesOf(g) \cup {Absent}
  BY <1>1, <1>3 DEF Runtime!ValuesOf
<1>5. context[GroupOf[w]] # Absent
  BY <1>2, <1>3 DEF Runtime!ValuesOf
<1>6. context \in Runtime!Context
  <2>1. context \in [Group -> Name \cup {Absent}]
    BY <1>4 DEF Runtime!ValuesOf
  <2> QED BY <1>2, <1>4, <1>5, <2>1 DEF Runtime!Context
<1>7. context[GroupOf[v]] # v
  BY <1>1, <1>2
<1> QED BY <1>6, <1>7, HeldByItsGroup

(* Values of distinct groups, none of them fixed otherwise, may be active  *)
(* together.                                                               *)
LEMMA MayHold ==
  ASSUME TypeOK, NEW S \in SUBSET Name, S # {},
         \A v \in S : GroupOf[v] # Absent /\ choice[GroupOf[v]] \in {Null, v},
         \A v, w \in S : GroupOf[v] = GroupOf[w] => v = w
  PROVE  \E context \in Runtime!Context :
           \A v \in S : Runtime!Holds(v, context)
<1>1. /\ \A v \in S : GroupOf[v] \in Group
      /\ Absent \notin Name /\ Null \notin Name
  BY CompiledAssumption DEF Runtime!HelpersAssumption
<1>2. \A g \in Group : choice[g] \in Runtime!ValuesOf(g) \cup {Null}
  BY DEF TypeOK, Runtime!Choice
<1> DEFINE Of(g) == CHOOSE v \in S : GroupOf[v] = g
           context == [g \in Group |->
             IF choice[g] # Null THEN choice[g]
             ELSE IF \E v \in S : GroupOf[v] = g THEN Of(g) ELSE Absent]
<1>3. ASSUME NEW g \in Group, \E v \in S : GroupOf[v] = g
      PROVE  Of(g) \in S /\ GroupOf[Of(g)] = g
  BY <1>3
<1>4. \A v \in S : Of(GroupOf[v]) = v
  BY <1>1, <1>3
<1> HIDE DEF Of
<1>5. \A g \in Group : context[g] \in Runtime!ValuesOf(g) \cup {Absent}
  BY <1>2, <1>3 DEF Runtime!ValuesOf
<1>6. \A v \in S : context[GroupOf[v]] = v
  BY <1>1, <1>4
<1>7. context \in Runtime!Context
  <2>1. context \in [Group -> Name \cup {Absent}]
    BY <1>5 DEF Runtime!ValuesOf
  <2>2. PICK v \in S : TRUE
    OBVIOUS
  <2>3. v \in Name /\ GroupOf[v] \in Group /\ context[GroupOf[v]] = v
    BY <1>1, <1>6
  <2>4. \E g \in Group : context[g] # Absent
    <3> HIDE DEF context
    <3> QED BY <1>1, <2>3
  <2> QED BY <1>5, <2>1, <2>4 DEF Runtime!Context
<1> QED BY <1>1, <1>6, <1>7 DEF Runtime!Holds

-----------------------------------------------------------------------------

(* What the plugin has found out about a call that it leaves to runtime.   *)
ForRuntime(s) ==
  \/ /\ calls[s].kind = "is"
     /\ RunsThrough(calls[s].names)
     /\ SomeRuntime(calls[s].names)
  \/ /\ calls[s].kind = "switch"
     /\ OneGroup(calls[s].names)
     /\ RuntimeGroup(calls[s].names)

KeptWithReason ==
  /\ phase = "running" => errors = {}
  /\ \A s \in Site :
       form[s] = Kept => ForRuntime(s) \/ \E e \in errors : e[1] = s

LEMMA KeptHasReason ==
  ASSUME TypeOK, NEW s \in Site, Compile(s), form'[s] = Kept
  PROVE  ForRuntime(s) \/ \E e \in errors' : e[1] = s
<1>1. /\ form \in [Site -> Runtime!Answer \cup {Pending, Kept}]
      /\ Kept \notin Runtime!Answer
  BY CompiledAssumption DEF TypeOK
<1>2. CASE KeepIs(s)
  BY <1>2 DEF KeepIs, IsCall, ForRuntime
<1>3. CASE KeepSwitch(s)
  BY <1>3 DEF KeepSwitch, SwitchCall, ForRuntime
<1>4. CASE RejectDynamic(s) \/ RejectUnknownValue(s) \/ RejectKey(s)
             \/ RejectNoBranch(s)
  <2>1. PICK error : errors' = errors \cup {<<s, error>>}
    BY <1>4 DEF RejectDynamic, RejectUnknownValue, RejectKey, RejectNoBranch,
         Report
  <2>2. <<s, error>> \in errors' /\ <<s, error>>[1] = s
    BY <2>1
  <2> QED BY <2>2
<1>5. CASE FoldFalse(s) \/ FoldTrue(s) \/ InlineDefault(s)
  BY <1>1, <1>5 DEF FoldFalse, FoldTrue, InlineDefault, CompileTo,
       Runtime!Answer
<1>6. CASE InlineBranch(s)
  <2>1. PICK i \in DOMAIN calls[s].names : CompileTo(s, calls[s].names[i])
    BY <1>6 DEF InlineBranch
  <2>2. calls[s].names[i] \in Runtime!Answer
    BY CallsAreTyped DEF TypeOK, Runtime!Answer
  <2> QED BY <1>1, <2>1, <2>2 DEF CompileTo
<1> QED BY <1>2, <1>3, <1>4, <1>5, <1>6 DEF Compile, CompileIs, CompileSwitch

LEMMA StepKeptWithReason ==
  ASSUME TypeOK, KeptWithReason, [Next]_vars
  PROVE  KeptWithReason'
<1>1. ASSUME NEW s \in Site, Compile(s) PROVE KeptWithReason'
  <2>1. /\ UNCHANGED <<calls, choice, phase>>
        /\ phase = "compiling"
        /\ errors \subseteq errors'
        /\ \A t \in Site : t # s => form'[t] = form[t]
    BY <1>1, CompileStep DEF TypeOK
  <2>2. \A t \in Site : ForRuntime(t)' <=> ForRuntime(t)
    BY <2>1 DEF ForRuntime, RunsThrough, SomeRuntime, OneGroup, RuntimeGroup,
         Stops, State, Misplaced
  <2> QED BY <1>1, <2>1, <2>2, KeptHasReason DEF KeptWithReason
<1>2. ASSUME UNCHANGED <<calls, choice, form, errors>>,
             phase' = "running" => errors = {}
      PROVE  KeptWithReason'
  BY <1>2 DEF KeptWithReason, ForRuntime, RunsThrough, SomeRuntime, OneGroup,
       RuntimeGroup, Stops, State, Misplaced
<1>3. CASE FinishBuild
  BY <1>2, <1>3 DEF FinishBuild
<1>4. CASE SwitchContext
  BY <1>2, <1>4 DEF SwitchContext, Runtime!SwitchContext, KeptWithReason
<1>5. ASSUME NEW s \in Site, EvaluateKept(s) \/ EvaluateFolded(s)
      PROVE  KeptWithReason'
  BY <1>2, <1>5 DEF EvaluateKept, Runtime!Evaluate, EvaluateFolded,
       KeptWithReason
<1>6. CASE UNCHANGED vars
  BY <1>2, <1>6 DEF vars, KeptWithReason
<1> QED BY <1>1, <1>3, <1>4, <1>5, <1>6 DEF Next

(* A well-typed is-call left to runtime is true in some context and false  *)
(* in another.                                                             *)
LEMMA IsUndecided ==
  ASSUME TypeOK, TwoValues, NEW s \in Site, WellTyped(calls[s]),
         calls[s].kind = "is", RunsThrough(calls[s].names),
         SomeRuntime(calls[s].names), NEW r
  PROVE  \E context \in Runtime!Context :
           ~Runtime!Answers(calls[s], context, r)
<1> DEFINE names == calls[s].names
           S == {names[i] : i \in DOMAIN names}
<1>1. \A i \in DOMAIN names : names[i] \in Name /\ names[i] # Default
  BY CallsAreTyped, CompiledAssumption DEF TypeOK, Runtime!HelpersAssumption
<1>2. \A i \in DOMAIN names :
        /\ GroupOf[names[i]] # Absent
        /\ choice[GroupOf[names[i]]] \in {Null, names[i]}
  BY DEF RunsThrough, Stops, State
<1>3. \A i, j \in DOMAIN names :
        GroupOf[names[i]] = GroupOf[names[j]] => names[i] = names[j]
  BY <1>1 DEF WellTyped, GroupAt
<1>4. PICK k \in DOMAIN names : choice[GroupOf[names[k]]] = Null
  BY DEF SomeRuntime, State
<1>5. PICK yes \in Runtime!Context : \A v \in S : Runtime!Holds(v, yes)
  <2>1. S \in SUBSET Name /\ S # {}
    BY <1>1, <1>4
  <2>2. \A v \in S : GroupOf[v] # Absent /\ choice[GroupOf[v]] \in {Null, v}
    BY <1>2
  <2>3. \A v, w \in S : GroupOf[v] = GroupOf[w] => v = w
    BY <1>3
  <2> HIDE DEF S
  <2> QED BY <2>1, <2>2, <2>3, MayHold
<1>6. PICK no \in Runtime!Context : ~Runtime!Holds(names[k], no)
  BY <1>1, <1>2, <1>4, MayFail
<1>7. Runtime!AllHold(names, yes) /\ ~Runtime!AllHold(names, no)
  BY <1>5, <1>6 DEF Runtime!AllHold
<1> QED BY <1>7 DEF Runtime!Answers

(* A switch left to runtime takes one of its branches in some context and  *)
(* not in another.                                                         *)
LEMMA SwitchUndecided ==
  ASSUME TypeOK, TwoValues, NEW s \in Site, calls[s].kind = "switch",
         OneGroup(calls[s].names), RuntimeGroup(calls[s].names), NEW r
  PROVE  \E context \in Runtime!Context :
           ~Runtime!Answers(calls[s], context, r)
<1> DEFINE names == calls[s].names
<1>1. /\ DOMAIN names \subseteq Nat
      /\ \A i, j \in DOMAIN names : names[i] = names[j] => i = j
      /\ \A i \in DOMAIN names : names[i] \in Name \cup {Default}
  BY CallsAreTyped DEF TypeOK
<1>2. PICK i \in DOMAIN names :
        names[i] # Default /\ choice[GroupOf[names[i]]] = Null
  BY DEF RuntimeGroup
<1>3. names[i] \in Name /\ GroupOf[names[i]] # Absent
  BY <1>1, <1>2 DEF OneGroup, Misplaced
<1>4. Default \notin Name /\ NoBranch \notin Name
  BY CompiledAssumption DEF Runtime!HelpersAssumption
<1>5. CASE r = names[i]
  <2>1. PICK no \in Runtime!Context : ~Runtime!Holds(names[i], no)
    BY <1>2, <1>3, MayFail
  <2>2. ~Runtime!Answers(calls[s], no, names[i])
    BY <1>3, <1>4, <2>1 DEF Runtime!Answers, Runtime!FirstHolding
  <2> QED BY <1>5, <2>2
<1>6. CASE r # names[i]
  <2>1. PICK yes \in Runtime!Context : Runtime!Holds(names[i], yes)
    <3> DEFINE S == {names[i]}
    <3>1. /\ S \in SUBSET Name /\ S # {}
          /\ \A v \in S : GroupOf[v] # Absent /\ choice[GroupOf[v]] \in {Null, v}
          /\ \A v, w \in S : GroupOf[v] = GroupOf[w] => v = w
      BY <1>2, <1>3
    <3>2. names[i] \in S
      OBVIOUS
    <3> HIDE DEF S
    <3> QED BY <3>1, <3>2, MayHold
  <2>2. ASSUME NEW j \in DOMAIN names, names[j] # Default,
               Runtime!Holds(names[j], yes)
        PROVE  j = i
    <3>1. GroupOf[names[j]] = GroupOf[names[i]]
      BY <1>1, <1>2, <1>3, <2>2 DEF OneGroup, Misplaced
    <3>2. names[j] \in Name
      BY <1>1, <2>2
    <3> QED BY <1>1, <1>3, <2>1, <2>2, <3>1, <3>2, HeldByItsGroup
  <2>3. ~Runtime!Answers(calls[s], yes, r)
    BY <1>2, <1>6, <2>1, <2>2
       DEF Runtime!Answers, Runtime!FirstHolding, Runtime!NoneHolds
  <2> QED BY <2>3
<1> QED BY <1>5, <1>6

(* Only what could not be decided is left to runtime, unless a single      *)
(* condition value is all that is listed.                                  *)
THEOREM Undecided == ASSUME TwoValues PROVE Spec => []KeptCallsAreUndecided
<1>1. Init => KeptWithReason
  BY CompiledAssumption DEF Init, KeptWithReason
<1>2. TypeOK /\ KeptWithReason /\ [Next]_vars => KeptWithReason'
  BY StepKeptWithReason
<1>3. TypeOK /\ KeptWithReason => KeptCallsAreUndecided
  <2> SUFFICES ASSUME TypeOK, KeptWithReason, phase = "running",
                      NEW s \in Site, form[s] = Kept, WellTyped(calls[s]),
                      NEW r \in Runtime!Answer
               PROVE  \E context \in Runtime!Context :
                        ~Runtime!Answers(calls[s], context, r)
    BY DEF KeptCallsAreUndecided, AlwaysAnswers
  <2>1. ForRuntime(s)
    BY DEF KeptWithReason
  <2> QED BY <2>1, IsUndecided, SwitchUndecided DEF ForRuntime
<1> QED BY <1>1, <1>2, <1>3, TypeInvariant, PTL DEF Spec

-----------------------------------------------------------------------------

(* A switch throws only when no key holds and there is no default.         *)
LEMMA ThrowsWithoutBranch ==
  ASSUME NEW c \in Runtime!Call, c.kind = "switch", NEW context,
         Runtime!Answers(c, context, NoBranch)
  PROVE  Runtime!NoneHolds(c.names, context) /\ ~Runtime!HasDefault(c.names)
<1>1. Default \notin {NoBranch} /\ NoBranch \notin Name
  BY CompiledAssumption DEF Runtime!HelpersAssumption
<1>2. ~ \E i \in DOMAIN c.names :
          Runtime!FirstHolding(c.names, i, context) /\ NoBranch = c.names[i]
  BY <1>1, CallsAreTyped DEF Runtime!FirstHolding
<1> QED BY <1>1, <1>2 DEF Runtime!Answers

(* The keys of a switch that the loop over them passes. *)
LEMMA OneGroupKeys ==
  ASSUME NEW c \in Runtime!Call, OneGroup(c.names)
  PROVE  /\ \A i \in DOMAIN c.names :
              c.names[i] # Default => GroupAt(c, i) # Absent
         /\ \A i, j \in DOMAIN c.names :
              c.names[i] # Default /\ c.names[j] # Default =>
                GroupAt(c, i) = GroupAt(c, j)
<1>1. DOMAIN c.names \subseteq Nat
  BY CallsAreTyped
<1>2. \A i, j \in DOMAIN c.names : i < j \/ j < i \/ i = j
  BY <1>1
<1> QED BY <1>2 DEF OneGroup, Misplaced, GroupAt

(* Each switch that is compiled has a branch in some context. *)
LEMMA KeptHasBranch ==
  ASSUME TypeOK, NEW s \in Site, KeepSwitch(s)
  PROVE  ~AlwaysAnswers(calls[s], NoBranch)
<1> DEFINE names == calls[s].names
<1>1. calls[s] \in Runtime!Call /\ calls[s].kind = "switch"
  BY DEF TypeOK, KeepSwitch, SwitchCall
<1>2. PICK i \in DOMAIN names :
        names[i] # Default /\ choice[GroupOf[names[i]]] = Null
  BY DEF KeepSwitch, RuntimeGroup
<1>3. names[i] \in Name /\ GroupOf[names[i]] # Absent
  BY <1>1, <1>2, CallsAreTyped DEF KeepSwitch, OneGroup, Misplaced
<1>4. PICK yes \in Runtime!Context : Runtime!Holds(names[i], yes)
  <2> DEFINE S == {names[i]}
  <2>1. /\ S \in SUBSET Name /\ S # {}
        /\ \A v \in S : GroupOf[v] # Absent /\ choice[GroupOf[v]] \in {Null, v}
        /\ \A v, w \in S : GroupOf[v] = GroupOf[w] => v = w
    BY <1>2, <1>3
  <2>2. names[i] \in S
    OBVIOUS
  <2> HIDE DEF S
  <2> QED BY <2>1, <2>2, MayHold
<1>5. ~Runtime!NoneHolds(names, yes)
  BY <1>2, <1>4 DEF Runtime!NoneHolds
<1> QED BY <1>1, <1>5, ThrowsWithoutBranch DEF AlwaysAnswers

LEMMA InlinedHasBranch ==
  ASSUME TypeOK, NEW s \in Site, InlineBranch(s) \/ InlineDefault(s)
  PROVE  ~AlwaysAnswers(calls[s], NoBranch)
<1> DEFINE names == calls[s].names
<1>1. calls[s] \in Runtime!Call /\ calls[s].kind = "switch"
  BY DEF TypeOK, InlineBranch, InlineDefault, NoWinner, SwitchCall
<1>2. active \in Runtime!Context
  BY DEF TypeOK
<1>3. CASE InlineBranch(s)
  <2>1. PICK i \in DOMAIN names : Wins(names, i)
    BY <1>3 DEF InlineBranch
  <2>2. names[i] # Default /\ choice[GroupOf[names[i]]] = names[i]
    BY <2>1 DEF Wins, State
  <2>3. Runtime!Holds(names[i], active)
    BY <1>2, <1>3, <2>2, InlinedKeys, FixedValue DEF InlineBranch
  <2>4. ~Runtime!NoneHolds(names, active)
    BY <2>2, <2>3 DEF Runtime!NoneHolds
  <2> QED BY <1>1, <1>2, <2>4, ThrowsWithoutBranch DEF AlwaysAnswers
<1>4. CASE InlineDefault(s)
  BY <1>1, <1>2, <1>4, ThrowsWithoutBranch DEF InlineDefault, AlwaysAnswers
<1> QED BY <1>3, <1>4

(* A call that is compiled without an error keeps the rules. *)
LEMMA CompiledIsAdmitted ==
  ASSUME TypeOK, NEW s \in Site, Compile(s)
  PROVE  Admitted(calls[s]) \/ \E e \in errors' : e[1] = s
<1> DEFINE names == calls[s].names
<1>1. calls[s] \in Runtime!Call
  BY DEF TypeOK
<1>2. CASE RejectDynamic(s) \/ RejectUnknownValue(s) \/ RejectKey(s)
             \/ RejectNoBranch(s)
  <2>1. PICK error : errors' = errors \cup {<<s, error>>}
    BY <1>2 DEF RejectDynamic, RejectUnknownValue, RejectKey, RejectNoBranch,
         Report
  <2>2. <<s, error>> \in errors' /\ <<s, error>>[1] = s
    BY <2>1
  <2> QED BY <2>2
<1>3. CASE FoldFalse(s)
  <2>1. AlwaysAnswers(calls[s], FALSE)
    BY <1>3, FoldFalseSound DEF AlwaysAnswers
  <2> QED BY <1>3, <2>1 DEF FoldFalse, IsCall, Admitted, IsAdmitted
<1>4. CASE KeepIs(s) \/ FoldTrue(s)
  <2>1. \A i \in DOMAIN names : GroupAt(calls[s], i) # Absent
    BY <1>4 DEF KeepIs, FoldTrue, RunsThrough, Stops, State, GroupAt
  <2> QED BY <1>4, <2>1 DEF KeepIs, FoldTrue, IsCall, Admitted, IsAdmitted
<1>5. CASE KeepSwitch(s)
  BY <1>1, <1>5, KeptHasBranch, OneGroupKeys
     DEF KeepSwitch, SwitchCall, Admitted, SwitchAdmitted
<1>6. CASE InlineBranch(s) \/ InlineDefault(s)
  BY <1>1, <1>6, InlinedHasBranch, OneGroupKeys
     DEF InlineBranch, InlineDefault, NoWinner, SwitchCall, Admitted,
         SwitchAdmitted
<1> QED BY <1>2, <1>3, <1>4, <1>5, <1>6 DEF Compile, CompileIs, CompileSwitch

(* What is compiled so far keeps the rules or has an error, and an error   *)
(* never goes away.                                                        *)
AdmittedOrReported ==
  /\ phase = "running" => errors = {}
  /\ \A s \in Site :
       form[s] # Pending => Admitted(calls[s]) \/ \E e \in errors : e[1] = s

LEMMA StepAdmittedOrReported ==
  ASSUME TypeOK, AdmittedOrReported, [Next]_vars
  PROVE  AdmittedOrReported'
<1>1. UNCHANGED <<calls, choice>> =>
        \A s \in Site : Admitted(calls[s])' <=> Admitted(calls[s])
  BY SameContexts
     DEF Admitted, IsAdmitted, SwitchAdmitted, GroupAt, AlwaysAnswers
<1>2. ASSUME NEW s \in Site, Compile(s) PROVE AdmittedOrReported'
  <2>1. /\ UNCHANGED <<calls, choice, phase>>
        /\ phase = "compiling"
        /\ errors \subseteq errors'
        /\ \A t \in Site : t # s => form'[t] = form[t]
    BY <1>2, CompileStep DEF TypeOK
  <2> QED BY <1>1, <1>2, <2>1, CompiledIsAdmitted DEF AdmittedOrReported
<1>3. ASSUME UNCHANGED <<calls, choice, form, errors>>,
             phase' = "running" => errors = {}
      PROVE  AdmittedOrReported'
  BY <1>1, <1>3 DEF AdmittedOrReported
<1>4. CASE FinishBuild
  BY <1>3, <1>4 DEF FinishBuild
<1>5. CASE SwitchContext
  BY <1>3, <1>5 DEF SwitchContext, Runtime!SwitchContext, AdmittedOrReported
<1>6. ASSUME NEW s \in Site, EvaluateKept(s) \/ EvaluateFolded(s)
      PROVE  AdmittedOrReported'
  BY <1>3, <1>6 DEF EvaluateKept, Runtime!Evaluate, EvaluateFolded,
       AdmittedOrReported
<1>7. CASE UNCHANGED vars
  BY <1>3, <1>7 DEF vars, AdmittedOrReported
<1> QED BY <1>2, <1>4, <1>5, <1>6, <1>7 DEF Next

(* The rules of the plugin hold of every call of a program that runs,      *)
(* whatever its calls and their order.                                     *)
THEOREM Rules == Spec => []RulesEnforced
<1>1. Init => AdmittedOrReported
  BY DEF Init, AdmittedOrReported
<1>2. TypeOK /\ AdmittedOrReported /\ [Next]_vars => AdmittedOrReported'
  BY StepAdmittedOrReported
<1>3. IInv /\ AdmittedOrReported => RulesEnforced
  BY DEF IInv, AllCompiled, AdmittedOrReported, RulesEnforced
<1> QED BY <1>1, <1>2, <1>3, TypeInvariant, Invariance, PTL DEF Spec
=============================================================================
