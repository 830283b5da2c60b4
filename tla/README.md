# A verification of `build-conditions`

`build-conditions` lets one code base carry several variants: `isBuildConditions('desktop')` asks
whether a condition is active, `switchBuildCondition({ desktop: A, mobile: B })` picks a branch.
Both work at runtime, over a storage of active conditions, and at build time, where an SWC plugin
folds the calls whose condition groups are fixed. The promise of the package is that nobody can
tell the two apart, except by the size of the bundle (section 3 says where one can). These modules
state that promise and its supporting ones, check them with TLC and prove some of them with TLAPS.

## 1. The system

### Components

| Component | Code | State | Operations |
|---|---|---|---|
| Plugin configuration | `swc-plugin/src/lib.rs` | the value-to-group table under construction | `Config::validate` |
| Folding of calls | `swc-plugin/src/transform.rs` | the program, the diagnostics | `eval_is_values`, `transform_is`, `transform_switch`, `unknown_value_error` |
| Traversal and cleanup | `swc-plugin/src/transform.rs` | stack of scopes, `discarded_idents`, `did_transform`, the imports | the `visit_mut_*` methods, `resolve_local`, `resolve_helper`, `discard`, `cleanup_imports` |
| Plugin entry | `swc-plugin/src/lib.rs` | none | `process_transform` |
| `isBuildConditions` | `src/isBuildConditions.ts` | none | the call |
| `switchBuildCondition` | `src/switchBuildCondition.ts` | the branches; the proxy's target | `resolve`, the call, the proxy traps |
| Conditions storage | `src/storage.ts` | the registered storage; `globalThis.__BUILD_CONDITIONS__` | `setBuildConditions`, `getBuildConditions`, `setBuildConditionsStorage`, `resetBuildConditionsStorage` |
| Storybook | `src/addon/index.ts`, `src/decorators/withBuildConditions.tsx` | none of their own | the two decorators, `createBuildConditionsGlobalTypes` |
| Types | `src/types.ts` | compile time only | `SingleGroup`, `UniqueGroups`, `Homogeneous`, `UniqueConditionValuesGuard` |

### How they interact

At build time `process_transform` reads the configuration, `validate` accepts it or the plugin
panics, and the visitor walks each file with the table. It decides which names are the package's,
folds the calls it can decide, removes dead `if` branches and switch branches, and finally the
imports nobody needs any more. At runtime the calls that are left, and every call of a build
without the plugin, read the storage through `getBuildConditions`: `isBuildConditions` once per
call, the wrapper of `switchBuildCondition` on every access. The storage is a global variable, or
on a server one backed by `AsyncLocalStorage` that an application registers. The Storybook
decorators write to it before a story renders.

The two halves share no state. They meet in the meaning of a call, which is why the central
theorem relates the compiled program to the runtime one.

### What is hard

* *Agreement across time.* A folded call answers forever with the build's conditions, a kept one
  with those of the moment; a file mixes both, and one call can mix fixed and runtime groups.
* *Early exits.* `validate`, `eval_is_values` and the key loop of `transform_switch` stop at the
  first offender, so what they report, and what they never look at, depends on order.
* *Names.* The visitor resolves helpers by name, through scopes pushed for the blocks of a script
  and for nothing in an ES module; the cleanup compares names again, after code has gone.
* *Shared references.* Tasks interleave at awaits over one stored object that is handed out as it
  is, while others merge into it, replace the storage or reset it.
* *A proxy over a dummy target.* Operations without a trap, and the engine's checks of a trap's
  answer, concern a target that is not the branch; the branch changes between two accesses.

There are no threads, locks, timeouts or retries in this code, nothing is persisted, and no
message can be lost.

### What makes each component correct

* Configuration: accepted exactly when well-formed; then the table resolves every listed value to
  its group and nothing else; the error names the first offender of any kind; the function returns.
* Folding: a successful build answers every call as the uncompiled program would; it contains no
  call that breaks a rule; an error is deserved and fails the build; what stays is what could not
  be decided.
* Traversal: a rewritten call is one of the helper, and vice versa; an import is dropped exactly
  when nothing needs it; the scope stack is never empty.
* Storage: it behaves as if conditions were copied; conditions vanish only by a reset, a
  replacement or the end of a scope.
* Wrapper: a read answers what the branch of the moment holds; what a write breaks is the property
  written.
* Branches: what is built has the effects of the source, but for the evaluation of the branches a
  switch loses; no call in error is left to run; one pass is enough.
* Storybook: a story renders under its innermost decorator's conditions, and its components under
  the same.

## 2. The modules

| Module | What it is |
|---|---|
| `ConfigContract` | abstract: one verdict on a configuration, and the table |
| `ConfigValidation` | `Config::validate`, statement by statement |
| `RuntimeHelpers` | abstract: every helper call decided at runtime |
| `CompiledCalls` | each call folded, kept or refused by the plugin; then the program runs |
| `ModuleVisitor` | the traversal of one file: scopes, resolution of names, removal, import cleanup |
| `ConditionsByValue` | abstract: the storage with conditions as values |
| `ConditionsStorage` | `storage.ts` with conditions as references into a heap, and tasks |
| `BranchRemoval` | the traversal of the code of one file, with its nesting: branches, errors, hoisted `var`s, imports |
| `Storybook` | the toolbar's and the stories' decorators over `ConditionsByValue` |
| `SwitchWrapper` | the proxies of `switchBuildCondition`, with the engine's part |
| `*_proof` | theorems and proofs of the module they extend |
| `MC*` | the constants of the runs |

Definitions that a comment calls a mutant are deliberate mistakes. They take no part in the
specification; substituting one for the definition after it must break the property it is for.

### Configuration

`ConfigValidation` has an action for every statement of `validate` that changes or returns
something: `EnterGroup`, `RejectUnconfiguredGroup`, `InsertValue`, `RejectDuplicate`,
`LeaveGroup`, `StartConditions`, `CheckChoice`, `RejectUnlistedGroup`, `RejectChoice`, `Accept`.
A `BTreeMap` is a function with `Absent` for a missing key, visited in the order of its keys,
which is why groups are numbers. A list may name a value twice: the JSON can.
`ConfigContract` is the abstract specification: one step decides. The implementation maps to it
with the table hidden until it is returned.

### Helper calls

`RuntimeHelpers` has a program (`calls`, one of the constant `Programs`), a deployment (`choice`:
what each group is fixed to), the active conditions, and the last answer of each call.
`CompiledCalls` adds what each call was compiled to (`form`), the diagnostics and the phase.
`Visits` imposes source order, and a call in error stays in the program and fails the build when
the traversal ends. Non-literal arguments, spreads and unsupported object properties are one case,
`literal = FALSE`. They type-check (`isBuildConditions(cond)` with a typed variable,
src/isBuildConditions.ts:16-19), work at runtime, and are refused by the plugin, as
README.md:198-200 announces: `WellTyped` does not ask for literals, and `RefusalsAreJustified`
names this refusal beside those of calls that are ill-typed or always throw. A switch whose
argument is missing altogether, which the plugin silently leaves, is not among the calls.

The assumptions, which `Context` and `Call` state:

* *The runtime agrees with the build*: groups fixed at build time are set at runtime to the value
  they were fixed to. Without it no folding could be sound.
* *The storage is initialised*, or `isBuildConditions` throws where a folded call does not.
* The keys of a switch are distinct (TypeScript refuses others) and enumerate in source order (no
  integer-like condition values).
* The configuration passed `validate`: `GroupOf` is a function because of `Refinement` below.

Lists of conditions that the types refuse, such as two values of one group, are included.

`RulesEnforced` is the other direction, from the program that runs back to what the build let
through, and stated without the compiler's terms: with two calls in one program it says that what
is compiled after an error cannot hide it. `ErrorsFailTheBuild` says that the build then ends, and
ends as failed.

### Traversal

The source file of `ModuleVisitor` is not a tree but the sequence of events the visitor meets:
imports, requires, other declarations, uses, blocks, helper calls, dead code. `scopes`, `used`,
`discarded`, `didTransform` and `imports` are the visitor's and the cleanup's own state. `frames`,
`bindings`, `live` and `dead` are what JavaScript's scoping says of the same events, and the
properties compare the two. `skipped` is the fast path of `visit_mut_program`. Dead code is a set
of names together with those it declares itself. Whether a call can be decided, which of two
branches is dead and whether an `if` is kept for a hoisted `var` are nondeterministic.

An ES module has one scope, so the `require` of any of its functions serves the calls of all of
them (transform.rs:669-672). The model does the same; `RewritesAreBound` is therefore about
scripts and about ES modules that require nothing, and `ResolvesTheBinding` about names that are
declared with one meaning.

Simplifications: imports precede the body, and declarations the uses of their names; a `require`
or a declaration is a `let` or `const` of its block, and a block is a `{}` statement or a
function's body (names that a `switch`, a loop head or a class expression scopes without one are
left out); an import declaration has one specifier, so
one without any (`import './x.css'`, which the cleanup never touches) is left out.

### Branches

`BranchRemoval` has the tree instead: statements are `if` with `!` and else-if, `switch` calls,
blocks, functions, classes with a constructor that runs at once (`new`), `var` and `let`; the
branches of a switch are names, methods, functions, switches, and values that a call has to make
(`made`: `memo(...)`, `f()`). A helper call is a node with a *verdict*, what `CompiledCalls`
would make of it: decided, left to runtime, or in error.

The tree is laid out as the sequence of its nodes, each behind its parts and the whole at the end;
`Grammar` says which kinds a part may have, and `Code` is every such sequence. So recursion over
the tree is a recursive function on positions, whatever holds below a node is about the set of
positions `Reach` finds there, and the visitor does what the code does, which changes nodes where
they stand: `InPlace` is the node that `visit_mut_stmt`, `visit_mut_expr` and `visit_mut_stmts`
leave in the place of another, and `Rewrite` the code with all of them in place. What has been cut
out keeps its position and is not reached any more.

`Visited` are the nodes the visitor comes to, `Errors` and `Discarded` what it collects on the way,
and `Cleaned` is `cleanup_imports`. The order matters and is kept: an `if` is decided before
anything in it is visited, a switch after, so that the branches an `if` loses are neither checked
for errors nor rewritten, and those of a switch are both.

Against this stands a semantics of the language, external: `Runs` gives the set of traces of a
statement, with every name bound as JavaScript binds it, and any answer for a call left to
runtime, since conditions may change between two calls (`Replies`). The visitor is one step; the
cases are the files.

JavaScript evaluates the argument of a switch with all its branches before `switchBuildCondition`
picks one. The visitor keeps the branch a decided switch takes and drops the expressions of the
others (transform.rs:443-465), whatever their evaluation would do. `Runs` has both readings
(`eager`), and the properties say which they mean: `RunsAsWritten` compares what is built, read as
JavaScript reads it, with the source in which a decided switch evaluates only the branch it takes;
`PluginIsAnOptimization` with the source as it is, and is violated (section 3).

What a subtree declares for the function around it (`Vars`) stops at functions and constructors;
what the visitor looks for (`HoistedVars`) stops, as `HoistedVarFinder` does, at functions and
arrows only. A constructor stands for all bodies that swc has no `Function` for: constructors and
static blocks of classes, accessors of object literals. So a `var` in one of them keeps a dead
branch although it hoists nowhere, which is not what the comment at transform.rs:767-768 says
("nested functions are not descended into"); nothing but size is lost.

Files are not written by hand with a literal `true` or `false` as a test (`FilesAssumption`): the
visitor leaves such an `if` alone, and a fold would not be told from it (transform.rs:682-684).

### Storage

A task is a request, test or story, and a step of `ConditionsStorage` is what runs between two
awaits. Conditions objects are indices into `objects`, `held` is what a task was last given.
`EnterScope` and `LeaveScope` are `AsyncLocalStorage.run`, external, as the README and
`storage.test.ts` of the repository use it: a storage without `set` that reads the task's own
object. `ConditionsByValue` has the same operations on values; the refinement mapping reads each
reference. Allocation has no limit in the program; `MaxObjects` bounds it.

### Wrapper

`SwitchWrapper` keeps the argument of the call (`conditions`: two keys may hold one object, as in
src/index.test.tsx:124), the properties of the objects, the key `resolve` finds, and the own
properties and attributes of the proxy's target. A delete through one key is seen under the other
when they share the object. It includes what ECMAScript prescribes around a
trap: `Get`, `Has`, `SetOnObject`, `DeleteFromObject` and `KeysOfObject` fail when the trap's
answer contradicts the target's sealed or frozen properties. That a write through the wrapper ends
on the target follows from `Reflect.set(branch, p, v, receiver)` with the proxy as receiver and no
`defineProperty` trap. `Object.preventExtensions` and `Object.defineProperty` have no trap either
(`PreventExtensions`, `DefineProperty`), and `Object.freeze` is a sequence of operations the module
has. From then on the engine compares the keys, the descriptors and the prototype a trap answers
with those of the target. The branch properties are plain data properties; `length` and `name` of
a function wrapper, `Object.setPrototypeOf` and lookups along the prototype chain are left out.

### Storybook

`Storybook` runs the decorators of the story on stage from the toolbar's to the innermost of its
own (`Decorate`), then the story (`RunStory`); a component that renders later reads the storage
alone (`RenderComponent`). A selection in the toolbar may come between any two renders. What
Storybook does is external: that it calls decorators and story without a break, and that one story
is on stage at a time. `shared` and `Merge` are those of `ConditionsByValue`.

## 3. The runs

| Run | Instance | States | Shows |
|---|---|---|---|
| `config` | 2 groups, 3 values, lists of up to 2 | 27,540 | contract, culprit of the error, termination |
| `compiled` | 2 calls of up to 3 names over 2 groups, one of them with a single value, and a typo | 254,732 | refinement of the runtime, rules enforced, deserved errors that fail the build, nothing decidable kept |
| `visitor` | files of up to 6 events, 2 names, blocks 3 deep | 277,374 | resolution of names and cleanup |
| `storage` | 2 tasks, 3 objects, 2 groups | 368,264 | values in spite of references |
| `wrapper` | 2 keys, 2 objects, one property beside `prototype`, 2 values | 1,658,726 | reads follow the branch, writes break their property only |
| `branches` | every file of size up to 4 (`MaxSize`), 3 names, 2 imports | 73,750 | effects, errors, leftovers and imports after the traversal |
| `storybook` | 3 stories with up to 2 decorators of their own, 3 groups | 350 | which decorator decides, what later components find |

Why the bounds are enough. *config*: a duplicate needs two groups or two places in one list, an
error needs at most two groups, and values beyond the two that clash and a third do not interact.
*compiled*: calls do not influence each other except through the errors, so in each program one of
the two calls is any call there is, and the other, before or after it, one of six that between them
have every outcome (`Samples`); three names allow an offender before, between and after others, and
a group with two values and one with one cover `null`, fixed to this, fixed to another. *visitor*:
the shortest files that go wrong take three events; six allow binding a name in one block, closing
it, opening another, and using it, with something else in between. Names are interchangeable, which
makes the symmetry sound: no definition but `None` names one. *storage*: an update is lost or an
alias shows with two tasks and two objects; the third object lets a task hold one while a second
replaces another. *wrapper*: two keys to switch between, over two objects or one, a property that
is missing, equal or different in the two, and the one that is born sealed; keys and values are
only compared, hence the symmetry. *branches*: an `if` or block in an `if` in a block, with a
declaration or a use beside it, fits in four; a switch counts three, whatever is in its two
branches, so that there is always room for something around it or next to it. Verdicts and names
take all combinations. *storybook*: no counter bounds it, so the run covers every sequence of
renders and selections; one story has no decorator, one sets groups that another leaves alone, and
one overrides itself, with `undefined` among the values.

Deadlock is disabled where the program stops: `validate` returns, a failed build has no successor,
a file ends or has been compiled. The other runs check it.

**Fairness.** `ConfigValidation` and the compiling part of `CompiledCalls` assume weak fairness of
their own steps: both are sequential loops of one thread that nothing can block. It is used for
`Returns` and `ErrorsFailTheBuild` only. No fairness is assumed of tasks, of context switches, or
of a program's calls.

### Where the code and its documents disagree

Five runs end in a counterexample, each about one sentence of the repository:

| Run | What TLC shows |
|---|---|
| `compiled_typos` | a misspelt value after a value known to be inactive builds without an error |
| `visitor_shadowing` | a parameter or local named like a registered helper is folded as the helper |
| `visitor_cleanup` | an import that no dead branch refers to is dropped because a dead branch *declares* its name |
| `wrapper_writes` | an assignment through the wrapper succeeds and does not reach the branch |
| `branch_receivers` | an inlined branch that is a method is called with its object as `this`, which it is not at runtime; and of `switchBuildCondition({ desktop: f(), mobile: g() })` one call is left where the runtime makes both (TLC shows whichever it meets first) |

The models show more that no run is devoted to:

* an error in a branch that a dead `if` loses is not reported (`Visited`);
* the visitor has one slot per helper and scope, so a second local name for a helper makes calls
  by the first stay in the output (`ResolvesTheBinding` then only asks that no call is taken for
  another helper);
* in an ES module a `require` in one function makes calls in another count as the helper's;
* a `var` in a class's constructor or static block, or in an accessor of an object literal, keeps a
  dead branch (`HoistedVars`, against transform.rs:767-768);
* a delete through the wrapper that throws has already taken the property from the branch
  (`DeleteFromObject`);
* the keys of a function wrapper are those of its target (`KeysOfFunction`);
* a group that no decorator of a story sets has the value an earlier story left
  (`InnermostDecides` speaks of the groups that one sets);
* `validate` refuses a value repeated within one group with an error that speaks of two
  (lib.rs:64): the only untrue message, which `BlamesTheCulprit` accepts with the group named
  twice.

## 4. What is proved

| Module | Theorem | Says |
|---|---|---|
| `ConfigValidation_proof` | `TypeInvariant`, `Refinement`, `Blames` | `[]TypeOK`, `Spec => ImplementsContract`, `[]BlamesTheCulprit` |
| `CompiledCalls_proof` | `TypeInvariant`, `Refusals`, `Rules`, `FoldingIsSound`, `Undecided` | `[]TypeOK`, `[]RefusalsAreJustified`, `[]RulesEnforced`, `Spec => ImplementsRuntime`, `TwoValues => (Spec => []KeptCallsAreUndecided)` |
| `ConditionsStorage_proof` | `TypeInvariant`, `StorageIsByValue`, `ConditionsStay` | `[]TypeOK`, `Spec => ImplementsByValue`, `Spec => OnlyResetUnsets` |
| `SwitchWrapper_proof` | `TypeInvariant`, `Reads`, `WritesBreak`, `WritesBreakTheirs` | `[]TypeOK`, `Spec => ReadsFollowTheBranch`, `[]OnlyWritesBreakObjects`, `Spec => WritesBreakTheirProperty` |
| `ModuleVisitor_proof` | `TypeInvariant`, `Rewrites`, `ImportsInUse` | `[]TypeOK`, `[]RewritesAreBound`, `[]LiveImportsKept` |
| `ModuleVisitorNames_proof` | `Resolves`, `ImportsExact` | `[]ResolvesTheBinding`, `Spec => ImportsAreExact` |
| `BranchRemoval_proof` | `TypeInvariant`, `SameRuns`, `NoError`, `OnePass`, `DeadCode`, `Imports` | `[]TypeOK`, `[]RunsAsWritten`, `[]NoErrorAtRuntime`, `[]OnePassIsEnough`, `[]OnlyVarsKeepDeadCode`, `[]ImportsFollowTheCode` |
| `Storybook_proof` | `TypeInvariant`, `Innermost`, `Rendered`, `Components` | `[]TypeOK`, `[]InnermostDecides`, `[]DecoratedStoriesRender`, `Spec => ComponentsFindTheSame` |

They hold for all values of the constants that satisfy the modules' assumptions: any groups,
values, calls, tasks, files and bounds. Every invariant that a run checks has its theorem.

*`Refinement`.* Accepting needs the whole configuration to be well-formed, while at each step
`validate` knows only what it has passed. `IInv` says precisely that: the table resolves exactly
the values inserted so far, no value occurs twice among them, the groups passed have a choice, and
the choices passed are listed. At `Accept` all loops are done and these facts add up to
`WellFormed` and `Resolves`; at every rejection the statement at hand contradicts one part of
`WellFormed`. `Blames` reads the same invariant at a rejection: what the loops have passed is in
order, so the entry at hand is the first of any kind that is not, and an inserted value has its
earlier place.

*`FoldingIsSound`.* Conditions change after the build, so it is not enough that a call was folded
to what it would have answered then. `IInv` contains `FoldedSoundly`: a form other than `Kept` is
the answer in *every* context of the deployment. Kept calls run as before. With the type
invariant and the fact that a running program has every call compiled, each step of the build is a
stutter of `RuntimeHelpers` and each evaluation one of its own. `Refusals` is another conjunct.
`Rules` has an invariant of its own: a call that has been compiled obeys the rules or is among the
errors, which only grow; a program runs only when there are none.

*`Undecided`.* The plugin keeps a call when its three-valued evaluation ends in "unknown". To show
that it had to, two contexts of the deployment must be found with two answers: the proof builds
one in which the runtime groups have the values asked for and one in which some group has another.
The second needs a listed value other than the one asked for: `TwoValues`. Without it, where one
value is all that a configuration lists, a call is kept though only one answer is possible.

*`StorageIsByValue`.* The mapping reads references, so a step must not change what any *other*
reference reads. That follows from `TypeOK`, no reference dangles, and from objects only ever being
appended, never written: the essential fact about `storage.ts`, which spreads into a new object.

*`Reads`, `WritesBreak`, `WritesBreakTheirs`.* A trap answers from the branch; the engine throws
when the answer contradicts the target. So the proofs turn on what the target can hold: the type
invariant says that a property of an object wrapper's target, and a frozen property of any, has
been written or defined through the wrapper. A function wrapper's target has a sealed property from
birth, which is not frozen: a read of it never throws until somebody defines it.

*`Rewrites`, `ImportsInUse`.* `RewritesAreBound` speaks of names, the visitor of its stack.
`Registered` links the two: a name in scope `i` of a script is declared, with that meaning, by
block `i`, which needs the stack and the blocks to grow and shrink together (`TypeOK`), and a block
to declare a name once. `ImportsInUse` adds `LiveImported`: until the cleanup, what the remaining
code refers to is imported, and `live` is part of `used`.

*`Resolves`.* `Registered` says that what is in a slot is bound so; `Slotted` is the converse, and
the part that could fail: the only name of a helper is in a slot of a scope no deeper than the
block for which it has that meaning. A slot is overwritten by another name of the same helper
only, and a scope goes with the blocks that could see it. The visitor asks for the innermost scope
with the name, which exists because the stack is finite (`Greatest`), and as the name has one
meaning it does not matter which that is.

*`ImportsExact`.* `SetsAreExact`: of an import whose name is declared once, `used` and `discarded`,
sets of bare names, tell what `live` and `dead` tell by scope. A declaration that would put its
name in `used`, or dead code that declares it itself, would be its second declaration; and no open
block hides it, for the same reason (`InnerBound`).

*`Innermost`, `Rendered`, `Components`.* While the decorators run, each group has the value of the
innermost of those that ran and set it, whatever was there before: merging keeps or overrides,
group by group. When all have run this is `InnermostDecides`, and a group that is set is never
unset again. From then on `shared` is what the story found, until the next render.

*`BranchRemoval_proof`.* The visitor is a single step, so the inductive invariant is short:
`IInv` says that nothing has happened yet, or that `output`, `errors`, `imports` and `phase` are
what `Pass` computes from `source`. All the work is in what the recursive functions compute, for
files of any size and depth. The theorems of the library that prove by induction take an operator;
here the induction is stated with a set of positions (`Induction`, from the well-foundedness of
`<`), and `Recursion` gives a function that is defined at `p` by its values before `p` its defining
equation. Each recursive function of the model then has a lemma with its equation (`ReachEquation`,
`TryEvalEquation`, `InPlaceEquation`, `AnswersEquation`, `RunsEquation`), and the rest is induction
over positions:

* `TypeInvariant`: what stands in a node's place is before it and of a kind that fits where it was
  (`InPlaceFits`): a statement for a statement, never a `let` where only a block may declare one.
* `OnePass`: after the rewriting no test can be decided any more (`NothingToFold`), and no decided
  switch is reached (`StableBelow`), so that the rewritten code is its own rewriting
  (`RewriteTwice`).
* `SameRuns`: a node and what stands in its place have the same runs, in every context
  (`RunsKept`). It needs that the visitor does not change what a list or function declares
  (`VarsKept`, `LetsKept`): the reason for `has_hoisted_var`. A taken branch may bring its names
  to another block, but no `let`. That imports have gone makes no difference, since names that are
  not used mean nothing to the runs (`RunsByMeaning`).
* `NoError`: all runs of a node of which the visitor reports nothing are quiet (`QuietRuns`), since
  a call it has not visited is in a branch that no run takes (`Decided`).
* `DeadCode`: a test with one answer is a literal or folded (`Undecided`), and then the `if` has
  been kept for `var`s outside of functions, which are still there after the rewriting
  (`DeadBranch`).
* `Imports`: the names of a node are those in its place together with those discarded
  (`NamesKept`), although the branches of an `if` are discarded as they were and those of a switch
  as rewritten. A name discarded twice, or discarded and used, does no harm: `used` is asked first.

Two things are not among what is preserved, and `branch_receivers` shows why: the receiver of a
method call (`SameRuns` speaks of traces that do not tell receivers, `Plain`), and the evaluation
of the branches that a decided switch loses (`EvaluatesKept`: of those it takes, it is kept).

Only model-checked: liveness (`Returns`, `ErrorsFailTheBuild`), which this prover does not reach,
and the counterexamples.

## 5. What is not modelled

* `process_transform` and the JSON of the options: deserialization and a panic.
* What else the evaluation of an expression may do than make a value by a call: getters, `await`
  and assignments among the branches of a switch go the way of such a call.
* In the trees: loops, `return` and `throw`, which the visitor passes without looking; function
  declarations that hoist out of a block in a sloppy script, which `has_hoisted_var` does not look
  for (ES modules are strict, and there they do not hoist).
* The demo story and the Storybook configuration: uses of the package with no state of their own.
  The titles and icons of the toolbar.
* TypeScript's checks in `types.ts`, which hold before any of this runs.
* `index.ts`, `testing.ts`: re-exports. Benchmarks and fixtures: no behaviour of their own.

## 6. Plan

Done, in this order: configuration, folding, storage, wrapper, traversal, branches, Storybook; the
theorems above, those of `BranchRemoval` last, for which its trees became sequences of nodes.

1. *Composition.* The visitor with the calls of `CompiledCalls`, so that a name resolved wrongly
   shows in the answers of the program.
2. *Sloppy scripts.* Hoisting of function declarations in `BranchRemoval`.
