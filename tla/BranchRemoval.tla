---------------------------- MODULE BranchRemoval ----------------------------
(***************************************************************************)
(* What the plugin makes of the code of a file (TransformVisitor in        *)
(* swc-plugin/src/transform.rs): which branches of its ifs and switches it *)
(* cuts out, which errors it reports on the way, and which imports go      *)
(* afterwards.                                                             *)
(*                                                                         *)
(* Code is the sequence of its nodes, a node behind its parts and the      *)
(* whole at the end; the visitor changes nodes where they stand.  What a   *)
(* single helper call is folded to is the subject of CompiledCalls: here a *)
(* call has a verdict.  All callees are resolved.                          *)
(***************************************************************************)
EXTENDS Naturals, Sequences

CONSTANTS
  Import,   \* import declaration -> the names it binds, {} if for effect
  Ident,    \* names in the code, imported or not
  Files     \* the code of the files, each as a function

-----------------------------------------------------------------------------
(* Code *)

(* The value of an is-call, or the index of a switch's branch; "runtime"   *)
(* stays in the program, "error" is not a call the plugin accepts.         *)
IsVerdict == {"true", "false", "runtime", "error"}
SwitchVerdict == {"first", "second", "runtime", "error"}

Single == {"empty", "log", "call", "var", "block", "new", "if"}
Statement == Single \cup {"let"}
Test == {"is", "not", "literal"}
Callable == {"ref", "member", "made", "function", "switch"}
List == {"item", "end"}   \* of statements
Kind == Statement \cup Test \cup Callable \cup List

(* The kinds each part may have: log(is-call), e(), { list }, !e, a switch *)
(* of two branches, a function of a body, new class { constructor() {      *)
(* list } }.  No else is an empty one.  Among the branches of a switch are *)
(* names, methods n.method, and what a call n() makes.                     *)
Grammar(kind) ==
  CASE kind = "if" -> <<Test, Single, Single>>
    [] kind = "log" -> <<{"is", "literal"}>>
    [] kind = "call" -> <<Callable>>
    [] kind \in {"block", "function", "new"} -> <<List>>
    [] kind = "item" -> <<Statement, List>>
    [] kind = "not" -> <<Test>>
    [] kind = "switch" -> <<Callable, Callable>>
    [] OTHER -> <<>>

Naming == {"ref", "member", "made", "var", "let"}

Labels(kind) ==
  CASE kind \in Naming -> Ident
    [] kind = "is" -> IsVerdict
    [] kind = "switch" -> SwitchVerdict
    [] kind = "literal" -> {"true", "false"}
    [] OTHER -> {"none"}

Node == [node : Kind, label : UNION {Labels(kind) : kind \in Kind}, parts : Seq(Nat)]

Fits(code, p) ==
  LET parts == code[p].parts
      kinds == Grammar(code[p].node) IN
  /\ code[p].label \in Labels(code[p].node)
  /\ Len(parts) = Len(kinds)
  /\ \A i \in DOMAIN kinds : parts[i] \in 1..(p - 1) /\ code[parts[i]].node \in kinds[i]

Code == {code \in Seq(Node) : code # <<>> /\ \A p \in DOMAIN code : Fits(code, p)}

(* Nobody writes if (true) by hand: it would be told from a folded call no *)
(* more.                                                                   *)
ASSUME FilesAssumption ==
  Files \subseteq {code \in Code : /\ code[Len(code)].node = "function"
                                   /\ \A p \in DOMAIN code : code[p].node # "literal"}

Parts(code, p) == {code[p].parts[i] : i \in DOMAIN code[p].parts}

(* What is below p, down being the way from a node. *)
Reach(down) ==
  LET reach[p \in DOMAIN down] == {p} \cup UNION {reach[q] : q \in down[p]}
  IN reach

Nodes(code) == Reach([p \in DOMAIN code |-> Parts(code, p)])

(* All nodes but those inside of others of these kinds. *)
Outside(code, kinds) ==
  Reach([p \in DOMAIN code |-> IF code[p].node \in kinds THEN {} ELSE Parts(code, p)])

Items(code) ==
  Reach([p \in DOMAIN code |-> IF code[p].node = "item" THEN Parts(code, p) ELSE {}])

LabelsIn(code, positions, kinds) ==
  {code[q].label : q \in {r \in positions : code[r].node \in kinds}}

(* IdentCollector *)
Names(code, p) == LabelsIn(code, Nodes(code)[p], Naming)

(* What p declares for the function around it, or, as a list, for itself. *)
VarsOutside(code, p, kinds) == LabelsIn(code, Outside(code, kinds)[p], {"var"})
Vars(code, p) == VarsOutside(code, p, {"function", "new"})
Lets(code, p) == LabelsIn(code, Items(code)[p], {"let"})

-----------------------------------------------------------------------------
(* How code runs: the traces of its effects.  A call that is decided at    *)
(* runtime may give any answer, for the conditions may change between two  *)
(* of them; so may a call in error, which a run must not reach.            *)
(*                                                                         *)
(* JavaScript is eager: to evaluate a switch is to evaluate all branches.  *)
(* What the plugin makes of a switch evaluates the one it takes.           *)

(* What the names mean to the enclosing code, and whether to tell which    *)
(* calls are those of a method on its object.                              *)
Context ==
  [meaning : [Ident -> {"let", "var", "import", "global"}], receivers : BOOLEAN]

(* A block's let declarations; a function has the vars inside of it, too.  *)
InBlock(code, list, c) ==
  [meaning |-> [n \in Ident |-> IF n \in Lets(code, list) THEN "let" ELSE c.meaning[n]],
   receivers |-> c.receivers]

InFunction(code, list, c) ==
  InBlock(code, list,
    [meaning |-> [n \in Ident |-> IF n \in Vars(code, list) THEN "var" ELSE c.meaning[n]],
     receivers |-> c.receivers])

FileScope(decls) ==
  [n \in Ident |-> IF \E d \in DOMAIN decls : n \in decls[d] THEN "import" ELSE "global"]

Asks(verdict, answer) == <<IF verdict = "error" THEN "error" ELSE "ask", answer>>

Calls(n, c, receiver) == {<< <<"call", n, c.meaning[n], receiver>> >>}
Made(effect, n, c) == << <<effect, n, c.meaning[n]>> >>

(* The answers a test or a switch gets, each with its trace. *)
Replies(verdict) ==
  IF verdict \in {"runtime", "error"} THEN {<< <<Asks(verdict, b)>>, b >> : b \in BOOLEAN}
  ELSE {<< <<>>, verdict \in {"true", "first"} >>}

Negated(answers) == {<<a[1], ~a[2]>> : a \in answers}

Answers(code) ==
  LET answers[p \in DOMAIN code] ==
        IF code[p].node = "not" THEN Negated(answers[code[p].parts[1]])
        ELSE Replies(code[p].label)
  IN answers

Logs(answers) == {a[1] \o << <<"log", a[2]>> >> : a \in answers}
Then(firsts, rests) == {first \o rest : first \in firsts, rest \in rests}
Branch(answers, yes, no) ==
  UNION {{a[1] \o run : run \in IF a[2] THEN yes ELSE no} : a \in answers}

(* To evaluate an expression has an effect if it makes something. *)
Evaluates(code, eager) ==
  LET trace[p \in DOMAIN code] ==
        [c \in Context |->
          LET x == code[p]
              Value(i) == trace[x.parts[i]][c] IN
          CASE x.node = "made" -> Made("make", x.label, c)
            [] x.node = "switch" ->
                 IF eager \/ x.label \notin {"first", "second"} THEN Value(1) \o Value(2)
                 ELSE Value(IF x.label = "first" THEN 1 ELSE 2)
            [] OTHER -> <<>>]
  IN trace

(* The runs of a statement or a list, or the calls of an expression's      *)
(* value.  A method has its object as `this` only when called as one.      *)
Runs(code, eager) ==
  LET runs[p \in DOMAIN code] ==
        [c \in Context |->
          LET x == code[p]
              Run(i, d) == runs[x.parts[i]][d] IN
          CASE x.node \in {"ref", "member"} -> Calls(x.label, c, FALSE)
            [] x.node = "made" -> {Made("callMade", x.label, c)}
            [] x.node = "call" ->
                 Then({Evaluates(code, eager)[x.parts[1]][c]},
                      IF code[x.parts[1]].node = "member"
                      THEN Calls(code[x.parts[1]].label, c, c.receivers) ELSE Run(1, c))
            [] x.node = "log" -> Logs(Answers(code)[x.parts[1]])
            [] x.node = "block" -> Run(1, InBlock(code, x.parts[1], c))
            [] x.node \in {"function", "new"} -> Run(1, InFunction(code, x.parts[1], c))
            [] x.node = "item" -> Then(Run(1, c), Run(2, c))
            [] x.node = "if" -> Branch(Answers(code)[x.parts[1]], Run(2, c), Run(3, c))
            [] x.node = "switch" -> Branch(Replies(x.label), Run(1, c), Run(2, c))
            [] OTHER -> {<<>>}]
  IN runs

ProgramRuns(program, decls, receivers, eager) ==
  Runs(program, eager)[Len(program)][[meaning |-> FileScope(decls), receivers |-> receivers]]

-----------------------------------------------------------------------------
(* The visitor *)

(* try_eval_if_test *)
TryEval(code) ==
  LET eval[p \in DOMAIN code] ==
        CASE code[p].node = "not" /\ eval[code[p].parts[1]] = "true" -> "false"
          [] code[p].node = "not" /\ eval[code[p].parts[1]] = "false" -> "true"
          [] code[p].node = "is" /\ code[p].label \in {"true", "false"} -> code[p].label
          [] OTHER -> "unknown"
  IN eval

Verdict(code, p) == TryEval(code)[code[p].parts[1]]   \* of an if
Dropped(code, p) == code[p].parts[IF Verdict(code, p) = "true" THEN 3 ELSE 2]
Taken(code, p) == code[p].parts[IF Verdict(code, p) = "true" THEN 2 ELSE 3]

(* Mutant: the vars of a function count, too. *)
HasAnyVar(code, p) == LabelsIn(code, Nodes(code)[p], {"var"}) # {}

(* HoistedVarFinder looks into all but functions: into the constructor of  *)
(* a class, for one.                                                       *)
HoistedVars(code, p) == VarsOutside(code, p, {"function"})
HasHoistedVar(code, p) == HoistedVars(code, p) # {}

(* Mutant: nobody asks for vars. *)
RemovedAnyway(code, p) == code[p].node = "if" /\ Verdict(code, p) # "unknown"

(* The if goes, and what it takes is in its place. *)
Removed(code, p) ==
  /\ code[p].node = "if"
  /\ Verdict(code, p) # "unknown"
  /\ ~HasHoistedVar(code, Dropped(code, p))

Folded(code, p) == code[p].node = "is" /\ code[p].label \in {"true", "false"}

Inlined(code, p) == code[p].node = "switch" /\ code[p].label \in {"first", "second"}
Winner(code, p) == code[p].parts[IF code[p].label = "first" THEN 1 ELSE 2]
Loser(code, p) == code[p].parts[IF code[p].label = "first" THEN 2 ELSE 1]

(* Mutant: what takes the place of an if or a switch is not visited. *)
InPlaceOnce(code) ==
  LET place[p \in DOMAIN code] ==
        CASE Removed(code, p) -> Taken(code, p)
          [] Inlined(code, p) -> Winner(code, p)
          [] code[p].node = "item" /\ code[place[code[p].parts[1]]].node = "empty" ->
               place[code[p].parts[2]]
          [] OTHER -> p
  IN place

(* Mutant: the test of an if that goes stays. *)
InPlaceButTest(code) ==
  LET place[p \in DOMAIN code] ==
        CASE Removed(code, p) ->
               IF code[Taken(code, p)].node = "empty" THEN code[p].parts[1]
               ELSE place[Taken(code, p)]
          [] Inlined(code, p) -> place[Winner(code, p)]
          [] code[p].node = "item" /\ code[place[code[p].parts[1]]].node = "empty" ->
               place[code[p].parts[2]]
          [] OTHER -> p
  IN place

(* The node that visit_mut_stmt and visit_mut_expr leave in the place of   *)
(* p; visit_mut_stmts and visit_mut_module_items take empty statements out *)
(* of a list.                                                              *)
InPlace(code) ==
  LET place[p \in DOMAIN code] ==
        CASE Removed(code, p) -> place[Taken(code, p)]
          [] Inlined(code, p) -> place[Winner(code, p)]
          [] code[p].node = "item" /\ code[place[code[p].parts[1]]].node = "empty" ->
               place[code[p].parts[2]]
          [] OTHER -> p
  IN place

Rewrite(code) ==
  [p \in DOMAIN code |->
    [node |-> IF Folded(code, p) THEN "literal" ELSE code[p].node,
     label |-> code[p].label,
     parts |-> [i \in DOMAIN code[p].parts |-> InPlace(code)[code[p].parts[i]]]]]

(* Mutant: of an if or a switch that stays only one branch. *)
VisitedOne(code) ==
  Reach([p \in DOMAIN code |->
    IF Removed(code, p) THEN {Taken(code, p)}
    ELSE IF code[p].node = "if" THEN {code[p].parts[2]}
    ELSE IF code[p].node = "switch" THEN {code[p].parts[1]} ELSE Parts(code, p)])

(* The nodes the visitor comes to: of a removed if only what it takes, of  *)
(* a switch all branches.                                                  *)
Visited(code) ==
  Reach([p \in DOMAIN code |-> IF Removed(code, p) THEN {Taken(code, p)} ELSE Parts(code, p)])

Errors(code, p) ==
  {q \in Visited(code)[p] : code[q].node \in {"is", "switch"} /\ code[q].label = "error"}

(* Mutant: the other branches of a switch go unnoticed. *)
DiscardedOfIfs(code, p) ==
  UNION {Names(code, Dropped(code, q)) : q \in {r \in Visited(code)[p] : Removed(code, r)}}

(* discarded_idents after p: the branches of an if go as they are, those   *)
(* of a switch after the visit.                                            *)
Discarded(code, p) ==
  UNION {IF Removed(code, q) THEN Names(code, Dropped(code, q))
         ELSE IF Inlined(code, q) THEN Names(Rewrite(code), InPlace(code)[Loser(code, q)])
         ELSE {} : q \in Visited(code)[p]}

DidTransform(code) ==
  \E q \in Visited(code)[Len(code)] :
    Removed(code, q) \/ Folded(code, q) \/ Inlined(code, q)

-----------------------------------------------------------------------------

VARIABLES
  source,    \* the code of the file
  output,    \* the same after the plugin
  imports,   \* the import declarations left, and the names each still binds
  errors,    \* where the calls are that the plugin reported
  phase      \* "source", then "built" or "failed"

vars == <<source, output, imports, errors, phase>>

Init ==
  /\ source \in Files
  /\ output = source
  /\ imports = Import
  /\ errors = {}
  /\ phase = "source"

(* cleanup_imports: a declaration goes with its last specifier. *)
Cleaned(used, discarded) ==
  LET Kept(d) == Import[d] \ (discarded \ used) IN
  [d \in {d \in DOMAIN Import : Import[d] = {} \/ Kept(d) # {}} |-> Kept(d)]

VisitProgram ==
  /\ phase = "source"
  /\ output' = Rewrite(source)
  /\ errors' = Errors(source, Len(source))
  /\ imports' = IF DidTransform(source)
                THEN Cleaned(Names(output', Len(output')), Discarded(source, Len(source)))
                ELSE imports
  /\ phase' = IF errors' = {} THEN "built" ELSE "failed"
  /\ UNCHANGED source

Next == VisitProgram

Spec == Init /\ [][Next]_vars

-----------------------------------------------------------------------------

(* The type invariant: what the plugin makes of code is code. *)
TypeOK ==
  /\ phase \in {"source", "built", "failed"}
  /\ {source, output} \subseteq Code
  /\ Len(output) = Len(source)
  /\ output[Len(output)].node = "function"
  /\ DOMAIN imports \subseteq DOMAIN Import
  /\ \A d \in DOMAIN imports : imports[d] \subseteq Import[d]
  /\ errors \subseteq DOMAIN source

(* What is built has the effects of the source, whatever the answers of    *)
(* the calls that stay, with every name bound to what it was bound to: to  *)
(* the let of its block, to a var of its function, or to an import.  But   *)
(* of a switch that is decided, the branches that go are not evaluated,    *)
(* which they are without the plugin.                                      *)
RunsAsWritten ==
  phase = "built" =>
    ProgramRuns(output, imports, FALSE, TRUE) = ProgramRuns(source, Import, FALSE, FALSE)

(* No call that the plugin cannot accept is ever made by a program that it *)
(* has built.  (A call in a branch it cuts out is neither made nor         *)
(* reported.)                                                              *)
NoErrorAtRuntime ==
  phase = "built" =>
    \A run \in ProgramRuns(source, Import, FALSE, TRUE) :
      \A i \in DOMAIN run : run[i][1] # "error"

(* Nothing is left to do for a second pass: no call it would fold, no      *)
(* branch it would cut out, in whatever was in a branch that stays.        *)
OnePassIsEnough ==
  phase # "source" =>
    /\ Rewrite(output) = output
    /\ ~DidTransform(output)

(* Dead code stays only for a var that is in it and not in a function: one *)
(* that it declares for the function around it, or, though that hoists     *)
(* nowhere, one of a constructor.                                          *)
OnlyVarsKeepDeadCode ==
  phase # "source" =>
    \A p \in Nodes(output)[Len(output)], b \in BOOLEAN :
      output[p].node = "if" /\ Answers(output)[output[p].parts[1]] = {<< <<>>, b >>} =>
        HasHoistedVar(output, output[p].parts[IF b THEN 3 ELSE 2])

(* An import goes if and only if the source has its name and the output    *)
(* has it no more; a declaration goes with the last of its names, and one  *)
(* that was there for its effect stays.                                    *)
ImportsFollowTheCode ==
  phase # "source" =>
    \A d \in DOMAIN Import :
      LET Stays(n) == \/ n \in Names(output, Len(output))
                      \/ n \notin Names(source, Len(source)) IN
      IF Import[d] = {} \/ \E n \in Import[d] : Stays(n)
      THEN d \in DOMAIN imports /\ imports[d] = {n \in Import[d] : Stays(n)}
      ELSE d \notin DOMAIN imports

-----------------------------------------------------------------------------

(* README.md: "the SWC plugin is an optimization, not a requirement".  The *)
(* program does what it does without the plugin: it makes what it makes,   *)
(* and calls a function with the `this` it has.                            *)
PluginIsAnOptimization ==
  phase = "built" =>
    ProgramRuns(output, imports, TRUE, TRUE) = ProgramRuns(source, Import, TRUE, TRUE)
=============================================================================
