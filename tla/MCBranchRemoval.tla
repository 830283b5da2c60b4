--------------------------- MODULE MCBranchRemoval ---------------------------
(* Small files: one import declaration of two names, one for its effect,   *)
(* and a name that may be a global, a let or a var.                        *)
EXTENDS BranchRemoval, SequencesExt

CONSTANTS a, b, v, impl, style, MaxSize

MCImport == [d \in {impl, style} |-> IF d = impl THEN {a, b} ELSE {}]

(* Code as a tree, and laid out behind the first k nodes. *)
Tree(kind, label, parts) == [node |-> kind, label |-> label, parts |-> parts]

RECURSIVE Layout(_, _)
Layout(tree, k) ==
  LET below == FoldLeft(LAMBDA done, part :
                          LET code == done[1] \o Layout(part, k + Len(done[1]))
                          IN <<code, Append(done[2], k + Len(code))>>,
                        << <<>>, <<>> >>, tree.parts)
  IN Append(below[1], Tree(tree.node, tree.label, below[2]))

Leaf(kind, label) == Tree(kind, label, <<>>)
Empty == Leaf("empty", "none")
End == Leaf("end", "none")
Is(verdict) == Leaf("is", verdict)
Not(test) == Tree("not", "none", <<test>>)
Call(expr) == Tree("call", "none", <<expr>>)
Block(body) == Tree("block", "none", <<body>>)
New(body) == Tree("new", "none", <<body>>)
Function(body) == Tree("function", "none", <<body>>)
If(test, cons, alt) == Tree("if", "none", <<test, cons, alt>>)
Switch(verdict, first, second) == Tree("switch", verdict, <<first, second>>)
Item(statement, rest) == Tree("item", "none", <<statement, rest>>)

MCTests ==
  {Is(verdict) : verdict \in IsVerdict} \cup {Not(Is("true")), Not(Not(Is("true")))}

(* Every kind of switch: of names, methods, made values, functions and     *)
(* another switch.                                                         *)
MCNames == {Leaf("ref", a), Leaf("ref", v), Leaf("member", b), Leaf("made", b)}
MCFunctions ==
  {Function(Item(Leaf("var", v),
     Item(If(Is(verdict), Call(Leaf("ref", b)), Call(Leaf("ref", v))), End))) :
       verdict \in IsVerdict}
MCSwitches ==
  {Call(Switch(s, e1, e2)) :
     s \in SwitchVerdict,
     e1 \in MCNames \cup MCFunctions,
     e2 \in MCNames \cup
            {Switch(t, Leaf("ref", b), Leaf("ref", a)) : t \in SwitchVerdict}}

(* A switch counts as much as to leave room for one more thing before,     *)
(* behind or around it.                                                    *)
MCLeaves ==
  << {Call(Leaf("ref", a)), Call(Leaf("ref", v)), Leaf("var", v), Leaf("let", a)},
     {Tree("log", "none", <<Is(verdict)>>) : verdict \in IsVerdict}
       \cup {Call(Leaf("member", b))},
     MCSwitches,
     {} >>

(* Statements and lists of size n, where what is no leaf adds 1, and what  *)
(* an if has where it needs a statement.  Nothing declares a name twice.   *)
RECURSIVE Statements(_), Lists(_), ToList(_)

(* UNION, but sorted on the way, which TLC's is not. *)
Union(sets) ==
  FoldLeft(LAMBDA all, set : IF all = {} THEN set ELSE all \cup set, {}, sets)

(* The statements of a list. *)
ToList(list) ==
  IF list = End THEN {} ELSE {list.parts[1]} \cup ToList(list.parts[2])

Singles(n) ==
  IF n = 0 THEN {Empty} ELSE {s \in Statements(n) : s.node # "let"}

Statements(n) ==
  LET bodies == Lists(n - 1)
      Ifs(k) == {If(test, cons, alt) :
                   test \in MCTests, cons \in Singles(k), alt \in Singles(n - 1 - k)} IN
  IF n = 1 THEN MCLeaves[n]
  ELSE Union(<<MCLeaves[n], {Block(body) : body \in bodies},
               {Call(Function(body)) : body \in bodies},
               {New(body) : body \in bodies}>> \o [k \in 1..n |-> Ifs(k - 1)])

Lists(n) ==
  LET After(k) == {Item(s, rest) : s \in Statements(k), rest \in Lists(n - k)} IN
  IF n = 0 THEN {End}
  ELSE {list \in Union([k \in 1..n |-> After(k)]) :
          list.parts[1].node = "let" => list.parts[1] \notin ToList(list.parts[2])}

MCFiles ==
  {Layout(Function(body), 0) : body \in Union([n \in 1..MaxSize |-> Lists(n)])}
=============================================================================
