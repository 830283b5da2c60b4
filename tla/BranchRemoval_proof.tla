------------------------- MODULE BranchRemoval_proof -------------------------
(***************************************************************************)
(* Theorems about BranchRemoval, for files of any size and depth: what     *)
(* TLC finds for small files.                                              *)
(*                                                                         *)
(* Induction goes over the positions of code, parts first.  It is stated   *)
(* with sets, and the recursive functions of the model get their defining  *)
(* equations from the lemma Recursion.                                     *)
(***************************************************************************)
EXTENDS BranchRemoval, WellFoundedInduction, TLAPS

-----------------------------------------------------------------------------
(* Induction and recursion *)

LEMMA Least ==
  ASSUME NEW S \in SUBSET Nat, S # {}
  PROVE  \E x \in S : \A y \in S : x <= y
<1> DEFINE R == OpToRel(<, Nat)
<1>1. PICK x \in S : \A y \in S : ~(<<y, x>> \in R)
  <2>1. IsWellFoundedOn(R, Nat)
    BY NatLessThanWellFounded
  <2> HIDE DEF R
  <2> QED
    BY <2>1, WFMin
<1>2. ASSUME NEW y \in S PROVE x <= y
  <2>1. y < x => <<y, x>> \in R
    BY DEF OpToRel
  <2>2. ~(y < x)
    <3> HIDE DEF R
    <3> QED
      BY <1>1, <2>1
  <2> QED
    BY <2>2
<1> QED
  BY <1>1, <1>2

LEMMA Induction ==
  ASSUME NEW N \in Nat, NEW S,
         \A p \in 1..N : (\A q \in 1..(p - 1) : q \in S) => p \in S
  PROVE  \A p \in 1..N : p \in S
<1> DEFINE T == {p \in 1..N : p \notin S}
<1> SUFFICES ASSUME T # {} PROVE FALSE
  OBVIOUS
<1>1. PICK x \in T : \A y \in T : x <= y
  <2>1. T \in SUBSET Nat
    OBVIOUS
  <2> HIDE DEF T
  <2> QED
    BY <2>1, Least
<1>2. \A q \in 1..(x - 1) : q \in S
  BY <1>1
<1> QED
  BY <1>2

(* H gives a function its next approximation, at p from those before p.    *)
Converges(H, N, V) ==
  /\ H \in [[1..N -> V] -> [1..N -> V]]
  /\ \A f, g \in [1..N -> V], p \in 1..N :
       (\A q \in 1..(p - 1) : f[q] = g[q]) => H[f][p] = H[g][p]

LEMMA Recursion ==
  ASSUME NEW N \in Nat, NEW V, NEW f0 \in [1..N -> V], NEW H, Converges(H, N, V)
  PROVE  \E f \in [1..N -> V] : f = H[f]
<1> DEFINE Upto(f, n) == \A p \in 1..n : f[p] = H[f][p]
           S == {n \in 1..(N + 1) : \E f \in [1..N -> V] : Upto(f, n - 1)}
<1>1. \A n \in 1..(N + 1) : (\A m \in 1..(n - 1) : m \in S) => n \in S
  <2> SUFFICES ASSUME NEW n \in 1..(N + 1), \A m \in 1..(n - 1) : m \in S
               PROVE  \E f \in [1..N -> V] : Upto(f, n - 1)
    OBVIOUS
  <2>1. CASE n = 1
    BY <2>1
  <2>2. CASE n > 1
    <3>1. n - 1 \in 1..(n - 1) /\ n - 1 \in Nat
      BY <2>2
    <3>2. PICK f \in [1..N -> V] : Upto(f, (n - 1) - 1)
      BY <3>1
    <3>3. H[f] \in [1..N -> V]
      BY <3>2 DEF Converges
    <3>4. ASSUME NEW p \in 1..(n - 1) PROVE H[f][p] = H[H[f]][p]
      <4>1. p \in 1..N
        OBVIOUS
      <4>2. \A q \in 1..(p - 1) : f[q] = H[f][q]
        BY <3>2
      <4> QED
        BY <3>2, <3>3, <4>1, <4>2 DEF Converges
    <3> QED
      BY <3>3, <3>4
  <2> QED
    BY <2>1, <2>2
<1>2. N + 1 \in S
  <2>1. N + 1 \in Nat /\ N + 1 \in 1..(N + 1)
    OBVIOUS
  <2> HIDE DEF S
  <2> QED
    BY <1>1, <2>1, Induction
<1>3. PICK f \in [1..N -> V] : Upto(f, N)
  BY <1>2
<1>4. f = H[f]
  <2>1. H[f] \in [1..N -> V]
    BY <1>3 DEF Converges
  <2> QED
    BY <1>3, <2>1
<1> QED
  BY <1>3, <1>4
-----------------------------------------------------------------------------
(* What is below a node *)

(* The way down from a node leads to nodes before it. *)
Down(down, N) ==
  /\ DOMAIN down = 1..N
  /\ \A p \in 1..N : down[p] \subseteq 1..(p - 1)

LEMMA ReachEquation ==
  ASSUME NEW N \in Nat, NEW down, Down(down, N)
  PROVE  /\ DOMAIN Reach(down) = 1..N
         /\ \A p \in 1..N :
              /\ Reach(down)[p] = {p} \cup UNION {Reach(down)[q] : q \in down[p]}
              /\ Reach(down)[p] \subseteq 1..N
<1> DEFINE V == SUBSET (1..N)
           F == [1..N -> V]
           Step(f) == [p \in 1..N |-> {p} \cup UNION {f[q] : q \in down[p]}]
           H == [f \in F |-> Step(f)]
           f0 == [p \in 1..N |-> {}]
           Fix(f) == f = [p \in DOMAIN down |-> {p} \cup UNION {f[q] : q \in down[p]}]
<1>1. f0 \in F
  OBVIOUS
<1>2. ASSUME NEW f \in F, NEW p \in 1..N
      PROVE  {p} \cup UNION {f[q] : q \in down[p]} \in V
  <2>1. \A q \in down[p] : f[q] \subseteq 1..N
    BY DEF Down
  <2> QED
    BY <2>1
<1>3. H \in [F -> F]
  BY <1>2
<1>4. \A f, g \in F, p \in 1..N :
        (\A q \in 1..(p - 1) : f[q] = g[q]) => H[f][p] = H[g][p]
  <2> TAKE f, g \in F, p \in 1..N
  <2> HAVE \A q \in 1..(p - 1) : f[q] = g[q]
  <2>1. \A q \in down[p] : f[q] = g[q]
    BY DEF Down
  <2>2. {f[q] : q \in down[p]} = {g[q] : q \in down[p]}
    BY <2>1
  <2> QED
    BY <2>2
<1>5. PICK f \in F : f = H[f]
  <2>1. Converges(H, N, V)
    BY <1>3, <1>4 DEF Converges
  <2> HIDE DEF f0, H, V
  <2> QED
    BY <1>1, <2>1, Recursion
<1>6. Fix(f)
  BY <1>5 DEF Down
<1>7. Reach(down) = CHOOSE g : Fix(g)
  BY Zenon DEF Reach
<1>8. Fix(Reach(down))
  <2> HIDE DEF Fix
  <2> QED
    BY <1>6, <1>7
<1>9. DOMAIN down = 1..N
  BY DEF Down
<1>10. \A p \in 1..N :
         Reach(down)[p] = {p} \cup UNION {Reach(down)[q] : q \in down[p]}
  BY <1>8, <1>9
<1>11. DOMAIN Reach(down) = 1..N
  BY <1>8, <1>9
<1>12. \A p \in 1..N : Reach(down)[p] \subseteq 1..N
  <2> DEFINE S == {p \in 1..N : Reach(down)[p] \subseteq 1..N}
  <2>1. \A p \in 1..N : (\A q \in 1..(p - 1) : q \in S) => p \in S
    BY <1>10 DEF Down
  <2>2. \A p \in 1..N : p \in S
    <3> HIDE DEF S
    <3> QED
      BY <2>1, Induction
  <2> QED
    BY <2>2
<1> QED
  BY <1>10, <1>11, <1>12

LEMMA LabelsEquation ==
  ASSUME NEW N \in Nat, NEW down, Down(down, N), NEW code, NEW kinds, NEW p \in 1..N, NEW l
  PROVE  l \in LabelsIn(code, Reach(down)[p], kinds) <=>
           \/ code[p].node \in kinds /\ l = code[p].label
           \/ \E q \in down[p] : l \in LabelsIn(code, Reach(down)[q], kinds)
<1>1. Reach(down)[p] = {p} \cup UNION {Reach(down)[q] : q \in down[p]}
  BY ReachEquation
<1> DEFINE R == Reach(down)
<1>2. l \in LabelsIn(code, R[p], kinds) <=>
        \E r \in R[p] : code[r].node \in kinds /\ l = code[r].label
  BY DEF LabelsIn
<1>3. \A q : l \in LabelsIn(code, R[q], kinds) <=>
        \E r \in R[q] : code[r].node \in kinds /\ l = code[r].label
  BY DEF LabelsIn
<1>4. \A r : r \in R[p] <=> r = p \/ \E q \in down[p] : r \in R[q]
  BY <1>1
<1> HIDE DEF R
<1>5. l \in LabelsIn(code, R[p], kinds) <=>
        \/ code[p].node \in kinds /\ l = code[p].label
        \/ \E q \in down[p] : l \in LabelsIn(code, R[q], kinds)
  BY <1>2, <1>3, <1>4
<1> QED
  BY <1>5 DEF R

-----------------------------------------------------------------------------
(* The grammar, kind by kind *)

Childless == {"empty", "var", "let", "is", "literal", "ref", "member", "made", "end"}

Part(code, p, i, kinds) ==
  /\ code[p].parts[i] \in 1..(p - 1)
  /\ code[code[p].parts[i]].node \in kinds

Unary(code, p, kinds) ==
  /\ DOMAIN code[p].parts = 1..1
  /\ Part(code, p, 1, kinds)
  /\ Parts(code, p) = {code[p].parts[1]}

Binary(code, p, kinds1, kinds2) ==
  /\ DOMAIN code[p].parts = 1..2
  /\ Part(code, p, 1, kinds1)
  /\ Part(code, p, 2, kinds2)
  /\ Parts(code, p) = {code[p].parts[1], code[p].parts[2]}

Ternary(code, p, kinds1, kinds2, kinds3) ==
  /\ DOMAIN code[p].parts = 1..3
  /\ Part(code, p, 1, kinds1)
  /\ Part(code, p, 2, kinds2)
  /\ Part(code, p, 3, kinds3)
  /\ Parts(code, p) = {code[p].parts[1], code[p].parts[2], code[p].parts[3]}

LEMMA CodeLength ==
  ASSUME NEW code \in Code
  PROVE  /\ Len(code) \in Nat
         /\ Len(code) \in 1..Len(code)
         /\ DOMAIN code = 1..Len(code)
         /\ \A p \in 1..Len(code) : code[p] \in Node /\ Fits(code, p)
BY DEF Code

LEMMA TupleDomains ==
  ASSUME NEW a, NEW b, NEW c
  PROVE  /\ Len(<<>>) = 0
         /\ Len(<<a>>) = 1 /\ DOMAIN <<a>> = 1..1
         /\ Len(<<a, b>>) = 2 /\ DOMAIN <<a, b>> = 1..2
         /\ Len(<<a, b, c>>) = 3 /\ DOMAIN <<a, b, c>> = 1..3
OBVIOUS

LEMMA Shape ==
  ASSUME NEW code \in Code, NEW p \in 1..Len(code)
  PROVE  /\ code[p].node \in Kind
         /\ code[p].parts \in Seq(Nat)
         /\ code[p].label \in Labels(code[p].node)
         /\ code[p].node \in Childless =>
              /\ DOMAIN code[p].parts = {} /\ code[p].parts = <<>> /\ Parts(code, p) = {}
         /\ code[p].node = "if" => Ternary(code, p, Test, Single, Single)
         /\ code[p].node = "log" => Unary(code, p, {"is", "literal"})
         /\ code[p].node = "call" => Unary(code, p, Callable)
         /\ code[p].node \in {"block", "function", "new"} => Unary(code, p, List)
         /\ code[p].node = "item" => Binary(code, p, Statement, List)
         /\ code[p].node = "not" => Unary(code, p, Test)
         /\ code[p].node = "switch" => Binary(code, p, Callable, Callable)
         /\ Parts(code, p) \subseteq 1..(p - 1)
         /\ \A i \in DOMAIN code[p].parts : code[p].parts[i] \in 1..(p - 1)
<1> DEFINE x == code[p]
           kinds == Grammar(code[p].node)
<1>1. /\ code[p].node \in Kind
      /\ code[p].parts \in Seq(Nat)
  BY CodeLength DEF Node
<1>2. /\ x.label \in Labels(x.node)
      /\ Len(x.parts) = Len(kinds)
      /\ \A i \in DOMAIN kinds : Part(code, p, i, kinds[i])
  BY CodeLength DEF Fits, Part
<1>3. DOMAIN x.parts = 1..Len(x.parts)
  BY <1>1
<1>4. x.node \in Childless => DOMAIN x.parts = {} /\ x.parts = <<>> /\ Parts(code, p) = {}
  <2> SUFFICES ASSUME x.node \in Childless
               PROVE  DOMAIN x.parts = {} /\ x.parts = <<>> /\ Parts(code, p) = {}
    OBVIOUS
  <2>1. kinds = <<>>
    BY DEF Childless, Grammar
  <2>2. Len(x.parts) = 0
    BY <1>2, <2>1, TupleDomains
  <2>3. DOMAIN x.parts = {} /\ x.parts = <<>>
    BY <1>1, <1>3, <2>2
  <2> QED
    BY <2>3 DEF Parts
<1>5. ASSUME NEW A, kinds = <<A>> PROVE Unary(code, p, A)
  <2>1. DOMAIN kinds = 1..1 /\ Len(kinds) = 1 /\ kinds[1] = A
    BY <1>5, TupleDomains
  <2>2. DOMAIN x.parts = 1..1
    BY <1>2, <1>3, <2>1
  <2>3. Part(code, p, 1, A)
    BY <1>2, <2>1
  <2>4. Parts(code, p) = {x.parts[1]}
    BY <2>2 DEF Parts
  <2> QED
    BY <2>2, <2>3, <2>4 DEF Unary
<1>6. ASSUME NEW A, NEW B, kinds = <<A, B>> PROVE Binary(code, p, A, B)
  <2>1. DOMAIN kinds = 1..2 /\ Len(kinds) = 2 /\ kinds[1] = A /\ kinds[2] = B
    BY <1>6, TupleDomains
  <2>2. DOMAIN x.parts = 1..2
    BY <1>2, <1>3, <2>1
  <2>3. Part(code, p, 1, A) /\ Part(code, p, 2, B)
    BY <1>2, <2>1
  <2>4. Parts(code, p) = {x.parts[1], x.parts[2]}
    BY <2>2 DEF Parts
  <2> QED
    BY <2>2, <2>3, <2>4 DEF Binary
<1>7. ASSUME NEW A, NEW B, NEW C, kinds = <<A, B, C>> PROVE Ternary(code, p, A, B, C)
  <2>1. /\ DOMAIN kinds = 1..3 /\ Len(kinds) = 3
        /\ kinds[1] = A /\ kinds[2] = B /\ kinds[3] = C
    BY <1>7, TupleDomains
  <2>2. DOMAIN x.parts = 1..3
    BY <1>2, <1>3, <2>1
  <2>3. Part(code, p, 1, A) /\ Part(code, p, 2, B) /\ Part(code, p, 3, C)
    BY <1>2, <2>1
  <2>4. Parts(code, p) = {x.parts[1], x.parts[2], x.parts[3]}
    BY <2>2 DEF Parts
  <2> QED
    BY <2>2, <2>3, <2>4 DEF Ternary
<1>8. /\ x.node = "if" => kinds = <<Test, Single, Single>>
      /\ x.node = "log" => kinds = <<{"is", "literal"}>>
      /\ x.node = "call" => kinds = <<Callable>>
      /\ x.node \in {"block", "function", "new"} => kinds = <<List>>
      /\ x.node = "item" => kinds = <<Statement, List>>
      /\ x.node = "not" => kinds = <<Test>>
      /\ x.node = "switch" => kinds = <<Callable, Callable>>
  BY DEF Grammar
<1>9. /\ x.node = "if" => Ternary(code, p, Test, Single, Single)
      /\ x.node = "log" => Unary(code, p, {"is", "literal"})
      /\ x.node = "call" => Unary(code, p, Callable)
      /\ x.node \in {"block", "function", "new"} => Unary(code, p, List)
      /\ x.node = "item" => Binary(code, p, Statement, List)
      /\ x.node = "not" => Unary(code, p, Test)
      /\ x.node = "switch" => Binary(code, p, Callable, Callable)
  <2> HIDE DEF kinds
  <2> QED
    BY <1>5, <1>6, <1>7, <1>8
<1>10. \A i \in DOMAIN x.parts : x.parts[i] \in 1..(p - 1)
  <2>1. \/ x.node \in Childless
        \/ x.node \in {"if", "log", "call", "block", "function", "new", "item", "not",
                       "switch"}
    BY <1>1 DEF Kind, Statement, Single, Test, Callable, List, Childless
  <2>2. CASE x.node \in Childless
    BY <1>4, <2>2
  <2>3. CASE x.node \in {"log", "call", "block", "function", "new", "not"}
    BY <1>9, <2>3 DEF Unary, Part
  <2>4. CASE x.node \in {"item", "switch"}
    BY <1>9, <2>4 DEF Binary, Part
  <2>5. CASE x.node = "if"
    BY <1>9, <2>5 DEF Ternary, Part
  <2> QED
    BY <2>1, <2>2, <2>3, <2>4, <2>5
<1>11. Parts(code, p) \subseteq 1..(p - 1)
  BY <1>10 DEF Parts
<1> QED
  BY <1>1, <1>2, <1>4, <1>9, <1>10, <1>11
-----------------------------------------------------------------------------
(* Names, declarations and visited nodes, from those of the parts *)

LEMMA NodesEquation ==
  ASSUME NEW code \in Code, NEW p \in 1..Len(code)
  PROVE  /\ Nodes(code)[p] = {p} \cup UNION {Nodes(code)[q] : q \in Parts(code, p)}
         /\ Nodes(code)[p] \subseteq 1..Len(code)
<1> DEFINE down == [q \in DOMAIN code |-> Parts(code, q)]
<1>1. Len(code) \in Nat /\ Down(down, Len(code))
  BY CodeLength, Shape DEF Down
<1>2. down[p] = Parts(code, p)
  BY CodeLength
<1>3. Nodes(code) = Reach(down)
  BY DEF Nodes
<1> HIDE DEF down
<1> QED
  BY <1>1, <1>2, <1>3, ReachEquation

LEMMA NamesEquation ==
  ASSUME NEW code \in Code, NEW p \in 1..Len(code), NEW l
  PROVE  l \in Names(code, p) <=>
           \/ code[p].node \in Naming /\ l = code[p].label
           \/ \E q \in Parts(code, p) : l \in Names(code, q)
<1> DEFINE down == [q \in DOMAIN code |-> Parts(code, q)]
           kinds == Naming
<1>1. Len(code) \in Nat /\ Down(down, Len(code))
  BY CodeLength, Shape DEF Down
<1>2. down[p] = Parts(code, p)
  BY CodeLength
<1>3. \A q : Names(code, q) = LabelsIn(code, Reach(down)[q], kinds)
  BY DEF Names, Nodes
<1>4. code[p].node \in kinds <=> code[p].node \in Naming
  OBVIOUS
<1> HIDE DEF down, kinds
<1>5. l \in LabelsIn(code, Reach(down)[p], kinds) <=>
        \/ code[p].node \in kinds /\ l = code[p].label
        \/ \E q \in down[p] : l \in LabelsIn(code, Reach(down)[q], kinds)
  BY <1>1, LabelsEquation
<1> QED
  BY <1>2, <1>3, <1>4, <1>5

(* Where one looks for vars: not in functions, nor in constructors, or not *)
(* in functions only.                                                      *)
Opaque == {{"function"}, {"function", "new"}}

LEMMA VarsEquation ==
  ASSUME NEW code \in Code, NEW p \in 1..Len(code), NEW l, NEW closed \in Opaque
  PROVE  l \in VarsOutside(code, p, closed) <=>
           \/ code[p].node = "var" /\ l = code[p].label
           \/ \E q \in IF code[p].node \in closed THEN {} ELSE Parts(code, p) :
                l \in VarsOutside(code, q, closed)
<1> DEFINE down == [q \in DOMAIN code |-> IF code[q].node \in closed THEN {} ELSE Parts(code, q)]
           kinds == {"var"}
<1>1. Len(code) \in Nat /\ Down(down, Len(code))
  BY CodeLength, Shape DEF Down
<1>2. down[p] = IF code[p].node \in closed THEN {} ELSE Parts(code, p)
  BY CodeLength
<1>3. \A q : VarsOutside(code, q, closed) = LabelsIn(code, Reach(down)[q], kinds)
  BY DEF VarsOutside, Outside
<1>4. code[p].node \in kinds <=> code[p].node = "var"
  OBVIOUS
<1> HIDE DEF down, kinds
<1>5. l \in LabelsIn(code, Reach(down)[p], kinds) <=>
        \/ code[p].node \in kinds /\ l = code[p].label
        \/ \E q \in down[p] : l \in LabelsIn(code, Reach(down)[q], kinds)
  BY <1>1, LabelsEquation
<1> QED
  BY <1>2, <1>3, <1>4, <1>5

(* HoistedVarFinder misses no var that hoists. *)
LEMMA VarsAreFound ==
  ASSUME NEW code \in Code, NEW p \in 1..Len(code), NEW closed \in Opaque
  PROVE  VarsOutside(code, p, closed) \subseteq HoistedVars(code, p)
<1> DEFINE N == Len(code)
           Good(q) == \A l : l \in VarsOutside(code, q, closed)
                               => l \in VarsOutside(code, q, {"function"})
           S == {q \in 1..N : Good(q)}
<1>1. {"function"} \in Opaque /\ {"function"} \subseteq closed
  BY DEF Opaque
<1>2. ASSUME NEW q \in 1..N, \A r \in 1..(q - 1) : r \in S PROVE Good(q)
  <2>1. \A r \in Parts(code, q) : Good(r)
    BY <1>2, Shape
  <2> SUFFICES ASSUME NEW l, l \in VarsOutside(code, q, closed)
               PROVE  l \in VarsOutside(code, q, {"function"})
    OBVIOUS
  <2>2. \/ code[q].node = "var" /\ l = code[q].label
        \/ \E r \in IF code[q].node \in closed THEN {} ELSE Parts(code, q) :
             l \in VarsOutside(code, r, closed)
    BY VarsEquation
  <2>3. \/ code[q].node = "var" /\ l = code[q].label
        \/ \E r \in IF code[q].node \in {"function"} THEN {} ELSE Parts(code, q) :
             l \in VarsOutside(code, r, {"function"})
    BY <1>1, <2>1, <2>2
  <2> QED
    BY <1>1, <2>3, VarsEquation
<1>3. \A q \in 1..N : q \in S
  <2>1. N \in Nat
    BY CodeLength
  <2>2. \A q \in 1..N : (\A r \in 1..(q - 1) : r \in S) => q \in S
    BY <1>2
  <2> HIDE DEF S, N
  <2> QED
    BY <2>1, <2>2, Induction
<1> QED
  BY <1>3 DEF HoistedVars

LEMMA LetsEquation ==
  ASSUME NEW code \in Code, NEW p \in 1..Len(code), NEW l
  PROVE  l \in Lets(code, p) <=>
           \/ code[p].node = "let" /\ l = code[p].label
           \/ \E q \in IF code[p].node = "item" THEN Parts(code, p) ELSE {} : l \in Lets(code, q)
<1> DEFINE down == [q \in DOMAIN code |-> IF code[q].node = "item" THEN Parts(code, q) ELSE {}]
           kinds == {"let"}
<1>1. Len(code) \in Nat /\ Down(down, Len(code))
  BY CodeLength, Shape DEF Down
<1>2. down[p] = IF code[p].node = "item" THEN Parts(code, p) ELSE {}
  BY CodeLength
<1>3. \A q : Lets(code, q) = LabelsIn(code, Reach(down)[q], kinds)
  BY DEF Lets, Items
<1>4. code[p].node \in kinds <=> code[p].node = "let"
  BY DEF Naming
<1> HIDE DEF down, kinds
<1>5. l \in LabelsIn(code, Reach(down)[p], kinds) <=>
        \/ code[p].node \in kinds /\ l = code[p].label
        \/ \E q \in down[p] : l \in LabelsIn(code, Reach(down)[q], kinds)
  BY <1>1, LabelsEquation
<1> QED
  BY <1>2, <1>3, <1>4, <1>5

LEMMA RemovedParts ==
  ASSUME NEW code \in Code, NEW p \in 1..Len(code), code[p].node = "if"
  PROVE  /\ code[p].parts[1] \in 1..(p - 1) /\ code[code[p].parts[1]].node \in Test
         /\ Taken(code, p) \in 1..(p - 1) /\ code[Taken(code, p)].node \in Single
         /\ Dropped(code, p) \in 1..(p - 1) /\ code[Dropped(code, p)].node \in Single
         /\ Parts(code, p) = {code[p].parts[1], Taken(code, p), Dropped(code, p)}
BY Shape DEF Ternary, Part, Taken, Dropped

LEMMA InlinedParts ==
  ASSUME NEW code \in Code, NEW p \in 1..Len(code), code[p].node = "switch"
  PROVE  /\ Winner(code, p) \in 1..(p - 1) /\ code[Winner(code, p)].node \in Callable
         /\ Loser(code, p) \in 1..(p - 1) /\ code[Loser(code, p)].node \in Callable
         /\ Parts(code, p) = {Winner(code, p), Loser(code, p)}
BY Shape DEF Binary, Part, Winner, Loser

LEMMA ItemParts ==
  ASSUME NEW code \in Code, NEW p \in 1..Len(code), code[p].node = "item"
  PROVE  /\ code[p].parts[1] \in 1..(p - 1) /\ code[code[p].parts[1]].node \in Statement
         /\ code[p].parts[2] \in 1..(p - 1) /\ code[code[p].parts[2]].node \in List
         /\ Parts(code, p) = {code[p].parts[1], code[p].parts[2]}
BY Shape DEF Binary, Part

LEMMA VisitedEquation ==
  ASSUME NEW code \in Code, NEW p \in 1..Len(code)
  PROVE  /\ Visited(code)[p] =
              {p} \cup UNION {Visited(code)[q] :
                               q \in IF Removed(code, p) THEN {Taken(code, p)}
                                     ELSE Parts(code, p)}
         /\ Visited(code)[p] \subseteq 1..Len(code)
<1> DEFINE down == [q \in DOMAIN code |->
                     IF Removed(code, q) THEN {Taken(code, q)} ELSE Parts(code, q)]
<1>1. Len(code) \in Nat /\ Down(down, Len(code))
  <2>1. \A q \in 1..Len(code) : Removed(code, q) => Taken(code, q) \in 1..(q - 1)
    BY RemovedParts DEF Removed
  <2> QED
    BY <2>1, CodeLength, Shape DEF Down
<1>2. down[p] = IF Removed(code, p) THEN {Taken(code, p)} ELSE Parts(code, p)
  BY CodeLength
<1>3. Visited(code) = Reach(down)
  BY DEF Visited
<1> HIDE DEF down
<1> QED
  BY <1>1, <1>2, <1>3, ReachEquation
-----------------------------------------------------------------------------
(* Tests, and what stands in the place of a node *)

LEMMA TryEvalEquation ==
  ASSUME NEW code \in Code, NEW p \in 1..Len(code)
  PROVE  /\ TryEval(code)[p] =
              CASE code[p].node = "not" /\ TryEval(code)[code[p].parts[1]] = "true" -> "false"
                [] code[p].node = "not" /\ TryEval(code)[code[p].parts[1]] = "false" -> "true"
                [] code[p].node = "is" /\ code[p].label \in {"true", "false"} -> code[p].label
                [] OTHER -> "unknown"
         /\ TryEval(code)[p] \in {"true", "false", "unknown"}
<1> DEFINE N == Len(code)
           V == {"true", "false", "unknown"}
           F == [1..N -> V]
           Value(f, q) ==
             CASE code[q].node = "not" /\ f[code[q].parts[1]] = "true" -> "false"
               [] code[q].node = "not" /\ f[code[q].parts[1]] = "false" -> "true"
               [] code[q].node = "is" /\ code[q].label \in {"true", "false"} -> code[q].label
               [] OTHER -> "unknown"
           H == [f \in F |-> [q \in 1..N |-> Value(f, q)]]
           f0 == [q \in 1..N |-> "unknown"]
           Fix(f) == f = [q \in DOMAIN code |-> Value(f, q)]
<1>1. N \in Nat /\ DOMAIN code = 1..N /\ f0 \in F
  BY CodeLength
<1>2. Converges(H, N, V)
  <2>1. ASSUME NEW f \in F, NEW q \in 1..N PROVE Value(f, q) \in V
    OBVIOUS
  <2>2. H \in [F -> F]
    BY <2>1
  <2>3. ASSUME NEW f \in F, NEW g \in F, NEW q \in 1..N,
               \A r \in 1..(q - 1) : f[r] = g[r]
        PROVE  H[f][q] = H[g][q]
    <3>1. code[q].node = "not" => f[code[q].parts[1]] = g[code[q].parts[1]]
      BY <2>3, Shape DEF Unary, Part
    <3>2. Value(f, q) = Value(g, q)
      BY <3>1
    <3> QED
      BY <3>2
  <2> QED
    BY <2>2, <2>3 DEF Converges
<1>3. PICK f \in F : f = H[f]
  <2> HIDE DEF f0, H, V, N
  <2> QED
    BY <1>1, <1>2, Recursion
<1>4. Fix(f)
  BY <1>1, <1>3
<1>5. TryEval(code) = CHOOSE g : Fix(g)
  BY Zenon DEF TryEval
<1>6. Fix(TryEval(code))
  <2> HIDE DEF Fix
  <2> QED
    BY <1>4, <1>5
<1>7. TryEval(code)[p] = Value(TryEval(code), p)
  BY <1>1, <1>6
<1> QED
  BY <1>7

LEMMA InPlaceEquation ==
  ASSUME NEW code \in Code, NEW p \in 1..Len(code)
  PROVE  /\ InPlace(code)[p] =
              CASE Removed(code, p) -> InPlace(code)[Taken(code, p)]
                [] Inlined(code, p) -> InPlace(code)[Winner(code, p)]
                [] code[p].node = "item"
                     /\ code[InPlace(code)[code[p].parts[1]]].node = "empty" ->
                       InPlace(code)[code[p].parts[2]]
                [] OTHER -> p
         /\ InPlace(code)[p] \in 1..Len(code)
<1> DEFINE N == Len(code)
           V == 1..N
           F == [1..N -> V]
           Value(f, q) ==
             CASE Removed(code, q) -> f[Taken(code, q)]
               [] Inlined(code, q) -> f[Winner(code, q)]
               [] code[q].node = "item" /\ code[f[code[q].parts[1]]].node = "empty" ->
                    f[code[q].parts[2]]
               [] OTHER -> q
           H == [f \in F |-> [q \in 1..N |-> Value(f, q)]]
           f0 == [q \in 1..N |-> q]
           Fix(f) == f = [q \in DOMAIN code |-> Value(f, q)]
<1>1. N \in Nat /\ DOMAIN code = 1..N /\ f0 \in F
  BY CodeLength
<1>9. ASSUME NEW q \in 1..N
      PROVE  /\ Removed(code, q) => Taken(code, q) \in 1..(q - 1)
             /\ Inlined(code, q) => Winner(code, q) \in 1..(q - 1)
             /\ code[q].node = "item" => /\ code[q].parts[1] \in 1..(q - 1)
                                         /\ code[q].parts[2] \in 1..(q - 1)
  BY RemovedParts, InlinedParts, ItemParts DEF Removed, Inlined
<1>2. Converges(H, N, V)
  <2>1. ASSUME NEW f \in F, NEW q \in 1..N PROVE Value(f, q) \in V
    <3>1. 1..(q - 1) \subseteq 1..N
      BY <1>1
    <3> QED
      BY <3>1, <1>9
  <2>2. H \in [F -> F]
    BY <2>1
  <2>3. ASSUME NEW f \in F, NEW g \in F, NEW q \in 1..N,
               \A r \in 1..(q - 1) : f[r] = g[r]
        PROVE  H[f][q] = H[g][q]
    <3>1. Value(f, q) = Value(g, q)
      BY <2>3, <1>9
    <3> QED
      BY <3>1
  <2> QED
    BY <2>2, <2>3 DEF Converges
<1>3. PICK f \in F : f = H[f]
  <2> HIDE DEF f0, H, V, N
  <2> QED
    BY <1>1, <1>2, Recursion
<1>4. Fix(f)
  BY <1>1, <1>3
<1>5. InPlace(code) = CHOOSE g : Fix(g)
  BY Zenon DEF InPlace
<1>6. Fix(InPlace(code))
  <2> HIDE DEF Fix
  <2> QED
    BY <1>4, <1>5
<1>7. \A q \in 1..N : InPlace(code)[q] = Value(InPlace(code), q)
  BY <1>1, <1>6
<1>8. \A q \in 1..N : InPlace(code)[q] \in 1..N
  <2> DEFINE S == {q \in 1..N : InPlace(code)[q] \in 1..N}
  <2>1. ASSUME NEW q \in 1..N, \A r \in 1..(q - 1) : r \in S PROVE q \in S
    BY <2>1, <1>7, <1>9
  <2>2. \A q \in 1..N : q \in S
    <3> HIDE DEF S
    <3> QED
      BY <1>1, <2>1, Induction
  <2> QED
    BY <2>2
<1> QED
  BY <1>7, <1>8

(* Nothing takes the place of p. *)
Stable(code, p) ==
  /\ ~Removed(code, p)
  /\ ~Inlined(code, p)
  /\ ~(code[p].node = "item" /\ code[InPlace(code)[code[p].parts[1]]].node = "empty")

LEMMA InPlaceCases ==
  ASSUME NEW code \in Code, NEW p \in 1..Len(code)
  PROVE  \/ Stable(code, p) /\ InPlace(code)[p] = p
         \/ Removed(code, p) /\ InPlace(code)[p] = InPlace(code)[Taken(code, p)]
         \/ Inlined(code, p) /\ InPlace(code)[p] = InPlace(code)[Winner(code, p)]
         \/ /\ code[p].node = "item"
            /\ code[InPlace(code)[code[p].parts[1]]].node = "empty"
            /\ InPlace(code)[p] = InPlace(code)[code[p].parts[2]]
BY InPlaceEquation DEF Stable, Removed, Inlined

(* What takes the place of a node may stand there. *)
SameSort(code, p, q) ==
  /\ code[p].node \in Single => code[q].node \in Single
  /\ code[p].node \in Test \cup {"let"} => q = p
  /\ code[p].node \in Callable => code[q].node \in Callable
  /\ code[p].node \in List => code[q].node \in List

LEMMA InPlaceFits ==
  ASSUME NEW code \in Code, NEW p \in 1..Len(code)
  PROVE  LET q == InPlace(code)[p] IN
         q \in 1..p /\ Stable(code, q) /\ InPlace(code)[q] = q /\ SameSort(code, p, q)
<1> DEFINE at == InPlace(code)
           Good(r) == /\ at[r] \in 1..r
                      /\ Stable(code, at[r]) /\ at[at[r]] = at[r]
                      /\ SameSort(code, r, at[r])
           S == {r \in 1..Len(code) : Good(r)}
<1>1. ASSUME NEW r \in 1..Len(code), \A q \in 1..(r - 1) : q \in S PROVE Good(r)
  <2>1. ASSUME NEW q \in 1..(r - 1) PROVE Good(q) /\ at[q] \in 1..r
    BY <1>1
  <2>2. CASE Stable(code, r) /\ at[r] = r
    BY <2>2 DEF SameSort
  <2>3. CASE Removed(code, r) /\ at[r] = at[Taken(code, r)]
    <3>1. /\ Taken(code, r) \in 1..(r - 1)
          /\ code[Taken(code, r)].node \in Single
          /\ code[r].node = "if"
      BY <2>3, RemovedParts DEF Removed
    <3>2. Good(Taken(code, r)) /\ at[r] \in 1..r
      BY <2>1, <2>3, <3>1
    <3>3. SameSort(code, r, at[r])
      BY <2>3, <3>1, <3>2 DEF SameSort, Single, Test, Callable, List
    <3> QED
      BY <2>3, <3>2, <3>3
  <2>4. CASE Inlined(code, r) /\ at[r] = at[Winner(code, r)]
    <3>1. /\ Winner(code, r) \in 1..(r - 1)
          /\ code[Winner(code, r)].node \in Callable
          /\ code[r].node = "switch"
      BY <2>4, InlinedParts DEF Inlined
    <3>2. Good(Winner(code, r)) /\ at[r] \in 1..r
      BY <2>1, <2>4, <3>1
    <3>3. SameSort(code, r, at[r])
      BY <2>4, <3>1, <3>2 DEF SameSort, Single, Test, Callable, List
    <3> QED
      BY <2>4, <3>2, <3>3
  <2>5. CASE code[r].node = "item" /\ at[r] = at[code[r].parts[2]]
    <3>1. code[r].parts[2] \in 1..(r - 1) /\ code[code[r].parts[2]].node \in List
      BY <2>5, ItemParts
    <3>2. Good(code[r].parts[2]) /\ at[r] \in 1..r
      BY <2>1, <2>5, <3>1
    <3>3. SameSort(code, r, at[r])
      BY <2>5, <3>1, <3>2 DEF SameSort, Single, Test, Callable, List
    <3> QED
      BY <2>5, <3>2, <3>3
  <2> QED
    BY <2>2, <2>3, <2>4, <2>5, InPlaceCases
<1>2. \A r \in 1..Len(code) : r \in S
  <2>1. \A r \in 1..Len(code) : (\A q \in 1..(r - 1) : q \in S) => r \in S
    BY <1>1
  <2>2. Len(code) \in Nat
    BY CodeLength
  <2> HIDE DEF S
  <2> QED
    BY <2>1, <2>2, Induction
<1> QED
  BY <1>2

(* The nodes of what the visitor makes of code, position by position. *)
LEMMA RewriteEquation ==
  ASSUME NEW code \in Code, NEW p \in 1..Len(code)
  PROVE  LET out == Rewrite(code) IN
         /\ DOMAIN out = 1..Len(code)
         /\ out \in Seq(Node) /\ Len(out) = Len(code)
         /\ out[p].node = IF Folded(code, p) THEN "literal" ELSE code[p].node
         /\ out[p].label = code[p].label
         /\ DOMAIN out[p].parts = DOMAIN code[p].parts
         /\ out[p].parts \in Seq(Nat) /\ Len(out[p].parts) = Len(code[p].parts)
         /\ \A i \in DOMAIN code[p].parts :
              out[p].parts[i] = InPlace(code)[code[p].parts[i]]
<1> DEFINE out == Rewrite(code)
           New(q) == [node |-> IF Folded(code, q) THEN "literal" ELSE code[q].node,
                      label |-> code[q].label,
                      parts |-> [i \in DOMAIN code[q].parts |-> InPlace(code)[code[q].parts[i]]]]
<1>1. out = [q \in 1..Len(code) |-> New(q)]
  BY CodeLength DEF Rewrite
<1>2. ASSUME NEW q \in 1..Len(code)
      PROVE  /\ DOMAIN code[q].parts = 1..Len(code[q].parts)
             /\ New(q).parts \in Seq(Nat)
             /\ Len(New(q).parts) = Len(code[q].parts)
             /\ New(q) \in Node
  <2>1. code[q] \in Node /\ code[q].parts \in Seq(Nat)
    BY CodeLength, Shape DEF Node
  <2>2. \A i \in DOMAIN code[q].parts : InPlace(code)[code[q].parts[i]] \in Nat
    <3> TAKE i \in DOMAIN code[q].parts
    <3>1. code[q].parts[i] \in 1..Len(code)
      BY Shape, CodeLength
    <3> QED
      BY <3>1, InPlaceEquation
  <2>3. DOMAIN code[q].parts = 1..Len(code[q].parts) /\ Len(code[q].parts) \in Nat
    BY <2>1
  <2>4. New(q).parts \in Seq(Nat) /\ Len(New(q).parts) = Len(code[q].parts)
    BY <2>2, <2>3
  <2>5. New(q).node \in Kind
    BY Shape DEF Kind, Test
  <2>6. code[q].label \in UNION {Labels(kind) : kind \in Kind}
    BY <2>1 DEF Node
  <2> QED
    BY <2>3, <2>4, <2>5, <2>6 DEF Node
<1>3. Len(code) \in Nat
  BY CodeLength
<1>4. out \in Seq(Node) /\ Len(out) = Len(code)
  <2> HIDE DEF New
  <2> QED
    BY <1>1, <1>2, <1>3
<1>5. out[p] = New(p) /\ DOMAIN out = 1..Len(code)
  BY <1>1
<1> HIDE DEF out
<1>6. /\ out[p].node = IF Folded(code, p) THEN "literal" ELSE code[p].node
      /\ out[p].label = code[p].label
      /\ out[p].parts = New(p).parts
  BY <1>5
<1>7. /\ DOMAIN New(p).parts = DOMAIN code[p].parts
      /\ \A i \in DOMAIN code[p].parts :
           New(p).parts[i] = InPlace(code)[code[p].parts[i]]
  OBVIOUS
<1> QED
  BY <1>2, <1>4, <1>5, <1>6, <1>7 DEF out

Sorts == {Test, Single, {"is", "literal"}, Callable, List, Statement}

LEMMA GrammarSorts ==
  ASSUME NEW kind \in Kind
  PROVE  /\ DOMAIN Grammar(kind) = 1..Len(Grammar(kind))
         /\ \A i \in DOMAIN Grammar(kind) : Grammar(kind)[i] \in Sorts
<1> DEFINE Good(t) == DOMAIN t = 1..Len(t) /\ \A i \in DOMAIN t : t[i] \in Sorts
<1>1. Good(<<>>)
  OBVIOUS
<1>2. ASSUME NEW A \in Sorts PROVE Good(<<A>>)
  OBVIOUS
<1>3. ASSUME NEW A \in Sorts, NEW B \in Sorts PROVE Good(<<A, B>>)
  OBVIOUS
<1>4. ASSUME NEW A \in Sorts, NEW B \in Sorts, NEW C \in Sorts PROVE Good(<<A, B, C>>)
  OBVIOUS
<1>5. /\ Test \in Sorts /\ Single \in Sorts /\ {"is", "literal"} \in Sorts
      /\ Callable \in Sorts /\ List \in Sorts /\ Statement \in Sorts
  BY DEF Sorts
<1> HIDE DEF Good
<1>6. Good(Grammar(kind))
  <2>1. CASE kind = "if"
    BY <1>4, <1>5, <2>1 DEF Grammar
  <2>2. CASE kind \in {"log", "call", "block", "function", "new", "not"}
    BY <1>2, <1>5, <2>2 DEF Grammar
  <2>3. CASE kind \in {"item", "switch"}
    BY <1>3, <1>5, <2>3 DEF Grammar
  <2>4. CASE kind \in Childless
    BY <1>1, <2>4 DEF Grammar, Childless
  <2> QED
    BY <2>1, <2>2, <2>3, <2>4
       DEF Kind, Statement, Single, Test, Callable, List, Childless
<1> QED
  BY <1>6 DEF Good

(* Folding and moving keep a part fit for its place. *)
LEMMA SortsClosed ==
  ASSUME NEW code \in Code, NEW q \in 1..Len(code), NEW sort \in Sorts,
         code[q].node \in sort
  PROVE  Rewrite(code)[InPlace(code)[q]].node \in sort
<1> DEFINE r == InPlace(code)[q]
<1>1. r \in 1..Len(code) /\ SameSort(code, q, r)
  BY InPlaceFits, InPlaceEquation
<1>2. Rewrite(code)[r].node = IF Folded(code, r) THEN "literal" ELSE code[r].node
  BY <1>1, RewriteEquation
<1>3. Folded(code, r) => code[r].node = "is"
  BY DEF Folded
<1> HIDE DEF r
<1> DEFINE k == Rewrite(code)[r].node
<1>4. sort = Test => k \in Test
  BY <1>1, <1>2, <1>3 DEF SameSort, Test
<1>5. sort = {"is", "literal"} => k \in {"is", "literal"}
  BY <1>1, <1>2, <1>3 DEF SameSort, Test
<1>6. sort = Single => k \in Single
  BY <1>1, <1>2, <1>3 DEF SameSort, Single
<1>7. sort = Callable => k \in Callable
  BY <1>1, <1>2, <1>3 DEF SameSort, Callable
<1>8. sort = List => k \in List
  BY <1>1, <1>2, <1>3 DEF SameSort, List
<1>9. sort = Statement => k \in Statement
  BY <1>1, <1>2, <1>3 DEF SameSort, Single, Statement
<1>10. k \in sort
  <2> HIDE DEF k
  <2> QED
    BY <1>4, <1>5, <1>6, <1>7, <1>8, <1>9 DEF Sorts
<1> QED
  BY <1>10 DEF r

(* What the plugin makes of code is code. *)
LEMMA RewriteIsCode ==
  ASSUME NEW code \in Code
  PROVE  /\ Rewrite(code) \in Code
         /\ Len(Rewrite(code)) = Len(code)
<1> DEFINE out == Rewrite(code)
<1>1. out \in Seq(Node) /\ Len(out) = Len(code) /\ out # <<>>
      /\ DOMAIN out = 1..Len(code)
  BY CodeLength, RewriteEquation
<1>2. ASSUME NEW p \in 1..Len(code) PROVE Fits(out, p)
  <2>1. /\ out[p].node = IF Folded(code, p) THEN "literal" ELSE code[p].node
        /\ out[p].label = code[p].label
        /\ Len(out[p].parts) = Len(code[p].parts)
        /\ DOMAIN code[p].parts = 1..Len(code[p].parts)
        /\ \A i \in DOMAIN code[p].parts :
             out[p].parts[i] = InPlace(code)[code[p].parts[i]]
    BY RewriteEquation, Shape
  <2>2. Fits(code, p) /\ code[p].node \in Kind
    BY CodeLength, Shape
  <2>3. Grammar("literal") = <<>> /\ Grammar("is") = <<>>
    BY DEF Grammar
  <2>4. Folded(code, p) => Grammar(code[p].node) = <<>> /\ Grammar(out[p].node) = <<>>
    BY <2>1, <2>3 DEF Folded
  <2>5. Grammar(out[p].node) = Grammar(code[p].node)
    BY <2>1, <2>4
  <2>6. out[p].label \in Labels(out[p].node)
    BY <2>1, <2>2 DEF Fits, Folded, Labels
  <2>7. ASSUME NEW i \in DOMAIN Grammar(code[p].node)
        PROVE  /\ out[p].parts[i] \in 1..(p - 1)
               /\ out[out[p].parts[i]].node \in Grammar(code[p].node)[i]
    <3>1. /\ i \in DOMAIN code[p].parts
          /\ Grammar(code[p].node)[i] \in Sorts
      BY <2>1, <2>2, <2>7, GrammarSorts DEF Fits
    <3>2. /\ code[p].parts[i] \in 1..(p - 1)
          /\ code[code[p].parts[i]].node \in Grammar(code[p].node)[i]
      BY <2>2 DEF Fits
    <3>3. code[p].parts[i] \in 1..Len(code)
      BY <3>2, CodeLength
    <3>4. InPlace(code)[code[p].parts[i]] \in 1..(p - 1)
      BY <3>2, <3>3, InPlaceFits
    <3> QED
      BY <2>1, <3>1, <3>2, <3>3, <3>4, SortsClosed
  <2> HIDE DEF out
  <2> QED
    BY <2>1, <2>2, <2>5, <2>6, <2>7 DEF Fits
<1> HIDE DEF out
<1>3. out \in Code
  BY <1>1, <1>2 DEF Code
<1> QED
  BY <1>1, <1>3 DEF out
-----------------------------------------------------------------------------
(* A second pass *)

LEMMA RewriteParts ==
  ASSUME NEW code \in Code, NEW p \in 1..Len(code)
  PROVE  Parts(Rewrite(code), p) = {InPlace(code)[q] : q \in Parts(code, p)}
<1> DEFINE out == Rewrite(code)
<1>1. /\ DOMAIN out[p].parts = DOMAIN code[p].parts
      /\ \A i \in DOMAIN code[p].parts :
           out[p].parts[i] = InPlace(code)[code[p].parts[i]]
  BY RewriteEquation
<1> HIDE DEF out
<1>2. Parts(out, p) = {InPlace(code)[q] : q \in Parts(code, p)}
  BY <1>1 DEF Parts
<1> QED
  BY <1>2 DEF out

LEMMA NothingToFold ==
  ASSUME NEW code \in Code, NEW p \in 1..Len(code)
  PROVE  /\ ~Folded(Rewrite(code), p)
         /\ ~Removed(Rewrite(code), p)
         /\ TryEval(Rewrite(code))[p] = "unknown"
         /\ Inlined(Rewrite(code), p) <=> Inlined(code, p)
         /\ \A kind \in Kind \ {"is", "literal"} :
              Rewrite(code)[p].node = kind <=> code[p].node = kind
<1> DEFINE out == Rewrite(code)
           N == Len(code)
           S == {q \in 1..N : TryEval(out)[q] = "unknown"}
<1>1. out \in Code /\ Len(out) = N /\ N \in Nat
  BY RewriteIsCode, CodeLength
<1>2. ASSUME NEW q \in 1..N
      PROVE  /\ out[q].node = IF Folded(code, q) THEN "literal" ELSE code[q].node
             /\ out[q].label = code[q].label
  BY RewriteEquation
<1>3. ASSUME NEW q \in 1..N PROVE ~Folded(out, q)
  BY <1>2 DEF Folded
<1> HIDE DEF out, N
<1>4. ASSUME NEW q \in 1..N, \A r \in 1..(q - 1) : r \in S PROVE q \in S
  <2>1. out[q].node = "not" => TryEval(out)[out[q].parts[1]] = "unknown"
    BY <1>1, <1>4, Shape DEF Unary, Part
  <2> QED
    BY <1>1, <1>3, <2>1, TryEvalEquation DEF Folded
<1>5. \A q \in 1..N : q \in S
  <2> HIDE DEF S
  <2> QED
    BY <1>1, <1>4, Induction
<1>6. p \in 1..N
  BY DEF N
<1>7. ~Removed(out, p)
  <2> SUFFICES ASSUME out[p].node = "if" PROVE Verdict(out, p) = "unknown"
    BY DEF Removed
  <2>1. out[p].parts[1] \in 1..N
    BY <1>1, <1>6, RemovedParts
  <2> QED
    BY <1>5, <2>1 DEF Verdict
<1>8. Inlined(out, p) <=> Inlined(code, p)
  BY <1>2, <1>6 DEF Inlined, Folded
<1>9. \A kind \in Kind \ {"is", "literal"} : out[p].node = kind <=> code[p].node = kind
  BY <1>2, <1>6 DEF Folded
<1> QED
  BY <1>3, <1>5, <1>6, <1>7, <1>8, <1>9 DEF out

(* What stands in a place stays there.                                     *)
LEMMA StableInRewrite ==
  ASSUME NEW code \in Code, NEW p \in 1..Len(code), Stable(code, p)
  PROVE  InPlace(Rewrite(code))[p] = p
<1> DEFINE out == Rewrite(code)
           N == Len(code)
           S == {q \in 1..N : Stable(code, q) => InPlace(out)[q] = q}
<1>1. out \in Code /\ Len(out) = N /\ N \in Nat
  BY RewriteIsCode, CodeLength
<1>2. ASSUME NEW q \in 1..N, \A r \in 1..(q - 1) : r \in S PROVE q \in S
  <2> SUFFICES ASSUME Stable(code, q) PROVE InPlace(out)[q] = q
    OBVIOUS
  <2>1. ~Removed(out, q) /\ ~Inlined(out, q)
    BY NothingToFold DEF Stable
  <2>2. ASSUME out[q].node = "item" PROVE out[InPlace(out)[out[q].parts[1]]].node # "empty"
    <3> DEFINE head == code[q].parts[1]
               r == InPlace(code)[head]
    <3>1. code[q].node = "item"
      BY <2>2, NothingToFold DEF Kind, List
    <3>2. head \in 1..(q - 1) /\ head \in 1..N /\ 1 \in DOMAIN code[q].parts
      BY <3>1, ItemParts, Shape, <1>1 DEF Binary
    <3>3. out[q].parts[1] = r
      BY <3>2, RewriteEquation
    <3>4. r \in 1..(q - 1) /\ r \in 1..N /\ Stable(code, r)
      BY <3>2, InPlaceFits
    <3>5. InPlace(out)[r] = r
      BY <1>2, <3>4
    <3>6. code[r].node # "empty"
      BY <3>1 DEF Stable
    <3>7. out[r].node # "empty"
      BY <3>4, <3>6, NothingToFold DEF Kind, Statement, Single
    <3> QED
      BY <3>3, <3>5, <3>7
  <2>3. Stable(out, q)
    BY <2>1, <2>2 DEF Stable
  <2> HIDE DEF out
  <2> QED
    BY <1>1, <2>3, InPlaceEquation DEF Stable
<1>3. \A q \in 1..N : q \in S
  <2> HIDE DEF S
  <2> QED
    BY <1>1, <1>2, Induction
<1> QED
  BY <1>3

LEMMA RewriteTwice ==
  ASSUME NEW code \in Code
  PROVE  Rewrite(Rewrite(code)) = Rewrite(code)
<1> DEFINE out == Rewrite(code)
           twice == Rewrite(out)
           N == Len(code)
<1>1. /\ out \in Code /\ Len(out) = N /\ DOMAIN out = 1..N
      /\ twice \in Code /\ Len(twice) = N /\ DOMAIN twice = 1..N
  BY RewriteIsCode, CodeLength
<1>2. ASSUME NEW p \in 1..N PROVE twice[p] = out[p]
  <2>1. twice[p].node = out[p].node /\ twice[p].label = out[p].label
    BY <1>1, RewriteEquation, NothingToFold
  <2>2. /\ DOMAIN twice[p].parts = DOMAIN out[p].parts
        /\ DOMAIN out[p].parts = DOMAIN code[p].parts
        /\ out[p].parts \in Seq(Nat)
        /\ twice[p].parts \in Seq(Nat)
    BY <1>1, RewriteEquation, Shape
  <2>3. ASSUME NEW i \in DOMAIN code[p].parts PROVE twice[p].parts[i] = out[p].parts[i]
    <3>1. code[p].parts[i] \in 1..Len(code)
      BY <1>1, Shape
    <3>2. out[p].parts[i] = InPlace(code)[code[p].parts[i]]
      BY RewriteEquation
    <3>3. out[p].parts[i] \in 1..Len(code) /\ Stable(code, out[p].parts[i])
      BY <3>1, <3>2, InPlaceFits
    <3>4. InPlace(out)[out[p].parts[i]] = out[p].parts[i]
      BY <3>3, StableInRewrite
    <3> QED
      BY <1>1, <2>2, <3>4, RewriteEquation
  <2>4. twice[p].parts = out[p].parts
    <3> DEFINE s == twice[p].parts
               t == out[p].parts
    <3>1. s \in Seq(Nat) /\ t \in Seq(Nat) /\ DOMAIN s = DOMAIN t
          /\ \A i \in DOMAIN s : s[i] = t[i]
      BY <2>2, <2>3
    <3> HIDE DEF s, t
    <3>2. s = t
      BY <3>1
    <3> QED
      BY <3>2 DEF s, t
  <2>5. twice[p] \in Node /\ out[p] \in Node
    BY <1>1, CodeLength
  <2> HIDE DEF twice, out
  <2> QED
    BY <2>1, <2>4, <2>5 DEF Node
<1>3. out \in Seq(Node) /\ twice \in Seq(Node)
  BY <1>1 DEF Code
<1> HIDE DEF twice, out
<1>4. twice = out
  BY <1>1, <1>2, <1>3
<1> QED
  BY <1>4 DEF twice, out

LEMMA NothingToTransform ==
  ASSUME NEW code \in Code, code[Len(code)].node = "function"
  PROVE  ~DidTransform(Rewrite(code))
<1> DEFINE out == Rewrite(code)
           N == Len(code)
           S == {p \in 1..N : Stable(code, p) =>
                              \A q \in Visited(out)[p] : q \in 1..N /\ Stable(code, q)}
<1>1. out \in Code /\ Len(out) = N /\ N \in Nat /\ N \in 1..N
  BY RewriteIsCode, CodeLength
<1>2. ASSUME NEW p \in 1..N, \A r \in 1..(p - 1) : r \in S PROVE p \in S
  <2> SUFFICES ASSUME Stable(code, p), NEW q \in Visited(out)[p]
               PROVE  q \in 1..N /\ Stable(code, q)
    OBVIOUS
  <2>1. q = p \/ \E r \in Parts(out, p) : q \in Visited(out)[r]
    <3> HIDE DEF out
    <3>1. Visited(out)[p] =
            {p} \cup UNION {Visited(out)[r] : r \in IF Removed(out, p) THEN {Taken(out, p)}
                                                   ELSE Parts(out, p)}
      BY <1>1, VisitedEquation
    <3>2. ~Removed(out, p)
      BY NothingToFold DEF out
    <3> QED
      BY <3>1, <3>2
  <2>2. ASSUME NEW r \in Parts(out, p) PROVE r \in 1..(p - 1) /\ Stable(code, r)
    <3>1. PICK s \in Parts(code, p) : r = InPlace(code)[s]
      BY <2>2, RewriteParts
    <3>2. s \in 1..(p - 1) /\ s \in 1..Len(code)
      BY <1>1, <3>1, Shape
    <3> QED
      BY <3>1, <3>2, InPlaceFits
  <2>3. ASSUME NEW r \in Parts(out, p), q \in Visited(out)[r]
        PROVE  q \in 1..N /\ Stable(code, q)
    BY <1>2, <2>2, <2>3
  <2> QED
    BY <2>1, <2>3
<1>3. \A p \in 1..N : p \in S
  <2> HIDE DEF S
  <2> QED
    BY <1>1, <1>2, Induction
<1>4. Stable(code, N)
  BY DEF Stable, Removed, Inlined
<1>5. ASSUME NEW q \in Visited(out)[N]
      PROVE  ~Removed(out, q) /\ ~Folded(out, q) /\ ~Inlined(out, q)
  <2>1. q \in 1..Len(code) /\ Stable(code, q)
    BY <1>1, <1>3, <1>4, <1>5
  <2> QED
    BY <2>1, NothingToFold DEF Stable
<1> QED
  BY <1>1, <1>5 DEF DidTransform
-----------------------------------------------------------------------------
(* Declarations and names *)

(* Expressions declare nothing for the function around them, and tests     *)
(* have no names.                                                          *)
LEMMA ExpressionsDeclareNothing ==
  ASSUME NEW code \in Code, NEW p \in 1..Len(code)
  PROVE  /\ code[p].node \in Test \cup Callable =>
              \A l : \A closed \in Opaque : l \notin VarsOutside(code, p, closed)
         /\ code[p].node \in Test => \A l : l \notin Names(code, p)
<1> DEFINE N == Len(code)
           Good(q) == /\ code[q].node \in Test \cup Callable =>
                           \A l : \A closed \in Opaque : l \notin VarsOutside(code, q, closed)
                      /\ code[q].node \in Test => \A l : l \notin Names(code, q)
           S == {q \in 1..N : Good(q)}
<1>1. ASSUME NEW q \in 1..N, \A r \in 1..(q - 1) : r \in S PROVE Good(q)
  <2>2. ASSUME NEW r \in Parts(code, q), code[q].node \in {"not", "switch"}
        PROVE  Good(r) /\ r \in 1..N
    BY <1>1, <2>2, Shape
  <2>3. ASSUME NEW r \in Parts(code, q), code[q].node \in {"not", "switch"}
        PROVE  IF code[q].node = "not" THEN code[r].node \in Test ELSE code[r].node \in Callable
    BY <2>3, Shape DEF Unary, Binary, Part
  <2>4. code[q].node \in {"is", "literal", "ref", "member", "made"} => Parts(code, q) = {}
    BY Shape DEF Childless
  <2>5. code[q].node \in Test \cup Callable =>
          code[q].node \in {"not", "switch", "is", "literal", "ref", "member", "made",
                           "function"}
    BY DEF Test, Callable
  <2>5a. \A closed \in Opaque : code[q].node = "function" => code[q].node \in closed
    BY DEF Opaque
  <2>6. ASSUME code[q].node \in Test \cup Callable, NEW l, NEW closed \in Opaque
        PROVE  l \notin VarsOutside(code, q, closed)
    BY <2>2, <2>3, <2>4, <2>5, <2>5a, <2>6, VarsEquation
  <2>7. ASSUME code[q].node \in Test, NEW l PROVE l \notin Names(code, q)
    <3>1. code[q].node \notin Naming /\ code[q].node \in {"not", "is", "literal"}
      BY <2>7 DEF Test, Naming
    <3> QED
      BY <2>2, <2>3, <2>4, <3>1, NamesEquation
  <2> QED
    BY <2>6, <2>7
<1>2. \A q \in 1..N : q \in S
  <2>1. N \in Nat
    BY CodeLength
  <2>2. \A q \in 1..N : (\A r \in 1..(q - 1) : r \in S) => q \in S
    BY <1>1
  <2> HIDE DEF S, N
  <2> QED
    BY <2>1, <2>2, Induction
<1> QED
  BY <1>2

LEMMA EmptyHasNothing ==
  ASSUME NEW code \in Code, NEW p \in 1..Len(code), code[p].node = "empty", NEW l
  PROVE  /\ l \notin Names(code, p) /\ l \notin Lets(code, p)
         /\ \A closed \in Opaque : l \notin VarsOutside(code, p, closed)
<1>1. Parts(code, p) = {}
  BY Shape DEF Childless
<1> QED
  BY <1>1, NamesEquation, VarsEquation, LetsEquation DEF Naming

(* An item goes when its statement has become an empty one.                *)
LEMMA EmptyInPlace ==
  ASSUME NEW code \in Code, NEW p \in 1..Len(code),
         code[InPlace(code)[p]].node = "empty", NEW l
  PROVE  LET r == InPlace(code)[p] IN
         /\ l \notin Names(Rewrite(code), r)
         /\ \A closed \in Opaque : l \notin VarsOutside(Rewrite(code), r, closed)
         /\ l \notin Lets(Rewrite(code), r)
<1> DEFINE r == InPlace(code)[p]
           out == Rewrite(code)
<1>1. out \in Code /\ r \in 1..Len(code) /\ Len(out) = Len(code)
  BY RewriteIsCode, InPlaceEquation
<1>2. out[r].node = "empty"
  BY <1>1, NothingToFold DEF Kind, Statement, Single
<1> HIDE DEF r, out
<1>3. /\ l \notin Names(out, r) /\ l \notin Lets(out, r)
      /\ \A closed \in Opaque : l \notin VarsOutside(out, r, closed)
  BY <1>1, <1>2, EmptyHasNothing
<1> QED
  BY <1>3 DEF r, out

LEMMA VarsKept ==
  ASSUME NEW code \in Code, NEW p \in 1..Len(code), NEW closed \in Opaque
  PROVE  VarsOutside(Rewrite(code), InPlace(code)[p], closed) = VarsOutside(code, p, closed)
<1> DEFINE N == Len(code)
           out == Rewrite(code)
           at == InPlace(code)
           Good(q) == \A l : l \in VarsOutside(out, at[q], closed) <=>
                             l \in VarsOutside(code, q, closed)
           S == {q \in 1..N : Good(q)}
<1>1. out \in Code /\ Len(out) = N /\ N \in Nat
  BY RewriteIsCode, CodeLength
<1>2. ASSUME NEW q \in 1..N, \A r \in 1..(q - 1) : r \in S PROVE Good(q)
  <2> SUFFICES ASSUME NEW l
               PROVE  l \in VarsOutside(out, at[q], closed) <=>
                      l \in VarsOutside(code, q, closed)
    OBVIOUS
  <2>1. \A r \in 1..(q - 1) :
          /\ r \in 1..N
          /\ l \in VarsOutside(out, at[r], closed) <=> l \in VarsOutside(code, r, closed)
    BY <1>1, <1>2
  <2>2. Parts(code, q) \subseteq 1..(q - 1)
    BY Shape
  <2>3. CASE Stable(code, q) /\ at[q] = q
    <3>1. /\ out[q].label = code[q].label
          /\ out[q].node = "var" <=> code[q].node = "var"
          /\ out[q].node \in closed <=> code[q].node \in closed
      BY RewriteEquation, NothingToFold DEF Opaque, Kind, Statement, Single, Callable
    <3>2. Parts(out, q) = {at[r] : r \in Parts(code, q)}
      BY RewriteParts
    <3> HIDE DEF out, at
    <3>3. l \in VarsOutside(out, q, closed) <=>
            \/ out[q].node = "var" /\ l = out[q].label
            \/ \E r \in IF out[q].node \in closed THEN {} ELSE Parts(out, q) :
                 l \in VarsOutside(out, r, closed)
      BY <1>1, VarsEquation
    <3>4. l \in VarsOutside(code, q, closed) <=>
            \/ code[q].node = "var" /\ l = code[q].label
            \/ \E r \in IF code[q].node \in closed THEN {} ELSE Parts(code, q) :
                 l \in VarsOutside(code, r, closed)
      BY VarsEquation
    <3> QED
      BY <2>1, <2>2, <2>3, <3>1, <3>2, <3>3, <3>4
  <2>4. CASE Removed(code, q) /\ at[q] = at[Taken(code, q)]
    <3>1. code[q].node = "if" /\ VarsOutside(code, Dropped(code, q), closed) = {}
      <4>1. code[q].node = "if" /\ HoistedVars(code, Dropped(code, q)) = {}
        BY <2>4 DEF Removed, HasHoistedVar
      <4>2. Dropped(code, q) \in 1..N
        BY <4>1, <2>1, RemovedParts
      <4> QED
        BY <4>1, <4>2, VarsAreFound
    <3>2. /\ Parts(code, q) = {code[q].parts[1], Taken(code, q), Dropped(code, q)}
          /\ Taken(code, q) \in 1..(q - 1)
          /\ code[q].parts[1] \in 1..N /\ code[code[q].parts[1]].node \in Test
      BY <3>1, <2>1, RemovedParts
    <3>3. l \notin VarsOutside(code, code[q].parts[1], closed)
      BY <3>2, ExpressionsDeclareNothing
    <3>4. code[q].node \notin closed
      BY <3>1 DEF Opaque
    <3>5. l \in VarsOutside(code, q, closed) <=>
          l \in VarsOutside(code, Taken(code, q), closed)
      BY <3>1, <3>2, <3>3, <3>4, VarsEquation
    <3> QED
      BY <2>1, <2>4, <3>2, <3>5
  <2>5. CASE Inlined(code, q) /\ at[q] = at[Winner(code, q)]
    <3>1. /\ code[q].node = "switch"
          /\ Winner(code, q) \in 1..(q - 1) /\ code[Winner(code, q)].node \in Callable
      BY <2>5, InlinedParts DEF Inlined
    <3>2. /\ l \notin VarsOutside(code, q, closed)
          /\ l \notin VarsOutside(code, Winner(code, q), closed)
      BY <2>1, <3>1, ExpressionsDeclareNothing DEF Callable
    <3> QED
      BY <2>1, <2>5, <3>1, <3>2
  <2>6. CASE /\ code[q].node = "item"
             /\ code[at[code[q].parts[1]]].node = "empty"
             /\ at[q] = at[code[q].parts[2]]
    <3>1. /\ Parts(code, q) = {code[q].parts[1], code[q].parts[2]}
          /\ code[q].parts[1] \in 1..(q - 1) /\ code[q].parts[2] \in 1..(q - 1)
      BY <2>6, ItemParts
    <3>2. l \notin VarsOutside(out, at[code[q].parts[1]], closed)
      BY <2>1, <2>6, <3>1, EmptyInPlace
    <3>3. code[q].node \notin closed
      BY <2>6 DEF Opaque
    <3>4. l \in VarsOutside(code, q, closed) <=>
          l \in VarsOutside(code, code[q].parts[2], closed)
      BY <2>1, <2>6, <3>1, <3>2, <3>3, VarsEquation
    <3> QED
      BY <2>1, <2>6, <3>1, <3>4
  <2> QED
    BY <2>3, <2>4, <2>5, <2>6, InPlaceCases
<1>3. \A q \in 1..N : q \in S
  <2>1. \A q \in 1..N : (\A r \in 1..(q - 1) : r \in S) => q \in S
    BY <1>2
  <2> HIDE DEF S, N
  <2> QED
    BY <1>1, <2>1, Induction
<1> QED
  BY <1>3

LEMMA LetsKept ==
  ASSUME NEW code \in Code, NEW p \in 1..Len(code)
  PROVE  Lets(Rewrite(code), InPlace(code)[p]) = Lets(code, p)
<1> DEFINE N == Len(code)
           out == Rewrite(code)
           at == InPlace(code)
           Good(q) == \A l : l \in Lets(out, at[q]) <=> l \in Lets(code, q)
           S == {q \in 1..N : Good(q)}
<1>1. out \in Code /\ Len(out) = N /\ N \in Nat
  BY RewriteIsCode, CodeLength
<1>2. ASSUME NEW q \in 1..N, \A r \in 1..(q - 1) : r \in S PROVE Good(q)
  <2> SUFFICES ASSUME NEW l PROVE l \in Lets(out, at[q]) <=> l \in Lets(code, q)
    OBVIOUS
  <2>1. \A r \in 1..(q - 1) : r \in 1..N /\ (l \in Lets(out, at[r]) <=> l \in Lets(code, r))
    BY <1>1, <1>2
  <2>2. Parts(code, q) \subseteq 1..(q - 1)
    BY Shape
  <2>3. CASE Stable(code, q) /\ at[q] = q
    <3>1. /\ out[q].label = code[q].label
          /\ out[q].node = "let" <=> code[q].node = "let"
          /\ out[q].node = "item" <=> code[q].node = "item"
      BY RewriteEquation, NothingToFold DEF Kind, Statement, Single, List
    <3>2. Parts(out, q) = {at[r] : r \in Parts(code, q)}
      BY RewriteParts
    <3> HIDE DEF out, at
    <3>3. l \in Lets(out, q) <=>
            \/ out[q].node = "let" /\ l = out[q].label
            \/ \E r \in IF out[q].node = "item" THEN Parts(out, q) ELSE {} :
                 l \in Lets(out, r)
      BY <1>1, LetsEquation
    <3>4. l \in Lets(code, q) <=>
            \/ code[q].node = "let" /\ l = code[q].label
            \/ \E r \in IF code[q].node = "item" THEN Parts(code, q) ELSE {} :
                 l \in Lets(code, r)
      BY LetsEquation
    <3> QED
      BY <2>1, <2>2, <2>3, <3>1, <3>2, <3>3, <3>4
  <2>4. CASE Removed(code, q) /\ at[q] = at[Taken(code, q)]
    <3>1. code[q].node = "if"
      BY <2>4 DEF Removed
    <3>2. Taken(code, q) \in 1..(q - 1) /\ code[Taken(code, q)].node \in Single
      BY <3>1, RemovedParts
    <3>3. l \notin Lets(code, q) /\ l \notin Lets(code, Taken(code, q))
      BY <2>1, <3>1, <3>2, LetsEquation DEF Single
    <3> QED
      BY <2>1, <2>4, <3>2, <3>3
  <2>5. CASE Inlined(code, q) /\ at[q] = at[Winner(code, q)]
    <3>1. /\ code[q].node = "switch"
          /\ Winner(code, q) \in 1..(q - 1) /\ code[Winner(code, q)].node \in Callable
      BY <2>5, InlinedParts DEF Inlined
    <3>2. l \notin Lets(code, q) /\ l \notin Lets(code, Winner(code, q))
      BY <2>1, <3>1, LetsEquation DEF Callable
    <3> QED
      BY <2>1, <2>5, <3>1, <3>2
  <2>6. CASE /\ code[q].node = "item"
             /\ code[at[code[q].parts[1]]].node = "empty"
             /\ at[q] = at[code[q].parts[2]]
    <3>1. /\ Parts(code, q) = {code[q].parts[1], code[q].parts[2]}
          /\ code[q].parts[1] \in 1..(q - 1) /\ code[q].parts[2] \in 1..(q - 1)
      BY <2>6, ItemParts
    <3>2. l \notin Lets(out, at[code[q].parts[1]])
      BY <2>1, <2>6, <3>1, EmptyInPlace
    <3>3. l \in Lets(code, q) <=> l \in Lets(code, code[q].parts[2])
      BY <2>1, <2>6, <3>1, <3>2, LetsEquation
    <3> QED
      BY <2>1, <2>6, <3>1, <3>3
  <2> QED
    BY <2>3, <2>4, <2>5, <2>6, InPlaceCases
<1>3. \A q \in 1..N : q \in S
  <2>1. \A q \in 1..N : (\A r \in 1..(q - 1) : r \in S) => q \in S
    BY <1>2
  <2> HIDE DEF S, N
  <2> QED
    BY <1>1, <2>1, Induction
<1> QED
  BY <1>3

(* What the visitor discards at a node itself. *)
DiscardedAt(code, q, l) ==
  \/ Removed(code, q) /\ l \in Names(code, Dropped(code, q))
  \/ /\ Inlined(code, q)
     /\ l \in Names(Rewrite(code), InPlace(code)[Loser(code, q)])

LEMMA DiscardedEquation ==
  ASSUME NEW code \in Code, NEW p \in 1..Len(code), NEW l
  PROVE  /\ l \in Discarded(code, p) <=> \E q \in Visited(code)[p] : DiscardedAt(code, q, l)
         /\ l \in Discarded(code, p) <=>
              \/ DiscardedAt(code, p, l)
              \/ \E q \in IF Removed(code, p) THEN {Taken(code, p)} ELSE Parts(code, p) :
                   l \in Discarded(code, q)
<1>1. ASSUME NEW q
      PROVE  l \in (IF Removed(code, q) THEN Names(code, Dropped(code, q))
                    ELSE IF Inlined(code, q)
                         THEN Names(Rewrite(code), InPlace(code)[Loser(code, q)])
                         ELSE {})
             <=> DiscardedAt(code, q, l)
  BY DEF DiscardedAt, Removed, Inlined
<1>2. \A q : l \in Discarded(code, q) <=> \E r \in Visited(code)[q] : DiscardedAt(code, r, l)
  BY <1>1 DEF Discarded
<1>3. \A q : q \in Visited(code)[p] <=>
        \/ q = p
        \/ \E r \in IF Removed(code, p) THEN {Taken(code, p)} ELSE Parts(code, p) :
             q \in Visited(code)[r]
  BY VisitedEquation
<1> QED
  BY <1>2, <1>3

(* Every name of the source is in the output, or was discarded. *)
LEMMA NamesKept ==
  ASSUME NEW code \in Code, NEW p \in 1..Len(code)
  PROVE  \A l : l \in Names(code, p) <=>
           \/ l \in Names(Rewrite(code), InPlace(code)[p])
           \/ l \in Discarded(code, p)
<1> DEFINE N == Len(code)
           out == Rewrite(code)
           at == InPlace(code)
           Good(q) == \A l : l \in Names(code, q) <=>
                              l \in Names(out, at[q]) \/ l \in Discarded(code, q)
           S == {q \in 1..N : Good(q)}
<1>1. out \in Code /\ Len(out) = N /\ N \in Nat
  BY RewriteIsCode, CodeLength
<1>2. ASSUME NEW q \in 1..N, \A r \in 1..(q - 1) : r \in S PROVE Good(q)
  <2> SUFFICES ASSUME NEW l
               PROVE  l \in Names(code, q) <=>
                        l \in Names(out, at[q]) \/ l \in Discarded(code, q)
    OBVIOUS
  <2>1. \A r \in 1..(q - 1) :
          /\ r \in 1..N
          /\ l \in Names(code, r) <=> l \in Names(out, at[r]) \/ l \in Discarded(code, r)
    BY <1>1, <1>2
  <2>2. Parts(code, q) \subseteq 1..(q - 1)
    BY Shape
  <2>3. CASE Stable(code, q) /\ at[q] = q
    <3>1. /\ out[q].label = code[q].label
          /\ out[q].node \in Naming <=> code[q].node \in Naming
      BY RewriteEquation, NothingToFold DEF Naming, Kind, Statement, Single, Callable
    <3>2. Parts(out, q) = {at[r] : r \in Parts(code, q)}
      BY RewriteParts
    <3>3. l \in Discarded(code, q) <=> \E r \in Parts(code, q) : l \in Discarded(code, r)
      BY <2>3, DiscardedEquation DEF Stable, DiscardedAt
    <3> HIDE DEF out, at
    <3>4. l \in Names(out, q) <=>
            \/ out[q].node \in Naming /\ l = out[q].label
            \/ \E r \in Parts(out, q) : l \in Names(out, r)
      BY <1>1, NamesEquation
    <3>5. l \in Names(code, q) <=>
            \/ code[q].node \in Naming /\ l = code[q].label
            \/ \E r \in Parts(code, q) : l \in Names(code, r)
      BY NamesEquation
    <3> QED
      BY <2>1, <2>2, <2>3, <3>1, <3>2, <3>3, <3>4, <3>5
  <2>4. CASE Removed(code, q) /\ at[q] = at[Taken(code, q)]
    <3>1. code[q].node = "if"
      BY <2>4 DEF Removed
    <3>2. /\ Parts(code, q) = {code[q].parts[1], Taken(code, q), Dropped(code, q)}
          /\ Taken(code, q) \in 1..(q - 1)
          /\ code[q].parts[1] \in 1..N /\ code[code[q].parts[1]].node \in Test
      BY <3>1, <2>1, RemovedParts
    <3>3. l \notin Names(code, code[q].parts[1])
      BY <3>2, ExpressionsDeclareNothing
    <3>4. l \in Names(code, q) <=>
            l \in Names(code, Taken(code, q)) \/ l \in Names(code, Dropped(code, q))
      BY <3>1, <3>2, <3>3, NamesEquation DEF Naming
    <3>5. l \in Discarded(code, q) <=>
            l \in Names(code, Dropped(code, q)) \/ l \in Discarded(code, Taken(code, q))
      BY <2>4, <3>1, DiscardedEquation DEF DiscardedAt, Inlined
    <3> QED
      BY <2>1, <2>4, <3>2, <3>4, <3>5
  <2>5. CASE Inlined(code, q) /\ at[q] = at[Winner(code, q)]
    <3>1. code[q].node = "switch" /\ ~Removed(code, q)
      BY <2>5 DEF Inlined, Removed
    <3>2. /\ Winner(code, q) \in 1..(q - 1) /\ Loser(code, q) \in 1..(q - 1)
          /\ Parts(code, q) = {Winner(code, q), Loser(code, q)}
      BY <3>1, InlinedParts
    <3>3. l \in Names(code, q) <=>
            l \in Names(code, Winner(code, q)) \/ l \in Names(code, Loser(code, q))
      BY <3>1, <3>2, NamesEquation DEF Naming
    <3>4. l \in Discarded(code, q) <=>
            \/ l \in Names(out, at[Loser(code, q)])
            \/ l \in Discarded(code, Winner(code, q))
            \/ l \in Discarded(code, Loser(code, q))
      BY <2>5, <3>1, <3>2, DiscardedEquation DEF DiscardedAt
    <3> HIDE DEF out, at
    <3> QED
      BY <2>1, <2>5, <3>2, <3>3, <3>4
  <2>6. CASE /\ code[q].node = "item"
             /\ code[at[code[q].parts[1]]].node = "empty"
             /\ at[q] = at[code[q].parts[2]]
    <3>1. /\ Parts(code, q) = {code[q].parts[1], code[q].parts[2]}
          /\ code[q].parts[1] \in 1..(q - 1) /\ code[q].parts[2] \in 1..(q - 1)
      BY <2>6, ItemParts
    <3>2. l \notin Names(out, at[code[q].parts[1]])
      BY <2>1, <2>6, <3>1, EmptyInPlace
    <3>3. l \in Names(code, q) <=>
            l \in Names(code, code[q].parts[1]) \/ l \in Names(code, code[q].parts[2])
      BY <2>6, <3>1, NamesEquation DEF Naming
    <3>4. l \in Discarded(code, q) <=>
            \/ l \in Discarded(code, code[q].parts[1])
            \/ l \in Discarded(code, code[q].parts[2])
      BY <2>6, <3>1, DiscardedEquation DEF DiscardedAt, Removed, Inlined
    <3> HIDE DEF out, at
    <3> QED
      BY <2>1, <2>6, <3>1, <3>2, <3>3, <3>4
  <2> QED
    BY <2>3, <2>4, <2>5, <2>6, InPlaceCases
<1>3. \A q \in 1..N : q \in S
  <2>1. \A q \in 1..N : (\A r \in 1..(q - 1) : r \in S) => q \in S
    BY <1>2
  <2> HIDE DEF S, N
  <2> QED
    BY <1>1, <2>1, Induction
<1> QED
  BY <1>3
-----------------------------------------------------------------------------
(* Answers of tests *)

Meaning == {"let", "var", "import", "global"}

Event ==
  ({"ask", "error", "log"} \X BOOLEAN) \cup ({"call"} \X Ident \X Meaning \X BOOLEAN)
    \cup ({"make", "callMade"} \X Ident \X Meaning)

Trace == Seq(Event)

LEMMA AsksIsEvent ==
  ASSUME NEW verdict, NEW b \in BOOLEAN
  PROVE  /\ Asks(verdict, b) \in Event
         /\ Asks(verdict, b)[1] = IF verdict = "error" THEN "error" ELSE "ask"
         /\ <<Asks(verdict, b)>> \in Trace
         /\ Len(<<Asks(verdict, b)>>) = 1 /\ <<Asks(verdict, b)>>[1] = Asks(verdict, b)
BY DEF Asks, Event, Trace

LEMMA RepliesAtRuntime ==
  ASSUME NEW label \in {"runtime", "error"}
  PROVE  /\ Replies(label) \subseteq Trace \X BOOLEAN
         /\ << <<Asks(label, TRUE)>>, TRUE >> \in Replies(label)
         /\ \A a \in Replies(label) : \E b \in BOOLEAN : a[1] = <<Asks(label, b)>>
<1>1. Replies(label) = {<< <<Asks(label, b)>>, b >> : b \in BOOLEAN}
  BY DEF Replies
<1>2. \A b \in BOOLEAN : << <<Asks(label, b)>>, b >> \in Trace \X BOOLEAN
  BY AsksIsEvent
<1>3. Replies(label) \subseteq Trace \X BOOLEAN
  BY <1>1, <1>2
<1>4. << <<Asks(label, TRUE)>>, TRUE >> \in Replies(label)
  BY <1>1
<1>5. \A a \in Replies(label) : \E b \in BOOLEAN : a[1] = <<Asks(label, b)>>
  BY <1>1
<1> QED
  BY <1>3, <1>4, <1>5

LEMMA EmptyTrace == <<>> \in Trace
BY DEF Trace

LEMMA RepliesAtOnce ==
  ASSUME NEW label, label \notin {"runtime", "error"}
  PROVE  /\ Replies(label) \subseteq Trace \X BOOLEAN
         /\ label \in {"true", "first"} => Replies(label) = {<< <<>>, TRUE >>}
         /\ label \notin {"true", "first"} => Replies(label) = {<< <<>>, FALSE >>}
         /\ \A a \in Replies(label) : a[1] = <<>>
<1>1. CASE label \in {"true", "first"}
  <2>1. (label \in {"true", "first"}) = TRUE
    BY <1>1
  <2>2. Replies(label) = {<< <<>>, TRUE >>}
    BY <1>1, <2>1 DEF Replies
  <2>3. << <<>>, TRUE >> \in Trace \X BOOLEAN
    BY EmptyTrace
  <2>4. \A a \in Replies(label) : a[1] = <<>>
    BY <2>2
  <2>5. Replies(label) \subseteq Trace \X BOOLEAN
    BY <2>2, <2>3
  <2> QED
    BY <1>1, <2>2, <2>4, <2>5
<1>2. CASE label \notin {"true", "first"}
  <2>1. (label \in {"true", "first"}) = FALSE
    BY <1>2
  <2>2. Replies(label) = {<< <<>>, FALSE >>}
    BY <2>1 DEF Replies
  <2>3. << <<>>, FALSE >> \in Trace \X BOOLEAN
    BY EmptyTrace
  <2>4. \A a \in Replies(label) : a[1] = <<>>
    BY <2>2
  <2>5. Replies(label) \subseteq Trace \X BOOLEAN
    BY <2>2, <2>3
  <2> QED
    BY <1>2, <2>2, <2>4, <2>5
<1> QED
  BY <1>1, <1>2

LEMMA AnswersEquation ==
  ASSUME NEW code \in Code, NEW p \in 1..Len(code)
  PROVE  /\ Answers(code)[p] =
              IF code[p].node = "not" THEN Negated(Answers(code)[code[p].parts[1]])
              ELSE Replies(code[p].label)
         /\ Answers(code)[p] \subseteq Trace \X BOOLEAN
<1> DEFINE N == Len(code)
           V == SUBSET (Trace \X BOOLEAN)
           F == [1..N -> V]
           Value(f, q) ==
             IF code[q].node = "not" THEN Negated(f[code[q].parts[1]])
             ELSE Replies(code[q].label)
           H == [f \in F |-> [q \in 1..N |-> Value(f, q)]]
           f0 == [q \in 1..N |-> {}]
           Fix(f) == f = [q \in DOMAIN code |-> Value(f, q)]
<1>1. N \in Nat /\ DOMAIN code = 1..N /\ f0 \in F
  BY CodeLength
<1>2. ASSUME NEW q \in 1..N, code[q].node = "not"
      PROVE  code[q].parts[1] \in 1..(q - 1) /\ code[q].parts[1] \in 1..N
  BY <1>1, <1>2, Shape DEF Unary, Part
<1>3. ASSUME NEW f, NEW q \in 1..N,
             code[q].node = "not" => f[code[q].parts[1]] \subseteq Trace \X BOOLEAN
      PROVE  Value(f, q) \subseteq Trace \X BOOLEAN
  <2>1. CASE code[q].node = "not"
    <3>1. \A a \in f[code[q].parts[1]] : <<a[1], ~a[2]>> \in Trace \X BOOLEAN
      BY <1>3, <2>1
    <3>2. Negated(f[code[q].parts[1]]) \subseteq Trace \X BOOLEAN
      BY <3>1 DEF Negated
    <3> QED
      BY <2>1, <3>2
  <2>2. CASE code[q].node # "not"
    BY <2>2, RepliesAtRuntime, RepliesAtOnce
  <2> QED
    BY <2>1, <2>2
<1>4. Converges(H, N, V)
  <2>1. ASSUME NEW f \in F, NEW q \in 1..N PROVE Value(f, q) \in V
    <3>1. code[q].node = "not" => f[code[q].parts[1]] \subseteq Trace \X BOOLEAN
      BY <1>2
    <3> HIDE DEF Value
    <3> QED
      BY <1>3, <3>1
  <2>2. H \in [F -> F]
    BY <2>1
  <2>3. ASSUME NEW f \in F, NEW g \in F, NEW q \in 1..N,
               \A r \in 1..(q - 1) : f[r] = g[r]
        PROVE  H[f][q] = H[g][q]
    <3>1. code[q].node = "not" => f[code[q].parts[1]] = g[code[q].parts[1]]
      BY <1>2, <2>3
    <3>2. Value(f, q) = Value(g, q)
      BY <3>1
    <3> QED
      BY <3>2
  <2> QED
    BY <2>2, <2>3 DEF Converges
<1>5. PICK f \in F : f = H[f]
  <2> HIDE DEF f0, H, V, N
  <2> QED
    BY <1>1, <1>4, Recursion
<1>6. Fix(f)
  BY <1>1, <1>5
<1>7. Answers(code) = CHOOSE g : Fix(g)
  BY Zenon DEF Answers
<1>8. Fix(Answers(code))
  <2> HIDE DEF Fix
  <2> QED
    BY <1>6, <1>7
<1>9. \A q \in 1..N : Answers(code)[q] = Value(Answers(code), q)
  BY <1>1, <1>8
<1>10. \A q \in 1..N : Answers(code)[q] \subseteq Trace \X BOOLEAN
  <2> DEFINE S == {q \in 1..N : Answers(code)[q] \subseteq Trace \X BOOLEAN}
  <2>1. ASSUME NEW q \in 1..N, \A r \in 1..(q - 1) : r \in S PROVE q \in S
    <3>1. code[q].node = "not" => Answers(code)[code[q].parts[1]] \subseteq Trace \X BOOLEAN
      BY <1>2, <2>1
    <3>2. Answers(code)[q] = Value(Answers(code), q)
      BY <1>9
    <3> HIDE DEF Value
    <3>3. Answers(code)[q] \subseteq Trace \X BOOLEAN
      BY <1>3, <3>1, <3>2
    <3> QED
      BY <3>3
  <2>2. \A q \in 1..N : q \in S
    <3> HIDE DEF S
    <3> QED
      BY <1>1, <2>1, Induction
  <2> QED
    BY <2>2
<1> QED
  BY <1>9, <1>10

LEMMA AnswersCases ==
  ASSUME NEW code \in Code, NEW p \in 1..Len(code), code[p].node \in Test
  PROVE  LET q == code[p].parts[1] IN
         \/ /\ code[p].node = "not"
            /\ q \in 1..(p - 1) /\ q \in 1..Len(code) /\ code[q].node \in Test
            /\ Parts(code, p) = {q} /\ DOMAIN code[p].parts = 1..1
            /\ Answers(code)[p] = Negated(Answers(code)[q])
         \/ /\ code[p].node \in {"is", "literal"} /\ code[p].label \in {"true", "false"}
            /\ Answers(code)[p] = Replies(code[p].label)
         \/ /\ code[p].node = "is" /\ code[p].label \in {"runtime", "error"}
            /\ Answers(code)[p] = Replies(code[p].label)
<1>1. CASE code[p].node = "not"
  <2>1. /\ code[p].parts[1] \in 1..(p - 1) /\ code[code[p].parts[1]].node \in Test
        /\ Parts(code, p) = {code[p].parts[1]} /\ DOMAIN code[p].parts = 1..1
        /\ code[p].parts[1] \in 1..Len(code)
    BY <1>1, Shape DEF Unary, Part
  <2> QED
    BY <1>1, <2>1, AnswersEquation
<1>2. CASE code[p].node \in {"is", "literal"}
  <2>1. /\ code[p].label \in {"true", "false", "runtime", "error"}
        /\ code[p].node = "literal" => code[p].label \in {"true", "false"}
    BY <1>2, Shape DEF Labels, IsVerdict
  <2> QED
    BY <1>2, <2>1, AnswersEquation
<1> QED
  BY <1>1, <1>2 DEF Test

LEMMA NegatedAnswers ==
  /\ Negated(Replies("true")) = Replies("false")
  /\ Negated(Replies("false")) = Replies("true")
  /\ \A answers, a : a \in Negated(answers) <=> \E b \in answers : a = <<b[1], ~b[2]>>
<1>2. /\ Replies("true") = {<< <<>>, TRUE >>} /\ Replies("false") = {<< <<>>, FALSE >>}
  BY RepliesAtOnce
<1>3. \A answers, a : a \in Negated(answers) <=> \E b \in answers : a = <<b[1], ~b[2]>>
  BY Zenon DEF Negated
<1>4. ASSUME NEW t, NEW u, u = <<t[1], ~t[2]>> PROVE Negated({t}) = {u}
  <2>1. \A a : a \in Negated({t}) <=> \E b \in {t} : a = <<b[1], ~b[2]>>
    <3> DEFINE T == {t}
    <3> HIDE DEF T
    <3>1. \A a : a \in Negated(T) <=> \E b \in T : a = <<b[1], ~b[2]>>
      BY Zenon DEF Negated
    <3> QED
      BY <3>1 DEF T
  <2>2. \A a : (\E b \in {t} : a = <<b[1], ~b[2]>>) <=> a = u
    BY <1>4, Zenon
  <2>3. \A a : a \in Negated({t}) <=> a = u
    BY <2>1, <2>2, Zenon
  <2> QED
    BY <2>3
<1>5. Negated({<< <<>>, TRUE >>}) = {<< <<>>, FALSE >>}
  <2> DEFINE t == << <<>>, TRUE >>
  <2>1. << <<>>, FALSE >> = <<t[1], ~t[2]>>
    OBVIOUS
  <2> HIDE DEF t
  <2> QED
    BY <1>4, <2>1, Zenon DEF t
<1>6. Negated({<< <<>>, FALSE >>}) = {<< <<>>, TRUE >>}
  <2> DEFINE t == << <<>>, FALSE >>
  <2>1. << <<>>, TRUE >> = <<t[1], ~t[2]>>
    OBVIOUS
  <2> HIDE DEF t
  <2> QED
    BY <1>4, <2>1, Zenon DEF t
<1> QED
  BY <1>2, <1>3, <1>5, <1>6

(* What the visitor decides of a test is its only answer, without a call.  *)
LEMMA Decided ==
  ASSUME NEW code \in Code, NEW p \in 1..Len(code), code[p].node \in Test,
         TryEval(code)[p] # "unknown"
  PROVE  /\ Answers(code)[p] = {<< <<>>, TryEval(code)[p] = "true" >>}
         /\ TryEval(code)[p] \in {"true", "false"}
<1> DEFINE N == Len(code)
           S == {q \in 1..N : code[q].node \in Test /\ TryEval(code)[q] # "unknown" =>
                                Answers(code)[q] = Replies(TryEval(code)[q])}
<1>1. N \in Nat
  BY CodeLength
<1>2. ASSUME NEW q \in 1..N, \A r \in 1..(q - 1) : r \in S PROVE q \in S
  <2> SUFFICES ASSUME code[q].node \in Test, TryEval(code)[q] # "unknown"
               PROVE  Answers(code)[q] = Replies(TryEval(code)[q])
    OBVIOUS
  <2>1. CASE code[q].node = "not"
    <3> DEFINE r == code[q].parts[1]
    <3>1. /\ r \in 1..(q - 1) /\ code[r].node \in Test
          /\ Answers(code)[q] = Negated(Answers(code)[r])
      BY <2>1, AnswersCases
    <3>2. \/ TryEval(code)[r] = "true" /\ TryEval(code)[q] = "false"
          \/ TryEval(code)[r] = "false" /\ TryEval(code)[q] = "true"
      BY <2>1, TryEvalEquation
    <3>3. Answers(code)[r] = Replies(TryEval(code)[r])
      BY <1>2, <3>1, <3>2
    <3> QED
      BY <3>1, <3>2, <3>3, NegatedAnswers
  <2>2. CASE code[q].node # "not"
    <3>1. code[q].node = "is" /\ TryEval(code)[q] = code[q].label
          /\ code[q].label \in {"true", "false"}
      BY <2>2, TryEvalEquation
    <3> QED
      BY <3>1, AnswersCases
  <2> QED
    BY <2>1, <2>2
<1>3. \A q \in 1..N : q \in S
  <2> HIDE DEF S, N
  <2> QED
    BY <1>1, <1>2, Induction
<1>4. Answers(code)[p] = Replies(TryEval(code)[p])
  BY <1>3
<1> QED
  BY <1>4, TryEvalEquation DEF Replies

(* The answers do not change: a folded call is a literal that answers as   *)
(* it did, and nothing takes the place of a test.                          *)
LEMMA AnswersKept ==
  ASSUME NEW code \in Code, NEW p \in 1..Len(code), code[p].node \in Test
  PROVE  /\ InPlace(code)[p] = p
         /\ Rewrite(code)[p].node \in Test
         /\ Answers(Rewrite(code))[p] = Answers(code)[p]
<1> DEFINE N == Len(code)
           out == Rewrite(code)
           S == {q \in 1..N : code[q].node \in Test => Answers(out)[q] = Answers(code)[q]}
<1>1. out \in Code /\ Len(out) = N /\ N \in Nat
  BY RewriteIsCode, CodeLength
<1>2. ASSUME NEW q \in 1..N
      PROVE  /\ out[q].node = IF Folded(code, q) THEN "literal" ELSE code[q].node
             /\ out[q].label = code[q].label
             /\ code[q].node \in Test => out[q].node \in Test
  BY RewriteEquation DEF Test
<1>3. ASSUME NEW q \in 1..N, \A r \in 1..(q - 1) : r \in S PROVE q \in S
  <2> SUFFICES ASSUME code[q].node \in Test PROVE Answers(out)[q] = Answers(code)[q]
    OBVIOUS
  <2>1. CASE code[q].node = "not"
    <3> DEFINE r == code[q].parts[1]
    <3>1. /\ r \in 1..(q - 1) /\ r \in 1..N /\ code[r].node \in Test
          /\ DOMAIN code[q].parts = 1..1
          /\ Answers(code)[q] = Negated(Answers(code)[r])
      BY <2>1, AnswersCases
    <3>2. InPlace(code)[r] = r
      BY <3>1, InPlaceFits DEF SameSort
    <3>3. out[q].parts[1] = r
      BY <3>1, <3>2, RewriteEquation
    <3>4. out[q].node = "not"
      BY <1>2, <2>1 DEF Folded
    <3> HIDE DEF out
    <3>5. Answers(out)[q] = Negated(Answers(out)[r])
      BY <1>1, <3>3, <3>4, AnswersCases DEF Test
    <3> QED
      BY <1>3, <3>1, <3>5
  <2>2. CASE code[q].node # "not"
    <3>1. out[q].node # "not"
      BY <1>2, <2>2
    <3> HIDE DEF out
    <3>2. out[q].label = code[q].label /\ out[q].node \in Test
      BY <1>2
    <3>3. Answers(out)[q] = Replies(out[q].label)
      BY <1>1, <3>1, <3>2, AnswersCases
    <3>4. Answers(code)[q] = Replies(code[q].label)
      BY <2>2, AnswersCases
    <3> QED
      BY <3>2, <3>3, <3>4
  <2> QED
    BY <2>1, <2>2
<1>4. \A q \in 1..N : q \in S
  <2> HIDE DEF S, N
  <2> QED
    BY <1>1, <1>3, Induction
<1>5. InPlace(code)[p] = p
  BY InPlaceFits DEF SameSort
<1> QED
  BY <1>2, <1>4, <1>5

(* A test of calls only that the visitor cannot decide asks at runtime.    *)
LEMMA Undecided ==
  ASSUME NEW code \in Code, NEW p \in 1..Len(code), code[p].node \in Test,
         \A q \in 1..Len(code) : code[q].node # "literal",
         TryEval(code)[p] = "unknown"
  PROVE  \E a \in Answers(code)[p] : a[1] # <<>>
<1> DEFINE N == Len(code)
           S == {q \in 1..N : code[q].node \in Test /\ TryEval(code)[q] = "unknown" =>
                                \E a \in Answers(code)[q] : a[1] # <<>>}
<1>1. N \in Nat
  BY CodeLength
<1>2. ASSUME NEW q \in 1..N, \A r \in 1..(q - 1) : r \in S PROVE q \in S
  <2> SUFFICES ASSUME code[q].node \in Test, TryEval(code)[q] = "unknown"
               PROVE  \E a \in Answers(code)[q] : a[1] # <<>>
    OBVIOUS
  <2>1. CASE code[q].node = "not"
    <3> DEFINE r == code[q].parts[1]
    <3>1. /\ r \in 1..(q - 1) /\ r \in 1..N /\ code[r].node \in Test
          /\ Answers(code)[q] = Negated(Answers(code)[r])
      BY <2>1, AnswersCases
    <3>2. TryEval(code)[r] = "unknown"
      <4>1. TryEval(code)[r] \in {"true", "false", "unknown"}
        BY <3>1, TryEvalEquation
      <4> QED
        BY <2>1, <4>1, TryEvalEquation
    <3>3. PICK a \in Answers(code)[r] : a[1] # <<>>
      BY <1>2, <3>1, <3>2
    <3>4. <<a[1], ~a[2]>> \in Answers(code)[q]
      <4>1. <<a[1], ~a[2]>> \in Negated(Answers(code)[r])
        BY <3>3, Zenon DEF Negated
      <4> QED
        BY <3>1, <4>1
    <3>5. <<a[1], ~a[2]>>[1] = a[1]
      OBVIOUS
    <3> QED
      BY <3>3, <3>4, <3>5
  <2>2. CASE code[q].node # "not"
    <3>1. code[q].label \in {"runtime", "error"} /\ Answers(code)[q] = Replies(code[q].label)
      BY <2>2, AnswersCases, TryEvalEquation
    <3>2. << <<Asks(code[q].label, TRUE)>>, TRUE >> \in Answers(code)[q]
      BY <3>1, RepliesAtRuntime, RepliesAtOnce
    <3>3. <<Asks(code[q].label, TRUE)>> # <<>>
      OBVIOUS
    <3> QED
      BY <3>2, <3>3
  <2> QED
    BY <2>1, <2>2
<1>3. \A q \in 1..N : q \in S
  <2> HIDE DEF S, N
  <2> QED
    BY <1>1, <1>2, Induction
<1> QED
  BY <1>3

Quiet(run) == \A i \in DOMAIN run : run[i][1] # "error"

IsError(code, q) == code[q].node \in {"is", "switch"} /\ code[q].label = "error"

(* A test without a call in error asks for no error. *)
LEMMA QuietAnswers ==
  ASSUME NEW code \in Code, NEW p \in 1..Len(code), code[p].node \in Test,
         \A q \in Visited(code)[p] : ~IsError(code, q)
  PROVE  \A a \in Answers(code)[p] : Quiet(a[1])
<1> DEFINE N == Len(code)
           Fine(q) == \A r \in Visited(code)[q] : ~IsError(code, r)
           S == {q \in 1..N : code[q].node \in Test /\ Fine(q) =>
                                \A a \in Answers(code)[q] : Quiet(a[1])}
<1>1. N \in Nat
  BY CodeLength
<1>2. ASSUME NEW q \in 1..N, \A r \in 1..(q - 1) : r \in S PROVE q \in S
  <2> SUFFICES ASSUME code[q].node \in Test, Fine(q), NEW a \in Answers(code)[q]
               PROVE  Quiet(a[1])
    OBVIOUS
  <2>1. CASE code[q].node = "not"
    <3> DEFINE r == code[q].parts[1]
    <3>1. /\ r \in 1..(q - 1) /\ r \in 1..N /\ code[r].node \in Test
          /\ Parts(code, q) = {r}
          /\ Answers(code)[q] = Negated(Answers(code)[r])
      BY <2>1, AnswersCases
    <3>2. Visited(code)[r] \subseteq Visited(code)[q]
      BY <2>1, <3>1, VisitedEquation DEF Removed
    <3>3. Fine(r)
      BY <3>2
    <3>4. PICK b \in Answers(code)[r] : a = <<b[1], ~b[2]>>
      <4>1. a \in Negated(Answers(code)[r])
        BY <3>1
      <4> QED
        BY <4>1, Zenon DEF Negated
    <3>5. a[1] = b[1]
      BY <3>4
    <3> QED
      BY <1>2, <3>1, <3>3, <3>4, <3>5
  <2>2. CASE code[q].node \in {"is", "literal"} /\ code[q].label \in {"true", "false"}
    <3>1. a[1] = <<>>
      <4>1. a \in Replies(code[q].label)
        BY <2>2, AnswersCases
      <4> QED
        BY <2>2, <4>1, RepliesAtOnce
    <3> QED
      BY <3>1 DEF Quiet
  <2>3. CASE code[q].node = "is" /\ code[q].label \in {"runtime", "error"}
    <3>1. code[q].label = "runtime"
      BY <2>3, VisitedEquation DEF IsError
    <3>2. PICK b \in BOOLEAN : a[1] = <<Asks("runtime", b)>>
      BY <2>3, <3>1, AnswersCases, RepliesAtRuntime, RepliesAtOnce
    <3>3. Asks("runtime", b)[1] = "ask" /\ DOMAIN a[1] = 1..1 /\ a[1][1] = Asks("runtime", b)
      BY <3>2 DEF Asks
    <3> QED
      BY <3>3 DEF Quiet
  <2> QED
    BY <2>1, <2>2, <2>3, AnswersCases
<1>3. \A q \in 1..N : q \in S
  <2> HIDE DEF S, N
  <2> QED
    BY <1>1, <1>2, Induction
<1> QED
  BY <1>3
-----------------------------------------------------------------------------
(* Runs *)

LEMMA BranchRuns ==
  ASSUME NEW answers, NEW yes, NEW no
  PROVE  \A x : x \in Branch(answers, yes, no) <=>
           \E a \in answers : \E run \in IF a[2] THEN yes ELSE no : x = a[1] \o run
<1> DEFINE R(a) == IF a[2] THEN yes ELSE no
           B(a) == {a[1] \o run : run \in R(a)}
<1>1. Branch(answers, yes, no) = UNION {B(a) : a \in answers}
  BY Zenon DEF Branch
<1>2. \A x, a : x \in B(a) <=> \E run \in R(a) : x = a[1] \o run
  <2> HIDE DEF R
  <2> QED
    OBVIOUS
<1> HIDE DEF B
<1>3. \A x : x \in UNION {B(a) : a \in answers} <=> \E a \in answers : x \in B(a)
  OBVIOUS
<1> QED
  BY <1>1, <1>2, <1>3, Zenon

LEMMA ThenRuns ==
  ASSUME NEW A, NEW B
  PROVE  \A x : x \in Then(A, B) <=> \E a \in A, b \in B : x = a \o b
BY DEF Then

LEMMA LogsRuns ==
  ASSUME NEW answers
  PROVE  \A x : x \in Logs(answers) <=> \E a \in answers : x = a[1] \o << <<"log", a[2]>> >>
BY Zenon DEF Logs

LEMMA Traces ==
  /\ <<>> \in Trace
  /\ \A s, t \in Trace : s \o t \in Trace
  /\ \A s \in Trace : <<>> \o s = s
  /\ \A b \in BOOLEAN : << <<"log", b>> >> \in Trace
<1>1. \A S : /\ <<>> \in Seq(S)
             /\ \A s, t \in Seq(S) : s \o t \in Seq(S)
             /\ \A s \in Seq(S) : <<>> \o s = s
             /\ \A e \in S : <<e>> \in Seq(S)
  OBVIOUS
<1>2. \A b \in BOOLEAN : <<"log", b>> \in Event
  BY DEF Event
<1> HIDE DEF Event
<1> QED
  BY <1>1, <1>2 DEF Trace

LEMMA OperatorsOnTraces ==
  /\ \A answers \in SUBSET (Trace \X BOOLEAN), yes, no \in SUBSET Trace :
       Branch(answers, yes, no) \subseteq Trace
  /\ \A A, B \in SUBSET Trace : Then(A, B) \subseteq Trace
  /\ \A answers \in SUBSET (Trace \X BOOLEAN) : Logs(answers) \subseteq Trace
<1>1. ASSUME NEW answers \in SUBSET (Trace \X BOOLEAN), NEW yes \in SUBSET Trace,
             NEW no \in SUBSET Trace, NEW x \in Branch(answers, yes, no)
      PROVE  x \in Trace
  <2>1. PICK a \in answers : \E run \in IF a[2] THEN yes ELSE no : x = a[1] \o run
    BY BranchRuns
  <2>2. PICK run \in IF a[2] THEN yes ELSE no : x = a[1] \o run
    BY <2>1
  <2>3. a[1] \in Trace /\ run \in Trace
    BY <2>2
  <2> QED
    BY <2>2, <2>3, Traces
<1>2. ASSUME NEW A \in SUBSET Trace, NEW B \in SUBSET Trace, NEW x \in Then(A, B)
      PROVE  x \in Trace
  <2>1. PICK a \in A, b \in B : x = a \o b
    BY ThenRuns
  <2>2. a \in Trace /\ b \in Trace
    OBVIOUS
  <2> QED
    BY <2>1, <2>2, Traces
<1>3. ASSUME NEW answers \in SUBSET (Trace \X BOOLEAN), NEW x \in Logs(answers)
      PROVE  x \in Trace
  <2>1. PICK a \in answers : x = a[1] \o << <<"log", a[2]>> >>
    BY LogsRuns
  <2>2. a[1] \in Trace /\ << <<"log", a[2]>> >> \in Trace
    BY Traces
  <2> QED
    BY <2>1, <2>2, Traces
<1> QED
  BY <1>1, <1>2, <1>3

(* The answer of a test that is decided. *)
OnlyTrue == {<< <<>>, TRUE >>}
OnlyFalse == {<< <<>>, FALSE >>}

LEMMA OnlyYes ==
  ASSUME NEW yes \in SUBSET Trace, NEW no \in SUBSET Trace
  PROVE  Branch(OnlyTrue, yes, no) = yes
<1>1. \A run \in Trace : <<>> \o run = run
  BY Traces
<1>2. Branch(OnlyTrue, yes, no) = yes
  <2> DEFINE u == << <<>>, TRUE >>
             T == {u}
  <2>1. u[1] = <<>> /\ u[2] = TRUE
    OBVIOUS
  <2> HIDE DEF u
  <2>2. (IF u[2] THEN yes ELSE no) = yes /\ \A run \in yes : u[1] \o run = run
    BY <2>1, <1>1
  <2>3. \A x : x \in Branch(T, yes, no) <=>
                \E t \in T : \E run \in IF t[2] THEN yes ELSE no : x = t[1] \o run
    <3> HIDE DEF T
    <3> QED
      BY BranchRuns
  <2>4. ASSUME NEW x PROVE x \in Branch(T, yes, no) <=> x \in yes
    <3>1. ASSUME x \in Branch(T, yes, no) PROVE x \in yes
      <4>1. PICK t \in T : \E run \in IF t[2] THEN yes ELSE no : x = t[1] \o run
        BY <2>3, <3>1
      <4>2. t = u
        OBVIOUS
      <4>3. PICK run \in yes : x = u[1] \o run
        BY <2>2, <4>1, <4>2
      <4> QED
        BY <2>2, <4>3
    <3>2. ASSUME x \in yes PROVE x \in Branch(T, yes, no)
      <4>1. x = u[1] \o x /\ u \in T /\ x \in IF u[2] THEN yes ELSE no
        BY <2>2, <3>2
      <4> HIDE DEF T
      <4> QED
        BY <2>3, <4>1
    <3> QED
      BY <3>1, <3>2
  <2> QED
    BY <2>4 DEF T, u, OnlyTrue
<1> QED
  BY <1>2

LEMMA OnlyNo ==
  ASSUME NEW yes \in SUBSET Trace, NEW no \in SUBSET Trace
  PROVE  Branch(OnlyFalse, yes, no) = no
<1>1. \A run \in Trace : <<>> \o run = run
  BY Traces
<1>2. Branch(OnlyFalse, yes, no) = no
  <2> DEFINE u == << <<>>, FALSE >>
             T == {u}
  <2>1. u[1] = <<>> /\ u[2] = FALSE
    OBVIOUS
  <2> HIDE DEF u
  <2>2. (IF u[2] THEN yes ELSE no) = no /\ \A run \in no : u[1] \o run = run
    BY <2>1, <1>1
  <2>3. \A x : x \in Branch(T, yes, no) <=>
                \E t \in T : \E run \in IF t[2] THEN yes ELSE no : x = t[1] \o run
    <3> HIDE DEF T
    <3> QED
      BY BranchRuns
  <2>4. ASSUME NEW x PROVE x \in Branch(T, yes, no) <=> x \in no
    <3>1. ASSUME x \in Branch(T, yes, no) PROVE x \in no
      <4>1. PICK t \in T : \E run \in IF t[2] THEN yes ELSE no : x = t[1] \o run
        BY <2>3, <3>1
      <4>2. t = u
        OBVIOUS
      <4>3. PICK run \in no : x = u[1] \o run
        BY <2>2, <4>1, <4>2
      <4> QED
        BY <2>2, <4>3
    <3>2. ASSUME x \in no PROVE x \in Branch(T, yes, no)
      <4>1. x = u[1] \o x /\ u \in T /\ x \in IF u[2] THEN yes ELSE no
        BY <2>2, <3>2
      <4> HIDE DEF T
      <4> QED
        BY <2>3, <4>1
    <3> QED
      BY <3>1, <3>2
  <2> QED
    BY <2>4 DEF T, u, OnlyFalse
<1> QED
  BY <1>2

(* A node that does nothing is not seen in a list. *)
LEMMA NothingFirst ==
  ASSUME NEW yes \in SUBSET Trace
  PROVE  Then({<<>>}, yes) = yes
<1>1. \A run \in Trace : <<>> \o run = run
  BY Traces
<1>2. Then({<<>>}, yes) = yes
  <2> DEFINE e == <<>>
             T == {e}
  <2>1. \A run \in yes : e \o run = run
    BY <1>1
  <2> HIDE DEF e
  <2>2. \A x : x \in Then(T, yes) <=> \E a \in T, run \in yes : x = a \o run
    <3> HIDE DEF T
    <3> QED
      BY ThenRuns
  <2>3. ASSUME NEW x PROVE x \in Then(T, yes) <=> x \in yes
    <3>1. ASSUME x \in Then(T, yes) PROVE x \in yes
      <4>1. PICK a \in T, run \in yes : x = a \o run
        BY <2>2, <3>1
      <4> QED
        BY <2>1, <4>1
    <3>2. ASSUME x \in yes PROVE x \in Then(T, yes)
      <4>1. x = e \o x /\ e \in T
        BY <2>1, <3>2
      <4> HIDE DEF T
      <4> QED
        BY <2>2, <3>2, <4>1
    <3> QED
      BY <3>1, <3>2
  <2> QED
    BY <2>3 DEF T, e
<1> QED
  BY <1>2

LEMMA Contexts ==
  ASSUME NEW code, NEW list, NEW c \in Context
  PROVE  InBlock(code, list, c) \in Context /\ InFunction(code, list, c) \in Context
<1>1. \A d \in Context : InBlock(code, list, d) \in Context
  BY DEF InBlock, Context
<1>2. [meaning |-> [n \in Ident |-> IF n \in Vars(code, list) THEN "var" ELSE c.meaning[n]],
       receivers |-> c.receivers] \in Context
  BY DEF Context
<1> QED
  BY <1>1, <1>2 DEF InFunction
LEMMA CallsAreTraces ==
  ASSUME NEW n \in Ident, NEW c \in Context, NEW receiver \in BOOLEAN
  PROVE  Calls(n, c, receiver) \subseteq Trace
<1>1. c.meaning[n] \in Meaning
  BY DEF Context, Meaning
<1>2. <<"call", n, c.meaning[n], receiver>> \in Event
  BY <1>1 DEF Event
<1>3. \A S, e : e \in S => <<e>> \in Seq(S)
  OBVIOUS
<1> HIDE DEF Event
<1>4. << <<"call", n, c.meaning[n], receiver>> >> \in Trace
  BY <1>2, <1>3 DEF Trace
<1> QED
  BY <1>4 DEF Calls

LEMMA MadeIsTrace ==
  ASSUME NEW effect \in {"make", "callMade"}, NEW n \in Ident, NEW c \in Context
  PROVE  Made(effect, n, c) \in Trace
<1>1. c.meaning[n] \in Meaning
  BY DEF Context, Meaning
<1>2. <<effect, n, c.meaning[n]>> \in Event
  BY <1>1 DEF Event
<1>3. \A S, e : e \in S => <<e>> \in Seq(S)
  OBVIOUS
<1> HIDE DEF Event
<1> QED
  BY <1>2, <1>3 DEF Made, Trace

(* To evaluate only the branch that a decided switch takes.                *)
Lazy(eager) == ~eager

(* What the evaluation of p does, given that of its parts. *)
EvaluatesFrom(code, eager, trace, p, c) ==
  LET x == code[p]
      Value(i) == trace[x.parts[i]][c] IN
  CASE x.node = "made" -> Made("make", x.label, c)
    [] x.node = "switch" ->
         IF eager \/ x.label \notin {"first", "second"} THEN Value(1) \o Value(2)
         ELSE Value(IF x.label = "first" THEN 1 ELSE 2)
    [] OTHER -> <<>>

LEMMA EvaluatesFromParts ==
  ASSUME NEW code \in Code, NEW eager, NEW p \in 1..Len(code),
         NEW f, NEW g, NEW c \in Context,
         \A q \in 1..(p - 1) : f[q][c] \in Trace /\ f[q][c] = g[q][c]
  PROVE  /\ EvaluatesFrom(code, eager, f, p, c) \in Trace
         /\ EvaluatesFrom(code, eager, f, p, c) = EvaluatesFrom(code, eager, g, p, c)
<1> DEFINE x == code[p]
           E(h) == EvaluatesFrom(code, eager, h, p, c)
<1>1. CASE x.node = "made"
  <2>1. E(f) = Made("make", x.label, c) /\ E(g) = Made("make", x.label, c)
    BY <1>1 DEF EvaluatesFrom
  <2>2. x.label \in Ident
    BY <1>1, Shape DEF Labels, Naming
  <2> HIDE DEF x, E
  <2>3. Made("make", x.label, c) \in Trace
    BY <2>2, MadeIsTrace
  <2> QED
    BY <2>1, <2>3 DEF E
<1>2. CASE x.node = "switch"
  <2> DEFINE one == x.parts[IF x.label = "first" THEN 1 ELSE 2]
  <2>1. /\ x.parts[1] \in 1..(p - 1) /\ x.parts[2] \in 1..(p - 1)
        /\ one \in {x.parts[1], x.parts[2]}
    BY <1>2, Shape DEF Binary, Part
  <2>2. \A h : E(h) = IF eager \/ x.label \notin {"first", "second"}
                      THEN h[x.parts[1]][c] \o h[x.parts[2]][c] ELSE h[one][c]
    BY <1>2 DEF EvaluatesFrom
  <2>3. f[x.parts[1]][c] \o f[x.parts[2]][c] \in Trace
    BY <2>1, Traces
  <2>4. f[one][c] \in Trace /\ f[one][c] = g[one][c]
    BY <2>1
  <2> HIDE DEF one, E
  <2> QED
    BY <2>1, <2>2, <2>3, <2>4 DEF E
<1>3. CASE x.node \notin {"made", "switch"}
  <2>1. E(f) = <<>> /\ E(g) = <<>>
    BY <1>3 DEF EvaluatesFrom
  <2> QED
    BY <2>1, Traces
<1> QED
  BY <1>1, <1>2, <1>3

LEMMA EvaluatesEquation ==
  ASSUME NEW code \in Code, NEW eager, NEW p \in 1..Len(code), NEW c \in Context
  PROVE  /\ Evaluates(code, eager)[p][c] =
              EvaluatesFrom(code, eager, Evaluates(code, eager), p, c)
         /\ Evaluates(code, eager)[p][c] \in Trace
<1> DEFINE N == Len(code)
           V == [Context -> Trace]
           F == [1..N -> V]
           Value(f, q) == [d \in Context |-> EvaluatesFrom(code, eager, f, q, d)]
           H == [f \in F |-> [q \in 1..N |-> Value(f, q)]]
           f0 == [q \in 1..N |-> [d \in Context |-> <<>>]]
           Fix(f) == f = [q \in DOMAIN code |-> Value(f, q)]
           E == Evaluates(code, eager)
<1>1. N \in Nat /\ DOMAIN code = 1..N /\ f0 \in F
  BY CodeLength, Traces
<1>2. Converges(H, N, V)
  <2>1. ASSUME NEW f \in F, NEW q \in 1..N
        PROVE  \A r \in 1..(q - 1), d \in Context : f[r][d] \in Trace
    <3>1. \A r \in 1..(q - 1) : r \in 1..N
      BY <1>1
    <3> QED
      BY <3>1
  <2>2. ASSUME NEW f \in F, NEW q \in 1..N PROVE Value(f, q) \in V
    BY <2>1, EvaluatesFromParts
  <2>3. H \in [F -> F]
    BY <2>2
  <2>4. ASSUME NEW f \in F, NEW g \in F, NEW q \in 1..N,
               \A r \in 1..(q - 1) : f[r] = g[r]
        PROVE  H[f][q] = H[g][q]
    <3>1. \A r \in 1..(q - 1), d \in Context : f[r][d] = g[r][d]
      BY <2>4
    <3>2. ASSUME NEW d \in Context
          PROVE  EvaluatesFrom(code, eager, f, q, d) = EvaluatesFrom(code, eager, g, q, d)
      BY <2>1, <3>1, EvaluatesFromParts
    <3>3. Value(f, q) = Value(g, q)
      BY <3>2
    <3> QED
      BY <3>3
  <2> QED
    BY <2>3, <2>4 DEF Converges
<1>3. PICK f \in F : f = H[f]
  <2> HIDE DEF f0, H, V, N
  <2> QED
    BY <1>1, <1>2, Recursion
<1>4. Fix(f)
  BY <1>1, <1>3
<1>5. Evaluates(code, eager) = CHOOSE g : Fix(g)
  BY Zenon DEF Evaluates, EvaluatesFrom
<1>6. Fix(E)
  <2> HIDE DEF Fix
  <2> QED
    BY <1>4, <1>5
<1>7. \A q \in 1..N, d \in Context : E[q][d] = EvaluatesFrom(code, eager, E, q, d)
  <2>1. \A q \in 1..N : E[q] = Value(E, q)
    BY <1>1, <1>6
  <2> QED
    BY <2>1
<1>8. \A q \in 1..N : \A d \in Context : E[q][d] \in Trace
  <2> DEFINE S == {q \in 1..N : \A d \in Context : E[q][d] \in Trace}
  <2>1. ASSUME NEW q \in 1..N, \A r \in 1..(q - 1) : r \in S PROVE q \in S
    <3> HIDE DEF E
    <3>1. \A r \in 1..(q - 1), d \in Context : E[r][d] \in Trace
      BY <2>1
    <3> QED
      BY <1>7, <3>1, EvaluatesFromParts
  <2>2. \A q \in 1..N : q \in S
    <3> HIDE DEF S
    <3> QED
      BY <1>1, <2>1, Induction
  <2> QED
    BY <2>2
<1> QED
  BY <1>7, <1>8

(* The same, kind by kind. *)
LEMMA Evaluated ==
  ASSUME NEW code \in Code, NEW eager, NEW p \in 1..Len(code), NEW c \in Context
  PROVE  LET E == Evaluates(code, eager)
             x == code[p] IN
         /\ E[p][c] \in Trace
         /\ x.node = "made" => E[p][c] = Made("make", x.label, c)
         /\ Inlined(code, p) /\ Lazy(eager) => E[p][c] = E[Winner(code, p)][c]
         /\ x.node = "switch" /\ ~Inlined(code, p) =>
              E[p][c] = E[x.parts[1]][c] \o E[x.parts[2]][c]
BY EvaluatesEquation DEF EvaluatesFrom, Inlined, Winner, Lazy

LEMMA NothingEvaluated ==
  ASSUME NEW code \in Code, NEW eager, NEW p \in 1..Len(code), NEW c \in Context,
         code[p].node \notin {"made", "switch"}
  PROVE  Evaluates(code, eager)[p][c] = <<>>
BY EvaluatesEquation DEF EvaluatesFrom

(* The runs of p, given those of its parts. *)
RunsFrom(code, eager, runs, p, c) ==
  LET x == code[p]
      Run(i, d) == runs[x.parts[i]][d] IN
  CASE x.node \in {"ref", "member"} -> Calls(x.label, c, FALSE)
    [] x.node = "made" -> {Made("callMade", x.label, c)}
    [] x.node = "call" ->
         Then({Evaluates(code, eager)[x.parts[1]][c]},
              IF code[x.parts[1]].node = "member"
              THEN Calls(code[x.parts[1]].label, c, c.receivers) ELSE Run(1, c))
    [] x.node = "log" -> Logs(Answers(code)[x.parts[1]])
    [] x.node = "block" -> Run(1, InBlock(code, x.parts[1], c))
    [] x.node \in {"function", "new"} -> Run(1, InFunction(code, x.parts[1], c))
    [] x.node = "item" -> Then(Run(1, c), Run(2, c))
    [] x.node = "if" -> Branch(Answers(code)[x.parts[1]], Run(2, c), Run(3, c))
    [] x.node = "switch" -> Branch(Replies(x.label), Run(1, c), Run(2, c))
    [] OTHER -> {<<>>}

(* They depend on the parts only, and are traces if those of the parts are. *)
LEMMA RunsFromParts ==
  ASSUME NEW code \in Code, NEW eager, NEW p \in 1..Len(code),
         NEW f, NEW g, NEW c \in Context,
         \A q \in 1..(p - 1), d \in Context : f[q][d] \subseteq Trace /\ f[q][d] = g[q][d]
  PROVE  /\ RunsFrom(code, eager, f, p, c) \subseteq Trace
         /\ RunsFrom(code, eager, f, p, c) = RunsFrom(code, eager, g, p, c)
<1> DEFINE x == code[p]
           b == InBlock(code, x.parts[1], c)
           n == InFunction(code, x.parts[1], c)
           R(h) == RunsFrom(code, eager, h, p, c)
<1>1. b \in Context /\ n \in Context
  BY Contexts
<1>2. \A i \in DOMAIN x.parts : x.parts[i] \in 1..(p - 1) /\ x.parts[i] \in 1..Len(code)
  BY Shape, CodeLength
<1> HIDE DEF b, n
<1>3. CASE x.node \in {"ref", "member"}
  <2>1. x.label \in Ident
    BY <1>3, Shape DEF Labels, Naming
  <2>2. R(f) = Calls(x.label, c, FALSE) /\ R(g) = Calls(x.label, c, FALSE)
    BY <1>3 DEF RunsFrom
  <2>3. Calls(x.label, c, FALSE) \subseteq Trace
    BY <2>1, CallsAreTraces
  <2> QED
    BY <2>2, <2>3
<1>4. CASE x.node = "call"
  <2> DEFINE q == x.parts[1]
             made == {Evaluates(code, eager)[q][c]}
             calls == Calls(code[q].label, c, c.receivers)
  <2>1. q \in 1..(p - 1) /\ q \in 1..Len(code)
    BY <1>2, <1>4, Shape DEF Unary
  <2>2. made \subseteq Trace
    BY <2>1, EvaluatesEquation
  <2>3. code[q].node = "member" => calls \subseteq Trace
    <3>1. c.receivers \in BOOLEAN
      BY DEF Context
    <3>2. code[q].node = "member" => code[q].label \in Ident
      BY <2>1, Shape DEF Labels, Naming
    <3> QED
      BY <3>1, <3>2, CallsAreTraces
  <2>4. \A h : R(h) = Then(made, IF code[q].node = "member" THEN calls ELSE h[q][c])
    BY <1>4 DEF RunsFrom
  <2>5. f[q][c] \subseteq Trace /\ f[q][c] = g[q][c]
    BY <2>1
  <2> HIDE DEF made, calls, q, R
  <2> QED
    BY <2>2, <2>3, <2>4, <2>5, OperatorsOnTraces DEF R
<1>5. CASE x.node = "log"
  <2>1. Answers(code)[x.parts[1]] \in SUBSET (Trace \X BOOLEAN)
    <3>1. x.parts[1] \in 1..Len(code)
      BY <1>2, <1>5, Shape DEF Unary
    <3> QED
      BY <3>1, AnswersEquation
  <2>2. /\ R(f) = Logs(Answers(code)[x.parts[1]])
        /\ R(g) = Logs(Answers(code)[x.parts[1]])
    BY <1>5 DEF RunsFrom
  <2> QED
    BY <2>1, <2>2, OperatorsOnTraces
<1>6. CASE x.node \in {"block", "function", "new"}
  <2>1. x.parts[1] \in 1..(p - 1)
    BY <1>2, <1>6, Shape DEF Unary
  <2>2. /\ R(f) = f[x.parts[1]][IF x.node = "block" THEN b ELSE n]
        /\ R(g) = g[x.parts[1]][IF x.node = "block" THEN b ELSE n]
    BY <1>6 DEF b, n, RunsFrom
  <2> QED
    BY <1>1, <1>6, <2>1, <2>2
<1>7. CASE x.node = "item"
  <2>1. x.parts[1] \in 1..(p - 1) /\ x.parts[2] \in 1..(p - 1)
    BY <1>7, ItemParts
  <2>2. /\ R(f) = Then(f[x.parts[1]][c], f[x.parts[2]][c])
        /\ R(g) = Then(g[x.parts[1]][c], g[x.parts[2]][c])
    BY <1>7 DEF RunsFrom
  <2> QED
    BY <2>1, <2>2, OperatorsOnTraces
<1>8. CASE x.node = "if"
  <2>1. /\ x.parts[1] \in 1..Len(code)
        /\ x.parts[2] \in 1..(p - 1) /\ x.parts[3] \in 1..(p - 1)
    BY <1>2, <1>8, Shape DEF Ternary
  <2>2. Answers(code)[x.parts[1]] \in SUBSET (Trace \X BOOLEAN)
    BY <2>1, AnswersEquation
  <2>3. /\ R(f) = Branch(Answers(code)[x.parts[1]], f[x.parts[2]][c], f[x.parts[3]][c])
        /\ R(g) = Branch(Answers(code)[x.parts[1]], g[x.parts[2]][c], g[x.parts[3]][c])
    BY <1>8 DEF RunsFrom
  <2> QED
    BY <2>1, <2>2, <2>3, OperatorsOnTraces
<1>9. CASE x.node = "switch"
  <2>1. x.parts[1] \in 1..(p - 1) /\ x.parts[2] \in 1..(p - 1)
    BY <1>2, <1>9, Shape DEF Binary
  <2>2. Replies(x.label) \in SUBSET (Trace \X BOOLEAN)
    BY RepliesAtRuntime, RepliesAtOnce
  <2>3. /\ R(f) = Branch(Replies(x.label), f[x.parts[1]][c], f[x.parts[2]][c])
        /\ R(g) = Branch(Replies(x.label), g[x.parts[1]][c], g[x.parts[2]][c])
    BY <1>9 DEF RunsFrom
  <2> QED
    BY <2>1, <2>2, <2>3, OperatorsOnTraces
<1>10. CASE x.node = "made"
  <2> DEFINE call == Made("callMade", x.label, c)
  <2>1. R(f) = {call} /\ R(g) = {call}
    BY <1>10 DEF RunsFrom
  <2>2. call \in Trace
    <3>1. x.label \in Ident
      BY <1>10, Shape DEF Labels, Naming
    <3> HIDE DEF x
    <3> QED
      BY <3>1, MadeIsTrace
  <2> HIDE DEF call
  <2> QED
    BY <2>1, <2>2
<1>11. CASE x.node \in {"empty", "var", "let", "end", "is", "not", "literal"}
  <2>1. R(f) = {<<>>} /\ R(g) = {<<>>}
    BY <1>11 DEF RunsFrom
  <2> QED
    BY <2>1, Traces
<1>12. x.node \in {"ref", "member", "made", "call", "log", "block", "function", "new",
                   "item", "if", "switch", "empty", "var", "let", "end", "is", "not", "literal"}
  BY Shape DEF Kind, Statement, Single, Test, Callable, List
<1> QED
  <2> HIDE DEF x
  <2> QED
    BY <1>3, <1>4, <1>5, <1>6, <1>7, <1>8, <1>9, <1>10, <1>11, <1>12

LEMMA RunsEquation ==
  ASSUME NEW code \in Code, NEW eager, NEW p \in 1..Len(code), NEW c \in Context
  PROVE  /\ Runs(code, eager)[p][c] = RunsFrom(code, eager, Runs(code, eager), p, c)
         /\ Runs(code, eager)[p][c] \subseteq Trace
<1> DEFINE N == Len(code)
           V == [Context -> SUBSET Trace]
           F == [1..N -> V]
           Value(f, q) == [d \in Context |-> RunsFrom(code, eager, f, q, d)]
           H == [f \in F |-> [q \in 1..N |-> Value(f, q)]]
           f0 == [q \in 1..N |-> [d \in Context |-> {}]]
           Fix(f) == f = [q \in DOMAIN code |-> Value(f, q)]
<1>1. N \in Nat /\ DOMAIN code = 1..N /\ f0 \in F
  BY CodeLength
<1>2. Converges(H, N, V)
  <2>1. ASSUME NEW f \in F, NEW q \in 1..N
        PROVE  \A r \in 1..(q - 1), d \in Context : f[r][d] \subseteq Trace
    <3>1. \A r \in 1..(q - 1) : r \in 1..N
      BY <1>1
    <3> QED
      BY <3>1
  <2>2. ASSUME NEW f \in F, NEW q \in 1..N PROVE Value(f, q) \in V
    BY <2>1, RunsFromParts
  <2>3. H \in [F -> F]
    BY <2>2
  <2>4. ASSUME NEW f \in F, NEW g \in F, NEW q \in 1..N,
               \A r \in 1..(q - 1) : f[r] = g[r]
        PROVE  H[f][q] = H[g][q]
    <3>1. \A r \in 1..(q - 1), d \in Context : f[r][d] = g[r][d]
      BY <2>4
    <3>2. ASSUME NEW d \in Context
          PROVE  RunsFrom(code, eager, f, q, d) = RunsFrom(code, eager, g, q, d)
      <4>1. \A r \in 1..(q - 1), e \in Context : f[r][e] \subseteq Trace /\ f[r][e] = g[r][e]
        BY <2>1, <3>1
      <4> HIDE DEF F
      <4> QED
        BY <4>1, RunsFromParts
    <3>3. Value(f, q) = Value(g, q)
      BY <3>2
    <3> QED
      BY <3>3
  <2> QED
    BY <2>3, <2>4 DEF Converges
<1>3. PICK f \in F : f = H[f]
  <2> HIDE DEF f0, H, V, N
  <2> QED
    BY <1>1, <1>2, Recursion
<1>4. Fix(f)
  BY <1>1, <1>3
<1>5. Runs(code, eager) = CHOOSE g : Fix(g)
  BY Zenon DEF Runs, RunsFrom
<1>6. Fix(Runs(code, eager))
  <2> HIDE DEF Fix
  <2> QED
    BY <1>4, <1>5
<1>7. \A q \in 1..N, d \in Context :
        Runs(code, eager)[q][d] = RunsFrom(code, eager, Runs(code, eager), q, d)
  <2>1. \A q \in 1..N : Runs(code, eager)[q] = Value(Runs(code, eager), q)
    BY <1>1, <1>6
  <2> QED
    BY <2>1
<1>8. \A q \in 1..N : \A d \in Context : Runs(code, eager)[q][d] \subseteq Trace
  <2> DEFINE S == {q \in 1..N : \A d \in Context : Runs(code, eager)[q][d] \subseteq Trace}
  <2>1. ASSUME NEW q \in 1..N, \A r \in 1..(q - 1) : r \in S PROVE q \in S
    <3>1. \A r \in 1..(q - 1), d \in Context : Runs(code, eager)[r][d] \subseteq Trace
      BY <2>1
    <3> QED
      BY <1>7, <3>1, RunsFromParts
  <2>2. \A q \in 1..N : q \in S
    <3> HIDE DEF S
    <3> QED
      BY <1>1, <2>1, Induction
  <2> QED
    BY <2>2
<1> QED
  BY <1>7, <1>8
-----------------------------------------------------------------------------
(* What the visitor makes of code runs as the code *)

(* Contexts in which a method is called as any function. *)
Plain == {c \in Context : ~c.receivers}

LEMMA PlainContexts ==
  ASSUME NEW code, NEW list, NEW c \in Plain
  PROVE  InBlock(code, list, c) \in Plain /\ InFunction(code, list, c) \in Plain
BY Contexts DEF Plain, InBlock, InFunction

Called(n, c) == Calls(n, c, FALSE)

CalledMade(n, c) == {Made("callMade", n, c)}
Evaluation(code, eager, p, c) == {Evaluates(code, eager)[p][c]}

LEMMA RunsOfMade ==
  ASSUME NEW code \in Code, NEW eager, NEW p \in 1..Len(code), NEW c \in Plain,
         code[p].node = "made"
  PROVE  Runs(code, eager)[p][c] = CalledMade(code[p].label, c)
<1>1. c \in Context
  BY DEF Plain
<1>2. Runs(code, eager)[p][c] = RunsFrom(code, eager, Runs(code, eager), p, c)
  BY <1>1, RunsEquation
<1> QED
  BY <1>2 DEF RunsFrom, CalledMade

(* A call, of a method or not, does what its callee's value does.          *)
LEMMA RunsOfCalls ==
  ASSUME NEW code \in Code, NEW eager, NEW p \in 1..Len(code), NEW c \in Plain,
         code[p].node = "call"
  PROVE  Runs(code, eager)[p][c] = Then(Evaluation(code, eager, code[p].parts[1], c),
                                        Runs(code, eager)[code[p].parts[1]][c])
<1> DEFINE runs == Runs(code, eager)
           q == code[p].parts[1]
           made == Evaluation(code, eager, q, c)
<1>1. c \in Context /\ c.receivers = FALSE
  BY DEF Plain, Context
<1>2. runs[p][c] = RunsFrom(code, eager, runs, p, c)
  BY <1>1, RunsEquation
<1>3. q \in 1..Len(code)
  BY Shape, CodeLength DEF Unary, Part
<1>4. CASE code[q].node = "member"
  <2>1. runs[q][c] = RunsFrom(code, eager, runs, q, c)
    BY <1>1, <1>3, RunsEquation
  <2>2. RunsFrom(code, eager, runs, q, c) = Calls(code[q].label, c, FALSE)
    BY <1>4 DEF RunsFrom
  <2>3. RunsFrom(code, eager, runs, p, c) = Then(made, Calls(code[q].label, c, c.receivers))
    BY <1>4 DEF RunsFrom, Evaluation
  <2> HIDE DEF runs, made, q
  <2>4. runs[p][c] = Then(made, runs[q][c])
    BY <1>1, <1>2, <2>1, <2>2, <2>3
  <2> QED
    BY <2>4 DEF runs, made, q
<1>5. CASE code[q].node # "member"
  <2>1. RunsFrom(code, eager, runs, p, c) = Then(made, runs[q][c])
    BY <1>5 DEF RunsFrom, Evaluation
  <2> QED
    BY <1>2, <2>1
<1> QED
  BY <1>4, <1>5

LEMMA PlainRuns ==
  ASSUME NEW code \in Code, NEW eager, NEW p \in 1..Len(code), NEW c \in Plain
  PROVE  /\ Runs(code, eager)[p][c] \subseteq Trace
         /\ code[p].node \in {"ref", "member"} =>
              Runs(code, eager)[p][c] = Called(code[p].label, c)
         /\ code[p].node = "log" =>
              Runs(code, eager)[p][c] = Logs(Answers(code)[code[p].parts[1]])
         /\ code[p].node = "block" =>
              Runs(code, eager)[p][c] =
                Runs(code, eager)[code[p].parts[1]][InBlock(code, code[p].parts[1], c)]
         /\ code[p].node \in {"function", "new"} =>
              Runs(code, eager)[p][c] =
                Runs(code, eager)[code[p].parts[1]][InFunction(code, code[p].parts[1], c)]
         /\ code[p].node = "item" =>
              Runs(code, eager)[p][c] = Then(Runs(code, eager)[code[p].parts[1]][c],
                                             Runs(code, eager)[code[p].parts[2]][c])
         /\ code[p].node = "if" =>
              Runs(code, eager)[p][c] =
                Branch(Answers(code)[code[p].parts[1]], Runs(code, eager)[code[p].parts[2]][c],
                       Runs(code, eager)[code[p].parts[3]][c])
         /\ code[p].node = "switch" =>
              Runs(code, eager)[p][c] =
                Branch(Replies(code[p].label), Runs(code, eager)[code[p].parts[1]][c],
                       Runs(code, eager)[code[p].parts[2]][c])
         /\ code[p].node \in {"empty", "var", "let", "end", "is", "not", "literal"} =>
              Runs(code, eager)[p][c] = {<<>>}
<1>1. c \in Context
  BY DEF Plain
<1>2. /\ Runs(code, eager)[p][c] = RunsFrom(code, eager, Runs(code, eager), p, c)
      /\ Runs(code, eager)[p][c] \subseteq Trace
  BY <1>1, RunsEquation
<1> QED
  BY <1>2 DEF RunsFrom, Called

(* The if or the switch that goes runs as what takes its place. *)
LEMMA DecidedRuns ==
  ASSUME NEW code \in Code, NEW eager, NEW p \in 1..Len(code), NEW c \in Plain
  PROVE  LET runs == Runs(code, eager) IN
         /\ Removed(code, p) => runs[p][c] = runs[Taken(code, p)][c]
         /\ Inlined(code, p) => runs[p][c] = runs[Winner(code, p)][c]
<1> DEFINE runs == Runs(code, eager)
<1>1. ASSUME Removed(code, p) PROVE runs[p][c] = runs[Taken(code, p)][c]
  <2> DEFINE test == code[p].parts[1]
             yes == runs[code[p].parts[2]][c]
             no == runs[code[p].parts[3]][c]
  <2>1. code[p].node = "if" /\ TryEval(code)[test] # "unknown"
    BY <1>1 DEF Removed, Verdict
  <2>2. /\ test \in 1..Len(code) /\ code[test].node \in Test
        /\ code[p].parts[2] \in 1..Len(code) /\ code[p].parts[3] \in 1..Len(code)
    BY <2>1, Shape, CodeLength DEF Ternary, Part
  <2>3. yes \subseteq Trace /\ no \subseteq Trace
    BY <2>2, PlainRuns
  <2>4. runs[p][c] = Branch(Answers(code)[test], yes, no)
    BY <2>1, PlainRuns
  <2>5. CASE TryEval(code)[test] = "true"
    <3>1. Answers(code)[test] = OnlyTrue
      BY <2>1, <2>2, <2>5, Decided DEF OnlyTrue, OnlyFalse
    <3>2. Branch(OnlyTrue, yes, no) = yes
      <4> HIDE DEF yes, no
      <4> QED
        BY <2>3, OnlyYes
    <3>3. runs[p][c] = yes
      BY <2>4, <3>1, <3>2
    <3> QED
      BY <2>5, <3>3 DEF Taken, Verdict
  <2>6. CASE TryEval(code)[test] = "false"
    <3>1. Answers(code)[test] = OnlyFalse
      BY <2>1, <2>2, <2>6, Decided DEF OnlyTrue, OnlyFalse
    <3>2. Branch(OnlyFalse, yes, no) = no
      <4> HIDE DEF yes, no
      <4> QED
        BY <2>3, OnlyNo
    <3>3. runs[p][c] = no
      BY <2>4, <3>1, <3>2
    <3> QED
      BY <2>6, <3>3 DEF Taken, Verdict
  <2> QED
    BY <2>1, <2>2, <2>5, <2>6, TryEvalEquation
<1>2. ASSUME Inlined(code, p) PROVE runs[p][c] = runs[Winner(code, p)][c]
  <2> DEFINE yes == runs[code[p].parts[1]][c]
             no == runs[code[p].parts[2]][c]
  <2>1. code[p].node = "switch" /\ code[p].label \in {"first", "second"}
    BY <1>2 DEF Inlined
  <2>2. code[p].parts[1] \in 1..Len(code) /\ code[p].parts[2] \in 1..Len(code)
    BY <2>1, Shape, CodeLength DEF Binary, Part
  <2>3. yes \subseteq Trace /\ no \subseteq Trace
    BY <2>2, PlainRuns
  <2>4. runs[p][c] = Branch(Replies(code[p].label), yes, no)
    BY <2>1, PlainRuns
  <2>5. CASE code[p].label = "first"
    <3>1. Replies(code[p].label) = OnlyTrue
      BY <2>5, RepliesAtOnce DEF OnlyTrue, OnlyFalse
    <3>2. Branch(OnlyTrue, yes, no) = yes
      <4> HIDE DEF yes, no
      <4> QED
        BY <2>3, OnlyYes
    <3>3. runs[p][c] = yes
      BY <2>4, <3>1, <3>2
    <3> QED
      BY <2>5, <3>3 DEF Winner
  <2>6. CASE code[p].label = "second"
    <3>1. Replies(code[p].label) = OnlyFalse
      BY <2>6, RepliesAtOnce DEF OnlyTrue, OnlyFalse
    <3>2. Branch(OnlyFalse, yes, no) = no
      <4> HIDE DEF yes, no
      <4> QED
        BY <2>3, OnlyNo
    <3>3. runs[p][c] = no
      BY <2>4, <3>1, <3>2
    <3> QED
      BY <2>6, <3>3 DEF Winner
  <2> QED
    BY <2>1, <2>5, <2>6
<1> QED
  BY <1>1, <1>2

LEMMA ContextsKept ==
  ASSUME NEW code \in Code, NEW p \in 1..Len(code), NEW c
  PROVE  /\ InBlock(Rewrite(code), InPlace(code)[p], c) = InBlock(code, p, c)
         /\ InFunction(Rewrite(code), InPlace(code)[p], c) = InFunction(code, p, c)
<1>1. {"function", "new"} \in Opaque
  BY DEF Opaque
<1> QED
  BY <1>1, VarsKept, LetsKept DEF InBlock, InFunction, Vars

(* The visitor leaves of a decided switch what a lazy switch evaluates.    *)
LEMMA EvaluatesKept ==
  ASSUME NEW code \in Code, NEW eager, NEW lazy, Lazy(lazy),
         NEW p \in 1..Len(code), code[p].node \in Callable, NEW c \in Context
  PROVE  Evaluates(Rewrite(code), eager)[InPlace(code)[p]][c] = Evaluates(code, lazy)[p][c]
<1> DEFINE N == Len(code)
           out == Rewrite(code)
           at == InPlace(code)
           E == Evaluates(code, lazy)
           D == Evaluates(out, eager)
           Same(q) == code[q].node \in Callable => D[at[q]][c] = E[q][c]
           S == {q \in 1..N : Same(q)}
<1>1. out \in Code /\ Len(out) = N /\ N \in Nat
  BY RewriteIsCode, CodeLength
<1>2. ASSUME NEW q \in 1..N, \A r \in 1..(q - 1) : r \in S PROVE Same(q)
  <2> SUFFICES ASSUME code[q].node \in Callable PROVE D[at[q]][c] = E[q][c]
    OBVIOUS
  <2>1. \A r \in 1..(q - 1) : r \in 1..N /\ Same(r)
    BY <1>1, <1>2
  <2>2. CASE Stable(code, q) /\ at[q] = q
    <3> DEFINE x == code[q]
               y == out[q]
    <3>1. /\ \A i \in DOMAIN x.parts : y.parts[i] = at[x.parts[i]]
          /\ y.label = x.label
          /\ \A kind \in Kind \ {"is", "literal"} : y.node = kind <=> x.node = kind
      BY RewriteEquation, NothingToFold
    <3>2. /\ "made" \in Kind \ {"is", "literal"} /\ "switch" \in Kind \ {"is", "literal"}
          /\ ~Inlined(code, q)
      BY <2>2 DEF Kind, Callable, Stable
    <3>3. (y.node = "made" <=> x.node = "made") /\ (y.node = "switch" <=> x.node = "switch")
      BY <3>1, <3>2
    <3> HIDE DEF out, at
    <3>7. out \in Code /\ q \in 1..Len(out)
      BY <1>1
    <3>4. CASE x.node = "made"
      <4>1. E[q][c] = Made("make", x.label, c)
        BY <3>4, Evaluated
      <4>2. D[q][c] = Made("make", y.label, c)
        BY <3>3, <3>4, <3>7, Evaluated
      <4> QED
        BY <2>2, <3>1, <4>1, <4>2
    <3>5. CASE x.node = "switch"
      <4>1. /\ 1 \in DOMAIN x.parts /\ 2 \in DOMAIN x.parts
            /\ x.parts[1] \in 1..(q - 1) /\ code[x.parts[1]].node \in Callable
            /\ x.parts[2] \in 1..(q - 1) /\ code[x.parts[2]].node \in Callable
        BY <3>5, Shape DEF Binary, Part
      <4>2. E[q][c] = E[x.parts[1]][c] \o E[x.parts[2]][c]
        BY <3>2, <3>5, Evaluated
      <4>3. ~Inlined(out, q)
        BY <3>1, <3>2, <3>3, <3>5 DEF Inlined
      <4>4. D[q][c] = D[y.parts[1]][c] \o D[y.parts[2]][c]
        BY <3>3, <3>5, <3>7, <4>3, Evaluated
      <4>5. D[at[x.parts[1]]][c] = E[x.parts[1]][c] /\ D[at[x.parts[2]]][c] = E[x.parts[2]][c]
        BY <2>1, <4>1
      <4>6. y.parts[1] = at[x.parts[1]] /\ y.parts[2] = at[x.parts[2]]
        BY <3>1, <4>1
      <4> HIDE DEF x, y, D, E
      <4> QED
        BY <2>2, <4>2, <4>4, <4>5, <4>6
    <3>6. CASE x.node \notin {"made", "switch"}
      <4>1. E[q][c] = <<>>
        BY <3>6, NothingEvaluated
      <4>2. y.node \notin {"made", "switch"}
        BY <3>3, <3>6
      <4>3. D[q][c] = <<>>
        BY <3>7, <4>2, NothingEvaluated
      <4> QED
        BY <2>2, <4>1, <4>3
    <3> QED
      BY <3>4, <3>5, <3>6
  <2>3. CASE Inlined(code, q) /\ at[q] = at[Winner(code, q)]
    <3>1. Winner(code, q) \in 1..(q - 1) /\ code[Winner(code, q)].node \in Callable
      BY <2>3, Shape DEF Inlined, Winner, Binary, Part
    <3>2. E[q][c] = E[Winner(code, q)][c]
      BY <2>3, Evaluated
    <3>3. Same(Winner(code, q))
      BY <2>1, <3>1
    <3> HIDE DEF D, E, at
    <3> QED
      BY <2>3, <3>1, <3>2, <3>3
  <2>4. ~Removed(code, q) /\ code[q].node # "item"
    BY DEF Removed, Callable
  <2> QED
    BY <2>2, <2>3, <2>4, InPlaceCases
<1>3. \A q \in 1..N : q \in S
  <2>1. \A q \in 1..N : (\A r \in 1..(q - 1) : r \in S) => q \in S
    BY <1>2
  <2> HIDE DEF S, N
  <2> QED
    BY <1>1, <2>1, Induction
<1> QED
  BY <1>3

LEMMA RunsKept ==
  ASSUME NEW code \in Code, NEW eager, NEW lazy, Lazy(lazy),
         NEW p \in 1..Len(code), NEW c \in Plain
  PROVE  Runs(Rewrite(code), eager)[InPlace(code)[p]][c] = Runs(code, lazy)[p][c]
<1> DEFINE N == Len(code)
           out == Rewrite(code)
           at == InPlace(code)
           Same(q) == \A d \in Plain : Runs(out, eager)[at[q]][d] = Runs(code, lazy)[q][d]
           S == {q \in 1..N : Same(q)}
<1>1. out \in Code /\ Len(out) = N /\ N \in Nat
  BY RewriteIsCode, CodeLength
<1>2. ASSUME NEW q \in 1..N, \A r \in 1..(q - 1) : r \in S PROVE Same(q)
  <2> SUFFICES ASSUME NEW d \in Plain
               PROVE  Runs(out, eager)[at[q]][d] = Runs(code, lazy)[q][d]
    OBVIOUS
  <2>1. \A r \in 1..(q - 1) : r \in 1..N /\ Same(r)
    BY <1>1, <1>2
  <2>2. CASE Stable(code, q) /\ at[q] = q
    <3> DEFINE x == code[q]
               y == out[q]
    <3>1. /\ \A i \in DOMAIN x.parts : /\ x.parts[i] \in 1..(q - 1)
                                        /\ y.parts[i] = at[x.parts[i]]
          /\ y.label = x.label
          /\ \A kind \in Kind \ {"is", "literal"} : y.node = kind <=> x.node = kind
      BY RewriteEquation, Shape, NothingToFold
    <3> HIDE DEF out, at
    <3>2. CASE x.node \in {"ref", "member"}
      <4>1. y.node \in {"ref", "member"}
        BY <3>1, <3>2 DEF Kind, Callable
      <4> QED
        BY <1>1, <2>2, <3>1, <3>2, <4>1, PlainRuns
    <3>3. CASE x.node = "call"
      <4>1. /\ y.node = "call" /\ 1 \in DOMAIN x.parts
            /\ x.parts[1] \in 1..N /\ code[x.parts[1]].node \in Callable
        BY <2>1, <3>1, <3>3, Shape DEF Kind, Statement, Single, Unary, Part
      <4>2. Runs(out, eager)[q][d] = Then(Evaluation(out, eager, y.parts[1], d),
                                          Runs(out, eager)[y.parts[1]][d])
        BY <1>1, <4>1, RunsOfCalls
      <4>3. Runs(code, lazy)[q][d] = Then(Evaluation(code, lazy, x.parts[1], d),
                                          Runs(code, lazy)[x.parts[1]][d])
        BY <3>3, RunsOfCalls
      <4>4. Evaluation(out, eager, y.parts[1], d) = Evaluation(code, lazy, x.parts[1], d)
        <5>1. y.parts[1] = at[x.parts[1]] /\ d \in Context
          BY <3>1, <4>1 DEF Plain
        <5> QED
          BY <4>1, <5>1, EvaluatesKept DEF out, at, Evaluation
      <4>5. Runs(out, eager)[y.parts[1]][d] = Runs(code, lazy)[x.parts[1]][d]
        BY <2>1, <3>1, <4>1
      <4> HIDE DEF x, y
      <4> QED
        BY <2>2, <4>2, <4>3, <4>4, <4>5
    <3>4. CASE x.node = "log"
      <4>1. y.node = "log" /\ 1 \in DOMAIN x.parts /\ code[x.parts[1]].node \in Test
        BY <3>1, <3>4, Shape DEF Kind, Statement, Single, Unary, Part, Test
      <4>2. y.parts[1] = x.parts[1] /\ Answers(out)[x.parts[1]] = Answers(code)[x.parts[1]]
        BY <2>1, <3>1, <4>1, AnswersKept DEF out, at
      <4>3. Runs(out, eager)[q][d] = Logs(Answers(out)[y.parts[1]])
        BY <1>1, <4>1, PlainRuns
      <4>4. Runs(code, lazy)[q][d] = Logs(Answers(code)[x.parts[1]])
        BY <3>4, PlainRuns
      <4> QED
        BY <2>2, <4>2, <4>3, <4>4
    <3>5. CASE x.node = "block"
      <4>1. y.node = "block" /\ 1 \in DOMAIN x.parts
        BY <3>1, <3>5, Shape DEF Kind, Statement, Single, Unary
      <4>2. InBlock(out, y.parts[1], d) = InBlock(code, x.parts[1], d)
        BY <2>1, <3>1, <4>1, ContextsKept DEF out, at
      <4>3. Runs(out, eager)[q][d] =
              Runs(out, eager)[y.parts[1]][InBlock(out, y.parts[1], d)]
        BY <1>1, <4>1, PlainRuns
      <4>4. Runs(code, lazy)[q][d] =
              Runs(code, lazy)[x.parts[1]][InBlock(code, x.parts[1], d)]
        BY <3>5, PlainRuns
      <4>5. InBlock(code, x.parts[1], d) \in Plain
        BY PlainContexts
      <4> QED
        BY <2>1, <2>2, <3>1, <4>1, <4>2, <4>3, <4>4, <4>5
    <3>6. CASE x.node \in {"function", "new"}
      <4>1. y.node \in {"function", "new"} /\ 1 \in DOMAIN x.parts
        <5>1. {"function", "new"} \subseteq Kind \ {"is", "literal"}
          BY DEF Kind, Callable, Statement, Single
        <5>2. y.node \in {"function", "new"}
          BY <3>1, <3>6, <5>1
        <5> QED
          BY <3>6, <5>2, Shape DEF Unary
      <4>2. InFunction(out, y.parts[1], d) = InFunction(code, x.parts[1], d)
        BY <2>1, <3>1, <4>1, ContextsKept DEF out, at
      <4>3. Runs(out, eager)[q][d] =
              Runs(out, eager)[y.parts[1]][InFunction(out, y.parts[1], d)]
        BY <1>1, <4>1, PlainRuns
      <4>4. Runs(code, lazy)[q][d] =
              Runs(code, lazy)[x.parts[1]][InFunction(code, x.parts[1], d)]
        BY <3>6, PlainRuns
      <4>5. InFunction(code, x.parts[1], d) \in Plain
        BY PlainContexts
      <4> QED
        BY <2>1, <2>2, <3>1, <4>1, <4>2, <4>3, <4>4, <4>5
    <3>7. CASE x.node = "item"
      <4>1. y.node = "item" /\ 1 \in DOMAIN x.parts /\ 2 \in DOMAIN x.parts
        <5>1. "item" \in Kind \ {"is", "literal"}
          BY DEF Kind, List
        <5>2. y.node = "item"
          BY <3>1, <3>7, <5>1
        <5> QED
          BY <3>7, <5>2, Shape DEF Binary
      <4>2. Runs(out, eager)[q][d] = Then(Runs(out, eager)[y.parts[1]][d],
                                          Runs(out, eager)[y.parts[2]][d])
        BY <1>1, <4>1, PlainRuns
      <4>3. Runs(code, lazy)[q][d] = Then(Runs(code, lazy)[x.parts[1]][d],
                                          Runs(code, lazy)[x.parts[2]][d])
        BY <3>7, PlainRuns
      <4> QED
        BY <2>1, <2>2, <3>1, <4>1, <4>2, <4>3
    <3>8. CASE x.node = "if"
      <4>1. /\ y.node = "if"
            /\ 1 \in DOMAIN x.parts /\ 2 \in DOMAIN x.parts /\ 3 \in DOMAIN x.parts
            /\ x.parts[1] \in 1..N /\ code[x.parts[1]].node \in Test
        <5>1. "if" \in Kind \ {"is", "literal"}
          BY DEF Kind, Statement, Single
        <5>2. y.node = "if"
          BY <3>1, <3>8, <5>1
        <5>3. Ternary(code, q, Test, Single, Single)
          BY <3>8, Shape
        <5> QED
          BY <2>1, <5>2, <5>3 DEF Ternary, Part
      <4>2. y.parts[1] = x.parts[1] /\ Answers(out)[x.parts[1]] = Answers(code)[x.parts[1]]
        BY <2>1, <3>1, <4>1, AnswersKept DEF out, at
      <4>3. Runs(out, eager)[q][d] =
              Branch(Answers(out)[y.parts[1]],
                     Runs(out, eager)[y.parts[2]][d], Runs(out, eager)[y.parts[3]][d])
        BY <1>1, <4>1, PlainRuns
      <4>4. Runs(code, lazy)[q][d] =
              Branch(Answers(code)[x.parts[1]],
                     Runs(code, lazy)[x.parts[2]][d], Runs(code, lazy)[x.parts[3]][d])
        BY <3>8, PlainRuns
      <4>5. /\ Runs(out, eager)[y.parts[2]][d] = Runs(code, lazy)[x.parts[2]][d]
            /\ Runs(out, eager)[y.parts[3]][d] = Runs(code, lazy)[x.parts[3]][d]
        <5>1. ASSUME NEW i \in DOMAIN x.parts
              PROVE  Runs(out, eager)[y.parts[i]][d] = Runs(code, lazy)[x.parts[i]][d]
          BY <2>1, <3>1
        <5> QED
          BY <4>1, <5>1
      <4> HIDE DEF x, y
      <4> QED
        BY <2>2, <4>2, <4>3, <4>4, <4>5
    <3>9. CASE x.node = "switch"
      <4>1. y.node = "switch" /\ 1 \in DOMAIN x.parts /\ 2 \in DOMAIN x.parts
        <5>1. "switch" \in Kind \ {"is", "literal"}
          BY DEF Kind, Callable
        <5>2. y.node = "switch"
          BY <3>1, <3>9, <5>1
        <5> QED
          BY <3>9, <5>2, Shape DEF Binary
      <4>2. Runs(out, eager)[q][d] =
              Branch(Replies(y.label),
                     Runs(out, eager)[y.parts[1]][d], Runs(out, eager)[y.parts[2]][d])
        BY <1>1, <4>1, PlainRuns
      <4>3. Runs(code, lazy)[q][d] =
              Branch(Replies(x.label),
                     Runs(code, lazy)[x.parts[1]][d], Runs(code, lazy)[x.parts[2]][d])
        BY <3>9, PlainRuns
      <4> QED
        BY <2>1, <2>2, <3>1, <4>1, <4>2, <4>3
    <3>10. CASE x.node \in {"empty", "var", "let", "end", "is", "not", "literal"}
      <4>1. y.node \in {"empty", "var", "let", "end", "is", "not", "literal"}
        <5>1. y.node = IF Folded(code, q) THEN "literal" ELSE x.node
          BY RewriteEquation DEF out
        <5> QED
          BY <3>10, <5>1
      <4>2. Runs(out, eager)[q][d] = {<<>>}
        BY <1>1, <4>1, PlainRuns
      <4>3. Runs(code, lazy)[q][d] = {<<>>}
        BY <3>10, PlainRuns
      <4> QED
        BY <2>2, <4>2, <4>3
    <3>11. CASE x.node = "made"
      <4>1. y.node = "made" /\ y.label = x.label
        <5>1. "made" \in Kind \ {"is", "literal"}
          BY DEF Kind, Callable
        <5> QED
          BY <3>1, <3>11, <5>1
      <4>2. Runs(code, lazy)[q][d] = CalledMade(x.label, d)
        BY <3>11, RunsOfMade
      <4>3. Runs(out, eager)[q][d] = CalledMade(y.label, d)
        BY <1>1, <4>1, RunsOfMade
      <4> QED
        BY <2>2, <4>1, <4>2, <4>3
    <3>12. x.node \in {"ref", "member", "made", "call", "log", "block", "function", "new",
                       "item", "if", "switch", "empty", "var", "let", "end", "is", "not",
                       "literal"}
      BY Shape DEF Kind, Statement, Single, Test, Callable, List
    <3> HIDE DEF x, y
    <3> QED
      BY <3>2, <3>3, <3>4, <3>5, <3>6, <3>7, <3>8, <3>9, <3>10, <3>11, <3>12
  <2>3. CASE Removed(code, q) /\ at[q] = at[Taken(code, q)]
    <3>1. Taken(code, q) \in 1..(q - 1)
      BY <2>3, RemovedParts DEF Removed
    <3> QED
      BY <2>1, <2>3, <3>1, DecidedRuns
  <2>4. CASE Inlined(code, q) /\ at[q] = at[Winner(code, q)]
    <3>1. Winner(code, q) \in 1..(q - 1)
      BY <2>4, InlinedParts DEF Inlined
    <3> QED
      BY <2>1, <2>4, <3>1, DecidedRuns
  <2>5. CASE /\ code[q].node = "item"
             /\ code[at[code[q].parts[1]]].node = "empty"
             /\ at[q] = at[code[q].parts[2]]
    <3> DEFINE head == code[q].parts[1]
               rest == code[q].parts[2]
    <3>1. head \in 1..(q - 1) /\ rest \in 1..(q - 1)
      BY <2>5, ItemParts
    <3>2. at[head] \in 1..N /\ out[at[head]].node = "empty"
      <4>1. at[head] \in 1..N
        BY <2>1, <3>1, InPlaceEquation
      <4>2. "empty" \in Kind \ {"is", "literal"}
        BY DEF Kind, Statement, Single
      <4> QED
        BY <2>5, <4>1, <4>2, NothingToFold
    <3>3. Runs(code, lazy)[head][d] = {<<>>}
      <4> HIDE DEF out, at, N
      <4>1. Runs(out, eager)[at[head]][d] = {<<>>}
        BY <1>1, <3>2, PlainRuns
      <4> QED
        BY <2>1, <3>1, <4>1
    <3>4. Runs(code, lazy)[q][d] = Then(Runs(code, lazy)[head][d], Runs(code, lazy)[rest][d])
      BY <2>5, PlainRuns
    <3>5. Runs(code, lazy)[rest][d] \subseteq Trace
      BY <2>1, <3>1, PlainRuns
    <3>6. Runs(code, lazy)[q][d] = Runs(code, lazy)[rest][d]
      BY <3>3, <3>4, <3>5, NothingFirst
    <3> QED
      BY <2>1, <2>5, <3>1, <3>6
  <2> QED
    BY <2>2, <2>3, <2>4, <2>5, InPlaceCases
<1>3. \A q \in 1..N : q \in S
  <2>1. \A q \in 1..N : (\A r \in 1..(q - 1) : r \in S) => q \in S
    BY <1>2
  <2> HIDE DEF S, N
  <2> QED
    BY <1>1, <2>1, Induction
<1> QED
  BY <1>3

(* Code does not tell contexts apart that agree on its names. *)
Agree(code, p, c, d) ==
  \A n \in Ident : n \in Names(code, p) => c.meaning[n] = d.meaning[n]

LEMMA AgreeInside ==
  ASSUME NEW code \in Code, NEW p \in 1..Len(code), NEW c \in Plain, NEW d \in Plain,
         Agree(code, p, c, d), NEW q \in Parts(code, p)
  PROVE  /\ Agree(code, q, c, d)
         /\ Agree(code, q, InBlock(code, q, c), InBlock(code, q, d))
         /\ Agree(code, q, InFunction(code, q, c), InFunction(code, q, d))
<1>1. Agree(code, q, c, d)
  BY NamesEquation DEF Agree
<1>2. ASSUME NEW n \in Ident, n \in Names(code, q)
      PROVE  /\ InBlock(code, q, c).meaning[n] = InBlock(code, q, d).meaning[n]
             /\ InFunction(code, q, c).meaning[n] = InFunction(code, q, d).meaning[n]
  <2>1. c.meaning[n] = d.meaning[n]
    BY <1>1, <1>2 DEF Agree
  <2>2. \A e : InBlock(code, q, e).meaning[n] =
                 IF n \in Lets(code, q) THEN "let" ELSE e.meaning[n]
    BY DEF InBlock
  <2>3. \A e : InFunction(code, q, e).meaning[n] =
                 IF n \in Lets(code, q) THEN "let"
                 ELSE IF n \in Vars(code, q) THEN "var" ELSE e.meaning[n]
    BY DEF InFunction, InBlock
  <2> QED
    BY <2>1, <2>2, <2>3
<1> QED
  BY <1>1, <1>2 DEF Agree

LEMMA SameMade ==
  ASSUME NEW code \in Code, NEW p \in 1..Len(code), NEW c, NEW d, Agree(code, p, c, d),
         code[p].node \in {"ref", "member", "made"}
  PROVE  /\ Called(code[p].label, c) = Called(code[p].label, d)
         /\ \A effect : Made(effect, code[p].label, c) = Made(effect, code[p].label, d)
<1>1. code[p].label \in Ident /\ code[p].label \in Names(code, p)
  BY Shape, NamesEquation DEF Labels, Naming
<1>2. c.meaning[code[p].label] = d.meaning[code[p].label]
  BY <1>1 DEF Agree
<1> QED
  BY <1>2 DEF Called, Calls, Made

LEMMA EvaluatesByMeaning ==
  ASSUME NEW code \in Code, NEW eager, NEW p \in 1..Len(code),
         NEW c \in Plain, NEW d \in Plain, Agree(code, p, c, d)
  PROVE  Evaluates(code, eager)[p][c] = Evaluates(code, eager)[p][d]
<1> DEFINE N == Len(code)
           E == Evaluates(code, eager)
           Same(q) == Agree(code, q, c, d) => E[q][c] = E[q][d]
           S == {q \in 1..N : Same(q)}
<1>1. N \in Nat /\ c \in Context /\ d \in Context
  BY CodeLength DEF Plain
<1>2. ASSUME NEW q \in 1..N, \A r \in 1..(q - 1) : r \in S PROVE Same(q)
  <2> SUFFICES ASSUME Agree(code, q, c, d) PROVE E[q][c] = E[q][d]
    OBVIOUS
  <2> DEFINE x == code[q]
  <2>1. ASSUME NEW r \in Parts(code, q) PROVE E[r][c] = E[r][d]
    <3>1. Same(r)
      BY <1>2, Shape
    <3>2. Agree(code, r, c, d)
      BY AgreeInside
    <3> QED
      BY <3>1, <3>2
  <2>2. \A e \in Context : E[q][e] = EvaluatesFrom(code, eager, E, q, e)
    BY EvaluatesEquation
  <2> HIDE DEF E
  <2>3. CASE x.node = "made"
    <3>1. Made("make", x.label, c) = Made("make", x.label, d)
      BY <2>3, SameMade
    <3> QED
      BY <1>1, <2>2, <2>3, <3>1 DEF EvaluatesFrom
  <2>4. CASE x.node = "switch"
    <3>1. x.parts[1] \in Parts(code, q) /\ x.parts[2] \in Parts(code, q)
      BY <2>4, Shape DEF Binary
    <3>2. E[x.parts[1]][c] = E[x.parts[1]][d] /\ E[x.parts[2]][c] = E[x.parts[2]][d]
      BY <2>1, <3>1
    <3> QED
      BY <1>1, <2>2, <2>4, <3>2 DEF EvaluatesFrom
  <2>5. CASE x.node \notin {"made", "switch"}
    BY <1>1, <2>2, <2>5 DEF EvaluatesFrom
  <2> QED
    BY <2>3, <2>4, <2>5 DEF E
<1>3. \A q \in 1..N : q \in S
  <2>1. \A q \in 1..N : (\A r \in 1..(q - 1) : r \in S) => q \in S
    BY <1>2
  <2> HIDE DEF S, N
  <2> QED
    BY <1>1, <2>1, Induction
<1> QED
  BY <1>3

LEMMA RunsByMeaning ==
  ASSUME NEW code \in Code, NEW eager, NEW p \in 1..Len(code),
         NEW c \in Plain, NEW d \in Plain, Agree(code, p, c, d)
  PROVE  Runs(code, eager)[p][c] = Runs(code, eager)[p][d]
<1> DEFINE runs == Runs(code, eager)
           N == Len(code)
           Same(q) == \A a, b \in Plain :
                        Agree(code, q, a, b) => runs[q][a] = runs[q][b]
           S == {q \in 1..N : Same(q)}
<1>1. N \in Nat
  BY CodeLength
<1>2. ASSUME NEW q \in 1..N, \A r \in 1..(q - 1) : r \in S PROVE Same(q)
  <2> SUFFICES ASSUME NEW a \in Plain, NEW b \in Plain, Agree(code, q, a, b)
               PROVE  runs[q][a] = runs[q][b]
    OBVIOUS
  <2> DEFINE x == code[q]
             first == x.parts[1]
  <2>1. ASSUME NEW r \in Parts(code, q)
        PROVE  /\ runs[r][a] = runs[r][b]
               /\ runs[r][InBlock(code, r, a)] = runs[r][InBlock(code, r, b)]
               /\ runs[r][InFunction(code, r, a)] = runs[r][InFunction(code, r, b)]
    <3>1. Same(r)
      BY <1>2, Shape
    <3> HIDE DEF S, N
    <3>2. /\ Agree(code, r, a, b)
          /\ Agree(code, r, InBlock(code, r, a), InBlock(code, r, b))
          /\ Agree(code, r, InFunction(code, r, a), InFunction(code, r, b))
      BY AgreeInside DEF N
    <3>3. /\ InBlock(code, r, a) \in Plain /\ InBlock(code, r, b) \in Plain
          /\ InFunction(code, r, a) \in Plain /\ InFunction(code, r, b) \in Plain
      BY PlainContexts
    <3> QED
      BY <3>1, <3>2, <3>3
  <2>2. CASE x.node \in {"ref", "member"}
    <3>1. Called(x.label, a) = Called(x.label, b)
      BY <2>2, SameMade
    <3> QED
      BY <2>2, <3>1, PlainRuns
  <2>3. CASE x.node = "log"
    BY <2>3, PlainRuns
  <2>4. CASE x.node \in {"block", "function", "new"}
    <3>1. first \in Parts(code, q)
      BY <2>4, Shape DEF Unary
    <3> QED
      BY <2>1, <2>4, <3>1, PlainRuns
  <2>5. CASE x.node \in {"item", "switch"}
    <3>1. first \in Parts(code, q) /\ x.parts[2] \in Parts(code, q)
      BY <2>5, Shape DEF Binary
    <3> QED
      BY <2>1, <2>5, <3>1, PlainRuns
  <2>6. CASE x.node = "if"
    <3>1. x.parts[2] \in Parts(code, q) /\ x.parts[3] \in Parts(code, q)
      BY <2>6, Shape DEF Ternary
    <3> QED
      BY <2>1, <2>6, <3>1, PlainRuns
  <2>7. CASE x.node \in {"empty", "var", "let", "end", "is", "not", "literal"}
    <3>1. \A e \in Plain : runs[q][e] = {<<>>}
      BY <2>7, PlainRuns
    <3> QED
      BY <3>1
  <2>8. CASE x.node = "made"
    <3>1. CalledMade(x.label, a) = CalledMade(x.label, b)
      BY <2>8, SameMade DEF CalledMade
    <3> QED
      BY <2>8, <3>1, RunsOfMade
  <2>9. CASE x.node = "call"
    <3>1. first \in Parts(code, q) /\ first \in 1..N
      BY <2>9, Shape, CodeLength DEF Unary, Part
    <3>2. Agree(code, first, a, b)
      BY <3>1, AgreeInside
    <3>3. Evaluation(code, eager, first, a) = Evaluation(code, eager, first, b)
      BY <3>1, <3>2, EvaluatesByMeaning DEF Evaluation
    <3>4. runs[first][a] = runs[first][b]
      BY <2>1, <3>1
    <3>5. \A e \in Plain : runs[q][e] = Then(Evaluation(code, eager, first, e), runs[first][e])
      BY <2>9, RunsOfCalls
    <3> HIDE DEF first, runs
    <3>6. runs[q][a] = runs[q][b]
      BY <3>3, <3>4, <3>5
    <3> QED
      BY <3>6 DEF runs
  <2>10. x.node \in {"ref", "member", "made", "call", "log", "block", "function", "new",
                     "item", "if", "switch", "empty", "var", "let", "end", "is", "not",
                     "literal"}
    BY Shape DEF Kind, Statement, Single, Test, Callable, List
  <2> HIDE DEF x
  <2> QED
    BY <2>2, <2>3, <2>4, <2>5, <2>6, <2>7, <2>8, <2>9, <2>10
<1>3. \A q \in 1..N : q \in S
  <2>1. \A q \in 1..N : (\A r \in 1..(q - 1) : r \in S) => q \in S
    BY <1>2
  <2> HIDE DEF S, N
  <2> QED
    BY <1>1, <2>1, Induction
<1> QED
  BY <1>3

LEMMA QuietTraces ==
  /\ Quiet(<<>>)
  /\ \A s, t \in Trace : Quiet(s) /\ Quiet(t) => Quiet(s \o t)
  /\ \A b : Quiet(<< <<"log", b>> >>) /\ Quiet(<<Asks("runtime", b)>>)
  /\ \A n, c : /\ \A run \in Called(n, c) \cup CalledMade(n, c) : Quiet(run)
               /\ Quiet(Made("make", n, c))
<1>1. Quiet(<<>>)
  BY DEF Quiet
<1>2. ASSUME NEW s \in Trace, NEW t \in Trace, Quiet(s), Quiet(t) PROVE Quiet(s \o t)
  <2>1. /\ DOMAIN (s \o t) = 1..(Len(s) + Len(t))
        /\ \A i \in 1..(Len(s) + Len(t)) :
             (s \o t)[i] = IF i <= Len(s) THEN s[i] ELSE t[i - Len(s)]
        /\ DOMAIN s = 1..Len(s) /\ DOMAIN t = 1..Len(t)
        /\ Len(s) \in Nat /\ Len(t) \in Nat
    BY DEF Trace
  <2> SUFFICES ASSUME NEW i \in 1..(Len(s) + Len(t)) PROVE (s \o t)[i][1] # "error"
    BY <2>1 DEF Quiet
  <2>2. CASE i <= Len(s)
    BY <1>2, <2>1, <2>2 DEF Quiet
  <2>3. CASE i > Len(s)
    <3>1. i - Len(s) \in DOMAIN t
      BY <2>1, <2>3
    <3> QED
      BY <1>2, <2>1, <2>3, <3>1 DEF Quiet
  <2> QED
    BY <2>1, <2>2, <2>3
<1>3. ASSUME NEW e, e[1] # "error" PROVE Quiet(<<e>>)
  BY <1>3 DEF Quiet
<1>4. \A b : <<"log", b>>[1] # "error" /\ Asks("runtime", b)[1] # "error"
  BY DEF Asks
<1>5. \A n, m, b : <<"call", n, m, b>>[1] # "error"
  OBVIOUS
<1>6. \A n, c : \A run \in Called(n, c) : Quiet(run)
  BY <1>3, <1>5 DEF Called, Calls
<1>7. \A n, m : <<"make", n, m>>[1] # "error" /\ <<"callMade", n, m>>[1] # "error"
  OBVIOUS
<1>8. \A n, c : Quiet(Made("make", n, c)) /\ Quiet(Made("callMade", n, c))
  BY <1>3, <1>7 DEF Made
<1>9. \A n, c : \A run \in CalledMade(n, c) : Quiet(run)
  BY <1>8 DEF CalledMade
<1> QED
  BY <1>1, <1>2, <1>3, <1>4, <1>6, <1>8, <1>9

LEMMA QuietOperators ==
  /\ \A A, B \in SUBSET Trace :
       (\A a \in A : Quiet(a)) /\ (\A b \in B : Quiet(b)) => \A x \in Then(A, B) : Quiet(x)
  /\ \A answers \in SUBSET (Trace \X BOOLEAN) :
       (\A a \in answers : Quiet(a[1])) => \A x \in Logs(answers) : Quiet(x)
  /\ \A answers \in SUBSET (Trace \X BOOLEAN), yes, no \in SUBSET Trace :
       /\ \A a \in answers : Quiet(a[1])
       /\ \A run \in yes \cup no : Quiet(run)
       => \A x \in Branch(answers, yes, no) : Quiet(x)
<1>1. ASSUME NEW A \in SUBSET Trace, NEW B \in SUBSET Trace,
             \A a \in A : Quiet(a), \A b \in B : Quiet(b), NEW x \in Then(A, B)
      PROVE  Quiet(x)
  <2>1. PICK a \in A, b \in B : x = a \o b
    BY ThenRuns
  <2> QED
    BY <1>1, <2>1, QuietTraces
<1>2. ASSUME NEW answers \in SUBSET (Trace \X BOOLEAN), \A a \in answers : Quiet(a[1]),
             NEW x \in Logs(answers)
      PROVE  Quiet(x)
  <2>1. PICK a \in answers : x = a[1] \o << <<"log", a[2]>> >>
    BY LogsRuns
  <2>2. a[1] \in Trace /\ << <<"log", a[2]>> >> \in Trace
    BY Traces
  <2> QED
    BY <1>2, <2>1, <2>2, QuietTraces
<1>3. ASSUME NEW answers \in SUBSET (Trace \X BOOLEAN), \A a \in answers : Quiet(a[1]),
             NEW yes \in SUBSET Trace, NEW no \in SUBSET Trace,
             \A run \in yes \cup no : Quiet(run), NEW x \in Branch(answers, yes, no)
      PROVE  Quiet(x)
  <2>1. PICK a \in answers : \E run \in IF a[2] THEN yes ELSE no : x = a[1] \o run
    BY BranchRuns
  <2>2. PICK run \in IF a[2] THEN yes ELSE no : x = a[1] \o run
    BY <2>1
  <2>3. a[1] \in Trace /\ run \in Trace /\ Quiet(a[1]) /\ Quiet(run)
    BY <1>3, <2>2
  <2> QED
    BY <2>2, <2>3, QuietTraces
<1> QED
  BY <1>1, <1>2, <1>3

LEMMA QuietEvaluation ==
  ASSUME NEW code \in Code, NEW eager, NEW p \in 1..Len(code), NEW c \in Context
  PROVE  Quiet(Evaluates(code, eager)[p][c])
<1> DEFINE N == Len(code)
           E == Evaluates(code, eager)
           S == {q \in 1..N : Quiet(E[q][c])}
<1>1. N \in Nat
  BY CodeLength
<1>2. ASSUME NEW q \in 1..N, \A r \in 1..(q - 1) : r \in S PROVE Quiet(E[q][c])
  <2> DEFINE x == code[q]
             one == x.parts[IF x.label = "first" THEN 1 ELSE 2]
  <2>1. E[q][c] = EvaluatesFrom(code, eager, E, q, c)
    BY EvaluatesEquation
  <2>2. CASE x.node = "made"
    <3>1. E[q][c] = Made("make", x.label, c)
      BY <2>1, <2>2 DEF EvaluatesFrom
    <3> QED
      BY <3>1, QuietTraces
  <2>3. CASE x.node = "switch"
    <3>1. /\ x.parts[1] \in 1..(q - 1) /\ x.parts[2] \in 1..(q - 1)
          /\ x.parts[1] \in 1..N /\ x.parts[2] \in 1..N
      BY <1>1, <2>3, Shape DEF Binary, Part
    <3>2. \A i \in {1, 2} : Quiet(E[x.parts[i]][c]) /\ E[x.parts[i]][c] \in Trace
      BY <1>2, <3>1, EvaluatesEquation
    <3>3. E[q][c] \in {E[x.parts[1]][c] \o E[x.parts[2]][c],
                       E[x.parts[1]][c], E[x.parts[2]][c]}
      BY <2>1, <2>3 DEF EvaluatesFrom
    <3> HIDE DEF E, x
    <3>4. Quiet(E[x.parts[1]][c] \o E[x.parts[2]][c])
      BY <3>2, QuietTraces
    <3> QED
      BY <3>2, <3>3, <3>4
  <2>4. CASE x.node \notin {"made", "switch"}
    BY <2>4, NothingEvaluated, QuietTraces
  <2> QED
    BY <2>2, <2>3, <2>4
<1>3. \A q \in 1..N : q \in S
  <2>1. \A q \in 1..N : (\A r \in 1..(q - 1) : r \in S) => q \in S
    BY <1>2
  <2> HIDE DEF S, N
  <2> QED
    BY <1>1, <2>1, Induction
<1> QED
  BY <1>3

(* Code runs without an error unless the visitor comes to one. *)
LEMMA QuietRuns ==
  ASSUME NEW code \in Code, NEW eager, NEW p \in 1..Len(code), NEW c \in Plain,
         \A q \in Visited(code)[p] : ~IsError(code, q)
  PROVE  \A run \in Runs(code, eager)[p][c] : Quiet(run)
<1> DEFINE runs == Runs(code, eager)
           N == Len(code)
           Fine(q) == \A r \in Visited(code)[q] : ~IsError(code, r)
           Good(q) == Fine(q) => \A d \in Plain : \A run \in runs[q][d] : Quiet(run)
           S == {q \in 1..N : Good(q)}
<1>1. N \in Nat
  BY CodeLength
<1>2. ASSUME NEW q \in 1..N, \A r \in 1..(q - 1) : r \in S PROVE Good(q)
  <2> SUFFICES ASSUME Fine(q), NEW d \in Plain
               PROVE  \A run \in runs[q][d] : Quiet(run)
    OBVIOUS
  <2> DEFINE x == code[q]
             AllQuiet(R) == \A run \in R : Quiet(run)
  <2>1. ASSUME Removed(code, q) PROVE AllQuiet(runs[q][d])
    <3>1. Taken(code, q) \in 1..(q - 1)
      BY <2>1, RemovedParts DEF Removed
    <3>2. Visited(code)[Taken(code, q)] \subseteq Visited(code)[q]
      BY <2>1, VisitedEquation
    <3>3. AllQuiet(runs[Taken(code, q)][d])
      BY <1>2, <3>1, <3>2
    <3> QED
      BY <2>1, <3>3, DecidedRuns
  <2>2. ASSUME ~Removed(code, q), NEW r \in Parts(code, q)
        PROVE  /\ r \in 1..N
               /\ Fine(r)
               /\ \A e \in Plain : AllQuiet(runs[r][e]) /\ runs[r][e] \subseteq Trace
    <3>1. r \in 1..(q - 1) /\ r \in 1..N
      BY <2>2, Shape, <1>1
    <3>2. Visited(code)[r] \subseteq Visited(code)[q]
      BY <2>2, VisitedEquation
    <3>3. Fine(r)
      BY <3>2
    <3>4. \A e \in Plain : AllQuiet(runs[r][e])
      BY <1>2, <3>1, <3>3
    <3> QED
      BY <3>1, <3>3, <3>4, PlainRuns
  <2>3. ~IsError(code, q)
    BY VisitedEquation
  <2>4. CASE x.node \in {"ref", "member"}
    <3>1. runs[q][d] = Called(x.label, d)
      BY <2>4, PlainRuns
    <3> QED
      BY <3>1, QuietTraces
  <2>5. CASE x.node = "log"
    <3>1. ~Removed(code, q) /\ x.parts[1] \in Parts(code, q) /\ code[x.parts[1]].node \in Test
      BY <2>5, Shape DEF Removed, Unary, Part, Test
    <3>2. \A a \in Answers(code)[x.parts[1]] : Quiet(a[1])
      BY <2>2, <3>1, QuietAnswers
    <3>3. Answers(code)[x.parts[1]] \in SUBSET (Trace \X BOOLEAN)
      BY <2>2, <3>1, AnswersEquation
    <3>4. runs[q][d] = Logs(Answers(code)[x.parts[1]])
      BY <2>5, PlainRuns
    <3> QED
      BY <3>2, <3>3, <3>4, QuietOperators
  <2>6. CASE x.node \in {"block", "function", "new"}
    <3>1. ~Removed(code, q) /\ x.parts[1] \in Parts(code, q)
      BY <2>6, Shape DEF Removed, Unary
    <3>2. /\ InBlock(code, x.parts[1], d) \in Plain
          /\ InFunction(code, x.parts[1], d) \in Plain
      BY PlainContexts
    <3>3. \E e \in Plain : runs[q][d] = runs[x.parts[1]][e]
      BY <2>6, <3>2, PlainRuns
    <3> HIDE DEF x
    <3> QED
      BY <2>2, <3>1, <3>3
  <2>7. CASE x.node = "item"
    <3>1. /\ ~Removed(code, q)
          /\ x.parts[1] \in Parts(code, q) /\ x.parts[2] \in Parts(code, q)
      BY <2>7, Shape DEF Removed, Binary
    <3>2. runs[q][d] = Then(runs[x.parts[1]][d], runs[x.parts[2]][d])
      BY <2>7, PlainRuns
    <3> HIDE DEF x
    <3> QED
      BY <2>2, <3>1, <3>2, QuietOperators
  <2>8. CASE x.node = "switch"
    <3>1. /\ ~Removed(code, q)
          /\ x.parts[1] \in Parts(code, q) /\ x.parts[2] \in Parts(code, q)
      BY <2>8, Shape DEF Removed, Binary
    <3>2. runs[q][d] =
            Branch(Replies(x.label), runs[x.parts[1]][d], runs[x.parts[2]][d])
      BY <2>8, PlainRuns
    <3>3. x.label # "error"
      BY <2>3, <2>8 DEF IsError
    <3>4. /\ \A a \in Replies(x.label) : Quiet(a[1])
          /\ Replies(x.label) \in SUBSET (Trace \X BOOLEAN)
      BY <3>3, RepliesAtRuntime, RepliesAtOnce, QuietTraces
    <3> HIDE DEF x
    <3> QED
      BY <2>2, <3>1, <3>2, <3>4, QuietOperators
  <2>9. CASE x.node = "if" /\ ~Removed(code, q)
    <3>1. /\ x.parts[1] \in Parts(code, q) /\ code[x.parts[1]].node \in Test
          /\ x.parts[2] \in Parts(code, q) /\ x.parts[3] \in Parts(code, q)
      BY <2>9, Shape DEF Ternary, Part
    <3>2. runs[q][d] = Branch(Answers(code)[x.parts[1]],
                                    runs[x.parts[2]][d], runs[x.parts[3]][d])
      BY <2>9, PlainRuns
    <3>3. \A a \in Answers(code)[x.parts[1]] : Quiet(a[1])
      BY <2>2, <2>9, <3>1, QuietAnswers
    <3>4. Answers(code)[x.parts[1]] \in SUBSET (Trace \X BOOLEAN)
      BY <2>2, <2>9, <3>1, AnswersEquation
    <3> HIDE DEF x
    <3> QED
      BY <2>2, <2>9, <3>1, <3>2, <3>3, <3>4, QuietOperators
  <2>10. CASE x.node \in {"empty", "var", "let", "end", "is", "not", "literal"}
    <3>1. runs[q][d] = {<<>>}
      BY <2>10, PlainRuns
    <3> QED
      BY <3>1, QuietTraces
  <2>11. CASE x.node = "made"
    <3>1. runs[q][d] = CalledMade(x.label, d)
      BY <2>11, RunsOfMade
    <3> QED
      BY <3>1, QuietTraces
  <2>12. CASE x.node = "call"
    <3> DEFINE callee == x.parts[1]
               made == Evaluation(code, eager, callee, d)
    <3>1. ~Removed(code, q) /\ callee \in Parts(code, q)
      BY <2>12, Shape DEF Removed, Unary
    <3>2. runs[q][d] = Then(made, runs[callee][d])
      BY <2>12, RunsOfCalls
    <3>3. AllQuiet(made) /\ made \subseteq Trace
      <4>1. callee \in 1..N /\ d \in Context
        BY <2>2, <3>1 DEF Plain
      <4> QED
        BY <4>1, QuietEvaluation, EvaluatesEquation DEF Evaluation
    <3> HIDE DEF x, callee, made
    <3> QED
      BY <2>2, <3>1, <3>2, <3>3, QuietOperators
  <2>13. x.node \in {"ref", "member", "made", "call", "log", "block", "function", "new",
                     "item", "if", "switch", "empty", "var", "let", "end", "is", "not",
                     "literal"}
    BY Shape DEF Kind, Statement, Single, Test, Callable, List
  <2> HIDE DEF x
  <2> QED
    BY <2>1, <2>4, <2>5, <2>6, <2>7, <2>8, <2>9, <2>10, <2>11, <2>12, <2>13
<1>3. \A q \in 1..N : q \in S
  <2>1. \A q \in 1..N : (\A r \in 1..(q - 1) : r \in S) => q \in S
    BY <1>2
  <2> HIDE DEF S, N
  <2> QED
    BY <1>1, <2>1, Induction
<1> QED
  BY <1>3
-----------------------------------------------------------------------------
(* What is left of the ifs *)

LEMMA StableBelow ==
  ASSUME NEW code \in Code, NEW p \in 1..Len(code), Stable(code, p)
  PROVE  \A q \in Nodes(Rewrite(code))[p] : q \in 1..Len(code) /\ Stable(code, q)
<1> DEFINE out == Rewrite(code)
           N == Len(code)
           Good(r) == Stable(code, r) =>
                        \A q \in Nodes(out)[r] : q \in 1..N /\ Stable(code, q)
           S == {r \in 1..N : Good(r)}
<1>1. out \in Code /\ Len(out) = N /\ N \in Nat
  BY RewriteIsCode, CodeLength
<1>2. ASSUME NEW r \in 1..N, \A t \in 1..(r - 1) : t \in S PROVE Good(r)
  <2> SUFFICES ASSUME Stable(code, r), NEW q \in Nodes(out)[r]
               PROVE  q \in 1..N /\ Stable(code, q)
    OBVIOUS
  <2>1. q = r \/ \E t \in Parts(out, r) : q \in Nodes(out)[t]
    <3> HIDE DEF out
    <3> QED
      BY <1>1, NodesEquation
  <2>2. ASSUME NEW t \in Parts(out, r) PROVE t \in 1..(r - 1) /\ Stable(code, t)
    <3>1. PICK u \in Parts(code, r) : t = InPlace(code)[u]
      BY <2>2, RewriteParts
    <3>2. u \in 1..(r - 1) /\ u \in 1..Len(code)
      BY <1>1, <3>1, Shape
    <3> QED
      BY <3>1, <3>2, InPlaceFits
  <2> QED
    BY <1>2, <2>1, <2>2
<1>3. \A r \in 1..N : r \in S
  <2>1. \A r \in 1..N : (\A t \in 1..(r - 1) : t \in S) => r \in S
    BY <1>2
  <2> HIDE DEF S, N
  <2> QED
    BY <1>1, <2>1, Induction
<1> QED
  BY <1>3

(* An if that is decided and stays has a var in its dead branch that       *)
(* HoistedVarFinder takes for hoisted.                                     *)
LEMMA DeadBranch ==
  ASSUME NEW code \in Code, \A q \in DOMAIN code : code[q].node # "literal",
         NEW p \in 1..Len(code), Stable(code, p), NEW b \in BOOLEAN,
         Rewrite(code)[p].node = "if",
         Answers(Rewrite(code))[Rewrite(code)[p].parts[1]] = {<< <<>>, b >>}
  PROVE  HasHoistedVar(Rewrite(code), Rewrite(code)[p].parts[IF b THEN 3 ELSE 2])
<1> DEFINE out == Rewrite(code)
           test == code[p].parts[1]
           dead == IF b THEN 3 ELSE 2
<1>1. code[p].node = "if"
  <2>1. "if" \in Kind \ {"is", "literal"}
    BY DEF Kind, Statement, Single
  <2> QED
    BY <2>1, NothingToFold
<1>2. /\ test \in 1..Len(code) /\ code[test].node \in Test
      /\ DOMAIN code[p].parts = 1..3
  BY <1>1, Shape, CodeLength DEF Ternary, Part
<1>3. \A i \in 1..3 : out[p].parts[i] = InPlace(code)[code[p].parts[i]]
  BY <1>2, RewriteEquation
<1>4. Answers(code)[test] = {<< <<>>, b >>}
  <2>1. out[p].parts[1] = test
    BY <1>2, <1>3, AnswersKept
  <2> QED
    BY <1>2, <2>1, AnswersKept
<1>5. TryEval(code)[test] # "unknown"
  <2> SUFFICES ASSUME TryEval(code)[test] = "unknown" PROVE FALSE
    OBVIOUS
  <2>1. \E a \in Answers(code)[test] : a[1] # <<>>
    BY <1>2, CodeLength, Undecided
  <2>2. \A a \in {<< <<>>, b >>} : a[1] = <<>>
    OBVIOUS
  <2> QED
    BY <1>4, <2>1, <2>2
<1>6. b <=> TryEval(code)[test] = "true"
  <2>1. Answers(code)[test] = {<< <<>>, TryEval(code)[test] = "true" >>}
    BY <1>2, <1>5, Decided
  <2>2. \A a \in Answers(code)[test] : a[2] = b
    BY <1>4
  <2>3. \A a \in Answers(code)[test] : a[2] = (TryEval(code)[test] = "true")
    BY <2>1
  <2>4. \E a \in Answers(code)[test] : TRUE
    BY <1>4
  <2> QED
    BY <2>2, <2>3, <2>4
<1>7. HasHoistedVar(code, Dropped(code, p))
  BY <1>1, <1>5 DEF Stable, Removed, Verdict
<1>8. Dropped(code, p) = code[p].parts[dead]
  BY <1>6 DEF Dropped, Verdict
<1>9. code[p].parts[dead] \in 1..Len(code) /\ dead \in 1..3
  <2>1. dead \in 1..3
    BY DEF dead
  <2> HIDE DEF dead
  <2> QED
    BY <1>2, <2>1, Shape, CodeLength
<1> HIDE DEF dead
<1>10. HoistedVars(out, out[p].parts[dead]) = HoistedVars(code, code[p].parts[dead])
  <2>1. {"function"} \in Opaque
    BY DEF Opaque
  <2> QED
    BY <1>3, <1>9, <2>1, VarsKept DEF HoistedVars
<1> QED
  BY <1>7, <1>8, <1>10 DEF dead, HasHoistedVar
-----------------------------------------------------------------------------
(* The specification *)

(* The output is what the visitor makes of the source, and the rest is     *)
(* what it has found on the way.                                           *)
Pass ==
  /\ output = Rewrite(source)
  /\ errors = Errors(source, Len(source))
  /\ imports = IF DidTransform(source)
               THEN Cleaned(Names(output, Len(output)), Discarded(source, Len(source)))
               ELSE Import
  /\ phase = IF errors = {} THEN "built" ELSE "failed"

Before == phase = "source" /\ output = source /\ imports = Import /\ errors = {}

IInv == source \in Files /\ (Before \/ Pass)

LEMMA Inductive == Spec => []IInv
<1>1. Init => IInv
  BY DEF Init, IInv, Before
<1>2. IInv /\ [Next]_vars => IInv'
  <2> SUFFICES ASSUME IInv, [Next]_vars PROVE IInv'
    OBVIOUS
  <2>1. CASE VisitProgram
    <3>1. Pass'
      <4>1. imports = Import
        BY <2>1 DEF VisitProgram, IInv, Before, Pass
      <4> QED
        BY <2>1, <4>1 DEF VisitProgram, Pass
    <3>2. source' \in Files
      BY <2>1 DEF VisitProgram, IInv
    <3> QED
      BY <3>1, <3>2 DEF IInv
  <2>2. CASE UNCHANGED vars
    BY <2>2 DEF vars, IInv, Before, Pass
  <2> QED
    BY <2>1, <2>2 DEF Next
<1> QED
  BY <1>1, <1>2, PTL DEF Spec

LEMMA OfFiles ==
  ASSUME NEW code \in Files
  PROVE  /\ code \in Code
         /\ code[Len(code)].node = "function"
         /\ \A p \in DOMAIN code : code[p].node # "literal"
         /\ Len(code) \in 1..Len(code) /\ Len(code) \in Nat
         /\ Stable(code, Len(code)) /\ InPlace(code)[Len(code)] = Len(code)
<1>1. /\ code \in Code
      /\ code[Len(code)].node = "function"
      /\ \A p \in DOMAIN code : code[p].node # "literal"
  BY FilesAssumption
<1>2. Len(code) \in 1..Len(code) /\ Len(code) \in Nat
  BY <1>1, CodeLength
<1>3. Stable(code, Len(code))
  BY <1>1 DEF Stable, Removed, Inlined
<1>4. InPlace(code)[Len(code)] = Len(code)
  BY <1>1, <1>2, <1>3, InPlaceCases DEF Stable
<1> QED
  BY <1>1, <1>2, <1>3, <1>4

(* The output of a pass, whole. *)
LEMMA OfPass ==
  ASSUME source \in Files, Pass
  PROVE  /\ source \in Code /\ output \in Code
         /\ Len(output) = Len(source)
         /\ output[Len(output)].node = "function"
         /\ \A n : n \in Names(source, Len(source)) <=>
               n \in Names(output, Len(output)) \/ n \in Discarded(source, Len(source))
<1> DEFINE N == Len(source)
<1>1. source \in Code /\ N \in 1..N /\ InPlace(source)[N] = N /\ source[N].node = "function"
  BY OfFiles
<1>2. output \in Code /\ Len(output) = N /\ output = Rewrite(source)
  BY <1>1, RewriteIsCode DEF Pass
<1>3. output[N].node = "function"
  BY <1>1, <1>2, RewriteEquation DEF Folded
<1>4. \A n : n \in Names(source, N) <=> n \in Names(output, N) \/ n \in Discarded(source, N)
  BY <1>1, <1>2, NamesKept
<1> QED
  BY <1>1, <1>2, <1>3, <1>4

(* The visitor makes code of code, errors are positions of the source, and *)
(* imports are left of those there were.                                   *)
THEOREM TypeInvariant == Spec => []TypeOK
<1>1. IInv => TypeOK
  <2> SUFFICES ASSUME IInv PROVE TypeOK
    OBVIOUS
  <2>1. CASE Before
    <3>1. source \in Code /\ source[Len(source)].node = "function"
      BY OfFiles DEF IInv
    <3> QED
      BY <2>1, <3>1 DEF Before, TypeOK
  <2>2. CASE Pass
    <3>1. /\ source \in Code /\ output \in Code
          /\ Len(output) = Len(source)
          /\ output[Len(output)].node = "function"
      BY <2>2, OfPass DEF IInv
    <3>2. errors \subseteq DOMAIN source
      <4>1. Len(source) \in 1..Len(source) /\ DOMAIN source = 1..Len(source)
        BY <3>1, CodeLength
      <4>2. Visited(source)[Len(source)] \subseteq 1..Len(source)
        BY <3>1, <4>1, VisitedEquation
      <4> QED
        BY <2>2, <4>1, <4>2 DEF Pass, Errors
    <3>3. /\ DOMAIN imports \subseteq DOMAIN Import
          /\ \A d \in DOMAIN imports : imports[d] \subseteq Import[d]
      BY <2>2 DEF Pass, Cleaned
    <3>4. phase \in {"built", "failed"}
      BY <2>2 DEF Pass
    <3> QED
      BY <3>1, <3>2, <3>3, <3>4 DEF TypeOK
  <2> QED
    BY <2>1, <2>2 DEF IInv
<1> QED
  BY <1>1, Inductive, PTL

(* An import goes if and only if its name has gone from the code.          *)
LEMMA ImportsOfPass ==
  ASSUME source \in Files, Pass, NEW d \in DOMAIN Import
  PROVE  LET Stays(n) == \/ n \in Names(output, Len(output))
                         \/ n \notin Names(source, Len(source)) IN
         IF Import[d] = {} \/ \E n \in Import[d] : Stays(n)
         THEN d \in DOMAIN imports /\ imports[d] = {n \in Import[d] : Stays(n)}
         ELSE d \notin DOMAIN imports
<1> DEFINE used == Names(output, Len(output))
           old == Names(source, Len(source))
           gone == Discarded(source, Len(source))
           Stays(n) == n \in used \/ n \notin old
           Kept(e) == Import[e] \ (gone \ used)
           left == {n \in Import[d] : Stays(n)}
<1>1. \A n : n \in old <=> n \in used \/ n \in gone
  BY OfPass
<1>2. CASE DidTransform(source)
  <2>1. imports = Cleaned(used, gone)
    BY <1>2 DEF Pass
  <2>2. /\ DOMAIN imports = {e \in DOMAIN Import : Import[e] = {} \/ Kept(e) # {}}
        /\ \A e \in DOMAIN imports : imports[e] = Kept(e)
    BY <2>1 DEF Cleaned
  <2>3. Kept(d) = left
    <3> HIDE DEF used, old, gone
    <3> QED
      BY <1>1
  <2>4. left # {} <=> \E n \in Import[d] : Stays(n)
    OBVIOUS
  <2> HIDE DEF Kept, left, Stays
  <2>5. IF Import[d] = {} \/ \E n \in Import[d] : Stays(n)
        THEN d \in DOMAIN imports /\ imports[d] = left
        ELSE d \notin DOMAIN imports
    BY <2>2, <2>3, <2>4
  <2> QED
    BY <2>5 DEF left, Stays
<1>3. CASE ~DidTransform(source)
  <2>1. imports = Import
    BY <1>3 DEF Pass
  <2>2. gone = {}
    <3>1. \A q \in Visited(source)[Len(source)] : ~Removed(source, q) /\ ~Inlined(source, q)
      BY <1>3 DEF DidTransform
    <3> QED
      BY <3>1 DEF Discarded
  <2>3. \A n : Stays(n)
    <3> HIDE DEF used, old, gone
    <3> QED
      BY <1>1, <2>2
  <2>4. left = Import[d]
    <3> HIDE DEF Stays
    <3> QED
      BY <2>3
  <2> HIDE DEF Stays, left
  <2>5. IF Import[d] = {} \/ \E n \in Import[d] : Stays(n)
        THEN d \in DOMAIN imports /\ imports[d] = left
        ELSE d \notin DOMAIN imports
    BY <2>1, <2>3, <2>4
  <2> QED
    BY <2>5 DEF left, Stays
<1> QED
  BY <1>2, <1>3

(* cleanup_imports takes exactly the names that the visitor has removed    *)
(* the last use of, and a declaration with the last of its names.          *)
THEOREM Imports == Spec => []ImportsFollowTheCode
<1>1. IInv => ImportsFollowTheCode
  <2> SUFFICES ASSUME IInv, phase # "source" PROVE ImportsFollowTheCode
    BY DEF ImportsFollowTheCode
  <2>1. Pass /\ source \in Files
    BY DEF IInv, Before
  <2> QED
    BY <2>1, ImportsOfPass DEF ImportsFollowTheCode
<1> QED
  BY <1>1, Inductive, PTL

(* A name of the output means what it meant: its import is still there.    *)
LEMMA SameImports ==
  ASSUME source \in Files, Pass, NEW n, n \in Names(output, Len(output)), n \in Ident
  PROVE  FileScope(imports)[n] = FileScope(Import)[n]
<1>1. ASSUME NEW d \in DOMAIN Import, n \in Import[d]
      PROVE  d \in DOMAIN imports /\ n \in imports[d]
  BY <1>1, ImportsOfPass
<1>2. ASSUME NEW d \in DOMAIN imports, n \in imports[d]
      PROVE  d \in DOMAIN Import /\ n \in Import[d]
  BY <1>2 DEF Pass, Cleaned
<1>3. (\E d \in DOMAIN imports : n \in imports[d]) <=> (\E d \in DOMAIN Import : n \in Import[d])
  BY <1>1, <1>2
<1> QED
  BY <1>3 DEF FileScope

LEMMA FileContext ==
  ASSUME NEW decls
  PROVE  [meaning |-> FileScope(decls), receivers |-> FALSE] \in Plain
<1>1. FileScope(decls) \in [Ident -> {"let", "var", "import", "global"}]
  BY DEF FileScope
<1>2. [meaning |-> FileScope(decls), receivers |-> FALSE] \in Context
  BY <1>1 DEF Context
<1> QED
  BY <1>2 DEF Plain

(* The program that is built has the runs of the source, in which a        *)
(* decided switch evaluates only the branch it takes.                      *)
THEOREM SameRuns == Spec => []RunsAsWritten
<1>1. IInv => RunsAsWritten
  <2> SUFFICES ASSUME IInv, phase = "built"
               PROVE  ProgramRuns(output, imports, FALSE, TRUE) =
                        ProgramRuns(source, Import, FALSE, FALSE)
    BY DEF RunsAsWritten
  <2> DEFINE N == Len(source)
             eager == TRUE
             lazy == FALSE
             c == [meaning |-> FileScope(Import), receivers |-> FALSE]
             d == [meaning |-> FileScope(imports), receivers |-> FALSE]
  <2>1. Pass /\ source \in Files
    BY DEF IInv, Before
  <2>2. /\ source \in Code /\ output \in Code /\ Len(output) = N
        /\ N \in 1..N /\ InPlace(source)[N] = N /\ output = Rewrite(source)
    BY <2>1, OfPass, OfFiles DEF Pass
  <2>3. c \in Plain /\ d \in Plain
    BY FileContext
  <2>4. Agree(output, N, d, c)
    BY <2>1, <2>2, SameImports DEF Agree
  <2>7. Lazy(lazy)
    BY DEF Lazy
  <2> HIDE DEF c, d, eager, lazy
  <2>5. Runs(output, eager)[N][c] = Runs(source, lazy)[N][c]
    BY <2>2, <2>3, <2>7, RunsKept
  <2>6. Runs(output, eager)[N][d] = Runs(output, eager)[N][c]
    BY <2>2, <2>3, <2>4, RunsByMeaning
  <2> QED
    BY <2>2, <2>5, <2>6 DEF ProgramRuns, c, d, eager, lazy
<1> QED
  BY <1>1, Inductive, PTL

(* No program that is built comes to a call in error.                      *)
THEOREM NoError == Spec => []NoErrorAtRuntime
<1>1. IInv => NoErrorAtRuntime
  <2> SUFFICES ASSUME IInv, phase = "built",
                      NEW run \in ProgramRuns(source, Import, FALSE, TRUE)
               PROVE  Quiet(run)
    BY DEF NoErrorAtRuntime, Quiet
  <2> DEFINE N == Len(source)
             c == [meaning |-> FileScope(Import), receivers |-> FALSE]
             eager == TRUE
  <2>1. Pass /\ source \in Files
    BY DEF IInv, Before
  <2>2. source \in Code /\ N \in 1..N
    BY <2>1, OfFiles
  <2>3. c \in Plain
    BY FileContext
  <2>4. run \in Runs(source, eager)[N][c]
    BY DEF ProgramRuns
  <2> HIDE DEF c, eager
  <2>5. \A q \in Visited(source)[N] : ~IsError(source, q)
    BY <2>1 DEF Pass, Errors, IsError
  <2> QED
    BY <2>2, <2>3, <2>4, <2>5, QuietRuns
<1> QED
  BY <1>1, Inductive, PTL

(* A second pass over the output changes nothing.                          *)
THEOREM OnePass == Spec => []OnePassIsEnough
<1>1. IInv => OnePassIsEnough
  <2> SUFFICES ASSUME IInv, phase # "source"
               PROVE  Rewrite(output) = output /\ ~DidTransform(output)
    BY DEF OnePassIsEnough
  <2>1. Pass /\ source \in Files
    BY DEF IInv, Before
  <2>2. source \in Code /\ source[Len(source)].node = "function" /\ output = Rewrite(source)
    BY <2>1, OfFiles DEF Pass
  <2> QED
    BY <2>2, RewriteTwice, NothingToTransform
<1> QED
  BY <1>1, Inductive, PTL

(* A branch that is dead and stays has a var in it and not in a function.  *)
THEOREM DeadCode == Spec => []OnlyVarsKeepDeadCode
<1>1. IInv => OnlyVarsKeepDeadCode
  <2> SUFFICES ASSUME IInv, phase # "source",
                      NEW p \in Nodes(output)[Len(output)], NEW b \in BOOLEAN,
                      output[p].node = "if",
                      Answers(output)[output[p].parts[1]] = {<< <<>>, b >>}
               PROVE  HasHoistedVar(output, output[p].parts[IF b THEN 3 ELSE 2])
    BY DEF OnlyVarsKeepDeadCode
  <2>1. Pass /\ source \in Files
    BY DEF IInv, Before
  <2>2. /\ source \in Code /\ output = Rewrite(source) /\ Len(output) = Len(source)
        /\ Len(source) \in 1..Len(source) /\ Stable(source, Len(source))
        /\ \A q \in DOMAIN source : source[q].node # "literal"
    BY <2>1, OfFiles, OfPass DEF Pass
  <2>3. p \in 1..Len(source) /\ Stable(source, p)
    BY <2>2, StableBelow
  <2> QED
    BY <2>2, <2>3, DeadBranch
<1> QED
  BY <1>1, Inductive, PTL
=============================================================================
