-------------------------- MODULE MCCompiledCalls --------------------------
(* Two groups, one with two values and one with a single value, and a      *)
(* misspelt value; two calls, in any order.                                *)
EXTENDS CompiledCalls

CONSTANTS platform, runtime, desktop, mobile, client, typo

MCSite == 1..2

MCGroupOf ==
  [v \in {desktop, mobile, client, typo} |->
     CASE v \in {desktop, mobile} -> platform
       [] v = client -> runtime
       [] OTHER -> Absent]

Is(names) == [kind |-> "is", literal |-> TRUE, names |-> names]
Switch(names) == [kind |-> "switch", literal |-> TRUE, names |-> names]

(* A call of every outcome: refused as dynamic, misspelt, mixed, or without*)
(* a branch; folded or kept.                                               *)
Samples ==
  {[Is(<<desktop>>) EXCEPT !.literal = FALSE], Is(<<typo>>), Is(<<client>>),
   Switch(<<desktop, client>>), Switch(<<mobile>>),
   Switch(<<desktop, Default>>)}

(* What RuntimeHelpers has as Call, all of it.  (A constant cannot be given *)
(* a value by an operator of the instance that it is a parameter of.)      *)
Names(S) == UNION {[1..n -> S] : n \in 0..MaxNames}

Calls ==
  [kind: {"is"}, literal: BOOLEAN, names: Names(Name)] \cup
  {c \in [kind: {"switch"}, literal: BOOLEAN,
          names: Names(Name \cup {Default})] : IsInjective(c.names)}

(* Any call before, and any call after, each of the samples. *)
MCPrograms ==
  {p \in [MCSite -> Calls] : p[1] \in Samples \/ p[2] \in Samples}
=============================================================================
