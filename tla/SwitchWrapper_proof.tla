------------------------- MODULE SwitchWrapper_proof -------------------------
(***************************************************************************)
(* Theorems about SwitchWrapper, for any branches, properties and values.  *)
(* Whether the engine throws depends on the attributes of the target's     *)
(* properties; TypeOK says how a property can have come by them.           *)
(***************************************************************************)
EXTENDS SwitchWrapper, TLAPS

Attributes == [value: Val \cup {Undefined}, writable: BOOLEAN,
               configurable: BOOLEAN]

LEMMA AttributesOK ==
  /\ None \in Attributes /\ None.writable
  /\ \A v \in Val : /\ Open(v) \in Attributes
                    /\ Sealed(v) \in Attributes
                    /\ Frozen(v) \in Attributes
                    /\ Open(v).configurable
                    /\ Sealed(v).writable
BY DEF Attributes, None, Open, Sealed, Frozen

(* What no step but a write, a deletion or a switch of conditions changes. *)
LEMMA KeepOK ==
  ASSUME TypeOK, NEW op \in Trapped \cup {"none", "delete", "describe", "keys"},
         NEW a, Keep(op, a)
  PROVE  TypeOK'
BY DEF TypeOK, Keep, Answer, Trapped, IsFrozen, IsSealed

LEMMA InitTypeOK == Init => TypeOK
<1> SUFFICES ASSUME Init PROVE TypeOK
  OBVIOUS
<1>1. PICK v \in Val : target = [p \in Prop |->
        IF kind = "function" /\ p = Prototype THEN Sealed(v) ELSE None]
  BY DEF Init
<1>2. target \in [Prop -> Attributes]
  BY <1>1, AttributesOK
<1>3. \A p \in Prop : kind = "object" => target[p] = None
  BY <1>1
<1>4. \A p \in Prop : target[p].writable
  BY <1>1 DEF None, Sealed
<1> QED
  BY <1>2, <1>3, <1>4 DEF Init, TypeOK, Attributes, IsFrozen, IsSealed, Trapped

(* A write or a definition of p. *)
LEMMA WriteOK ==
  ASSUME TypeOK, NEW p \in Prop, NEW a \in Attributes,
         target' = target \/ target' = [target EXCEPT ![p] = a],
         written' = written \cup {p},
         last'.op \in {"set", "define"},
         UNCHANGED <<kind, conditions, branches, active, extensible>>
  PROVE  TypeOK'
<1>1. target' \in [Prop -> Attributes]
  BY DEF TypeOK, Attributes
<1>2. \A q \in Prop : q = p \/ target'[q] = target[q]
  BY DEF TypeOK
<1>3. \A q \in Prop : kind = "object" /\ target'[q] # None => q \in written'
  BY <1>2 DEF TypeOK
<1>4. \A q \in Prop : IsFrozen(q)' => q \in written'
  BY <1>2 DEF TypeOK, IsFrozen, IsSealed
<1>5. written' \subseteq Prop /\ "set" \in Trapped'
  BY DEF TypeOK, Trapped
<1> QED
  BY <1>1, <1>3, <1>4, <1>5 DEF TypeOK, Attributes

LEMMA SetOnObjectOK ==
  ASSUME TypeOK, NEW p \in Prop, NEW v \in Val, SetOnObject(p, v)
  PROVE  TypeOK'
<1> DEFINE a == IF Here(p) = Undefined THEN Open(v)
                ELSE IF target[p] = None THEN Frozen(v)
                ELSE [value |-> v, writable |-> target[p].writable,
                      configurable |-> TRUE]
<1>1. a \in Attributes
  BY AttributesOK DEF TypeOK, Attributes
<1>2. target' = target \/ target' = [target EXCEPT ![p] = a]
  BY DEF SetOnObject, TypeOK
<1>3. last'.op = "set"
  BY DEF SetOnObject, Answer
<1> HIDE DEF a
<1> QED
  BY <1>1, <1>2, <1>3, WriteOK DEF SetOnObject

LEMMA SetOnFunctionOK ==
  ASSUME TypeOK, NEW p \in Prop, NEW v \in Val, SetOnFunction(p, v)
  PROVE  TypeOK'
<1> DEFINE a == [value |-> v, writable |-> TRUE,
                 configurable |-> target[p].configurable]
<1>1. a \in Attributes
  BY DEF TypeOK, Attributes
<1>2. target' = target \/ target' = [target EXCEPT ![p] = a]
  BY DEF SetOnFunction, TypeOK
<1>3. last'.op = "set"
  BY DEF SetOnFunction, Answer
<1> HIDE DEF a
<1> QED
  BY <1>1, <1>2, <1>3, WriteOK DEF SetOnFunction

LEMMA DefineOK ==
  ASSUME TypeOK, NEW p \in Prop, NEW descriptor \in Descriptor,
         DefineProperty(p, descriptor)
  PROVE  TypeOK'
<1>1. descriptor \in Attributes
  BY DEF Descriptor, Attributes
<1>2. last'.op = "define"
  BY DEF DefineProperty, Answer
<1> QED
  BY <1>1, <1>2, WriteOK DEF DefineProperty

LEMMA DeleteOK ==
  ASSUME TypeOK, NEW p \in Prop,
         DeleteFromObject(p) \/ DeleteFromFunction(p)
  PROVE  TypeOK'
<1>1. CASE DeleteFromObject(p)
  <2>1. branches' \in [Branch -> [Prop -> Val \cup {Undefined}]]
    BY <1>1 DEF TypeOK, DeleteFromObject
  <2> QED
    BY <1>1, <2>1
    DEF TypeOK, DeleteFromObject, Answer, Trapped, IsFrozen, IsSealed
<1>2. CASE DeleteFromFunction(p)
  <2>1. target' \in [Prop -> Attributes]
    BY <1>2, AttributesOK DEF TypeOK, DeleteFromFunction, Attributes
  <2>2. \A q \in Prop : IsFrozen(q)' => q \in written'
    BY <1>2, AttributesOK DEF TypeOK, DeleteFromFunction, IsFrozen, IsSealed
  <2> QED
    BY <1>2, <2>1, <2>2
    DEF TypeOK, DeleteFromFunction, Answer, Attributes, Trapped
<1> QED
  BY <1>1, <1>2

LEMMA NextTypeOK ==
  ASSUME TypeOK, [Next]_vars
  PROVE  TypeOK'
<1>1. CASE SwitchContext
  BY <1>1 DEF SwitchContext, TypeOK, Trapped, IsFrozen, IsSealed
<1>2. ASSUME NEW op \in Trapped, Fail(op)
      PROVE  TypeOK'
  BY <1>2, KeepOK DEF Fail
<1>3. ASSUME NEW p \in Prop,
             Get(p) \/ Has(p) \/ DescribeOfObject(p) \/ DescribeOfFunction(p)
      PROVE  TypeOK'
  BY <1>3, KeepOK
  DEF Get, Has, DescribeOfObject, DescribeOfFunction, Trapped
<1>4. ASSUME NEW p \in Prop, NEW v \in Val,
             SetOnObject(p, v) \/ SetOnFunction(p, v)
      PROVE  TypeOK'
  BY <1>4, SetOnObjectOK, SetOnFunctionOK
<1>5. ASSUME NEW p \in Prop, DeleteFromObject(p) \/ DeleteFromFunction(p)
      PROVE  TypeOK'
  BY <1>5, DeleteOK
<1>6. CASE KeysOfObject \/ KeysOfFunction \/ Call \/ GetPrototypeOf
  <2>1. (Call => "call" \in Trapped) /\ "getPrototypeOf" \in Trapped
    BY DEF Call, Trapped
  <2> QED
    BY <1>6, <2>1, KeepOK DEF KeysOfObject, KeysOfFunction, Call, GetPrototypeOf
<1>7. CASE PreventExtensions
  BY <1>7 DEF PreventExtensions, Answer, TypeOK, Trapped, IsFrozen, IsSealed
<1>8. CASE UNCHANGED vars
  BY <1>8 DEF vars, TypeOK, Trapped, IsFrozen, IsSealed
<1>9. ASSUME NEW p \in Prop, NEW descriptor \in Descriptor,
             DefineProperty(p, descriptor)
      PROVE  TypeOK'
  BY <1>9, DefineOK
<1> QED
  BY <1>1, <1>2, <1>3, <1>4, <1>5, <1>6, <1>7, <1>8, <1>9 DEF Next

(* Type correctness, for any branches, properties and values; a property   *)
(* of an object wrapper's target comes from a write or a definition, and   *)
(* so does a frozen one of any.                                            *)
THEOREM TypeInvariant == Spec => []TypeOK
<1>1. TypeOK /\ [Next]_vars => TypeOK'
  BY NextTypeOK
<1> QED
  BY <1>1, InitTypeOK, PTL DEF Spec

-----------------------------------------------------------------------------

(* A read through the wrapper answers what the branch of the moment holds. *)
(* It throws only if the property is frozen on the target, which only a    *)
(* write or a definition through the wrapper does.                         *)
THEOREM Reads == Spec => ReadsFollowTheBranch
<1>1. ASSUME TypeOK, NEW p \in Prop, Get(p)
      PROVE  \/ last'.answer = Here(p)
             \/ last'.answer = TypeError /\ p \in written
  <2>1. IsFrozen(p) => p \in written
    BY <1>1 DEF TypeOK
  <2> QED
    BY <1>1, <2>1 DEF Get, Keep, Answer
<1>2. TypeOK /\ [Next]_vars =>
        [\A p \in Prop :
           Get(p) => \/ last'.answer = Here(p)
                     \/ last'.answer = TypeError /\ p \in written]_vars
  BY <1>1
<1> QED
  BY <1>2, TypeInvariant, PTL DEF Spec, ReadsFollowTheBranch

-----------------------------------------------------------------------------

(* As long as nobody writes or defines through an object wrapper its       *)
(* target has no properties, and while it is extensible, too, nothing the  *)
(* engine checks against it can fail.                                      *)
LEMMA Unsealed ==
  ASSUME TypeOK, kind = "object", written = {}, NEW p \in Prop
  PROVE  ~IsSealed(p) /\ ~IsFixed(p)
BY DEF TypeOK, IsSealed, IsFixed, None

LEMMA StepWritesBreak ==
  ASSUME TypeOK, OnlyWritesBreakObjects, [Next]_vars
  PROVE  OnlyWritesBreakObjects'
<1> SUFFICES ASSUME kind' = "object", written' = {}, extensible'
             PROVE  last'.answer # TypeError
  BY DEF OnlyWritesBreakObjects
<1>1. kind = "object" /\ written = {} /\ extensible
  <2>1. kind' = kind /\ written \subseteq written' /\ (extensible' => extensible)
    BY DEF Next, vars, SwitchContext, Fail, Keep, Get, Has, SetOnObject,
           SetOnFunction, DeleteFromObject, DeleteFromFunction,
           DescribeOfObject, DescribeOfFunction, KeysOfObject, KeysOfFunction,
           Call, GetPrototypeOf, PreventExtensions, DefineProperty
  <2> QED
    BY <2>1
<1>2. CASE SwitchContext \/ UNCHANGED vars
  BY <1>1, <1>2 DEF SwitchContext, vars, OnlyWritesBreakObjects
<1>3. ASSUME NEW op \in Trapped, Fail(op)
      PROVE  last'.answer # TypeError
  BY <1>3, WrapperAssumption DEF Fail, Keep, Answer
<1>4. ASSUME NEW p \in Prop, Get(p) \/ Has(p) \/ DescribeOfObject(p)
      PROVE  last'.answer # TypeError
  <2>1. ~IsSealed(p) /\ ~IsFrozen(p) /\ ~IsFixed(p)
    BY <1>1, Unsealed DEF IsFrozen
  <2>2. Resolved \in Branch
    BY <1>4 DEF Get, Has, DescribeOfObject, Resolved, TypeOK
  <2>3. Here(p) \in Val \cup {Undefined}
    BY <2>2 DEF Here, TypeOK
  <2>4. TypeError \notin Val \cup {Undefined} \cup BOOLEAN
    BY WrapperAssumption
  <2>5. CASE Get(p)
    BY <2>1, <2>3, <2>4, <2>5 DEF Get, Keep, Answer
  <2>6. CASE Has(p)
    <3>1. last'.answer = (Here(p) # Undefined)
      BY <2>1, <2>6 DEF Has, Keep, Answer
    <3>2. (Here(p) # Undefined) \in BOOLEAN
      OBVIOUS
    <3> QED
      BY <2>4, <3>1, <3>2
  <2>7. CASE DescribeOfObject(p)
    BY <1>1, <2>1, <2>3, <2>4, <2>7 DEF DescribeOfObject, Keep, Answer
  <2> QED
    BY <1>4, <2>5, <2>6, <2>7
<1>5. ASSUME NEW p \in Prop, NEW v \in Val,
             SetOnObject(p, v) \/ SetOnFunction(p, v)
      PROVE  FALSE
  BY <1>5 DEF SetOnObject, SetOnFunction
<1>6. ASSUME NEW p \in Prop, DeleteFromObject(p)
      PROVE  last'.answer # TypeError
  BY <1>1, <1>6, Unsealed, WrapperAssumption DEF DeleteFromObject, Answer
<1>7. CASE KeysOfObject
  <2>1. ~\E p \in Prop : IsFixed(p)
    BY <1>1, Unsealed
  <2> QED
    BY <1>1, <1>7, <2>1, WrapperAssumption DEF KeysOfObject, Keep, Answer
<1>8. ASSUME NEW p \in Prop, DeleteFromFunction(p) \/ DescribeOfFunction(p)
      PROVE  FALSE
  BY <1>1, <1>8 DEF DeleteFromFunction, DescribeOfFunction
<1>9. CASE GetPrototypeOf
  <2>1. Resolved \in Branch
    BY <1>9 DEF GetPrototypeOf, Resolved, TypeOK
  <2> QED
    BY <1>1, <1>9, <2>1, WrapperAssumption DEF GetPrototypeOf, Keep, Answer
<1>10. ~KeysOfFunction /\ ~Call /\ ~PreventExtensions
  BY <1>1 DEF KeysOfFunction, Call, PreventExtensions
<1>11. ASSUME NEW p \in Prop, NEW descriptor \in Descriptor,
              DefineProperty(p, descriptor)
       PROVE  FALSE
  BY <1>11 DEF DefineProperty
<1> QED
  BY <1>2, <1>3, <1>4, <1>5, <1>6, <1>7, <1>8, <1>9, <1>10, <1>11 DEF Next

(* Every operation on an object wrapper through which nobody has written   *)
(* or defined, and that nobody has made not extensible, answers: the       *)
(* engine never throws because of the target.                              *)
THEOREM WritesBreak == Spec => []OnlyWritesBreakObjects
<1>1. Init => OnlyWritesBreakObjects
  BY WrapperAssumption DEF Init, OnlyWritesBreakObjects
<1>2. TypeOK /\ OnlyWritesBreakObjects /\ [Next]_vars => OnlyWritesBreakObjects'
  BY StepWritesBreak
<1> QED
  BY <1>1, <1>2, TypeInvariant, PTL DEF Spec

-----------------------------------------------------------------------------

LEMMA DeleteAnswers ==
  ASSUME NEW p, DeleteFromObject(p), ~IsFixed(p)
  PROVE  last'.answer # TypeError
BY WrapperAssumption DEF DeleteFromObject, Answer

(* A frozen property of the target was written or defined, and of an       *)
(* object wrapper every property the target has; no check on one property  *)
(* looks at another.                                                       *)
LEMMA StepWritesBreakTheirs ==
  ASSUME TypeOK, NEW p \in Prop, kind = "object",
         Get(p) \/ Has(p) \/ DeleteFromObject(p),
         last'.answer = TypeError
  PROVE  p \in written
<1>1. CASE Get(p)
  <2>1. Resolved \in Branch
    BY <1>1 DEF Get, Resolved, TypeOK
  <2>2. Here(p) # TypeError
    BY <2>1, WrapperAssumption DEF Here, TypeOK
  <2>3. IsFrozen(p)
    BY <1>1, <2>2 DEF Get, Keep, Answer
  <2> QED
    BY <2>3 DEF TypeOK
<1>2. CASE Has(p) \/ DeleteFromObject(p)
  <2>1. IsFixed(p) => p \in written
    BY DEF TypeOK, IsFixed
  <2>2. TypeError \notin BOOLEAN
    BY WrapperAssumption
  <2>3. CASE Has(p)
    <3>1. IsFixed(p) \/ last'.answer = (Here(p) # Undefined)
      BY <2>3 DEF Has, Keep, Answer
    <3>2. (Here(p) # Undefined) \in BOOLEAN
      OBVIOUS
    <3> QED
      BY <2>1, <2>2, <3>1, <3>2
  <2>4. CASE DeleteFromObject(p)
    BY <2>1, <2>4, DeleteAnswers
  <2> QED
    BY <1>2, <2>3, <2>4
<1> QED
  BY <1>1, <1>2

(* Whatever was written, defined or frozen, an object wrapper can be read, *)
(* asked for, and deleted from under every other name.                     *)
THEOREM WritesBreakTheirs == Spec => WritesBreakTheirProperty
<1>1. TypeOK /\ [Next]_vars =>
        [\A p \in Prop :
           /\ kind = "object"
           /\ Get(p) \/ Has(p) \/ DeleteFromObject(p)
           /\ last'.answer = TypeError
           => p \in written]_vars
  BY StepWritesBreakTheirs
<1> QED
  BY <1>1, TypeInvariant, PTL DEF Spec, WritesBreakTheirProperty
=============================================================================
