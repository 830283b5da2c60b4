---------------------------- MODULE SwitchWrapper ----------------------------
(***************************************************************************)
(* The wrapper that switchBuildCondition returns at runtime                *)
(* (src/switchBuildCondition.ts): a Proxy whose traps act on the branch of *)
(* the moment, over a target object that is never the branch.  What the    *)
(* engine does around a trap is the ECMAScript specification: a trap's     *)
(* answer must agree with the properties of the target that cannot be      *)
(* reconfigured, with all of them once the target is not extensible, and   *)
(* an operation without a trap acts on the target.                         *)
(*                                                                         *)
(* Branch properties are plain data properties.  The names `length` and    *)
(* `name` of a function wrapper are left out, and so is Object.setProto-   *)
(* typeOf, which has no trap and changes the target's.                     *)
(***************************************************************************)
CONSTANTS
  Key,        \* the keys of the argument of switchBuildCondition
  Branch,     \* the objects, or functions, that may be under them
  Prop,       \* property names
  Prototype,  \* the one a function has from birth, not configurable
  Val,
  ParentOf,     \* branch -> its prototype object
  TargetParent, \* the prototype object of an object's, a function's target
  Undefined,  \* the value of a missing property
  NoKey,      \* no key matches and there is no default, or nothing is set
  TypeError,  \* thrown by the engine
  Unresolved  \* thrown by resolve

ASSUME WrapperAssumption ==
  /\ Prototype \in Prop
  /\ Val # {}
  /\ NoKey \notin Key
  /\ {Undefined, TypeError, Unresolved} \cap (Val \cup BOOLEAN) = {}
  /\ TypeError \notin {Undefined, Unresolved}
  /\ \A keys \in SUBSET Prop : TypeError # keys
  /\ \A b \in Branch : TypeError # ParentOf[b]

VARIABLES
  kind,     \* "object" or "function"
  conditions, \* key -> branch; two keys may hold the same
  branches, \* branch -> property -> value
  active,   \* the key resolve finds
  target,   \* own properties of the target, and which attributes they have
  extensible, \* nobody has called Object.preventExtensions or freeze
  last,     \* the last operation through the wrapper and its answer
  written   \* properties ever written or defined through the wrapper

vars == <<kind, conditions, branches, active, target, extensible, last,
          written>>

None == [value |-> Undefined, writable |-> TRUE, configurable |-> TRUE]

Descriptor == [value: Val, writable: BOOLEAN, configurable: BOOLEAN]

Open(v) == [value |-> v, writable |-> TRUE, configurable |-> TRUE]
Sealed(v) == [value |-> v, writable |-> TRUE, configurable |-> FALSE]
Frozen(v) == [value |-> v, writable |-> FALSE, configurable |-> FALSE]

(* Mutant: one kind of wrapper, always over a function. *)
InitOneTarget ==
  /\ kind \in {"object", "function"}
  /\ conditions \in [Key -> Branch]
  /\ branches \in [Branch -> [Prop -> Val \cup {Undefined}]]
  /\ active \in Key \cup {NoKey}
  /\ \E v \in Val : target = [p \in Prop |->
       IF p = Prototype THEN Sealed(v) ELSE None]
  /\ extensible = TRUE
  /\ last = [op |-> "none", answer |-> Undefined]
  /\ written = {}

Init ==
  /\ kind \in {"object", "function"}
  /\ conditions \in [Key -> Branch]
  /\ branches \in [Branch -> [Prop -> Val \cup {Undefined}]]
  /\ active \in Key \cup {NoKey}
  /\ \E v \in Val : target = [p \in Prop |->
       IF kind = "function" /\ p = Prototype THEN Sealed(v) ELSE None]
  /\ extensible = TRUE
  /\ last = [op |-> "none", answer |-> Undefined]
  /\ written = {}

(* The branch of the moment, and a property of it. *)
Resolved == conditions[active]
Here(p) == branches[Resolved][p]

IsSealed(p) == ~target[p].configurable
IsFrozen(p) == IsSealed(p) /\ ~target[p].writable

(* No trap may deny that the target has p. *)
IsFixed(p) == target[p] # None /\ (IsSealed(p) \/ ~extensible)

Answer(op, answer) == last' = [op |-> op, answer |-> answer]

Keep(op, answer) ==
  /\ Answer(op, answer)
  /\ UNCHANGED <<kind, conditions, branches, active, target, extensible,
                 written>>

SwitchContext ==
  /\ active' \in Key \cup {NoKey}
  /\ UNCHANGED <<kind, conditions, branches, target, extensible, last, written>>

(* resolve() throws inside the trap.  A function wrapper has only the      *)
(* first four of them, and is called, too.                                 *)
Trapped == {"get", "has", "set", "getPrototypeOf"} \cup
           IF kind = "object" THEN {"delete", "describe", "keys"} ELSE {"call"}

Fail(op) ==
  /\ op \in Trapped
  /\ active = NoKey
  /\ Keep(op, Unresolved)

(* Mutant: a property the target happens to have hides the branch's.       *)
GetShadowed(p) ==
  /\ active # NoKey
  /\ Keep("get", IF target[p] # None THEN target[p].value ELSE Here(p))

Get(p) ==
  /\ active # NoKey
  /\ Keep("get", IF IsFrozen(p) /\ target[p].value # Here(p)
                 THEN TypeError ELSE Here(p))

Has(p) ==
  /\ active # NoKey
  /\ Keep("has", IF Here(p) = Undefined /\ IsFixed(p)
                 THEN TypeError ELSE Here(p) # Undefined)

(* Mutant: the wrapper of an object can be called. *)
CallAny ==
  /\ active # NoKey
  /\ Keep("call", Resolved)

(* Reflect.apply(resolve(), this, args): which branch is called *)
Call ==
  /\ kind = "function"
  /\ active # NoKey
  /\ Keep("call", Resolved)

(* instanceof looks here; a target that is not extensible has the last     *)
(* word on its prototype.                                                  *)
GetPrototypeOf ==
  /\ active # NoKey
  /\ Keep("getPrototypeOf",
          IF ~extensible /\ ParentOf[Resolved] # TargetParent[kind]
          THEN TypeError ELSE ParentOf[Resolved])

(* Without a trap it is the target that takes no properties any more.      *)
PreventExtensions ==
  /\ extensible' = FALSE
  /\ Answer("preventExtensions", TRUE)
  /\ UNCHANGED <<kind, conditions, branches, active, target, written>>

(* Reflect.set(branch, p, v, wrapper): the branch is only asked whether p  *)
(* can be written.  The value goes to the receiver, the wrapper itself,    *)
(* and through its missing defineProperty trap to the target, if the       *)
(* getOwnPropertyDescriptor trap may say of p what it says.                *)
SetOnObject(p, v) ==
  /\ active # NoKey
  /\ kind = "object"
  /\ written' = written \cup {p}
  /\ IF \/ IsSealed(p)
        \/ ~extensible /\ (Here(p) = Undefined \/ target[p] = None)
     THEN Answer("set", TypeError) /\ UNCHANGED target
     ELSE /\ Answer("set", v)
          /\ target' = [target EXCEPT ![p] =
               IF Here(p) = Undefined THEN Open(v)
               ELSE IF @ = None THEN Frozen(v)
               ELSE [value |-> v, writable |-> @.writable, configurable |-> TRUE]]
  /\ UNCHANGED <<kind, conditions, branches, active, extensible>>

(* No getOwnPropertyDescriptor trap: the receiver's own properties are the *)
(* target's.                                                               *)
SetOnFunction(p, v) ==
  /\ active # NoKey
  /\ kind = "function"
  /\ written' = written \cup {p}
  /\ IF \/ ~target[p].writable
        \/ ~extensible /\ target[p] = None
     THEN Answer("set", TypeError) /\ UNCHANGED target
     ELSE /\ Answer("set", v)
          /\ target' = [target EXCEPT ![p] =
               [value |-> v, writable |-> TRUE, configurable |-> @.configurable]]
  /\ UNCHANGED <<kind, conditions, branches, active, extensible>>

(* Object.defineProperty, without a trap an operation on the target, which *)
(* may refuse it.  Object.freeze and seal are PreventExtensions, the keys, *)
(* and for each key its description and this.                              *)
DefineProperty(p, descriptor) ==
  /\ written' = written \cup {p}
  /\ IF \/ target[p] = None /\ ~extensible
        \/ IsSealed(p) /\ descriptor.configurable
        \/ IsFrozen(p) /\ descriptor # target[p]
     THEN Answer("define", TypeError) /\ UNCHANGED target
     ELSE /\ Answer("define", TRUE)
          /\ target' = [target EXCEPT ![p] = descriptor]
  /\ UNCHANGED <<kind, conditions, branches, active, extensible>>

(* The branch has lost p before the engine objects. *)
DeleteFromObject(p) ==
  /\ active # NoKey
  /\ kind = "object"
  /\ branches' = [branches EXCEPT ![Resolved][p] = Undefined]
  /\ Answer("delete", IF IsFixed(p) THEN TypeError ELSE TRUE)
  /\ UNCHANGED <<kind, conditions, active, target, extensible, written>>

(* Without a trap the target loses p. *)
DeleteFromFunction(p) ==
  /\ kind = "function"
  /\ IF IsSealed(p) THEN Answer("delete", TypeError) /\ UNCHANGED target
     ELSE /\ Answer("delete", TRUE)
          /\ target' = [target EXCEPT ![p] = None]
  /\ UNCHANGED <<kind, conditions, branches, active, extensible, written>>

(* The trap calls every property configurable, which a sealed one of the   *)
(* target contradicts; and once the target is not extensible both must     *)
(* have p or both lack it.                                                 *)
DescribeOfObject(p) ==
  /\ active # NoKey
  /\ kind = "object"
  /\ Keep("describe",
          IF \/ IsSealed(p)
             \/ ~extensible /\ ((Here(p) = Undefined) # (target[p] = None))
          THEN TypeError ELSE Here(p))

DescribeOfFunction(p) ==
  /\ kind = "function"
  /\ Keep("describe", target[p].value)

KeysOfObject ==
  LET keys == {p \in Prop : Here(p) # Undefined} IN
  /\ active # NoKey
  /\ kind = "object"
  /\ Keep("keys",
          IF \/ \E p \in Prop \ keys : IsFixed(p)
             \/ ~extensible /\ \E p \in keys : target[p] = None
          THEN TypeError ELSE keys)

KeysOfFunction ==
  /\ kind = "function"
  /\ Keep("keys", {p \in Prop : target[p] # None})

Next ==
  \/ SwitchContext
  \/ \E op \in Trapped : Fail(op)
  \/ \E p \in Prop :
       \/ Get(p) \/ Has(p)
       \/ \E v \in Val : SetOnObject(p, v) \/ SetOnFunction(p, v)
       \/ DeleteFromObject(p) \/ DeleteFromFunction(p)
       \/ DescribeOfObject(p) \/ DescribeOfFunction(p)
       \/ \E descriptor \in Descriptor : DefineProperty(p, descriptor)
  \/ KeysOfObject
  \/ KeysOfFunction
  \/ Call
  \/ GetPrototypeOf
  \/ PreventExtensions

Spec == Init /\ [][Next]_vars

-----------------------------------------------------------------------------

(* The type invariant; only a write or a definition gives the target of an *)
(* object wrapper a property, or freezes one of any target.                *)
TypeOK ==
  /\ kind \in {"object", "function"}
  /\ conditions \in [Key -> Branch]
  /\ branches \in [Branch -> [Prop -> Val \cup {Undefined}]]
  /\ active \in Key \cup {NoKey}
  /\ target \in [Prop -> [value: Val \cup {Undefined}, writable: BOOLEAN,
                          configurable: BOOLEAN]]
  /\ \A p \in Prop : kind = "object" /\ target[p] # None => p \in written
  /\ \A p \in Prop : IsFrozen(p) => p \in written
  /\ written \subseteq Prop
  /\ extensible \in BOOLEAN
  /\ last.op \in Trapped \cup
       {"none", "delete", "describe", "keys", "define", "preventExtensions"}

(* However the conditions switched since, a read answers what the branch   *)
(* of the moment holds, never what a write left on the target; it may      *)
(* throw, but only for a property once written or defined through it.      *)
ReadsFollowTheBranch ==
  [][\A p \in Prop :
       Get(p) => \/ last'.answer = Here(p)
                 \/ last'.answer = TypeError /\ p \in written]_vars

(* As long as nobody writes or defines through an object wrapper or makes  *)
(* it not extensible (Object.freeze does both), every operation on it      *)
(* answers: none of the engine's checks against the target fails.          *)
OnlyWritesBreakObjects ==
  kind = "object" /\ last.answer = TypeError => (written # {} \/ ~extensible)

(* What breaks is the property written to.  Of an object wrapper, any      *)
(* other one can still be read, looked up and deleted, even of a branch    *)
(* that does not have it.  A delete that throws has already taken the      *)
(* property from the branch: this, too, only happens to one once written   *)
(* or defined through the wrapper.                                         *)
WritesBreakTheirProperty ==
  [][\A p \in Prop :
       /\ kind = "object"
       /\ Get(p) \/ Has(p) \/ DeleteFromObject(p)
       /\ last'.answer = TypeError
       => p \in written]_vars

-----------------------------------------------------------------------------

(* src/switchBuildCondition.ts: the wrapper "resolves the active condition *)
(* on every access and delegates to the matching branch".  A write that    *)
(* succeeds is one to the branch.                                          *)
WritesReachTheBranch ==
  [][\A p \in Prop, v \in Val :
       (SetOnObject(p, v) \/ SetOnFunction(p, v)) /\ last'.answer = v =>
         branches'[Resolved][p] = v]_vars
=============================================================================
