------------------------- MODULE ModuleVisitor_proof -------------------------
(***************************************************************************)
(* Theorems about ModuleVisitor, for any names and any length and depth of *)
(* files: the visitor's scopes match the blocks that are open, only bound  *)
(* names are rewritten, and the cleanup keeps the imports in use.          *)
(***************************************************************************)
EXTENDS ModuleVisitor, TLAPS

Slot == Helper \cup {"namespace"}
Binding == [name: Ident, meaning: Meaning,
            by: {"import", "require", "declare"}]

-----------------------------------------------------------------------------
(* The steps that actions share *)

LEMMA RegisterOK ==
  ASSUME scopes \in Seq(Scopes), skipped \/ scopes # <<>>,
         NEW slot, NEW id \in Ident, Register(slot, id)
  PROVE  scopes' \in Seq(Scopes) /\ Len(scopes') = Len(scopes)
<1>1. CASE skipped \/ slot \notin DOMAIN NoScope
  BY <1>1 DEF Register
<1>2. CASE ~skipped /\ slot \in DOMAIN NoScope
  <2>1. Len(scopes) \in DOMAIN scopes
    BY <1>2
  <2>2. scopes[Len(scopes)] \in Scopes
    BY <2>1
  <2>3. [scopes[Len(scopes)] EXCEPT ![slot] = id] \in Scopes
    BY <1>2, <2>2 DEF Scopes, NoScope
  <2>4. scopes' = [scopes EXCEPT ![Len(scopes)] =
                     [scopes[Len(scopes)] EXCEPT ![slot] = id]]
    BY <1>2, <2>1 DEF Register
  <2> QED
    BY <2>1, <2>3, <2>4
<1> QED
  BY <1>1, <1>2

LEMMA BindOK ==
  ASSUME frames \in Seq(Frames), frames # <<>>,
         NEW id \in Ident, NEW meaning \in Meaning, NEW by,
         Bind(id, meaning, by)
  PROVE  /\ frames' \in Seq(Frames) /\ frames' # <<>>
         /\ Depth' = Depth
<1> DEFINE top == [declared |-> frames[Depth].declared \cup {id},
                   meaning |-> [frames[Depth].meaning EXCEPT ![id] = meaning]]
<1>1. Depth \in DOMAIN frames
  BY DEF Depth
<1>2. frames[Depth] \in Frames
  BY <1>1
<1>3. top \in Frames
  BY <1>2 DEF Frames
<1>4. frames' = [frames EXCEPT ![Depth] = top]
  BY <1>1 DEF Bind
<1> HIDE DEF top
<1> QED
  BY <1>1, <1>3, <1>4 DEF Depth

LEMMA ImportedOK ==
  ASSUME NEW ids PROVE Imported(ids) \subseteq ids
BY DEF Imported

LEMMA ScopesNotEmpty ==
  ASSUME TypeOK, phase # "ended"
  PROVE  skipped \/ scopes # <<>>
BY DEF TypeOK, Depth

-----------------------------------------------------------------------------

LEMMA InitTypeOK == Init => TypeOK
<1> SUFFICES ASSUME Init PROVE TypeOK
  OBVIOUS
<1>1. NoScope \in Scopes
  BY DEF NoScope, Scopes
<1>2. scopes \in Seq(Scopes) /\ Len(scopes) = IF skipped THEN 0 ELSE 1
  BY <1>1 DEF Init
<1>3. frames \in Seq(Frames) /\ frames # <<>> /\ Depth = 1
  <2>1. [declared |-> {}, meaning |-> [id \in Ident |-> None]] \in Frames
    BY DEF Frames
  <2> QED
    BY <2>1 DEF Init, Depth
<1>4. esModule \in BOOLEAN /\ skipped \in BOOLEAN /\ (skipped => esModule)
  BY DEF Init
<1>5. phase \in {"imports", "body"} /\ items \in 0..MaxItems
  BY VisitorAssumption DEF Init
<1> QED
  BY <1>2, <1>3, <1>4, <1>5 DEF Init, TypeOK

LEMMA ImportTypeOK ==
  ASSUME TypeOK, NEW s \in Specifier, Import(s) PROVE TypeOK'
<1>1. s.local \in Ident /\ (s.export = "quoted") \in BOOLEAN
  BY DEF Specifier
<1>2. scopes' \in Seq(Scopes) /\ Len(scopes') = Len(scopes)
  BY <1>1, RegisterOK, ScopesNotEmpty DEF Import, TypeOK
<1>3. PICK meaning \in Meaning : Bind(s.local, meaning, "import")
  BY DEF Import, Meaning
<1>4. frames' \in Seq(Frames) /\ frames' # <<>> /\ Depth' = Depth
  BY <1>1, <1>3, BindOK DEF TypeOK
<1>5. bindings' \subseteq Binding /\ UNCHANGED <<live, dead>>
  BY <1>1, <1>3 DEF Bind, TypeOK, Binding
<1>6. items' \in 0..MaxItems
  BY VisitorAssumption DEF Import, Count, TypeOK
<1>7. failed' \in BOOLEAN
  BY <1>1 DEF Import, TypeOK
<1> QED
  BY <1>2, <1>4, <1>5, <1>6, <1>7 DEF Import, TypeOK, Binding

LEMMA RequireTypeOK ==
  ASSUME TypeOK, NEW slot \in Slot, NEW id \in Ident, Require(slot, id)
  PROVE  TypeOK'
<1>1. scopes' \in Seq(Scopes) /\ Len(scopes') = Len(scopes)
  BY RegisterOK, ScopesNotEmpty DEF Require, InBody, TypeOK
<1>2. frames' \in Seq(Frames) /\ frames' # <<>> /\ Depth' = Depth
  BY BindOK DEF Require, TypeOK, Slot, Meaning
<1>3. bindings' \subseteq Binding /\ UNCHANGED <<live, dead>>
  BY DEF Require, Bind, TypeOK, Binding, Slot, Meaning
<1>4. items' \in 0..MaxItems
  BY VisitorAssumption DEF Require, InBody, Count, TypeOK
<1> QED
  BY <1>1, <1>2, <1>3, <1>4 DEF Require, InBody, TypeOK, Binding

LEMMA DeclareTypeOK ==
  ASSUME TypeOK, NEW id \in Ident, Declare(id) PROVE TypeOK'
<1>1. frames' \in Seq(Frames) /\ frames' # <<>> /\ Depth' = Depth
  BY BindOK DEF Declare, TypeOK, Meaning
<1>2. bindings' \subseteq Binding /\ UNCHANGED <<live, dead>>
  BY DEF Declare, Bind, TypeOK, Binding, Meaning
<1>3. items' \in 0..MaxItems
  BY VisitorAssumption DEF Declare, InBody, Count, TypeOK
<1> QED
  BY <1>1, <1>2, <1>3 DEF Declare, InBody, TypeOK, Binding

LEMMA OpenTypeOK ==
  ASSUME TypeOK, OpenBlock PROVE TypeOK'
<1> DEFINE frame == [declared |-> {}, meaning |-> frames[Depth].meaning]
<1>1. Depth \in DOMAIN frames
  BY DEF TypeOK, Depth
<1>2. frame \in Frames
  <2>1. frames[Depth] \in Frames
    BY <1>1 DEF TypeOK
  <2> QED
    BY <2>1 DEF Frames
<1>3. frames' = Append(frames, frame)
  BY DEF OpenBlock
<1> HIDE DEF frame
<1>4. frames' \in Seq(Frames) /\ frames' # <<>> /\ Depth' = Depth + 1
  BY <1>2, <1>3 DEF TypeOK, Depth
<1>5. /\ scopes' \in Seq(Scopes)
      /\ Len(scopes') = Len(scopes) + (IF esModule THEN 0 ELSE 1)
  <2>1. CASE esModule
    BY <2>1 DEF OpenBlock, TypeOK
  <2>2. CASE ~esModule
    <3>1. NoScope \in Scopes
      BY DEF NoScope, Scopes
    <3>2. scopes' = Append(scopes, NoScope)
      BY <2>2 DEF OpenBlock
    <3>3. scopes \in Seq(Scopes)
      BY DEF TypeOK
    <3> QED
      BY <2>2, <3>1, <3>2, <3>3
  <2> QED
    BY <2>1, <2>2
<1>6. items' \in 0..MaxItems
  BY VisitorAssumption DEF OpenBlock, InBody, Count, TypeOK
<1>7. phase = "body" /\ UNCHANGED <<esModule, skipped, phase>>
  BY DEF OpenBlock, InBody
<1>8. Depth \in Nat /\ Len(scopes) \in Nat
  BY DEF TypeOK, Depth
<1>9. Len(scopes') = IF skipped THEN 0 ELSE IF esModule THEN 1 ELSE Depth'
  BY <1>4, <1>5, <1>7, <1>8 DEF TypeOK
<1> QED
  BY <1>4, <1>5, <1>6, <1>7, <1>9 DEF OpenBlock, TypeOK

LEMMA CloseTypeOK ==
  ASSUME TypeOK, CloseBlock PROVE TypeOK'
<1>1. /\ frames \in Seq(Frames) /\ scopes \in Seq(Scopes)
      /\ Depth \in Nat /\ Depth > 1 /\ Len(scopes) \in Nat
  BY DEF CloseBlock, TypeOK, Depth
<1>2. frames' \in Seq(Frames) /\ Depth' = Depth - 1 /\ frames' # <<>>
  <2>1. frames' = SubSeq(frames, 1, Len(frames) - 1)
    BY DEF CloseBlock, Depth
  <2>2. Len(frames) \in Nat /\ Len(frames) > 1
    BY <1>1 DEF Depth
  <2>3. \A i \in 1..(Len(frames) - 1) : frames[i] \in Frames
    BY <1>1, <2>2
  <2>4. frames' \in Seq(Frames) /\ Len(frames') = Len(frames) - 1
    BY <1>1, <2>1, <2>2, <2>3
  <2> QED
    BY <2>2, <2>4 DEF Depth
<1>3. /\ scopes' \in Seq(Scopes)
      /\ Len(scopes') = Len(scopes) - (IF esModule THEN 0 ELSE 1)
  <2>1. CASE esModule
    BY <1>1, <2>1 DEF CloseBlock
  <2>2. CASE ~esModule
    <3>1. Len(scopes) = Depth /\ scopes' = SubSeq(scopes, 1, Len(scopes) - 1)
      BY <2>2 DEF CloseBlock, TypeOK
    <3> QED
      BY <1>1, <2>2, <3>1
  <2> QED
    BY <2>1, <2>2
<1>4. phase = "body" /\ UNCHANGED <<esModule, skipped, phase>>
  BY DEF CloseBlock
<1>5. Len(scopes') = IF skipped THEN 0 ELSE IF esModule THEN 1 ELSE Depth'
  BY <1>1, <1>2, <1>3, <1>4 DEF TypeOK
<1> QED
  BY <1>2, <1>3, <1>4, <1>5 DEF CloseBlock, TypeOK

LEMMA FinishTypeOK ==
  ASSUME TypeOK, Finish PROVE TypeOK'
<1>1. scopes' \in Seq(Scopes) /\ Len(scopes') = 0
  BY DEF Finish
<1>2. imports' \subseteq imports
  BY DEF Finish
<1>3. Depth' = Depth /\ Depth = 1
  BY DEF Finish, lexical, Depth
<1> QED
  BY <1>1, <1>2, <1>3 DEF Finish, lexical, TypeOK

LEMMA DiscardTypeOK ==
  ASSUME TypeOK, InBody, NEW ids \in SUBSET Ident, NEW locals \in SUBSET ids,
         Discard(ids, locals)
  PROVE  TypeOK'
<1>1. items' \in 0..MaxItems
  BY VisitorAssumption DEF InBody, Count, TypeOK
<1>2. bindings' \subseteq Binding
  BY DEF Discard, TypeOK, Binding, Meaning
<1>3. dead' \subseteq discarded' /\ discarded' \subseteq Ident
  BY ImportedOK DEF Discard, TypeOK
<1>4. Depth' = Depth
  BY DEF Discard, Depth
<1> QED
  BY <1>1, <1>2, <1>3, <1>4 DEF InBody, Discard, TypeOK, Binding

LEMMA NextTypeOK ==
  ASSUME TypeOK, [Next]_vars PROVE TypeOK'
<1>1. ASSUME NEW s \in Specifier, Import(s) PROVE TypeOK'
  BY <1>1, ImportTypeOK
<1>2. CASE EndImports
  BY <1>2 DEF EndImports, visitor, lexical, TypeOK, Depth
<1>3. ASSUME NEW id \in Ident, NEW slot \in Slot, Require(slot, id)
      PROVE  TypeOK'
  BY <1>3, RequireTypeOK
<1>4. ASSUME NEW id \in Ident, Declare(id) PROVE TypeOK'
  BY <1>4, DeclareTypeOK
<1>5. ASSUME NEW id \in Ident, Mention(id) PROVE TypeOK'
  <2>1. items' \in 0..MaxItems
    BY <1>5, VisitorAssumption DEF Mention, InBody, Count, TypeOK
  <2>2. Imported({id}) \subseteq {id}
    BY ImportedOK
  <2> QED
    BY <1>5, <2>1, <2>2 DEF Mention, InBody, TypeOK, Depth
<1>6. CASE OpenBlock
  BY <1>6, OpenTypeOK
<1>7. CASE CloseBlock
  BY <1>7, CloseTypeOK
<1>8. ASSUME NEW c \in Callee, FoldIs(c) PROVE TypeOK'
  BY <1>8, DiscardTypeOK DEF FoldIs
<1>9. ASSUME NEW c \in Callee, NEW ids \in SUBSET Ident,
             NEW locals \in SUBSET ids,
             RemoveBranch(c, ids, locals) \/ InlineWinner(c, ids, locals)
      PROVE  TypeOK'
  BY <1>9, DiscardTypeOK DEF RemoveBranch, InlineWinner
<1>10. CASE Finish
  BY <1>10, FinishTypeOK
<1>11. CASE UNCHANGED vars
  BY <1>11 DEF vars, visitor, lexical, TypeOK, Depth
<1> QED
  BY <1>1, <1>2, <1>3, <1>4, <1>5, <1>6, <1>7, <1>8, <1>9, <1>10, <1>11
  DEF Next, Slot

(* Type correctness, for files of any length and depth.  In particular     *)
(* current_scope() never finds the stack empty while a file is traversed.  *)
THEOREM TypeInvariant == Spec => []TypeOK
<1>1. TypeOK /\ [Next]_vars => TypeOK'
  BY NextTypeOK
<1> QED
  BY <1>1, InitTypeOK, PTL DEF Spec

-----------------------------------------------------------------------------
(* Names stay registered as their blocks declare them *)

LEMMA RegisterAt ==
  ASSUME TypeOK, phase # "ended", NEW slot, NEW id \in Ident,
         Register(slot, id), NEW i \in DOMAIN scopes, NEW t \in Slot,
         scopes'[i][t] # scopes[i][t]
  PROVE  i = Len(scopes) /\ t = slot /\ scopes'[i][t] = id /\ ~skipped
<1>1. ~skipped /\ slot \in DOMAIN NoScope
  BY DEF Register
<1>2. scopes \in Seq(Scopes) /\ scopes[i] \in Scopes
  BY DEF TypeOK
<1>3. Len(scopes) \in DOMAIN scopes /\ scopes[Len(scopes)] \in Scopes
  BY <1>2
<1>4. scopes' = [scopes EXCEPT ![Len(scopes)] =
                   [scopes[Len(scopes)] EXCEPT ![slot] = id]]
  BY <1>1, <1>3 DEF Register
<1>5. i = Len(scopes)
  BY <1>4
<1>6. scopes'[i] = [scopes[i] EXCEPT ![slot] = id]
  BY <1>4, <1>5
<1> QED
  BY <1>1, <1>2, <1>5, <1>6 DEF Scopes, Slot

LEMMA BindAt ==
  ASSUME TypeOK, NEW id \in Ident, NEW meaning \in Meaning, NEW by,
         Bind(id, meaning, by)
  PROVE  /\ id \in frames'[Depth].declared
         /\ frames'[Depth].meaning[id] = meaning
         /\ \E b \in bindings' : b.name = id /\ b.meaning = meaning /\ b.by = by
         /\ \A d \in DOMAIN frames : \A n \in frames[d].declared :
              /\ n \in frames'[d].declared
              /\ frames'[d].meaning[n] = frames[d].meaning[n]
<1> DEFINE top == [declared |-> frames[Depth].declared \cup {id},
                   meaning |-> [frames[Depth].meaning EXCEPT ![id] = meaning]]
<1>1. Depth \in DOMAIN frames
  BY DEF Depth, TypeOK
<1>2. \A d \in DOMAIN frames : frames[d] \in Frames
  BY DEF TypeOK
<1>3. frames' = [frames EXCEPT ![Depth] = top]
  BY <1>1 DEF Bind
<1>4. frames'[Depth] = top
  BY <1>1, <1>3
<1>5. id \in top.declared /\ top.meaning[id] = meaning
  BY <1>1, <1>2 DEF Frames
<1>6. \E b \in bindings' : b.name = id /\ b.meaning = meaning /\ b.by = by
  <2> DEFINE new == [name |-> id, meaning |-> meaning, by |-> by]
  <2>1. new \in bindings'
    BY DEF Bind
  <2>2. new.name = id /\ new.meaning = meaning /\ new.by = by
    OBVIOUS
  <2> QED
    BY <2>1, <2>2
<1>7. ASSUME NEW d \in DOMAIN frames, NEW n \in frames[d].declared
      PROVE  /\ n \in frames'[d].declared
             /\ frames'[d].meaning[n] = frames[d].meaning[n]
  <2>1. CASE d = Depth
    <3>1. n # id /\ n \in Ident
      BY <1>1, <1>2, <2>1 DEF Bind, Frames
    <3>2. n \in top.declared /\ top.meaning[n] = frames[Depth].meaning[n]
      BY <1>1, <1>2, <2>1, <3>1 DEF Frames
    <3> QED
      BY <1>4, <2>1, <3>2
  <2>2. CASE d # Depth
    BY <1>3, <2>2
  <2> QED
    BY <2>1, <2>2
<1> QED
  BY <1>4, <1>5, <1>6, <1>7

LEMMA RegisterBind ==
  ASSUME TypeOK, Registered, phase # "ended", UNCHANGED esModule,
         NEW slot, NEW id \in Ident, NEW meaning \in Meaning, NEW by,
         slot \in Slot => meaning = slot /\ (by = "require" \/ Depth = 1),
         Register(slot, id), Bind(id, meaning, by)
  PROVE  Registered'
<1> DEFINE After(d, n, t) == n \in frames'[d].declared /\ frames'[d].meaning[n] = t
<1>1. scopes' \in Seq(Scopes) /\ Len(scopes') = Len(scopes)
  BY RegisterOK, ScopesNotEmpty DEF TypeOK
<1>2. DOMAIN scopes' = DOMAIN scopes /\ scopes \in Seq(Scopes)
  BY <1>1 DEF TypeOK
<1>3. ASSUME NEW d \in DOMAIN frames, NEW n, NEW t, DeclaredAt(d, n, t)
      PROVE  After(d, n, t)
  BY <1>3, BindAt DEF DeclaredAt
<1>4. After(Depth, id, meaning)
  BY BindAt DEF DeclaredAt, Depth, Bind
<1>5. PICK new \in bindings' : new.name = id /\ new.meaning = meaning /\ new.by = by
  BY BindAt
<1> SUFFICES ASSUME NEW i \in DOMAIN scopes, NEW t \in Slot,
                    scopes'[i][t] # None
             PROVE  IF esModule
                    THEN \E b \in bindings' :
                           /\ b.name = scopes'[i][t] /\ b.meaning = t
                           /\ \/ b.by = "require"
                              \/ After(1, scopes'[i][t], t)
                    ELSE After(i, scopes'[i][t], t)
  BY <1>2 DEF Registered, Slot, DeclaredAt
<1>6. CASE scopes'[i][t] = scopes[i][t]
  <2>1. IF esModule
        THEN \E b \in bindings :
               /\ b.name = scopes[i][t] /\ b.meaning = t
               /\ b.by = "require" \/ DeclaredAt(1, scopes[i][t], t)
        ELSE DeclaredAt(i, scopes[i][t], t)
    BY <1>6 DEF Registered, Slot
  <2>2. CASE esModule
    <3>1. 1 \in DOMAIN frames
      BY DEF TypeOK
    <3>2. bindings \subseteq bindings'
      BY DEF Bind
    <3>3. PICK b \in bindings :
            /\ b.name = scopes[i][t] /\ b.meaning = t
            /\ b.by = "require" \/ DeclaredAt(1, scopes[i][t], t)
      BY <2>1, <2>2
    <3>4. b.by = "require" \/ After(1, scopes[i][t], t)
      BY <1>3, <3>1, <3>3
    <3> QED
      BY <1>6, <2>2, <3>2, <3>3, <3>4 DEF DeclaredAt
  <2>3. CASE ~esModule
    <3>1. i \in DOMAIN frames
      BY <1>2, <2>3 DEF TypeOK, Depth
    <3>2. After(i, scopes[i][t], t)
      BY <1>3, <2>1, <2>3, <3>1
    <3> QED
      BY <1>6, <2>3, <3>2 DEF DeclaredAt
  <2> QED
    BY <2>2, <2>3
<1>7. CASE scopes'[i][t] # scopes[i][t]
  <2>1. i = Len(scopes) /\ t = slot /\ scopes'[i][t] = id /\ ~skipped
    BY <1>7, RegisterAt
  <2>2. meaning = t /\ (by = "require" \/ Depth = 1)
    BY <2>1
  <2>3. ~esModule => i = Depth
    BY <2>1 DEF TypeOK
  <2>4. Depth' = Depth
    BY BindOK DEF TypeOK
  <2>5. After(Depth, scopes'[i][t], t)
    BY <1>4, <2>1, <2>2 DEF DeclaredAt
  <2>6. CASE esModule
    BY <1>5, <2>1, <2>2, <2>4, <2>5, <2>6 DEF DeclaredAt
  <2>7. CASE ~esModule
    BY <2>3, <2>4, <2>5, <2>7 DEF DeclaredAt
  <2> QED
    BY <2>6, <2>7
<1> QED
  BY <1>6, <1>7

LEMMA RegisterNothing ==
  ASSUME TypeOK, phase # "ended", NEW id \in Ident, UNCHANGED scopes
  PROVE  Register("other", id)
BY DEF Register, NoScope, Helper

(* A script's scopes, when a block opens or closes. *)
LEMMA RegisterBlocks ==
  ASSUME Registered, ~esModule, UNCHANGED esModule,
         \A i \in DOMAIN scopes' :
           \/ /\ i \in DOMAIN scopes
              /\ scopes'[i] = scopes[i] /\ frames'[i] = frames[i]
           \/ scopes'[i] = NoScope
  PROVE  Registered'
<1> SUFFICES ASSUME NEW i \in DOMAIN scopes', NEW t \in Slot,
                    scopes'[i][t] # None
             PROVE  /\ scopes'[i][t] \in frames'[i].declared
                    /\ frames'[i].meaning[scopes'[i][t]] = t
  BY DEF Registered, Slot, DeclaredAt
<1>1. NoScope[t] = None
  BY DEF NoScope, Slot
<1>2. /\ i \in DOMAIN scopes
      /\ scopes'[i] = scopes[i] /\ frames'[i] = frames[i]
  BY <1>1
<1> QED
  BY <1>2 DEF Registered, Slot, DeclaredAt

(* The scope of an ES module, when a block opens or closes. *)
LEMMA RegisterModuleBlocks ==
  ASSUME Registered, esModule, UNCHANGED <<esModule, scopes, bindings>>,
         frames'[1] = frames[1]
  PROVE  Registered'
BY DEF Registered, DeclaredAt

LEMMA NextRegistered ==
  ASSUME TypeOK, Registered, [Next]_vars
  PROVE  Registered'
<1>1. ASSUME NEW s \in Specifier, Import(s) PROVE Registered'
  <2> DEFINE slot == IF s.from = "package" THEN s.export ELSE "other"
             meaning == IF s.from = "package" /\ s.export \in Meaning
                        THEN s.export ELSE "other"
  <2>1. meaning \in Meaning /\ s.local \in Ident
    BY DEF Meaning, Specifier
  <2>2. slot \in Slot => meaning = slot /\ Depth = 1
    BY <1>1 DEF Meaning, Slot, Helper, Import, TypeOK
  <2>3. Register(slot, s.local) /\ Bind(s.local, meaning, "import")
    BY <1>1 DEF Import
  <2>4. phase # "ended" /\ UNCHANGED esModule
    BY <1>1 DEF Import
  <2> HIDE DEF slot, meaning
  <2> QED
    BY <2>1, <2>2, <2>3, <2>4, RegisterBind
<1>2. ASSUME NEW id \in Ident, NEW slot \in Slot, Require(slot, id)
      PROVE  Registered'
  <2>1. Register(slot, id) /\ Bind(id, slot, "require")
    BY <1>2 DEF Require
  <2>2. phase # "ended" /\ UNCHANGED esModule /\ slot \in Meaning
    BY <1>2 DEF Require, InBody, Slot, Meaning
  <2> QED
    BY <2>1, <2>2, RegisterBind
<1>3. ASSUME NEW id \in Ident, Declare(id) PROVE Registered'
  <2>1. Bind(id, "other", "declare") /\ UNCHANGED <<scopes, esModule>>
    BY <1>3 DEF Declare, InBody
  <2>2. phase # "ended" /\ "other" \in Meaning
    BY <1>3 DEF Declare, InBody, Meaning
  <2>3. Register("other", id)
    BY <2>1, <2>2, RegisterNothing
  <2>4. "other" \notin Slot
    BY DEF Slot, Helper
  <2> QED
    BY <2>1, <2>2, <2>3, <2>4, RegisterBind
<1>4. ASSUME UNCHANGED <<scopes, frames, esModule>>, bindings \subseteq bindings'
      PROVE  Registered'
  BY <1>4 DEF Registered, DeclaredAt
<1>5. CASE EndImports \/ UNCHANGED vars
  BY <1>4, <1>5 DEF EndImports, vars, visitor, lexical
<1>6. ASSUME NEW id \in Ident, Mention(id) PROVE Registered'
  BY <1>4, <1>6 DEF Mention, InBody
<1>7. ASSUME NEW ids, NEW locals, InBody, Discard(ids, locals)
      PROVE  Registered'
  BY <1>4, <1>7 DEF InBody, Discard
<1>8. ASSUME NEW c \in Callee, NEW ids \in SUBSET Ident,
             NEW locals \in SUBSET ids,
             \/ FoldIs(c)
             \/ RemoveBranch(c, ids, locals)
             \/ InlineWinner(c, ids, locals)
      PROVE  Registered'
  BY <1>7, <1>8 DEF FoldIs, RemoveBranch, InlineWinner
<1>9. CASE OpenBlock
  <2>1. CASE esModule
    <3>1. frames'[1] = frames[1]
      BY <1>9 DEF OpenBlock, TypeOK
    <3> QED
      BY <1>9, <2>1, <3>1, RegisterModuleBlocks DEF OpenBlock, InBody
  <2>2. CASE ~esModule
    <3>1. /\ scopes' = Append(scopes, NoScope) /\ scopes \in Seq(Scopes)
          /\ frames \in Seq(Frames) /\ Len(frames) = Len(scopes)
      BY <1>9, <2>2 DEF OpenBlock, InBody, TypeOK, Depth
    <3>2. \A i \in DOMAIN scopes : /\ scopes'[i] = scopes[i]
                                   /\ frames'[i] = frames[i]
      BY <1>9, <3>1 DEF OpenBlock
    <3>3. /\ DOMAIN scopes' = DOMAIN scopes \cup {Len(scopes) + 1}
          /\ scopes'[Len(scopes) + 1] = NoScope
      BY <3>1
    <3>4. UNCHANGED esModule
      BY <1>9 DEF OpenBlock, InBody
    <3> QED
      BY <2>2, <3>2, <3>3, <3>4, RegisterBlocks
  <2> QED
    BY <2>1, <2>2
<1>10. CASE CloseBlock
  <2>1. CASE esModule
    <3>1. /\ Len(frames) \in Nat /\ Len(frames) > 1 /\ frames \in Seq(Frames)
          /\ frames' = SubSeq(frames, 1, Len(frames) - 1)
      BY <1>10 DEF CloseBlock, TypeOK, Depth
    <3>2. frames'[1] = frames[1]
      BY <3>1
    <3> QED
      BY <1>10, <2>1, <3>2, RegisterModuleBlocks DEF CloseBlock
  <2>2. CASE ~esModule
    <3>1. /\ Len(scopes) \in Nat /\ Len(scopes) > 1
          /\ scopes \in Seq(Scopes) /\ frames \in Seq(Frames)
          /\ scopes' = SubSeq(scopes, 1, Len(scopes) - 1)
          /\ frames' = SubSeq(frames, 1, Len(scopes) - 1)
          /\ Len(frames) = Len(scopes)
      BY <1>10, <2>2 DEF CloseBlock, TypeOK, Depth
    <3>2. DOMAIN scopes' = 1..(Len(scopes) - 1)
      BY <3>1
    <3>3. \A i \in DOMAIN scopes' : /\ i \in DOMAIN scopes
                                    /\ scopes'[i] = scopes[i]
                                    /\ frames'[i] = frames[i]
      BY <3>1, <3>2
    <3>4. UNCHANGED esModule
      BY <1>10 DEF CloseBlock
    <3> QED
      BY <2>2, <3>3, <3>4, RegisterBlocks
  <2> QED
    BY <2>1, <2>2
<1>11. CASE Finish
  BY <1>11 DEF Finish, Registered
<1> QED
  BY <1>1, <1>2, <1>3, <1>5, <1>6, <1>8, <1>9, <1>10, <1>11 DEF Next, Slot

LEMMA InitRegistered == Init => Registered
BY DEF Init, Registered, NoScope

(* A rewritten call has a name that the file or a block around it binds to *)
(* the helper, or to the package: in scripts, and in ES modules that       *)
(* require nothing, of any length and depth.                               *)
THEOREM Rewrites == Spec => []RewritesAreBound
<1>1. ASSUME TypeOK, Registered PROVE RewritesAreBound
  <2> SUFFICES ASSUME ~esModule \/ (\A b \in bindings : b.by # "require"),
                      NEW c \in Callee, Resolve(c) # None
               PROVE  \E d \in 1..Depth :
                        frames[d].meaning[c.name] =
                          IF c.property = None THEN Resolve(c) ELSE "namespace"
    BY DEF RewritesAreBound
  <2> DEFINE meaning == IF c.property = None THEN Resolve(c) ELSE "namespace"
  <2>1. c.name \in Ident /\ c.name # None
    BY VisitorAssumption DEF Callee
  <2>2. PICK i \in DOMAIN scopes : meaning \in Slot /\ scopes[i][meaning] = c.name
    <3>1. CASE c.property = None
      <4>1. Resolve(c) = ResolveLocal(c.name)
        BY <3>1 DEF Resolve
      <4> QED
        BY <3>1, <4>1 DEF ResolveLocal, Nearest, Names, Helper, Slot
    <3>2. CASE c.property # None
      <4>1. IsNamespace(c.name)
        BY <3>2 DEF Resolve
      <4> QED
        BY <3>2, <4>1 DEF IsNamespace, Slot
    <3> QED
      BY <3>1, <3>2
  <2>3. DeclaredAt(IF esModule THEN 1 ELSE i, c.name, meaning)
    <3> HIDE DEF meaning
    <3> QED
      BY <1>1, <2>1, <2>2 DEF Registered, Slot
  <2>4. (IF esModule THEN 1 ELSE i) \in 1..Depth
    BY <1>1 DEF TypeOK, Depth
  <2> QED
    BY <2>3, <2>4 DEF DeclaredAt
<1>2. TypeOK /\ Registered /\ [Next]_vars => Registered'
  BY NextRegistered
<1> QED
  BY <1>1, <1>2, InitRegistered, TypeInvariant, PTL DEF Spec

-----------------------------------------------------------------------------

LEMMA InitLive == Init => LiveImported /\ LiveImportsKept
BY DEF Init, LiveImported, LiveImportsKept

LEMMA NextLive ==
  ASSUME TypeOK, LiveImported, LiveImportsKept, [Next]_vars
  PROVE  LiveImported' /\ LiveImportsKept'
<1>1. ASSUME phase' # "ended", imports \subseteq imports', phase # "ended",
             \A id \in live' \ live : \E s \in imports : s.local = id
      PROVE  LiveImported' /\ LiveImportsKept'
  BY <1>1 DEF LiveImported, LiveImportsKept
<1>2. ASSUME NEW s \in Specifier, Import(s)
      PROVE  LiveImported' /\ LiveImportsKept'
  BY <1>1, <1>2 DEF Import, Bind
<1>3. CASE EndImports
  BY <1>1, <1>3 DEF EndImports, visitor, lexical
<1>4. ASSUME NEW id \in Ident, NEW slot \in Slot,
             Require(slot, id) \/ Declare(id)
      PROVE  LiveImported' /\ LiveImportsKept'
  BY <1>1, <1>4 DEF Require, Declare, InBody, Bind
<1>5. ASSUME NEW id \in Ident, Mention(id)
      PROVE  LiveImported' /\ LiveImportsKept'
  BY <1>1, <1>5 DEF Mention, InBody, Imported
<1>6. CASE OpenBlock \/ CloseBlock
  BY <1>1, <1>6 DEF OpenBlock, CloseBlock, InBody
<1>7. ASSUME NEW c \in Callee, NEW ids \in SUBSET Ident,
             NEW locals \in SUBSET ids,
             \/ FoldIs(c)
             \/ RemoveBranch(c, ids, locals)
             \/ InlineWinner(c, ids, locals)
      PROVE  LiveImported' /\ LiveImportsKept'
  BY <1>1, <1>7 DEF FoldIs, RemoveBranch, InlineWinner, InBody, Discard
<1>8. CASE Finish
  <2>1. \A s \in imports : s.local \in live => s \in imports'
    BY <1>8 DEF Finish, Retained, TypeOK
  <2> QED
    BY <1>8, <2>1 DEF Finish, lexical, LiveImported, LiveImportsKept
<1>9. CASE UNCHANGED vars
  BY <1>9 DEF vars, visitor, lexical, LiveImported, LiveImportsKept
<1> QED
  BY <1>2, <1>3, <1>4, <1>5, <1>6, <1>7, <1>8, <1>9 DEF Next, Slot

(* The cleanup never drops an import that the remaining code refers to.    *)
THEOREM ImportsInUse == Spec => []LiveImportsKept
<1>1. TypeOK /\ LiveImported /\ LiveImportsKept /\ [Next]_vars =>
        LiveImported' /\ LiveImportsKept'
  BY NextLive
<1> QED
  BY <1>1, InitLive, TypeInvariant, PTL DEF Spec
=============================================================================
