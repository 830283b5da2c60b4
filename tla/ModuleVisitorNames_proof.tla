----------------------- MODULE ModuleVisitorNames_proof -----------------------
(***************************************************************************)
(* More theorems about ModuleVisitor, for any names and any length and     *)
(* depth of files: when nobody declares a name twice, the visitor takes it *)
(* for what JavaScript takes it for, in calls and in the cleanup.          *)
(***************************************************************************)
EXTENDS ModuleVisitor_proof, WellFoundedInduction

-----------------------------------------------------------------------------
(* Imports *)

(* An imported name is bound by its import, one that an inner block        *)
(* declares by something else.                                             *)
ImportBound ==
  \A s \in imports : \E b \in bindings : b.name = s.local /\ b.by = "import"

InnerBound ==
  \A d \in DOMAIN frames : d > 1 =>
    \A id \in frames[d].declared :
      \E b \in bindings : b.name = id /\ b.by # "import"

(* Of an import whose name is declared once, used and discarded tell what  *)
(* live and dead do.                                                       *)
SetsAreExact ==
  /\ phase = "imports" => used = {} /\ discarded = {}
  /\ \A s \in imports : OneMeaning(s.local) =>
       /\ s.local \in used => s.local \in live
       /\ s.local \in discarded => s.local \in dead

ImportInv == ImportBound /\ InnerBound /\ SetsAreExact

LEMMA TwoBindings ==
  ASSUME NEW id, NEW b1 \in bindings, NEW b2 \in bindings,
         b1.name = id, b2.name = id, OneMeaning(id)
  PROVE  b1 = b2
BY DEF OneMeaning

LEMMA OneMeaningBefore ==
  ASSUME NEW id, bindings \subseteq bindings', OneMeaning(id)'
  PROVE  OneMeaning(id)
BY DEF OneMeaning

(* An imported name with one meaning is hidden by no block. *)
LEMMA NotHidden ==
  ASSUME TypeOK, ImportBound, InnerBound,
         NEW ids, NEW s \in imports, s.local \in ids, OneMeaning(s.local)
  PROVE  s.local \in Imported(ids)
<1>1. PICK b1 \in bindings : b1.name = s.local /\ b1.by = "import"
  BY DEF ImportBound
<1>2. ASSUME NEW d \in 2..Depth, s.local \in frames[d].declared PROVE FALSE
  <2>1. d \in DOMAIN frames /\ d > 1
    BY DEF TypeOK, Depth
  <2>2. PICK b2 \in bindings : b2.name = s.local /\ b2.by # "import"
    BY <1>2, <2>1 DEF InnerBound
  <2> QED
    BY <1>1, <2>2, TwoBindings
<1> QED
  BY <1>2 DEF Imported

(* What Bind does to the names that inner blocks declare. *)
LEMMA BindInner ==
  ASSUME TypeOK, InnerBound, NEW id \in Ident, NEW meaning, NEW by,
         Bind(id, meaning, by), by # "import" \/ Depth = 1
  PROVE  InnerBound'
<1> DEFINE new == [name |-> id, meaning |-> meaning, by |-> by]
<1>1. new \in bindings' /\ bindings \subseteq bindings'
      /\ new.name = id /\ new.by = by
  BY DEF Bind
<1> HIDE DEF new
<1>2. Depth \in DOMAIN frames /\ frames \in Seq(Frames)
  BY DEF TypeOK, Depth
<1>3. DOMAIN frames' = DOMAIN frames
  BY <1>2 DEF Bind
<1>4. \A d \in DOMAIN frames : d # Depth => frames'[d] = frames[d]
  BY <1>2 DEF Bind
<1>5. frames'[Depth].declared = frames[Depth].declared \cup {id}
  BY <1>2 DEF Bind
<1> SUFFICES ASSUME NEW d \in DOMAIN frames, d > 1,
                    NEW n \in frames'[d].declared
             PROVE  \E b \in bindings' : b.name = n /\ b.by # "import"
  BY <1>3 DEF InnerBound
<1>6. CASE n \in frames[d].declared
  BY <1>1, <1>6 DEF InnerBound
<1>7. CASE n \notin frames[d].declared
  <2>1. d = Depth /\ n = id
    BY <1>4, <1>5, <1>7
  <2>2. by # "import"
    BY <2>1
  <2> QED
    BY <1>1, <2>1, <2>2
<1> QED
  BY <1>6, <1>7

(* A declaration, other than an import: its name has two meanings if it is *)
(* imported.                                                               *)
LEMMA DeclareExact ==
  ASSUME TypeOK, ImportInv, InBody, UNCHANGED <<imports, discarded>>,
         NEW id \in Ident, NEW meaning, NEW by \in {"require", "declare"},
         Bind(id, meaning, by), used' = used \cup {id}
  PROVE  ImportInv'
<1> DEFINE new == [name |-> id, meaning |-> meaning, by |-> by]
<1>1. new \in bindings' /\ bindings \subseteq bindings'
      /\ new.name = id /\ new.by # "import"
  BY DEF Bind
<1> HIDE DEF new
<1>2. InnerBound'
  BY BindInner DEF ImportInv
<1>3. ImportBound'
  BY <1>1 DEF ImportInv, ImportBound
<1>4. ASSUME NEW s \in imports, OneMeaning(s.local)'
      PROVE  /\ s.local \in used' => s.local \in live
             /\ s.local \in discarded => s.local \in dead
  <2>1. OneMeaning(s.local)
    BY <1>1, <1>4, OneMeaningBefore
  <2>2. s.local # id
    <3>1. PICK b \in bindings' : b.name = s.local /\ b.by = "import"
      BY <1>3 DEF ImportBound
    <3> QED
      BY <1>1, <1>4, <3>1 DEF OneMeaning
  <2> QED
    BY <2>1, <2>2 DEF ImportInv, SetsAreExact
<1>5. SetsAreExact'
  BY <1>4 DEF SetsAreExact, InBody, Bind
<1> QED
  BY <1>2, <1>3, <1>5 DEF ImportInv

LEMMA DiscardExact ==
  ASSUME TypeOK, ImportInv, InBody, NEW ids, NEW locals \in SUBSET ids,
         Discard(ids, locals)
  PROVE  ImportInv'
<1>1. bindings \subseteq bindings' /\ UNCHANGED <<imports, frames>>
  BY DEF Discard
<1>2. ImportBound' /\ InnerBound'
  BY <1>1 DEF ImportInv, ImportBound, InnerBound
<1>3. ASSUME NEW s \in imports, OneMeaning(s.local)',
             s.local \in discarded'
      PROVE  s.local \in dead'
  <2>1. OneMeaning(s.local)
    BY <1>1, <1>3, OneMeaningBefore
  <2>2. CASE s.local \in discarded
    BY <2>1, <2>2 DEF ImportInv, SetsAreExact, Discard
  <2>3. CASE s.local \in locals
    <3> DEFINE new == [name |-> s.local, meaning |-> "other",
                       by |-> "declare"]
    <3>1. new \in bindings' /\ new.name = s.local /\ new.by # "import"
      BY <2>3 DEF Discard
    <3> HIDE DEF new
    <3>2. PICK b \in bindings' : b.name = s.local /\ b.by = "import"
      BY <1>1, <1>2 DEF ImportBound
    <3> QED
      BY <1>3, <3>1, <3>2 DEF OneMeaning
  <2>4. CASE s.local \in ids \ locals
    BY <2>1, <2>4, NotHidden DEF ImportInv, Discard
  <2> QED
    BY <1>3, <2>2, <2>3, <2>4 DEF Discard
<1>4. ASSUME NEW s \in imports, OneMeaning(s.local)', s.local \in used'
      PROVE  s.local \in live'
  BY <1>1, <1>4, OneMeaningBefore DEF Discard, ImportInv, SetsAreExact
<1>5. SetsAreExact'
  BY <1>1, <1>3, <1>4 DEF SetsAreExact, InBody
<1> QED
  BY <1>2, <1>5 DEF ImportInv

LEMMA InitImportInv == Init => ImportInv
BY DEF Init, ImportInv, ImportBound, InnerBound, SetsAreExact

LEMMA NextImportInv ==
  ASSUME TypeOK, ImportInv, [Next]_vars PROVE ImportInv'
<1>1. ASSUME NEW s \in Specifier, Import(s) PROVE ImportInv'
  <2>1. PICK meaning \in Meaning : Bind(s.local, meaning, "import")
    BY <1>1 DEF Import, Meaning
  <2>2. Depth = 1 /\ s.local \in Ident
    BY <1>1 DEF Import, TypeOK, Specifier
  <2>3. InnerBound'
    BY <2>1, <2>2, BindInner DEF ImportInv
  <2> DEFINE new == [name |-> s.local, meaning |-> meaning, by |-> "import"]
  <2>4. new \in bindings' /\ new.name = s.local /\ new.by = "import"
    BY <2>1 DEF Bind
  <2> HIDE DEF new
  <2>5. ImportBound'
    BY <1>1, <2>1, <2>4 DEF ImportInv, ImportBound, Import, Bind
  <2>6. SetsAreExact'
    BY <1>1 DEF ImportInv, SetsAreExact, Import
  <2> QED
    BY <2>3, <2>5, <2>6 DEF ImportInv
<1>2. ASSUME NEW id \in Ident, NEW slot \in Slot, Require(slot, id)
      PROVE  ImportInv'
  BY <1>2, DeclareExact DEF Require
<1>3. ASSUME NEW id \in Ident, Declare(id) PROVE ImportInv'
  BY <1>3, DeclareExact DEF Declare
<1>4. ASSUME NEW id \in Ident, Mention(id) PROVE ImportInv'
  <2>1. UNCHANGED <<imports, bindings, frames>>
    BY <1>4 DEF Mention
  <2>2. \A s \in imports : OneMeaning(s.local) /\ s.local = id =>
          s.local \in Imported({id})
    BY NotHidden DEF ImportInv
  <2>3. SetsAreExact'
    <3>1. \A s \in imports : OneMeaning(s.local)' <=> OneMeaning(s.local)
      BY <2>1 DEF OneMeaning
    <3>2. /\ phase' = "body" /\ used' = used \cup {id}
          /\ live' = live \cup Imported({id})
          /\ UNCHANGED <<imports, discarded, dead>>
      BY <1>4 DEF Mention, InBody
    <3> QED
      BY <2>2, <3>1, <3>2 DEF ImportInv, SetsAreExact
  <2> QED
    BY <2>1, <2>3 DEF ImportInv, ImportBound, InnerBound
<1>5. CASE OpenBlock
  <2>1. UNCHANGED <<imports, bindings, used, discarded, live, dead, phase>>
    BY <1>5 DEF OpenBlock, InBody
  <2>2. \A d \in DOMAIN frames' :
          \/ d \in DOMAIN frames /\ frames'[d] = frames[d]
          \/ frames'[d].declared = {}
    BY <1>5 DEF OpenBlock, TypeOK
  <2> QED
    BY <2>1, <2>2
    DEF ImportInv, ImportBound, InnerBound, SetsAreExact, OneMeaning
<1>6. CASE CloseBlock
  <2>1. UNCHANGED <<imports, bindings, used, discarded, live, dead, phase>>
    BY <1>6 DEF CloseBlock
  <2>2. \A d \in DOMAIN frames' : d \in DOMAIN frames /\ frames'[d] = frames[d]
    <3>1. Len(frames) \in Nat /\ Len(frames) > 1 /\ frames \in Seq(Frames)
          /\ frames' = SubSeq(frames, 1, Len(frames) - 1)
      BY <1>6 DEF CloseBlock, TypeOK, Depth
    <3> QED
      BY <3>1
  <2> QED
    BY <2>1, <2>2
    DEF ImportInv, ImportBound, InnerBound, SetsAreExact, OneMeaning
<1>7. ASSUME NEW c \in Callee, NEW ids \in SUBSET Ident,
             NEW locals \in SUBSET ids,
             \/ FoldIs(c)
             \/ RemoveBranch(c, ids, locals)
             \/ InlineWinner(c, ids, locals)
      PROVE  ImportInv'
  BY <1>7, DiscardExact DEF FoldIs, RemoveBranch, InlineWinner
<1>8. CASE Finish
  <2>1. /\ UNCHANGED <<bindings, frames, used, discarded, live, dead>>
        /\ imports' \subseteq imports /\ phase' = "ended"
    BY <1>8 DEF Finish, lexical
  <2> QED
    BY <2>1 DEF ImportInv, ImportBound, InnerBound, SetsAreExact, OneMeaning
<1>9. CASE EndImports
  BY <1>9 DEF EndImports, visitor, lexical,
     ImportInv, ImportBound, InnerBound, SetsAreExact, OneMeaning
<1>10. CASE UNCHANGED vars
  BY <1>10 DEF vars, visitor, lexical,
     ImportInv, ImportBound, InnerBound, SetsAreExact, OneMeaning
<1> QED
  BY <1>1, <1>2, <1>3, <1>4, <1>5, <1>6, <1>7, <1>8, <1>9, <1>10
  DEF Next, Slot

(* An import whose name is declared once goes in the cleanup if and only   *)
(* if the remaining code does not refer to it and it is one of the         *)
(* package's helpers or its namespace, or dead code referred to it.        *)
THEOREM ImportsExact == Spec => ImportsAreExact
<1>1. TypeOK /\ ImportInv /\ [Next]_vars => ImportInv'
  BY NextImportInv
<1>2. ASSUME TypeOK, ImportInv, Finish, esModule, didTransform,
             NEW s \in imports, OneMeaning(s.local)
      PROVE  s \in imports' <=>
               \/ s.local \in live
               \/ s.from = "package" /\ s.export \notin Helper \cup {"namespace"}
               \/ s.from = "elsewhere" /\ s.local \notin dead
  <2>1. s \in imports' <=> Retained(s)
    BY <1>2 DEF Finish
  <2>2. s.local \in used <=> s.local \in live
    BY <1>2 DEF ImportInv, SetsAreExact, TypeOK
  <2>3. s.local \in discarded <=> s.local \in dead
    BY <1>2 DEF ImportInv, SetsAreExact, TypeOK
  <2> QED
    BY <2>1, <2>2, <2>3 DEF Retained
<1> DEFINE Exact ==
  Finish /\ esModule /\ didTransform =>
    \A s \in imports :
      OneMeaning(s.local) =>
        (s \in imports' <=>
           \/ s.local \in live
           \/ s.from = "package" /\ s.export \notin Helper \cup {"namespace"}
           \/ s.from = "elsewhere" /\ s.local \notin dead)
<1>3. TypeOK /\ ImportInv => [Exact]_vars
  BY <1>2
<1> QED
  BY <1>1, <1>3, InitImportInv, TypeInvariant, PTL DEF Spec, ImportsAreExact
-----------------------------------------------------------------------------
(* Calls *)

(* What a name means, it was bound to. *)
MeaningsAreBound ==
  \A d \in DOMAIN frames, id \in Ident :
    frames[d].meaning[id] # None =>
      \E b \in bindings : b.name = id /\ b.meaning = frames[d].meaning[id]

(* The other half of Registered: the only name of a helper is registered   *)
(* for as long as it is in force.                                          *)
Slotted ==
  ~skipped /\ phase # "ended" =>
    \A d \in DOMAIN frames, id \in Ident :
      LET meaning == frames[d].meaning[id] IN
      meaning \in Slot /\ OneName(meaning) =>
        \E i \in DOMAIN scopes : i <= d /\ scopes[i][meaning] = id

NamesInv == MeaningsAreBound /\ Slotted

LEMMA OneNameBefore ==
  ASSUME NEW meaning, bindings \subseteq bindings', OneName(meaning)'
  PROVE  OneName(meaning)
BY DEF OneName

LEMMA FrameOK ==
  ASSUME TypeOK, NEW d \in DOMAIN frames, NEW id \in Ident
  PROVE  /\ frames[d] \in Frames
         /\ frames[d].meaning[id] \in Meaning \cup {None}
<1>1. frames[d] \in Frames
  BY DEF TypeOK
<1> QED
  BY <1>1 DEF Frames

(* The meanings of names after one has been bound. *)
LEMMA BindMeaning ==
  ASSUME TypeOK, NEW id \in Ident, NEW meaning, NEW by, Bind(id, meaning, by),
         NEW d \in DOMAIN frames, NEW n \in Ident
  PROVE  frames'[d].meaning[n] =
           IF d = Depth /\ n = id THEN meaning ELSE frames[d].meaning[n]
<1> DEFINE top == [declared |-> frames[Depth].declared \cup {id},
                   meaning |-> [frames[Depth].meaning EXCEPT ![id] = meaning]]
<1>1. Depth \in DOMAIN frames
  BY DEF Depth, TypeOK
<1>2. frames[Depth] \in Frames
  BY <1>1, FrameOK
<1>3. frames' = [frames EXCEPT ![Depth] = top]
  BY <1>1 DEF Bind
<1>4. top.meaning[n] = IF n = id THEN meaning ELSE frames[Depth].meaning[n]
  BY <1>2 DEF Frames
<1> HIDE DEF top
<1> QED
  BY <1>1, <1>3, <1>4

LEMMA DeclareNames ==
  ASSUME TypeOK, NamesInv, phase # "ended",
         UNCHANGED skipped, NEW slot, NEW id \in Ident,
         NEW meaning \in Meaning, NEW by,
         slot \in Slot \/ meaning \in Slot => slot = meaning,
         Register(slot, id), Bind(id, meaning, by)
  PROVE  NamesInv'
<1> DEFINE new == [name |-> id, meaning |-> meaning, by |-> by]
<1>1. /\ new \in bindings' /\ bindings \subseteq bindings'
      /\ new.name = id /\ new.meaning = meaning
  BY DEF Bind
<1> HIDE DEF new
<1>2. DOMAIN frames' = DOMAIN frames
  BY BindOK DEF TypeOK, Depth
<1>3. MeaningsAreBound'
  <2> SUFFICES ASSUME NEW d \in DOMAIN frames, NEW n \in Ident,
                      frames'[d].meaning[n] # None
               PROVE  \E b \in bindings' :
                        b.name = n /\ b.meaning = frames'[d].meaning[n]
    BY <1>2 DEF MeaningsAreBound
  <2>1. CASE d = Depth /\ n = id
    BY <1>1, <2>1, BindMeaning
  <2>2. CASE ~(d = Depth /\ n = id)
    BY <1>1, <2>2, BindMeaning DEF NamesInv, MeaningsAreBound
  <2> QED
    BY <2>1, <2>2
<1>4. scopes' \in Seq(Scopes) /\ Len(scopes') = Len(scopes)
  BY RegisterOK, ScopesNotEmpty DEF TypeOK
<1>5. DOMAIN scopes' = DOMAIN scopes /\ scopes \in Seq(Scopes)
  BY <1>4 DEF TypeOK
<1>6. ASSUME ~skipped,
             NEW d \in DOMAIN frames, NEW n \in Ident, NEW m \in Slot,
             m = frames'[d].meaning[n], OneName(m)'
      PROVE  \E i \in DOMAIN scopes : i <= d /\ scopes'[i][m] = n
  <2>1. CASE d = Depth /\ n = id
    <3>1. m = meaning /\ slot = m
      BY <1>6, <2>1, BindMeaning
    <3>2. Len(scopes) \in DOMAIN scopes /\ Len(scopes) <= Depth
      BY <1>6 DEF TypeOK, Depth
    <3>3. scopes[Len(scopes)] \in Scopes /\ slot \in DOMAIN NoScope
      BY <1>5, <3>1, <3>2 DEF NoScope, Slot
    <3>4. scopes' = [scopes EXCEPT ![Len(scopes)] =
                       [scopes[Len(scopes)] EXCEPT ![slot] = id]]
      BY <1>6, <3>2, <3>3 DEF Register
    <3>5. scopes'[Len(scopes)] = [scopes[Len(scopes)] EXCEPT ![slot] = id]
      BY <3>2, <3>4
    <3>6. scopes'[Len(scopes)][m] = n
      BY <2>1, <3>1, <3>3, <3>5 DEF Scopes, Slot
    <3> QED
      BY <2>1, <3>2, <3>6
  <2>2. CASE ~(d = Depth /\ n = id)
    <3>1. m = frames[d].meaning[n]
      BY <1>6, <2>2, BindMeaning
    <3>2. OneName(m)
      BY <1>1, <1>6, OneNameBefore
    <3>3. PICK i \in DOMAIN scopes : i <= d /\ scopes[i][m] = n
      BY <1>6, <3>1, <3>2 DEF NamesInv, Slotted
    <3>4. CASE scopes'[i][m] = scopes[i][m]
      BY <3>3, <3>4
    <3>5. CASE scopes'[i][m] # scopes[i][m]
      <4>1. m = slot /\ scopes'[i][m] = id
        BY <3>5, RegisterAt
      <4>2. PICK b \in bindings : b.name = n /\ b.meaning = m
        <5>1. m # None
          BY <1>6, VisitorAssumption DEF Slot, Helper
        <5> QED
          BY <3>1, <5>1 DEF NamesInv, MeaningsAreBound
      <4>3. new.meaning = m /\ b \in bindings'
        BY <1>1, <4>1
      <4>4. n = id
        BY <1>1, <1>6, <4>2, <4>3 DEF OneName
      <4> QED
        BY <3>3, <4>1, <4>4
    <3> QED
      BY <3>4, <3>5
  <2> QED
    BY <2>1, <2>2
<1>7. Slotted'
  BY <1>2, <1>5, <1>6 DEF Slotted
<1> QED
  BY <1>3, <1>7 DEF NamesInv

(* Blocks open and close at the end of the stack. *)
LEMMA BlockNames ==
  ASSUME TypeOK, TypeOK', NamesInv, phase # "ended",
         UNCHANGED <<bindings, skipped>>,
         \A d \in DOMAIN frames' : \E e \in DOMAIN frames :
           /\ e <= d
           /\ frames'[d].meaning = frames[e].meaning
           /\ \A i \in DOMAIN scopes :
                i <= e => i \in DOMAIN scopes' /\ scopes'[i] = scopes[i]
  PROVE  NamesInv'
<1>1. MeaningsAreBound'
  BY DEF NamesInv, MeaningsAreBound
<1>2. ASSUME ~skipped, NEW d \in DOMAIN frames', NEW id \in Ident,
             NEW m \in Slot, m = frames'[d].meaning[id], OneName(m)'
      PROVE  \E i \in DOMAIN scopes' : i <= d /\ scopes'[i][m] = id
  <2>1. PICK e \in DOMAIN frames :
          /\ e <= d
          /\ frames'[d].meaning = frames[e].meaning
          /\ \A i \in DOMAIN scopes :
               i <= e => i \in DOMAIN scopes' /\ scopes'[i] = scopes[i]
    OBVIOUS
  <2>2. OneName(m)
    BY <1>2, OneNameBefore
  <2>3. PICK i \in DOMAIN scopes : i <= e /\ scopes[i][m] = id
    BY <1>2, <2>1, <2>2 DEF NamesInv, Slotted
  <2>4. i \in DOMAIN scopes' /\ scopes'[i][m] = id
    BY <2>1, <2>3
  <2>5. i <= d
    <3>1. e \in Int /\ i \in Int
      BY DEF TypeOK
    <3>2. d \in Int
      BY DEF TypeOK
    <3> QED
      BY <2>1, <2>3, <3>1, <3>2
  <2> QED
    BY <2>4, <2>5
<1>3. Slotted'
  BY <1>2 DEF Slotted
<1> QED
  BY <1>1, <1>3 DEF NamesInv
LEMMA InitNames == Init => NamesInv
<1> SUFFICES ASSUME Init PROVE NamesInv
  OBVIOUS
<1>1. \A d \in DOMAIN frames, id \in Ident : frames[d].meaning[id] = None
  <2> DEFINE frame == [declared |-> {}, meaning |-> [id \in Ident |-> None]]
  <2>1. frames = <<frame>> /\ \A id \in Ident : frame.meaning[id] = None
    BY DEF Init
  <2> HIDE DEF frame
  <2>2. \A d \in DOMAIN frames : frames[d] = frame
    <3>1. DOMAIN frames = {1}
      BY <2>1
    <3> QED
      BY <2>1, <3>1
  <2> QED
    BY <2>1, <2>2
<1>2. None \notin Slot
  BY VisitorAssumption DEF Slot, Helper
<1> QED
  BY <1>1, <1>2 DEF NamesInv, MeaningsAreBound, Slotted

LEMMA NextNames ==
  ASSUME TypeOK, TypeOK', NamesInv, [Next]_vars PROVE NamesInv'
<1>1. ASSUME NEW s \in Specifier, Import(s) PROVE NamesInv'
  <2> DEFINE slot == IF s.from = "package" THEN s.export ELSE "other"
             meaning == IF s.from = "package" /\ s.export \in Meaning
                        THEN s.export ELSE "other"
  <2>1. meaning \in Meaning /\ s.local \in Ident
    BY DEF Meaning, Specifier
  <2>2. slot \in Slot \/ meaning \in Slot => slot = meaning
    BY DEF Meaning, Slot, Helper
  <2>3. Register(slot, s.local) /\ Bind(s.local, meaning, "import")
    BY <1>1 DEF Import
  <2>4. phase # "ended" /\ UNCHANGED skipped
    BY <1>1 DEF Import
  <2> HIDE DEF slot, meaning
  <2> QED
    BY <2>1, <2>2, <2>3, <2>4, DeclareNames
<1>2. ASSUME NEW id \in Ident, NEW slot \in Slot, Require(slot, id)
      PROVE  NamesInv'
  <2>1. Register(slot, id) /\ Bind(id, slot, "require")
    BY <1>2 DEF Require
  <2>2. phase # "ended" /\ UNCHANGED skipped /\ slot \in Meaning
    BY <1>2 DEF Require, InBody, Slot, Meaning
  <2> QED
    BY <2>1, <2>2, DeclareNames
<1>3. ASSUME NEW id \in Ident, Declare(id) PROVE NamesInv'
  <2>1. Bind(id, "other", "declare") /\ UNCHANGED <<scopes, skipped>>
    BY <1>3 DEF Declare, InBody
  <2>2. phase # "ended" /\ "other" \in Meaning
    BY <1>3 DEF Declare, InBody, Meaning
  <2>3. Register("other", id)
    BY <2>1, <2>2, RegisterNothing
  <2> QED
    BY <2>1, <2>2, <2>3, DeclareNames
<1>4. ASSUME UNCHANGED <<scopes, frames, skipped>>, bindings \subseteq bindings',
             phase # "ended"
      PROVE  NamesInv'
  <2>1. MeaningsAreBound'
    BY <1>4 DEF NamesInv, MeaningsAreBound
  <2>2. \A m \in Slot : OneName(m)' => OneName(m)
    BY <1>4, OneNameBefore
  <2>3. Slotted'
    BY <1>4, <2>2 DEF NamesInv, Slotted
  <2> QED
    BY <2>1, <2>3 DEF NamesInv
<1>5. CASE EndImports
  BY <1>4, <1>5 DEF EndImports, visitor, lexical
<1>6. ASSUME NEW id \in Ident, Mention(id) PROVE NamesInv'
  BY <1>4, <1>6 DEF Mention, InBody
<1>7. ASSUME NEW ids, NEW locals, InBody, Discard(ids, locals)
      PROVE  NamesInv'
  BY <1>4, <1>7 DEF InBody, Discard
<1>8. ASSUME NEW c \in Callee, NEW ids \in SUBSET Ident,
             NEW locals \in SUBSET ids,
             \/ FoldIs(c)
             \/ RemoveBranch(c, ids, locals)
             \/ InlineWinner(c, ids, locals)
      PROVE  NamesInv'
  BY <1>7, <1>8 DEF FoldIs, RemoveBranch, InlineWinner
<1>9. CASE OpenBlock
  <2> DEFINE frame == [declared |-> {}, meaning |-> frames[Depth].meaning]
  <2>1. frames' = Append(frames, frame) /\ frames \in Seq(Frames)
        /\ Depth = Len(frames) /\ Depth \in DOMAIN frames
    BY <1>9 DEF OpenBlock, TypeOK, Depth
  <2>2. \A i \in DOMAIN scopes : i \in DOMAIN scopes' /\ scopes'[i] = scopes[i]
    BY <1>9 DEF OpenBlock, TypeOK
  <2>3. frame.meaning = frames[Depth].meaning
    OBVIOUS
  <2> HIDE DEF frame
  <2>4. ASSUME NEW d \in DOMAIN frames'
        PROVE  \E e \in DOMAIN frames :
                 e <= d /\ frames'[d].meaning = frames[e].meaning
    <3>1. CASE d \in DOMAIN frames
      <4>1. frames'[d] = frames[d] /\ d <= d
        BY <2>1, <3>1
      <4> QED
        BY <3>1, <4>1
    <3>2. CASE d \notin DOMAIN frames
      <4>1. d = Depth + 1 /\ frames'[d] = frame /\ Depth <= d
        BY <2>1, <3>2
      <4> QED
        BY <2>1, <2>3, <4>1
    <3> QED
      BY <3>1, <3>2
  <2>5. phase # "ended" /\ UNCHANGED <<bindings, skipped>>
    BY <1>9 DEF OpenBlock, InBody
  <2> QED
    BY <2>2, <2>4, <2>5, BlockNames
<1>10. CASE CloseBlock
  <2>1. Len(frames) \in Nat /\ Len(frames) > 1 /\ frames \in Seq(Frames)
        /\ frames' = SubSeq(frames, 1, Len(frames) - 1)
    BY <1>10 DEF CloseBlock, TypeOK, Depth
  <2>2. ASSUME NEW i \in DOMAIN scopes, i <= Len(frames) - 1
        PROVE  i \in DOMAIN scopes' /\ scopes'[i] = scopes[i]
    <3>1. CASE esModule
      BY <1>10, <3>1 DEF CloseBlock
    <3>2. CASE ~esModule
      <4>1. Len(scopes) = Len(frames) /\ scopes \in Seq(Scopes)
            /\ scopes' = SubSeq(scopes, 1, Len(scopes) - 1)
        BY <1>10, <3>2 DEF CloseBlock, TypeOK, Depth
      <4> QED
        BY <2>1, <2>2, <4>1
    <3> QED
      BY <3>1, <3>2
  <2>3. ASSUME NEW d \in DOMAIN frames'
        PROVE  /\ d \in DOMAIN frames /\ d <= d
               /\ frames'[d].meaning = frames[d].meaning
               /\ d <= Len(frames) - 1
    BY <2>1
  <2>4. ASSUME NEW d \in DOMAIN frames', NEW i \in DOMAIN scopes, i <= d
        PROVE  i \in DOMAIN scopes' /\ scopes'[i] = scopes[i]
    <3>1. i \in Int /\ d \in Int /\ Len(frames) - 1 \in Int
      BY <2>1 DEF TypeOK
    <3>2. i <= Len(frames) - 1
      BY <2>3, <2>4, <3>1
    <3> QED
      BY <2>2, <3>2
  <2>5. phase # "ended" /\ UNCHANGED <<bindings, skipped>>
    BY <1>10 DEF CloseBlock
  <2> QED
    BY <2>3, <2>4, <2>5, BlockNames
<1>11. CASE Finish
  BY <1>11 DEF Finish, lexical, NamesInv, MeaningsAreBound, Slotted
<1>12. CASE UNCHANGED vars
  BY <1>12 DEF vars, visitor, lexical, NamesInv, MeaningsAreBound, Slotted,
     OneName
<1> QED
  BY <1>1, <1>2, <1>3, <1>5, <1>6, <1>8, <1>9, <1>10, <1>11, <1>12
  DEF Next, Slot

(* A set of numbers up to n that is not empty has a greatest one. *)
LEMMA Greatest ==
  ASSUME NEW n \in Nat, NEW S \in SUBSET (1..n), S # {}
  PROVE  \E i \in S : \A j \in S : ~(j > i)
<1> DEFINE T == {n - i : i \in S}
           R == OpToRel(<, Nat)
<1>1. T \subseteq Nat /\ T # {}
  <2>1. PICK i \in S : TRUE
    OBVIOUS
  <2>2. n - i \in T
    BY <2>1
  <2>3. \A j \in S : n - j \in Nat
    OBVIOUS
  <2> QED
    BY <2>2, <2>3
<1>2. PICK x \in T : \A y \in T : ~(<<y, x>> \in R)
  <2>1. IsWellFoundedOn(R, Nat)
    BY NatLessThanWellFounded
  <2> HIDE DEF T, R
  <2> QED
    BY <1>1, <2>1, WFMin
<1>3. PICK i \in S : x = n - i
  BY <1>2
<1>4. ASSUME NEW j \in S, j > i PROVE FALSE
  <2>1. n - j \in T /\ n - j \in Nat /\ x \in Nat /\ n - j < x
    BY <1>1, <1>3, <1>4
  <2>2. <<n - j, x>> \in R
    BY <2>1 DEF OpToRel
  <2> QED
    BY <1>2, <2>1, <2>2
<1> QED
  BY <1>4

LEMMA NearestExists ==
  ASSUME TypeOK, NEW id, NEW i \in DOMAIN scopes, Names(i, id)
  PROVE  \E j \in DOMAIN scopes : Nearest(j, id)
<1> DEFINE S == {j \in DOMAIN scopes : Names(j, id)}
<1>1. S \in SUBSET (1..Len(scopes)) /\ i \in S /\ Len(scopes) \in Nat
  BY DEF TypeOK
<1>2. PICK j \in S : \A k \in S : ~(k > j)
  <2> HIDE DEF S
  <2> QED
    BY <1>1, Greatest
<1> QED
  BY <1>2 DEF Nearest

(* Whatever is registered is bound. *)
LEMMA RegisteredIsBound ==
  ASSUME TypeOK, Registered, MeaningsAreBound,
         NEW i \in DOMAIN scopes, NEW t \in Slot, NEW id \in Ident,
         scopes[i][t] = id
  PROVE  \E b \in bindings : b.name = id /\ b.meaning = t
<1>1. id # None /\ t # None
  BY VisitorAssumption DEF Slot, Helper
<1>2. CASE esModule
  BY <1>1, <1>2 DEF Registered, Slot
<1>3. CASE ~esModule
  <2>1. i \in DOMAIN frames /\ frames[i].meaning[id] = t
    BY <1>1, <1>3 DEF Registered, DeclaredAt, Slot, TypeOK, Depth
  <2> QED
    BY <1>1, <2>1 DEF MeaningsAreBound
<1> QED
  BY <1>2, <1>3

(* In files of any length and depth, a call of a name with one meaning is  *)
(* taken for the helper it is or for none, and for the helper if that has  *)
(* no second name.                                                         *)
THEOREM Resolves == Spec => []ResolvesTheBinding
<1>1. ASSUME TypeOK, Registered, NamesInv PROVE ResolvesTheBinding
  <2> SUFFICES ASSUME phase = "body", ~skipped, NEW c \in Callee,
                      Lexical(c.name) # None, OneMeaning(c.name)
               PROVE  /\ Resolve(c) \in {Denotes(c), None}
                      /\ OneName(Lexical(c.name)) => Resolve(c) = Denotes(c)
    BY DEF ResolvesTheBinding
  <2> DEFINE id == c.name
             m == Lexical(id)
  <2>1. id \in Ident /\ Depth \in DOMAIN frames
    BY <1>1 DEF Callee, TypeOK, Depth
  <2>2. m \in Meaning
    BY <1>1, <2>1, FrameOK DEF Lexical
  <2>3. PICK b \in bindings : b.name = id /\ b.meaning = m
    BY <1>1, <2>1 DEF NamesInv, MeaningsAreBound, Lexical
  <2>4. ASSUME NEW i \in DOMAIN scopes, NEW t \in Slot, scopes[i][t] = id
        PROVE  t = m
    <3>1. PICK b2 \in bindings : b2.name = id /\ b2.meaning = t
      BY <1>1, <2>1, <2>4, RegisteredIsBound DEF NamesInv
    <3> QED
      BY <2>3, <3>1, TwoBindings
  <2>5. ASSUME m \in Slot, OneName(m)
        PROVE  \E i \in DOMAIN scopes : scopes[i][m] = id
    BY <1>1, <2>1, <2>5 DEF NamesInv, Slotted, Lexical
  <2>6. c.property = None \/ c.property \in Helper
    BY DEF Callee
  <2> HIDE DEF id, m
  <2>7. ASSUME NEW j \in DOMAIN scopes, Nearest(j, id)
        PROVE  m \in Helper /\ ResolveLocal(id) = m
    <3>1. PICK h \in Helper : scopes[j][h] = id
      BY <2>7 DEF Nearest, Names
    <3>2. h = m
      BY <2>4, <3>1 DEF Slot
    <3>3. CASE m = "switch"
      BY <2>7, <3>1, <3>2, <3>3 DEF ResolveLocal
    <3>4. CASE m = "is"
      BY <2>4, <2>7, <3>4 DEF ResolveLocal, Slot, Helper
    <3> QED
      BY <3>1, <3>2, <3>3, <3>4 DEF Helper
  <2>8. ResolveLocal(id) = None \/ (m \in Helper /\ ResolveLocal(id) = m)
    BY <2>7 DEF ResolveLocal
  <2>9. ASSUME m \in Helper, OneName(m) PROVE ResolveLocal(id) = m
    <3>1. PICK i \in DOMAIN scopes : scopes[i][m] = id
      BY <2>5, <2>9 DEF Slot
    <3>2. PICK j \in DOMAIN scopes : Nearest(j, id)
      BY <1>1, <2>9, <3>1, NearestExists DEF Names
    <3> QED
      BY <2>7, <3>2
  <2>10. IsNamespace(id) => m = "namespace"
    BY <2>4 DEF IsNamespace, Slot
  <2>11. m = "namespace" /\ OneName(m) => IsNamespace(id)
    BY <2>5 DEF IsNamespace, Slot
  <2>12. CASE c.property = None
    BY <2>8, <2>9, <2>12 DEF Resolve, Denotes, id, m
  <2>13. CASE c.property # None
    BY <2>10, <2>11, <2>13 DEF Resolve, Denotes, id, m
  <2> QED
    BY <2>12, <2>13
<1>2. TypeOK /\ Registered /\ [Next]_vars => Registered'
  BY NextRegistered
<1>3. TypeOK /\ TypeOK' /\ NamesInv /\ [Next]_vars => NamesInv'
  BY NextNames
<1> QED
  BY <1>1, <1>2, <1>3, InitRegistered, InitNames, TypeInvariant, PTL DEF Spec
=============================================================================
