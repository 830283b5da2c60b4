---------------------------- MODULE ModuleVisitor ----------------------------
(***************************************************************************)
(* The plugin's traversal of one file (TransformVisitor in                 *)
(* swc-plugin/src/transform.rs): which names it takes for the package's    *)
(* helpers, and which imports it drops at the end.                         *)
(*                                                                         *)
(* A file is the events of its traversal.  Whether a helper call can be    *)
(* decided is the subject of CompiledCalls and nondeterministic here.      *)
(* Beside the visitor's own state the module keeps what JavaScript's       *)
(* lexical scoping says of the same file (frames, bindings, live, dead).   *)
(* Imports come first, and every declaration before the uses of its name.  *)
(***************************************************************************)
EXTENDS Integers, Sequences

CONSTANTS
  Ident,     \* the names in the file
  None,      \* no name, or no helper
  MaxItems,  \* bound: the events of a file
  MaxDepth   \* bound: nested blocks, and the file itself

ASSUME VisitorAssumption ==
  /\ None \notin Ident \cup {"is", "switch", "namespace"}
  /\ MaxItems \in Nat
  /\ MaxDepth \in Nat \ {0}

Helper == {"is", "switch"}

(* What a declaration binds a name to. *)
Meaning == Helper \cup {"namespace", "other"}

(* helper(...), and the call of a property of a name, ns.helper(...) *)
Callee == [name: Ident, property: Helper \cup {None}]

Specifier ==
  [from: {"package"}, local: Ident,
   export: Helper \cup {"namespace", "default", "quoted", "other"}]
  \cup [from: {"elsewhere"}, local: Ident, export: {"other"}]

VARIABLES
  esModule,     \* is_es_module: an ES module, not a script
  skipped,      \* an ES module without a top-level reference to the package
  phase,        \* "imports", "body" or "ended"
  items,        \* events so far
  scopes,       \* the visitor's: helper or "namespace" -> its local name
  imports,      \* the import specifiers of the file
  used,         \* names in the code that stays
  discarded,    \* discarded_idents: names in the code that went
  didTransform,
  failed,       \* an error was reported
  frames,       \* blocks: the names each declares, the meaning of every name
  bindings,     \* all declarations so far
  live,         \* imports the code that stays refers to
  dead          \* imports the code that went refers to

visitor == <<scopes, imports, used, discarded, didTransform, failed>>
lexical == <<frames, bindings, live, dead>>
vars == <<esModule, skipped, phase, items, visitor, lexical>>

NoScope == [s \in Helper \cup {"namespace"} |-> None]

Init ==
  /\ esModule \in BOOLEAN
  /\ skipped \in IF esModule THEN BOOLEAN ELSE {FALSE}
  /\ phase = IF esModule THEN "imports" ELSE "body"
  /\ items = 0
  /\ scopes = IF skipped THEN <<>> ELSE <<NoScope>>
  /\ imports = {}
  /\ used = {} /\ discarded = {}
  /\ didTransform = FALSE /\ failed = FALSE
  /\ frames = <<[declared |-> {}, meaning |-> [id \in Ident |-> None]]>>
  /\ bindings = {}
  /\ live = {} /\ dead = {}

Count == items < MaxItems /\ items' = items + 1

InBody == phase = "body" /\ Count /\ UNCHANGED <<esModule, skipped, phase>>

-----------------------------------------------------------------------------
(* JavaScript's scoping *)

Depth == Len(frames)

(* A block declares a name once. *)
Bind(id, meaning, by) ==
  /\ id \notin frames[Depth].declared
  /\ frames' = [frames EXCEPT ![Depth] =
       [declared |-> @.declared \cup {id},
        meaning |-> [@.meaning EXCEPT ![id] = meaning]]]
  /\ bindings' = bindings \cup {[name |-> id, meaning |-> meaning, by |-> by]}
  /\ UNCHANGED <<live, dead>>

Lexical(id) == frames[Depth].meaning[id]

(* The imports among the names ids, where no inner declaration hides them. *)
Imported(ids) ==
  {id \in ids : /\ \E s \in imports : s.local = id
                /\ \A d \in 2..Depth : id \notin frames[d].declared}

(* The helper that a callee is. *)
Denotes(c) ==
  CASE c.property = None /\ Lexical(c.name) \in Helper -> Lexical(c.name)
    [] c.property # None /\ Lexical(c.name) = "namespace" -> c.property
    [] OTHER -> None

-----------------------------------------------------------------------------
(* The visitor's idea of it *)

(* Mutant: a name is registered for the file, whichever block it is in.    *)
RegisterInFile(slot, id) ==
  scopes' = IF skipped \/ slot \notin DOMAIN NoScope THEN scopes
            ELSE [scopes EXCEPT ![1][slot] = id]

(* register_export_name and namespace_local, in current_scope() *)
Register(slot, id) ==
  scopes' = IF skipped \/ slot \notin DOMAIN NoScope THEN scopes
            ELSE [scopes EXCEPT ![Len(scopes)][slot] = id]

(* The innermost scope in which id is a helper's name. *)
Names(i, id) == \E h \in Helper : scopes[i][h] = id

Nearest(i, id) ==
  Names(i, id) /\ \A j \in DOMAIN scopes : j > i => ~Names(j, id)

(* resolve_local *)
ResolveLocal(id) ==
  IF \E i \in DOMAIN scopes : Nearest(i, id) /\ scopes[i]["switch"] = id
  THEN "switch"
  ELSE IF \E i \in DOMAIN scopes : Nearest(i, id) THEN "is" ELSE None

(* Mutant: only the innermost scope is searched for a namespace. *)
IsNamespaceHere(id) ==
  scopes # <<>> /\ scopes[Len(scopes)]["namespace"] = id

IsNamespace(id) == \E i \in DOMAIN scopes : scopes[i]["namespace"] = id

(* resolve_helper *)
Resolve(c) ==
  CASE c.property = None -> ResolveLocal(c.name)
    [] c.property # None /\ IsNamespace(c.name) -> c.property
    [] OTHER -> None

(* visit_mut_import_decl *)
Import(s) ==
  /\ phase = "imports"
  /\ Count
  /\ skipped => s.from = "elsewhere"
  /\ imports' = imports \cup {s}
  /\ Register(IF s.from = "package" THEN s.export ELSE "other", s.local)
  /\ failed' = (failed \/ s.export = "quoted")
  /\ Bind(s.local, IF s.from = "package" /\ s.export \in Meaning
                   THEN s.export ELSE "other", "import")
  /\ UNCHANGED <<esModule, skipped, phase, used, discarded, didTransform>>

EndImports ==
  /\ phase = "imports"
  /\ phase' = "body"
  /\ UNCHANGED <<esModule, skipped, items, visitor, lexical>>

(* visit_mut_var_declarator: const id = require(...) for a namespace, or   *)
(* const { helper: id } = require(...)                                     *)
Require(slot, id) ==
  /\ InBody
  /\ skipped => Depth > 1
  /\ Register(slot, id)
  /\ used' = used \cup {id}
  /\ Bind(id, slot, "require")
  /\ UNCHANGED <<imports, discarded, didTransform, failed>>

(* Any other declaration: the visitor does not see that it declares.       *)
Declare(id) ==
  /\ InBody
  /\ used' = used \cup {id}
  /\ Bind(id, "other", "declare")
  /\ UNCHANGED <<scopes, imports, discarded, didTransform, failed>>

(* visit_mut_block_stmt *)
OpenBlock ==
  /\ InBody
  /\ Depth < MaxDepth
  /\ frames' = Append(frames, [declared |-> {},
                               meaning |-> frames[Depth].meaning])
  /\ scopes' = IF esModule THEN scopes ELSE Append(scopes, NoScope)
  /\ UNCHANGED <<imports, used, discarded, didTransform, failed,
                 bindings, live, dead>>

(* Mutant: a scope, once opened, stays open. *)
LeaveScopeOpen ==
  /\ phase = "body"
  /\ Depth > 1
  /\ frames' = SubSeq(frames, 1, Depth - 1)
  /\ UNCHANGED <<esModule, skipped, phase, items, visitor,
                 bindings, live, dead>>

CloseBlock ==
  /\ phase = "body"
  /\ Depth > 1
  /\ frames' = SubSeq(frames, 1, Depth - 1)
  /\ scopes' = IF esModule THEN scopes ELSE SubSeq(scopes, 1, Len(scopes) - 1)
  /\ UNCHANGED <<esModule, skipped, phase, items, imports, used, discarded,
                 didTransform, failed, bindings, live, dead>>

(* A name in code that stays, a callee among others. *)
Mention(id) ==
  /\ InBody
  /\ used' = used \cup {id}
  /\ live' = live \cup Imported({id})
  /\ UNCHANGED <<scopes, imports, discarded, didTransform, failed,
                 frames, bindings, dead>>

(* discard, of code with the names ids, which itself declares locals.      *)
Discard(ids, locals) ==
  /\ didTransform' = TRUE
  /\ discarded' = discarded \cup ids
  /\ dead' = dead \cup Imported(ids \ locals)
  /\ bindings' = bindings \cup
       {[name |-> id, meaning |-> "other", by |-> "declare"] : id \in locals}
  /\ UNCHANGED <<scopes, imports, used, failed, frames, live>>

(* transform_is, with a known result: the callee is gone, not discarded.   *)
(* Also an `if` that is kept because its dead branch declares a var.       *)
FoldIs(c) ==
  /\ InBody
  /\ Resolve(c) = "is"
  /\ Discard({}, {})

(* visit_mut_stmt: the other branch is in the events that follow.          *)
RemoveBranch(c, ids, locals) ==
  /\ InBody
  /\ Resolve(c) = "is"
  /\ Discard(ids, locals)

(* transform_switch: the winner is in the events around. *)
InlineWinner(c, ids, locals) ==
  /\ InBody
  /\ Resolve(c) = "switch"
  /\ Discard(ids, locals)

(* Mutant: the helpers' specifiers go whether something uses them or not.  *)
RetainedUnlessHelper(s) ==
  IF s.from = "package"
  THEN s.export \notin Helper \cup {"namespace"}
  ELSE s.local \in used \/ s.local \notin discarded

(* Mutant: every import that is not used goes. *)
RetainedIfUsed(s) == s.local \in used

Retained(s) ==
  \/ s.local \in used
  \/ s.from = "package" /\ s.export \notin Helper \cup {"namespace"}
  \/ s.from = "elsewhere" /\ s.local \notin discarded

(* The end of visit_mut_program, with cleanup_imports *)
Finish ==
  /\ phase = "body"
  /\ Depth = 1
  /\ phase' = "ended"
  /\ scopes' = <<>>
  /\ imports' = IF esModule /\ didTransform
                THEN {s \in imports : Retained(s)} ELSE imports
  /\ UNCHANGED <<esModule, skipped, items, used, discarded, didTransform,
                 failed, lexical>>

Next ==
  \/ \E s \in Specifier : Import(s)
  \/ EndImports
  \/ \E id \in Ident : \/ \E slot \in Helper \cup {"namespace"} :
                            Require(slot, id)
                       \/ Declare(id)
                       \/ Mention(id)
  \/ OpenBlock
  \/ CloseBlock
  \/ \E c \in Callee : FoldIs(c)
  \/ \E c \in Callee, ids \in SUBSET Ident : \E locals \in SUBSET ids :
       RemoveBranch(c, ids, locals) \/ InlineWinner(c, ids, locals)
  \/ Finish

Spec == Init /\ [][Next]_vars

-----------------------------------------------------------------------------

Scopes == [Helper \cup {"namespace"} -> Ident \cup {None}]
Frames == [declared: SUBSET Ident,
           meaning: [Ident -> Meaning \cup {None}]]

(* The type invariant.  The visitor is never without a scope while it      *)
(* traverses (current_scope() would panic): one for an ES module, one for  *)
(* every open block of a script.                                           *)
TypeOK ==
  /\ esModule \in BOOLEAN /\ skipped \in BOOLEAN
  /\ skipped => esModule
  /\ phase \in {"imports", "body", "ended"}
  /\ items \in 0..MaxItems
  /\ scopes \in Seq(Scopes)
  /\ imports \subseteq Specifier
  /\ used \subseteq Ident /\ discarded \subseteq Ident
  /\ didTransform \in BOOLEAN /\ failed \in BOOLEAN
  /\ frames \in Seq(Frames) /\ frames # <<>>
  /\ bindings \subseteq [name: Ident, meaning: Meaning,
                         by: {"import", "require", "declare"}]
  /\ live \subseteq used /\ dead \subseteq discarded
  /\ Len(scopes) = IF skipped \/ phase = "ended" THEN 0
                   ELSE IF esModule THEN 1 ELSE Depth
  /\ phase # "body" => Depth = 1

(* In a script, and in an ES module that requires nothing, a call is       *)
(* rewritten only if the file or a block around it binds its name to that  *)
(* helper or to the package: what one function requires is not taken for a *)
(* helper in another.  In an ES module it is: the file has one scope, in   *)
(* which a require of any function registers (visit_mut_block_stmt).  The  *)
(* innermost binding may be another one (ShadowingRespected).              *)
RewritesAreBound ==
  ~esModule \/ (\A b \in bindings : b.by # "require") =>
    \A c \in Callee :
      Resolve(c) # None =>
        \E d \in 1..Depth :
          frames[d].meaning[c.name] =
            IF c.property = None THEN Resolve(c) ELSE "namespace"

(* What the two theorems on calls and imports rest on: a registered name   *)
(* is declared so, in a script by the block of its scope, in an ES module  *)
(* by the file, if not by a require somewhere; a live import is there      *)
(* until the cleanup.                                                      *)
DeclaredAt(d, id, meaning) ==
  id \in frames[d].declared /\ frames[d].meaning[id] = meaning

Registered ==
  \A i \in DOMAIN scopes, slot \in Helper \cup {"namespace"} :
    scopes[i][slot] # None =>
      LET id == scopes[i][slot] IN
      IF esModule
      THEN \E b \in bindings :
             /\ b.name = id /\ b.meaning = slot
             /\ b.by = "require" \/ DeclaredAt(1, id, slot)
      ELSE DeclaredAt(i, id, slot)

LiveImported ==
  phase # "ended" => \A id \in live : \E s \in imports : s.local = id

IInv == TypeOK /\ Registered /\ LiveImported

OneMeaning(id) ==
  \A b1, b2 \in {b \in bindings : b.name = id} : b1 = b2

OneName(meaning) ==
  \A b1, b2 \in {b \in bindings : b.meaning = meaning} : b1.name = b2.name

(* Of a name that is declared with one meaning only, a call is never taken *)
(* for a helper it is not, whatever blocks have opened and closed since.   *)
(* If moreover the helper has no second name in the file (each slot of a   *)
(* scope holds one, the last registered), the call is rewritten exactly    *)
(* when its callee is the helper.                                          *)
ResolvesTheBinding ==
  phase = "body" /\ ~skipped =>
    \A c \in Callee :
      Lexical(c.name) # None /\ OneMeaning(c.name) =>
        /\ Resolve(c) \in {Denotes(c), None}
        /\ OneName(Lexical(c.name)) => Resolve(c) = Denotes(c)

(* The cleanup never drops an import that the remaining code refers to.    *)
LiveImportsKept ==
  phase = "ended" => \A id \in live : \E s \in imports : s.local = id

(* Of the imports whose name is declared once, the cleanup drops exactly   *)
(* those the remaining code has no use for: the package's helpers and      *)
(* namespace, and what the dead branches referred to.                      *)
ImportsAreExact ==
  [][Finish /\ esModule /\ didTransform =>
       \A s \in imports :
         OneMeaning(s.local) =>
           (s \in imports' <=>
              \/ s.local \in live
              \/ s.from = "package" /\ s.export \notin Helper \cup {"namespace"}
              \/ s.from = "elsewhere" /\ s.local \notin dead)]_vars

-----------------------------------------------------------------------------

(* transform.rs: resolve_helper "Determines whether the callee is a call   *)
(* to one of the package helpers".  A name that a block declares anew is   *)
(* not.                                                                    *)
ShadowingRespected ==
  \A c \in Callee : Lexical(c.name) = "other" => Resolve(c) = None

(* transform.rs: "From other imports, only values from dead branches are   *)
(* removed".                                                               *)
OnlyDeadValuesDropped ==
  [][Finish => \A s \in imports \ imports' :
       s.from = "elsewhere" => s.local \in dead]_vars
=============================================================================
