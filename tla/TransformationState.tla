------------------------- MODULE TransformationState -------------------------
(***************************************************************************)
(* The revisioned Prompt Document of a Run and the Patches that change it   *)
(* (packages/core/src/transformation-state.ts): a Patch is applied to a     *)
(* private candidate, operation by operation, and then committed whole or   *)
(* refused.                                                                *)
(*                                                                         *)
(* A text is a sequence of Unicode scalars, and where its graphemes start   *)
(* may depend on all of it: it is for Intl.Segmenter to say.  A digest is   *)
(* the text it was taken of, and a JSON value is a text.  A quote without   *)
(* prefix or suffix is one with an empty one.                               *)
(***************************************************************************)
EXTENDS Integers, Sequences, FiniteSets, SequencesExt, FiniteSetsExt

CONSTANTS
  Blocks,          (* block ids                                            *)
  NoBlock,         (* an insertion without beforeBlockId                   *)
  Scalars,         (* Unicode scalars                                      *)
  Segments(_),     (* of a text: how many scalars are in front of each     *)
                   (* segment that Intl.Segmenter finds in it              *)
  Keys,            (* extension keys                                       *)
  OwnedKeys,       (* those of the invoking Plugin                         *)
  NoValue,         (* a key that is not set                                *)
  MaxBlocks,       (* maxItems of `content' in prompt-document.schema.json *)
  Documents,       (* the documents a state may be created with            *)
  Proposals(_, _), (* the Patches that may be proposed, by document and revision *)
  MaxRevision      (* bound: the last revision a Patch is proposed for     *)

VARIABLES
  document,
  revision,
  pc,              (* "idle", or "apply" inside applyPatch                 *)
  patch,
  next,            (* the operation of `patch' to be applied               *)
  candidate,       (* Candidate.document                                   *)
  textEdits,       (* Candidate.textEdits: per block, what was replaced    *)
  changes,         (* Candidate.changes                                    *)
  outcome          (* of the last Patch: "applied" or a PatchFailureCode   *)

accepted == <<document, revision>>
vars == <<accepted, pc, patch, next, candidate, textEdits, changes, outcome>>

(* What the schemas say of a Patch and of a document (packages/protocol).    *)
Text == Seq(Scalars)
TextBlock == [id : Blocks, text : Text]
TextSelector ==
  [block : Blocks, revision : Nat, start : Nat, end : Nat, exact : Text, prefix : Text, suffix : Text]
PatchOperation ==
  [type : {"replace-text"}, selector : TextSelector, text : Text]
    \cup [type : {"insert-content-block"}, block : TextBlock, before : Blocks \cup {NoBlock}]
    \cup [type : {"replace-content-block"}, blockId : Blocks, expected : Text, block : TextBlock]
    \cup [type : {"remove-content-block"}, blockId : Blocks, expected : Text]
    \cup [type : {"set-namespaced-extension"}, key : Keys, value : Text]
Patch == [baseRevision : Nat, operations : Seq(PatchOperation) \ {<<>>}]
PromptDocument ==
  [content : Seq(TextBlock), protections : Seq(TextSelector),
   extensions : [Keys -> Text \cup {NoValue}]]

(* createTransformationState is called with a document.                    *)
ASSUME DocumentsAssumption == Documents \subseteq PromptDocument
ASSUME BlocksAssumption == NoBlock \notin Blocks
ASSUME MaxBlocksAssumption == MaxBlocks \in Nat

NoPatch == [baseRevision |-> 0, operations |-> <<>>]
NoFailure == "none"

-----------------------------------------------------------------------------
(* Blocks, selectors and protections                                       *)

Ids(doc) == {doc.content[i].id : i \in DOMAIN doc.content}
IndexOf(doc, id) == CHOOSE i \in DOMAIN doc.content : doc.content[i].id = id
TextOf(doc, id) == doc.content[IndexOf(doc, id)].text
(* Past its end a text has no units. *)
Slice(text, start, end) == SubSeq(text, start + 1, Min({end, Len(text)}))

Overlap(a, b) == a.block = b.block /\ a.start < b.end /\ b.start < a.end

Boundary(text, i) == i \in {0, Len(text)} \cup Segments(text)

SelectorFailure(sel, text, rev) ==
  IF sel.revision # rev THEN "stale-selector"
  ELSE IF ~(0 <= sel.start /\ sel.start <= sel.end /\ sel.end <= Len(text))
  THEN "invalid-selector"
  ELSE IF ~(Boundary(text, sel.start) /\ Boundary(text, sel.end)) THEN "invalid-selector"
  ELSE IF /\ Slice(text, sel.start, sel.end) = sel.exact
          /\ IsSuffix(sel.prefix, Slice(text, 0, sel.start))
          /\ IsPrefix(sel.suffix, Slice(text, sel.end, Len(text)))
  THEN NoFailure
  ELSE "quote-mismatch"

(* validateDocumentState: the first failure.                               *)
ProtectionFailure(doc, rev, sel) ==
  IF sel.block \notin Ids(doc) THEN "unknown-block"
  ELSE SelectorFailure(sel, TextOf(doc, sel.block), rev)
Failing(doc, rev) ==
  {i \in DOMAIN doc.protections : ProtectionFailure(doc, rev, doc.protections[i]) # NoFailure}
DocumentFailure(doc, rev) ==
  IF Len(doc.content) \notin 1..MaxBlocks THEN "invalid-document"
  ELSE IF Cardinality(Ids(doc)) # Len(doc.content) THEN "duplicate-block"
  ELSE IF Failing(doc, rev) = {} THEN NoFailure
  ELSE ProtectionFailure(doc, rev, doc.protections[Min(Failing(doc, rev))])

Init ==
  /\ document \in Documents
  /\ revision = 0
  /\ DocumentFailure(document, revision) = NoFailure
  /\ pc = "idle"
  /\ patch = NoPatch
  /\ next = 1
  /\ candidate = document
  /\ textEdits = [b \in Blocks |-> <<>>]
  /\ changes = <<>>
  /\ outcome = NoFailure

-----------------------------------------------------------------------------
(* applyPatch, before anything is applied                                  *)

Mutates(op) ==
  CASE op.type = "replace-text" -> {op.selector.block}
    [] op.type \in {"replace-content-block", "remove-content-block"} -> {op.blockId}
    [] OTHER -> {}

(* A block that is replaced or removed is not touched by another operation. *)
Conflicting(ops) ==
  \E i, j \in DOMAIN ops :
    i # j /\ ops[i].type # "replace-text" /\ Mutates(ops[i]) \cap Mutates(ops[j]) # {}

TextFailure(op) ==
  IF op.selector.block \notin Ids(document) THEN "unknown-block"
  ELSE LET failure == SelectorFailure(op.selector, TextOf(document, op.selector.block), revision)
       IN IF failure # NoFailure THEN failure
          ELSE IF \E i \in DOMAIN document.protections :
                    Overlap(document.protections[i], op.selector)
          THEN "protected-span"
          ELSE NoFailure

EarlyFailure(p) ==
  LET failing == {i \in DOMAIN p.operations : /\ p.operations[i].type = "replace-text"
                                              /\ TextFailure(p.operations[i]) # NoFailure}
  IN IF p \notin Patch THEN "invalid-patch"
     ELSE IF p.baseRevision # revision THEN "stale-revision"
     ELSE IF Conflicting(p.operations) THEN "conflicting-operations"
     ELSE IF failing # {} THEN TextFailure(p.operations[Min(failing)])
     ELSE NoFailure

(* Whatever was applied to the candidate is dropped with it.               *)
FaultRefuse(code) ==
  /\ outcome' = code
  /\ pc' = "idle"
  /\ patch' = NoPatch
  /\ next' = 1
  /\ document' = candidate
  /\ UNCHANGED <<revision, candidate>>
  /\ textEdits' = [b \in Blocks |-> <<>>]
  /\ changes' = <<>>

Refuse(code) ==
  /\ outcome' = code
  /\ pc' = "idle"
  /\ patch' = NoPatch
  /\ next' = 1
  /\ candidate' = document
  /\ textEdits' = [b \in Blocks |-> <<>>]
  /\ changes' = <<>>
  /\ UNCHANGED accepted

RefusePatch(p) ==
  /\ EarlyFailure(p) # NoFailure
  /\ Refuse(EarlyFailure(p))

BeginPatch(p) ==
  /\ EarlyFailure(p) = NoFailure
  /\ pc' = "apply"
  /\ patch' = p
  /\ outcome' = NoFailure
  /\ UNCHANGED <<accepted, next, candidate, textEdits, changes>>

-----------------------------------------------------------------------------
(* applyOperation                                                          *)

op == patch.operations[next]
Applying(type) == pc = "apply" /\ next <= Len(patch.operations) /\ op.type = type

(* A Fault... definition is the one after it with a plausible bug; only     *)
(* mutation runs use it.                                                   *)
FaultProtected(id) == \E i \in DOMAIN candidate.protections :
  candidate.protections[i].block = id /\ candidate.protections[i].start > 0
Protected(id) == \E i \in DOMAIN candidate.protections : candidate.protections[i].block = id

OperationFailure ==
  CASE op.type = "replace-text" ->
         IF op.selector.block \notin Ids(candidate) THEN "unknown-block"
         ELSE IF \E i \in DOMAIN textEdits[op.selector.block] :
                   Overlap(op.selector, textEdits[op.selector.block][i].selector)
         THEN "conflicting-operations"
         ELSE NoFailure
    [] op.type = "insert-content-block" ->
         IF op.block.id \in Ids(candidate) THEN "duplicate-block"
         ELSE IF op.before \notin Ids(candidate) \cup {NoBlock} THEN "unknown-block"
         ELSE NoFailure
    [] op.type \in {"replace-content-block", "remove-content-block"} ->
         IF op.type = "remove-content-block" /\ Len(candidate.content) = 1
         THEN "invalid-document"
         ELSE IF op.blockId \notin Ids(candidate) THEN "unknown-block"
         ELSE IF op.expected # TextOf(candidate, op.blockId) THEN "precondition-failed"
         ELSE IF Protected(op.blockId) THEN "protected-span"
         ELSE IF op.type = "replace-content-block" /\ op.block.id # op.blockId
         THEN "invalid-document"
         ELSE NoFailure
    [] op.type = "set-namespaced-extension" ->
         IF op.key \in OwnedKeys THEN NoFailure ELSE "invalid-namespace"

RefuseOperation ==
  /\ pc = "apply"
  /\ next <= Len(patch.operations)
  /\ OperationFailure # NoFailure
  /\ Refuse(OperationFailure)

Delta(edit) == Len(edit.text) - (edit.selector.end - edit.selector.start)
Shift(sel, by) == [sel EXCEPT !.start = @ + by, !.end = @ + by]

FaultRebaseRange(sel, edits) ==
  LET by[n \in 0..Len(edits)] ==
        IF n = 0 THEN 0
        ELSE by[n - 1] + IF edits[n].selector.end < sel.start THEN Delta(edits[n]) ELSE 0
  IN Shift(sel, by[Len(edits)])

(* Where a selector of the base revision is after the edits before it.      *)
RebaseRange(sel, edits) ==
  LET by[n \in 0..Len(edits)] ==
        IF n = 0 THEN 0
        ELSE by[n - 1] + IF edits[n].selector.end <= sel.start THEN Delta(edits[n]) ELSE 0
  IN Shift(sel, by[Len(edits)])

FaultRebaseProtection(protection, edit) ==
  IF edit.selector.block = protection.block /\ edit.selector.end < protection.start
  THEN Shift(protection, Delta(edit)) ELSE protection
RebaseProtection(protection, edit) ==
  IF edit.selector.block = protection.block /\ edit.selector.end <= protection.start
  THEN Shift(protection, Delta(edit)) ELSE protection

FaultChange(id, before, after) ==
  [type |-> op.type, block |-> id,
   before |-> IF id \in Ids(document) THEN {TextOf(document, id)} ELSE {}, after |-> after]
Change(id, before, after) == [type |-> op.type, block |-> id, before |-> before, after |-> after]

Apply(doc, change) ==
  /\ OperationFailure = NoFailure
  /\ candidate' = doc
  /\ changes' = Append(changes, change)
  /\ next' = next + 1
  /\ UNCHANGED <<accepted, pc, patch, outcome>>

ApplyReplaceText ==
  LET id == op.selector.block
      text == TextOf(candidate, id)
      sel == RebaseRange(op.selector, textEdits[id])
      replaced == Slice(text, 0, sel.start) \o op.text \o Slice(text, sel.end, Len(text))
      edit == [selector |-> sel, text |-> op.text]
  IN
  /\ Applying("replace-text")
  /\ Apply([candidate EXCEPT
              !.content[IndexOf(candidate, id)].text = replaced,
              !.protections = [i \in DOMAIN @ |-> RebaseProtection(@[i], edit)]],
           Change(id, {text}, {replaced}))
  /\ textEdits' = [textEdits EXCEPT ![id] = Append(@, [selector |-> op.selector, text |-> op.text])]

ApplyInsertBlock ==
  LET place == IF op.before = NoBlock THEN Len(candidate.content) + 1
               ELSE IndexOf(candidate, op.before)
  IN
  /\ Applying("insert-content-block")
  /\ Apply([candidate EXCEPT !.content = InsertAt(@, place, op.block)],
           Change(op.block.id, {}, {op.block.text}))
  /\ UNCHANGED textEdits

ApplyReplaceBlock ==
  LET place == IndexOf(candidate, op.blockId)
  IN
  /\ Applying("replace-content-block")
  /\ Apply([candidate EXCEPT !.content[place] = op.block],
           Change(op.blockId, {TextOf(candidate, op.blockId)}, {op.block.text}))
  /\ UNCHANGED textEdits

ApplyRemoveBlock ==
  /\ Applying("remove-content-block")
  /\ Apply([candidate EXCEPT !.content = RemoveAt(@, IndexOf(candidate, op.blockId))],
           Change(op.blockId, {TextOf(candidate, op.blockId)}, {}))
  /\ UNCHANGED textEdits

ApplyExtension ==
  /\ Applying("set-namespaced-extension")
  /\ Apply([candidate EXCEPT !.extensions[op.key] = op.value],
           Change(NoBlock, {candidate.extensions[op.key]} \ {NoValue}, {op.value}))
  /\ UNCHANGED textEdits

-----------------------------------------------------------------------------
(* finalizeCandidate                                                       *)

FaultRenewed(doc, rev) == doc
Renewed(doc, rev) ==
  [doc EXCEPT !.protections = [i \in DOMAIN @ |-> [@[i] EXCEPT !.revision = rev]]]
Final == Renewed(candidate, revision + 1)
FinalFailure == DocumentFailure(Final, revision + 1)
Finalizing == pc = "apply" /\ next > Len(patch.operations)

Commit ==
  /\ Finalizing
  /\ FinalFailure = NoFailure
  /\ document' = Final
  /\ revision' = revision + 1
  /\ candidate' = Final
  /\ outcome' = "applied"
  /\ pc' = "idle"
  /\ patch' = NoPatch
  /\ next' = 1
  /\ textEdits' = [b \in Blocks |-> <<>>]
  /\ changes' = <<>>

RefuseCandidate ==
  /\ Finalizing
  /\ FinalFailure # NoFailure
  /\ Refuse(FinalFailure)

ApplyOperation ==
  \/ ApplyReplaceText \/ ApplyInsertBlock \/ ApplyReplaceBlock
  \/ ApplyRemoveBlock \/ ApplyExtension

Next ==
  \/ /\ pc = "idle" /\ revision <= MaxRevision
     /\ \E p \in Proposals(document, revision) : RefusePatch(p) \/ BeginPatch(p)
  \/ ApplyOperation
  \/ RefuseOperation
  \/ Commit
  \/ RefuseCandidate

Spec == Init /\ [][Next]_vars

-----------------------------------------------------------------------------
(* Properties                                                              *)

FailureCodes ==
  {"invalid-patch", "stale-revision", "stale-selector", "unknown-block", "invalid-selector",
   "quote-mismatch", "protected-span", "precondition-failed", "duplicate-block",
   "invalid-namespace", "conflicting-operations", "invalid-document"}

Selectors(p) ==
  {p.operations[i].selector : i \in {j \in DOMAIN p.operations : p.operations[j].type = "replace-text"}}
Texts(p) ==
  {p.operations[i].text : i \in {j \in DOMAIN p.operations : p.operations[j].type = "replace-text"}}

(* Every variable has its type; the accepted document is always one a state *)
(* may be created with, and the candidate never repeats an id, never runs   *)
(* empty and never leaves a protection without its block.                  *)
WellFormed(doc) ==
  /\ Cardinality(Ids(doc)) = Len(doc.content) /\ Ids(doc) \subseteq Blocks /\ Ids(doc) # {}
  /\ \A i \in DOMAIN doc.protections : doc.protections[i].block \in Ids(doc)
  /\ DOMAIN doc.extensions = Keys
TypeOK ==
  /\ revision \in Nat /\ pc \in {"idle", "apply"}
  /\ WellFormed(document) /\ DocumentFailure(document, revision) = NoFailure
  /\ WellFormed(candidate)
  /\ next \in 1..Len(patch.operations) + 1 /\ Len(changes) = next - 1
  /\ textEdits \in [Blocks -> Seq([selector : Selectors(patch), text : Texts(patch)])]
  /\ outcome \in FailureCodes \cup {NoFailure, "applied"}

(* What edits declared against one text make of it when all are applied at  *)
(* once: before each unit what is inserted there, in the order of the Patch, *)
(* then what replaces it and the units after it.                           *)
Inserted(edits, p) ==
  LET upto[n \in 0..Len(edits)] ==
        IF n = 0 THEN <<>>
        ELSE upto[n - 1] \o IF edits[n].selector.start = p /\ edits[n].selector.end = p
                            THEN edits[n].text ELSE <<>>
  IN upto[Len(edits)]
Kept(text, edits, p) ==
  LET over == {i \in DOMAIN edits : edits[i].selector.start <= p /\ p < edits[i].selector.end}
  IN IF over = {} THEN Slice(text, p, p + 1)
     ELSE LET i == CHOOSE j \in over : TRUE
          IN IF edits[i].selector.start = p THEN edits[i].text ELSE <<>>
Edited(text, edits, upto) ==
  LET edited[p \in 0..upto] ==
        IF p = 0 THEN Inserted(edits, 0)
        ELSE (edited[p - 1] \o Kept(text, edits, p - 1)) \o Inserted(edits, p)
  IN edited[upto]

(* Operations of one Patch select in the text of its base revision, and are *)
(* applied one after the other to a text that has already changed: at every *)
(* point the text is what those edits make of the base text at once.       *)
EditsAreSimultaneous ==
  \A id \in Blocks : textEdits[id] # <<>> =>
    LET base == TextOf(document, id)
    IN TextOf(candidate, id) = Edited(base, textEdits[id], Len(base))

(* "accepted edits outside a protection rebase it without changing its      *)
(* exact quote" (transformation-state/PRD.md:30): the protected text is the *)
(* same occurrence as before, with everything edited in front of it before  *)
(* it, not another one that reads alike.  (One that spans nothing protects  *)
(* nothing and may be on either side of an insertion.)                     *)
ProtectionsFollow ==
  \A i \in DOMAIN document.protections :
    LET base == document.protections[i]
        now == candidate.protections[i]
        text == TextOf(candidate, base.block)
    IN base.start < base.end =>
         /\ now.end <= Len(text) /\ Slice(text, now.start, now.end) = base.exact
         /\ Slice(text, 0, now.start)
              = Edited(TextOf(document, base.block), textEdits[base.block], base.start)

(* The changes of an applied Patch tell the whole story: for each block,    *)
(* from its text in the base document to its text now, each starting where  *)
(* the one before it ended; a block no change names is as it was.          *)
Story(id) == {i \in DOMAIN changes : changes[i].block = id}
Held(doc, id) == IF id \in Ids(doc) THEN {TextOf(doc, id)} ELSE {}
ChangesTellTheStory ==
  \A id \in Blocks :
    /\ Story(id) = {} => Held(candidate, id) = Held(document, id)
    /\ \A i \in Story(id) :
         /\ (\A j \in Story(id) : i <= j) => changes[i].before = Held(document, id)
         /\ \A j \in Story(id) :
              (i < j /\ \A k \in Story(id) : k <= i \/ j <= k) => changes[i].after = changes[j].before
         /\ (\A j \in Story(id) : j <= i) => changes[i].after = Held(candidate, id)

(* "rejects the complete Patch" (PRD.md:17): the accepted document changes  *)
(* only when the last operation has been applied, and with its revision.    *)
PatchIsAtomic ==
  [][document' # document =>
       /\ pc = "apply" /\ next > Len(patch.operations)
       /\ outcome' = "applied" /\ revision' = revision + 1]_vars

(* A protection is disturbed when its block was edited and, at its place in *)
(* the edited text, its ends are no boundaries or its quoted context is not *)
(* around it.  The place is behind all that the edits make of the text in   *)
(* front of it (one that spans nothing is where the candidate has it).      *)
Place(i) ==
  LET base == document.protections[i]
  IN IF base.start = base.end THEN candidate.protections[i].start
     ELSE Len(Edited(TextOf(document, base.block), textEdits[base.block], base.start))
Disturbed(i) ==
  LET base == document.protections[i]
      text == TextOf(candidate, base.block)
      end == Place(i) + (base.end - base.start)
  IN /\ textEdits[base.block] # <<>>
     /\ \/ ~(Boundary(text, Place(i)) /\ Boundary(text, end))
        \/ ~IsSuffix(base.prefix, Slice(text, 0, Place(i)))
        \/ ~IsPrefix(base.suffix, Slice(text, end, Len(text)))

(* The final check refuses a Patch for what its operations cannot see, and  *)
(* for nothing else: a document grown too long, or a protection disturbed   *)
(* by edits in front of it or behind it that each left it alone (a CR put   *)
(* before a protected LF, a combining mark behind a protected letter).      *)
PlainPatchesCommit ==
  Finalizing =>
    (FinalFailure = NoFailure <=>
       /\ Len(candidate.content) <= MaxBlocks
       /\ \A i \in DOMAIN document.protections : ~Disturbed(i))
=============================================================================
