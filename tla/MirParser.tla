------------------------------ MODULE MirParser ------------------------------
(***************************************************************************)
(* The function-body scanner of mir_parser.py (_parse_function_body).     *)
(*                                                                         *)
(* A body is a sequence of abstract lines: each line is the record that   *)
(* the regular expressions of lines 91-102 extract from a text line, and *)
(* a line none of them matches is a "stmt" (or "skip" for scope/debug).   *)
(* The scanner walks the lines once; at each bbK header it consumes the   *)
(* whole block in one step, exactly as the inner while loop does: it      *)
(* records every `_i = &_j` of the block in ref_to_base, adopts the last  *)
(* terminator-shaped line as the terminator and, for a Call terminator,  *)
(* updates guard_to_mutex_key.  Both tables are function-wide and are     *)
(* read while later blocks are scanned, so their contents depend on the   *)
(* textual order of the blocks.                                           *)
(***************************************************************************)
EXTENDS Naturals, Sequences, SequencesExt, Functions

CONSTANTS
    Locals,        \* the MIR locals _N that occur in the input
    BBIds,         \* basic-block numbers that occur in the input
    Callees,       \* callee paths, as model values
    LockShaped,    \* the callees that pass the lock-shape test of line 201
    UnwrapShaped,  \* the callees containing "::unwrap" or "::expect"
    NoLocal,       \* an absent local (no lhs, no local argument)
    NoTerm,        \* a block without a recognised terminator
    Bodies,        \* the function bodies the scanner may be given
    CalleeRole     \* what each callee really does: "lock", "unwrap" or "other"

ASSUME LockShaped \subseteq Callees /\ UnwrapShaped \subseteq Callees
ASSUME CalleeRole \in [Callees -> {"lock", "unwrap", "other"}]
ASSUME NoLocal \notin Locals

VARIABLES
    lines,            \* the body being parsed (fixed for a run)
    i,                \* the outer-loop cursor, a line index
    seenBB,           \* seen_bb: a block header has been met
    locals,           \* locals_list, as the sequence of declared locals
    refToBase,        \* ref_to_base: local -> local
    guardToMutexKey,  \* guard_to_mutex_key: guard local -> mutex-key local
    blocks            \* basic_blocks: [id, cleanup, term] in source order

LOCAL INSTANCE MirLines

vars == <<lines, i, seenBB, locals, refToBase, guardToMutexKey, blocks>>

-----------------------------------------------------------------------------
(* Line vocabulary: what the patterns of lines 91-102 recognise.          *)

TermKinds == {"goto", "return", "drop", "switch", "call"}

IsTerminatorLine(ln) == ln.kind \in TermKinds

EmptyMap == [l \in {} |-> NoLocal]

(* _extract_first_local: the regex (?:^|,)\s*(?:move\s+)?(_\d+)\b accepts  *)
(* an operand that is a bare local or `move _N`; `copy _N` and constants   *)
(* are passed over.                                                        *)
FirstLocal(args) ==
    LET k == SelectInSeq(args, LAMBDA op : op.mode \in {"move", "plain"})
    IN  IF k = 0 THEN NoLocal ELSE args[k].local

(* _resolve_mutex_key: one lookup in ref_to_base, not transitive. *)
Resolve(l, r) == IF l \in DOMAIN r THEN r[l] ELSE l

(* The index just past the block opened at line k: the next header or a   *)
(* bare "}" line ends it (lines 144-158).                                  *)
BlockEnd(k) ==
    LET j == SelectInSubSeq(lines, k + 1, Len(lines),
                            LAMBDA ln : ln.kind \in {"bb", "close"})
    IN  IF j = 0 THEN Len(lines) + 1 ELSE j

(* Every `_i = &_j` line of a block, in order; a later line overwrites.   *)
RecordRefs(r, body) ==
    FoldLeft(LAMBDA acc, ln : IF ln.kind = "ref" THEN (ln.lhs :> ln.base) @@ acc
                              ELSE acc,
             r, body)

(* The last line of the block that matches a terminator pattern. *)
BlockTerminator(body) ==
    LET t == SelectLastInSeq(body, IsTerminatorLine)
    IN  IF t = 0 THEN NoTerm ELSE body[t]

(* Variant of BindGuard that binds even when the call has no lhs. *)
BindGuardNoLhsTest(term, r, g) ==
    IF term = NoTerm \/ term.kind # "call" THEN g
    ELSE LET arg == FirstLocal(term.args) IN
         CASE term.callee \in LockShaped /\ arg # NoLocal ->
                (term.lhs :> Resolve(arg, r)) @@ g
           [] term.callee \notin LockShaped /\ term.callee \in UnwrapShaped
                /\ term.lhs # NoLocal /\ arg \in DOMAIN g ->
                (term.lhs :> g[arg]) @@ g
           [] OTHER -> g

(* Variant of BindGuard whose unwrap case binds the consumed local itself. *)
BindGuardUnwrapRaw(term, r, g) ==
    IF term = NoTerm \/ term.kind # "call" THEN g
    ELSE LET arg == FirstLocal(term.args) IN
         CASE term.callee \in LockShaped /\ arg # NoLocal /\ term.lhs # NoLocal ->
                (term.lhs :> Resolve(arg, r)) @@ g
           [] term.callee \notin LockShaped /\ term.callee \in UnwrapShaped
                /\ term.lhs # NoLocal /\ arg \in DOMAIN g ->
                (term.lhs :> arg) @@ g
           [] OTHER -> g

(* Guard binding at a Call terminator (lines 200-211): a lock-shaped call  *)
(* binds its lhs to the resolved first local argument; otherwise an       *)
(* unwrap/expect call whose first local is already a guard passes that    *)
(* guard's key on to its lhs.  A rebinding overwrites the old entry.      *)
BindGuard(term, r, g) ==
    IF term = NoTerm \/ term.kind # "call" THEN g
    ELSE LET arg == FirstLocal(term.args) IN
         CASE term.callee \in LockShaped /\ arg # NoLocal /\ term.lhs # NoLocal ->
                (term.lhs :> Resolve(arg, r)) @@ g
           [] term.callee \notin LockShaped /\ term.callee \in UnwrapShaped
                /\ term.lhs # NoLocal /\ arg \in DOMAIN g ->
                (term.lhs :> g[arg]) @@ g
           [] OTHER -> g

-----------------------------------------------------------------------------

Init ==
    /\ lines \in Bodies
    /\ i = 1
    /\ seenBB = FALSE
    /\ locals = <<>>
    /\ refToBase = EmptyMap
    /\ guardToMutexKey = EmptyMap
    /\ blocks = <<>>

(* Variant of SkipLine that does not advance the cursor. *)
SkipLineNoAdvance ==
    /\ i <= Len(lines)
    /\ lines[i].kind # "bb"
    /\ lines[i].kind = "let" => seenBB
    /\ UNCHANGED <<i, lines, seenBB, locals, refToBase, guardToMutexKey, blocks>>

(* A line the outer loop passes over: scope/debug lines, a `let` after the *)
(* first header, a stray "}" and anything else (lines 117-120, 226).       *)
SkipLine ==
    /\ i <= Len(lines)
    /\ lines[i].kind # "bb"
    /\ lines[i].kind = "let" => seenBB
    /\ i' = i + 1
    /\ UNCHANGED <<lines, seenBB, locals, refToBase, guardToMutexKey, blocks>>

(* A `let` before the first block header declares a local (lines 122-134). *)
ParseLet ==
    /\ i <= Len(lines)
    /\ lines[i].kind = "let"
    /\ ~seenBB
    /\ locals' = Append(locals, lines[i].local)
    /\ i' = i + 1
    /\ UNCHANGED <<lines, seenBB, refToBase, guardToMutexKey, blocks>>

(* A block header: scan the block, record its references, adopt its       *)
(* terminator, bind guards and append the block (lines 136-224).          *)
ParseBlock ==
    /\ i <= Len(lines)
    /\ lines[i].kind = "bb"
    /\ LET end   == BlockEnd(i)
           body  == SubSeq(lines, i + 1, end - 1)
           refs  == RecordRefs(refToBase, body)
           term  == BlockTerminator(body)
       IN  /\ refToBase' = refs
           /\ guardToMutexKey' = BindGuard(term, refs, guardToMutexKey)
           /\ blocks' = Append(blocks, [id      |-> lines[i].id,
                                        cleanup |-> lines[i].cleanup,
                                        term    |-> term])
           /\ seenBB' = TRUE
           /\ i' = IF end <= Len(lines) /\ lines[end].kind = "close"
                   THEN end + 1 ELSE end
    /\ UNCHANGED <<lines, locals>>

Done == i > Len(lines)

Next == SkipLine \/ ParseLet \/ ParseBlock

Spec == Init /\ [][Next]_vars

-----------------------------------------------------------------------------
(* Reference semantics of the binding tables: the def-use chains of the    *)
(* body, independent of the order in which the blocks are written.         *)

TypeOK ==
    /\ i \in 1..(Len(lines) + 1)
    /\ seenBB \in BOOLEAN
    /\ locals \in Seq(Locals)
    /\ DOMAIN refToBase \subseteq Locals /\ Range(refToBase) \subseteq Locals
    /\ DOMAIN guardToMutexKey \subseteq Locals
    /\ Range(guardToMutexKey) \subseteq Locals
    /\ blocks \in Seq(BasicBlock(Locals, Callees, BBIds, NoTerm))

(* The lines assigning local l: `l = &_j` and `l = callee(...)`. *)
DefLines(l) ==
    {k \in 1..Len(lines) : lines[k].kind \in {"ref", "call"} /\ lines[k].lhs = l}

(* The local an operand list really passes first, whatever its mode. *)
OperandLocal(args) ==
    LET k == SelectInSeq(args, LAMBDA op : op.mode # "const")
    IN  IF k = 0 THEN NoLocal ELSE args[k].local

(* The place a reference local points to, by its assignment. *)
TrueBase(a) ==
    IF \E k \in DefLines(a) : lines[k].kind = "ref"
    THEN lines[CHOOSE k \in DefLines(a) : lines[k].kind = "ref"].base
    ELSE a

(* The mutex a guard local was obtained from, following the call that      *)
(* assigned it back through unwrap/expect calls to the lock call; NoLocal  *)
(* for a local that holds no guard.                                        *)
RECURSIVE TrueKey(_, _)
TrueKey(l, n) ==
    IF n = 0 \/ DefLines(l) = {} THEN NoLocal
    ELSE LET ln == lines[CHOOSE k \in DefLines(l) : TRUE]
         IN  IF ln.kind # "call" \/ OperandLocal(ln.args) = NoLocal THEN NoLocal
             ELSE CASE CalleeRole[ln.callee] = "lock" ->
                         TrueBase(OperandLocal(ln.args))
                    [] CalleeRole[ln.callee] = "unwrap" ->
                         TrueKey(OperandLocal(ln.args), n - 1)
                    [] OTHER -> NoLocal

(* Guard provenance (mir_parser.py:200-211): every binding the scanner has *)
(* made names the mutex the guard really came from, through `&` and any   *)
(* number of unwrap/expect steps, and once the body is scanned every local *)
(* that holds a guard is bound.  A binding made while scanning one block   *)
(* uses the tables as the earlier blocks left them.                        *)
GuardProvenance ==
    /\ \A g \in DOMAIN guardToMutexKey :
          guardToMutexKey[g] = TrueKey(g, Len(lines))
    /\ Done => \A l \in Locals :
          TrueKey(l, Len(lines)) # NoLocal => l \in DOMAIN guardToMutexKey

(* The lock key pn_builder.py:161-164 gives the Call terminator t: the     *)
(* first local resolved through ref_to_base as it stands after the parse.  *)
BuilderLockKey(t) == Resolve(FirstLocal(t.args), refToBase)

IsBoundLockCall(t) ==
    /\ t # NoTerm /\ t.kind = "call" /\ t.callee \in LockShaped
    /\ t.lhs # NoLocal /\ FirstLocal(t.args) # NoLocal

(* Lock and unlock agree: for every lock call already scanned, the key its *)
(* guard is bound to (the key its drop will release) is the key the        *)
(* builder will acquire at that call, which is resolved later against the *)
(* final ref_to_base (mir_parser.py:204 against pn_builder.py:164).        *)
GuardKeyAgreesWithLockKey ==
    \A b \in 1..Len(blocks) :
        IsBoundLockCall(blocks[b].term) =>
            guardToMutexKey[blocks[b].term.lhs] = BuilderLockKey(blocks[b].term)

=============================================================================
