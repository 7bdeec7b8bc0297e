------------------------------ MODULE PnBuilder ------------------------------
(***************************************************************************)
(* The Petri-net builder of pn_builder.py (build_petri_net and            *)
(* _build_function_net).                                                  *)
(*                                                                         *)
(* The input is the parser's output: a sequence of functions, each a      *)
(* record [name, blocks, guard, refs] whose blocks are                    *)
(* [id, cleanup, term] records and whose term is a terminator line of     *)
(* MirParser or NoTerm.  The builder takes the first MaxFns functions and *)
(* for each one runs a prologue (entry/exit/block places and the start    *)
(* transition) and then one step per basic block, in source order.        *)
(* Places, transitions and arcs are sequences in insertion order; place   *)
(* and transition insertion is idempotent by id, arc insertion is not.    *)
(* Ids are tuples that stand for the id strings of the code:              *)
(*   <<"entry", f>>  p_{f}_entry        <<"start", f>>     t_{f}_start      *)
(*   <<"exit", f>>   p_{f}_exit         <<"edge", f, K, M>> t_{f}_bbK_to_bbM *)
(*   <<"bb", f, K>>  p_{f}_bbK          <<"return", f, K>> t_{f}_bbK_return *)
(*   <<"free", K>>   p_mutex_{K}_free   <<"held", K>>      p_mutex_{K}_held *)
(* The arc id arc_n is the arc's position in the sequence.                *)
(***************************************************************************)
EXTENDS Naturals, Integers, Sequences, SequencesExt, Functions

CONSTANTS
    FnNames,       \* function names, as model values
    Locals,
    BBIds,
    Callees,
    LockShaped,    \* callees passing the lock-shape test of line 161
    NoLocal,
    NoTerm,
    EntryFn,       \* --entry-fn
    MaxFns,        \* --max-fns: an integer, or NoLimit
    NoLimit,
    Inputs         \* the function lists the builder may be given

VARIABLES
    fns,           \* fns_to_process
    f,             \* index of the function being built
    b,             \* 0 before its prologue, else the index of the next block
    places,        \* net.places: [id, kind, init]
    transitions,   \* net.transitions: [id, kind, op]
    arcs,          \* net.arcs: [src, tgt]
    warnings       \* net.warnings: [fn, bb, reason]

LOCAL INSTANCE MirLines

vars == <<fns, f, b, places, transitions, arcs, warnings>>

-----------------------------------------------------------------------------

FirstLocal(args) ==
    LET k == SelectInSeq(args, LAMBDA op : op.mode \in {"move", "plain"})
    IN  IF k = 0 THEN NoLocal ELSE args[k].local

Resolve(l, r) == IF l \in DOMAIN r THEN r[l] ELSE l

(* functions[:max_fns], with Python's slice semantics for a negative bound. *)
PyPrefix(s, n) ==
    IF n = NoLimit THEN s
    ELSE IF n >= 0 THEN SubSeq(s, 1, IF n < Len(s) THEN n ELSE Len(s))
    ELSE SubSeq(s, 1, IF Len(s) + n > 0 THEN Len(s) + n ELSE 0)

EntryPlace(fn) == <<"entry", fn>>
ExitPlace(fn)  == <<"exit", fn>>
BlockPlace(fn, k) == <<"bb", fn, k>>
FreePlace(key) == <<"free", key>>
HeldPlace(key) == <<"held", key>>
StartT(fn) == <<"start", fn>>
EdgeT(fn, k, m) == <<"edge", fn, k, m>>
ReturnT(fn, k) == <<"return", fn, k>>

Ids(s) == {s[k].id : k \in DOMAIN s}

(* add_place / add_transition: insert unless the id is already present. *)
AddNode(s, n) == IF n.id \in Ids(s) THEN s ELSE Append(s, n)

AddNodes(s, ns) == FoldLeft(AddNode, s, ns)

(* Variant of EnsureMutex that gives the held place the token as well. *)
EnsureMutexHeldMarked(ps, key) ==
    AddNodes(ps, <<[id |-> FreePlace(key), kind |-> "mutex_free", init |-> 1],
                   [id |-> HeldPlace(key), kind |-> "mutex_held", init |-> 1]>>)

(* _ensure_mutex_places: p_mutex_K_free with one token, p_mutex_K_held. *)
EnsureMutex(ps, key) ==
    AddNodes(ps, <<[id |-> FreePlace(key), kind |-> "mutex_free", init |-> 1],
                   [id |-> HeldPlace(key), kind |-> "mutex_held", init |-> 0]>>)

NonCleanup(fn) == SelectSeq(fn.blocks, LAMBDA bb : ~bb.cleanup)

(* bb_to_place: the non-cleanup blocks, by number. *)
HasPlace(fn, k) == \E j \in DOMAIN fn.blocks : fn.blocks[j].id = k /\ ~fn.blocks[j].cleanup

(* Variant of Successors that keeps only the first target of a switch. *)
SuccessorsFirstOnly(term) ==
    CASE term.kind = "switch" -> <<term.targets[1]>>
      [] term.kind = "return" -> <<>>
      [] OTHER                -> <<term.target>>

(* The successor list of a terminator (lines 140-159). *)
Successors(term) ==
    CASE term.kind = "switch" -> term.targets
      [] term.kind = "return" -> <<>>
      [] OTHER                -> <<term.target>>

(* Variant of LockKey that takes the operand itself, not its base. *)
LockKeyUnresolved(fn, term) ==
    IF term.kind = "call" /\ term.callee \in LockShaped /\ FirstLocal(term.args) # NoLocal
    THEN FirstLocal(term.args)
    ELSE NoLocal

(* The mutex a Call terminator acquires (lines 158-164), else NoLocal. *)
LockKey(fn, term) ==
    IF term.kind = "call" /\ term.callee \in LockShaped /\ FirstLocal(term.args) # NoLocal
    THEN Resolve(FirstLocal(term.args), fn.refs)
    ELSE NoLocal

(* The mutex a Drop terminator releases (lines 146-149), else NoLocal. *)
UnlockKey(fn, term) ==
    IF term.kind = "drop" /\ term.local \in DOMAIN fn.guard
    THEN fn.guard[term.local]
    ELSE NoLocal

(* The warning a terminator draws, as a sequence of at most one reason. *)
TermWarnings(fn, term) ==
    CASE term.kind = "drop" /\ term.local \notin DOMAIN fn.guard -> <<"drop not a guard">>
      [] term.kind = "call" /\ term.callee \in LockShaped
           /\ FirstLocal(term.args) = NoLocal                   -> <<"lock without local">>
      [] term.kind = "call" /\ term.callee \notin LockShaped    -> <<"unrecognized call">>
      [] OTHER                                                  -> <<>>

EdgeKind(fn, term) ==
    CASE LockKey(fn, term) # NoLocal   -> "lock"
      [] UnlockKey(fn, term) # NoLocal -> "unlock"
      [] OTHER                         -> "cfg"

EdgeOp(fn, term) ==
    IF LockKey(fn, term) # NoLocal THEN LockKey(fn, term) ELSE UnlockKey(fn, term)

Arc(s, t) == [src |-> s, tgt |-> t]

(* Variant of MutexPlacesFor that creates the places on the lock path only. *)
MutexPlacesForLockOnly(ps, fn, term) ==
    IF LockKey(fn, term) # NoLocal /\ Successors(term) # <<>>
    THEN EnsureMutex(ps, LockKey(fn, term)) ELSE ps

(* The mutex places an edge step ensures: those of its lock or unlock key, *)
(* once per successor (lines 202 and 208).                                *)
MutexPlacesFor(ps, fn, term) ==
    IF EdgeOp(fn, term) # NoLocal /\ Successors(term) # <<>>
    THEN EnsureMutex(ps, EdgeOp(fn, term)) ELSE ps

(* Variant of EdgeArcs that adds the output arc whether or not the target *)
(* block has a place.                                                      *)
EdgeArcsNoTargetTest(fn, k, m, term) ==
    LET t == EdgeT(fn.name, k, m)
        key == EdgeOp(fn, term)
    IN  <<Arc(BlockPlace(fn.name, k), t), Arc(t, BlockPlace(fn.name, m))>>
        \o (CASE EdgeKind(fn, term) = "lock"   -> <<Arc(FreePlace(key), t), Arc(t, HeldPlace(key))>>
              [] EdgeKind(fn, term) = "unlock" -> <<Arc(HeldPlace(key), t), Arc(t, FreePlace(key))>>
              [] OTHER -> <<>>)

(* The arcs of the transition for the edge bbK -> bbM (lines 193-210):    *)
(* its control arcs, the output one only when bbM has a place, then the   *)
(* two resource arcs of a lock or an unlock.                               *)
EdgeArcs(fn, k, m, term) ==
    LET t == EdgeT(fn.name, k, m)
        key == EdgeOp(fn, term)
    IN  <<Arc(BlockPlace(fn.name, k), t)>>
        \o (IF HasPlace(fn, m) THEN <<Arc(t, BlockPlace(fn.name, m))>> ELSE <<>>)
        \o (CASE EdgeKind(fn, term) = "lock"   -> <<Arc(FreePlace(key), t), Arc(t, HeldPlace(key))>>
              [] EdgeKind(fn, term) = "unlock" -> <<Arc(HeldPlace(key), t), Arc(t, FreePlace(key))>>
              [] OTHER -> <<>>)

-----------------------------------------------------------------------------

Init ==
    /\ \E in \in Inputs : fns = PyPrefix(in, MaxFns)
    /\ f = 1
    /\ b = 0
    /\ places = <<>>
    /\ transitions = <<>>
    /\ arcs = <<>>
    /\ warnings = <<>>

(* Entry and exit places, one place per non-cleanup block, and the start  *)
(* transition into the first non-cleanup block (lines 74-115).            *)
BuildPrologue ==
    /\ f <= Len(fns) /\ b = 0
    /\ LET fn == fns[f]
           nc == NonCleanup(fn)
           cfgPlaces ==
               <<[id |-> EntryPlace(fn.name), kind |-> "cfg",
                  init |-> IF fn.name = EntryFn THEN 1 ELSE 0],
                 [id |-> ExitPlace(fn.name), kind |-> "cfg", init |-> 0]>>
               \o [j \in DOMAIN nc |-> [id |-> BlockPlace(fn.name, nc[j].id),
                                        kind |-> "cfg", init |-> 0]]
       IN  /\ places' = AddNodes(places, cfgPlaces)
           /\ IF nc = <<>>
              THEN UNCHANGED <<transitions, arcs>>
              ELSE /\ transitions' = AddNode(transitions,
                                        [id |-> StartT(fn.name), kind |-> "cfg", op |-> NoLocal])
                   /\ arcs' = arcs \o <<Arc(EntryPlace(fn.name), StartT(fn.name)),
                                        Arc(StartT(fn.name), BlockPlace(fn.name, nc[1].id))>>
    /\ b' = 1
    /\ UNCHANGED <<fns, f, warnings>>

(* A cleanup block contributes nothing (lines 119-120). *)
SkipCleanupBlock ==
    /\ f <= Len(fns) /\ b \in DOMAIN fns[f].blocks
    /\ fns[f].blocks[b].cleanup
    /\ b' = b + 1
    /\ UNCHANGED <<fns, f, places, transitions, arcs, warnings>>

(* A block without a terminator only draws a warning (lines 125-134). *)
WarnNoTerminator ==
    /\ f <= Len(fns) /\ b \in DOMAIN fns[f].blocks
    /\ ~fns[f].blocks[b].cleanup
    /\ fns[f].blocks[b].term = NoTerm
    /\ warnings' = Append(warnings, [fn |-> fns[f].name, bb |-> fns[f].blocks[b].id,
                                     reason |-> "no terminator"])
    /\ b' = b + 1
    /\ UNCHANGED <<fns, f, places, transitions, arcs>>

(* A block with a terminator: its warning, one transition per successor   *)
(* with its control and resource arcs, the mutex places on first use, and *)
(* for Return the transition to the exit place (lines 136-221).           *)
BuildBlockEdges ==
    /\ f <= Len(fns) /\ b \in DOMAIN fns[f].blocks
    /\ ~fns[f].blocks[b].cleanup
    /\ fns[f].blocks[b].term # NoTerm
    /\ LET fn   == fns[f]
           k    == fn.blocks[b].id
           term == fn.blocks[b].term
           succ == Successors(term)
           key  == EdgeOp(fn, term)
           isRet == term.kind = "return"
       IN  /\ warnings' = warnings \o [j \in DOMAIN TermWarnings(fn, term) |->
                              [fn |-> fn.name, bb |-> k, reason |-> TermWarnings(fn, term)[j]]]
           /\ transitions' =
                AddNodes(transitions,
                         [j \in DOMAIN succ |-> [id |-> EdgeT(fn.name, k, succ[j]),
                                                 kind |-> EdgeKind(fn, term),
                                                 op |-> key]]
                         \o (IF isRet THEN <<[id |-> ReturnT(fn.name, k), kind |-> "cfg",
                                              op |-> NoLocal]>>
                             ELSE <<>>))
           /\ places' = MutexPlacesFor(places, fn, term)
           /\ arcs' = arcs \o FlattenSeq([j \in DOMAIN succ |-> EdgeArcs(fn, k, succ[j], term)])
                           \o (IF isRet THEN <<Arc(BlockPlace(fn.name, k), ReturnT(fn.name, k)),
                                               Arc(ReturnT(fn.name, k), ExitPlace(fn.name))>>
                               ELSE <<>>)
    /\ b' = b + 1
    /\ UNCHANGED <<fns, f>>

(* Variant of NextFunction that keeps the block cursor. *)
NextFunctionNoReset ==
    /\ f <= Len(fns) /\ b = Len(fns[f].blocks) + 1
    /\ f' = f + 1
    /\ UNCHANGED <<fns, b, places, transitions, arcs, warnings>>

(* The block loop is over: go on with the next function (line 57). *)
NextFunction ==
    /\ f <= Len(fns) /\ b = Len(fns[f].blocks) + 1
    /\ f' = f + 1
    /\ b' = 0
    /\ UNCHANGED <<fns, places, transitions, arcs, warnings>>

Done == f > Len(fns)

Next == BuildPrologue \/ SkipCleanupBlock \/ WarnNoTerminator \/ BuildBlockEdges
          \/ NextFunction

Spec == Init /\ [][Next]_vars

-----------------------------------------------------------------------------

(* net.initial_marking: filled by add_place for a new place with tokens. *)
InitialMarking ==
    [id \in {places[j].id : j \in {j \in DOMAIN places : places[j].init > 0}} |->
        places[CHOOSE j \in DOMAIN places : places[j].id = id].init]

Count(s, P(_)) == Cardinality({j \in DOMAIN s : P(s[j])})

NodeIds ==
    {EntryPlace(fn) : fn \in FnNames} \cup {ExitPlace(fn) : fn \in FnNames}
    \cup {StartT(fn) : fn \in FnNames}
    \cup {BlockPlace(fn, k) : fn \in FnNames, k \in BBIds}
    \cup {ReturnT(fn, k) : fn \in FnNames, k \in BBIds}
    \cup {EdgeT(fn, k, m) : fn \in FnNames, k \in BBIds, m \in BBIds}
    \cup {FreePlace(key) : key \in Locals} \cup {HeldPlace(key) : key \in Locals}

(* pn_model.py: Place, Transition and Arc, without the display names,    *)
(* capacity and annotations, which the builder fills with constants, and  *)
(* without the arc weight, which is always 1.  A PetriNet is the four     *)
(* lists; its initial_marking is InitialMarking.                           *)
Place == [id : NodeIds, kind : {"cfg", "mutex_free", "mutex_held"}, init : {0, 1}]

Transition == [id : NodeIds, kind : {"cfg", "lock", "unlock"}, op : Locals \cup {NoLocal}]

ArcRecord == [src : NodeIds, tgt : NodeIds]

Warning == [fn : FnNames, bb : BBIds,
            reason : {"no terminator", "drop not a guard", "lock without local",
                      "unrecognized call"}]

PetriNet == [places : Seq(Place), transitions : Seq(Transition),
             arcs : Seq(ArcRecord), warnings : Seq(Warning)]

TypeOK ==
    /\ fns \in Seq(MirFunction(FnNames, Locals, Callees, BBIds, NoTerm))
    /\ f \in 1..(Len(fns) + 1)
    /\ b \in 0..(IF f <= Len(fns) THEN Len(fns[f].blocks) + 1 ELSE 0)
    /\ [places |-> places, transitions |-> transitions, arcs |-> arcs,
        warnings |-> warnings] \in PetriNet

(* A valid PT-net (spec section 8, structural invariants): place and      *)
(* transition ids are unique and disjoint, and every arc joins an existing *)
(* place to an existing transition or the reverse.  The builder adds the  *)
(* output arc of an edge only when the target block got a place, and      *)
(* creates a mutex's places before its first resource arc.                *)
NetWellFormed ==
    /\ Cardinality(Ids(places)) = Len(places)
    /\ Cardinality(Ids(transitions)) = Len(transitions)
    /\ Ids(places) \cap Ids(transitions) = {}
    /\ \A j \in DOMAIN arcs :
          \/ arcs[j].src \in Ids(places) /\ arcs[j].tgt \in Ids(transitions)
          \/ arcs[j].src \in Ids(transitions) /\ arcs[j].tgt \in Ids(places)


(* The mutex subnet (spec section 8): every key that a lock or unlock      *)
(* transition names has exactly one free place, initially marked, and one *)
(* held place, unmarked; each lock transition of key K has exactly one    *)
(* arc from free_K and one to held_K, each unlock the reverse pair, and no *)
(* other transition touches K's places.  Mutex places are created on the  *)
(* first use of a key by any block of any function, and may be reached by *)
(* an unlock before the lock that binds the key.                          *)
MutexSubnetSound ==
    /\ \A j \in DOMAIN transitions : transitions[j].kind # "cfg" =>
          LET key == transitions[j].op IN
          /\ Count(places, LAMBDA p : p.id = FreePlace(key) /\ p.init = 1) = 1
          /\ Count(places, LAMBDA p : p.id = HeldPlace(key) /\ p.init = 0) = 1
          /\ InitialMarking[FreePlace(key)] = 1
    /\ \A j \in DOMAIN transitions : \A key \in Locals :
          LET t == transitions[j]
              isLock == t.kind = "lock" /\ t.op = key
              isUnlock == t.kind = "unlock" /\ t.op = key
          IN  /\ Count(arcs, LAMBDA a : a = Arc(FreePlace(key), t.id)) = IF isLock THEN 1 ELSE 0
              /\ Count(arcs, LAMBDA a : a = Arc(t.id, HeldPlace(key))) = IF isLock THEN 1 ELSE 0
              /\ Count(arcs, LAMBDA a : a = Arc(HeldPlace(key), t.id)) = IF isUnlock THEN 1 ELSE 0
              /\ Count(arcs, LAMBDA a : a = Arc(t.id, FreePlace(key))) = IF isUnlock THEN 1 ELSE 0

(* The control token (spec section 8): exactly one function-entry place   *)
(* is initially marked, the entry function's, unless no function is       *)
(* processed; --max-fns cuts the function list in source order before the *)
(* entry function is looked for.                                          *)
EntryMarked ==
    Done /\ fns # <<>> =>
        Cardinality({id \in DOMAIN InitialMarking : id[1] = "entry"}) = 1

(* Mutex identity (spec glossary, "mutex key"): a key distinguishes one    *)
(* mutex instance from another.  MIR locals are numbered per function, so  *)
(* the lock and unlock transitions of one key all belong to one function;  *)
(* pn_builder.py:200 names the places p_mutex_{key} by the local alone.    *)
MutexKeysFunctionLocal ==
    \A j, k \in DOMAIN transitions :
        transitions[j].kind # "cfg" /\ transitions[k].kind # "cfg"
        /\ transitions[j].op = transitions[k].op
        => transitions[j].id[2] = transitions[k].id[2]

=============================================================================
