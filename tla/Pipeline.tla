------------------------------ MODULE Pipeline ------------------------------
(***************************************************************************)
(* The translation of one MIR function end to end, as main() of            *)
(* mir2pnml.py runs it (lines 94-108): the body scanner (MirParser) fills  *)
(* its tables, the builder (PnBuilder) turns the parsed function into a    *)
(* net, and a downstream checker then plays the token game of that net    *)
(* (PTNet).  The phases follow each other: "parse", "build", "fire".       *)
(*                                                                         *)
(* The net is meant to behave as the function does.  MirExec states what   *)
(* the function does, read off the body's lines independently of the      *)
(* parser: each block's terminator, the mutex each lock really takes      *)
(* (through `&`) and the mutex each drop really releases (through          *)
(* unwrap/expect).  The marking of the net is mapped onto MirExec's state: *)
(* the marked block place is the block pointer and the marked held places *)
(* are the held mutexes.                                                   *)
(***************************************************************************)
EXTENDS Integers, Sequences, SequencesExt, FiniteSets

CONSTANTS
    Locals, BBIds, Callees, LockShaped, UnwrapShaped, NoLocal, NoTerm,
    Bodies, CalleeRole,
    Main,      \* the function's name, a model value; it is the --entry-fn
    NoLimit    \* --max-fns not given

VARIABLES
    lines, i, seenBB, locals, refToBase, guardToMutexKey, blocks,  \* parser
    fns, f, b, places, transitions, arcs, warnings,                \* builder
    marking,   \* the marking of the emitted net, once it is loaded
    phase      \* "parse", "build" or "fire"

parserVars == <<lines, i, seenBB, locals, refToBase, guardToMutexKey, blocks>>
builderVars == <<fns, f, b, places, transitions, arcs, warnings>>
vars == <<parserVars, builderVars, marking, phase>>

P == INSTANCE MirParser

(* The MirFunction that _parse_function_body returns (lines 228-234). *)
ParsedFn == [name |-> Main, blocks |-> blocks, guard |-> guardToMutexKey,
             refs |-> refToBase]

(* Inputs only fixes PnBuilder's own initial states, which are not used: *)
(* here the builder starts from the parsed function (Handoff).           *)
B == INSTANCE PnBuilder WITH FnNames <- {Main}, EntryFn <- Main, MaxFns <- NoLimit,
                             Inputs <- {}

Net == INSTANCE PTNet

-----------------------------------------------------------------------------
(* The function the body describes, read off its lines: every block of    *)
(* the inputs ends with its terminator line just before its "}".           *)

EntryPc == -1
ExitPc  == -2
LostPc  == -3   \* no control place is marked

Headers == {h \in DOMAIN lines : lines[h].kind = "bb"}

TermOf(h) == lines[SelectInSubSeq(lines, h + 1, Len(lines), LAMBDA ln : ln.kind = "close") - 1]

SuccOf(ln) ==
    CASE ln.kind = "switch" -> Range(ln.targets)
      [] ln.kind = "return" -> {}
      [] OTHER              -> {ln.target}

(* The mutex a call really locks: the base of its operand, by its role. *)
AcqOf(ln) ==
    IF ln.kind = "call" /\ CalleeRole[ln.callee] = "lock" /\ P!OperandLocal(ln.args) # NoLocal
    THEN P!TrueBase(P!OperandLocal(ln.args)) ELSE NoLocal

(* The mutex a drop really releases: the one its guard came from. *)
RelOf(ln) == IF ln.kind = "drop" THEN P!TrueKey(ln.local, Len(lines)) ELSE NoLocal

ProgEdges ==
    UNION {{[from |-> lines[h].id, to |-> m, acq |-> AcqOf(TermOf(h)), rel |-> RelOf(TermOf(h))]
              : m \in SuccOf(TermOf(h))} : h \in Headers}

ProgReturns == {lines[h].id : h \in {h \in Headers : TermOf(h).kind = "return"}}

(* The block pointer and held set that a marking m shows. *)
NetPc(m) ==
    IF phase # "fire" THEN EntryPc
    ELSE CASE m[B!EntryPlace(Main)] > 0 -> EntryPc
           [] m[B!ExitPlace(Main)] > 0  -> ExitPc
           [] \E k \in BBIds : B!BlockPlace(Main, k) \in DOMAIN m /\ m[B!BlockPlace(Main, k)] > 0 ->
                CHOOSE k \in BBIds : B!BlockPlace(Main, k) \in DOMAIN m /\ m[B!BlockPlace(Main, k)] > 0
           [] OTHER -> LostPc

NetHeld(m) ==
    IF phase # "fire" THEN {}
    ELSE {key \in Locals : B!HeldPlace(key) \in DOMAIN m /\ m[B!HeldPlace(key)] > 0}

Exec == INSTANCE MirExec WITH pc <- NetPc(marking), held <- NetHeld(marking),
                              Mutexes <- Locals, NoMutex <- NoLocal, Start <- 0,
                              Edges <- ProgEdges, Returns <- ProgReturns

-----------------------------------------------------------------------------

Init ==
    /\ phase = "parse"
    /\ P!Init
    /\ fns = <<>> /\ f = 1 /\ b = 0
    /\ places = <<>> /\ transitions = <<>> /\ arcs = <<>> /\ warnings = <<>>
    /\ marking = [p \in {} |-> 0]

(* One step of the body scanner. *)
Parse ==
    /\ phase = "parse"
    /\ P!Next
    /\ UNCHANGED <<builderVars, marking, phase>>

(* parse_mir returns the function and main hands the list, which is not   *)
(* empty, to build_petri_net without --max-fns (mir2pnml.py:94-108).       *)
Handoff ==
    /\ phase = "parse"
    /\ P!Done
    /\ phase' = "build"
    /\ fns' = B!PyPrefix(<<ParsedFn>>, NoLimit)
    /\ UNCHANGED <<parserVars, f, b, places, transitions, arcs, warnings, marking>>

(* One step of the builder. *)
Build ==
    /\ phase = "build"
    /\ B!Next
    /\ UNCHANGED <<parserVars, marking, phase>>

(* The finished net is read with its initial marking. *)
Load ==
    /\ phase = "build"
    /\ B!Done
    /\ phase' = "fire"
    /\ marking' = Net!Initial
    /\ UNCHANGED <<parserVars, builderVars>>

(* A transition of the net fires. *)
Fire ==
    /\ phase = "fire"
    /\ \E j \in DOMAIN transitions : Net!Fire(transitions[j].id)
    /\ UNCHANGED <<parserVars, fns, f, b, warnings, phase>>

Translate == Parse \/ Handoff \/ Build

Next == Translate \/ Load \/ Fire

(* The translator is one sequential thread: a step it can take, it takes. *)
(* The downstream token game gets no fairness.                            *)
Spec == Init /\ [][Next]_vars /\ WF_vars(Translate)

-----------------------------------------------------------------------------

(* A marking of the emitted net is safe: no place ever holds two tokens.   *)
TypeOK ==
    /\ phase \in {"parse", "build", "fire"}
    /\ phase = "fire" => marking \in [Net!PlaceIds -> 0..1]

(* The net implements the function (spec section 5): every firing sequence *)
(* of the emitted net, read through the marked block place and the marked *)
(* held places, is an execution of the function.  In particular each       *)
(* unlock releases the mutex the dropped guard really holds, each lock     *)
(* takes the mutex its reference really points to, and no control token   *)
(* is lost.                                                                 *)
ImplementsExec == Exec!Spec

(* The net misses no execution (spec section 5, "sound over-approximation *)
(* of all feasible interleavings"): whatever step the function can take   *)
(* next, some enabled transition takes the net to the same block and held *)
(* set, so a dead marking is a real deadlock or the exit.                  *)
ProgramStepsInNet ==
    phase = "fire" =>
        \A s \in Exec!Succs(NetPc(marking), NetHeld(marking)) :
            \E j \in DOMAIN transitions :
                /\ Net!Enabled(transitions[j].id)
                /\ <<NetPc(Net!After(transitions[j].id)),
                     NetHeld(Net!After(transitions[j].id))>> = s

(* The translation ends: the scanner and the builder each finish their    *)
(* loops, whatever the body.                                                *)
Translates == <>(phase # "parse" /\ B!Done)

=============================================================================
