------------------------------ MODULE MirExec ------------------------------
(***************************************************************************)
(* What one MIR function does, as far as the emitted net is meant to show *)
(* it: a single thread moves from block to block along the normal edges   *)
(* of the control-flow graph, and a mutex it locks stays locked until the *)
(* guard is dropped.  A lock of a held mutex does not return (std's Mutex *)
(* is not re-entrant), and only a held mutex can be released by dropping  *)
(* its guard.  Unwind edges are left out, as in spec section 5.           *)
(***************************************************************************)
EXTENDS Integers, FiniteSets

CONSTANTS
    Mutexes,   \* the mutexes, named by the local that owns each
    NoMutex,   \* no mutex
    EntryPc,   \* before the first block
    ExitPc,    \* after a return
    Start      \* the block the function starts in

VARIABLES
    pc,        \* the current block, EntryPc or ExitPc
    held,      \* the mutexes whose guards are alive
    Edges,     \* the function's code, which no step changes: its normal edges
               \* [from, to, acq, rel], each with the mutex it locks or releases,
    Returns    \* and the blocks that end in return

code == <<Edges, Returns>>

(* The edge e can be taken from block p with the mutexes h held. *)
CanTake(e, p, h) ==
    /\ e.from = p
    /\ e.acq = NoMutex \/ e.acq \notin h
    /\ e.rel = NoMutex \/ e.rel \in h

Effect(e, h) ==
    (h \cup (IF e.acq = NoMutex THEN {} ELSE {e.acq}))
        \ (IF e.rel = NoMutex THEN {} ELSE {e.rel})

Init == pc = EntryPc /\ held = {}

Begin == pc = EntryPc /\ pc' = Start /\ UNCHANGED <<held, code>>

Step(e) == CanTake(e, pc, held) /\ pc' = e.to /\ held' = Effect(e, held) /\ UNCHANGED code

Finish == pc \in Returns /\ pc' = ExitPc /\ UNCHANGED <<held, code>>

Next == Begin \/ (\E e \in Edges : Step(e)) \/ Finish

Spec == Init /\ [][Next]_<<pc, held, code>>

(* The states one step of the function can lead to from (p, h). *)
Succs(p, h) ==
    (IF p = EntryPc THEN {<<Start, h>>} ELSE {})
    \cup {<<e.to, Effect(e, h)>> : e \in {e \in Edges : CanTake(e, p, h)}}
    \cup (IF p \in Returns THEN {<<ExitPc, h>>} ELSE {})
=============================================================================
