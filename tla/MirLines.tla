------------------------------ MODULE MirLines ------------------------------
(***************************************************************************)
(* Constructors for the abstract MIR lines that mir_parser.py recognises  *)
(* (the patterns of lines 91-102), used to write model inputs, and the   *)
(* record sets of mir_model.py that the parser turns those lines into.    *)
(***************************************************************************)
EXTENDS Naturals, Sequences

CONSTANT NoLocal

Let(l) == [kind |-> "let", local |-> l]
Skip == [kind |-> "skip"]
Header(k, c) == [kind |-> "bb", id |-> k, cleanup |-> c]
Close == [kind |-> "close"]
RefLine(a, b) == [kind |-> "ref", lhs |-> a, base |-> b]
Move(l) == [mode |-> "move", local |-> l]
Const == [mode |-> "const", local |-> NoLocal]
Call(lhs, c, args, t) ==
    [kind |-> "call", lhs |-> lhs, callee |-> c, args |-> args, target |-> t]
Drop(l, t) == [kind |-> "drop", local |-> l, target |-> t]
Goto(t) == [kind |-> "goto", target |-> t]
Switch(ts) == [kind |-> "switch", targets |-> ts]
Return == [kind |-> "return"]

-----------------------------------------------------------------------------
(* mir_model.py over locals ls, callees cs and block numbers bbs.  A      *)
(* terminator is the record of the line it was parsed from: args_str is   *)
(* its operand list, an absent lhs is NoLocal, and the unwind targets,    *)
(* which the builder never reads, are left out.                           *)

Operand(ls) == [mode : {"move", "plain", "copy"}, local : ls] \cup {Const}

TerminatorGoto(bbs) == [kind : {"goto"}, target : bbs]

TerminatorReturn == {Return}

TerminatorSwitch(bbs) == [kind : {"switch"}, targets : Seq(bbs)]

TerminatorDrop(ls, bbs) == [kind : {"drop"}, local : ls, target : bbs]

TerminatorCall(ls, cs, bbs) ==
    [kind : {"call"}, lhs : ls \cup {NoLocal}, callee : cs,
     args : Seq(Operand(ls)), target : bbs]

Terminator(ls, cs, bbs) ==
    TerminatorGoto(bbs) \cup TerminatorReturn \cup TerminatorSwitch(bbs)
    \cup TerminatorDrop(ls, bbs) \cup TerminatorCall(ls, cs, bbs)

(* BasicBlock: statements and line_start only serve error messages and are *)
(* left out; a block without a terminator has term = noTerm.               *)
BasicBlock(ls, cs, bbs, noTerm) ==
    [id : bbs, cleanup : BOOLEAN, term : Terminator(ls, cs, bbs) \cup {noTerm}]

(* A binding table: a dict from locals to locals. *)
LocalTable(ls) == UNION {[d -> ls] : d \in SUBSET ls}

(* MirFunction as the builder receives it; its locals list, which the     *)
(* builder never reads, is left out (MirParser keeps it as `locals`).     *)
MirFunction(names, ls, cs, bbs, noTerm) ==
    [name : names, blocks : Seq(BasicBlock(ls, cs, bbs, noTerm)),
     guard : LocalTable(ls), refs : LocalTable(ls)]

-----------------------------------------------------------------------------
(* The locals an input line reads. *)
Uses(ln) ==
    CASE ln.kind = "call" -> {ln.args[k].local : k \in DOMAIN ln.args} \ {NoLocal}
      [] ln.kind = "drop" -> {ln.local}
      [] OTHER -> {}

Assigns(ln, l) == ln.kind \in {"ref", "call"} /\ ln.lhs = l

(* Each local is assigned by at most one line. *)
IsSSA(body) ==
    \A p, q \in DOMAIN body :
        body[p].kind \in {"ref", "call"} /\ body[p].lhs # NoLocal
        /\ Assigns(body[q], body[p].lhs) => p = q

(* Every assignment of a local is written before every use of it. *)
DefsBeforeUses(body) ==
    \A p, q \in DOMAIN body : (\E l \in Uses(body[p]) : Assigns(body[q], l)) => q < p

(* Every temporary in temps that is used is assigned somewhere. *)
UsesDefined(body, temps) ==
    \A p \in DOMAIN body : \A l \in Uses(body[p]) \cap temps :
        \E q \in DOMAIN body : Assigns(body[q], l)
=============================================================================
