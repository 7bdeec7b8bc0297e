---------------------------- MODULE MCMirParser ----------------------------
(***************************************************************************)
(* Inputs for MirParser.  A body is the prologue `let _1; let _2; scope`  *)
(* followed by three blocks bb0..bb2, each holding at most one statement  *)
(* and one terminator line, every choice drawn from a menu of the lines   *)
(* that matter to the binding tables:                                     *)
(*   _1, _2  two mutexes          _3  a reference `_3 = &_1` / `&_2`      *)
(*   _4      a lock result        _5  its unwrapped guard                 *)
(***************************************************************************)
EXTENDS MirParser, TLC

MLocals == 1..5
MBBIds == 0..2

CONSTANTS lockFn, unwrapFn, otherFn, clockUnwrapFn

(* The callee names: Mutex::<i32>::lock, Result::<..>::unwrap, foo::bar,  *)
(* and Result::<MutexGuard<'_, Clock>, ..>::unwrap, which contains both   *)
(* "Mutex" and "lock" (in "Clock") although it is an unwrap.              *)
MCallees == {lockFn, unwrapFn, otherFn, clockUnwrapFn}
MLockShaped == {lockFn, clockUnwrapFn}
MUnwrapShaped == {unwrapFn, clockUnwrapFn}
MCalleeRole == (lockFn :> "lock") @@ (unwrapFn :> "unwrap")
                 @@ (otherFn :> "other") @@ (clockUnwrapFn :> "unwrap")

INSTANCE MirLines

StmtMenu == {<<>>, <<RefLine(3, 1)>>, <<RefLine(3, 2)>>}

TermMenu(callees) ==
    {Call(4, lockFn, <<Move(3)>>, 1), Call(4, lockFn, <<Const, Move(1)>>, 1),
     Call(NoLocal, lockFn, <<Move(2)>>, 1), Call(4, lockFn, <<Const>>, 1),
     Drop(5, 2), Goto(2), Return}
    \cup {Call(5, c, <<Move(4)>>, 2) : c \in callees}

Prologue == <<Let(1), Let(2), Skip>>

BodyOf(choice) ==
    Prologue \o FlattenSeq([k \in 1..3 |->
        <<Header(k - 1, FALSE)>> \o choice[k][1] \o <<choice[k][2], Close>>])

AllBodies(callees) ==
    {BodyOf(c) : c \in [1..3 -> StmtMenu \X TermMenu(callees)]}

(* SSA bodies with definitions written before uses, the shape the          *)
(* builder's single-level resolution is documented to need.               *)
SSABodies == {b \in AllBodies({lockFn, unwrapFn, otherFn}) :
                IsSSA(b) /\ DefsBeforeUses(b) /\ UsesDefined(b, {3, 4, 5})}

(* Definitions before uses and one call per result local, but `_3` may be *)
(* re-pointed after its use, as a loop whose back edge re-borrows another *)
(* mutex does.                                                             *)
RebindBodies ==
    {b \in AllBodies({lockFn, unwrapFn}) :
        /\ UsesDefined(b, {3, 4, 5})
        /\ \A l \in {4, 5} : Cardinality({k \in 1..Len(b) : b[k].kind = "call"
                                                          /\ b[k].lhs = l}) <= 1
        /\ \A p, q \in 1..Len(b) :
              (b[q].kind \in {"ref", "call"} /\ b[q].lhs \in Uses(b[p])
               /\ \A r \in 1..(p - 1) : b[r].kind # "ref" \/ b[r].lhs # b[q].lhs)
                 => q < p}

(* SSA bodies whose unwrap of a lock result has a type name containing    *)
(* "lock".                                                                 *)
NameBodies == {b \in AllBodies({unwrapFn, clockUnwrapFn}) :
                 IsSSA(b) /\ DefsBeforeUses(b) /\ UsesDefined(b, {3, 4, 5})}
=============================================================================
