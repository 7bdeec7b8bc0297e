---------------------------- MODULE MCPnBuilder ----------------------------
(***************************************************************************)
(* Inputs for PnBuilder: `main` has three blocks bb0..bb2, each ending in *)
(* a terminator from a menu (or none), and bb2 may be a cleanup block;    *)
(* `helper` is empty or locks and releases its own `_1`.  The tables are  *)
(* those the parser derives for such bodies: `_3 = &_1`, and `_4` the     *)
(* guard of `_1`.                                                          *)
(***************************************************************************)
EXTENDS PnBuilder, TLC

CONSTANTS main, helper, lockFn, otherFn

INSTANCE MirLines

MFnNames == {main, helper}
MLocals == 1..5
MBBIds == 0..2
MCallees == {lockFn, otherFn}
MLockShaped == {lockFn}

Block(k, c, t) == [id |-> k, cleanup |-> c, term |-> t]

TermMenu ==
    {Call(4, lockFn, <<Move(3)>>, 1), Call(4, lockFn, <<Const>>, 2),
     Drop(4, 2), Drop(3, 2), Call(5, otherFn, <<Move(1)>>, 2),
     Goto(1), Switch(<<1, 2>>), Switch(<<2, 2>>), Return, NoTerm}

Main(t0, t1, t2, c) ==
    [name |-> main, guard |-> (4 :> 1), refs |-> (3 :> 1),
     blocks |-> <<Block(0, FALSE, t0), Block(1, FALSE, t1), Block(2, c, t2)>>]

EmptyFn == [l \in {} |-> NoLocal]

HelperMenu ==
    {[name |-> helper, guard |-> EmptyFn, refs |-> EmptyFn, blocks |-> <<>>],
     [name |-> helper, guard |-> (2 :> 1), refs |-> EmptyFn,
      blocks |-> <<Block(0, FALSE, Call(2, lockFn, <<Move(1)>>, 1)),
                   Block(1, FALSE, Drop(2, 2)), Block(2, FALSE, Return)>>]}


Mains == {Main(t0, t1, t2, c) : t0, t1, t2 \in TermMenu, c \in BOOLEAN}

(* main first or second in source order. *)
MInputs == {<<m, h>> : m \in Mains, h \in HelperMenu}
           \cup {<<h, m>> : m \in Mains, h \in HelperMenu}
=============================================================================
