---------------------------- MODULE MCPipeline ----------------------------
(***************************************************************************)
(* Inputs for Pipeline: one function `main` whose body is the prologue    *)
(* `let _1; let _2; scope` and three blocks bb0..bb2, each holding at     *)
(* one terminator from a menu, bb0 after `_3 = &_1` and `_6 = &_2`:     *)
(*   _1, _2  two mutexes          _3, _6  references to _1 and _2         *)
(*   _4, _7  lock results         _5  the unwrapped guard of _4           *)
(* A call continues to another block and a goto to any block, so back    *)
(* edges, re-locking in a loop and blocks printed after their successors *)
(* occur.  bb2 may be a cleanup block that no normal edge enters.         *)
(***************************************************************************)
EXTENDS Pipeline, TLC

CONSTANTS lockFn, unwrapFn, otherFn

MLocals == 1..7
MBBIds == 0..2
MCallees == {lockFn, unwrapFn, otherFn}
MLockShaped == {lockFn}
MUnwrapShaped == {unwrapFn}
MCalleeRole == (lockFn :> "lock") @@ (unwrapFn :> "unwrap") @@ (otherFn :> "other")

INSTANCE MirLines


TermMenu(k) ==
    UNION {{Call(4, lockFn, <<Move(3)>>, m), Call(5, unwrapFn, <<Move(4)>>, m),
            Drop(4, m), Drop(5, m), Call(NoLocal, otherFn, <<Const>>, m),
            Call(7, lockFn, <<Move(6)>>, m), Drop(7, m)} : m \in MBBIds \ {k}}
    \cup {Goto(m) : m \in MBBIds} \cup {Switch(<<1, 2>>), Return}

Prologue == <<Let(1), Let(2), Skip>>

(* bb0 takes the reference `_3 = &_1`, which then dominates every lock.  *)
BodyOf(term, c) ==
    Prologue \o FlattenSeq([k \in 1..3 |->
        <<Header(k - 1, k = 3 /\ c)>> \o (IF k = 1 THEN <<RefLine(3, 1), RefLine(6, 2)>> ELSE <<>>)
        \o <<term[k], Close>>])

(* The terminator lines of MirLines. *)
IsTermLine(ln) == ln.kind \in {"goto", "return", "drop", "switch", "call"}

(* bb2 is a cleanup block only if no terminator line targets it. *)
Targets(ln) == IF ln.kind = "switch" THEN Range(ln.targets)
               ELSE IF ln.kind = "return" THEN {} ELSE {ln.target}

AllBodies ==
    {BodyOf(<<t0, t1, t2>>, c) : t0 \in TermMenu(0), t1 \in TermMenu(1), t2 \in TermMenu(2),
                                 c \in BOOLEAN}

(* The block a line of the body belongs to. *)
BlockOf(body, p) ==
    body[CHOOSE h \in 1..p : body[h].kind = "bb" /\ \A x \in (h + 1)..p : body[x].kind # "bb"].id

BlockSuccs(body, k) ==
    UNION {Targets(body[p]) : p \in {p \in DOMAIN body :
              IsTermLine(body[p]) /\ BlockOf(body, p) = k}}

(* The blocks reachable from bb0 through blocks other than d: a path     *)
(* through at most four blocks takes at most three steps.                 *)
StepAvoiding(body, d, S) == (S \cup UNION {BlockSuccs(body, k) : k \in S}) \ {d}

Avoiding(body, d) ==
    StepAvoiding(body, d, StepAvoiding(body, d, StepAvoiding(body, d, {0} \ {d})))

(* Every use is dominated by the definition it reads, as rustc guarantees *)
(* for the MIR it prints: an earlier line of the same block, or a block   *)
(* every path from bb0 passes through.                                    *)
DefsDominateUses(body) ==
    \A p, q \in DOMAIN body :
        (\E l \in Uses(body[p]) : Assigns(body[q], l)) =>
            IF BlockOf(body, q) = BlockOf(body, p) THEN q < p
            ELSE BlockOf(body, p) \notin Avoiding(body, BlockOf(body, q))

WellFormed(body) ==
    /\ IsSSA(body) /\ UsesDefined(body, {3, 4, 5, 6, 7}) /\ DefsDominateUses(body)
    /\ (\E h \in DOMAIN body : body[h].kind = "bb" /\ body[h].cleanup)
         => \A p \in DOMAIN body : IsTermLine(body[p]) => 2 \notin Targets(body[p])

(* Bodies in which every definition is written before its uses. *)
OrderedBodies == {body \in AllBodies : DefsBeforeUses(body) /\ WellFormed(body)}

(* One function, `bb0: _3 = &_1; goto` -> lock -> unwrap -> `drop(_5)`   *)
(* -> back to bb0, printed with its three other blocks numbered in every *)
(* order: rustc numbers blocks as it lowers, so an unwrap block may be    *)
(* printed before the block of the lock whose result it consumes.         *)
ChainBody(s) ==
    LET Term(k) ==
          CASE k = 0    -> Goto(s[1])
            [] k = s[1] -> Call(4, lockFn, <<Move(3)>>, s[2])
            [] k = s[2] -> Call(5, unwrapFn, <<Move(4)>>, s[3])
            [] k = s[3] -> Drop(5, 0)
    IN  Prologue \o FlattenSeq([k \in 1..4 |->
            <<Header(k - 1, FALSE)>> \o (IF k = 1 THEN <<RefLine(3, 1)>> ELSE <<>>)
            \o <<Term(k - 1), Close>>])

(* A switch that lists one successor twice, `switchInt(..) -> [bbM, bbM]`, *)
(* as rustc prints when two values of the discriminant lead to one block; *)
(* the menu above has no such switch, this set has nothing else.          *)
DupSwitchBodies ==
    {body \in {BodyOf(<<Switch(<<m, m>>), t1, Return>>, FALSE) : m \in {1, 2},
                   t1 \in {Goto(2), Call(4, lockFn, <<Move(3)>>, 2), Return}} :
        WellFormed(body)}

MBBIds4 == 0..3

AnyOrderBodies == {ChainBody(s) : s \in {s \in [1..3 -> 1..3] : Range(s) = 1..3}}
=============================================================================
