----------------------------- MODULE MCParseMir -----------------------------
(***************************************************************************)
(* Inputs for ParseMir: every text of up to MaxLen characters over two    *)
(* headers, "{" and "}".  Texts with a header whose braces never close    *)
(* are the structural failures of spec section 7.                          *)
(***************************************************************************)
EXTENDS ParseMir, TLC

CONSTANTS a, b

MNames == {a, b}
MaxLen == 8

Alphabet == {Hdr(a), Hdr(b), LB, RB}
AllTexts == UNION {[1..n -> Alphabet] : n \in 0..MaxLen}

(* Texts in which every header has its matching "}". *)
BalancedTexts == {t \in AllTexts : Balanced(t)}
=============================================================================
