------------------------------ MODULE ParseMir ------------------------------
(***************************************************************************)
(* Function discovery of mir_parser.py (parse_mir, lines 53-86).           *)
(*                                                                         *)
(* The text is a sequence of tokens: a header, standing for a match of     *)
(* fn_pattern `fn NAME(...) -> ... {` (its last character is the "{"),    *)
(* and the single characters "{" and "}".  Other characters never change  *)
(* the brace depth and are left out.  Positions are 1-based; the code's   *)
(* 0-based index x is position x + 1 here.                                 *)
(* Each FindFunction step is one iteration of the while loop: search for  *)
(* the next header from pos, count braces to its matching "}", slice out  *)
(* the body, append the function and continue after the body.  The body   *)
(* parse itself (MirParser) never raises, so its result is the body.      *)
(***************************************************************************)
EXTENDS Naturals, Sequences, SequencesExt

CONSTANTS
    Names,   \* function names, as model values
    Texts    \* the texts parse_mir may be given

VARIABLES
    text,       \* the MIR text (fixed for a behaviour)
    pos,        \* pos: where the next fn_pattern search starts
    functions,  \* functions: [name, at, body] in discovery order
    result      \* "running" while the loop runs, then "ok"

vars == <<text, pos, functions, result>>

Hdr(n) == [kind |-> "hdr", name |-> n]
LB == [kind |-> "lb"]
RB == [kind |-> "rb"]

(* A character that raises the depth: "{" or the brace ending a header. *)
Opens(c) == c.kind \in {"hdr", "lb"}

(* fn_pattern.search(text, pos): the first header at or after p, else 0. *)
NextHeader(p) == SelectInSubSeq(text, p, Len(text), LAMBDA c : c.kind = "hdr")

(* Variant of ScanEnd that ignores nested opening braces. *)
RECURSIVE ScanEndFlat(_, _)
ScanEndFlat(i, depth) ==
    IF i > Len(text) \/ depth = 0 THEN i
    ELSE ScanEndFlat(i + 1, depth - (IF text[i] = RB THEN 1 ELSE 0))

(* The brace-matching loop of lines 69-76: from i with the given depth,   *)
(* step over characters while inside the text and the depth is positive; *)
(* the result is the position just past the last character examined.      *)
RECURSIVE ScanEnd(_, _)
ScanEnd(i, depth) ==
    IF i > Len(text) \/ depth = 0 THEN i
    ELSE ScanEnd(i + 1, depth + (IF Opens(text[i]) THEN 1
                                 ELSE IF text[i] = RB THEN -1 ELSE 0))

-----------------------------------------------------------------------------

Init ==
    /\ text \in Texts
    /\ pos = 1
    /\ functions = <<>>
    /\ result = "running"

(* Variant of FindFunction that resumes the search one character late. *)
FindFunctionSkipOne ==
    /\ result = "running"
    /\ NextHeader(pos) # 0
    /\ LET h == NextHeader(pos)
           e == ScanEnd(h + 1, 1)
       IN  /\ functions' = Append(functions, [name |-> text[h].name, at |-> h,
                                              body |-> SubSeq(text, h + 1, e - 2)])
           /\ pos' = e + 1
    /\ UNCHANGED <<text, result>>

(* Variant of FindFunction that resumes the search just after the header. *)
FindFunctionResumeAtHeader ==
    /\ result = "running"
    /\ NextHeader(pos) # 0
    /\ LET h == NextHeader(pos)
           e == ScanEnd(h + 1, 1)
       IN  /\ functions' = Append(functions, [name |-> text[h].name, at |-> h,
                                              body |-> SubSeq(text, h + 1, e - 2)])
           /\ pos' = h + 1
    /\ UNCHANGED <<text, result>>

(* One iteration of the discovery loop (lines 62-85): the body is         *)
(* text[m.end() : i - 1], everything after the header up to, and without, *)
(* the character before i.                                                 *)
FindFunction ==
    /\ result = "running"
    /\ NextHeader(pos) # 0
    /\ LET h == NextHeader(pos)
           e == ScanEnd(h + 1, 1)
       IN  /\ functions' = Append(functions, [name |-> text[h].name, at |-> h,
                                              body |-> SubSeq(text, h + 1, e - 2)])
           /\ pos' = e
    /\ UNCHANGED <<text, result>>

(* No further header: return the list (lines 63-64, 86). *)
Finish ==
    /\ result = "running"
    /\ NextHeader(pos) = 0
    /\ result' = "ok"
    /\ UNCHANGED <<text, pos, functions>>

Next == FindFunction \/ Finish

Spec == Init /\ [][Next]_vars

-----------------------------------------------------------------------------

TypeOK ==
    /\ pos \in 1..(Len(text) + 1)
    /\ result \in {"running", "ok"}
    /\ \A k \in DOMAIN functions :
          functions[k].name \in Names /\ functions[k].at \in 1..Len(text)

(* Brace balance of a segment: openings minus closings. *)
Balance(s) ==
    Cardinality({j \in DOMAIN s : Opens(s[j])}) - Cardinality({j \in DOMAIN s : s[j] = RB})

(* The reference definition of the matching brace of the header at h in   *)
(* text t: the first position j after h at which the segment h..j is      *)
(* balanced, or 0 when there is none.                                      *)
MatchClose(t, h) ==
    LET J == {j \in (h + 1)..Len(t) : Balance(SubSeq(t, h, j)) = 0}
    IN  IF J = {} THEN 0 ELSE CHOOSE j \in J : \A x \in J : j <= x

(* Every header of t that some scan could reach has a matching "}". *)
Balanced(t) == \A h \in DOMAIN t : t[h].kind = "hdr" => MatchClose(t, h) # 0

(* Bodies are brace blocks (spec 4.B, function discovery): the body of     *)
(* every function found is exactly the text strictly between its header's *)
(* "{" and the matching "}", nested braces included, as the depth counting *)
(* of lines 69-77 is meant to find it.                                     *)
BodiesAreMatchedBlocks ==
    \A k \in DOMAIN functions :
        LET h == functions[k].at IN
        /\ MatchClose(text, h) # 0
        /\ functions[k].body = SubSeq(text, h + 1, MatchClose(text, h) - 1)

(* The headers of t outside every other header's matched block. *)
TopLevel(t) ==
    {h \in DOMAIN t : t[h].kind = "hdr" /\
        ~\E g \in 1..(h - 1) : t[g].kind = "hdr" /\ h < MatchClose(t, g)}

(* Every function is found once (spec 4.B, function discovery): when the  *)
(* loop ends, the functions found are exactly the top-level headers of    *)
(* the text, in text order; the search resumes where the body ended       *)
(* (line 85), so no header after a body is skipped and none inside one is *)
(* taken for a function.                                                   *)
FindsEveryFunction ==
    result = "ok" =>
        /\ {functions[k].at : k \in DOMAIN functions} = TopLevel(text)
        /\ \A k \in 1..(Len(functions) - 1) : functions[k].at < functions[k + 1].at

(* Structural failure raises (spec 4.B and 7): when parse_mir returns a    *)
(* list, every function in it had a matching closing brace; unbalanced    *)
(* braces must end in a ParseError instead.                                *)
StructuralFailureRaises ==
    result = "ok" => \A k \in DOMAIN functions : MatchClose(text, functions[k].at) # 0

=============================================================================
