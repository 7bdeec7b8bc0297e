------------------------------ MODULE MCCliMir ------------------------------
(* Three paths, as in MCCli, and every MIR text of up to four characters  *)
(* over one header, "{" and "}", balanced or not.                          *)
EXTENDS CliMir, TLC

CONSTANTS p1, p2, p3, fa

MPaths == {p1, p2, p3}

AllArgs == [mir : MPaths, out : MPaths, dump : MPaths \cup {NoPath}]

(* Command lines whose --dump-json, if given, is not the --out file. *)
DistinctArgs == {a \in AllArgs : a.dump # a.out}

MNames == {fa}

(* The characters of ParseMir: the header of fa, "{" and "}". *)
MChars == {[kind |-> "hdr", name |-> fa], [kind |-> "lb"], [kind |-> "rb"]}

MTexts == UNION {[1..n -> MChars] : n \in 0..4}
=============================================================================
