------------------------------- MODULE CliMir -------------------------------
(***************************************************************************)
(* main() of mir2pnml.py composed with the function discovery of          *)
(* parse_mir (mir_parser.py:53-86).  In Cli the outcome of parse_mir is    *)
(* the environment's choice; here the --mir file holds a text and the     *)
(* outcome is what discovery makes of it: no header gives the empty list  *)
(* of line 100, each header found is one more loop iteration, and a       *)
(* ParseError can only come out of the body parse of a function found     *)
(* (lines 79-84).                                                         *)
(***************************************************************************)
EXTENDS Naturals, Sequences

CONSTANTS Paths, NoPath, Args, Names, Texts

VARIABLES pc, args, disk, disk0, exitCode, failed, text, pos, functions, result

cliVars == <<pc, args, disk, disk0, exitCode, failed>>
discVars == <<text, pos, functions, result>>
vars == <<cliVars, discVars>>

C == INSTANCE Cli
D == INSTANCE ParseMir

(* The text read_text returns: a MIR file holds any text of Texts; any    *)
(* other file (PNML, JSON, an unrelated text) holds no `fn ... {` header, *)
(* which for discovery is the empty text.                                  *)
Init ==
    /\ C!Init
    /\ D!Init
    /\ disk[args.mir] # "mir" => text = <<>>

(* One iteration of parse_mir's loop while main waits in parse_mir. *)
ScanFunction ==
    /\ pc = "parse"
    /\ D!FindFunction
    /\ UNCHANGED cliVars

(* _parse_function_body of the function just found raises; parse_mir     *)
(* turns it into a ParseError and main exits 1 (mir_parser.py:79-84,      *)
(* mir2pnml.py:94-98).                                                     *)
BodyParseError ==
    /\ pc = "parse"
    /\ result = "running"
    /\ D!NextHeader(pos) # 0
    /\ C!Exit(1) /\ failed' = {"parse"}
    /\ UNCHANGED <<args, disk, disk0, discVars>>

(* parse_mir returns its list (lines 63-64, 86); main exits 1 when it is  *)
(* empty (mir2pnml.py:100-102) and builds otherwise.                       *)
ParseReturns ==
    /\ pc = "parse"
    /\ D!Finish
    /\ IF functions = <<>>
       THEN C!Exit(1) /\ failed' = {"empty"}
       ELSE pc' = "build" /\ UNCHANGED <<exitCode, failed>>
    /\ UNCHANGED <<args, disk, disk0>>

(* The other statement groups of main, which leave discovery alone. *)
CliStep ==
    /\ C!ParseArgs \/ C!CheckInput \/ C!ReadInput \/ C!Build \/ C!WritePnml \/ C!DumpJson
    /\ UNCHANGED discVars

Next == CliStep \/ ScanFunction \/ BodyParseError \/ ParseReturns

Spec == Init /\ [][Next]_vars

-----------------------------------------------------------------------------

TypeOK == C!TypeOK /\ D!TypeOK

(* The exit status tells whether --out can be used, as in Cli, now for     *)
(* the parse outcomes discovery really produces.                           *)
ExitCodeReflectsOutput == C!ExitCodeReflectsOutput
=============================================================================
