-------------------------------- MODULE Cli --------------------------------
(***************************************************************************)
(* The driver main() of mir2pnml.py (lines 48-126) and the files it reads *)
(* and writes.  Each action is one statement group of main.  The disk is  *)
(* a function from paths to contents; the outcome of every file-system    *)
(* call and of the parse is chosen by the environment:                    *)
(*   read_text  may raise OSError                   (lines 88-92)          *)
(*   parse_mir  may find no function, or raise ParseError: the body parser *)
(*              turns any exception (a MemoryError on a huge body, say)  *)
(*              into one (mir_parser.py:81-84)      (lines 94-102)        *)
(*   write_pnml may raise OSError after ElementTree.write opened the file *)
(*              and wrote part of it                (lines 110-114)        *)
(*   the JSON dump may raise OSError                (lines 116-124)        *)
(*   parse_args may reject the command line         (lines 49-81)          *)
(* build_petri_net cannot fail and is a plain step (lines 104-108).        *)
(***************************************************************************)
EXTENDS Naturals

CONSTANTS
    Paths,   \* file paths, as model values
    NoPath,  \* --dump-json not given
    Args     \* the command lines main may be given: [mir, out, dump]

(* What a file can hold: MIR text, another text, a net of an earlier run, *)
(* this run's net, a cut-off net, or this run's JSON dump.                *)
Contents == {"absent", "mir", "other", "oldnet", "pnml", "partial", "json"}

VARIABLES
    pc,        \* the next statement group of main, or "done"
    args,      \* [mir, out, dump]: the paths of the command line main is given
    disk,      \* path -> content
    disk0,     \* the disk as main found it (fixed for a run)
    exitCode,  \* main's return value once pc = "done"
    failed     \* the steps that failed, for the properties

vars == <<pc, args, disk, disk0, exitCode, failed>>

Exit(code) == pc' = "done" /\ exitCode' = code

Init ==
    /\ pc = "args"
    /\ args \in Args
    /\ disk \in [Paths -> {"absent", "mir", "other", "oldnet"}]
    /\ disk0 = disk
    /\ exitCode = 0
    /\ failed = {}

(* Variant of ParseArgs with --mir no longer required: a command line    *)
(* without it yields args.mir = None.                                     *)
ParseArgsNoRequired ==
    /\ pc = "args"
    /\ \/ pc' = "exists" /\ UNCHANGED <<args, exitCode, failed>>
       \/ pc' = "exists" /\ args' = [args EXCEPT !.mir = NoPath] /\ UNCHANGED <<exitCode, failed>>
       \/ Exit(2) /\ failed' = {"args"} /\ UNCHANGED args
    /\ UNCHANGED <<disk, disk0>>

(* parser.parse_args (lines 49-81): a command line without --mir or      *)
(* --out, or whose --max-fns or --rwlock-n is not an integer, makes      *)
(* argparse exit with status 2 before any file is touched.               *)
ParseArgs ==
    /\ pc = "args"
    /\ \/ pc' = "exists" /\ UNCHANGED <<exitCode, failed>>
       \/ Exit(2) /\ failed' = {"args"}
    /\ UNCHANGED <<args, disk, disk0>>

(* mir_path.exists(), else exit 1 (lines 83-86). *)
CheckInput ==
    /\ pc = "exists"
    /\ IF disk[args.mir] # "absent"
       THEN pc' = "read" /\ UNCHANGED <<exitCode, failed>>
       ELSE Exit(1) /\ failed' = {"missing"}
    /\ UNCHANGED <<args, disk, disk0>>

(* read_text, OSError -> exit 1 (lines 88-92). *)
ReadInput ==
    /\ pc = "read"
    /\ \/ pc' = "parse" /\ UNCHANGED <<exitCode, failed>>
       \/ Exit(1) /\ failed' = {"read"}
    /\ UNCHANGED <<args, disk, disk0>>

(* Variant of Parse that reports a parse error with status 2. *)
ParseExit2 ==
    /\ pc = "parse"
    /\ \/ disk[args.mir] = "mir" /\ pc' = "build" /\ UNCHANGED <<exitCode, failed>>
       \/ disk[args.mir] = "mir" /\ Exit(2) /\ failed' = {"parse"}
       \/ Exit(1) /\ failed' = {"empty"}
    /\ UNCHANGED <<args, disk, disk0>>

(* parse_mir: ParseError -> exit 1; no function found -> exit 1 (lines    *)
(* 94-102).  A text that is not MIR has no `fn ... {` header.              *)
Parse ==
    /\ pc = "parse"
    /\ \/ disk[args.mir] = "mir" /\ pc' = "build" /\ UNCHANGED <<exitCode, failed>>
       \/ disk[args.mir] = "mir" /\ Exit(1) /\ failed' = {"parse"}
       \/ Exit(1) /\ failed' = {"empty"}
    /\ UNCHANGED <<args, disk, disk0>>

(* build_petri_net (lines 104-108). *)
Build ==
    /\ pc = "build"
    /\ pc' = "write"
    /\ UNCHANGED <<args, disk, disk0, exitCode, failed>>

(* Variant of WritePnml whose failure branch only warns, as the dump's does. *)
WritePnmlWarnOnly ==
    /\ pc = "write"
    /\ \/ disk' = [disk EXCEPT ![args.out] = "pnml"] /\ UNCHANGED failed
       \/ disk' = [disk EXCEPT ![args.out] = "partial"] /\ failed' = failed \cup {"write"}
    /\ pc' = "dump"
    /\ UNCHANGED <<args, disk0, exitCode>>

(* write_pnml; an OSError -> exit 1, possibly after part of the file was  *)
(* written (lines 110-114).                                                *)
WritePnml ==
    /\ pc = "write"
    /\ \/ disk' = [disk EXCEPT ![args.out] = "pnml"] /\ pc' = "dump"
          /\ UNCHANGED <<exitCode, failed>>
       \/ disk' = [disk EXCEPT ![args.out] = "partial"] /\ Exit(1)
          /\ failed' = failed \cup {"write"}
    /\ UNCHANGED <<args, disk0>>

(* The optional JSON dump: an OSError is only a warning (lines 116-124);  *)
(* main returns 0 (line 126).                                              *)
DumpJson ==
    /\ pc = "dump"
    /\ IF args.dump # NoPath
       THEN \/ disk' = [disk EXCEPT ![args.dump] = "json"] /\ UNCHANGED failed
            \/ failed' = failed \cup {"dump"} /\ UNCHANGED disk
       ELSE UNCHANGED <<disk, failed>>
    /\ Exit(0)
    /\ UNCHANGED <<args, disk0>>

Next == ParseArgs \/ CheckInput \/ ReadInput \/ Parse \/ Build \/ WritePnml \/ DumpJson

Spec == Init /\ [][Next]_vars

-----------------------------------------------------------------------------

TypeOK ==
    /\ pc \in {"args", "exists", "read", "parse", "build", "write", "dump", "done"}
    /\ exitCode \in {0, 1, 2}
    /\ args \in [mir : Paths, out : Paths, dump : Paths \cup {NoPath}]
    /\ disk \in [Paths -> Contents]
    /\ failed \subseteq {"args", "missing", "read", "parse", "empty", "write", "dump"}

(* The exit status tells whether --out can be used: main returns 0 only   *)
(* when --out holds this run's complete net, and a run that returns 1     *)
(* leaves every file as it found it, except an --out that write_pnml had  *)
(* begun to write (spec section 7: parse errors never carry partial        *)
(* results); a rejected command line (status 2) leaves every file as it  *)
(* was.  A stale net of an earlier run is never passed off as this run's *)
(* result.                                                                 *)
ExitCodeReflectsOutput ==
    pc = "done" =>
        /\ exitCode = 0 => disk[args.out] = "pnml"
        /\ exitCode = 1 => \A p \in Paths :
              disk[p] = disk0[p] \/ (p = args.out /\ disk[p] = "partial")
        /\ exitCode = 2 => disk = disk0

=============================================================================
