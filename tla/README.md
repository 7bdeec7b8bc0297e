# TLA+ models of mir2pnml_py

This directory holds TLA+ models of `src/skills/mir2pnml_py`. That program translates
the textual MIR dump of a Rust program into a PNML place/transition net. In the
net, every `Mutex` becomes a free/held pair of places, so that a downstream
checker can look for deadlocks. The modules are written from the Python source;
`spec.md` is used only to state what the program promises.

## The system

The tool is one single-threaded, offline pass with no re-entrancy:

```
mir2pnml.py main ──► mir_parser.parse_mir ──► pn_builder.build_petri_net ──► pnml_writer.write_pnml
                         │ (per function)            │ (per function, per block)
                         └ _parse_function_body      └ _build_function_net
```

| Part | Source | State | Operations |
|---|---|---|---|
| MIR model | `mir_model.py` | records only | none |
| Parser, function discovery | `mir_parser.py:53-86` | text position, brace depth | find `fn … {`, match the braces, parse the body |
| Parser, body scanner | `mir_parser.py:89-234` | line cursor, `seen_bb`, `locals_list`, `ref_to_base`, `guard_to_mutex_key`, `basic_blocks` | skip a line, declare a local, consume a block: record its refs, adopt its last terminator line, bind guards |
| Net builder | `pn_builder.py` | `fns_to_process`, `seen_places`, `seen_transitions`, the arc counter, `places`, `transitions`, `arcs`, `initial_marking`, `warnings` | slice by `--max-fns`; per function a prologue; per block a warning or its edges; mutex places on first use |
| Net model | `pn_model.py` | records | two unused lookups |
| PNML writer | `pnml_writer.py` | an XML tree | one element per place (with its initial marking), transition and arc, in insertion order |
| CLI | `mir2pnml.py` | the files on disk, the exit code | check, read, parse, build, write, optional JSON dump |

### How the parts interact

The two parts interact through two tables of `MirFunction`:

- `ref_to_base` maps a local to the local it borrows, as in `_3 = &_1`.
- `guard_to_mutex_key` maps a guard to the mutex it locks.

The parser fills both tables while it scans. It binds a guard using `ref_to_base`
as it stands at that point of the scan. The builder reads the two tables only
after the parse, and it resolves every lock's key again against the final
`ref_to_base`. Both tables hold local names, which are shared between functions,
so one mutex key can stand for locals of different functions.

### What is hard here

The only concurrency is in the net that the tool emits; the tool itself is
sequential. The hard cases are therefore about order and state:

- **Order of the text.** Both tables are function-wide and grow in textual order.
  What a binding means depends on which blocks came earlier in the text.
- **Stale state.** A table is read at one time and used at another: the parser
  reads it at the lock, the builder after the parse.
- **Accumulated net state.**
  - Mutex places are created by whichever block of whichever function uses the
    key first.
  - Transition ids depend only on (block, target), so two edges can share one id.
  - `--max-fns` cuts the function list before the entry function is looked for.
- **Classification by substring.** Callees are classified as locks or unwraps by
  substrings of their path.

## Modules

| Module | Models | State ↔ code |
|---|---|---|
| `MirLines` | the line records the regexes of `mir_parser.py:91-102` extract, and the record sets of `mir_model.py` | constructors for inputs; `Terminator`, `BasicBlock` and `MirFunction` are the dataclasses as sets of records |
| `MirParser` | `_parse_function_body` (`mir_parser.py:89-234`) | `lines`, `i`, `seenBB`, `locals`, `refToBase`, `guardToMutexKey` and `blocks` are the same-named variables of the code |
| `MCMirParser` | parser inputs | a prologue and three blocks, each holding a statement and a terminator from a menu |
| `PnBuilder` | `build_petri_net` and `_build_function_net` (`pn_builder.py`) | `fns` is `fns_to_process`; `f` and `b` are the two loop cursors; `places`, `transitions`, `arcs` and `warnings` are the net; `InitialMarking` is derived from `places`; `Place`, `Transition`, `ArcRecord` and `PetriNet` are the record sets of `pn_model.py` |
| `MCPnBuilder` | builder inputs | `main` with three blocks; `helper` either empty or doing its own lock/drop/return; both source orders |
| `ParseMir` | `parse_mir` function discovery (`mir_parser.py:53-86`) | `text`, `pos`, `functions` are the code's variables; `ScanEnd` is the brace-depth loop of lines 69-76 as a `RECURSIVE` operator; `result` marks the return |
| `MCParseMir` | discovery inputs | every text of up to 8 tokens over two headers, `{` and `}` |
| `Cli` | `main` of `mir2pnml.py` | `pc` is the next statement group, `disk` maps paths to contents, `exitCode` is the return value; the outcome of each file-system call is chosen by the environment |
| `CliMir` | `main` composed with `parse_mir`'s function discovery | the variables of `Cli` and of `ParseMir` (`INSTANCE`); the `--mir` file's text goes through discovery, one `ScanFunction` step per function found |
| `MCCliMir` | CLI inputs | three paths, every assignment of contents, every command line, every text of up to four characters |
| `MirExec` | the abstract specification: what one MIR function does | `pc` (block pointer), `held` (mutexes whose guards are alive); the program (`Edges`, `Returns`) is state no step changes |
| `PTNet` | the token game of the emitted net, as a reader of the PNML plays it | `Initial`, `Pre` and `Post` read the places' initial markings and the arc elements that `write_pnml` emits |
| `Pipeline` | `main`'s parse → build hand-off (`mir2pnml.py:94-108`), then the emitted net firing | composes `MirParser`, `PnBuilder` and `PTNet` (`INSTANCE`), and maps the marking onto `MirExec` |
| `MCPipeline` | pipeline inputs | one function: bb0 takes `_3 = &_1` and `_6 = &_2`; each of three blocks ends in a lock of either mutex, an unwrap, a drop, another call, a goto, a switch or a return to any block |

### MirParser

`MirParser` has one action per iteration of the outer `while` loop:

- **`SkipLine`** skips scope and debug lines, a `let` after the first block
  header, and any other line.
- **`ParseLet`** declares a local.
- **`ParseBlock`** consumes a whole block, as the inner loop does:
  1. It folds every `_i = &_j` into `refToBase`; a later line overwrites an earlier one.
  2. It adopts the last terminator-shaped line of the block.
  3. It applies the guard-binding rules of lines 200-211.
  4. It appends the block.

Both tables are partial functions, updated with `:>` and `@@`. A regex is
abstracted to the record it extracts. For example, a call operand is
`[mode, local]`, and `FirstLocal` accepts only the modes that the regex of line
44 accepts.

### The data model

`mir_model.py` and `pn_model.py` are dataclasses without operations. They are
record sets, and each `TypeOK` checks the state against them:

- `MirParser`'s `blocks` must lie in `Seq(BasicBlock(...))`.
- `PnBuilder`'s `fns` must lie in `Seq(MirFunction(...))`, and its four lists
  must form a `PetriNet`.

A terminator is the record of the line it was parsed from. Some fields are left
out because nothing downstream reads them or they are constant:

- the unwind targets, statements and `line_start`;
- display names, `capacity` and `annotations`;
- the arc weight, which is always 1.

Each binding table is a partial function of locals (`LocalTable`).

### PnBuilder

`PnBuilder` builds the functions one at a time:

- **`BuildPrologue`** adds the entry, exit and block places, then the start
  transition and its two arcs.
- Each basic block then takes one of three actions:
  - **`SkipCleanupBlock`** for a cleanup block;
  - **`WarnNoTerminator`** for a block with no terminator;
  - **`BuildBlockEdges`** for every other block. It adds the block's warning, one
    transition and its arcs per successor, the mutex places, and for `Return`
    the exit transition.
- **`NextFunction`** moves on to the next function.

The insertion helpers follow the code:

- `AddNode` is idempotent by id, like `add_place` and `add_transition`.
- Arcs are only ever appended, and an arc's id is its position in the sequence.
- Ids are tagged tuples standing for the id strings. For example,
  `<<"edge", f, K, M>>` stands for `t_{f}_bbK_to_bbM`, so two ids collide
  exactly when the strings do.

### ParseMir

Each `FindFunction` step is one iteration of the discovery loop. It finds the
next header from `pos`, runs the depth loop (`ScanEnd`), slices the body
`text[m.end():i-1]` and resumes at `i`. `Finish` is the `break` when no header
is left. `MatchClose`, the first position at which the segment from the header
is balanced, is the reference definition the loop is checked against.

### Cli

Every statement group of `main` is an action, and its error branch is a
disjunct: `argparse` rejecting the command line (status 2, nothing touched), a missing file, an `OSError` on read, a `ParseError` or an empty
result, an `OSError` part-way through `tree.write` (which leaves a cut-off
file), and a failed dump. `_parse_function_body` raises on no line of its own.
Only an unexpected exception (`MemoryError`, say) becomes a `ParseError`
(`mir_parser.py:81-84`), so that branch is open only to text that holds a
function.

`CliMir` takes the outcome of `parse_mir` from the text instead of from the
environment:

- a file that is not MIR holds no header, so its text is empty;
- `ScanFunction` is one iteration of the discovery loop;
- `BodyParseError` is the body parse of the function just found raising;
- `ParseReturns` is the loop's exit, followed by the empty-list check of
  `main`.

`ExitCodeReflectsOutput` is checked on the composition, so the exit status
is tied to the files for the parse outcomes discovery really produces rather
than for an arbitrary choice.

### Pipeline, MirExec and the refinement

`Pipeline` runs in three phases:

1. **`Parse`** takes the steps of `MirParser`.
2. **`Handoff`** passes the resulting `MirFunction` (`ParsedFn`, lines 228-234)
   to the builder. **`Build`** then takes the steps of `PnBuilder`.
3. **`Load`** reads the finished net with its initial marking. **`Fire`** fires
   any enabled transition.

`MirExec` says what the function does, read off the body by def-use chains
(`TrueBase`, `TrueKey`) and not by the parser's tables:

- the thread starts in bb0 and follows normal edges;
- a lock edge blocks while its mutex is held, since `std::Mutex` is not
  re-entrant;
- a drop edge releases the mutex its guard really came from;
- `return` leaves.

The refinement mapping reads the marking:

- `pc` is the marked block place, or entry, or exit;
- `held` is the set of keys whose held place is marked.

`ImplementsExec` (`Exec!Spec` as a `PROPERTY`) then says that every firing
sequence of the emitted net is an execution of the function. `ProgramStepsInNet`
is the converse, step by step: every step the function can take from the
current state is matched by an enabled transition.

## Runs

| Run | Cfg | Expect | What it shows |
|---|---|---|---|
| `parser_core` | `MCMirParser.cfg` | pass | Inputs are SSA bodies that write definitions before uses. Every guard binding names the mutex the guard really came from, through `&` and unwrap steps. When the scan ends, every guard local is bound. The reference is `TrueKey`, a recursive def-use definition that does not depend on textual order. |
| `parser_rebind` | `MCMirParserRebind.cfg` | violation | `_3` is re-pointed (`_3 = &_2`) after `_4 = lock(move _3)` used `_3 = &_1`. The guard is bound to `_1`, but the builder locks `_2`. |
| `parser_names` | `MCMirParserNames.cfg` | violation | `Result::<MutexGuard<'_, Clock>,…>::unwrap` passes the lock test. Its result is bound to the lock's `Result` temporary instead of the mutex. |
| `builder_core` | `MCPnBuilder.cfg` | pass | Inputs are two functions in both orders and every combination of terminators. The net is well formed: every arc joins an existing place and transition, and ids are unique and disjoint. Every mutex key has exactly one free/held pair with tokens (1, 0), and exactly the spec's resource arcs. This holds even when an unlock creates the pair, or a second function reuses the key. |
| `builder_entry` | `MCPnBuilderEntry.cfg` | violation | `--max-fns 1` with `helper` written first leaves no entry token. |
| `builder_keys` | `MCPnBuilderKeys.cfg` | violation | `helper`'s lock of its `_1` and `main`'s unlock of its `_1` act on one mutex place pair: keys are bare local names. |
| `parse_core` | `MCParseMir.cfg` | pass | On every balanced text of up to 8 tokens, discovery finds exactly the top-level headers in order, and each body is the text up to the matching `}` (against `MatchClose`). |
| `parse_unbalanced` | `MCParseMirUnbalanced.cfg` | violation | An unclosed header yields a function with a truncated body and no `ParseError`. |
| `cli_core` | `MCCliMir.cfg` | pass | `Cli` composed with discovery. With `--dump-json` not equal to `--out`: exit 0 means `--out` holds this run's net; exit 1 leaves every file as found, except an `--out` cut off by a failed write; exit 2 (a rejected command line) leaves every file as found. |
| `pipeline_core` | `MCPipeline.cfg` | pass | Parsing and building terminate (`Translates`). The emitted net refines `MirExec` (`ImplementsExec`), misses none of its steps (`ProgramStepsInNet`), and its markings are safe. Inputs are every three-block body over two mutexes written definitions-before-uses: back edges, re-locking in a loop, nested locks released in either order, unwraps, drops of guards and of lock results, switches to two distinct blocks. |
| `pipeline_order` | `MCPipelineOrder.cfg` | violation | One function, with its lock, unwrap and drop blocks numbered in every order. When the unwrap block is printed before the lock block, `_5` is never bound, its drop becomes a plain edge, and the net keeps the mutex held where the function releases it. |
| `pipeline_dupswitch` | `MCPipelineDupSwitch.cfg` | violation | bb0 ends in `switchInt -> [bbM, bbM]`. The builder merges the two successors into one transition with two arcs from `p_main_bb0`, which the single control token never enables, so the net is dead where the program goes to bbM (`ProgramStepsInNet`). |

Every property of a passing run has a mutant in `PROJECT.json`: a plausible bug
in the mapped code that makes TLC report the property violated.

- `BindGuardNoLhsTest` binds a guard even when the lock call has no lhs.
- `BindGuardUnwrapRaw` propagates the consumed local instead of its key.
- `NextFunctionNoReset` does not reset the block cursor.
- `EdgeArcsNoTargetTest` adds the output arc even into a cleanup block.
- `MutexPlacesForLockOnly` creates mutex places only on the lock path.
- `FindFunctionSkipOne` and `FindFunctionResumeAtHeader` resume the search one
  character late, or just after the header.
- `ScanEndFlat` ignores nested `{`.
- `ParseArgsNoRequired` no longer requires `--mir`, so `args.mir` may be `None`.
- `WritePnmlWarnOnly` only warns when the PNML write fails, as the dump does.
- `EnsureMutexHeldMarked` gives the held place a token too.
- `SuccessorsFirstOnly` keeps only a switch's first target.
- `LockKeyUnresolved` locks the reference local, not its base.
- `SkipLineNoAdvance` does not advance the scan cursor: the translation never ends.

### Bounds

**Parser inputs.** The parser uses locals `_1`…`_5`:

- `_1` and `_2` are mutexes.
- `_3` is a reference.
- `_4` is a lock result.
- `_5` is its unwrap.

A body has three blocks. Each block holds at most one statement, either
`_3 = &_1` or `_3 = &_2`, and one terminator chosen from:

- locks through a reference, through a direct argument, after a constant, and
  with no local;
- an unwrap, or a look-alike unwrap, of `_4`;
- `drop(_5)`, `goto` and `return`.

These bounds are large enough for every binding path: lock via `&`, lock direct,
lock without lhs, unwrap of a guard, unwrap of a non-guard, a re-borrow after the
lock, and a lock-shaped unwrap. They also allow any order of those paths across
three blocks.

**Builder inputs.** `main` has three blocks. Each ends in one of ten terminators
(including a duplicate-target switch and none at all), and `bb2` may be a cleanup
block. `helper` is either empty or locks, drops and returns on its own `_1`,
which is the same key as `main`'s `_1`. Both source orders are checked. Together
these cover:

- an unlock before any lock;
- a key shared by two functions;
- a lock without a local;
- a drop of a non-guard;
- an unrecognised call;
- an edge into a cleanup block;
- the `--max-fns` cut.

**Discovery inputs.** Every sequence of up to 8 tokens over `fn a(..) {`,
`fn b(..) {`, `{` and `}` is enumerated, so nesting, adjacent functions,
headers inside bodies and unclosed braces all occur. The core run keeps the
balanced ones.

**CLI inputs.** There are three paths. Each path is absent, or holds MIR,
other text, or an earlier net. A MIR file holds any text of up to four
characters over one header, `{` and `}`, balanced or not: no function, one,
two adjacent, nested, and unclosed ones. Each command line is given by its `--mir`,
`--out` and `--dump-json` paths, or no dump. Every outcome of every call is
covered.

**Pipeline inputs.** The body has the prologue and three blocks. bb0 takes
`_3 = &_1` and `_6 = &_2`. Each block ends in one of:

- `_4 = lock(move _3)`, `_5 = unwrap(move _4)`, `drop(_4)`, `drop(_5)`,
  `_7 = lock(move _6)`, `drop(_7)` or an unrelated call, each going to either
  other block;
- a `goto` to any block, `switchInt -> [bb1, bb2]`, or `return`.

bb2 may be a cleanup block that no edge enters. The inputs keep the shape that
rustc emits: SSA, and every definition dominating its uses. The core run also
writes definitions before uses.

There are two mutexes so that it matters which one a drop releases. With a
single mutex, every unlock is right by default. With two, the net must pair
each guard with its own mutex while the other one may be held, and must
release them in whatever order the function does. SSA allows one lock call per
mutex. The three blocks already give loops through the
lock and double locking. The ordering run takes four blocks, because the
interesting case needs an entry block and three blocks in a chosen order.

The core menu has no switch that lists a block twice: with one, the net
misses a program step, which `pipeline_dupswitch` shows on the
bodies whose bb0 is `switchInt -> [bbM, bbM]` (M is 1 or 2, bb1 a goto, a lock
or a return, bb2 a return). The other properties of the core run are about
nets the builder gets right, so that case is kept out of it.

### Fairness and deadlock

The translator is one sequential thread, so any step it can take it eventually
takes. `Pipeline` assumes exactly that: `WF_vars(Translate)` over parse,
hand-off and build. `Translates` is checked under it.

No fairness is assumed for `Fire`. A reader of the net may stop anywhere, and
the properties about the net are safety properties.

Every cfg says `CHECK_DEADLOCK FALSE`, because each program stops:

- the scan, the build and `main` end in a final state;
- a fired net may reach a dead marking, at the exit or at a real deadlock of
  the function.

## Not modelled

- **The XML text of the PNML and the JSON dump.** `PTNet` reads what the writer
  emits: initial markings, and one weight-1 arc per arc. The element layout,
  names and annotations are pure serialisation.
- **Two single-statement CLI divergences.** No run is spent on them. The repository
  has no CLI tests, but each is one statement, visible by reading it, and
  needs no interleaving to reach:
  - a failed `--dump-json` write only warns, and `main` returns 0
    (`mir2pnml.py:124`), where spec section 6 asks for 1;
  - nothing stops `--dump-json` from naming the `--out` file, which the dump
    then overwrites after a successful write.
- **Regex details** such as `copy _N` operands or `unwind continue` clauses. The
  lines are abstract records, so textual format questions are left to unit tests.
- **Statements kept as opaque text** (`block_lines[:-1]`). The builder never
  reads them.
- **`--rwlock-n`.** The code reads it and never uses it.

## Plan

Later work, most important first:

1. **Two functions in the pipeline.** Use a helper that receives a reference
   to the caller's mutex, to show what the shared-key naming of
   `builder_keys` does to `ImplementsExec`.
2. **Non-SSA bodies in the pipeline.** An `if`/`else` that assigns a reference
   in each arm connects the `parser_rebind` finding to the refinement.

Both need a run of their own, and the run budget is spent on the findings and
the core runs.
