# A verification of the Sith language server in TLA+

Sith (the `python-lsp` repository) is a language server for Python in Rust: an
error-tolerant lexer and parser adapted from Ruff's, an import resolver, and a
server that speaks the Language Server Protocol. This directory holds TLA+
modules that model its stateful parts and its algorithms, TLC configurations that check them on
small instances, and TLAPS proofs of the invariants that matter most.
`PROJECT.json` is the index: components, runs, the source lines behind every
definition, findings, hazards, and theorems. Paths below are relative to
`crates/`.

## The system

| Component | State it keeps | Operations |
| --- | --- | --- |
| Thread pool, `sith_server/src/server/schedule/thread/pool.rs` | a bounded job channel, the workers, the priority each runs at, `extant_tasks` | `new`, `spawn`, the worker loop, drop |
| Scheduler and event loop, `server.rs`, `schedule.rs`, `schedule/task.rs` | a background pool, a formatting pool of one thread, where the loop is | receive, dispatch, register capabilities, shut down, drop |
| API, `server/api.rs` | none | builds a task from a request or a notification |
| Client connection, `server/client.rs` | the handlers of the server's own requests and the next id | `request`, `pop_response_task`, `respond` |
| Session, `session.rs` | the workspace folders, the documents open in each (`Arc`s) | open and close folders and documents, change a document, take a snapshot |
| Document editing, `edit/document.rs`, `edit/convert.rs`, `edit/replacement.rs` | text, line index, version | `apply_changes`, conversion of positions, `Replacement::between` |
| Line index, `ruff_source_file/src/line_index.rs` | the line starts, whether the text is ASCII | build, line of an offset, range of a line, location of an offset |
| Locator and newlines, `ruff_source_file/src/locator.rs`, `newlines.rs` | the rest of the text, from both ends | next and last line, lines around an offset |
| Lexer, `python_parser/src/lexer.rs` and `lexer/` | cursor, current token, line state, nesting, indentation stack and pending dedent, f-string stack, errors | `next_token`, `checkpoint`, `rewind`, `re_lex_logical_token` |
| Token source, `python_parser/src/token_source.rs` | the tokens so far | `bump`, `peek`, `peek2`, `checkpoint`, `rewind`, `re_lex_logical_token`, `finish` |
| Parser, `python_parser/src/parser/` | the token source, syntax errors, the recovery context, the end of the previous token, the call stack | recursive descent, precedence climbing, list recovery, speculative parsing |
| Import resolver, `ruff_python_resolver/src/` | none (reads the file system) | resolves an import over search roots, stubs and partial packages |
| Syntax tree, visitors, string literals, text sizes | none | data types and structural recursion |

How they interact. The event loop is one thread. It reads a message from the
connection, lets the API build a task and dispatches it: a *local* task runs at
once with mutable access to the session; a *background* task takes a snapshot of
its document (an `Arc` clone) and is handed to a pool through a bounded channel,
on which the loop blocks when it is full. A worker runs the task, sends the
response and drops the snapshot at any time, while the loop goes on changing the
document: `Arc::make_mut` copies it when a snapshot is alive. At the end of the
loop the scheduler is dropped, which closes both channels and joins the workers.
On the parser's side everything runs on one thread, but the lexer is a machine
that the parser drives forwards (`bump`), sideways (`peek`), and back (`rewind`,
`re_lex_logical_token`).

What is hard, and the properties that make each component correct:

* **Pool**: jobs received by several threads from one channel, a channel at its
  limit, a job that unwinds its worker, a join that must come after the channel
  closes. No job is lost or run twice, jobs begin in order, `spawn` and the drop
  return, and the drop leaves nothing behind.
* **Event loop**: tasks run long after they were built, formatting answers must
  keep their order, there are many ways to end with tasks still queued, and a
  handler's error can unwind the thread it runs on. An answer is computed from the
  text as of its request; no request is answered twice; accepted work is finished
  unless it fails, and no failure is lost; the loop ends.
* **Session**: copy on write under concurrent drops, and a lookup by path that
  changes when folders do. A snapshot never changes; a lookup gives the client's
  text.
* **Document**: several edits in one notification, each in the coordinates of the
  text that the one before it leaves, in three position encodings. The server's
  copy is the client's, unless a notification goes on after it has restored the text.
* **Lexer and token source**: dedents paid one token at a time, brackets that
  suspend layout, f-strings that nest in brackets and the reverse, and a parser
  that goes back in all this. Blocks and f-strings nest, tokens and errors stay
  in order, look-ahead tells the truth, a rewind is exact, re-lexing yields the
  logical newline, and every text is lexed to a clean end.
* **Parser**: thirty kinds of lists that recover from errors by asking which
  enclosing list accepts the token, a `with` statement that is parsed twice when
  its parenthesis turns out to open an expression, and rules spread over flags.
  Every loop progresses and parsing ends, no assertion fails, the recovery context
  is that of the open lists, nodes nest, and what is accepted, and how it is
  grouped, is what the grammar says.
* **Resolver**: which of several candidates on several search paths wins, with
  stub packages, partial packages, namespace packages and native modules. The
  files found spell the module; the search never prefers a namespace package to a
  package, which only the fallback to the parent directories can bring back; the
  non-stub answer is what a search without stubs gives; the chain of comparisons
  picks the best.
* **Line index, locator, newlines**: three notions of a line, with CRLF read three
  times. They agree.

## The modules

| Module | Models | State and actions |
| --- | --- | --- |
| `Executor` | what a pool promises | `pending`, `running`, `ended`, `lost` (the threads that jobs have unwound), `open`; Submit, Begin, End, Unwind, Close |
| `Pool` | `pool.rs`, `thread.rs`, `priority.rs` | `channel` is the crossbeam channel, `thread`, `job`, and `current_priority` are the locals of each worker's loop. `Spawn` and `Send` are the call and the return of `spawn`; Receive, Start, Finish, Panic, Exit are the worker's steps; Drop and Join are the drops of the two fields |
| `Documents` | what the session promises | `documents`, `copies`; Open, Change, Close, TakeSnapshot, DropSnapshot |
| `Session` | `session.rs` | `heap` is the memory behind the `Arc`s, `open_documents` the map of each folder, `snapshots` the `Arc` of each task; one action per method of `Session` that is called with a message, and the drop of a snapshot |
| `Server` | `server.rs`, `schedule.rs`, `api.rs`, `client.rs` | composes one `Documents` and two `Executor`s with the event loop; one action per kind of message and way to end; per pool thread one action to begin a task, one to answer it, and one for a handler's error that cannot be formatted (`failed` records the request) |
| `LineIndex`, `Convert` | `line_index.rs`, `convert.rs` | operators on texts whose characters have a UTF-8 and a UTF-16 length |
| `Locator` | `newlines.rs`, `locator.rs` | the steps of the line iterators from the front and from the back, and the lines around an offset |
| `Document` | `document.rs` | one action per change of a notification, and one for each of the two ways `apply_changes` ends; `client` is the client's own copy, and the history `misled` records a change made through a stale line index |
| `Replacement` | `replacement.rs` | operators; `TextsSpec` tries them on every pair of short texts, the run of the text modules |
| `Indentation`, `Lexer` | `lexer/indentation.rs`, `lexer.rs`, `lexer/fstring.rs`, `lexer/cursor.rs` | the fields of `Lexer`; one action per iteration of a scanning loop or branch of `next_token` |
| `LexerFunction` | `lexer.rs` again | the step of `Lexer` as a function of the part of its state that later tokens depend on; used by the proofs only, which show that every action of `Lexer` computes it |
| `TokenSource` | `token_source.rs` and what moves with it in `parser/mod.rs` | `tokens`, the checkpoint of a look-ahead and that of the parser; one action per call, and the return of each |
| `TokenStream` | `token.rs`, and what the token source promises the parser | the token kinds and their classes; the stream of tokens of a source, from the nesting and the indentation, with re-lexing |
| `ParserSteps` | the vocabulary of `parser/mod.rs`: `bump`, `eat`, `expect`, `at_ts`, node ranges, checkpoints, `parse_list` | the instructions that parsing functions are written in |
| `Expressions`, `Statements`, `Patterns` | `parser/expression.rs`, `parser/statement.rs`, `parser/pattern.rs`, `parser/recovery.rs` | one sequence of steps per parsing function |
| `ListKinds` | `RecoveryContextKind` | what each kind of list is made of, where it ends and what it recovers at; its bit flag |
| `Parser` | `parser/mod.rs` | the machine that runs the steps: `todo` is the call stack, `vals` what the functions on it have parsed, `context` the bit flags; a checkpoint is a local of the function that made it, and so a field of its frame; one action per kind of step and per branch of the list loops |
| `PythonGrammar` | | what `with` items, parameters and operators the language reference allows, written without looking at the parser |
| `ImportResult` | `import_result.rs`, `implicit_imports.rs`, `native_module.rs`, `py_typed.rs` | the result record and the questions asked of the file system |
| `SearchPaths` | `search.rs`, `python_platform.rs` | the paths of a Python installation, of `.pth` files and of a virtual environment |
| `Resolver` | `resolver.rs` | the whole resolution as operators; one action answers one import of one world |
| `*MC` | | families of small inputs for TLC |
| `*Proofs` | | lemmas and theorems |

`Server` is built on the two abstract specifications, and `Pool` and `Session`
are shown to implement them (`ImplementsExecutor`, `ImplementsDocuments`, by TLC
and by proof), so what is checked of `Server` holds of the loop with the real
pool and the real session, as far as the refinements go: the session implements
`Documents` until the workspace folders change. Jobs that unwind their worker are
part of both levels of the pool; in `Server` they are the tasks whose handler fails.

### Abstractions

* A job is a model value that ends or panics. A priority is one of the two
  `ThreadPriority` values; setting it through the operating system is not
  modelled.
* The client is external. It sends any script of messages up to a bound, does
  not open a file it has open, and sends positions inside its lines. The reader
  and writer threads of the connection, and `handle_shutdown`, belong to the
  `lsp_server` library and are modelled from their use.
* The handler modules that `api.rs` declares are not in this tree and its routing
  tables are empty, so which task builder a message is routed to is an input, and
  so is what a request's handler returns: a value, an error that has a source, or one
  that has none, like those that `with_failure_code` makes of `anyhow!`. That the sending side of the connection fails is not modelled.
* `LineIndex::offset` and `is_ascii`, which the server calls, are not in the
  `line_index.rs` of this tree; they are modelled from their use. The byte order
  mark is a character, in the `text` run and in the proofs.
* The lexer's input is a sequence of character classes, the ones its control
  flow tells apart. There is one kind of quote and one kind of string prefix
  (`f`); numbers, identifiers, operators, and keywords are one-character tokens.
  Token values and the wording of errors are left out.
* The parser is the environment of `TokenSource`: it may bump, look ahead by one
  or two tokens, checkpoint once and rewind, and give up a parenthesised list at
  any token of a given set. Unparenthesised lists, whose recovery the lexer
  ignores because its nesting is zero, are not tracked.
* The parser reads items, one per written token, instead of characters: what the
  characters of a token do is the subject of `Lexer` and `TokenSource`. Nodes keep
  their kind, range, parts, operator, and name, and what the checks on finished
  nodes would report (whether a target can be assigned to, say) computed when the
  node is made. Errors keep their position and lose their wording. Strings are
  decoded or not; which escapes do is left out. `Parser::finish`, which merges
  the two lists of errors, is covered by `OutputInOrder` only as to its
  assumption.
* A path of the resolver is a sequence of names (`NameOrder` lists those that occur,
  which stands for the order of strings), a world a finite set of files, some with
  lines. The file system is external and does not change while an import is
  resolved; the order in which it lists a directory is either of two.

## What TLC checks

Deadlock is checked except in `parser` and `resolver`, where the
program ends when the source is parsed or the import is answered; where another
system may rest (a pool that was joined, a silent client, the end of the file)
the specification says so with a stuttering step.

| Run | Instance | Shows |
| --- | --- | --- |
| `pool` | 2 workers, 5 jobs, up to 2 panics; the channel holds 4 | `OneHolder`, `WorkersInStep` (the counter and the priorities are those of the jobs that run), `JoinDrains`, `ImplementsExecutor`, and the liveness properties `SpawnedJobRuns`, `OwnerReturns` (from a blocked `spawn`, and from the drop) |
| `tokens` | texts of 3 lines with 6 indentations; of 4 bracket pieces; of 4 f-string pieces; 3 longer ones that nest f-strings in brackets in f-strings; look-ahead, one speculative parse, recovery at every token | `IndentationsSorted`, `BlocksMatchStack`, `OutputInOrder`, `FStringsNest`, `ReLexEmitsNewline`, `PeekIsHonest`, `RewindIsExact` |
| `tokens_recovery` | all texts of 3 pieces over the whole alphabet, IPython mode; of 4 f-string pieces; recovery at every token | `EndOfFileIsClean` and the liveness property `ReachesEndOfFile` |
| `document_sync` | texts of up to 3 characters, a character of 4 bytes and both line breaks, 2 notifications of up to 3 changes, 3 encodings | `InSync`, `NoPanic`, `RoundTrip` |
| `text` | pairs of texts of up to 4 characters, with a byte order mark | `ReplacementIsCorrect`, `LocationsAreRight`, `LinesAgree` |
| `parser` | some 9,000 programs: every token after some 50 openings of statements, expressions, lists and patterns; `with` and every 3 tokens behind it, in parentheses or not; up to 3 parameters; two operators among operands of 5 forms; f-strings; IPython's escapes and help | `NoPanic`, `ContextIsOpenLists`, `RangesNest`, `AcceptsAsGrammar`, `OperatorsBindAsGrammar`, and the liveness property `ParserTerminates` |
| `resolver` | some 13,900 worlds: the modules `a`, `a.b`, `b` in 20 layouts on up to 3 search paths, typeshed, a stub path, a virtual environment with two Pythons and a `.pth` file; absolute and relative imports, with and without symbols | `PathsSpellModule`, `TraditionalShadowsNamespace`, `NonStubIsRuntime`, `ChosenIsBest` |
| `session` | nested folders, one that is no file, a document in each and one that is no file, 2 texts, 2 tasks, 5 cells | `SnapshotIsImmutable`, `StableLookupIsCurrent`, `OpenFilesAreTheClients`, `ImplementsDocuments` |
| `server_edits` | scripts of up to 4 edits, requests, notifications without a handler, and answers of every shape, 2 background threads, handlers that may fail | `ReadsRequestedText`, `FmtAnswersInOrder` |
| `server_end` | scripts of up to 4 messages of every kind, 1 background thread, handlers that may fail | `ServedOnce`, `EndsDrained`, and the liveness property `NothingHangs` |

For every property `PROJECT.json` names a mutant: a
definition that changes one operation the way a plausible slip in the code would,
and under which TLC finds the property violated. The mutants stand before the
operations they replace and are used by nothing else.

Why the bounds are enough for the interesting cases. Five jobs overfill the
channel of four that two workers get, so `spawn` blocks; two panics can unwind
both. Three lines reach two nested blocks and a dedent over both, and the six
indentations hold every pair that tabs and spaces order differently by column
and by character. Four pieces reach a bracket left open over a line, a bracket
inside a replacement field, and an f-string inside an f-string; the three longer texts
reach a format spec broken over two lines inside the brackets of another f-string, and
an unclosed f-string in a list below two blocks. Three changes in a
notification are the least in which one is applied through an index that the two
before it have left stale. Characters of two and three bytes are left to the proofs, which are about all of
them. Five cells
are one for each place where a file can be kept (the inner file has two) and one
for each snapshot; with six the run has the same states, so the bound never
blocks an action.
Four messages hold an open, two requests, and an edit between them, or, with
one background thread and its channel of two, a full channel before a shutdown.
One background thread is also the least that a failing handler can take away whole:
a blocked spawn then panics, and what was queued is dropped. That one of several
threads is lost is reached in `server_edits`.
The openings of `parser` put the parser into every kind of list and every function
that can be left in the middle, and every token after them takes each branch of
the recovery: one that belongs to the list, to an enclosing one, or to nothing;
the second ending leaves an enclosing bracket to be found and a statement behind
it. Three parameters are the least in which a default stands between two flags,
and three tokens after `with` the least in which a parenthesis can turn out to be
either. Three search paths are the least in which a middle result beats the first
and loses to the last, and two parts of a module the least in which a package is
found and its submodule is not.
In `session` the symmetry is that of texts and of tasks, which no definition
tells apart; the run has no liveness property.

Fairness. In `Pool` and `Server` every thread has weak fairness of its own: an
operating-system thread that can go on eventually does. Neither the spawning of
jobs nor a job's panic, the client's messages, or its silence is fair. A
job is assumed to end (`Finish` is part of a worker's fair step; in `Server` a
thread's step ends its task with an answer or a failure, and which of the two is not
fair), which the handlers must guarantee. In `TokenSource` the parser calls the lexer until the
end of the file, which is what `Parser::parse` does; the fairness there and in
`Parser` says only that the program does not stop. The parser machine is
deterministic, so `ParserTerminates` says that it has no endless loop.

### Where the code departs from its documentation

Each of these runs checks one property and ends in a counterexample.

* `session_stale` (`LookupIsCurrent`): a folder inside another is opened and closed
  while a file in it is open; the old text is found again (`session.rs:217`).
  `StableLookupIsCurrent` and its theorem say that without such changes lookups
  are current.
* `document_stale` (`StaysUpToDate`): the line index is refreshed by comparing with the
  text before the notification, so after a second change that restores that text a third
  one is applied with a stale index, to other characters than the client meant
  (`document.rs:87`, against the comment at `:10`). `StaleIndex` says when, the history
  `misled` records it, and `InSync`, `NoPanic` and `RoundTrip` are stated for a document
  that was never so misled: they do not catch this case, and it is the only way in which
  they fail.

Seen while modelling, without a run:

* Server. A column past the end of its line is clamped to an offset of the text
  rather than a length of the line (`convert.rs:89`). `Display for Error` unwraps the error's
  source (`api.rs:214`), and an error without one, such as `cast_request` or the session
  makes, panics there. A request whose parameters do not parse and a notification whose
  handler fails unwind the event loop. The error of a request's handler is formatted for
  the answer (`client.rs:89`): the request is never answered, against the comment of
  `respond` (`api.rs:141`), and the loop, or the thread, is gone; with the last thread of
  a pool go the tasks queued behind it, and the next spawn unwinds the loop.
  `EndsDrained` and `NothingHangs` name these cases. In the whole server the change that
  `session_stale` loses meets the same panic (`NotificationFails`). Where the two texts differ in their number of lines, the
  search of `Replacement::between` from the end pairs lines by their number from the start,
  so its range is not always the least, which its tests assert of their texts;
  `ReplacementIsCorrect` is about correctness only. A file that sorts before every folder is silently not opened
  (`session.rs:246`). A `null` response makes `pop_response_task` drop the task of
  the handler (`client.rs:137`).
* Lexer. Re-lexing keeps what the token it goes back over has changed
  (`lexer.rs:1412`). After an opening bracket, which stays counted, the newline is not
  a logical one (against the comment at `:1348`), then or at later recoveries. After
  anything inside an f-string the lexer is left in contexts that the text behind the
  cursor has closed, or has yet to open again: it may report errors before those it has
  reported, which `Parser::finish` then merges as if they were sorted
  (`parser/mod.rs:167`), and may deliver `Indent` and `Dedent` tokens out of step with its
  stack. The history `relexed` records the two cases, and `ReLexEmitsNewline`,
  `OutputInOrder` (as to errors), `BlocksMatchStack` and `FStringsNest` are stated for all
  others. Re-lexing twice may leave `prev_token_end` after the current token
  (`parser/mod.rs:281`). An unrecognised non-ASCII character leaves the lexer's line
  state as it was (`lexer.rs:213`).
* Parser. The sequence pattern of `case [a b]:` is accepted without its comma
  (`pattern.rs:340`). `[*(a) < b]`, `raise;`, `x; match = 1`, and `case -1 ** 2:` are
  not treated as Python treats them (`expression.rs`, `parse_starred_expression`;
  `statement.rs:414` and `:157`; `pattern.rs`). After an escaped brace behind a
  backslash the offset of an error in an f-string is off by one (`string.rs`).
* Resolver. `from . import foo` has no name parts, so the one path found for the package
  is compared with a length of zero and the import is reported as not found
  (`resolver.rs:173`, against the comment at `import_result.rs:14`). The second test for `py.typed` never decides anything (`resolver.rs:550`).
  Implicit imports of a namespace package are looked up in the parent directory, and
  subpackages are entered under the name of their `__init__` file. With a configured
  `stub_path` nothing else is searched for stubs. With imported symbols the
  preference between candidates depends on their order. `a-stubs/` without
  `__init__.pyi` wins over a real package `a`. An import of `a.b` enters a directory `a/`
  without an `__init__` file even where a module `a.py` stands beside it
  (`resolver.rs:105`), and so goes through a namespace package where Python takes the module;
  `TraditionalShadowsNamespace` names the exception. An import of `a.b` whose package `a`
  is found without its `b` is looked for once more in the importing file's parent
  directories (`resolver.rs:715`), and there a namespace package `a` with a `b` is taken,
  although the search had preferred the package; the same property names that case
  (`FromParents`).

## What TLAPS proves

Every theorem holds for all values of the constants that satisfy the named
assumptions: any number of threads, jobs, documents, folders and tasks, and
source texts of any length.

**`PoolProofs`**, from `WorkersAssumption` (a finite, nonempty set of workers) and
`JobsAssumption`. The invariants are not inductive one by one:
`extant_tasks` is a natural number only because it counts threads, and a job has
one holder only because a waiting thread holds none. `PoolInv` therefore joins
`TypeOK`, `OneHolder`, `ExtantCount`, and `RunsAtRequestedPriority` with
`Coupling`, which ties each program counter to the job held, the state of the
owner and the emptiness of the channel. From it follow `TypeCorrect`,
`JobsHaveOneHolder`, `WorkersStayInStep`, `JoinDrainsTheChannel`, and, step by step, `PoolImplementsExecutor`.

**`LexerProofs`**, and `RecoveryProofs`, which extends it, from `SourcesAssumption`,
`PendingAssumption`, `ModeAssumption`, `CallsAssumption`, and `ReLexAtAssumption`: any
texts, any calls of the parser, recovery at any set of tokens.
* `TypeCorrect`: by `TypeInv`, which adds that the text of an f-string is lexed
  only inside one and that a running look-ahead has its checkpoint.
* `StackSorted`: by `SortedInv`, which extends the order of the indentation stack
  to the stacks held in checkpoints.
* `EndOfFileClean`: by `CleanInv`, which says in which states the lexer can be when
  it enters the layout and character branches, and that no checkpoint is taken
  at the end of the file.
* `RewindsAreExact`: by `OrderInv`. A rewind truncates the tokens
  to a number, so nothing may ever cut below it. Only re-lexing cuts, and it cuts to a
  line break among the trailing trivia; the first token after a checkpoint is a bracket
  or a keyword (`Solid`), which is no trivia, so the cut stays above it. That the pieces of
  state put back fit together needs the order of tokens, the place where the lexer is in the
  text while it works for each caller (`From`, `At`), and the same for what is saved.
* `PeeksAreHonest` compares two runs of the lexer from one checkpoint, with the end of the first
  forgotten. First, each action of `Lexer` computes `Following` (`LexerIsFunction`):
  the next state depends on the text and on eight components alone, not on the errors, the flags, the range
  or the locals that are out of use. The same function, as a function of a value
  (`Step`), defines the runs that return only trivia (`Leads`). `PeekInv` then says that a
  running look-ahead has run from its checkpoint to where the lexer is (a run grows at its end,
  `LeadsOn`), and that afterwards what is ahead delivers the tokens it saw (a run loses its first
  step, `LeadsAfter`). The two meet where the lexer is put back, and only because all of the eight are.

**`RecoveryProofs`**.
* `ContextsNest`: by `SaneInv`, on which the other invariants build. That the contexts nest is kept only
  because trivia are not lexed in the text of an f-string, because a new line starts and
  dedents are paid only outside of everything, and because a line break inside an
  f-string is met only in a format spec, each of them in checkpoints too.
* `OutputOrdered`: by `ErrInv`. Errors stay in order because re-lexing never goes back
  behind one already reported: all errors start at or before the current token, and
  the only one that can stand between it and the line break is at the end of the
  file, where there is none to go back to.
* `BlocksInStepWithStack`: by `BlockInv`, which counts the `Indent` and `Dedent` tokens
  against the depth of the stack, in the present and in both kinds of checkpoint; a
  re-lexing removes only trivia, and after it no new line is begun.
* `ReLexedLineEnds`: by `LineInv`. The newline is logical exactly when the lexer's count
  of brackets reaches zero, and that count is at most the number of lists the
  parser is in, the current token aside.

**`ParserProofs`**, from `RulesAssumption`: any parsing functions that call functions which
exist and parse lists of known kinds, any programs. `ContextIsThatOfLists`, by `ContextInv`: each
list on the call stack will put back the flags of the lists below it, whether it ends or
gives up, and a function's checkpoint holds the flags of the lists that it runs in. The
second is why a rewind is harmless: it is done by the function that made the checkpoint, and so
in the same lists. That two kinds never share a flag is that `ToKind` inverts `FromKind`.

**`EditProofs`**, from `CharactersAssumption` (characters of the six kinds that the code tells apart: of
1 to 4 bytes, the byte order mark, and the line breaks) and `MaxLenAssumption`: texts of any
length, any changes, the three encodings.
* What the operators on texts compute is proved first, for every text. The lines a text is
  cut into tile it and each ends behind its break (`RowBegins`, `LastBreak`, `RowBeginIsUnique`); the
  line found for an offset is the one that holds it (`IndexFacts`, `RowOfIsRows`); a
  column inverts its offset in each encoding (`Utf8ColumnOffsetInverts`, `AsciiSizes`); so
  `to_offset` is the offset the client meant (`ToOffsetIsExact`).
* `DocumentInSync`, `DocumentNoPanic` and `DocumentRoundTrip`: by `DocumentInv`, in which
  the server's text is the client's, the active index is that of the text before the
  change unless `StaleIndex`, and a document that was not misled has the index of its text.
* `LocationsRight`: `source_location` gives the line and the column the text itself does.
* `ReplacementCorrect`: the common prefix and suffix that `between` finds do not overlap, and
  putting the middle of the new text in their place in the old one gives the new text.
* `LinesAlwaysAgree`: the division of a text into lines is a list of places (`Divides`), each a break of
  the index. A call of the iterator moves the front or the back end of what is left to the next
  place (`FrontStep`, `BackStep`), so in whatever order the calls come the lines taken are
  the index's (`TakenIs`). The locator, which looks for the nearest line ending on either side of an
  offset, meets the same two places (`LocatorLineStartIs`, `LocatorLineEndIs`). Both rest on where a
  search may begin: at a place, or where no CRLF is cut in two.

The sizes of texts are sums over their characters, so these are inductions over data. The library's
induction theorems cannot be used here (they take an operator as a parameter); the proofs
go by a least counterexample instead (`Least`, `UpTo`, from the well-foundedness of `<`), and a recursive
function is unfolded after it is shown to exist (`SizeUnfolds`, `CallsUnfold`; `BestUnfolds` and `WalkUnfolds` below).

**`SessionProofs`**, from `PathsAssumption` and `NoneAssumption`.
* `TypeCorrect` and `SnapshotsAreImmutable`: by `SnapshotInv`, whose `CellsInUse` says
  that whatever an `Arc` points to is allocated. No bound on folders or their
  changes is needed.
* `LookupsAreCurrent` and `SessionImplementsDocuments`: by `StableInv`, which adds, for
  as long as no folder has changed, that no two documents share a cell and that
  the document a lookup finds has the client's text.
* `SessionFollowsClient`: by `OpenInv`, where an open file is in the folder that the lookup
  chooses for it, the last that sorts before it, and in no other. That there is
  such a folder needs a finite set of folders and that `PathLess` is a strict
  total order.

**`ServerProofs`**, from `ServerAssumption`: scripts of any length over any documents and
methods, any number of background threads. `ServerInv` says where everything is:
* `PlaceInv`: a task is at one place (in the hands of a blocked spawn, queued, running,
  ended), and only in the pool of its kind; `AnswersInv`: answered only once ended.
  From these, `Once`.
* `TextInv`: a task in flight holds the text that the messages before its request
  make, however far the script has gone since, or nothing if its pool is without
  threads. From it, `RequestedText`.
* `FmtOrderInv`: formatting tasks pass through the queue and the one thread in the order of
  their requests. From it, `FmtOrder`.
* `DrainInv`: what was accepted is in flight, answered or failed, or its pool is without
  threads, and a pool is left behind only when it holds nothing, or has no threads and
  its queue holds no snapshot; `FailInv`: a failure has unwound a thread or the loop, and the join of
  an unwound thread the loop. From them, `Drained`; all ways to end the loop lead to
  the same two drops. That threads once lost stay so (`LostGrows`) carries the exceptions
  to the end.
* `ServerTypes` needs that at most one request of the server's own is made, and that
  its handler is gone once it ran (`RequesterInv`).

**`ResolverProofs`**, from `WorldsAssumption`: any worlds of finitely many files, whose settings are
paths made of the names listed, any modules, any number of search paths. The state
machine has one step, so the theorems are about what `resolve_import` computes.
* `PathsAlwaysSpellModule`: by the invariant of the walk over the parts, `WalkSpells`. After a part
  the directory reached spells the parts so far, and the result has one path for each of
  them, which spells the module up to it, as long as the walk goes on; where it stopped early there are
  fewer paths than parts, so what is counted as found has them all. The rest is that everything done
  to a result on its way to the answer (the choice among results, the marking of
  their type, the non-stub) leaves alone the fields the property reads (`AgreeSpells`).
* `TraditionalAlwaysShadowsNamespace`: the first part of a traditional module gives a path that is
  not empty, and no later part changes that (`FirstPartIsTraditional`); a result like that is
  never given up for another (`BestOfIsTraditional`), and typeshed's standard library is
  all that can come before it (`SearchPathsThenTypeshed`). So the search has found an import
  of one part (`StrictIsTraditional`), and only one of several parts can be left to the
  parent directories (`InParentsIsFromParents`).
* `ChosenIsAlwaysBest`: `Better` is a strict weak order (`BetterIsOrder`), one comparison never
  leaves the lesser of two (`PickKeepsBetter`), ties go to the earlier but for stubs
  (`TiesAreForStubs`), and `BestOfOneMore` carries this over one more search path.

Some of these are stated with more care than before they were proved. `OutputInOrder`,
`BlocksMatchStack` and `ReLexEmitsNewline` are false of texts longer than a first version of the
`tokens` run had, once a list is given up inside an f-string or at an opening bracket;
the failed proof steps gave the texts that the run now has (see the lexer, above).

Only model-checked:
* the liveness properties and everything that rests on fairness, which the prover does
  not reach;
* of the parser, whose rules are data that the machine walks: `NoPanic`, `RangesNest` and
  the comparisons with `PythonGrammar` are facts about each rule;
* of the resolver, `NonStubIsRuntime`, which compares the search in one world with the search in
  another: it needs that every definition of `SearchPaths` and `Resolver` gives the same in both.

## Not modelled

* String literals (`string.rs`): escapes decoded one literal at a time. The parser
  model distinguishes literals that decode from those that do not.
* Numbers, the text of identifiers, token values, and the wording and display of
  errors; the merge of the two lists of errors in `Parser::finish`.
* The syntax tree and its visitors: data types and structural recursion without
  state. `soft_keywords.rs` has no caller.
* Text sizes and index vectors: arithmetic wrappers, modelled where a component
  meets their assertions.
* Start-up, the handshake of `Server::new`, and packaging.

## Plan

Done: every module of the table above, with its runs; the proofs of the pool and its
refinement, of the session and its refinement, of the server, of all safety properties
of the token source, of the parser's recovery context, of documents, conversions, replacement
and lines, and of the resolver's choice among search paths.

Next, in this order:

1. `NonStubIsRuntime`.
2. String literals.

## Running

`tlc -config pool.cfg PoolMC` checks a run (`PROJECT.json` gives the module of
each), `tlapm PoolProofs.tla` a module of proofs.
