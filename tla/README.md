# fnmatch: a TLA+ model of the resumable matcher and what it is built on

This directory holds TLA+ specifications of the file name matcher in `src/`, the
TLC configurations that check them on small instances, and TLAPS proofs about
them. The library compiles a glob pattern to a small program and runs it on a
machine that can be suspended whenever input runs out, so that a directory tree
is matched by pushing and popping path components. Beside the matcher the
specifications cover its compiler, the bundled buffer and string-stack library, and the
implementations of fnmatch that the repository collects for comparison. All paths below are relative
to the root of the repository.

## 1. Inventory

| Part | Source | State | Operations |
|---|---|---|---|
| Compiler | `src/compiler.c` | none (writes a buffer) | `fnmatch_compile`: one instruction per literal, bracket expression, `?`, `*`, `**`, `/`, and an END |
| Machine | `src/vm.c` | the frame `op` (program position, buffer offset) and two saved frames, `any` and `deep` | one function per opcode, `fnmatch_vm_next`, `_prev`, `_retry`, `_rewind` |
| Context | `src/context.c` | the machine, a buffer of pushed bytes, `state`, `opcode`, two counters | `init`, `reset`, `push`, `match`, `pop`, `destroy` |
| Pattern | `src/pattern.c` | the program and its statistics | `init`, `compile`, `match` (one string), `destroy`, `render` (a stub) |
| POSIX entry | `src/posix.c` | none | `fnmatch` |
| Scanner | `src/scanner.c` | a context and three callbacks | `init`, `match`, `reset`, `destroy` |
| Buffer, arrays, allocation | `src/mem/src/buffer.c`, `alloc.c`, `src/mem/include/array.h` | data, length, capacity | grow, splice, append, set length, detach, ... |
| String stack and array | `src/mem/src/strstack.c`, `strarray.c` | a buffer of strings, the top, an array of pointers into it; not used by the matcher | push, pop |
| Collected implementations | `src/alt_impl.c`, `src/inspiration.c` (inside `#if 0`) | none; the cvs walker keeps lists of patterns | NetBSD, GNU, cvs, musl and OpenBSD `fnmatch`; `cvs_file_walkdir` |
| Not compiled | `src/match.c` | inside `#if 0` | - |

How they interact: `fnmatch` compiles the pattern, makes a context and drives it
through `fnmatch_pattern_match`. A context owns a buffer and points to a
pattern; `fnmatch_context_match` calls `fnmatch_vm_op` in a loop and
`fnmatch_vm_next` or `fnmatch_vm_retry` after each instruction;
`fnmatch_context_pop` calls `fnmatch_vm_rewind`. The compiler appends to a buffer whose
bytes become the program. The scanner is a loop over the
context's state that calls back the client for pushes, pops and matches. There
are no threads; what is hard is the order of calls, since every call leaves
marks, a position and bytes behind that the next ones rely on.

Behaviours that are hard, and what would be correct:

* **Suspension.** The machine stops wherever the pushed bytes end. Where a string
  is cut into pushes must not turn a mismatch into a match.
* **Backtracking over suspended input.** `any` and `deep` are kept across calls. A
  mark must name a star of the program and an offset the input reaches, it must
  be gone when the answer is final, and following marks must come to an end.
* **Rewinding.** A pop cuts the buffer back to a component and the program back
  to an instruction, in two loops that do not know of each other. It leaves the
  popped bytes, without a terminator, in the buffer for its caller: from then on
  there are bytes behind the length that the machine must not match.
* **The order of calls.** Each call is legal in some states only; the others
  lead to STOP or ERROR, which only a reset leaves.
* **Blocks that move or are not owned.** A buffer may point to a literal or to a block that
  the next call reallocates; a string array keeps pointers into such a block.
* **An encoding read in both directions.** Arguments are cut at 127 bytes, with
  a length before and behind; escapes are removed on the way in.
* **Boundaries.** The empty string, a terminator pushed by the client, a
  separator at offset 0, a literal longer than what is there.

## 2. Modules

| Module | Models |
|---|---|
| `FnmatchProgram` | what a compiled program is (`fnmatch_opcode_t`, `fnmatch_compile`) |
| `FnmatchVM` | `src/vm.c`: an operator per opcode, marks, retry, rewind |
| `FnmatchContext` | `src/context.c`: an action per call; safety, liveness, refinement |
| `FnmatchProtocol` | abstract: what the API promises a client about order and input |
| `FnmatchGlob` | reference: when a program matches a string |
| `FnmatchStream` | a context whose client never pops, compared with `FnmatchGlob` |
| `FnmatchPattern` | `src/pattern.c` and `src/posix.c` as a client of the context |
| `FnmatchScanner` | `src/scanner.c` over the context, with callbacks |
| `FnmatchCompiler` | `src/compiler.c` byte by byte, and the walk over its programs in `src/vm.c` |
| `MemBuffer` | `array.h`, `alloc.c`, `buffer.h` and `buffer.c` as operators on a buffer |
| `MemEditor` | a client that edits one buffer with every call of `buffer.c` |
| `MemText` | abstract: what each call does to a text |
| `MemStrings` | `strstack.c` and `strarray.c` over `MemBuffer`, with addresses |
| `MemStack` | abstract: a stack of strings |
| `FnmatchPosix` | reference: `fnmatch` as POSIX defines it, with the flags |
| `FnmatchNetBSD`, `FnmatchGNU`, `FnmatchMusl`, `FnmatchOpenBSD` | the collected implementations (GNU: libiberty's and cvs's) |
| `FnmatchCollected` | asks each of them for a pattern, a string and flags, beside the reference |
| `CvsWalk` | OpenBSD cvs walking a directory with its ignore lists, a caller of `FnmatchOpenBSD` |
| `FnmatchContextProofs` | theorems about the context |
| `FnmatchClientProofs` | theorems about its clients: `FnmatchStream`, `FnmatchPattern`, `FnmatchScanner` |
| `FnmatchCompilerProofs` | theorems about the compiler |
| `MemBufferProofs`, `MemEditorProofs`, `MemStringsProofs` | lemmas and theorems about the buffer and the string stack |
| `FnmatchOpenBSDProofs` | lemmas about the POSIX reference, theorem about OpenBSD's implementation |
| `FnmatchCollectedProofs` | theorems about the other implementations and the cvs walk |

`FnmatchContext` extends `FnmatchVM`, which extends `FnmatchProgram`;
`FnmatchStream` extends `FnmatchContext` and `FnmatchGlob`, and `FnmatchPattern`
extends it. `FnmatchScanner` extends `FnmatchContext`. `FnmatchContext` instantiates
`FnmatchProtocol` with a refinement mapping. `MemEditor` and `MemStrings` extend `MemBuffer` and instantiate `MemText`
and `MemStack` with refinement mappings. `FnmatchCollected` extends the four
implementations, which extend `FnmatchPosix`; `CvsWalk` extends
`FnmatchOpenBSD`, the implementation that its program is linked with. `FnmatchCompiler` instantiates `FnmatchProgram`
for what the machine expects of a program. The `MC*` modules give the constants values. The operators marked
*Fault* beside a definition are plausible bugs of that definition; they are not
part of any specification and exist to show that the properties notice them.

### How the state corresponds

* `program`: `context->pattern->program`, a sequence of instructions instead of
  bytes. `op.opptr`, `any.opptr` and `deep.opptr` count instructions from 0; the
  code only compares them with each other and with 0, and both counts order
  the instructions alike.
* A FIXED has its bytes (`str`), a CHARS the set of the bytes it accepts (`set`).
  Only `Sep` and `Nul` are told apart among bytes.
* `data` and `length`: `context->buffer`. `data` reaches from offset 0 at least up
  to the offset `length`, as the buffer does. A pop changes `length` only
  (`src/vm.c:252`), so a stale byte may stand at `length`; a push overwrites
  what is behind `length` and writes a terminator.
* `state`, `opcode`, `nmatch`, `nnomatch` are the fields of the context.
* `call` is "match" inside `fnmatch_context_match`, whose loop is one action per
  iteration: `NeedInput`, `OpMatches`, `OpRetries`, `OpFails`. The other calls
  are single steps; a context is not used by two callers at once.
* `call = "crash"` is a read outside the buffer, which `fnmatch_vm_rewind` makes
  when it decrements an offset of 0 (`src/vm.c:227`). What follows is undefined
  in C, and the model stops there.
* `Match` models the switch at the start of `fnmatch_context_match` with the call
  to `fnmatch_vm_next`. Once it has moved the context to STOP or ERROR, further
  calls change nothing and are steps that stutter.

* `FnmatchScanner`: `next` is the local `state` of `fnmatch_scanner_match`, `phase` the
  place in its loop, `callbacks` the ones that are not NULL. A callback is one
  step: it pushes, pops or takes note of the match, or does nothing
  (*declines*), and answers CONTINUE, STOP or ERROR. `left` is what the client
  still has to push. `declined`, `reported` and `repeated` record history.

* `FnmatchCompiler`: `at` is how far the pattern has been read, `program` the
  bytes written, offsets count from 0. One iteration of the loop of `fnmatch_compile` is one
  action, its assertion on an open bracket ends in `pc = "abort"`. `ArgMax` stands for 127, the
  bound of an argument and of a signed char.
* `MemBuffer`: a buffer is its block (`data`, a function on the offsets that exist),
  `length`, `alloc` as the library knows it, the true `size`, and whether every assertion has
  held (`ok`). A write behind the block enlarges the function beyond `size`. `jemalloc` is
  whether the build has `HAVE_JEMALLOC`.
* `MemStrings`: `base` is the address of the block, `top` and the entries of `arr` are
  addresses; a block that grows gets any of the addresses in `Bases`.
* `FnmatchPosix` and the implementations: the arguments of a call are a record `a`, and a
  pointer into one of them is an offset, at which `P` and `S` read. A loop or a recursion of the code is
  a recursive function over the offsets (`NetBSDFrom` says of one place what the code does there,
  given the answers further on, and `netbsd` is the function with those answers), so that the
  theorems can reach it.
* `CvsWalk`: `at` is the directory that is being read, with the files and the directories it has listed
  so far, `todo` the lists still to be walked by the calls of `cvs_file_walklist` in progress, innermost
  first: a directory that was read puts its files and, behind them, its subdirectories in front. One
  action takes one element of a list: `ProcessFile` gives it to `fileproc`, `EnterDir` opens a directory, and
  `SkipElement` passes over what is gone, of a bad type or not administered. Before every element, file or
  directory, a signal may end the walk (`Quit`, `src/inspiration.c:3360`). The lists are sets, as nothing asks for
  their order. `seen`, `done` and `skipped` record history.

The context model was also compared with the C code itself: random behaviours
of `FnmatchContext` were replayed against the compiled library, with the state
of the context compared after each call, without a difference.

## 3. What is checked

| Run | Module | Shows |
|---|---|---|
| `context` | `MCFnmatchContext` | type and bounds, `MarksOK`, `FinalHasNoMarks`, `StaleByteNotRead`, `PopHasInput`, `OnlyFailuresUnderflow`, `MatchAtBoundary`, `SlashMatchedBySlash`; every pop: `PopDropsFromComponent`; `ImplementsProtocol`: the context refines `FnmatchProtocol`; `MatchReturns`: each call returns |
| `stream` | `MCFnmatchStream` | `MatchIsSound`, `PartialIsSound`, `StandsOnPath`: reports agree with the reference for every cut into pushes |
| `pattern` | `MCFnmatchPattern` | `ZeroIsMatch`, `NoMatchIsNoMatch`, `AssertionsHold`, `Returns`: the answers of `fnmatch` |
| `scanner` | `MCFnmatchScanner` | `AsksInStep`, `FullMatchesReported`, `EndsOnRequest`, `ScanEnds`: what the callbacks see, and when a scan ends |
| `compiler` | `MCFnmatchCompiler` | `ProgramMeansPattern`: the bytes mean what the pattern says; `PrevUndoesNext`, `ProgramWellFormed`: the machine can walk them both ways and finds what it assumes; `AbortsOnlyOpenBracket`, `StatsCount`, `EveryIterationReads` |
| `buffer` | `MCMemEditor` | `ImplementsText`: each call does to the text what it promises; `BlockOK`: inside the block, terminated; `UnownedIsUntouched`, `AbortsOnlyUnowned`, `TextNeedsUsableSize`: literals, and when an assertion fails |
| `strings` | `MCMemStrings` | `ImplementsStack`: what the pointers read is a stack; `EntriesCover`, `PoppedReadable` |
| `collected` | `MCFnmatchCollected` | `AgreesWithPosix`: five implementations answer as POSIX defines, outside of named differences |
| `walk` | `MCCvsWalk` | `IgnoresByOwnLines`: a directory's patterns apply to its own names only; `FilesAreAccounted`: exactly the files a directory owes are processed, passed over or still listed |
| `ctx_pop_rewind` | `MCFnmatchContext` | violated: `PopRewindsAccordingly` |
| `pattern_leading_star` | `MCFnmatchPattern` | violated: `AlwaysReturns` |
| `compiler_escapes` | `MCFnmatchCompiler` | violated: `EscapesAsDocumented` |

Bounds. Programs: all with up to two instructions (three for `pattern`) over a
literal, `*`, `**`, `/`, `?`, a bracket expression and a negated one (in `context`, `?` only alone, behind `*` and in
front of `/`), and the longer
patterns `a*b*a`, `a*b/b`, `**/a/b`, `a/**/*b`; `pattern` also has `**/a*b` and `a*/**/b`. With two instructions and the END
every pair of adjacent instructions occurs; the longer ones have two stars
in a component, a star on either side of a separator, and a star under a double
star, which are the cases that set and clear both marks. Strings: one byte of
`a`, `b`, `/` or the terminator per push, at most `MaxLength` of them held (4 in
`context` and `stream`): enough for a directory, a separator, a
name and a terminator, for popping the last two and then the first, and for pushing
over the popped bytes. Since a longer push behaves as its bytes pushed without
a match in between, pushes of one byte lose nothing. `MaxResults` bounds the
counters between resets. In `pattern`, subjects have up to three bytes
(`MaxLength = 5` leaves room for the terminator) and three sets of flags occur.
In `scanner` the client has four strings to push (a name, a directory or the end of
a string each), which is a directory with a file and what ends both; a client at
the bound of the buffer can still decline.

In `compiler`, `ArgMax` is 3: all patterns of up to four bytes over the special ones and a
letter then have literals that are cut, in front of an escape as well, and all bracket
expressions of up to three bytes over `\`, `]`, `!`, `-` and two letters occur, closed and too
long ones among them. In `buffer`, the texts have 0, 1, 2 and 32 bytes: a fresh block has 32 by
`REALLOC_SIZE` and the allocator's rounding, so the last outgrows it by its terminator only.
Edits are at most `Margin` = 1 byte from either end of a text, which gives both signs of every
move with an empty and a nonempty tail, and three calls follow one another, one to
set up, one to grow or cut, one to see what that left. In `strings`, six strings of 0 or 16
bytes outgrow the buffer and the array, and the block moves between two addresses, up and
down. In `collected`, patterns and strings have up to three characters (and a few longer
patterns, for brackets and two stars), so that a star, what follows it and a slash or a leading
period meet under each flag and the pairs that interact. In `walk`, four directories, two of
them not administered by cvs, one with a line too long for a pattern, are walked in
every order, with any element passed over and a signal before any. The first has four names on
which the lists disagree, two others two of them, so that a list left behind or applied to
what is tracked shows; that their files and directories mix in the lists needs no more.

`CHECK_DEADLOCK FALSE` stands in the runs with pops: a context that has read
outside its buffer takes no further step. It also stands in `collected`, where an answer is
the last step, and in `walk`, where the walk ends.

Fairness. `FairSpec` has weak fairness of the iterations of `fnmatch_context_match`
only: a call that has been entered runs. Nothing is assumed about a client.
`PatternSpec` has weak fairness of the steps of `fnmatch`, which is a sequential
program. `ScannerSpec` has weak fairness of the steps inside `fnmatch_scanner_match`,
callbacks included: they return. That the client's tree is finite is part of the
model, not a fairness assumption; `ScanEnds` is stated for scanners with a push
callback, because without one the scanner itself pushes terminators forever.

`MatchReturns` excludes programs that start with a star, for which it is false
(below). `NoMatchIsNoMatch` is stated for patterns that do not start with a star and in
which of any two stars the first is single and in an earlier component, or double with the
second single (`SingleStars`), `ZeroIsMatch` for those without a double
star, and both with bracket expressions that do not match a separator or the
terminator (`Proper`). `AssertionsHold` leaves the empty string out.
`OnlyFailuresUnderflow` is about pops behind a full match: one behind a failure does read in front
of the buffer if that begins with a separator or a terminator. `ProgramMeansPattern` compares the program with
what `README.md:22` says of a pattern (`Meaning`), for patterns of which the compiler knows the escapes: a backslash
in front of a byte of `FixedEscaped`, none at the end, and no `[]` or `[!]`, in which POSIX takes the
bracket for a member of the set. Of bracket expressions it compares those without a backslash in their set and
without a range that starts at the negation (`Plain`). `AgreesWithPosix` is stated for plain bracket expressions, and for each
implementation outside of what its module names at its end (`NetBSDFollows`, `GNUFollows`,
`MuslFollows`, `OpenBSDFollows`).

### Where the code and its documentation disagree

| Shown by | What the code does | What is said |
|---|---|---|
| run `pattern_leading_star` | `*b` never returns when its star has to skip a byte: `fnmatch__vm_restore` prefers `any` only if its program position is greater than that of the unset `deep`, and 0 is not (`src/vm.c:57`) | `README.md:35` |
| run `ctx_pop_rewind` | popping a directory whose SEP was matched leaves the program behind that SEP (`src/vm.c:247`) | "rewind the program accordingly" (`src/vm.c:240`) |
| run `compiler_escapes` | a backslash in front of any byte that is not special is a literal backslash, and so is one at the end of the pattern (`src/mem/src/buffer.c:178`) | `README.md:22`: it matches the byte behind it, and such a pattern matches nothing |
| `PopDropsFromComponent` | a pop goes back from where the machine stopped, not from the end of the buffer: components pushed behind that point go with it (`src/vm.c:232`) | "throw away buffer from end to last separator" (`src/vm.c:223`) |
| `SingleStars` | `b*a*b` misses matches: a set mark is kept (`src/vm.c:30`) | "last occurance" (`include/fnmatch.h:100`), `README.md:35` |
| `SingleStars` | `a*b**/a*b` misses `ab/aab`: a separator drops the mark of a star only if the mark is newer than that of the double star, so the one before the double star stays and the one behind it is not recorded | `README.md:35` |
| `ZeroIsMatch` | `**/b/a` answers 0 for a string it does not match: a partial match after the terminator counts (`src/pattern.c:72`) | `README.md:35` |
| `Proper` | `[!a]b` matches `/b` (`src/vm.c:126`); `a[!a]` accepts the terminator and fails the assertion at `src/pattern.c:73` | `README.md:20` |
| `AssertionsHold` | the empty string aborts for `*`, `**` and the empty pattern | assertion `src/pattern.c:75` |
| `OnlyFailuresUnderflow` | a pop behind a failure at offset 0, on a terminator or a separator, reads outside the buffer (`src/vm.c:227`) | - |
| `Meaning` (compiler) | `[]` is a bracket expression that accepts nothing, `[!]` one that accepts all (`src/compiler.c:91`) | `README.md:18` refers to POSIX, where the `]` stands for itself |
| `StatsCount` | `mchars` counts escapes (`src/compiler.c:150`) | "minimum chars to match" (`include/fnmatch.h:75`) |
| `AbortsOnlyUnowned` | replacing bytes of a literal by as many others writes them into it and fails the assertion (`mem/include/buffer.h:87`) | - |
| `TextNeedsUsableSize` | without jemalloc no byte can be stored (`mem/src/alloc.c:13`) | - |
| `Plain` (compiler) | `fnmatch__vm_chars` removes escapes a second time, and takes `!` for the start of a range in `[!-z]`; `[a-c]` also accepts `-` | - |

The first three are runs that TLC must find violated; the others are hypotheses of a
property that holds, without which it would not.

More observations: a scanner that was stopped by its match callback and is started again
reports the same match again (`src/scanner.c:51`), which is why
`FullMatchesReported` exempts it. `buffer_trim` leaves the order of its two
halves to the compiler; `MemEditor` allows both. `buffer_detach` of a buffer that
never grew gives out the static `buffer_initial`, which must not be freed.

What those leave out of the comparison with POSIX: NetBSD's bracket expressions match
a leading period, and its recursion behind a star has lost `FNM_PERIOD`. GNU's stars and
bracket expressions match slashes under `FNM_PATHNAME`, and GNU reads behind a pattern that
ends in a backslash. musl does not take `\.` for a leading period and has no
`FNM_CASEFOLD`. OpenBSD's empty pattern never matches a leading directory, and without
`FNM_PATHNAME` the characters behind a star have to end the whole string; with `FNM_CASEFOLD` it tries
the ends of a range as they are, too, so that `[A-b]` accepts `Z`. In cvs, a pattern
without a glob character is compared, so a backslash in it is an ordinary byte.

## 4. What is proved

For every alphabet, every set of well-formed programs and every set of pushed
strings, without the bounds of the runs (a proof holds with any `MaxLength` and
`MaxResults`):

| Theorem | Property |
|---|---|
| `TypeCorrect` | `TypeOK`: the program position is inside the program, the pushed bytes inside the buffer |
| `MarksStayInRange` | `MarksOK` |
| `FinalResultsAreFinal` | `FinalHasNoMarks` |
| `StaleBytesAreNotMatched` | `StaleByteNotRead` |
| `MatchesAtBoundaries` | `MatchAtBoundary` |
| `PopsHaveInput` | `PopHasInput` |
| `UnderflowsFollowFailures` | `OnlyFailuresUnderflow`: no pop behind a full match reads in front of the buffer |
| `PopsDropFromComponent` | `PopDropsFromComponent`: a pop discards all from the start of the component the machine stopped in, and nothing in front |
| `SlashesMatchSlashes` | `SlashMatchedBySlash` |
| `MatchesAreReported` | `FullMatchesReported` |
| `FullMatchesAreSound` | `MatchIsSound`: a full match is one by the reference, however the string was cut into pushes |
| `PartialMatchesAreSound` | `PartialIsSound` |
| `MarksStandOnPaths` | `StandsOnPath` |
| `AssertionsNeverFail` | `AssertionsHold`: the assertions of `fnmatch_pattern_match` |
| `ZeroAnswersAreMatches` | `ZeroIsMatch`: an answer of 0 is right, for strings of any length |
| `NoMatchAnswersAreRight` | `NoMatchIsNoMatch`: FNM_NOMATCH is right: the backtracking is complete |
| `Refinement` | `ImplementsProtocol`: the context implements `FnmatchProtocol` |
| `CallbacksAreAskedInStep` | `AsksInStep`: a callback is asked for what the context allows |
| `ScansEndOnRequest` | `EndsOnRequest`: a scan ends only because a callback ended it |
| `IterationsRead` | `EveryIterationReads`: no iteration of `fnmatch_compile` reads nothing |
| `AbortsAtOpenBrackets` | `AbortsOnlyOpenBracket`: the assertion fails for open bracket expressions only |
| `WalksAgree` | `PrevUndoesNext`: lengths fit a signed char, and walking back undoes walking forth |
| `CompiledIsWellFormed` | `ProgramWellFormed`: a compiled program is what the machine assumes |
| `CompiledMeansPattern` | `ProgramMeansPattern`: a compiled program says what `README.md` says of the pattern, for patterns of any length whose escapes the compiler knows, and any bound of an argument |
| `StatsCountElements` | `StatsCount`: what `mchars`, `groups` and `parts` count |
| `EditedBlockOK` | `BlockOK`: no call of `buffer.c` leaves the block or loses the terminator |
| `EditedAbortsOnlyUnowned` | `AbortsOnlyUnowned` |
| `LiteralsAreUntouched` | `UnownedIsUntouched` |
| `TextNeedsAllocatorSizes` | `TextNeedsUsableSize` |
| `BufferImplementsText` | `ImplementsText`: the buffer implements `MemText` |
| `StackEntriesCover` | `EntriesCover` |
| `PoppedStaysReadable` | `PoppedReadable` |
| `StringsImplementStack` | `ImplementsStack`: what the pointers read implements `MemStack` |
| `OpenBSDMeans`, `NetBSDMeans`, `GNUMeans`, `MuslMeans` | what each implementation answers for a call is what POSIX defines, wherever it is known to follow it |
| `CollectedAgree` | `AgreesWithPosix`: so does every answer that is asked for |
| `WalkIsLocal` | while a directory is read the list `dir_ign_pats` is that of its own lines, and between two of them it is empty |
| `IgnoresOwn` | `IgnoresByOwnLines`: a name is ignored for its own directory's lines, by what POSIX says of them |
| `AccountsForFiles` | `FilesAreAccounted`: no file gets lost in the walk, and none is added |

Assumptions: `ByteAssumption` (separator and terminator are two bytes),
`ProgramsAssumption` (programs are `WellFormed`: what `fnmatch_compile`
produces), `StringsAssumption` (C strings hold no terminator) and
`BoundsAssumption`; for the scanner `AnswersAssumption` (callbacks answer CONTINUE,
STOP or ERROR: any other answer would be taken for a state of the context),
`NullAssumption` and `TreeAssumption`. `WellFormed` asks of a program that it ends in its only
END, that no star is followed by a star, and that literals are neither empty nor hold a
terminator, which ends the pattern. For the call of `fnmatch` the subjects are strings
(`SubjectsAssumption`), the empty one among them or not; for the buffer, texts are strings without a
terminator, guesses are numbers and trim sets are sets of bytes (`EditorAssumption`); for the
stack, addresses are numbers. For the compiler, patterns are strings of bytes without a terminator
(`ExprsAssumption`) and `ArgMax` is positive (`ArgMaxAssumption`). For the collected implementations, arguments are strings of ASCII bytes
other than 0 (`CollectedAssumption`), and so are the names and lines of the walk, in
which a pattern's buffer has room for a byte and a terminator (`WalkAssumption`). TLC evaluates all of them.
`CompiledIsWellFormed` proves what `ProgramsAssumption` assumes: the two parts of the project meet there, and
`CompiledMeansPattern` says which program it is.

The inductive invariant `IInv` (`FnmatchContextProofs`) is the conjunction of
`TypeOK`, `MarksOK`, `FinalHasNoMarks`, `StaleByteNotRead`, `PopHasInput` and
`MatchAtBoundary`. None of them is inductive alone. `TypeOK` needs
`MatchAtBoundary`, because `fnmatch_vm_next` advances the program behind a partial
match and stays inside it only if the match was not of the END; it needs
`MarksOK`, because a retry jumps to a mark. `FinalHasNoMarks` rests on `MarksOK`:
`fnmatch_vm_retry` refuses to go back at instruction 0, where a mismatch with a set
mark would otherwise leave it behind; a mark at or before instruction 0 can
only belong to a star there, and a star does not mismatch. `StaleByteNotRead`
needs `FinalHasNoMarks`, for a pop that resumed at a mark instead of
rewinding would leave the machine on bytes that are cut off. `PopHasInput` says
what a final answer knows of the position and gives the protocol its
nonempty pop.

The refinement maps `Input` to the bytes before `length` and `Status` to the
state, in which a running call is "BUSY" and a match is "FULL" or "PARTIAL".
Iterations that go on are stutters of the protocol. Its hardest step
is the pop: `ComponentStartFacts` shows, from `PopHasInput` and
`StaleByteNotRead`, that the two decrements and the loop of `fnmatch_vm_rewind` end
before the length and behind a separator.

The scanner's invariant `ScanInv` adds to `IInv`, which holds because every step of
the scanner is a step of its context (`StepIsContextStep`), what the loop knows
(`LoopInv`): a context that waits for a push or a pop at the time of a call of
`fnmatch_context_match` does so because a callback declined. That
`fnmatch_vm_next` never answers STOP behind a partial match comes from
`MatchAtBoundary`.

`FullMatchesReported` is inductive with the ranges of its two history variables
(`ReportInv`) beside `ScanInv`: `RunningCounts` shows that an iteration of the match counts one
exactly when it reaches a full match.

For the stream the inductive invariant is `SInv`: `IInv` with `StandsOnPath`,
`MatchIsSound` and `PartialIsSound`. `StandsOnPath` carries the proof: the machine and each
mark stand at an instruction up to which the program matches the string up to the
offset, or to a place from which the star they stand at takes the rest. One instruction
leads from there to a longer path (`LongerPath`, `VmOpStands`), a retry to a place the mark
stands on, and a push changes no byte a path reads (`StandsAgree`). A path is a
function from instructions to offsets, so no induction is needed.

`PopsDropFromComponent` rests on `ComponentStartFacts` as the refinement does, on `RewindsBack` (the
search ends at or before the machine's position) and on `SeparatorsDropped`, which says where
separators can be among the bytes given back in front of that position.
`OnlyFailuresUnderflow` is inductive beside `IInv` with what the context knows before a pop (`FailInv`): behind NOMATCH
the last instruction failed, and where a pop is due it failed or the machine stands behind the terminator of
a full match, at an offset that can be decremented.

`SlashMatchedBySlash` needs the same balance for the mark of a star, to which a retry goes back,
and for the instruction before the next one, where a mismatch leaves the machine (`SlashInv`).
A retry moves the mark by a byte that is no separator; the separators before an offset and the SEP
instructions before a position are finite sets, and a SEP adds one element to either.

For the call of `fnmatch` the invariant is `PInv` (`FnmatchClientProofs`): `SInv` with what the buffer holds
in each phase (the subject, then its terminator), what the context has answered, that the machine is
not behind the terminator, and that a program without a double star, which has asked for more at the
end of the subject, has no separator before it. Without the last part an answer of 0 could come from
a partial match behind the terminator, as it does with a double star.

`NoMatchIsNoMatch` is the completeness of the backtracking, and its invariant is `Complete`: when
the subject has a match at all, the rest of the program accepts the rest of the subject from where the
machine stands, or from one of its marks (`Search`). For that to survive a retry the invariant has to say
what following a mark gives up. Behind the mark of a star (`Near`) only instructions of fixed
width have matched, so a match by way of a longer piece of the star passes the machine's
instruction further on in the same component, and the mark that is kept still leads to it. Behind the
mark of a double star (`Least`), any match by way of it passes the machine's instruction where
the machine is or later, unless the machine or the other mark leads to one. A match is again a
function from instructions to offsets, cut and joined by `TakesSplit` and `TakesJoin`; what would be
an induction over the strings a mark has tried is carried by the steps of the machine themselves.
The attempt to prove this showed that the property was false as it had first been stated, for
`a*b**/a*b`, which no bound of the runs reached; `SingleStars` has excluded it since.

The invariants of the buffer (`MemEditorProofs`) and of the stack (`MemStringsProofs`) rest on one lemma for each operator of
`MemBuffer`, in `MemBufferProofs`: what a growth keeps, where the pieces of a splice come to
stand, and what a cut leaves. A buffer is `Sound` if its block has the size it claims, holds the text and, as
long as no assertion has failed, the terminator; behind it, junk is allowed. That is why an assertion
that has failed is part of the state: the only calls that leave a text without a terminator are those
on literals, and they end in one. The refinement of `MemText` then computes the text of each result
as a sequence. The stack keeps a layout of offsets (`Layout`): where each string begins and
that the one terminator in it is its last byte; the pointers are the base plus those offsets. A
push appends one offset and moves all pointers by the same distance if the block has moved,
a pop looks for the terminator from behind and finds the one in front of the last string. What a
popped string needs is that its bytes stay behind the new length; it is lost with the next push.

What `buffer_read_escaped` reads, what `fnmatch__vm_chars` accepts, where a walk over a program goes and
what a pattern says are recursive functions, and what they return for every pattern needs an induction, for
which the library's theorems cannot be used. In `FnmatchCompilerProofs` the least element of a set of numbers
takes their place (`LeastNumber`, from which `AllNumbers` and `AllDownward` follow): the numbers for which a
statement fails have a least one. A recursive function is only known to be what its definition says if there is
such a function: `Recursion` shows that there is one whenever each value is computed from values of a lower
rank (`ScanExists` builds one from its end, where it does not recur).

With that, `AbortsOnlyOpenBracket` is about backslashes that escape each other (`Even`: an even number of
them stands in front of a byte). At a backslash that is not escaped the scan skips the byte behind it; at one that is
escaped it is not, as it has skipped it already, so it never passes a bracket that closes (`ScanStops`). The
invariant for the program, `CompilerInv`, says that there are offsets, the first 0 and the last the length, and
between one and the next there is one instruction (`Piece`) with its length in front of and behind the
argument, which are the same because what is read fits `ArgMax` (`AsCharFits`). It also says that the
program does not end in a `*` in front of another star that is still to be read, so that no star follows a
star. A walk meets those offsets one by one (`WalkMeets`), and walking back from one finds the one before.

For the meaning, `CompilerInv` keeps with each offset the elements its instruction says (`Part`). All of them,
followed by `Elements(expr)[at]`, what the compiler makes of the pattern from the position reached, are the
elements of the whole, and `stats` counts them. An iteration takes its part off the front of what is left
(`CompilerOn`): `FixedTells` shows that of a literal, wherever it is cut, `CharsContains` that the scan
of a bracket expression stops at the bracket that closes and writes what is in front of it. A literal of n
elements was read from at least n bytes, and from n bytes if the pattern has no backslash (`Tells`), which is what `mchars`
adds. At the end nothing is left to say, and the machine reads each instruction for its part (`ReadsPart`); that a bracket
expression accepts the bytes it lists is `CharsAccept`. `Elements` is an intermediate reading, with the
compiler's escapes; it is part of the proof and not of the statement. The statement is about `Meaning`, which is read from the
documentation, and `KnownIsSaid` closes the gap: from its end to its start, a pattern of which the compiler knows
everything says the same in both. Both take an open bracket for a literal: what is said
behind it does not matter, since no iteration gets there.

The collected implementations have nothing in common but what they answer: NetBSD's and GNU's recur at
each place a star can reach, OpenBSD's counts from the end of a segment, musl's matches the end of the string
first and then looks for each component once. The reference takes the pattern a character at a time. In
`FnmatchOpenBSDProofs`, which has the lemmas that the others use too, and `FnmatchCollectedProofs` each
of them is compared with it place by place, from the end of the pattern to its start (`AllDownward`). Three things come before that. A recursive function has to exist (`RecursionOnward`,
and `Chained` for those that hand on their value): the offsets it recurs to are further on in the pattern, or in the string.
A bracket expression that is plain has one end (`BracketEnd`), and each implementation's reading of its list, item by item,
is the reference's `Lists`, where a minus is a range (`NextItem`, `RangeMatches`, `ItemsMean`, `RangeListExists`). A
star matches a stretch of bytes that may be matched (`StarMeans`, `Span`), and a run of stars and question marks as many
bytes as there are question marks, and any number more if there is a star (`WildRun`).

For OpenBSD, `Compared` says what the comparison up to the next star finds, `SegmentMeans` that a segment matches
if it does: what follows the last star has one place only where it can end, so counting from there loses nothing, and
behind another star the first place that fits is enough, since the star that follows can take what is skipped. `FirstMeans` joins segments. For musl,
`Exact` says that the characters up to the j-th match the bytes up to offset e, as the reference would have it; a part
of the pattern is cut in three, up to the first star, behind the last one and between. The search
for components is right by the same exchange: the first place where nothing speaks against a component
(`FirstOpenIs`) is the first one where it can stand, and from there the next star reaches every later place. For NetBSD and GNU
the calls behind a star have lost `FNM_PERIOD`, so the induction is about the places where that
makes no difference (`NetBSDKnows`, `GNUKnows`).

The invariant of the walk, `WalkInv`, is that `cvs_ign_pats` has the standard and the user's lines,
`dir_ign_pats` those of the directory that is read or none, and that every name seen was ignored for the lines of its
directory. Names are compared with `OpenBSDMeans`, and where a pattern is compared byte by byte
instead, a pattern of ordinary bytes means itself (`PlainMeans`). For `FilesAreAccounted`
the invariant beside it is `FilesInv`: the files a directory has listed while it is read are those it has read and not
ignored, what is listed, processed or passed over is owed, and all that a directory owes is accounted for once it was
read. Each action moves an element from a list to another set (`LeavesOwed` is the step where CVS/Entries joins); that
what is kept is what is owed is `IgnoredMeans`, again by what POSIX says of the lines.

Only model-checked: the liveness properties `MatchReturns`, `Returns` and `ScanEnds`, which are out of
the prover's reach. Every invariant and action property of a run is stated by a theorem.

## 5. Not modelled

* Allocation failures: `grow` stores the NULL it gets and no caller looks at it
  (`src/mem/src/alloc.c:29`), so there is no behaviour to describe. `FnmatchContext` is of
  the build with jemalloc; `MemEditor` shows what the other one does.
* `fnmatch_context_destroy`, `fnmatch_pattern_destroy`, `buffer_destroy` and their like
  (they free memory) and `fnmatch_pattern_render` (a stub).
* `buffer_swap` and `buffer_cmp` (they exchange and compare two buffers); `buffer_read`
  is an append of a part of its argument. `buffer_attach` is modelled for
  literals, and strings that hold a terminator are not appended to a buffer.
* Callbacks that push or pop more than once in a call, or use the context
  outside of what they are asked for.
* Locales: the collected implementations are asked for ASCII only; multibyte
  characters in musl's are left out.
* Of `src/inspiration.c`: `match.c` of mkhybrid, the commands of cvs that read the
  repository (`cvs_file_classify`, `cvs_repository_getdir`, the list `checkout_ign_pats` they
  fill), headers, manual pages and test tables, and the further copies of libiberty's,
  NetBSD's, musl's and OpenBSD's `fnmatch`, which are the code modelled from one copy. None of
  this is compiled into the library, so no hazards are listed for it.
* `match.c`: inside `#if 0`. The jemalloc headers are generated.

## 6. Plan

1. For patterns of single-byte literals: a failure reported in mid-string stands
   whatever is pushed behind it.
2. `NoMatchIsNoMatch` for a context whose client cuts the subject into pushes.
