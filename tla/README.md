# Verification of Poplang

Poplang (`src/`) is a Lisp with an ahead-of-time compiler. `compiler/` reads a
program and emits NASM assembly; `runtime/` is what that assembly is linked
with: an entry point, printing and files, an allocator of 16-byte cells and a
mark-and-sweep collector that finds its roots on the machine stack. This
directory holds TLA+ models of that code, the TLC configurations that check
them and the proofs that TLAPS checks.

The program is single-threaded. What is hard about it is not concurrency but a
contract between two programs that never see each other: the code generator
must keep every live word where the collector looks for it, at each of the
hundreds of places where an allocation may collect, and the collector must read
no word that is not a value. The compiler has hard places of its own: one table
and one tail flag that every recursive call must put back, two walks over a
lambda that must agree on the order of its environment, and a parser that
releases nodes by hand while it moves others above them.

## The system

| component | source | state it keeps | operations |
|---|---|---|---|
| lexer | `compiler/lex.c` | position, current character, three counts of brackets, tokens | three functions (plain, quoted, quasiquoted) that call each other |
| parser | `compiler/parse.c` | token position, tree | one function per form; rewrites `list`, `and`, `or`, `match` |
| definition table | `compiler/var.c` | scopes of bindings with stack offsets, definitions | push, pop, bind, look up, unbind, define |
| code generator | `compiler/compile.c` | the table, the tail flag, labels | one case per node; emits code that binds stack slots and keeps `__gcframe__` |
| allocator | `runtime/gc.s` | `__free__` | `gcalloc`, `errmemfull` |
| collector | `runtime/msc.c` | mark bits in the heap words, `__free__` | `mnscfr`, `__gc__`, `mns_`, `mnsweep` |
| runtime | `runtime/poplang.c` | the heap, the open file | `main`, `error`, printing, `bytes_equal`, `symbol_append`, files |
| pop-go | `pop-go/` | as the lexer | a rewrite of the lexer in Go that nothing uses yet |

How they meet: the lexer hands tokens to the parser, the parser a tree to the
code generator; the generator asks the definition table for the offset of every
name and emits code that addresses `RSP - 8 * offset`. The emitted code calls
`gcalloc` with all live words in bound slots, whose number times eight is
`__gcframe__`; `gcalloc` calls the collector, which walks that many bytes down
from `__gcstack__`. The library functions of the runtime are called with `RSP`
moved below the bound slots.

What makes each part correct:

- **allocator and collector**: a cell that the program can reach is neither
  cleared nor handed out again; its words change only when the program writes
  them; memory that is not reachable comes back; the heap is declared full only
  when it is; a collection ends, on cyclic data too, and leaves no mark behind.
- **emitted code**: at each call of `gcalloc` every live word is in a bound
  slot; `__gcframe__` is the distance between `__gcstack__` and the last bound
  slot in every activation, before and after calls and tail calls; return
  addresses are skipped.
- **definition table**: live bindings have distinct offsets without gaps; a
  lookup finds the innermost binding; popping restores what was there before.
- **names and closures**: every name is read from the word of its binding, through
  however many environments; a lambda captures what its body leaves free, in the
  order the body looks it up; a call becomes a jump exactly where nothing is left
  to do after it.
- **arithmetic**: an operation on tagged words is the operation on integers as
  long as the result fits.
- **runtime services**: equal text compares equal; appending symbols gives the
  symbol of the joined name; one file is open at a time.
- **lexer**: the tokens are those the program is written with, whatever the layout
  and however quotations and unquoted expressions are nested; what follows a comma is
  one expression; every text is read to its end or refused.
- **parser**: the tree is that of the program, for every nesting; no node of it is
  released; the names made by the passes are bound where they are used; a
  rewritten form means what the form it replaces means; a damaged program is
  refused with a message.

## The modules

### Written

**`PopWords`** holds the words: flat data or a tagged pointer to a cell, and
what the collector reads through a pointer (`Follow`), the set it so reaches
(`Reach`, a least fixed point over the pointers that lie in the heap), and what
a collection leaves (`Kept`, `FirstCleared`). The bit pattern of a word is
reduced to a tag and a cell. Three distinctions are finer than the tags of
`compile.h`: `zero` is told from other integers because the word 0 marks an
empty cell; `name` (a primitive symbol) from `symbol`; and `chain` (the list of
chunks of a string or the environment of a closure) from `list`, although both
have TAG_LIST, because no expression returns a chain.

**`PopHeap`** is the running program as far as its heap goes. `car`, `cdr` are
the words of the cells, `free` is `__free__` in cells, `stack[1 .. frame]` the
bound slots, `glbl` the globals. One action stands for one operation of the
emitted code, from its reading of operand slots to the store of its result;
`Gcalloc` is inside every action that allocates and contains the test against
the limit, the collection, the scan of `mnscfr` and the error.

| action | code |
|---|---|
| `Bind`, `PopScope` | `bind__`, `pop_scope_` |
| `Constant`, `Variable` | `compile_expr`: integers, flags, names |
| `Box`, `Unbox`, `Cons`, `CarCdr` | `compile_unary`, `compile_binary` |
| `Quote`, `Unquote` | `compile_expr`: `NODE_QTOPR`, `NODE_UQOPR` |
| `Chunk`, `String`, `Name` | `compile_expr`: `NODE_STRNG`, `NODE_LQUOT`; one chunk per step |
| `SymbolAppend` | `symbol_append` of `poplang.c`, called by `OP_SAP` |
| `Capture`, `Lambda`, `Captured` | `compile_closure_create`, `compile_closure_envcopy` |
| `SetGlobal`, `GetGlobal` | `compile_expr`: `NODE_MUTST`, `NODE_VARBL` |
| `Gcalloc` | `gcalloc` (`gc.s`), `mnscfr`, `__gc__`, `mns_`, `mnsweep` |

A program is any sequence of these actions: the model does not fix a source
text, so it holds for all of them, within the bounds below. Two history
variables serve the properties: `shape[c]` is the tag cell `c` was last built
with; `tame` turns false when the program does one of the two things that the
code gets wrong (a cell whose first word is the integer 0; a pointer in a global
that is not scanned). Both are findings of their own, and everything claimed
of a reachable word is claimed of a tame program.

**`Collection`** is what a collection promises, in one step: reachable cells
keep their words, the others are cleared, `__free__` is the first cleared cell.
**`Collector`** is `__gc__` loop by loop: the walk over the global segment, the
walk down the stack with its markers, each iteration of `mns_` and each of its
recursive calls (`calls` is the C stack), each cell of `mnsweep`. Its initial
states are all heaps that `PopHeap` can leave behind, cyclic and half-built ones
included; **`MCCollector`** picks two families of them. `Collector` implements `Collection` (property `Collects`, through
`INSTANCE Collection WITH ...`: the heap is seen as it was before until the last
step). The step it implements is the one inside `PopHeap!Gcalloc`, which uses
the same operators; that it does so for every heap is proved in `Collector_proofs`.

**`Frames`** is the stack that the two modules above take for granted: the words
below `__gcstack__`, `RSP`, `__gcframe__`, and for each activation the lexicon
of the code that is executing (which of its slots are parameters, lets, the two
slots of a call, or operands). A step is the code emitted between two
evaluations of subexpressions; an expression evaluates to any value, so the
model holds for all programs. Temporaries of `cons` and the like are slots of a
`let` with one variable.

| action | code |
|---|---|
| `OpenLet`, `BindLet`, `StoreLet`, `CloseLet` | `compile_letexp`, `bind__`, `pop_scope_` |
| `SetVariable` | `compile_expr`: `NODE_MUTST` |
| `RuntimeCall` | any `sub RSP` / `call gcalloc` (or another function) / `add RSP` |
| `BeginCall`, `Operand`, `Call` | `compile_closure_call`, `compile_closure_envcopy`, entry of `compile_closure` and `compile_define` |
| `BeginTailCall`, `Operand`, `TailCall` | `compile_closure_tail_call` |
| `Return` | `ret`, and what the caller does after the call |
| `Fail` | `assert_type`, and a wrong number of arguments |

A wrong number of arguments is not noticed by the code: the callee takes what
lies in its slots. The model stops there (`status = "undefined"`) and claims
nothing. **`Activations`** says what calls mean, without a machine: each
activation owns its words, a callee starts with its arguments and captured
words, a caller that waits does not change. `Frames` implements it
(`MeansCalls`). **`MCFrames`** gives it a definition of one parameter, one of
two, and a lambda with a captured word, and a VIEW without the words below the
last bound slot, which are written before they are read. **`Frames_proofs`** proves
what `Frames` claims of its states, and that it implements `Activations`.

**`MCPopHeap`** adds a VIEW and a constraint for TLC. The view drops the words
above the frame, which `bind__` clears before they are read. The constraint
`StaysTame` explores tame programs only; the first step that ends tameness is
still checked. **`PopHeap_proofs`** holds the proofs, which
share the lemmas about words and reachability of **`PopWords_proofs`** with those
of **`Collector_proofs`**.

**`Lexicon`** is the definition table of `var.c`: scopes of bindings, each with
its slot, a capacity for every array and the counter of the table. The actions
are the operations of `var.c`; their guards are the discipline its users must
keep (the global scope is not popped; between `push_scope_a`'s first name and
its count nothing else happens). **`Lexicon_proofs`** proves what that
discipline buys.

**`Generator`** is the walk of `compile_expr` over a tree (**`Trees`**), and uses
that table. `todo` holds what the generator has still to do, the C stack and the
loops of `compile()` in one sequence; a step takes its first element. A slot
holds a *holder*: which variable, captured word or temporary the emitted code
keeps there.

| action | code |
|---|---|
| `PushScopeStep`, `PopScopeStep`, `BindStep`, `SetTailStep` | `push_scope_`, `pop_scope_`, `bind_`, assignments of `__tail__` |
| `BindTemporary`, `BindLabel` | `bind_` of a label of asterisks, and of a label of `gensym` |
| `BeginClosure`, `CaptureStep`, `CountStep`, `EndClosure` | `compile_closure`: a lexicon of its own, `push_scope_a` |
| `Define`, `Entry`, `DefineGlobal` | `compile_define`, `compile()` |
| `Variable`, `Assign` | `compile_expr`: `NODE_VARBL`, `NODE_MUTST` |
| `Constant`, `UnaryOperation`, `BinaryOperation`, `Sequence` | `compile_expr`, `compile_unary`, `compile_binary` |
| `String`, `QuotedString`, `BoxOperation`, `ConsOperation`, `QuotedList` | the kinds that open scopes for what they build: `NODE_STRNG`, `LQUOT`, `LQSTR`, `QTOPR`, `OP_BOX`, `OP_CNS`, `NODE_CQUOT` |
| `If`, `CondStep`, `LetStep` | `compile_if`, `compile_cond`, `compile_letexp` |
| `CreateClosure` | `compile_closure_create`, `lfree`, `unbind` |
| `CallNamed`, `CallValue` | `compile_closure_call`, `compile_closure_tail_call` |
| `Refuse`, `Finish` | `compile_error`; the end of `compile()` |

Every kind of node opens, binds and closes what it does in the code. Kinds that do the
same to the table and the flag share an action: the operations on one operand that keep
nothing in a slot, those on two that keep the first one. Labels are of two sorts. Those of
asterisks (`Temporary`: `*`, `***ra`, and the empty one) are no names of programs. The
first operand of an operation is kept under `binary<N>` (`compile.c:854`), a name that the
lexer accepts: `Labels` are those names, and which of them `gensym` comes to is left
open.

What is recursive in it is written as functions on the trees of the programs: `Lambdas`
and `LFree` on `Trees`, the node at a path by its length. `Levels` are those trees by
height, which any set of finite programs has; **`Generator_proofs`** needs it
to go from the kids of a node to the node, and bounds nothing.

**`Scoping`** says what names mean from the tree alone (the innermost variable,
else the definition, else the global; a call of a definition is a call of the
definition) and states the properties by it. **`MCGenerator`** lists the programs.
**`Scoping_lemmas`** proves what is so of every program before any of it is compiled
(its paths, what is bound on the way down them, what `lfree` finds), and
**`Scoping_proofs`** what the generator makes of the names.

**`Nodes`**, **`Parser`** and **`Rewriting`** are the functions of `parse.c`, as
operators from a state of the parser to the next: a record of the tokens, the
position in them, the nodes by address, the free list of `malloc` and the status.
Order of allocation and release is that of the C code, because it matters: a node
that is released too early is the next one given out. `malloc` returns the node
released last, and `free` either keeps the words of a node or overwrites its first
ones (`keeps`, chosen once per compilation: the build decides). A node that is a
local variable is `GONE` when its function has returned.

**`FrontEnd`** runs them: items are parsed one by one, the tree is printed,
`match` is rewritten, printed, `and` and `or` are rewritten, printed, and the
generator takes it or refuses it.

| action | code |
|---|---|
| `ParseItem`, `EndParse` | the loop of `parse()`; `parse_expr` and everything below it |
| `PrintTree` | `print_tree`, as far as it reads nodes |
| `RewriteMatches` | `parse_match`, `parse_pattern_bind`, `parse_literal_bind` |
| `RewriteAndOrs` | `parse_andor`, `parse_ifs` |
| `Generate` | `compile()`, as far as it refuses a tree or crashes on it |
| `NextProgram` | another run of the compiler |

**`Lexer`** is `lex.c` on texts in which a word or a number is one character
(**`Alphabet`** has the characters and the tables). `calls` are the activations of its
three functions, `depth` the counts they share, save and restore. A step is one round
of one of their loops.

| action | code |
|---|---|
| `Lex` | the loop of `lex()` |
| `Comment`, `EndNormal`, `Scans(...)` | `lex_next` and one round of `lex_normal`, by the token read |
| `ReadMark`, `Unquotes`, `Resume` | the calls from one function to another and what follows them |
| `QuoteOpens`, `QuoteDot`, `QuoteCloses`, `QuoteSymbol`, `EndQuote` | one round of `lex_quote` or `lex_quasiquote` |

**`Writing`** says how tokens are written, in several layouts; **`MCLexer`** lists the
texts. **`Compiler`** composes the two: `compile()` puts two line ends behind what is in
the file (`Buffer`), the lexer reads that to its end, the parser is given its tokens
(`Given`, with what `safe_atoi` and `sym_is_int` make of their characters), and
`FrontEnd` goes on. **`MCCompiler`** has the programs of the `README.md` of Poplang that fail.

**`Programs`** has the terms of the language, how they are written in tokens
(`Show`), the tree each stands for (`Meant`), and the tree that the nodes hold
(`Unfold`). **`Meaning`** evaluates terms in two ways: as `README.md` describes
them, `match`, `and`, `or` and sums included, and as the emitted instructions
compute them, which **`Arithmetic`** gives on words of 15 + 6 bits (the machine has
58 + 6): the tag in the low six bits, unsigned `mul` and `div`, flags and jumps of
the comparisons. A value that is a pointer carries the place of the evaluation that
allocated it, so that `=` and `~` compare addresses as both the documentation and
`compile_compare` do: two equal strings differ, a variable is the same as itself, and each
use of a definition as a value is another closure. An evaluation can also stop: in an
assertion or a fault (`error`), in the assertion of `length` that the code does not make
(`length`), or never (`loops`, in `list?`). The instructions of a `let` bind each
name, to 0, before its value. `Outcome` in `FrontEnd` computes the globals first, as the
entry code does, and `Closed` says which names have to be defined where: what a
call names, what is read, what is set, and in the value of a global only the globals
before it.

### Planned

Files and text: the contents of chunk lists in `bytes_equal` and
`symbol_append`, the one open file.

## The runs

All are exhaustive. `CHECK_DEADLOCK FALSE` is set everywhere because every one of
these systems stops: a program halts in `error` or hangs in `symbol_append`, a
collection ends, a compiler ends.

| run | asks |
|---|---|
| `heap_lists` | boxes, lists and quoted values: no dangling pointer, no lost cell, no word changed, exact sweeps, a full heap when a collection did not help |
| `heap_text` | strings, symbols and closures built cell by cell, and `symbol_append` linking chunk lists in place, into cycles too |
| `heap_globals` | two globals, one of them scanned |
| `collector` | all heaps of three usable cells of four shapes, and all global segments and stacks of two blocks above boxes: the loops take the promised step, with bounded recursion, read the roots exactly and end; no mark is left |
| `frames_calls` | calls, tail calls and returns three activations deep: the frame counter is exact, the root walk is exact, return addresses survive, no activation disturbs another |
| `names` | 9621 programs through the generator: names are read from the word of their binding, slots are consecutive, the scopes of every kind of node are closed, tail calls and no others are jumps |
| `front_end` | 4328 programs through parser and passes, with both behaviours of `free`, and 218 of them with each of their tokens missing: the tree is the program's, nothing released is read, the meaning is kept |
| `lexer` | 11375 texts, of programs in up to five layouts and of arbitrary characters: the tokens are the program's, unquoted expressions end where they should, every text is read or refused |
| `readme_examples` | nineteen programs, from their text on, whose output `README.md` gives or implies: finds what the compiler makes of each |
| `heap_zero`, `heap_second_global`, `heap_no_collection` | each finds the code in disagreement with its documentation (below) |

Properties of `PopHeap`: `NoDangling` (memory safety), `NoCellLost` (no empty
cell behind the free pointer), `Untouched` (no reachable word changes but the
link `symbol_append` writes), `ExactSweep` (garbage is collected),
`FullAfterGc` (giving up after a collection means a full heap), `SafeInv` (the
invariant that makes these inductive). Properties of `Collector`: `MarksClosed`,
`DepthBounded`, `SkipsReturns`, `MarksGone`, `Collects`, `Terminates`.
Properties of `Frames`: `FrameExact`, `RootsExact`, `ReturnsHome`, `MeansCalls`.
Properties of the generator: `SlotsFollow`, `WithinCapacity`, `ScopesClosed`,
`ReadsItsBinding` (each reference ends at its binding, through environments, or at a
temporary that has its name for a label),
`RefusesOnlyUnbound`, `JumpsAreLast`, `LastCallsJump`, and `UsesTable`, which shows
that `Generator` implements `TableSpec`. Properties of the front end: `ReadsBack`
(the tree is the program), `NoStale` (no released node is reached), `Accepts` (a
sound program is not refused), `ReadsOrRefuses` (of a damaged one nothing is
dropped silently), `PassesKeepMeaning` (a rewriting pass keeps the meaning of the
tree, right or wrong) and `KeepsMeaning` (the instructions print what the source
means). Properties of the lexer: `ReadsTokens`, `OneExpression`, `Ends`.

**Exclusions.** Some of these hold for programs without certain terms only, and
the terms are the findings below, each named by an operator. `Releasing`: an `and`
or `or`, or a call with an argument of three summands or a sequence. `Hiding`: a
lambda in a node that `lambdas()` and `lfree` do not look into. `Crashes` and
`Nameless`: a question without a name, a match of a default alone in a lambda.
`Plain`, `Simple` (in `Scoping`): lambdas that bind a free name again, read a global
or a definition or what they take for one, or have two formals of one name (`Plain`),
and lambdas that are hidden (`Simple`). `Acts`: files, `set!`, printing, `symbol-append`
and shifts have no value in `Meaning`, so such programs are parsed, passed and
generated, not evaluated. `BeginsInside`: a text that begins with a word or a number.
`Misread`, `Misplaced` (in `MCLexer`): `()` directly behind a comma, which is one token
that `lex_normal` does not take for an expression; a quoted word directly before a
closing bracket in an unquoted expression; a comma with nothing behind it. `KeepsMeaning` does hold for `and` and `or` wherever they
get through the compiler. It leaves out the ways in which the instructions depart
from the documentation by more than arithmetic: `Departs`, a `let` whose value reads the
name it is bound to, and a quoted symbol, which the instructions leave as it is; runs that
do not end because of `list?`; and runs that give `length` what is no list.

**Bounds.** The real heap has 65536 cells, of which the last sixteen are never
handed out. The runs have four or five cells and `Limit` two below: three or
four cells that can be allocated, which is enough for a shared cell, a cycle of
two, a live cell on either side of a dead one, and exhaustion with and without
garbage; allocation wraps round through collections without end, so length of a
run is not bounded. `MaxFrame` is one or two slots: two are needed to hold one
structure while another is built, and roots deeper in the stack differ only by
their number. Groups of operations are separated by run (`Uses`) because the
product of all of them is out of reach; the theorems hold for their union. In
`Collector` `MaxBlocks` is two, so that a return address has a
root on either side of it, and three globals fill an odd number of padded words; three
cells with every filling suffice for each way of meeting a
cell a second time (by the same word, by the other word of the cell, from another
cell, from another root). In `Frames` eight words hold three activations with
arguments, or a let and a tail call with two arguments whose old and new places
overlap; two arguments are needed for the order of the moves to matter, and a
third activation for a marker with another one below it. `MaxLocals` bounds the
variables of lets, which differ only by their number.

In `names` the programs are: every lambda of formal `y` in the scope of `x`, two
operators deep, over leaves `x`, `y` and a constant, with lets and lambdas that
bind either name again and calls of `x`; and a definition beside a global, with
every pair of sixteen inner expressions below branches, clauses, sequences, lets
and operands. Two names are enough for a shadowing, a capture, and a capture
through a lambda in between; four bindings in one scope make the arrays grow. Lets
with the name of the definition or of the global, around lambdas that read it and
around assignments, and a lambda with two formals of one name, are there for the
exclusions: without them the run would not tell a variable from the global it hides.
Strings, quotations, boxes, conses and quoted lists of two to four parts stand in each other, in
definitions, lets and lambdas, and next to calls in tail position, so that a scope left open is
met by what follows. A variable, formal, parameter, definition or global named
`binary1` is read, set, called and captured inside of operations and outside; one label is enough, because which
one a temporary gets does not depend on the name it hides. In
`front_end` every form of the language stands in every operand position of
a form, and the results of those positions come back in all the ways that move
nodes; matches take every pattern, nested ones included, against fourteen subjects,
with a second clause; values are compared with `=` and `~` with themselves and with
others, under lets that hide a variable, and read from globals that read each other.
Two items behind each other show what the first leaves to the second. Integers are small: 15 bits of value leave room for every sum and product
of the programs, so that what differs is an error and no overflow. `Damaged`
programs lose any one token, except inside quotes, where the lexer would produce
other tokens.

In `lexer` the programs put every keyword and sign in a bracket, every expression
behind and before another, and quotations around unquoted expressions that hold
quotations again, so that each of the three functions calls each that it can call with
a count above zero and at zero. Up to four arbitrary characters in a quasiquoted list
and up to three anywhere make what is out of place; no decision of the lexer looks
further than two characters. A word is one character because the lexer looks into
words only for their end and for the table of keywords.

**Fairness.** `Collector!Terminates` and `Lexer!Ends` need `WF_vars(Next)`: both are
sequential loops that the processor keeps executing. Programs have no liveness of
their own to promise.

## What is proved

For every number of cells, limit, frame bound, number of globals, and every
group of operations, in `PopHeap_proofs`:

- `TypeCorrect`: `Spec => []TypeOK`.
- `Safe`: `Spec => []SafeInv`, and from it `NeverDangling` (`NoDangling`) and
  `NoneLost` (`NoCellLost`).
- `ReachedUntouched` (`Untouched`): an action property, from the same invariant.
- `GivesUpOnlyAfterGcIfFull` (`FullAfterGc`) and `SweepIsExact` (`ExactSweep`):
  action properties of every program, tame or not.

For any set of names and any use of the table within the guards of `Lexicon`, in
`Lexicon_proofs`:

- `SlotsAreConsecutive` (`SlotsFollow`): slots follow one another from 1, within a
  scope and from each scope to the next; the generator counts on it when it moves
  `RSP` and `__gcframe__` by numbers of bindings.
- `SlotsNeverShared`: no two live bindings have one slot.
- `ArraysSuffice` (`WithinCapacity`): no array is written past its end, although
  `var.c` grows scopes, bindings and definitions by three separate tests.
- `TableTyped`: counters and slots stay natural numbers.

Here the argument is by an invariant on every scope of the stack (`TableInv`), not
on the last one alone: `pop_scope` computes the counter from the scope it removes
and trusts that the scope below ended where that one began. `SlotsFollow` is its
visible part; `Roomy` says that an array has twice the room it uses, because a test
that doubles at the half is inductive only from a capacity above 0.

The assumptions are `HeapAssumption` (the limit is below the last cell) and
`ProgramAssumption` (the constants have their types).

The argument for the heap. `NoDangling` alone is not inductive: an allocation takes the first
cell whose first word is 0, so one must know that no reachable cell looks like
that (`LooksUsed`); the sweep keeps what the collector reaches, so one must know
that it reaches what the program reaches (`AllScanned`); and `symbol_append`
writes into the last cell of a list, so one must know that this list holds
chunks only and that the result is one (`ChunksStayChunks`). `NoCellLost` is kept
because the scan starts at the free pointer and stops at the first empty cell.
The step lemmas all come down to two facts about `Reach`: it is contained in
every closed set that holds the roots (so to bound what is reachable after a step
it is enough to exhibit a set), and it is itself closed. An allocation that
collected starts from a heap in which the reachable cells are exactly those kept.

For every heap, global segment and stack that a collection can start with
(`Given`), in `Collector_proofs`:

- `CollectorInvariant`: `Spec => []CollectorInv`, and from it `TypesHold` (`TypeOK`).
- `MarksStayClosed` (`MarksClosed`): between two roots, what is marked is closed
  under what the collector follows, and holds the roots read so far.
- `NoMarkLeft` (`MarksGone`): a finished collection leaves no mark bit behind.
- `ReturnsSkipped` (`SkipsReturns`): no return address is taken for a root.
- `DepthIsBounded` (`DepthBounded`): the C stack of `mns_` never holds more than two
  activations above the number of lists it is inside of, so above the number of cells.
- `CollectsAsPromised` (`Collects`): `Collector` implements `Collection`; the loops of
  `__gc__`, with two mark bits in the words and no set of visited cells, keep just
  what is reachable and set `__free__` to the first cell that is not.

This is also what `PopHeap` takes for granted when its `Gcalloc` collects in one
step. The argument: `MarksClosed` speaks of the moments between two roots only.
Inside `mns_` a marked cell may lead to a word nobody has followed yet, so
`CollectorInv` says who will: a word is `Followed` when its cell is marked or when it
is the word the innermost activation is about to take (`Pending`), and a list
whose second word is not marked is held by an activation that waits for the first
word (`Waiting`). With that, `Complete` holds at every step, and becomes `MarksClosed`
when no activation is left; `Sound` is the other half, that nothing unreachable is
marked. `Distinct` says that no two activations wait at one cell, which bounds the
recursion: an activation waits only at a list it has marked itself, and the next
one that comes to this list turns back. `SweptTo` and `ClearedTo` describe the heap in the middle
of the sweep. Termination is not part of it: the sets of marks grow, but that
every step is taken is fairness, and stays with TLC.

For every set of definitions and lambdas, any number of arguments, and a stack of any
size, in `Frames_proofs`:

- `FramesInvariant`: `Spec => []FramesInv`, and from it `TypesHold` (`TypeOK`).
- `FrameIsExact` (`FrameExact`): `__gcframe__` reaches from `__gcstack__` to the last
  bound slot of the running activation, at every step of the emitted code.
- `RootsAreExact` (`RootsExact`): the walk down from `__gcstack__` ends there, reads every
  slot of every activation that holds a value, and steps over each return address.
- `ReturnsLeadHome` (`ReturnsHome`): `RSP` is where the running activation began, and
  each return address lies where `ret` will look for it and leads to the caller.
- `CallsMean` (`MeansCalls`): `Frames` implements `Activations`; moving the operands
  of a tail call over the slots of the running activation, calls, returns and runtime
  calls do to the words of each activation what calls mean, and nothing else.

`FrameExact` alone is not inductive: a return goes back by what the *caller's* lexicon
says, which is nowhere in the machine's state. So `FramesInv` keeps the lexicons of all waiting
activations (`Lexicons`: each ends in an open call, its scopes lie behind each other
without a gap), where each begins (`Stacked`), and what is in the words between
two activations (`Held`: a marker and the address of the caller, in that order).
The recursive walk over the stack is a function on the natural numbers; that it
exists, and reads what it should, is shown by taking the least position at which
it would not.

For every set of programs of any size, in `Generator_proofs`:

- `GeneratorInvariant`: `Spec => []GeneratorInv`, and from it `GeneratorTyped` (`TypeOK`).
- `UsesTheTable` (`UsesTable`): the walk of `compile_expr` implements `TableSpec`. It
  never opens or closes a scope while the counter of the table is off, as it is
  while `push_scope_a` fills the scope of a lambda, and never closes the global scope.
- `SlotsStayApart`: so the theorems about `Lexicon` hold of every compilation: the slots
  follow one another, no two live variables or temporaries have one slot, no array is
  overrun.
- `ScopesAreClosed` (`ScopesClosed`): each lambda, each definition, the entry and the
  end of the program find every scope closed but the global one, and that one empty. The
  scopes of strings, quotations, boxes, conses and quoted lists are among them.
- `JumpsComeLast` (`JumpsAreLast`): no call outside of tail position becomes a jump.

None of these is inductive, because what holds the table together is in the C
stack: that a scope opened here will be closed by a call that has not returned. In the model
the C stack is `todo`, and `GeneratorInv` speaks about all of it: a *plan* is a
stage of a unit, a number of open scopes and the highest value the tail flag may have;
`Follows` says from which plan each thing to do may start and at which it leaves off;
and `Ahead` says that `todo` leads, plan by plan, from the state as it is to the end of
the program. A step replaces the first thing to do by what its node leads to, so there is one
lemma per kind of node: what it leads to goes from where the node may start to
where it leaves off (`CarriesBoth` joins such sequences, `CarriesFlat` those of a loop).
The flag is an upper bound, not a value, because `set!` of a global leaves it cleared
(`compile.c:805`): afterwards the generator does no harm, it only misses jumps.
`Lambdas`, `LFree` and the node at a path are recursive functions; that each satisfies its equation is
proved by taking the least height, or length, at which it would not.

For every set of programs of any size, in `Scoping_proofs`:

- `ScopingInvariant`: `Spec => []ScopingInv`, and `SafetyInvariant`: `Spec => []SafetyInv`.
- `NamesReadTheirBinding` (`ReadsItsBinding`): in a compiled program every name is read
  from the word of the innermost variable that has it, through the environments of
  however many lambdas lie between. The exception is the one of the property: a name
  that is a label `binary<N>` may be read from the temporary that has it.
- `RefusalsHaveCause` (`RefusesOnlyUnbound`): a program is refused only for a name that
  means nothing there, or a global that is not defined yet.
- `LastCallsAreJumps` (`LastCallsJump`): each call in tail position becomes a jump, unless
  its unit assigns a global. With `JumpsComeLast`, the jumps are the calls in tail position.
  The theorem has the hypothesis that no global is named `binary<N>`: the invariant tells
  from the tree which units assign a global, and a `set!` of such a one may go to a
  temporary. The run checks the property without it.

`Plain` and `Simple` are hypotheses of the first two, as in the runs: they exclude the lambdas that
the code gets wrong, and a program without lambdas satisfies both. `ScopingInvariant`
has no such hypothesis.

The argument has four parts. *What a name is read from* is not in the properties at
any moment but the last, so the invariant must carry it: a *sight* is a stage of a unit
together with what each name is read from in each open scope, the claim that the unit
is in tail position, and the globals known. `Onward` says that the table agrees with a
sight and that `todo` leads from it, sight by sight, to the end of the program, as `Ahead` does with
plans; `Recorded` that what has been written down of references, lambdas and jumps is
what their place in the program implies, `View`, a function of the tree alone.
The unions of scopes that a lookup searches are so replaced by one step outwards at a time, and
the exact value of the tail flag, which `set!` of a global breaks, by a claim that is given up
where `Spoilt` says so.

*The environment of a lambda* is computed twice, by `compile_closure_create` when it
copies the words and by `compile_closure` when it names them (`compile.c:1654`, `1696`).
Both use `LFree`; that its list holds what the body reads, and that each name of it
means the same inside and outside, is
an induction on the height of trees, done by taking the least one that fails.
`FoundIsMeant` then follows a reference outwards: each environment on the way belongs to a
lambda with a shorter path, so the chain ends at the variable within as many steps as the path has numbers.

*Nothing is left out* (`Covered`): that every reference of a compiled program has been
met is not visible from `todo`, which only shrinks. `Walked` says of a set of nodes that
whatever it holds has its kids in it, or awaiting their turn in `todo` (`Awaits`), or
is a lambda whose label is not yet compiled; at the end nothing awaits and the set
is the program (`AllSeen`).

*Refusal*: the generator gives up when a name has no slot and is no definition or
global (`NoSlotNoBinder`: so it is bound nowhere on the way down, and means nothing), or
when a label is missing (which, `LabelsReach`, only a lambda that is hidden can bring about).
That guilt does not go away (`GuiltStays`) makes it an invariant.

The assumptions are `CollectorAssumption` and `FrameAssumption` (types of the
constants, and that a return address is no value), `GeneratorAssumption` (programs are made of
well-formed trees of finite height, and what is defined has a name), and
`ScopingAssumption` (no name of a program is a label of asterisks: those are `*`, begin with
two asterisks or are empty; a word begins with a letter or an underscore, the names made by the
passes with one asterisk and a letter, and an empty name can only be the very first word of a
program, outside of every scope). It says nothing of the labels `binary<N>`, which any name
may be: the slots of temporaries take part in every step of the invariant (a lookup may
end at one, a lambda may capture one), and `FoundIsMeant` follows a reference
to the variable or to such a temporary.

What is only model-checked, and why. The lexer, the front end and `Meaning` (the
module) are recursive operators over texts and trees, out of reach of the proof system with what
they compute: `ReadsTokens`, `OneExpression`, `ReadsBack`, `Accepts`, `NoStale`,
`ReadsOrRefuses`, `KeepsMeaning`, `PassesKeepMeaning` and the type of `FrontEnd`.
`Collector!Terminates` and `Lexer!Ends` are liveness, which the proof system does not do.

## Where the code disagrees with its documentation

1. `heap_zero`: `mnscfr` (`msc.c:44`) takes a cell for empty when its first word
   is 0, which is also the integer 0; `(box 0)` is overwritten after a collection
   while it is reachable.
2. `heap_second_global`: a global takes 16 bytes, `__globalsize__`
   (`compile.c:214`) counts 8, so half of the globals are not roots.
3. `heap_no_collection`: `gcalloc` decides to collect before the scan; a scan
   that runs past the limit ends in a heap error with garbage left.

`readme_examples` finds seventeen, one program each or two:

4. `(and #t #f)` and `(or ...)`: the first operand's node is released
   (`parse.c:842`) while `left` still points to it; the next operand takes its place.
5. `(f (+ 1 2 3))`: `parse_call` (`parse.c:736`) releases the node it took for the
   argument although the argument was built above it.
6. `(- 1 2 3)` prints 2, not -4: the subtraction takes the left operand from the
   right one (`compile.c:885`).
7. `(< 2 2)` is `#t` and `(<= 2 2)` is `#f`: the jumps of `compile.c:1118` test the
   wrong one of strict and weak.
8. `(* -1 2)` is a large positive number: `mul` takes words for unsigned
   (`compile.c:897`).
9. `(? integer?)` without a name crashes the compiler (`parse.c:1729`).
10. A match of a default alone in a lambda crashes it (`compile.c:2098`).
11. `(match ...) #;` is printed: the rewritten node loses the mark (`parse.c:2283`).
12. `,'7 #; 5` prints nothing: the operand of a comma is parsed as if it were not
    at the global scope and takes the mark, and the next item with it
    (`parse.c:231`).
13. A program that begins with a number has 0 there, and one that begins with a name
    an empty one: a token is cut out from one before the character read ahead
    (`lex.c:222`), and before the first there is none. `5` alone prints 0.
14. A program that begins with a blank is refused (`lex.c:451`).
15. A comment in a quotation is data: the program is refused (`lex.c:106`).
16. `` `(a ,(cons 1 `b) c) `` is refused: the quoted word takes the bracket of `cons`
    (`lex.c:129`).
17. The string `"\r"` is refused: the escape is looked up under the character it
    stands for (`lex.c:824`).
18. `(list? ())` does not end, nor does `list?` of anything that is no cons: the jump to
    the second test goes back with `RAX` overwritten by the flag (`compile.c:1203`).
19. `(length 5)` prints 0: the loop ends at what is no list, and nothing is asserted
    (`compile.c:1302`).
20. `(let ((x 1)) (let ((x x)) x))` prints 0: a name of a `let` has its slot before its value
    is compiled (`compile.c:835`).

Seen on the way, without a run of their own: in `mnsweep` (`msc.c:554`) a
`__free__` of 0 means "none yet", and the cells past the limit are always clear,
so a sweep never leads back to cell 0, which is why `NoCellLost` and
`FullAfterGc` except it; and the heap error is 0x90 (`gc.s:135`), documented as
0xA0. In the generator: an operation keeps its first operand under the label `binary<N>`
(`compile.c:854`), a legal name, so that `(let ((binary1 5)) (+ binary1 2))` reads the
temporary and not the variable, against `README.md:409` ("all the bound variables are in
scope for the expression"); without the exception for labels `ReadsItsBinding` fails in
`names` on just that; `lfree` and `unbind` (`compile.c:2073`) forget a free name
of a lambda when an inner binding of that name goes out of scope; a global or a
definition that a lambda reads is looked up as a captured variable and read from
past the frame (`compile.c:1720`); a lambda in a `set!`, in a sequence, in a file
operation or as the value of a global gets no label; a call of a global is refused;
a quoted symbol is left as it
is; the name of a definition makes another closure each time, so `(= f f)` is `#f`; the
globals are computed before all expressions, wherever they stand; two
formals of one name get one slot (`sbind`, `var.c:168`), so the slots
of the lambda no longer match its arguments; a variable that `lfree` skips and that has the name of a definition or global is
read as that; assigning a global leaves the tail flag
cleared (`compile.c:805`), so a later call in tail position is not a jump; the two
shifts by an amount emit an operand that does not assemble; no integer literal fails
the range check (`compile.c:446`). In the front end: `()` is one token, so
`(lambda () 3)` is refused; `(+ -1 2 3)` is 4, where `README.md` has 5. In the lexer:
a word directly before an opening bracket, a dot or a comma of a quotation is dropped;
a `?` that no blank follows is read as an octothorp; a word ends at `;` and `"` but not
at `#`, `,` or a quote mark.

## What is not modelled

Lines and columns of the source, the growth of token strings and of the text read, and
the length of strings and numbers (so not the check that an integer has too many
digits). `FrontEnd` starts from tokens; only `Compiler` starts from text. Formatting and printing (`print_tree` as the nodes it reads, not
what it writes), files, the contents of strings, the debugging output, the build,
`pop-go`. The compiler is assumed to have memory: a `malloc` that fails ends it.
`Generator` and `FrontEnd` are separate: the first takes trees, the second
decides as `compile()` does which trees are refused. Registers are modelled by what
they carry from one slot or cell to another. `PopHeap` has no return addresses or
markers in its stack: those are in `Collector`'s and `Frames`'. `mns_` marks the
first word of a procedure without following it, which `Follow` reflects; it would
matter only if instruction addresses could fall into the heap. Behaviour after a
program has ceased to be tame is explored only in the runs that show the
findings. `Meaning` leaves out side effects and shifts; integers that overflow 58
bits are outside its bounds. The components that `PROJECT.json` lists as not
modelled or partly modelled are those of the plan above.
