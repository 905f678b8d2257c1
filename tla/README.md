# A verification of the Runes bootstrap compiler

The bootstrap compiler of Runes (`src/`, C) reads source files, parses them
into one tree, resolves names, checks types and memory realms, and reports
errors.  It is a single-threaded batch program.  What is hard in it is not
concurrency but long sequences of legal calls (an arena rewound and reused, a
hash table that grows in the middle of a call), state saved and restored around
recursion (scopes, realms, loop depth, the expected return type), error paths
(panic mode, phases that stop), lookahead, and passes that must agree on what
they collect.  This directory models those parts in TLA+, checks them with TLC
and proves most of what is checked with TLAPS.

Paths below are relative to the repository.

## 1. Inventory

| Component | State | Operations | Interacts with | Hard behaviour | What makes it correct |
|---|---|---|---|---|---|
| Arena (`src/utils/arena.c`) | chain of blocks, current block, bump cursors | init, alloc, strdup, snapshot, restore, reset, destroy | every phase allocates from it | fresh blocks are spliced in ahead of a tail a rewind left behind; nested snapshots; malloc failure | live pointers never overlap or leave their block; a snapshot keeps what came before it; rewound memory is found again |
| String table (`src/utils/strtab.c`) | buckets, count, capacity | init, intern, grow | the lexer interns; later phases compare names by pointer | probing with wrap-around, growth inside a call, memory failure | one pointer per string for ever, whatever collides; every probe ends |
| Symbol table (`src/symbol_table.c`) | chain of scopes, 64 buckets each | push, pop, define, lookup, lookup_local | resolver and type checker share one | colliding names, shadowing, unmatched pops | it is a stack of dictionaries |
| Lexer (`src/lexer.c`) | position, line, column | next token | the parser pulls tokens, and copies the lexer to look further ahead | tokens that begin alike, comments that nest in nothing, what is read at the end of the text, line counting inside literals | every character is in one token, a comment or a blank; tokens are as long as they can be; positions right; never past the NUL; it ends |
| Syntax tree (`src/ast.c`) | arena nodes | a constructor per kind | built by the parser, read by all | none | - |
| Parser (`src/parser.c`) | three tokens, panic_mode, had_error, the C stack | one function per construct, expect, match, parser_error, synchronize | pulls from the lexer; its tree goes to the driver | what happens after a NULL; lookahead of unbounded length; lines that end statements; recovery | correct files accepted and read with the right precedence; nothing dropped in silence; no error reported twice; it always returns |
| Resolver (`src/resolver.c`) | scope chain, had_error | collect_decls (declarations, then uses), resolve_node, find_symbol_in_path | fills the symbol table the checker uses | hoisting, aliases, destructurings, several scopes popped on several paths | lookup is lexical scoping; the first declaration of a list wins; use works wherever it stands |
| Type checker, walk (`src/typecheck.c`, check_node) | realm, expected return type, loop depth, scopes | one case per construct | reads the resolver's symbols | four pieces of state overwritten and restored around recursion | each always describes the innermost construct |
| Type checker, types of expressions (`src/typecheck.c`, infer_expr, collect_decls, resolve_type_expr) | types of symbols and nodes | inference, collection | types | passes over declarations that refer to each other in any order; errors whose types are used further; scopes opened inside expressions | declared names have types where they are used; a failed inference is reported once and held against nothing else |
| Types (`src/types.c`) | none | equality, assignability, comparability | type checker | unknown and poisoned types, literals that adapt, special cases listed by hand | no detour gets a value past a check; comparing works both ways |
| Driver (`src/main.c`) | options, sources, the list of declarations | read, parse, merge, resolve, check, clean up | calls everything | files that fail after others were read; a list extended by a pointer to its end; exits that share one cleanup | the program is all declarations in order; the exit status is right |
| Tree printer and tools, code generator, realm checker, editor extension | - | - | - | printing only; the code generator and `realm_check.c` are empty files | - |

The parts call each other in one thread: the driver calls the parser per file,
the parser calls the lexer, the lexer interns; the driver then hands the merged
tree to the resolver and the type checker, which share a symbol table.  There
are no messages and no locks; the shared state is the arena, the symbol table
and the tree.

## 2. Plan

In order of weight, with what stands and what is left:

1. **Storage** (done): `Arena`; `StrTab`, which implements `Interner`;
   `SymbolTable`, which implements `Scopes` over `Chains`.
2. **The walks** (done): `CheckWalk` for the state the type checker saves and
   restores, `Resolver`, which works on `Chains`, the abstraction that
   `SymbolTable` is proved to implement.
3. **Driver** (done): `Driver`.
4. **Parser** (done): `Parser`.
5. **Types, inference, collection** (done): `Types`, `Infer` over them, and
   `Collect` for the passes of `typechecker_collect_decls` and the list they are
   given.
6. **Lexer** (done): `Lexer`.
7. **Proofs** (done): every component, listed in section 6.  What is not
   proved, and why, is in section 7.
8. Left: inference for programs whose declarations have types, once the code
   gives them any (see `declared_known`).

The bounded runs come first for each module, then the inductive invariant as a
run's invariant, then its proof in a module of its own.

## 3. Modules and the code

**Arena.**  `chain` is the list from `a->first`, `current`, `ptr` and `end` are
the fields of the C structs, and an address is an offset into its block.  One
action per function of `arena.c`.  The history variables `live`, `snaps` and
`replay` are what the caller knows: pointers it owns, snapshots it may restore,
and what a rewind took back.  malloc may fail at every call; the NULL
dereferences that follow in the code end in `crashed`.

**StrTab, Interner.**  One action per turn of each loop of `strtab_intern` and
`strtab_grow`.  Strings are atoms with an arbitrary `Hash`; a pointer is the
number of the copy in the arena.  Where the code clears an array the arena has
not given, in `strtab_init` and in `strtab_grow`, the table is `crashed`; so a
table may be from the start.  `Interner` is what `strtab.h` promises;
`ImplementsInterner` is `Interner`'s specification under a refinement mapping.

**Chains, Scopes, SymbolTable.**  `SymbolTable` has the buckets and the entry
chains; `Scopes` is a stack of dictionaries with the same five operations, and
`Chains` holds the operators both `Scopes` and `Resolver` use.

**Resolver.**  The C recursion is `frames`, one frame per construct whose scope
is open, with the pass (declarations, uses, walk) and the position in its list.
`CollectDecl`, the `Use...` actions, `Enter...`, `Leave`, `Refer` are the
branches of `collect_decls` and `resolve_node`.  `ReferencesLexical` compares
the lookup with what the text of the enclosing constructs declares.  Constructs
that only visit their parts are met as those parts.

**CheckWalk.**  The C recursion is `open`.  An `Enter...` action is the part of
a case of `typechecker_check_node` before its recursive call, with what it
saves and overwrites; a `Leave...` action is the part after it.  Which types
expressions have is left open.  `scopes` records which construct pushed each
scope, so that a pop by another one shows.

**Driver.**  `pc` follows `main`.  Options and file outcomes are chosen at the
start.  `next_decl` is a pointer to a cell, as in the code, and `next` the
cells of the tree.  The phases may end the program by reading through a wild
pointer (`Crash`; `Resolver` and `Collect` show where), and the type checker
does so on an empty program.

**Parser, MCParser.**  `todo` is the C stack with what each function has still
to do; every parse function is an action that replaces its call by its body for
the tokens ahead.  `Functions` are the functions, with what is left of some of
them when a token has been seen; `Item` is what the stack can hold.  Returning
NULL pops `todo` item by item up to a loop that synchronizes, or to a caller
that does not look (`CarryOn`).  Tokens that no function tells apart share a
kind.  `out` is the sequence of the expression nodes built: a tree in postfix.

**Types, Infer, MCInfer.**  `Types` has the kinds of types and the relations of
`types.c` as operators.  A type carries its height.  Where the code recurses into
a type, an operator says what one call does (`Alike`, `AssignsTo`,
`FilledOne`) and what it goes on with (`InnerPairs`, `Succeeding`, `Inner`), and
`Reached` follows that for as many rounds as the type is high.  A type as written
is what is innermost in it with what is around that, so that
`typechecker_resolve_type_expr` is a fold from the inside out.  `Infer` is the body of one function: `todo` is the C
stack of `typechecker_infer_expr` and `typechecker_check_node`, `vals` the types
their calls have returned, and an expression is chosen while it is met, so that
a run is over all expressions of its size.  The first statement of a block
is one that the collection of its declarations survives (`Collect`): of
expression statements, those whose node begins with another node, or with what
may be zero (`ExprStatement`).  An action is a case of one of the
two functions, after its operands; `Rule` holds the condition of each check, so
that properties can ask what a check would have said.  The relations are
checked over the types that actually arise.

**Collect, MCCollect.**  A type is known by its kind and by which names were not
known to it when it was made.  The resolver accepts a second declaration of a
name if it is of the same kind of symbol (`SymKind`, `WellFormed`), and so both
reach the checker, with one symbol.  `Collect` is the function of that name with its
three passes; `FirstWord` and `FirstWords` are what it takes for the list of
declarations, as `ast.h` lays out its unions.  `log` records the scopes,
variables and uses of names of the functions walked, each with the number of
scopes that are open after it, for the properties.

**Lexer, MCLexer.**  An action is a call of `lexer_next_token`, and there is one
for each kind of token; scanning loops are operators that give the position
where they stop.  A character stands for all those no rule tells from it.
`lost` is set where the code reads behind the NUL.

`MC...` modules give the constants of the runs.  `...Proof` modules hold the
theorems.  Operators commented as mutants are plausible bugs of the definition
that follows; with one in its place the property named beside it in
`PROJECT.json` fails.

## 4. Runs

| Run | Question | Bounds, and why they are enough |
|---|---|---|
| `arena` | the inductive invariant (bounds, pointers apart, empty tail, snapshots), a rewind leaks nothing | three blocks, so that one is spliced in between two; two nested snapshots; sizes that fill a block, with and without padding, and exceed it (one word is 8 bytes) |
| `strtab` | the inductive invariant (reachability, uniqueness, room), refinement, every call returns | two buckets that double twice; five strings, three in one home slot at the end of the array, two with the same hash |
| `symbol_table` | refinement of the stack of dictionaries | two buckets, three names of which two collide, two scopes: collision, shadowing and redefinition all occur |
| `resolver` | lexical scoping, first declaration wins, duplicates, hoisted uses | lists of two of twelve statements inside each other two deep: two declarations of a name of the same and of other kinds, aliases, modules, destructurings, in both orders |
| `check` | the inductive invariant (realm, confinement, scopes, loop depth, expected return type), promote, blame | four deep: a function in a construct in a function in another; four declared realms; three result types |
| `driver_merge` | the inductive invariant, merging, cleanup and exit status, termination | three files (an empty one between two others), two declarations each (a list end that is not its beginning) |
| `parser` | acceptance and precedence, the stack of calls, error reporting, termination | see below |
| `infer` | types of expressions, poison, cascades, literals in range | one name, two operators, blocks or arms per body; literals of three types, declared types that adapt, fall, index; the limits of all eleven numeric types |
| `collect` | the inductive invariant (scopes, what was noted of them, which names are known), what the passes leave and report | up to three declarations of three names, of every kind and using each other, with names declared two and three times; functions of four steps of text, enough to shadow, close a scope and use a name behind it |
| `lexer` | tokens, gaps, positions, the end | texts of 8 characters for comments (the shortest that opens, fills and closes one), 6 for numbers, 5 for quotes and escapes, 4 for operators and words: each alphabet has what the scanner of its kind tells apart, and a neighbour |
| `check_return`, `declared_known` | one statement of the repository each, which the code does not keep | as above |

The `parser` run reads: each statement form inside a function followed by
another function (several forms hold two or three statements whose border only
the line test or the lookahead finds); each declaration form; all of these cut
after every token, with every token dropped, and with every token replaced by
`}` or `,`; and every expression tree of one operator and of two, over all
levels, written with the fewest parentheses.  Two operators suffice for
precedence and associativity, as each level decides between two neighbours.
`ReadRight` (accepted, and read with the tree as written) concerns the correct
files, the others all.

The bounds that are part of the models (`MaxBlocks`, `MaxSnaps`, `MaxScopes`,
`MaxDepth`, `MaxFiles`, `MaxDecls`, `Nodes`, `Length`) limit memory, nesting and
input only and are named in the constants; the proofs hold for every value.
`CHECK_DEADLOCK FALSE` is given where the system stops: a crashed or destroyed
arena, a table whose call crashed, a program whose walk is over, a driver that
exited, a parser that returned, a body, a text of a function or a file of which
all is read.

### Where the code and the documents disagree

- `check_return`: leaving a nested function clears `expected_ret`
  (`src/typecheck.c:1430`), so later returns of the enclosing function are not
  checked.
- `declared_known`: `typechecker_check` and the case of blocks hand
  `typechecker_collect_decls` the first declaration, or statement, where it
  expects the node that holds the list (`src/typecheck.c:2005`, `:1613`).  It
  reads the first word of that node's union as the list: mostly null or
  something harmless, so nothing declared gets its type and a call of a
  declared function is an undefined variable; sometimes no pointer at all, and
  an empty program or block is a null pointer read through.

Stated in the modules and refuted by TLC when checked, without a run of their
own:

- `MissingReported` (`CheckWalk`): the missing-return check exempts functions
  that name their result (`src/typecheck.c:1422`), and the parser accepts no
  others with one.
- `ReferencesValidated` (`Resolver`): array literals, ranges, casts and named
  arguments are not visited (`src/resolver.c:480`), so undefined names in them
  pass.
- `LexOnlyExitStatus` (`Driver`): `--lex-only` computes its exit status from
  variables that were never set (`src/main.c:178`).
- `SyncKeepsBraces` (`Parser`): `synchronize` consumes the token at hand first
  (`src/parser.c:103`), closing braces included, and the open block swallows
  the next declarations.
- `NewlinesAreTokens` (`Lexer`): newlines are passed over like blanks
  (`src/lexer.c:87`), so the token `TOKEN_NEWLINE` (`src/lexer.h:91`,
  `src/lexer.c:576`) is never made and `skip_newlines` of the parser never has
  anything to skip, against `src/tests/lexer_test.c:68`, `:136` and
  `:145`-`:147`, which expect one per line.  `GapsBlank` has newlines among the
  blanks, as the code has.
- `LinesTrue` (`Lexer`): a string of several lines counts each of its newlines
  twice (`src/lexer.c:509`), so what stands behind it has too large a line,
  against `.planning/research/FEATURES.md:76`, "Every diagnostic must point to
  the right source location".  `Located` does not catch this, and is about what
  is left: nothing but newlines behind a quote is ever counted twice.
- `BreakInLoop` (`CheckWalk`): break outside a loop is not reported
  (`src/typecheck.c:1864`), against `README.md:263`; `RegionalNests`
  (`CheckWalk`): a regional function in a regional one is reported, against
  `docs/specv0_1.md:216`; `ParseOnlyStops` (`Driver`): `--parse-only` is
  ignored, against `.planning/codebase/ARCHITECTURE.md:92`.

Met while translating, and kept in the models as the code has them: the minus
sign accepts operands of any type, although its comment says "Negation requires
numeric type" (`src/typecheck.c:1027`); a variable of type i32, and not only a
literal, goes where any integer may (`src/types.c:197`); an operator with a
literal on one side accepts every primitive on the other
(`src/typecheck.c:655`); a declared variable whose initializer has no type yet
loses the declared one (`src/typecheck.c:1522`); the handler of a catch whose
operand is not fallible is not looked at; of several declarations of a name
that the resolver lets pass, the checker gives the one symbol the type of the
last that pass 2 meets (`src/typecheck.c:385`), else of the last type or
variant; and a text that ends in a backslash
inside a literal, or in an apostrophe, is read past its end, which `LostAtEnd`
shows to be the only two ways.

## 5. Fairness

The compiler has one thread that runs until it returns: weak fairness of the
next-state relation (`Driver`, `Parser`, and `Lexer`, whose caller asks for
tokens until the last), and in `StrTab` of the steps inside
a call, since nobody has to call `strtab_intern` again.  No stronger fairness
is used, and no safety property needs any.

## 6. Proofs

Every theorem holds for all values of the constants, from the assumptions named
in the modules.  Each safety theorem is an inductive invariant shown to hold at
the start and to be kept by every action, one lemma per action.

- **ArenaProof.**  `ArenaAssumption`: sizes are natural numbers, alignments
  positive.  `ArenaInv` adds to the checked invariants that the chain has no
  block twice and every cursor is inside its block (`ChainOK`), and that
  snapshots nest (`SnapsNested`): without nesting, restoring an old snapshot
  might leave a younger one ahead of the cursor.  The lemmas on `align_up`
  (no padding below, less than one alignment) need only modular arithmetic.
  `ReplayStable` has an invariant of its own, `ReplayInv`: the live allocations
  are a run of first-fit placements from the first block on, which ends where
  the arena stands; every snapshot stands where its part of the run ends; and
  what the last rewind took back is a run from the current place.  Like requests
  are placed alike from the same place (`FirstFit`), a run may be cut and
  lengthened (`RunSplit`, `RunAppend`), and a block spliced in changes no run
  before it; so the requests taken back, made again, get the same addresses.
- **TablesProof**, of the string table.  `StrTabAssumption`: any hash function, any positive initial
  capacity.  `StrTabInv` adds what a probe has already passed (`ProbeSoFar`),
  the load (`Load`) and that returned pointers are right (`GivenRight`).  The
  table is reachable because each entry's path from its home slot is occupied;
  the probe ends by a pigeonhole argument (`EmptySlot`) from the load.
  `StrTabImplements` maps each step to a step of `Interner` or a stutter.
- **TablesProof**, of the symbol table.  A scope is tidy when each name has at most one entry,
  in its slot; tidiness is kept by all operations, and makes `Found` the
  dictionary.
- **ResolverProof.**  `ResolverInv` says of every open scope what it has: only
  symbols its construct introduced so far (`Originated`), all declarations met
  (`Hoisted`), binders and destructured names; and of the constructs around the
  innermost that they are in their walk (`Waiting`).  Neither half is inductive
  without the other.  The chain is that of `Chains`: together with
  `SymbolTableImplements` this is about the buckets.
- **CheckWalkProof.**  `CheckWalkInv` adds that each frame has saved the realm
  around it (`SavedRight`), without which leaving a function says nothing, and
  that an innermost function exists.  `Confined` is the argument that checking
  the direct parent is enough: the legality relation is closed under
  composition once reports are excluded.
- **ParserProof.** `InputsAssumption`: a file is a nonempty sequence of tokens
  that ends in EOF; which tokens is open.  Two inductive invariants.
  `ParserInv`: a function returns NULL only in panic mode, panic mode only
  after a report, and parsing has moved past the token of the last report once
  panic mode is cleared; `NothingDropped` and `TokenReportedOnce` follow.
  `CallsInv`: the stack has only calls, expectations and nodes there are, ends
  in `parser_parse` until it returns, and what comes after an argument is
  followed by the rest of its list, which `AfterArg` may take off with it;
  `TypeOK` and `StackOK`, which the run checks as `ParserOK`, follow.  Nearly
  every parse function either puts a body of plain items on the stack or
  refuses (`Expands`): a lemma per group shows that each of its functions does,
  with the bodies of all of them, and the invariants are proved for the two
  shapes, and for the three functions that have others.
- **LexerProof.**  `LexerAssumption`: texts of any length over any characters,
  and any words of letters and digits for keywords.  `LexerInv` is the
  conjunction of the run's invariants, and adds where the columns of the line
  begin, without which `Located` is not inductive.  The loops of the scanner
  give the least position where they stop, so each is met by two facts: it
  stops, as the NUL stops all, and nothing before stops it.  `skip` and the
  search for a closing quote are recursive functions; each leaps ahead or stays
  where it is, so there is such a function (`FollowExists`), and `GapExtends`
  carries the cut of a gap over one leap.  `LongestMatch` compares with the
  lexical grammar kind by kind: what the scanner took is of the kind
  (`WordToken`, `NumberIs`, `OperatorToken`), of no other (`KindsApart`), and
  nothing longer is of any.
- **ProgramProof**, of the driver.  `DriverInv` adds to the types what has been
  read and found good at each point of `main` (`Progress`), which phases have
  set their `had_error` (`PhasesSet`), and that the list so far is the
  declarations of the files so far with `next_decl` at its end, or on the way
  there (`ListGrows`).  `Merged` is `ListGrows` after the last file;
  `LeavesInOrder` follows from the other two.
- **ProgramProof**, of the collection.  `CollectAssumption`: programs are
  sequences of declarations in which a name is declared any number of times, but
  as one kind of symbol; others the resolver reports (`DuplicateReported`), and
  the driver stops.  `CollectInv` says of every scope of the chain which
  entries of the log it is made of (`ScopesNoted`): the parameters and variables
  noted at its depth since when nothing less deep was (`Defines`).  What was
  noted tells what is known, so `KnownIffEarlier` is kept; and the lists the
  code collects from have nothing in them that adds to it (`NothingCollected`).
  `TypesKnown` is about any list: the three passes are recursive functions over
  it, which exist (`RoundsExist`) and agree with what each pass is shown to
  keep after every round, by induction over the rounds as sets of numbers
  (`UpTo`): pass 1 names the types and nothing else (`TypesNamed`), pass 1.5
  changes what is unknown in their fields (`FieldsKnown`), and pass 2 sets one
  name per declaration (`DeclareStep`).  After every round a name has the type of
  the declaration that decides among those met (`Decides`), and there is one
  (`DeciderExists`): the last of pass 2, else the last type or variant.
- **InferProof.**  `InferAssumption`: any types as written, any literal types,
  bodies of any size.  `InferInv` has three parts, of which none is inductive
  alone.  *Types*: every type about - of values, variables, the result, handled
  errors - is `Good`, a member of a set of types that has with a type all that
  it is made of, in which `InferError` is only once an error was reported
  (`TypeSet`); without the closure a later step could take a type apart and find
  anything.  *Values*: with the calls to come in order, each finds the values it
  takes (`Levels`); `Val` is nothing without it.  *Scopes*: there is one for
  each call that will close one.  `Plan` joins the last two, `PlanDo` and
  `PlanTail` carry it over a call put on the stack and taken off, and each action
  has a lemma.  What the code computes by recursion over a type is a function on
  rounds: there is such a function (`RoundsExist`), what it reaches is in every
  set no step leaves (`ReachedByLeast`) and is one if each step goes down in
  height (`ReachedByClosed`).  So `Equals` is membership in a set of pairs
  that agree (`EqualsIf`, `EqualsOnly`), from which symmetry, transitivity among
  types without poison and `RulesConsistent` follow without any induction over
  types; and `Filled` is a map of a type's parts (`FilledIs`) under which what is
  equal, assignable or comparable was so before (`EqualsFilled`,
  `AssignableFilled`, `ComparableFilled`), which is `NoCascade`.  `InitFits` is
  arithmetic: powers of two are compared by their exponents.

The runs of the arena, the string table, the walk, the driver and the collection
check the inductive invariants themselves, with all their conjuncts; those of the others
need notions only the proofs have, and their runs check what follows from them.
The action properties (`PromoteInStack`, `ReturnBlamed`, `DuplicateReported`,
`UsesHoisted`, `NothingDropped`, `TokenReportedOnce`, `ReplayStable`) are proved
from the same invariants.

## 7. Model-checked only

- Liveness (`InternReturns`, the three `Termination`): out of TLAPS's reach.
- The parser's `ReadRight`: that a file is correct, and what its tree is, comes
  with the file; that it does so for every file of the grammar would be an
  induction over written programs.

## 8. Not modelled

- Of inference: expressions of function, struct and variant types (arguments,
  constructors, methods, fields, their patterns), because no program the code
  checks has any: the names that would give them never get their types
  (`declared_known`).  Loops, whose conditions are checked like those of if;
  `validate_systems_attrs`, which reads attributes and keeps nothing;
  `all_paths_return`, whose guard is never true (`MissingReported`);
  `check_unresolved_types`, which walks the finished tree and reports each
  literal, tuple or cast whose type is unknown as an error of the compiler; only
  the exit status depends on it.
- Of the lexer: the values of literals (leading zeros are read as octal, digits
  past 63 characters are dropped, large numbers saturate) and the interning of
  words.  A comment of three dashes that lacks its end swallows the rest of the
  text; `GapsBlank` counts it as one.
- In the parser's runs tokens have the lines the text gives them, and in the
  walks expressions have any type.
- Syntax tree constructors, tree printing, tools: no behaviour of their own.
- `codegen.c`, `realm_check.c`: empty files.
- The hash function's values, string contents, line and column reporting, the
  wording of messages: no property is about them.
- Memory contents: an allocation is a range of addresses.
