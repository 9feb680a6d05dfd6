# ACSLAutoGen in TLA+

ACSLAutoGen reads C files with Clang, steps every function symbolically and
writes ACSL contracts and loop invariants in front of it.  The text it writes
is only as good as the states it was read off: a path that is lost, a value
that is stale or a candidate that was not really proved becomes a false
statement about the program.  This directory states what those states have to
satisfy, checks it with TLC on small instances, and proves part of it with
TLAPS for every instance.

The program is sequential and keeps nothing between runs.  What makes it hard
is not scheduling but bookkeeping: long sequences of legal steps over vectors of
paths, one step of several failing, results of independent plugins merged in
an order, memory that several entries describe at once, terms that are rebuilt
and moved between points of the program, C integers that are handed to a solver
and a printer with mathematical ones, and an unreliable source of candidate
invariants under several budgets.

## 1. Inventory

Sizes are lines of code under `src/src`.

| Component | State it keeps | Operations | Interacts with | Hard behaviours | Correct when |
|---|---|---|---|---|---|
| Tool entry, comment handler (`main.cpp`, 211) | a rewriter for old comments; options | one front-end action per source file; `HandleTranslationUnit`; `HandleComment` | creates the context and the analyzer, writes `*_acsl.c` | edits made on a copy; abort between analysis and output | output = input with the contracts inserted once |
| `ACSLGContext` (`Context/`, 260) | functions of the AST, rewriter, used program points | `insertText`, `insertUsedPoints` | everything that emits text | the same point requested twice | a label is inserted once per point |
| `ACSLAnalyzer` (`Analyzer/analysis.cpp`, 157) | analysed functions, requested and seen names, a static counter | `analyzeFunctions`, `generateFunctionSpec` | steps the body, asks the spec generator | prototypes, several translation units, abort half-way | one contract per declaration of a requested function |
| Cross-TU import (`Analyzer/crossTU.cpp`, 184) | AST cache, cache of imported functions | `importDefinitionIfAvailable` | called when a callee has no body | the cache outlives the AST it points into | the imported body belongs to the AST in use |
| `ProgramState`, `Path` (`Analyzer/state.cpp`, 3335) | paths with memory, conditions, state, return value, statement context | `step` and one routine per statement kind; `evalExpr`; `mergeWith` | memory model, expressions, loop specification | paths split, moved and merged; switch flattened into blocks; context kept twice; inlined calls | final paths = executions of the function |
| `MemoryModel` (in `state.cpp`) | constant-range and symbolic-range maps, object extents | `read`, `write`, `clone`, `mergeConstantRanges`, `eraseExpiredLocals`, `mergeSymbolicRanges` | a path owns one | overlapping writes, merging, cloning by replay, offsets in no known order | reads return the last write |
| Symbolic expressions (`Analyzer/Symbolic/`, 7500) | interned nodes per factory | construction, folding, simplification, substitution, import, printing | everywhere | types dropped when terms are rebuilt; machine widths; precedences | every transformation keeps the value |
| Loop specification (`SpecGenerator/specGenerator.cpp`, 607) | results of plugins per path | `parseLoopInfo`, `emitLoopInvariant`, `emitFunctionContract` | called by `stepLoop`; replaces the paths after the loop | results of several plugins merged, missing or conflicting | post paths over-approximate every way out of the loop |
| Loop information plugins (717) | `LoopInfo`: entry and current state, patterns, shared state, index | `parse` of each plugin in dependency order | read by every loop invariant plugin | patterns over several paths, loop counts at bounds | a constant step is a step of every iteration |
| Affine invariants of a loop (`Analyzer/Symbolic/invariant.*`, 1650) | locations, transitions, polyhedra | `buildLoopInvariant`, `buildInvs`, `buildPostState` | called by the StInGX plugins; asks `Stingx/` for invariants | conditions dropped, negated or directed; exits matched by position; terms without a linear form | the clause is true at the head, the exits have every state after the loop |
| Loop invariant plugins (1692) | none | propose with a priority, or decline | loop information in, invariants and post state out | which plugin wins; idioms recognised by their shape | an emitted invariant is one |
| Function contract plugins (563) | none | `TopAssigns`, behaviours | reads pre and post state | some assigned locations cannot be expressed; labels that are left out | assigns covers every write, a behavior describes its path |
| Numerical invariants: synthesis, combination, emission (`Analyzer/NumericalInvariant/`, 1650) | accumulated clauses, counterexamples, budgets | ask the provider, combine clauses, check obligations with Z3, prove again and emit | plugins of the numerical groups | an unreliable provider, a solver that gives up, four budgets | what is emitted is inductive; the loop ends |
| Clause provider (715) | none | one HTTP request, one parsed answer | synthesis | timeouts, malformed or truncated answers | a failed call is reported as such |
| Transition extraction, recurrences (1250), their plugin (in `numericalInvariantPrototypePlugin.cpp`) | none | read a transition system off two states; null spaces; verify, emit | shares the verifier with synthesis | C semantics read as mathematics; branches; bounds of accesses | the model has every step of the loop; an equation found is kept by all branches |
| StInG-derived generator (`Stingx/`, 8700) | multiplier trees, polyhedra | traversal, dualisation | affine plugins | large search | third-party derived |
| Plugin registry, templates, utilities (900) | name to instance map | lookup, string layout | everywhere | - | - |
| Tests, scripts, benchmarks | - | - | - | - | read as statements of intent |

## 2. Modules

| Module | Models | Code |
|---|---|---|
| `CellMemory` | abstract specification: an array of cells | `MemoryModel` as its users see it |
| `MemoryModel` | the constant-range map of one base: write, read, clone, merge, erase | `state.cpp` 1967-2275 |
| `SymExec` | stepping a function body over a vector of paths | `state.cpp` 692-800, 1416-1569, 2496-3334 |
| `CSemantics` | what C says the same statements do; the properties that compare the two | - |
| `Heap` | the memory of a path with pointers: symbolic and constant ranges, variables, extents, bounds of accesses; what a statement does to it: accesses, pointer sums, allocation, free, `memcpy`, `memset_s`, an inlined call, `mergeWith` | `state.cpp` 156-564, 802-1415, 1857-2056, 2277-2494 |
| `HeapRun` | the statements one by one, next to a C machine with objects whose allocations may fail | - |
| `ExprTerms` | expression nodes, constant folding, linear forms, simplification | `expr.cpp`, `operators.def` |
| `ExprRewrite` | import, the three substitutions, printing | `expr.cpp`, `aggregateExpr.cpp` |
| `CExpr` | the value of a C expression, of a term and of a printed formula; how `evalExpr` makes a term of a C expression | `state.cpp` 695-856, 1585-1671 |
| `ExprEval` | the life of one expression, and the properties that compare the values | - |
| `TransitionModels` | transition models of loops, and the obligations that make an expression inductive | `transitionModel.h`, `clauseCombiner.cpp` (the meaning of its obligations) |
| `AnnotatedLoop` | abstract specification: a loop that is annotated and runs | - |
| `ClauseSynthesis` | the pipeline of the numerical invariants: provider, combiner, verifier, emission, budgets | `NumericalInvariant/clauseSynthesis.cpp`, `clauseCombiner.cpp`, `clause2InvPrototype.cpp`, `invariantEmitter.cpp` |
| `AnnotatedRun` | the pipeline, and the program running when it has ended | - |
| `Loops` | the transition models of the instance | - |
| `MachineTypes` | which expressions have their C type, and C integers lowered for the solver | `transitionModelExtractor.cpp` 60-274, `clauseCombiner.cpp` 239-682 |
| `Recurrences` | sparse polynomials, substitution, null spaces; extraction, discovery, order, verification and emission of one loop, and the loop running in C | `transitionModelExtractor.cpp`, `polynomialRecurrence.cpp` 12-597, `clauseCombiner.cpp` 742-980, `numericalInvariantPrototypePlugin.cpp` 19-154 |
| `LoopSpec` | the stages of loop information, plugin answers, and `emitLoopInvariant` that merges them into the paths after a loop | `loopInfoPlugins.cpp`, `loopInvariantPlugins.cpp`, `specGenerator.cpp` 89-607 |
| `LoopRun` | the same loop run as C runs it, next to what `LoopSpec` claims of it | - |
| `LoopLocations` | the transition system of a loop, its solution, and the loop running next to it | `invariant.tpp` 60-210, `invariant.cpp` 593-985 |
| `LinearFacts` | linear forms of values and conditions, the transition of a path, printed clauses, the state after an exit | `invariant.cpp` 44-566, 577-844, 1001-1250; `VarManager` in `state.h` |
| `ArrayLoop` | the two plugins that know an idiom (the extremum of an array, a search), and a loop over an array running in C next to them and to `LinearFacts` | `loopInvariantPlugins.cpp` 1033-1685, `loopInvTemplates.h` |
| `Contract` | the function contract made of final paths | `functionContractPlugins.cpp`, `specGenerator.cpp` 114-136 |
| `Driver` | one invocation of the tool: files, functions, imports, edits, outputs | `main.cpp`, `analysis.cpp`, `crossTU.cpp`, `context.h` |
| `ToolRun` | what the clauses mean in ACSL and the runs of a path, next to the contracts and outputs; the properties that compare them | - |
| `...Proofs` (6 modules) | theorems about `MemoryModel`, `SymExec` and `CSemantics`, `ClauseSynthesis`, `LoopRun`, `LoopLocations`, `ToolRun`; the one about `AnnotatedLoop` is in its module | - |
| `SymExecInvariants` | the inductive invariants of `SymExec`, and what the lemmas of `SymExecProofs` speak of | - |
| `SequenceLemmas` | what the proofs need of sequences, of flattening and of induction over numbers | - |
| `MC...` (10 modules) | instances for TLC | - |

How they compose:

- `MemoryModel` implements `CellMemory` (`ImplementsCells`): the cells are what
  `read` returns, and `CellMemory` knows whether a write has stopped short (`exact`).
- `CSemantics` EXTENDS `SymExec` and gives every statement the meaning it has in C (`Run`, a recursive
  function on the statements, their states and inputs); the properties compare the final paths with
  the executions of the whole body.  A statement is any value with the fields of its kind, so what a recursion over
  its syntax would give - nesting depth, declared locals, written variables - are constants with
  assumptions (`DepthAssumption`, `ScopeAssumption`), which `MCSymExec` computes.
- `HeapRun` EXTENDS `Heap`: every statement is evaluated on the path and
  executed on a C machine in the same step.
- `ExprEval` EXTENDS `CExpr`, `ExprRewrite` and `MachineTypes`: the C expression is kept
  beside the symbolic one as its reference.
- `Recurrences` EXTENDS `CExpr` and `MachineTypes`: the states of a
  loop are evaluated by the operators that `ExprEval` checks.
- `ClauseSynthesis` implements `AnnotatedLoop` up to the moment the program runs
  (`ImplementsAnnotatedLoop`).  `AnnotatedRun` EXTENDS it with the run of the program, whose
  steps are those of `AnnotatedLoop`; both EXTEND `TransitionModels`.
- `LoopRun` EXTENDS `LoopSpec`: first the analyzer, then a run of the loop from
  each entry state, and the run must be described by some path of the analyzer.
- `LoopLocations` is what the StInGX plugins of `LoopSpec` ask.  There only the
  number of its answers and the scalars it leaves alone are needed; in `LoopLocations` the answers are sets of
  states, and in `LinearFacts` the constraints they are made of.
- `Driver` EXTENDS `Contract`; `ToolRun` EXTENDS `Driver`: each contract that is written is
  compared with the runs of the function, each output with the declarations of its file.

### From the code to the modules

**MemoryModel.** The variable `cmap` holds the `ConstRange` entries, as records of first cell, end
and value.  A value is a function from cells to numbers, because the code
stores an expression in the range index and not a number.  `writeCanonical` is
`Write`: drop or trim the entry that starts at or before the write, then the one
`upper_bound` finds, then insert.  A write has any length: `memset_s` and `memcpy` write constant ones.  `mergeConstantRanges` and
`copyEntriesFrom` are loops, so they are one action per iteration and their
invariant (`LoopKeepsReads`) is a property of its own.

**SymExec.** A path is a record of an environment of symbolic values, a set of
conditions, the state (`Step`, `Break`, `Return`, ...), the return value and the
statement context.  A symbolic value is represented by what it denotes: a function from
inputs to values; a condition is a set of inputs.  Statements are records; the
control of the code (the recursion of `step`) is a stack of frames, one action
per case of the code.  The assertion in `setStmtCtx` either ends the analysis or is compiled out (`StepCtxAsserts` beside
`StepDo` and `StepSwitch`).  `evalExpr` returns a sequence of results as in the code, one
per path, and the callers split, merge and clean up exactly where the code does.

**Heap, HeapRun.** A path has a value for every variable and two maps of ranges behind every base
address, one with constant offsets and one with offsets in a parameter `i` or `n`.  Values are what the code can
still compare: literals, parameters, addresses, the symbol of a cell at the start or behind a call, unknown.  `Step`
takes any statement of the instance, does to the path what `evalExpr` does, ranges merged after it, and to the machine what C
does, an allocation in two ways: a new object or NULL; `Fork`, `Else` and `Join` are an if whose branches `mergeWith` joins.

**ExprTerms to ExprEval.** A node is a record, a handle is its node because a factory interns
equal nodes.  `ExprEval` builds a C expression step by step over the operators of C and its symbolic twin by
`Convert` and the `Bin`, `Un` and `Cast` of the factory; then it is moved to the start of a path
(`substitutePath`), quantified over a range (`substituteRangeIndex`), simplified, printed or lowered for the solver.

**TransitionModels to AnnotatedRun.** An expression is the set of states that
satisfy it, or for C integers the set where it is defined.  The solver
is a nondeterministic answer that is never wrong but may be Unknown or
unsupported; the provider is a nondeterministic sequence of clauses, or a
failure.  All counters are those of the code: rounds, calls, queries, the
reserve for the final proof.

**MachineTypes, Recurrences.** A loop is given by C expressions.  `ExtractModel` evaluates them at the head
and before the loop and keeps the loop only if every expression has its C type;
`Discover` builds one matrix per eigenvalue and takes its null space (rational vectors are integer vectors with a
denominator); `Order` and `Attempt` are the plugin.  The solver is exhaustive over all values of the
types and may give up on anything.  After that `Reach` and `Iterate` run the loop in C from every
start.

**LoopSpec.** `ParseLoopInfo` goes through the plugins of loop information in their order, each of which may
end it; a path through the loop body is the effect it has on every scalar:
adds a constant, or does something else.  That is the distinction the plugins draw.  A plugin's answer is the memory, conditions,
termination state and return value it asserts of every way out.  The merge
functions of `emitLoopInvariant` are operators of the same names; its stages
are actions.

**LoopLocations, LinearFacts.** In `LoopLocations` a polyhedron is the set of states in it, a constraint an `Atom` that
says what the program tests and what is kept of it.  `Poly`, `Negation` and `ExitPoly` are
`convertFormulaToPoly`, `negateFormulas` and `negatedCondPolys`; `IntoPath`,
`IntoNormalExit` and `IntoInterrupt` are the four families of transitions.  StInGX is any process
that adds what the transitions demand, and more if it likes (`Hull`), until nothing is missing.  The run is
that of a `while` or `for` loop: the condition comes first.  In `LinearFacts` a constraint is an integer
vector over dimensions that are named after variables; there StInGX is any answer from a set of small
constraints that is true of the exits seen (`Ask`).

**ArrayLoop.** The syntactic matches of the two plugins are predicates on a record of the loop's
shape; the clause they print is a predicate on the array, the index and the extremum.  `Iterate`, `Exit` and
`Leave` run the loop.

**Contract, Driver.** A path is a record of its state, conditions, changed cells and result, every value
naming the point it was read at.  `Behavior` and `AssignsOf` are the two plugins.  In `Driver` a
project is its files; an edit is a contract, a loop annotation or a label, in the buffer of the file it belongs to.
`ToolRun` looks at the contract that has just been inserted and at the outputs; a `Run` gives values
to the parameters, the local and the memory at the start and behind a loop.

## 3. Plan

Order: what other parts depend on first, and the parts whose mistakes become
false contracts before those whose mistakes become missing ones.

1. `MemoryModel` - done, proved.
2. `SymExec`, `CSemantics` - done, proved.
3. `TransitionModels`, `AnnotatedLoop`, `ClauseSynthesis`, `AnnotatedRun` - done, safety proved.
4. `LoopSpec`, `LoopRun` - done, proved.
5. `LoopLocations` - done, its safety proved; `LinearFacts` - done, model-checked.
6. `ArrayLoop` - done, model-checked.  To prove: the two clauses for arrays of any length, from the loop running in C.
7. `Driver`, `Contract`, `ToolRun` - done, safety proved.
8. `Heap`, `HeapRun` - done, model-checked.  To prove: `ExtentsAreExact`.  To add: struct members behind pointers, callees with several paths.
9. `ExprTerms`, `ExprRewrite`, `CExpr` - done, model-checked; recursion over terms is out of the prover's
   reach.  To add: sums and extrema over a range, structures.
10. `MachineTypes`, `Recurrences` - done, model-checked.  To prove: that the equations of an
    eigenvector hold at every head, given a proved obligation (an instance of `AnnotationIsSound`).
11. `Stingx`: traversal of multiplier trees (`Tree`, `Clump`, `Location`), if it can be separated from the polyhedra library.

Theorems worth having in the end: each memory map refines cells (done for constant offsets); paths partition the
inputs after every statement (done); what the pipelines write is inductive (done for the first); a path after
a loop describes every run (done); a contract is true of its function (done for the runs of a path).

## 4. Runs

The runs marked with a dagger are to fail: TLC finds a behaviour of the code that
contradicts a sentence of the repository (section 5).

| Run | Question | Bounds |
|---|---|---|
| `mem` | what does a write of any length set, and does the map with its loops implement cells? | 4 cells, writes of 1 to 4, two constant expressions and the range index |
| `exec` | are the paths a partition of the inputs at all times, the final paths the executions of C, are breaks marked with their statement reset? | variables x, y and a local t; values 0..3; 2126 bodies in `MCSymExec`, t initialised or not |
| `heap` | is what a path says of variables, cells, extents and accesses what the machine did? | three statements of 24 kinds, one if, arrays of up to 4 elements, two allocation sites, allocations that fail |
| `heap_null` † | does an access through the NULL of a failed allocation flag the path? | the same |
| `exprs` | does an expression keep its value from C to the printed formula and to the solver? | two operators over six leaves, widths 2, 3, 4 and 6 bits |
| `clause` | is only what is inductive written, does it hold when the program runs, is nothing provable overlooked, is the budget kept, does the pipeline end? | 6 loops over 4 states, 2 rounds, 2 calls, 3 clauses, 6 candidates, 12 queries |
| `recurrences` | are the equations found exact, is no linear one missed, does an emitted one hold at every head? | two dozen loops, integers of 3 bits, all limits as in the code |
| `recurrences_do` † | and for loops that test their condition last? | one `do` loop, one whose entry wraps |
| `loop` | are the paths after a loop, its assigns and its variant true of its runs? | loops over i, n, s; at most 3 paths and 2 infos |
| `locations` | do the invariants of the locations cover the runs through the loop and out of it? | 1400 loops over a counter 0..3 and a flag, up to three paths |
| `claims` | are the clauses for extrema and searches true at the head, are steps transitions, does the post state describe the exit? | arrays of three elements: rising, falling, extremum inside, equal; i from 0 to 2, n in 0, 1, 3, m in 0..2 |
| `tool` | do contracts describe the paths, do outputs hold the contracts, is a sound project finished? | up to three files, one level of inlined calls, values 0 and 1 |

Why the bounds suffice:

- `mem`: a write touches at most the entry at or before its start and the
  entries that start inside it.  Four cells give room for an entry on either side,
  for a split in the middle, for two entries inside a written range and for a third one that it misses.  Values only matter up to
  equality and up to their dependence on the range index; three expressions have
  both kinds and two different ones of the first.  `MemoryModelProofs` removes the bounds.
- `exec`: stepping looks at the data only through conditions that fork
  or are constant, so three values of x reach every case label, the default and
  a condition that is true on one of them only.  Nesting goes to depth three: a
  statement in a switch or do in a switch, do or if.  Breaks stand directly in the statement they leave, in a branch of an
  if in it, and behind others (`JumpPrograms`).  More statements in a row repeat
  what `Compound` does between any two.
- `heap`: a wrong read needs a write, something that merges, moves or shadows it, and the read, which is part
  of every third statement; the if puts any of them on one branch.  Offsets are the literals and the two
  parameters, each of which may be equal to another one or not (`Entries`).
- `exprs`: two operators are enough for every pair of precedences, for an operand of another width and for a
  type that is dropped when a term is rebuilt.  The widths are different from each other, so that every conversion between
  two of them can lose bits; a theorem about 32 bits that depends on more than their order is not visible here.
- `clause`: four states are enough for an initial state, a
  step that stays in a clause, one that leaves it, and a state with undefined
  behaviour.  Two rounds are the fewest in which something is carried over, and three clauses the
  fewest at which clauses are turned away and conjunctions of two are left over.
- `recurrences`: each loop has one feature that extraction, discovery or verification tells apart: equal and
  opposite steps, steps that differ by branch, a swap, a doubling, squares and quotients, a wrap, a narrow
  type, accesses inside and outside an object, numbers of paths, variables and symbols on both sides of each limit.
  Three bits give every variable a wrap within eight iterations.
- `loop`: up to two step paths and two exits, since each merge is a fold over
  pairs; the limit on paths (64 in the code) is 3 so that loops on both sides of it exist.
  Index steps 1, -1, 2 and -2 separate unit from other strides in
  both directions.  Entry states include a loop that does not run, one that starts beyond
  its bound, and odd and even distances.  Loops that have not ended after `MaxRounds` iterations are left there.
- `locations`: conditions of up to two operands of every form, alone, negated and
  together with a dropped one; up to three paths, since transitions join pairs; one exit by break and two.
  The hull is a box per value of the flag and may be applied in any round or in none.
  `LoopLocationsProofs` removes these bounds.
- `claims`: three elements are the fewest with one that is neither the first nor the last seen.
- `tool`: the import cache and the counter for `main` need a second file to be stale, a collision of outputs
  needs two, and an import of what an import has cached a third.

Only the pipeline (`ClauseSynthesis`, `Synthesize` in `AnnotatedRun`) and `Driver` state fairness.  Weak fairness of the pipeline is justified by the code: a solver
query has a timeout set on its solver, an HTTP request has one set on its connection, and
everything else is a sequential computation on bounded data; `Terminates`
then says that the retries are bounded.  `WF_vars(Next)` on the tool says that a sequential program goes on until it
ends or aborts.  All configurations disable the deadlock
check because the modelled computations end: an analysis that is done, or that the
code aborts, has no next step.

## 5. What holds

- **Memory.**  A write of any length sets its cells up to the second entry that starts inside it, and the ranges
  overlap from then on if and only if there is one (`WriteStopsAtSecond`).  Until that happens reads return the last
  write, cloning and merging are invisible and merging leaves no two equal neighbours; afterwards a read
  returns some write to its cell, and neither loop invents another one.
- **Stepping.**  At every point of every body the conditions of the paths partition the
  inputs, unless conditions on locals have been forgotten; then they still cover
  them.  Where the analyzer means to step as C does (`SteppedAsC`), its final paths are exactly
  C's executions.  Of the 2126 bodies of run `exec` 1949 are stepped so, 1874 of them without an uninitialized local.
  `SteppedAsC` excludes what the code is known to do otherwise (below): `continue`, `&&` with an effect,
  an effect or a fork in the condition of a switch, a break in a branch of an `if`, a label that occurs twice, and a
  default that is not the last label, shares its statement or is fallen into.  In every body a break that was marked with
  its statement is reset where that ends (`MarkersAreReset`); one in a branch of an `if` is marked with the null context and is not.
- **Pointers.**  Where no caveat of `HeapRun` applies, a known value is the value in the machine.  An access or a pointer sum
  outside an object, a use after free and a wrong `free` violate a bound on their path or the path is marked, with three
  exceptions: what is done through the NULL of a failed allocation (run `heap_null`), the cells of `memcpy` and `memset_s`, and
  `free` of a local array.  An extent is that of a live object, also where allocations fail.
- **Expressions.**  For operands whose symbolic type is their C type, folding, rewriting, linear forms and
  printing keep the value; what is lowered for the solver is C's value exactly where C defines one.
- **Numerical invariants.**  Nothing but an inductive annotation is written, and it holds at every head when the program
  runs, which then evaluates nothing undefined and exits with the postcondition;
  dismissing candidates by an earlier counterexample loses no provable
  candidate; the smallest provable candidate of a round is found; the feedback
  to the provider is a refutation of this round; queries stay in the budget; the
  pipeline ends.
- **Recurrences.**  Every candidate is multiplied by its eigenvalue on every branch; every linear combination
  with an eigenvalue of -1, 0 or 1 follows from the candidates; an emitted equation holds at every head
  of a `while` loop in C, wraps included.
- **Loops.**  Every run of a `Regular` loop ends in a state that some path
  describes; assigned scalars, and cells stored to with an index that moves no
  faster than the loop's, are listed; the variant decreases from a non-negative value.
- **Locations.**  Whatever solution StInGX finds, the location of the path that is about to be taken admits the
  state at the head, the exit of a break or return the state after it, and `normal_exit` the state after the
  loop, provided that the conditions lose strength only (`Faithful`, `Negatable`) and, for the last, that there was
  an iteration.  An iteration satisfies the transition made of its path; what is true of the exit
  stays true when it is read as values and conditions.
- **Idioms.**  The clauses of an extremum and of a search are true at the head of the loops the plugins mean to match.
- **Contracts.**  Every returning path has a behavior that its runs satisfy, but for ensures clauses whose text has lost a
  label; the assigns clauses allow every change of a cell that outlives the call, behind any pointer, but for fields of
  structures, addresses that have no text where others have one, and those whose text has lost a label.
- **Tool.**  An output has one contract per declaration of a requested function, every loop annotated and labelled, whatever
  files came before (the loops of a definition in a header go to the header); a sound project is finished.

Each property names what it leaves out; the next two sections say why.

### Where the code and its documentation disagree

| Run | Code | Sentence |
|---|---|---|
| `heap_null` | `BSL_SAL_Malloc` and `BSL_SAL_Calloc` always yield an address and an extent (`state.cpp` 964-1117), so an access through an unchecked NULL is neither flagged nor bounded | guide of the plugin, 277-280: reads and writes through null set `hasUnknownMemoryAccess` |
| `recurrences_do` | the verifier assumes the condition of a `do` loop before its first iteration too (`numericalInvariantPrototypePlugin.cpp` 52, `clauseCombiner.cpp` 902-973): u = 7, v = 0 leaves `v - u == -7` false at the second head | guide of the plugin, 14: a proved candidate must pass the complete SMT obligations |

These were met while modelling and have no run of their own:

| Code | Sentence |
|---|---|
| `writeCanonical` (`state.cpp` 2105) removes one later entry, so `[0,3)` over three single cells leaves the third | `state.h` 207 "ConstRanges must be non-overlapping" |
| `splitActiveInactive` (`state.cpp` 3066) forgets the statement context, so a break under an if is never reset | `state.h` 861 "Reset any break markers after finishing a loop." |
| `memcpy` and `memset_s` (`state.cpp` 1179-1338) record no bound for their cells and do not flag the path | guide of the plugin, 262-265: an actual access requires that the offset is within the extent |
| a switch condition is evaluated on returned paths (`state.cpp` 3209) | `state.h` 796 "for all active paths" |
| `finalProofQueries` (`clause2InvPrototype.cpp` 34) counts one query per branch of a mathematical model, the verifier makes two if it accesses memory | research plan 1103, on rejecting a budget before the provider is called |
| exits keep the default state `Step` when every path sensitive plugin declines | `specGenerator.cpp` 580 "Carry over path termination state" |
| the clause is the disjunction of the path locations only, into which every transition between paths requires the loop condition (`invariant.tpp` 177, 210): `i <= 1` for a loop that ends with `i == 2` | `invariant.tpp` 52 "Build invariants ... for a loop" |
| an allocation call that runs twice names both objects by one address (`state.cpp` 991), so an access to the first one after it was freed is not flagged | research plan 1290, on accesses after free |
| branch conditions are printed as `requires`, not `assumes`, unless they mention the state (`functionContractPlugins.cpp` 525) | `docs/projectArchitecture.md` 175-179 |
| fields of a struct are in no assigns clause | `functionContractPlugins.cpp` 96-101 "enumerated and processed individually" |
| the comments are removed in a rewriter whose buffer is not written (`main.cpp` 158) | `README.md` 48, on removing old ACSL comments |

### What the code does that no sentence contradicts

The modules contain these; the preconditions of the properties name and exclude them.

*Stepping.*  `&&` and `||` evaluate both operands, with their effects, on one path (`state.cpp`
750).  A case that falls into `default` executes it twice; a default before other cases
takes inputs from them; `case k: default:` loses the default; locals declared directly
in a switch body are not erased; a switch under `if (0)`, and every
`continue`, abort the analysis; so does, in a build with assertions, a switch or `do` under an `if` inside another one
(`state.cpp` 3330).  The condition of a switch is evaluated on the paths that have
left, too, with its effects.

*Pointers.*  `memcpy` to an offset other than 0 reads its source shifted, and copies the source's value at the start
even if it was written since; ranges are merged after every statement, so `v[i]` and `v[i+1]`
become one entry and are read as a fresh symbol; an inlined call gives every variable of the caller its old value, so a
callee's write through the address of one is undone; `free` forgets only the first cell, accepts a local array and keeps
the path on which its argument is NULL; an allocation never fails; `memcpy` and `memset_s` record no bounds; constant and
symbolic offsets are never compared; pointers of unknown value share one base; a global is found by its name alone.

*Expressions.*  Substitution and simplification rebuild terms in the type of the first operand, so an explicit type
is lost; `~` folds to an unsigned value; a left shift by a negative constant aborts; shifts whose operands differ in type
fold in the unified one; `x && 1` simplifies to `x`; a printed `--x`, `(a < b) == 1` or `(a < b) < c` reads
otherwise in ACSL; a symbol of a point that has no label is printed as the current value.

*Recurrences.*  Entry values and the path conditions before the loop are read as mathematics although the program computes
them with wraps; the basis has all monomials of degree two, so any update that is not linear exceeds the degree;
8 queries are enough for three branches; candidates for -1 and 0 can use up the room for those of 1; paths
that break or return are removed before extraction, so their accesses are not verified; candidates that
are equally simple are taken in the order of their texts (here: of discovery).

*Loops.*  Paths after a loop are cloned from before its init, so what only init
writes is lost unless StInGX repeats it.  The first path with changes is
adopted whole when earlier paths changed nothing, so its step is not one of
every iteration.  The window of the index after `<=`, or after a loop with
further conjuncts, is off; a count is not clamped at zero for a loop that
starts beyond its bound; a store index that moves faster than the loop's
index, or downwards, leaves the range of loop assigns.  A returned expression
with symbols stays unknown.  A way out for which StInGX has no disjunct aborts, and so does a loop that is reached with two or
more ended paths and no active one (`loopInfoPlugins.cpp` 97).  A compound assignment such as `%=` is not seen as
non-affine.

*Locations.*  `negateFormulas` negates every operand of a conjunction, so leaving by one of them is not an
exit (`Negatable`); a negated conjunction of which operands were dropped, and `!=` read in one
direction, exclude states (`Weakened`).  Nothing leads from `init` to `normal_exit`: a loop that does not
run has no state after it.
`buildInvs` skips a disjunct of which it prints no constraint (`invariant.cpp` 1094), although that one is true.
`toLinearExpr` divides each coefficient on its own, so `x / 2` becomes 0, and drops the offset of an
address; `buildPostState` writes `>` for `>=` and drops terms it cannot resolve; variables of one name share a dimension.

*Idioms.*  The documented shape `for (i = 0; ...)` with m set before it gets an `\exists` over no element at the first
test; the template of the minimum has one parenthesis too many and prints `0<=i<n`; closed bounds and descending loops get the
clauses of half-open ascending ones; an if inside another statement, and other writes to m or to the array, are not
excluded.  A descending search claims the element at its start, which it has not compared.

*Contracts and tool.*  `hasDisallowedFunctionContractLabel` is never true; an assigns list loses addresses that mention
locals; an ensures clause prints an element that changed without a label (`p[0] == (p[0] + 1)`); a void path that runs off
the end has no behavior.  A prototype gets a contract of its own and
aborts when its parameters are named differently; `--func` with a function that one file lacks aborts the run; files of one name
overwrite each other in an output directory; edits in headers and imported files are not written; the cache of
imports outlives the AST it points into.

## 6. Proofs

Every theorem is checked by TLAPS for all values of the constants.

**MemoryModelProofs.**  For objects of any size and writes of any length.  `BasicInv` (entries are non-empty ranges of the object)
always holds.  While the ranges of the map are disjoint, `ExactInv` says of each loop in progress which entries are
done and which are to come: disjointness of the map alone says nothing about the half-built map in the middle of
`mergeConstantRanges`.  When they overlap, `LoopsAddNothing` says that no cell gets a value it did not hold.  `Inv`
joins the three (`Invariance`).  From it follow `TypeCorrect`, `LoopsKeepReads`, `ClonesAreExact` and `MergesAreMaximal`.
`WritesStopAtSecond` rests on what `upper_bound` can find (`SearchFindsInside`, `MissedIsSecond`); the refinement
`MapImplementsCells` maps a write that stops short to one of the abstract cells that does (`Store` with n < len), and what
follows it to steps that only promise a value once written.

**SymExecProofs** (the invariants are in `SymExecInvariants`).  `SpecPartitionsInputs`: at any point of any body the paths cover the inputs, once if no condition
on a local is forgotten.  Paths are not only in the current list: a frame of the stack keeps those that take another branch,
wait for the next case or have left the block, so the inductive invariant `Sound` is about all these lists
together (`Covers`).  That leaving a scope unites no two paths rests on the independence of conditions and values
from locals when each of them has an initializer (`SoundPath`); that a partition of a switch is taken
up only when nothing is in progress, on `PartitionOnTop`.
`SpecResetsMarkers`: outside every loop and switch a path in state Break is one whose break stood in a branch of an if and was
marked with the null context there; no assumption is made on where breaks stand.  A break marks its path with the statement
context of the moment, and `resetBreakState` compares it with that of the end of the statement; in between, frames come and
go which set and restore the context.  `BreaksInv` says of every path with a mark other than null, in whichever list, that the frames below it hand
down its context to a `leave` frame (`Caught`), and of every context a frame runs in that it is null or will be caught.
That a step keeps this is shown once, for any frames that take the place of the innermost one (`CtxShift`).
`SpecCoversExecutions` and `SpecDescribesExecutions`: the final paths are the executions of the body in C.  Assumptions: statements
are finite (`DepthAssumption`), a do or switch statement is known by its id as by an address (`IdAssumption`), a variable stands for
one declaration (`ScopeAssumption`), and expressions yield numbers (`ExprAssumption`); the bodies, the values and what expressions
compute are any.  The analyzer steps the paths of a whole list statement by statement, C one input from one statement to the next, so the
inductive invariant `Follows` says of each input where it is: some path, in the current list or kept by a
frame, is at a point of its execution (`Tells`), and the frames below take that point to the end of the body's execution (`Goes`,
`Told`); what one frame has to do for a point is `Passes`, for a path it keeps `Waits`.  A step need only be shown to
do for every point what the frame it replaces had to do (`RetoldStep`, one lemma per action).  Behind that stand facts about C,
shown by induction over the depth of statements: `Run` exists and is what it is defined to be (`RunIs`); an execution
writes only what its statement may write, declares only its own locals (`Executes`), and breaks out only of loose statements (`NotLoose`);
facts about the analyzer: the block of a label is the rest of the body from it on (`BlocksAre`), so that what is left of a switch at
its first block is what C does (`JumpIsSwitch`); and `Inside`, that what is stepped above a `leave` frame lies inside the
statement it ends, so that no two statements that run have one id and a break of the outer one is not reset by the inner.
That no path says anything else of an input is then `Sound`: with every local initialized the input has one path only.
The proof needed hypotheses that earlier runs did not need: that labels are different, that no break is
in a branch of an `if` (such a path never goes on), that the condition of a switch has no effect (it is evaluated on returned paths, too), and that `&&` has no
effect in initializers and returns either.  They are now part of `SteppedAsC`.

**LoopRunProofs.**  Three theorems about the analysis of a loop and a run of it, for all starts and any number of rounds.
`Inv` says how far the scalars have moved when the loop is tested (`Moved`): by how much a scalar may have changed follows from
how far the index is from its bound.  `SpecAssignsCoverWrites` and `SpecVariantDecreases` need no more.
`SpecPathsDescribeRuns` also needs what the stages hand on: `EmitInv` says of the information of the normal exit and of
every other one that it is true of a run which leaves there, whatever plugin it comes from, whoever won and whatever was
merged into it, and that nothing assigned is missing from it (`CoverInv`).  `EnteredInv` says what a run in the loop has
in common with the path it was entered on, `LeftInv` what is true when it has left.  `MergeAllPostInfos` folds
over the plugin answers; that the fold keeps what is true of all of them is shown by induction over its positions.

**AnnotatedLoop.**  `AnnotationIsSound`, for any way to find an inductive annotation: by the invariant `SInv` (the state of
the run is in the annotation at every loop head, and is defined), from the
obligations `Inductive`.  Nothing is assumed of the states.

**ClauseSynthesisProofs.**  Proved for any set of clauses, any limits and any answers, from four invariants.
`ProofInv` records, while an obligation is being checked, that all
required ones before it are proved; `FoundAreInductive` and the refinement
`PipelineAnnotates` follow.  `BudgetInv` relates the queries spent, those of the
round and the reserve; `BudgetIsKept` follows.  `RoundInv` says of a round that its candidates are sorted by size, that those it is
past are not inductive, or the solver was at a loss, and that its failures are refutations of its candidates; a candidate
may be dismissed without a query because a counterexample of another one refutes it too.  `FeedbackIsOfTheRound` and `NothingIsOverlooked` follow.  `ReserveInv` counts the queries of the final
proof by the position of its obligation: for C integers no more than were set aside (`ReserveSuffices`).
`RunInv` joins `ProofInv` to the invariant of `AnnotatedLoop`, of whose program every step of `AnnotatedRun` is one:
`WrittenInvariantsHold`, what the pipeline writes is true of every run.

**LoopLocationsProofs.**  Assumptions: the loops are well-formed (`LoopsAssumption`: an operand that is given no
direction is kept as it is, and the values of a path admit what the path does) and `Hull` only adds
states.  None of the three properties is inductive: in the middle of a run they need to
know where the state came from.  `IInv` adds that the system is solved before the run starts (`Solved`),
that a run that has not iterated is in an initial state (`Starts`), that one that has is in a
state some normal path leads to (`Arrived`), and by which way it left (`AtHead`, `Left`).  The lemmas
`PolyAdmits` and `ExitPolyAdmits` are the soundness of the two conversions of conditions, `SolvedLocations` says
what a solution contains.  `TypeCorrect`, `PathInvariantsHold`,
`InterruptsAreCovered` and `NormalExitsAreCovered` follow.

**ToolRunProofs.**  Assumptions: a definition has a number of loops and calls by name (`ProjectsAssumption`), the
paths of a function speak of its parameters, of the elements of `p` and of at most one structure per pointer
(`PathsAssumption`); files, declarations, paths, values and targets are any.  `EditsInv` says where every edit so far comes
from: each is the contract of a requested declaration that has been passed, made of the paths of the definition, or the annotation
of a labelled loop, and no such declaration lacks its contract or the annotations of its loops.  `OutputsInv` says the same of
every output and its file, `CacheInv` that the import cache leads to definitions.  `OutputsAreComplete` follows.
`BehaviorsAreTrue` and `AssignsAreEnough` (about all cells that outlive the call, fields of structures excepted) need only that the contract last written is made of the paths of its function; the rest is
about `Contract` and the meaning of its clauses: text that has lost no label is read as the term it was printed from
(`TermIsRead`, `AddressIsRead`), a changed cell has an entry that is not dropped (`ChangedIsDescribed`, `AssignsOfAllows`),
and both sides of an ensures clause have the value the path gives them (`LeftIsRead`, `RightIsValue`, `EnsuresHold`).

`TypeCorrect` (of both modules) and `MergesAreMaximal` are theorems no run has a
property for; `AnnotationIsSound` also says that nothing undefined is executed and that the exit has what the
annotation promises.

Induction over numbers is available (`SequenceLemmas`: `LeastNumber`, `Induction`), and with it what a recursive *function*
computes, such as the concatenation of all sequences of a sequence (`Flatten`) or the execution of a
statement (`Run`).  Definitions that would need a
`RECURSIVE` operator, and the folds of the library, stay out of the modules that are proved about.

Model-checked only:

- all properties of `ExprEval`, `Recurrences` and `ArrayLoop`: they evaluate terms, polynomials and C
  expressions with recursive operators.
- all properties of `HeapRun`: blocks of cells are copied by folds, for which the provers have no induction.
- `Terminates` and `SoundProjectsAreFinished`, which are liveness.

## 7. Not modelled

- *Text.*  Layout of strings, the dumps and views of states and expressions, logging, option parsing, JSON grammar
  and HTTP transport.  An answer of the provider is a clause, a failure or a malformed answer.
- *`Stingx`.*  It derives from a third-party tool on top of a polyhedra library; the traversal of multiplier
  trees prunes by polyhedra and has not been separated from it.  Its answers are modelled as any solution
  (`LoopLocations`), or any constraints that are true at the exit (`LinearFacts`).
- *State.*  Struct members behind pointers, the arithmetic of pairs of pointers, sub-array values of several
  dimensions, callees with several paths, recursion, calls through function pointers and calls whose name
  contains `print` or `assert` (`state.cpp` 918 skips them with the effects of their arguments), the
  intersection of conditions and return values in `mergeWith`.
- *Expressions.*  Sums, extrema and counts over a range, structures as values, floating point.
- *Loops.*  The wording of the clauses, and templates that are only wording; the values of array cells outside `ArrayLoop`.
- *Tool.*  Options other than the functions and the output directory; edits in headers are lost in `Driver` and not
  followed further.
- Utilities, scripts, tests and benchmarks keep no state that a property could be about.
