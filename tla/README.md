# Kaimeter in TLA+

A model of kaimeter: the rules of the EU carbon border adjustment mechanism
as data, an interpreter that evaluates them, a Merkle identity of the rule
bundle, and a zkVM guest that proves one evaluation. The modules here are
translated from the source (paths below are relative to the repository root);
TLC checks them on small instances. TLAPS proves for every value of the
constants the arithmetic, the decimal parser, the precursor aggregation,
the valuing of a declaration by dates, scope, tables and mark-ups, the checks of
an invocation, the evaluator's stack discipline, the Merkle tree and every
property of publication, opening and verification, that the guest implements
its abstract promise, and the safety of the measurement script. `PROJECT.json`
lists the parts, the runs, the mutants that show each property can fail, the
source lines of each definition, the hazards and the theorems.

## 1. The system

| component | source | state | operations |
|---|---|---|---|
| Fixed-point arithmetic | `crates/kaimeter-interpreter/src/fixed.rs`; `crates/kaimeter-rules/src/fixed.rs`, which has neither `try_abs` nor `round_to_integer` | none; a `Fixed` is an `i128` at scale 10^6 | checked add, sub, neg, abs; mul, div, round with one rounding, half to even |
| Decimal parser, Display | `fixed.rs` | the streaming parser's digits, sticky bit and parity | `from_str`, byte by byte; `fmt` |
| Precursor aggregation | `crates/kaimeter-rules/src/common/precursors.rs`, `rules.json` (`common.complex.see`) | loop accumulators | `see_complex`, `weighted_average`, and the interpreted rule |
| Values, tables | `crates/kaimeter-interpreter/src/value.rs`, `rule.rs` | none | accessors, row selection by equality and longest prefix, coercion from JSON |
| Rule schema | `schema.rs` | none | parse, validate |
| Rule evaluator | `rule.rs` | the records in scope (`elements`), the call stack | one case per kind of node, `evaluate_rule` |
| Invocation | `rule.rs`, `value.rs` | none | `from_json`, `check_inputs` |
| Bundle identity | `bundle.rs` | none | canonical paths and line breaks, Merkle root, `open_file`, `verify_opening` |
| zkVM guest and host | `crates/kaimeter-guest` | the verified openings, the bundle, the outcome, the journal | read witness, verify, build, evaluate, commit; the host writes the witness |
| Defaults, mark-ups, scope, periods, dates | `crates/kaimeter-rules/src/common`, `date.rs` | none | `Date::from_iso` (twice), `classify`, `ReportingPeriod`, `normalize_cn_code`, `default_value`, `precursor_default_value`, `markup` |
| Aluminium sector | `crates/kaimeter-rules/src/sectors/aluminium`, `rules.json` | none | slope, overvoltage and secondary routes, as functions and as rules |
| Parameter tables | `crates/kaimeter-rules/src/parameters.rs` | none | decoding of embedded JSON into rows |
| Other sectors, certificates, indirect emissions | `crates/kaimeter-rules/src` | - | stubs that return `NotYetImplemented` |
| bundle-hash command | `crates/kaimeter-rules/src/bin/bundle-hash.rs` | the directories being read, the files found | walks a directory, drops what `bundle.json` excludes, prints the root |
| Comment checker | `xtask/src` | block comment depth, open fence, violations | scans every tracked file line by line, reports prohibited comments |
| Release measurement | `tools/prove-aws.sh` | script variables, an EC2 instance | launch, wait, send, poll, terminate in a trap |
| Extraction of default values, CI, paper | `crates/kaimeter-rules/tools`, `.github`, `paper` | - | outside the program |

How they interact. The plain evaluator (`kaimeter-rules`) and the interpreter
(`kaimeter-interpreter`) implement the same rules twice and never call each
other; only tests compare them, so their agreement is a property and not a
fact of the code. The interpreter reads `rules.json` and the tables as bytes of a
file set. A host holds the whole set, computes its root and sends the guest
openings of the files a rule reads; the guest verifies them one by one, builds
a bundle from them, evaluates the invocation and commits root, output and
context. A declaration is dated, classified, given a period and a default value by
functions its caller applies in turn. Nearly everything is a pure function of
its arguments; what is concurrent or fails is outside it: the cloud beside the
measurement script, and the file system under the directory walk and the
comment check.

What is hard. Numeric edges: one rounding, half to even, with the sign and the
parity of both operands, checked integers before the rounding, an unchecked
multiplication. Two implementations that add in different orders. An evaluator
that recurses, short-circuits, and keeps records in scope on a stack of its own
which must survive failing closures. A proof verifier that trusts index, size
and length from an unauthenticated channel. A guest that verifies paths in one
spelling and uses them in another. A trap that must terminate an instance
although calls fail, answers are lost and signals arrive anywhere. Fallbacks of
default values that compose, with a broader row that must not win. A scanner
that carries comment depth and fences over lines but forgets literals. Section 6
gives the properties per component; the hazards are in `PROJECT.json` at their
lines.

## 2. Modules

| module | models | its actions |
|---|---|---|
| `FixedPoint` | `fixed.rs`, as operators on integers with results `Ok`/`Err`; constants `SCALE`, `MAX` for 10^6 and 2^127 - 1 | |
| `Arithmetic` | a computation of `Fixed` operations on an accumulator | `Binary`, `Unary` |
| `Numerals` | numbers and their digits, as parsers and `Display`s share them | |
| `Decimal` | `DecimalParser` and `from_str`; `Display` | `ConsumeDot`, `ConsumeInvalid`, `ConsumeInteger`, `ConsumeFraction`, `Finish` |
| `Dates` | both `Date`s and `ReportingPeriod`, with the calendar as a count of days for reference | |
| `Defaults` | a dated declaration, on top of `Decimal` and `Dates`; its text goes through the parser's own actions | `ParseDate`, `ClassifyGood`, `DeterminePeriod`, `SelectValue`, `Assemble` |
| `Precursors` | `see_complex`, `weighted_average` and `common.complex.see` in lockstep over one list | `Consume`, `Finish` |
| `Values` | `value.rs`: the variants and accessors | |
| `Invocation` | `Invocation::from_json`, `Value::coerce`, `check_inputs`, the validation of record types | `FromFiles`, `ParseInvocation`, `Build` (a caller's own), `Evaluate` |
| `Tables` | dates as places in a calendar, `select_row`, cells | |
| `Evaluator` | validation, then `Evaluator::eval` as a machine with an explicit call stack | `Validate`, `StartOutput`, `FinishOutput`, `Prove`, one per kind of node, `LoopTerm` (with_element returns), `Receive` (any other call returns) |
| `RuleMeaning` | the reference for `Evaluator`: the result of a node in a lexical scope, as a recursive function over the nodes | |
| `Aluminium` | `pfc.rs` and `boundaries.rs` as functions, the aluminium rules of `rules.json` as programs of `Evaluator` | those of `Evaluator` |
| `Merkle` | `bundle.rs` as operators; hashes are free constructors | |
| `Openings` | publish, open, carry, verify | `Publish`, `Open`, `Deliver`, `DeliverAltered`, `Verify` |
| `Walk` | `bundle-hash` in front of `Openings`: the walk, the exclusions, failing calls | `ReadMetadata`, `Visit`, `FailToRead`, `LeaveDirectory`, `Collect`, then those of `Openings` |
| `Prover` | the abstract promise: at most one journal, and an authentic one | `Commit` |
| `Guest` | host and guest, on top of `Merkle`, up to the bytes of the journal | `WriteOpening`, `Execute`, `ReadOpening`, `BuildBundle`, `EvaluateInvocation`, `CommitJournal` |
| `ProveAws` | `tools/prove-aws.sh`, EC2, the SSM agent, the remote command | one per AWS call of the script, the trap, `Interrupt` (a signal bash handles), `Kill` (one it does not, or a crash of the host), four cloud actions |
| `Scanner` | `comments.rs` and `scan.rs`, with a lexer of the whole file beside it for reference | `SkipFile`, `OpenFile`, `SkipBlankLine`, `ScanHashLine`, `ScanRustLine`, `ConsumeCode`, `ConsumeBlock`, `FinishLine`, `FinishFile`, `Finish`, the failing `git` and reads |
| `FixedProofs` | lemmas about the operators of `FixedPoint`, and that a recursion over the naturals has a solution | |
| `MerkleProofs` | theorems about the operators of `Merkle`, then about `Openings` and `Guest` | |
| `DefaultsProofs` | theorems about `DefaultsSpec`: the parser of `Decimal`, `Dates`, the tables, scope and mark-ups | |
| `EvaluatorProofs` | theorems about the specification of `Evaluator`, then about its meaning in `RuleMeaning` and the rules of `Aluminium` | |
| `ArithmeticProofs`, `PrecursorsProofs`, `InvocationProofs`, `ProveAwsProofs` | theorems about the specifications | |
| `MC...` | the instances for TLC | |

Conventions. `Ok(v)`, `Err(e)` and `AndThen` are `Result` and `?`. A definition
keeps the source's name where it can. An operator marked `Mutant:` stands
before the definition it is a faulty version of and is used by nothing in the
specification; `PROJECT.json` pairs each with a property it breaks.

Abstractions. Names, paths and texts are short sequences of symbols where
their order or a prefix matters (CN codes, table paths), model values where it
does not. A SHA-256 hash is a term that is equal only to itself: no collisions
and no unknown preimages, the assumption the bundle's identity rests on. JSON and
UTF-8 decoding are membership in a set of well-formed texts. In `Guest` a rule
is abstracted to the tables it reads and an output to the rule and the bytes it
read, so that equal outputs mean equal inputs; `Evaluator` models what happens
inside. In `Invocation` names are numbers in the order a `BTreeMap` iterates
them, and a rule's own shape is one flag, the verdict `Evaluator` models. The
width of a `usize` is the constant `UsizeBits`, 32 in the guest;
`next_power_of_two` wraps at `USIZE`, two to that power. The fields of an opening
are altered one bound set at a time; the siblings that may arrive are the hashes
of the bundle's own subtrees, since no other term can fold to the root.

A directory is a function from paths to entries that does not change while it
is walked. In the journal the root and the output, of fixed width, are one
symbol each and a length is a number. In `Scanner` a marker word, a keyword and
a fence are single symbols, of which one stands for each list in the source.
A repeated subtree of an aluminium rule is one node that `eval` visits as often
as the tree has it. The operations that both `fixed.rs` have are the same, as is
the `Date` API; a definition that stands for both is mapped to one file.

## 3. Runs

| run | question | bounds, and why they are enough |
|---|---|---|
| `numbers` | do results stay in range, and round half to even? do typed functions and interpreted rule agree on precursors, and how far do errors add up? | `SCALE` 6, `MAX` 31: every pair of operands, so that all ties, signs and overflows of that width occur, and a list of seven supplies can overflow by its sum alone; negative supplies, zero and negative production, both ends as direct emissions |
| `arithmetic_overflow_doc` | is a product or quotient that fits returned, as documented? | violated, see section 7 |
| `decimal` | does the streaming parser round once to the nearest, accept exactly what fits, and invert `Display`? are dates the calendar, does the governing row win, is its value marked up right? | two decimals in 12 bits; every text of up to five symbols from a dot, signs, an invalid byte and digits 0, 1, 5, 9 (below, at and above a tie), and the text of every value. About 4,600 dates (nine years with the leap and century cases, months 0 to 13 and 99, days 0 to 32 and 99, malformed shapes); ten CN codes at six dates around the ends of periods, mark-ups and scope entries, two countries; 81 tables whose rows of four, six and eight digits are absent, without a value or valued, with totals that tie, overflow under one mark-up only, or do not parse (a sign alone, the empty text) |
| `decimal_overflow_doc` | is a text refused only when its integer part is out of range, as documented? | violated, see section 7 |
| `evaluator` | does the interpreter compute the meaning of a rule, with records scoped as the loops are, and end? do the aluminium rules agree with the functions? | every binary operation over every pair of leaves of every type, unary operations, selects, loops in loops with failing and overflowing terms, table look-ups with ties, empty and non-string cells, malformed rules and several outputs: about 1,600 rules on five invocations; the three aluminium rules on inputs whose products tie, overflow at different operations and divide by zero |
| `invocation` | do only well-typed inputs reach a rule, does a bundle admit what it parses, are all record types resolved at load? | four releases that retype an input, widen a record, drop a rule or its inputs, four that are refused; some 330 documents with every leaf, absent, unknown and out-of-range members, list items of every shape; 16 built invocations; any sequence of calls |
| `bundles` | does verification accept only published files, and every honest opening? do equal roots mean equal files? does a walk publish what is not excluded, and only that? do the bytes the guest commits implement `Prover`, and does it commit on a sufficient witness? | bundles of one to five files (every shape of an unbalanced tree up to depth three), one nested path; every combination of path, content, index, size up to and beyond the width, each proof shortened, extended or with one sibling replaced. Some 380 lists of up to two files in every spelling of separators and line breaks, compared pairwise. 32 trees of nested directories, links, names that begin alike, hold a backslash or are not UTF-8, under six lists of exclusions, read in every order with a failure at every call. For the guest: two releases with a shared file, every witness of up to three openings in any order, respelled and misattributed ones: a mix of releases, duplicates and missing files all occur; contexts whose fields, run together, would be equal |
| `openings_canonical_doc` | are non-canonical paths refused, as documented? | violated, see section 7 |
| `prove_aws` | is the instance terminated on every exit, does success mean measured, does the script end? | loops of three and four turns, two faults: the second fault covers one in the trap after one before it; every interleaving with the cloud |
| `prove_aws_leak` | is it terminated whenever the script exits, as documented? | violated, see section 7 |
| `scanner` | are the comments and fences found those of a lexer of the whole file, does a passing check mean that every file was read and every comment it can judge reported, does the recursion end? | every line of up to four symbols from eight (comment markers, literals, raw strings, an escape); every file of up to three of fourteen lines that open, close or hide a comment or a fence; every shape of comment the policy calls code; every pair of seven lines with hash comments; every repository of up to three files, unreadable and uncovered ones and ones that end in an open comment or fence included |
| `scanner_joined_doc` | are markers in comments rejected, as documented? | violated, see section 7; one line of two comments |

`numbers` and `bundles` each check two specifications that share their
constants, `ArithmeticSpec` and the `Spec` of `Precursors`, `WalkSpec` and the
`Spec` of `Guest`: in a behaviour one of the two takes steps and the other stays in its initial state
(`NumbersSpec`, `BundlesSpec`), so every behaviour of either is checked and none
that is not one of both.

Deadlock checking is off where the system stops by itself: a text is parsed,
a rule evaluated, an opening verified, a guest halted, a script exited once.

## 4. Fairness

- `Evaluator`: `WF_vars(Next)`. `eval` runs in the calling thread; nothing else
  is needed for it to go on, and each of its steps is deterministic.
- `Guest`: `WF_vars(GuestStep)`. The executor runs the guest until it halts or
  aborts. The host has no fairness: it may never finish a witness.
- `ProveAws`: `WF_vars(ScriptStep)`. The shell executes the next command once
  the last has returned, and every AWS CLI call returns in the end. No fairness for EC2, the
  agent or the remote command: the script has to end without them.

The other specifications are checked without fairness. That the scanner's
recursion ends is the action property `ConsumesTheLine`: a step within a line
leaves less of it.

## 5. What is proved

From `FixedAssumption` (an even scale of at least 2 that is at most `MAX`, and
range ends less than half a unit beyond a whole number; true of 10^6 and
2^127 - 1, and evaluated by TLC in every run) and `OperandsAssumption`:

- `ArithmeticTypeCorrect`, `ArithmeticRounds`: the two
  invariants of `Arithmetic` for every width and scale. `ArithmeticTypeOK` is
  inductive as it stands. `FixedProofs` has the lemmas: the quotient of two
  integers rounded half to even is unique and bounded by the operand's
  magnitude, so a product or quotient whose checked integer is in range has
  its rounded value in range, and the second range check never rejects.

From the same and `PrecursorAssumption`:

- `PrecursorsTypeCorrect`, `PrecursorsAgree`, `PrecursorsNeverTwoValues`,
  `PrecursorsAttributionAccurate`, `PrecursorsAverageAccurate`, for lists of
  any length. Only the first, `TypeOK`, is inductive as it stands. `Inv` adds: `SumsInv`, while neither loop has
  failed the plain accumulator is the direct emissions plus the rule's sum;
  `OrderInv`, as long as no input was negative, the rule's sum fails no earlier
  than the plain loop, is not negative, and a plain loop that failed alone did
  so because the rule's last addition will fail too; `AccuracyInv`, the drift
  from the exact sum is at most half a unit per supply; `ResultInv`, the
  results are those of the accumulators. `OrderInv` is the reason for the
  condition: with negative inputs the two orders of addition overflow apart,
  and only `NeverTwoValues` remains.

From `FixedAssumption`, `DecimalAssumption` (`SCALE` is ten to the number of
decimals), `DeclarationsAssumption` (codes and days of a request are any texts,
the tables list codes of four, six or eight digits), `ScopeAssumption` (the
entries list such codes, each once, windows of real days, none from before the
definitive period) and `MarkupAssumption` (a per cent of `SCALE` is whole, and
the largest mark-up fits), for `DefaultsSpec`:

- `ParserRounds`, `ParserAccepts`, `ParserReadsDisplay`, for texts of any length
  and every width. `DefaultsInvariant` is the inductive invariant of the whole.
  Its part for the parser, `ParserInv`, says that what remains is a suffix of the text and
  that the parser's fields are what the symbols before it amount to: the digits
  of the integer part as one number, those of the first decimals as another,
  the next digit, whether any later digit is not zero, and the parity. When it
  is done the outcome is a verdict on the whole text. The integer that
  the digits write is defined by recursion (`Written`), and so are powers of
  ten; both are first shown to satisfy their equations, and one symbol more is
  one step of them. That a tie is seen although digits are forgotten is then
  arithmetic: the rest of the digits decides only between nothing and
  something. `ParserReadsDisplay` adds that padded digits write their number.
- `DatesFollowTheCalendar`: the calendar is a count of days, so order by fields
  is order by days because a month has at most 31 days and a count is monotone.
- `ClassifiesByTheMostSpecific`, `SelectsByTheMostSpecific`,
  `AppliesTheMarkedUpText`, for any tables, entries, texts and scale. The other parts of the
  invariant say that date, entry, period and selection are what their
  operations return for the request, and that the text being parsed is the
  selected row's. The lemmas: the first row with the longest prefix that `Best`
  finds is the governing one and the only one (`BestGoverns`, `ValuedIs`); the
  interpreter's loop over scores keeps the first of the longest
  (`SelectsTheLongest`), and the score of two predicates is the length of the
  code where the country is the same (`LookUpScore`); two roundings and a sum
  of percents stay within the bound (`ProductBound`). That entries have
  different codes is needed: of two with one code the first would be taken,
  in force or not.

From `SchemasAssumption` (names are natural numbers, kinds are those of the enum):

- `InvocationAdmittedIsWellTyped`, `InvocationParsedIsAdmitted`, for every set
  of releases, documents and built invocations. Neither is inductive: a request
  is parsed in one step and checked in a later one, possibly by another bundle.
  `Inv` says that every bundle which has parsed the invocation at hand would
  admit it, and that the last evaluation reported what the check says. The
  lemmas follow the calls: a coerced field, record, list and input passes the
  check of that level, and what passes has the declared shape.

From that and `ListsAssumption` (arrays are sequences):

- `InvocationRecordTypesResolve`. `ResolvedInv` adds that the bundle in use was
  validated and that lists are sequences. A loop reports its first error, a
  minimum that exists because names and places are natural numbers; then no
  error of coercion or of `check_inputs`, level by level, is `UnknownType`.

From these, `FixedAssumption` and `BuiltAssumption` (a caller's own invocation
holds values of the enum `Value`, its scalars in range):

- `InvocationTypeCorrect`: every scalar of an invocation is in range and every
  failing call returns an error of `RuleError`. The first failing call decides,
  so each level's errors are those of the level below and its own.

From `FixedAssumption`, `RulesAssumption` (operands come before the expression
they are part of, and an expression has the operands its variant has: what a
tree of the enum `Expr` is), `InputsAssumption` (inputs are of the declared
kinds) and `TablesAssumption` (a table is a list of rows whose texts are
sequences; reading one fails with errors of its own):

- `EvaluatorTypeCorrect`, `ScopesAreLoops`, `ValidatedRulesAreWellFormed`, for
  any rules, loops nested to any depth and lists of any length. Each follows
  from one `Inv` of four parts. `Accepted`: under evaluation a rule has passed
  validation. `CallsOk`: every frame is at a node that validation found well
  formed, the values it has collected are those its kind of node goes on with
  (the first operand of a loop is a list, those of arithmetic are scalars), the
  total of a sum stays in range and that of a count is at most the number of
  terms seen, and what a call hands back is no error of a malformed
  expression. `OutputsOk`: what is recorded are values. `ScopeOk`: there is
  one element for each open loop, and the element at the rank of a loop among
  the open ones is the record of the term it is at. A loop pushes and pops at
  the top of both stacks, so the ranks of the others do not change; an error
  unwinds one loop at a time. That the children of a well-formed node are well
  formed needs the equation of `ShapesOk`; it is shown to have a solution, the
  largest set of nodes closed under it, so no induction over the expression is
  needed.
- `EvaluatesTheMeaning`: for any rule, invocation and tables, the scalar or the
  error the interpreter ends with is that of `RuleMeaning`. An outcome says
  nothing of the frames that led to it, so the inductive invariant `Meant` (on
  top of `Inv`) says it of every frame. `CallsMeant`: the values a frame has
  collected are the meanings of the children it asked for so far (`Asking`
  names the child it waits for, `Answer` its meaning), each in the scope that
  the loops below the frame have bound (`ScopeAt`), the total of a loop is that
  of the terms seen (`TotalMeant`), and every frame is the child its caller
  asked for. `ResultMeant`: a result on its way back is the meaning of that
  child. `OutputsMeant`: what is recorded are the meanings of the outputs. One
  lemma per kind of node says that what the frame does next is what
  `RuleMeaning` says of the node: `EagerMeans` for operands read in full,
  `LogicMeans` and `SelectMeans` for those that may be left out,
  `SelectsTheLongestMatch` for tables, `LoopDone` and `LoopStops` for sums and
  counts, `ChildFails` for an error on its way up. `Meanings` recurses over the
  nodes, operands first; `NodeMeaning` shows that it satisfies its equation,
  by `PrimitiveRecursion` of `FixedProofs`. The meaning used to be a recursive
  operator, about which nothing can be proved; it was restated for this.

From these, `ThousandAssumption` (1000 is in range), `RoutesAssumption` (a route
is invoked with the inputs `rules.json` declares for it, which `check_inputs`
requires) and `GwpAssumption` (the table of potentials has a row for each of the
two gases, whose number parses):

- `AluminiumAgrees`: for any inputs, any lists of supplies and any table, a
  primary rule ends with the four outputs or the error of its function, and the
  secondary rule with the output of its function where both succeed. By
  `EvaluatesTheMeaning` it is enough to compare the function with the meaning
  of the rule's nodes: each is a `Combined` number, an operation or the error
  of the first operand that failed (`InputWorth`, `PairWorth`, `GwpWorth`).
  `GasesMean` gives those of the nodes the primary rules share, `SeePrimaryIs`
  the same numbers for the function, which multiplies from the other side and
  stops earlier; `PrimaryMeans` picks the first error among four outputs that
  repeat one another. `GwpWorth` needs that the longest match without prefixes
  is the first row (`GwpMatch`). In the secondary route the function adds the
  contributions to the direct emissions and the rule to zero: `SupplyMeans`
  evaluates the body of the sum in the scope of a supply, and `SameSum` shows
  by induction on the list that the two totals differ by the direct emissions
  as long as neither fails. The invariant adds `Finished`: a rule that passes
  validation is not refused, and it ends with a value only after all outputs.

From `UsizeAssumption` (a `usize` has a positive number of bits) and trees of at most
`USIZE \div 2` leaves, for which `next_power_of_two` does not wrap:

- `ProofsAreSound`: whatever index, size and siblings an opening carries, a leaf
  that folds to the root of a tree is one of its leaves. `HonestProofsVerify`
  and `HonestProofsAreShort`: the proof built for a leaf leads back to the root
  and has at most log2 n siblings, rounded up. `RootsIdentifyLeaves`: two
  trees with the same root have the same leaves. The recursion of the model is over
  slices and over the length of a proof; `TreeRootDef`, `BuildProofDef` and
  `FoldDef` first show that each of these functions satisfies its equation,
  since a split leaves two shorter slices that are not empty, and `TwoToDef` the
  same of the powers of two. Then the theorems go by strong induction on the
  number of leaves. The model had to be corrected
  for this: its recursion used to reach for empty slices, whose value TLC never
  needed, and was not well founded.

From that and `OpeningsAssumption` (the lists hold typed files and are at most
`USIZE \div 2` long, as every vector in Rust is; what arrives holds bytes and
numbers), for `OpeningsSpec`:

- `AcceptedAreFiles`, `HonestAreAccepted`, `ProofsStayShort`, `RootsIdentifyFiles`:
  the four properties of `Openings` for every set of lists, paths in any
  spelling, contents with any line breaks, and any alteration on the way. They
  follow from `OpeningsInvariant`: the root, the opening and the verdict are
  those of the list offered, and what arrives can be read. None of the
  properties is inductive by itself: a verdict is about what was published two
  steps before. `AcceptedAreFiles` is `ProofsAreSound` and
  a leaf determines its file; `HonestAreAccepted` is `HonestProofsVerify`, with
  the file found again at the place where `open_file` looks for its canonical
  path. `RootsIdentifyFiles` needs most: that the canonical spelling of a path
  is one-to-one with its parts (`PartsIdentify`, over `Parts` which cuts a path
  without the code's canonicalisation), that a normalised content is the text
  and normalising it changes nothing (`TextIsNormalized`), that sorting yields
  one list for one set of entries (`SortedFiles`, `FamilyWithDuplicate`: two
  spellings of one path are refused), and `RootsIdentifyLeaves`. `Parts` is a
  recursive function over a path; like the trees it is first shown to
  satisfy its equation, and the facts about it go by induction on a prefix.

From `UsizeAssumption` and `GuestAssumption` (the published lists are canonical, in order,
not empty and at most `USIZE \div 2` long; contexts and openings hold bytes):

- `RootIdentifiesBundle`, two published bundles with the same root are the same
  files; `PublishedFilesOpen`, the opening that `open_file` returns verifies.
- `GuestInvariant`, `GuestEvaluatesPublishedFiles`, `GuestImplementsProver`.
  The inductive `Inv` is `WitnessType`, what the host can have written;
  `Verified`, every opening read so far verifies against the root of the
  witness; and `Progress`, for each statement of `main`, what the bundle, the
  outcome and the journal are then computed from. Then, by `ProofsAreSound`,
  every opening read is a file of the one published bundle with that root, a
  bundle built of some of its files answers as the whole does or fails, and so
  the journal is authentic. The refinement maps the bytes committed to the
  journal they decode to; the map is a function because `CanonicalBytes` is injective
  (`CanonicalBytesInjective`: every field is preceded by its length), and a
  step is the abstract `Commit` or a stutter.

From no assumption on the bounds:

- `ProveAwsLeaksOnlyByLostCalls`, `ProveAwsSuccessMeansMeasured`, for any number
  of turns and faults. Both need `Inv`: `MeasuredInv`, a final status is the remote command's, which
  keeps it, and the exit code zero was taken from it after the output;
  `LeakInv`, an instance exists only after its launch and is then known or its
  answer was lost.

Only model-checked, and why. Out of the prover's reach: the liveness properties
(`EvaluationEnds`, `SufficientWitnessCommits`, `ScriptEnds`). Not proved: the lexer
beside the scanner, a second recursive reading of a whole file; the directory walk, with which `Openings` is
composed in its run and which hands it a list as any other caller does; the
scanner's `ConsumesTheLine` and `CleanWhenPassed`.

## 6. Properties, by component

- Arithmetic: range, nearest-even rounding.
- Defaults: dates are the calendar in both implementations; a scope entry is
  the most specific one, in force; the governing row is the most specific of
  the country, then of the others, and the interpreter's look-up selects the
  same; the value applied is the row's decimal with its mark-up.
- Aluminium: rules and typed functions agree in all outputs and in the error.
- Decimal: nearest even from a stream that forgets digits; accepted exactly
  when in range; `Display` is inverted by `from_str`.
- Precursors: agreement in value and error; a bound on the rounding error.
- Evaluator: the outcome is the rule's lexical meaning, value or error; the
  records in scope are those of the open loops, on errors too; validated rules
  never meet a shape error; every evaluation ends.
- Invocations: inputs that reach a rule have the declared types, whoever built
  them; what a bundle parses it admits; record types are resolved at load.
- Directory walk: what is collected is every file that no pattern covers,
  each once, whatever the order of `read_dir` and whatever call fails.
- Scanner: the comments and fences are those of a lexer; a check that passes
  has read every covered file and reported every comment it can judge, with
  nothing carried over from the files before; a line is consumed.
- Identity: equal roots mean equal files; accepted openings are published
  files; honest ones are accepted; proofs are logarithmic.
- Guest: implements `Prover`; evaluates only published files and never a mix;
  commits on a sufficient witness.
- Script: an instance leaks only by a lost call; exit 0 means measured; the
  script ends.

## 7. Disagreements with the documentation

- `fixed.rs:249-250` says `from_str` returns `Overflow` when the integer part
  leaves the range; the smallest `Fixed`, whose integer part fits and whose
  text `Display` prints, is refused too (`decimal_overflow_doc`).
- `fixed.rs:79-80` and `91-92` say `try_mul` and `try_div` return `Overflow` when
  the product or the quotient leaves the range; the code checks the raw product
  and the scaled numerator, `SCALE` times as large, and so refuses results that
  fit, such as the largest value times or divided by one
  (`arithmetic_overflow_doc`). A test expects the latter.
- `value.rs:119-122` says `coerce` returns `InvalidJson` for a JSON number where a
  decimal string is required; it returns `TypeMismatch`, which a test expects
  (`value.rs:277-286`). `CoerceScalar` is the code; no run shows this.
- `CONVENTIONS.md:39-40` says the markers are rejected by the check. The comments
  of one line are run together, so that in `/*x*//*TODO*/` it sees no word
  of the list (`scanner_joined_doc`); and it knows neither character literals
  nor strings that span lines, so that a quote in one hides the comment behind
  it. No run shows the latter, and no property is about such lines (section 8).
- `bundle.rs:423-425` says `verify_opening` refuses a path that is not
  canonical; it makes the path canonical itself, so a path with `\` is
  accepted (`openings_canonical_doc`).
- `prove-aws.sh:5-7` says the instance is terminated when the script exits; one
  lost answer of `run-instances`, or one failed `terminate-instances`, leaves
  it running (`prove_aws_leak`).

## 8. Plan

1. Done: all modules of section 2 and the theorems of section 5.
2. To prove next: `ConsumesTheLine` and `CleanWhenPassed` of `Scanner`; that a
   walk offers `Openings` a list of distinct files.

Because of the literals named in section 7, `CommentsAreTheLexers` compares a
line with the lexer only where no literal was open at the end of a line before
and no character literal on it is a quote; of several comments on a line it compares the
letters, of a single one the text. `CleanWhenPassed` is about the lines of a single comment among
these, and in files with hash comments about the lines without quotes.
What looks like code is the policy's own word for it (`LooksLikeCode`), so no
property says how much commented-out code it recognises. After a fence that is never closed the rest of
a file is exempt for the scanner and for the lexer alike.

Within what is modelled, three more things are visible that no property forbids,
since neither code nor documents promise otherwise. `Walk`: on Unix a file whose name holds a backslash is not excluded by a
pattern below which its canonical path lies, and an exact pattern that names a
directory prunes everything below it. `Openings`: index and size of an opening
are not bound by the root; nothing reads them after verification. `ProveAws`: after
`Kill` nothing terminates the instance; the script's promise is about its exit.

Not modelled, and why: sector stubs have no behaviour; `parameters.rs` is the
decoding of embedded JSON (the rows it returns are modelled); the extraction script, CI and the paper are outside
the program; SHA-256 and RISC Zero's proving are external and assumed.
