------------------------------- MODULE Guest --------------------------------
(***************************************************************************)
(* The zkVM guest (kaimeter-guest, guest/src/main.rs) and the host that    *)
(* writes its witness: the root, openings, and an invocation.  The guest   *)
(* verifies each opening as it reads it, builds a rule bundle from the     *)
(* files opened, evaluates one invocation and commits the journal; any     *)
(* unwrap of an error aborts it.                                           *)
(*                                                                         *)
(* A rule program is abstracted to the tables it reads, in order; its      *)
(* output to the rule and the contents it read, so that two outputs are    *)
(* equal only if the same bytes produced them.  The parser of rules.json   *)
(* is the constant Programs.                                               *)
(***************************************************************************)
EXTENDS Merkle, FiniteSetsExt

CONSTANTS
  Bundles,      (* canonical file lists that were published                *)
  Programs,     (* valid text of rules.json |-> rule |-> tables it reads   *)
  Invocations,  (* invocation records: rule, context, well_formed          *)
  Carried,      (* openings a witness may carry                            *)
  MaxOpenings   (* bound on the openings of one witness                    *)

VARIABLES
  witness,   (* what the host wrote: root, openings, invocation            *)
  pc,        (* the statement of main the guest is at                      *)
  openings,  (* the vector of verified openings                            *)
  bundle,    (* RuleBundle: rules text and tables, once built              *)
  outcome,   (* the output, once evaluated                                 *)
  journal    (* the bytes committed; none before                           *)

vars == <<witness, pc, openings, bundle, outcome, journal>>

NoJournal == <<>>

-----------------------------------------------------------------------------
(* RuleBundle (kaimeter-interpreter, src/rule.rs).  Paths are compared and *)
(* split here as they are spelled, not in canonical form.                  *)

RULES == <<114>>        (* "rules.json"                       *)
PARAMETERS == 112       (* the part "parameters", as one byte *)

IsTablePath(path) ==
  Len(path) > 2 /\ path[1] = PARAMETERS /\ path[2] = SLASH
    /\ SLASH \notin ToSet(SubSeq(path, 3, Len(path)))

TableName(path) == SubSeq(path, 3, Len(path))

(* BTreeMap::from_iter: of two files of one name the later one stays. *)
CollectTables(files) ==
  LET tables == {i \in DOMAIN files : IsTablePath(files[i].path)}
  IN  [name \in {TableName(files[i].path) : i \in tables} |->
         files[Max({i \in tables : TableName(files[i].path) = name})].content]

(* find: of two files of one path the first one is read. *)
FromFiles(files) ==
  LET rules == {i \in DOMAIN files : files[i].path = RULES}
  IN  IF rules = {} THEN Err("MissingRulesFile")
      ELSE LET text == files[Min(rules)].content
           IN  IF text \in DOMAIN Programs
                 THEN Ok([rules |-> text, tables |-> CollectTables(files)])
                 ELSE Err("InvalidSchema")

ParseInvocation(rules, invocation) ==
  IF ~invocation.well_formed THEN Err("Invocation")
  ELSE IF invocation.rule \notin DOMAIN Programs[rules] THEN Err("UnknownRule")
       ELSE Ok(invocation)

(* The first table a rule cannot find ends its evaluation. *)
Evaluate(b, invocation) ==
  LET reads == Programs[b.rules][invocation.rule]
  IN  IF ToSet(reads) \subseteq DOMAIN b.tables
        THEN Ok([rules |-> b.rules, rule |-> invocation.rule,
                 cells |-> [i \in DOMAIN reads |-> b.tables[reads[i]]]])
        ELSE Err("UnknownTable")

(* The journal binds root, output and context; not the rule's name. *)
Journal(root, output, context) == [root |-> root, output |-> output, context |-> context]

(* Mutant: the fields follow each other without their lengths. *)
CanonicalBytesRunTogether(j) ==
  <<j.root, j.output>> \o j.context.sector \o j.context.route
    \o j.context.cn_code \o j.context.period

Field(bytes) == <<Len(bytes)>> \o bytes

(* canonical_bytes: root and output, of fixed width, are one symbol each. *)
CanonicalBytes(j) ==
  <<j.root, j.output>> \o (Field(j.context.sector) \o (Field(j.context.route)
    \o (Field(j.context.cn_code) \o Field(j.context.period))))

(* The computation as a native caller runs it, on a whole file list. *)
NativeJournal(files, invocation) ==
  AndThen(FromFiles(files), LAMBDA b :
  AndThen(ParseInvocation(b.rules, invocation), LAMBDA parsed :
  AndThen(Evaluate(b, parsed), LAMBDA output :
    Ok(Journal(BundleHash(files).val, output, parsed.context)))))

Context == [sector : Seq(Nat), route : Seq(Nat), cn_code : Seq(Nat), period : Seq(Nat)]

(* A bundle has fewer files than half the sizes there are.  A table is     *)
(* named in rules.json as the file is stored: without a "\".               *)
ASSUME GuestAssumption ==
  /\ MaxOpenings \in Nat
  /\ \A files \in Bundles :
       files \in Seq(File) /\ SortedEntries(files) = Ok(files) /\ Len(files) <= USIZE \div 2
  /\ \A text \in DOMAIN Programs : \A rule \in DOMAIN Programs[text] :
       \A name \in ToSet(Programs[text][rule]) : BACKSLASH \notin ToSet(name)
  /\ \A invocation \in Invocations : invocation.context \in Context
  /\ \A o \in Carried :
       /\ o.path \in Seq(Nat) /\ o.content \in Seq(Nat)
       /\ o.index \in Nat /\ o.size \in Nat /\ Len(o.proof) \in Nat

-----------------------------------------------------------------------------

Roots == {BundleHash(files).val : files \in Bundles}

Init ==
  /\ \E root \in Roots :
       witness = [root |-> root, openings |-> <<>>, invocation |-> None]
  /\ pc = "host"
  /\ openings = <<>>
  /\ bundle = None /\ outcome = None /\ journal = NoJournal

(* Host: ExecutorEnv::builder().write(opening). *)
WriteOpening(o) ==
  /\ pc = "host" /\ Len(witness.openings) < MaxOpenings
  /\ witness' = [witness EXCEPT !.openings = Append(@, o)]
  /\ UNCHANGED <<pc, openings, bundle, outcome, journal>>

(* Host: writes the invocation and starts the guest. *)
Execute(invocation) ==
  /\ pc = "host"
  /\ witness' = [witness EXCEPT !.invocation = invocation]
  /\ pc' = "openings"
  /\ UNCHANGED <<openings, bundle, outcome, journal>>

NextOpening == witness.openings[Len(openings) + 1]

(* Mutant: an opening that does not verify is kept. *)
ReadOpeningUnverified ==
  /\ pc = "openings" /\ Len(openings) < Len(witness.openings)
  /\ openings' = Append(openings, NextOpening)
  /\ UNCHANGED <<witness, pc, bundle, outcome, journal>>

(* Mutant: openings must come in the order of their leaves. *)
ReadOpeningInOrder ==
  /\ pc = "openings" /\ Len(openings) < Len(witness.openings)
  /\ IF /\ VerifyOpening(witness.root, NextOpening).ok
        /\ \A i \in DOMAIN openings : openings[i].index <= NextOpening.index
       THEN openings' = Append(openings, NextOpening) /\ UNCHANGED pc
       ELSE pc' = "aborted" /\ UNCHANGED openings
  /\ UNCHANGED <<witness, bundle, outcome, journal>>

(* One turn of the loop: read an opening, verify it, keep it. *)
ReadOpening ==
  /\ pc = "openings" /\ Len(openings) < Len(witness.openings)
  /\ IF VerifyOpening(witness.root, NextOpening).ok
       THEN openings' = Append(openings, NextOpening) /\ UNCHANGED pc
       ELSE pc' = "aborted" /\ UNCHANGED openings
  /\ UNCHANGED <<witness, bundle, outcome, journal>>

Files == [i \in DOMAIN openings |-> [path |-> openings[i].path, content |-> openings[i].content]]

BuildBundle ==
  /\ pc = "openings" /\ Len(openings) = Len(witness.openings)
  /\ LET built == FromFiles(Files)
     IN  IF built.ok THEN bundle' = built.val /\ pc' = "bundle"
                     ELSE pc' = "aborted" /\ UNCHANGED bundle
  /\ UNCHANGED <<witness, openings, outcome, journal>>

EvaluateInvocation ==
  /\ pc = "bundle"
  /\ LET output == AndThen(ParseInvocation(bundle.rules, witness.invocation),
                           LAMBDA parsed : Evaluate(bundle, parsed))
     IN  IF output.ok THEN outcome' = output.val /\ pc' = "outcome"
                      ELSE pc' = "aborted" /\ UNCHANGED outcome
  /\ UNCHANGED <<witness, openings, bundle, journal>>

CommitJournal ==
  /\ pc = "outcome"
  /\ journal' = CanonicalBytes(Journal(witness.root, outcome, witness.invocation.context))
  /\ pc' = "committed"
  /\ UNCHANGED <<witness, openings, bundle, outcome>>

GuestStep == ReadOpening \/ BuildBundle \/ EvaluateInvocation \/ CommitJournal

Next ==
  \/ \E o \in Carried : WriteOpening(o)
  \/ \E invocation \in Invocations : Execute(invocation)
  \/ ReadOpening
  \/ BuildBundle
  \/ EvaluateInvocation
  \/ CommitJournal

(* The executor runs the guest until it halts; a host may never start it. *)
Spec == Init /\ [][Next]_vars /\ WF_vars(GuestStep)

-----------------------------------------------------------------------------

Published == CHOOSE files \in Bundles : BundleHash(files).val = witness.root

(***************************************************************************)
(* Only authenticated bytes are evaluated: once built, the guest's bundle  *)
(* is a part of the published one, the same rules and, under each table a  *)
(* rule can name, the same content; never a mix of two bundles, whichever  *)
(* duplicates and spellings the witness holds (main.rs:3-8, 38-51).        *)
(***************************************************************************)
EvaluatesPublishedFiles ==
  bundle # None =>
    LET whole == FromFiles(Published)
    IN  /\ whole.ok /\ bundle.rules = whole.val.rules
        /\ \A name \in DOMAIN bundle.tables : BACKSLASH \notin ToSet(name) =>
             /\ name \in DOMAIN whole.val.tables
             /\ bundle.tables[name] = whole.val.tables[name]

AuthenticJournals ==
  {NativeJournal(p[1], p[2]).val : p \in
     {p \in Bundles \X Invocations : NativeJournal(p[1], p[2]).ok}}

(* What a verifier reads off the committed bytes: the journal of which     *)
(* they are the encoding, when there is exactly one.                       *)
Decoded ==
  LET encoded == {j \in AuthenticJournals : CanonicalBytes(j) = journal}
  IN  IF journal = NoJournal THEN None
      ELSE IF Cardinality(encoded) = 1 THEN CHOOSE j \in encoded : TRUE ELSE Err("Ambiguous")

P == INSTANCE Prover WITH Authentic <- AuthenticJournals, NoJournal <- None, journal <- Decoded

(***************************************************************************)
(* The guest implements Prover: what it commits, from the opened files     *)
(* alone, is what the native evaluator computes from the whole bundle of   *)
(* the committed root, and it commits at most once.  The bytes committed   *)
(* are those of one journal only: whatever the fields of the context hold, *)
(* no other root, output or context is encoded alike (main.rs:51-55,       *)
(* journal.rs:55-70).                                                      *)
(***************************************************************************)
ImplementsProver == P!Spec

(* Every opening holds, and every file the rule reads is opened as stored. *)
Sufficient ==
  /\ \A i \in DOMAIN witness.openings : VerifyOpening(witness.root, witness.openings[i]).ok
  /\ LET opened == {witness.openings[i].path : i \in DOMAIN witness.openings}
         reads == Programs[FromFiles(Published).val.rules][witness.invocation.rule]
     IN  /\ NativeJournal(Published, witness.invocation).ok
         /\ RULES \in opened
         /\ \A name \in ToSet(reads) : <<PARAMETERS, SLASH>> \o name \in opened

(***************************************************************************)
(* A sufficient witness yields a proof: a guest that is started on valid   *)
(* openings of every file its rule reads commits, in whatever order they   *)
(* come and whatever else is opened (contract section 4).                  *)
(***************************************************************************)
SufficientWitnessCommits ==
  (pc = "openings" /\ Sufficient) ~> (journal # NoJournal)

=============================================================================
