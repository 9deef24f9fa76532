----------------------------- MODULE MCBundles ------------------------------
(* Walk and Guest for TLC, one or the other in a behaviour: a step of one  *)
(* leaves the other where it started, so that every behaviour is one of    *)
(* WalkSpec and one of Spec.  Bytes 97 to 101 are the letters a to e.      *)
EXTENDS Walk, Guest

-----------------------------------------------------------------------------
(* What is published, opened and altered on the way.                       *)

FileOf(path, content) == [path |-> path, content |-> content]

(* a, b, c, ... with contents that differ. *)
Flat(n) == [i \in 1 .. n |-> FileOf(<<96 + i>>, <<i>>)]

Nested == <<97, SLASH, 98>>
NestedBack == <<97, BACKSLASH, 98>>

(* Bundles of one to five files in path order, one of them nested: their   *)
(* openings are altered on the way.                                        *)
TreeLists == {Flat(n) : n \in 1 .. 5} \cup {<<FileOf(Nested, <<2>>), FileOf(<<98>>, <<1>>)>>}

TreeNames == {<<96 + i>> : i \in 1 .. 5} \cup {Nested, NestedBack, <<DOT>>}

(* Lists of up to two files in any order, with every spelling of a path    *)
(* and of a line break, duplicates and malformed files included: their     *)
(* openings arrive as they were sent.                                      *)
Spellings == {<<97>>, Nested, NestedBack, <<97, DOT, 98>>, <<SLASH, 97>>, <<97, SLASH>>,
              <<97, SLASH, DOT, DOT>>, <<DOT, BACKSLASH, 97>>, <<>>}
Texts == {<<>>, <<CR>>, <<LF>>, <<CR, LF>>, <<LF, CR>>, <<CR, CR, LF>>, <<LF, LF>>, <<1, NOT_UTF8>>}
SpelledLists ==
  {<<>>} \cup {<<FileOf(p, c)>> : p \in Spellings, c \in Texts}
    \cup {<<FileOf(p, c), FileOf(q, <<LF>>)>> : p \in Spellings, c \in {<<CR, LF>>, <<CR>>}, q \in Spellings}
    \cup {<<FileOf(q, <<CR>>), FileOf(p, <<LF>>)>> : p \in {<<97>>, Nested}, q \in Spellings}

ModelLists == TreeLists \cup SpelledLists

ModelChannel(list) ==
  IF list \in TreeLists
    THEN [asked |-> TreeNames, paths |-> TreeNames, contents |-> {<<1>>, <<2>>},
          sizes |-> 0 .. 6 \cup {15, 16}]
    ELSE [asked |-> Spellings, paths |-> {}, contents |-> {}, sizes |-> {}]

(* Directories: a, with a file and a directory in it, names that begin or  *)
(* continue it, a name with a backslash or that is not UTF-8, and a link.  *)
Node(kind, content) == [kind |-> kind, content |-> content]

Entries ==
  [p \in {<<97>>, Nested, <<97, SLASH, 97>>, <<97, SLASH, 97, SLASH, 98>>,
          <<97, 98>>, NestedBack, <<98>>, <<99>>, <<NOT_UTF8>>} |->
     CASE p \in {<<97>>, <<97, SLASH, 97>>} -> Node("directory", <<>>)
       [] p = <<99>> -> Node("other", <<>>)
       [] OTHER -> Node("file", p)]

Trees == {Restrict(Entries, {p \in DOMAIN Entries :
                               \A e \in gone : ~IsPrefix(e, p) \/ (Len(p) > Len(e) /\ p[Len(e) + 1] # SLASH)}) :
            gone \in SUBSET {<<97>>, <<97, SLASH, 97>>, <<97, 98>>, NestedBack, <<NOT_UTF8>>}}

Deep(path) == path \o DeepSuffix
Exclusions == {<<>>, <<Deep(<<97>>)>>, << <<97>> >>, <<Deep(<<97, SLASH, 97>>), <<97, 98>> >>,
               << <<97, SLASH, 97>>, <<98>>, <<NOT_UTF8>> >>, <<Deep(<<>>), DeepSuffix, <<42, 42>> >>}

NoDirectories == {}

ModelDirectories ==
  [metadata : {Ok(e) : e \in Exclusions}, tree : Trees]
    \cup {[metadata |-> Err("Metadata"), tree |-> Entries]}

-----------------------------------------------------------------------------
(* What the guest is given: two releases of a bundle of rules.json and two *)
(* tables.                                                                 *)

G == <<103>>   (* table names *)
H == <<104>>

TablePath(name) == <<PARAMETERS, SLASH>> \o name

Release(rules, g, h) ==
  <<[path |-> TablePath(G), content |-> g], [path |-> TablePath(H), content |-> h],
    [path |-> RULES, content |-> rules]>>

R1 == <<1>>
R2 == <<2>>
G1 == <<3>>
G2 == <<4>>
H1 == <<5>>

ModelBundles == {Release(R1, G1, H1), Release(R2, G2, H1)}

(* The second release renames a rule and makes another read both tables. *)
ModelPrograms ==
  R1 :> ("slope" :> <<G>> @@ "secondary" :> <<>>)
    @@ R2 :> ("slope" :> <<G, H>> @@ "overvoltage" :> <<H>>)

(* Contexts whose fields, one after the other, are the same bytes; a byte  *)
(* may be the length of a field.                                           *)
ContextOf(sector, route, cn_code, period) ==
  [sector |-> sector, route |-> route, cn_code |-> cn_code, period |-> period]
Contexts ==
  {ContextOf(<<1>>, <<1, 1>>, <<>>, <<2>>), ContextOf(<<1, 1>>, <<1>>, <<2>>, <<>>), ContextOf(<<>>, <<1, 1, 1>>, <<2>>, <<>>)}

ModelInvocations ==
  [rule : {"slope"}, context : Contexts, well_formed : {TRUE}]
    \cup [rule : {"secondary", "overvoltage"}, context : {ContextOf(<<1>>, <<2>>, <<1>>, <<1>>)}, well_formed : {TRUE}]
    \cup [rule : {"slope"}, context : {ContextOf(<<1>>, <<2>>, <<1>>, <<1>>)}, well_formed : {FALSE}]

Honest ==
  {OpenFile(files, path).val :
     <<files, path>> \in ModelBundles \X {RULES, TablePath(G), TablePath(H)}}

Respelled ==
  {[o EXCEPT !.path = [i \in DOMAIN @ |-> IF @[i] = SLASH THEN BACKSLASH ELSE @[i]]] :
     o \in {p \in Honest : p.path = TablePath(G)}}

(* A table under the other name, another content, another leaf's proof. *)
Misattributed ==
  {[o EXCEPT !.path = TablePath(H)] : o \in {p \in Honest : p.content = G2}}
  \cup {[o EXCEPT !.content = G2] : o \in {p \in Honest : p.content = G1}}
  \cup {[o EXCEPT !.proof = <<>>] : o \in {p \in Honest : p.content = R1}}

ModelCarried == Honest \cup Respelled \cup Misattributed

-----------------------------------------------------------------------------

PublisherRests ==
  directory = NoDirectory /\ offered = <<>> /\ published = None
GuestRests ==
  pc = "host" /\ witness.openings = <<>> /\ witness.root = CHOOSE root \in Roots : TRUE

BundlesInit == WalkInit /\ Init /\ (PublisherRests \/ GuestRests)

BundlesNext ==
  \/ GuestRests /\ WalkNext /\ UNCHANGED vars
  \/ PublisherRests /\ Next /\ UNCHANGED <<openingVars, walkVars>>

(* The guest only starts while the publisher rests: the fairness of Spec.  *)
BundlesSpec ==
  /\ BundlesInit
  /\ [][BundlesNext]_<<openingVars, walkVars, vars>>
  /\ WF_vars(GuestStep)

=============================================================================
