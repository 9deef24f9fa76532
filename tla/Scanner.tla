------------------------------- MODULE Scanner -------------------------------
(***************************************************************************)
(* The comment policy check (xtask, src/scan.rs and src/comments.rs): the  *)
(* tracked files are scanned line by line for comments, and the check      *)
(* fails on a comment that carries a marker or looks like code.            *)
(*                                                                         *)
(* A line is a sequence of symbols.  A byte the scanner looks at is a      *)
(* symbol of its own; a fence, a two-byte token that is only ever compared *)
(* as a whole, a marker and a keyword are one symbol each, and "x" and "1" *)
(* stand for letters and digits.                                           *)
(***************************************************************************)
EXTENDS Integers, SequencesExt

CONSTANT Repositories  (* what git ls-files may list: sequences of files, *)
                       (* each [syntax, readable, lines]                  *)

VARIABLES
  repo,      (* the tracked files                                      *)
  file,      (* place of the file being scanned                        *)
  line,      (* place of the line being scanned                        *)
  at,        (* which call is next: file, line, rest or text           *)
  scanner,   (* Scanner: [block_depth, in_fence]                       *)
  rest,      (* what consume_line has not consumed of the line         *)
  fragments, (* the comment text found on the line so far              *)
  violations,(* Report.violations, as <<file, line, violation>>        *)
  comment,   (* history: what rust_text found on the line before       *)
  exit       (* running, then the exit code                            *)

vars == <<repo, file, line, at, scanner, rest, fragments, violations, comment, exit>>

NoText == <<>>

At(text, k) == IF k \in DOMAIN text THEN text[k] ELSE ""

(* The first place where a condition holds, zero if there is none. *)
First(text, Holds(_)) ==
  LET places == {k \in DOMAIN text : Holds(k)} IN IF places = {} THEN 0 ELSE Min(places)

From(text, k) == SubSeq(text, k, Len(text))

(* Step(s, k) from s on, for every place k of a text in turn. *)
Walk(Step(_, _), start, text) == FoldLeftDomain(Step, start, text)

-----------------------------------------------------------------------------
(* The policy on one comment.                                              *)

Markers      == {"TODO"}             (* stands for the four tokens     *)
Annotations  == {"@legal"}           (* stands for the three           *)
ItemKeywords == {"fn"}               (* stands for the nine            *)
IdentStarts  == {"x", "r", "b"} \cup Markers \cup ItemKeywords
WordSymbols  == IdentStarts \cup {"1"}

Trim(text) ==
  LET solid == {k \in DOMAIN text : text[k] # " "}
  IN  IF solid = {} THEN <<>> ELSE SubSeq(text, Min(solid), Max(solid))

Normalize(text) ==
  LET trimmed == Trim(text)
      first == First(trimmed, LAMBDA k : trimmed[k] \notin {"/", "!", "*"})
  IN  IF first = 0 THEN <<>> ELSE Trim(From(trimmed, first))

(* contains_word, for any of the markers.  The byte before a marker is the *)
(* last of its symbol: an annotation ends, but does not begin, with a letter. *)
ForbiddenMarker(text) ==
  \E k \in DOMAIN text :
    /\ text[k] \in Markers
    /\ At(text, k - 1) \notin WordSymbols \cup Annotations
    /\ At(text, k + 1) \notin WordSymbols

(* consume_ident along ident(::ident)*, blanks allowed before "::" and at the end. *)
IsPath(text) ==
  /\ At(text, 1) \in IdentStarts
  /\ \A k \in DOMAIN text :
       \/ text[k] \in WordSymbols
       \/ text[k] = "::" /\ At(text, k + 1) \in IdentStarts
       \/ text[k] = " " /\ At(text, k + 1) \in {" ", "::", ""}

StartsCall(text) ==
  \E k \in DOMAIN text : text[k] = "(" /\ IsPath(SubSeq(text, 1, k - 1))

StartsAssignment(text) ==
  \E k \in DOMAIN text :
    /\ text[k] \in {"=", "=>"}
    /\ IsPath(SubSeq(text, 1, k - 1)) /\ \A j \in 1 .. k - 1 : text[j] # "::"

StartsItem(text) ==
  /\ At(text, 1) \in ItemKeywords /\ At(text, 2) \in {" ", ""}
  /\ \E k \in DOMAIN text : text[k] \in {"(", "=", "=>", "{", "::"}

EndsStatement(text) == At(text, Len(text)) \in {";", "{", "}", "=>"}

LooksLikeCode(text) ==
  \/ EndsStatement(text)
  \/ At(text, 1) = "#" /\ At(text, 2) = "["
  \/ StartsCall(text)
  \/ StartsAssignment(text)
  \/ StartsItem(text)

Violation(text) ==
  IF ForbiddenMarker(text) THEN "marker"
  ELSE IF \E k \in DOMAIN text : text[k] \in Annotations THEN "none"
  ELSE IF LooksLikeCode(Normalize(text)) THEN "code" ELSE "none"

-----------------------------------------------------------------------------
(* Where a comment starts.                                                 *)

Hashes(text, k) == First(From(text, k) \o <<"">>, LAMBDA j : At(text, k + j - 1) # "#") - 1

(* raw_start: the number of hashes of the raw string that opens at k. *)
RawStart(text, k) ==
  LET r == IF At(text, k) = "b" THEN k + 1 ELSE k
      hashes == Hashes(text, r + 1)
  IN  IF At(text, r) = "r" /\ At(text, r + 1 + hashes) = "\""
        THEN {[hashes |-> hashes, next |-> r + hashes + 2]} ELSE {}

RawEnds(text, k, hashes) == text[k] = "\"" /\ Hashes(text, k + 1) >= hashes

SlashMarker(text, k) == text[k] = "/" /\ At(text, k + 1) \in {"/", "*"}

(* One turn of the loop of find_comment_start: the index is s.next. *)
FindStep(text, s, k) ==
  CASE k # s.next \/ s.found # 0 -> s
    [] s.mode = "raw" ->
         IF RawEnds(text, k, s.hashes) THEN [s EXCEPT !.mode = "code", !.next = k + 1 + s.hashes]
                                       ELSE [s EXCEPT !.next = k + 1]
    [] s.mode = "string" ->
         [s EXCEPT !.mode = IF text[k] = "\"" THEN "code" ELSE "string",
                   !.next = IF text[k] = "\\" THEN k + 2 ELSE k + 1]
    [] s.mode = "code" /\ RawStart(text, k) # {} ->
         LET raw == CHOOSE raw \in RawStart(text, k) : TRUE
         IN  [s EXCEPT !.mode = "raw", !.hashes = raw.hashes, !.next = raw.next]
    [] s.mode = "code" /\ RawStart(text, k) = {} ->
         [s EXCEPT !.mode = IF text[k] = "\"" THEN "string" ELSE "code",
                   !.found = IF SlashMarker(text, k) THEN k ELSE 0,
                   !.next = k + 1]

(* find_comment_start: the place of the marker, zero if there is none.     *)
(* Every line starts outside a literal.                                    *)
FindCommentStart(text) ==
  Walk(LAMBDA s, k : FindStep(text, s, k),
       [mode |-> "code", hashes |-> 0, next |-> 1, found |-> 0], text).found

(* One turn of the loop of hash_text. *)
HashStep(text, s, k) ==
  CASE k # s.next \/ s.found # 0 -> s
    [] s.quote # "" -> [s EXCEPT !.quote = IF text[k] = s.quote THEN "" ELSE s.quote,
                                 !.next = IF text[k] = "\\" THEN k + 2 ELSE k + 1]
    [] s.quote = "" -> [s EXCEPT !.quote = IF text[k] \in {"\"", "'"} THEN text[k] ELSE "",
                                 !.found = IF text[k] = "#" THEN k ELSE 0,
                                 !.next = k + 1]

HashText(text) ==
  LET found == Walk(LAMBDA s, k : HashStep(text, s, k),
                    [quote |-> "", next |-> 1, found |-> 0], text).found
  IN  IF found = 0 \/ (At(text, 1) = "#" /\ At(text, 2) = "!") THEN NoText
      ELSE From(text, found + 1)

Opens(text)  == {k \in DOMAIN text : text[k] = "/" /\ At(text, k + 1) = "*"}
Closes(text) == {k \in DOMAIN text : text[k] = "*" /\ At(text, k + 1) = "/"}

-----------------------------------------------------------------------------
(***************************************************************************)
(* The reference: a lexer of the whole file, which knows that a literal    *)
(* may go on over a line end and that a quote may be a character, and      *)
(* which keeps what stands between two delimiters apart: `comments` are    *)
(* the comments of the line, an opener or a closer ending one.             *)
(***************************************************************************)
LexStart == [mode |-> "code", depth |-> 0, hashes |-> 0, next |-> 1, comments |-> <<>>, quoted |-> FALSE]

CharLength(text, k) ==
  CASE At(text, k + 1) = "\\" /\ At(text, k + 3) = "'" -> 4
    [] At(text, k + 1) # "\\" /\ At(text, k + 2) = "'" -> 3
    [] OTHER -> 1

IsAt(text, k, token) == k + Len(token) - 1 <= Len(text) /\ SubSeq(text, k, k + Len(token) - 1) = token

Quote(hashes) == <<"\"">> \o [j \in 1 .. hashes |-> "#"]

(* The numbers of hashes with which a raw literal opens at k. *)
RawOpens(text, k) == {h \in 0 .. Len(text) : IsAt(text, k, <<"r">> \o Reverse(Quote(h)))}

NewComment(s) == [s EXCEPT !.comments = Append(@, <<>>), !.next = @ + 2]
InComment(s, c) == [s EXCEPT !.comments[Len(s.comments)] = Append(@, c), !.next = @ + 1]

LexCode(text, s, k) ==
  CASE IsAt(text, k, <<"/", "/">>) -> NewComment([s EXCEPT !.mode = "line"])
    [] IsAt(text, k, <<"/", "*">>) -> NewComment([s EXCEPT !.mode = "block", !.depth = 1])
    [] text[k] = "\"" -> [s EXCEPT !.mode = "string", !.next = k + 1]
    [] text[k] = "'" -> [s EXCEPT !.next = k + CharLength(text, k),
                                  !.quoted = @ \/ "\"" \in Range(SubSeq(text, k, k + CharLength(text, k) - 1))]
    [] RawOpens(text, k) # {} ->
         [s EXCEPT !.mode = "raw", !.hashes = Min(RawOpens(text, k)), !.next = k + Min(RawOpens(text, k)) + 2]
    [] OTHER -> [s EXCEPT !.next = k + 1]

LexBlock(text, s, k) ==
  CASE IsAt(text, k, <<"/", "*">>) -> NewComment([s EXCEPT !.depth = @ + 1])
    [] IsAt(text, k, <<"*", "/">>) ->
         IF s.depth = 1 THEN [s EXCEPT !.mode = "code", !.depth = 0, !.next = k + 2]
                        ELSE NewComment([s EXCEPT !.depth = @ - 1])
    [] OTHER -> InComment(s, text[k])

LexStep(text, s, k) ==
  CASE k # s.next -> s
    [] k = s.next /\ s.mode = "code" -> LexCode(text, s, k)
    [] k = s.next /\ s.mode = "block" -> LexBlock(text, s, k)
    [] k = s.next /\ s.mode = "line" -> InComment(s, text[k])
    [] k = s.next /\ s.mode = "string" ->
         [s EXCEPT !.mode = IF text[k] = "\"" THEN "code" ELSE "string",
                   !.next = IF text[k] = "\\" THEN k + 2 ELSE k + 1]
    [] k = s.next /\ s.mode = "raw" ->
         IF IsAt(text, k, Quote(s.hashes)) THEN [s EXCEPT !.mode = "code", !.next = k + 1 + s.hashes]
                                           ELSE [s EXCEPT !.next = k + 1]

(* The state after a line; a line comment ends with it, a block goes on. *)
LexLine(s, text) ==
  LET start == [s EXCEPT !.next = 1, !.mode = IF @ = "line" THEN "code" ELSE @,
                         !.comments = IF s.mode = "block" THEN <<<<>>>> ELSE <<>>]
  IN  Walk(LAMBDA t, k : LexStep(text, t, k), start, text)

(* The states after each line of a file. *)
Lexed(lines) ==
  Tail(FoldLeft(LAMBDA states, text : Append(states, LexLine(Last(states), text)), <<LexStart>>, lines))

Joined(s) == FlattenSeq(s.comments)

Words(text) == SelectSeq(text, LAMBDA c : c \notin {"/", "*", " "})

IsFence(text) == At(Normalize(text), 1) = "fence"

Fences(states, n) == Cardinality({m \in 1 .. n : IsFence(Joined(states[m]))})

(* Outside the code blocks of documentation, which are exempt. *)
Unfenced(states, n) == ~IsFence(Joined(states[n])) /\ Fences(states, n) % 2 = 0

(* What the scanner follows up to line n: no literal is open at the end of *)
(* a line, no character literal is a quote, and a fence has its line's     *)
(* comment to itself.                                                      *)
Regular(states, n) ==
  /\ ~states[n].quoted
  /\ \A m \in 1 .. n :
       /\ states[m].mode \notin {"string", "raw"}
       /\ Len(states[m].comments) > 1 => "fence" \notin Range(Joined(states[m]))

(* The policy: no marker, and no code unless it is annotated. *)
Clean(text) ==
  /\ ~ForbiddenMarker(text)
  /\ LooksLikeCode(Normalize(text)) => Annotations \cap Range(text) # {}

-----------------------------------------------------------------------------
(* The scan.                                                               *)

NewScanner == [block_depth |-> 0, in_fence |-> FALSE]

Init ==
  /\ repo \in Repositories
  /\ file = 1 /\ line = 1 /\ at = "file"
  /\ scanner = NewScanner
  /\ rest = <<>> /\ fragments = <<>>
  /\ violations = <<>>
  /\ comment = NoText
  /\ exit = "running"

Current == repo[file].lines[line]

(* repository_root and tracked_files: git cannot be asked what is tracked. *)
FailToList ==
  /\ at = "file" /\ file = 1 /\ exit = "running"
  /\ exit' = "FAILURE"
  /\ UNCHANGED <<repo, file, line, at, scanner, rest, fragments, violations, comment>>

(* check_comments: the next file, unless the policy does not cover it or   *)
(* it cannot be read; a read error fails the check at once.                *)
SkipFile ==
  /\ at = "file" /\ file <= Len(repo) /\ exit = "running"
  /\ repo[file].syntax = "none"
  /\ file' = file + 1
  /\ UNCHANGED <<repo, line, at, scanner, rest, fragments, violations, comment, exit>>

FailToRead ==
  /\ at = "file" /\ file <= Len(repo) /\ exit = "running"
  /\ repo[file].syntax # "none" /\ ~repo[file].readable
  /\ exit' = "FAILURE"
  /\ UNCHANGED <<repo, file, line, at, scanner, rest, fragments, violations, comment>>

(* Mutant: one scanner for all the files. *)
OpenFileKeepingScanner ==
  /\ at = "file" /\ file <= Len(repo) /\ exit = "running"
  /\ repo[file].syntax # "none" /\ repo[file].readable
  /\ line' = 1 /\ at' = "line"
  /\ UNCHANGED <<repo, file, scanner, rest, fragments, violations, comment, exit>>

OpenFile ==
  /\ at = "file" /\ file <= Len(repo) /\ exit = "running"
  /\ repo[file].syntax # "none" /\ repo[file].readable
  /\ scanner' = NewScanner
  /\ line' = 1 /\ at' = "line"
  /\ UNCHANGED <<repo, file, rest, fragments, violations, comment, exit>>

(* scan_file: blank lines do not reach the scanner. *)
SkipBlankLine ==
  /\ at = "line" /\ line <= Len(repo[file].lines)
  /\ Trim(Current) = <<>>
  /\ line' = line + 1 /\ comment' = NoText
  /\ UNCHANGED <<repo, file, at, scanner, rest, fragments, violations, exit>>

ScanHashLine ==
  /\ at = "line" /\ line <= Len(repo[file].lines)
  /\ Trim(Current) # <<>> /\ repo[file].syntax = "hash"
  /\ fragments' = HashText(Current) /\ at' = "text"
  /\ UNCHANGED <<repo, file, line, scanner, rest, violations, comment, exit>>

ScanRustLine ==
  /\ at = "line" /\ line <= Len(repo[file].lines)
  /\ Trim(Current) # <<>> /\ repo[file].syntax = "rust"
  /\ rest' = Current /\ fragments' = <<>> /\ at' = "rest"
  /\ UNCHANGED <<repo, file, line, scanner, violations, comment, exit>>

(* consume_line outside a block comment. *)
ConsumeCode ==
  /\ at = "rest" /\ scanner.block_depth = 0
  /\ LET start == FindCommentStart(rest)
     IN  \/ /\ start = 0
            /\ at' = "text"
            /\ UNCHANGED <<scanner, rest, fragments>>
         \/ /\ start # 0 /\ rest[start + 1] = "/"
            /\ fragments' = fragments \o From(rest, start + 2) /\ at' = "text"
            /\ UNCHANGED <<scanner, rest>>
         \/ /\ start # 0 /\ rest[start + 1] = "*"
            /\ scanner' = [scanner EXCEPT !.block_depth = 1]
            /\ rest' = From(rest, start + 2)
            /\ UNCHANGED <<fragments, at>>
  /\ UNCHANGED <<repo, file, line, violations, comment, exit>>

(* Mutant: of an opener and a closer, the closer comes first. *)
OpensFirstNever(text) == FALSE

(* block_fragment: which of the two markers comes first. *)
OpensFirst(text) ==
  Opens(text) # {} /\ Closes(text) # {} /\ Min(Opens(text)) < Min(Closes(text))

(* Mutant: the marker is not skipped. *)
PastStuck(text, k) == From(text, k)

Past(text, k) == From(text, k + 2)

(* consume_block: one fragment; without a closer the rest of the line.     *)
ConsumeBlock ==
  /\ at = "rest" /\ scanner.block_depth > 0
  /\ \/ /\ OpensFirst(rest)
        /\ fragments' = fragments \o SubSeq(rest, 1, Min(Opens(rest)) - 1)
        /\ scanner' = [scanner EXCEPT !.block_depth = @ + 1]
        /\ rest' = Past(rest, Min(Opens(rest))) /\ at' = at
     \/ /\ ~OpensFirst(rest) /\ Closes(rest) # {}
        /\ fragments' = fragments \o SubSeq(rest, 1, Min(Closes(rest)) - 1)
        /\ scanner' = [scanner EXCEPT !.block_depth = @ - 1]
        /\ rest' = Past(rest, Min(Closes(rest))) /\ at' = at
     \/ /\ Closes(rest) = {}
        /\ fragments' = fragments \o rest
        /\ scanner' = [scanner EXCEPT !.block_depth = @ + Cardinality(Opens(rest))]
        /\ at' = "text" /\ UNCHANGED rest
  /\ UNCHANGED <<repo, file, line, violations, comment, exit>>

(* fence: whether the text is exempt, being a fence or between two. *)
Exempt(text) == repo[file].syntax = "rust" /\ (IsFence(text) \/ scanner.in_fence)

(* comment returns and scan_file reports. *)
FinishLine ==
  /\ at = "text"
  /\ LET found == Trim(fragments) # <<>>
         bad   == found /\ ~Exempt(fragments) /\ Violation(fragments) # "none"
         flips == found /\ repo[file].syntax = "rust" /\ IsFence(fragments)
     IN  /\ scanner' = [scanner EXCEPT !.in_fence = IF flips THEN ~@ ELSE @]
         /\ violations' = IF bad THEN Append(violations, <<file, line, Violation(fragments)>>)
                                 ELSE violations
  /\ line' = line + 1 /\ at' = "line"
  /\ comment' = fragments
  /\ UNCHANGED <<repo, file, rest, fragments, exit>>

FinishFile ==
  /\ at = "line" /\ line > Len(repo[file].lines)
  /\ file' = file + 1 /\ at' = "file"
  /\ UNCHANGED <<repo, line, scanner, rest, fragments, violations, comment, exit>>

(* Report::finish. *)
Finish ==
  /\ at = "file" /\ file > Len(repo) /\ exit = "running"
  /\ exit' = IF violations = <<>> THEN "SUCCESS" ELSE "FAILURE"
  /\ UNCHANGED <<repo, file, line, at, scanner, rest, fragments, violations, comment>>

Next ==
  \/ FailToList \/ SkipFile \/ FailToRead \/ OpenFile
  \/ SkipBlankLine \/ ScanHashLine \/ ScanRustLine
  \/ ConsumeCode \/ ConsumeBlock \/ FinishLine
  \/ FinishFile \/ Finish

Spec == Init /\ [][Next]_vars

-----------------------------------------------------------------------------
(***************************************************************************)
(* The scanner, which starts every line outside a literal and looks for    *)
(* delimiters by searching ahead, finds on each line the comments the      *)
(* lexer finds there (several on a line run together), is as deep in block *)
(* comments, nested, closed and reopened on a line or left open over its   *)
(* end, and agrees whether a fenced block is open (comments.rs:198-257).   *)
(***************************************************************************)
CommentsAreTheLexers ==
  (at = "line" /\ repo[file].syntax = "rust" /\ line > 1) =>
    LET n == line - 1
        states == Lexed(SubSeq(repo[file].lines, 1, n))
    IN  Regular(states, n) =>
          /\ Words(comment) = Words(Joined(states[n]))
          /\ Len(states[n].comments) <= 1 => Trim(comment) = Trim(Joined(states[n]))
          /\ scanner.block_depth = states[n].depth
          /\ scanner.in_fence <=> Fences(states, n) % 2 = 1

(* The lines of a file with a comment that the policy rejects, of those    *)
(* that the scanner can judge: in Rust regular lines outside the fences    *)
(* with a single comment; elsewhere lines without quotes.                  *)
Prohibited(f) ==
  CASE f.syntax = "rust" ->
         LET states == Lexed(f.lines)
         IN  {n \in DOMAIN f.lines : /\ Regular(states, n) /\ Unfenced(states, n)
                                     /\ Len(states[n].comments) = 1 /\ ~Clean(states[n].comments[1])}
    [] f.syntax = "hash" ->
         {n \in DOMAIN f.lines :
            LET text == f.lines[n]
                hash == First(text, LAMBDA k : text[k] = "#")
            IN  /\ hash # 0 /\ Range(text) \cap {"\"", "'"} = {}
                /\ ~IsAt(text, 1, <<"#", "!">>) /\ ~Clean(From(text, hash + 1))}
    [] f.syntax = "none" -> {}

(***************************************************************************)
(* A check that passes has read every covered file and reported every      *)
(* comment it should have, whatever stands in the files before: a block    *)
(* comment or a fence left open ends with its file, and in files with hash *)
(* comments a fence exempts nothing (scan.rs:53-72, 126; comments.rs:187). *)
(***************************************************************************)
CleanWhenPassed ==
  exit = "SUCCESS" =>
    \A f \in Range(repo) : f.syntax # "none" => f.readable /\ Prohibited(f) = {}

(***************************************************************************)
(* CONVENTIONS.md:39-40: the markers are rejected by the check, in every   *)
(* comment of a Rust file that is not part of a fenced code block          *)
(* (comments.rs:185).                                                      *)
(***************************************************************************)
MarkersAreRejected ==
  exit = "SUCCESS" =>
    \A f \in {g \in Range(repo) : g.syntax = "rust"} :
      LET states == Lexed(f.lines)
      IN  \A n \in DOMAIN f.lines :
            Unfenced(states, n) => \A c \in Range(states[n].comments) : ~ForbiddenMarker(c)

(***************************************************************************)
(* The mutual recursion of consume_line and consume_block ends: each call  *)
(* that goes on within a line has less of it left, and a step that leaves  *)
(* the line leaves it for its text (comments.rs:206-257).                  *)
(***************************************************************************)
ConsumesTheLine ==
  [][at = "rest" => at' = "text" \/ (at' = "rest" /\ Len(rest') < Len(rest))]_vars

=============================================================================
