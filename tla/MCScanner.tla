------------------------------ MODULE MCScanner ------------------------------
(* Instance: every short line on its own, every short file of lines that   *)
(* open, close or hide a comment, and repositories of several files.       *)
EXTENDS Scanner

CONSTANTS LineLength, FileLength  (* bounds of the enumeration *)

RustFile(lines) == [syntax |-> "rust", readable |-> TRUE, lines |-> lines]
HashFile(lines) == [syntax |-> "hash", readable |-> TRUE, lines |-> lines]

ShortLines ==
  UNION {[1 .. n -> {"/", "*", "\"", "\\", "r", "#", "'", "x"}] : n \in 1 .. LineLength}

Lines == {
  <<" ">>,
  <<"x", ";">>,
  <<"/", "/", " ", "TODO">>,
  <<"/", "/", "/", " ", "fence", "r">>,
  <<"/", "/", "@legal", " ", "TODO">>,
  <<"/", "*", "TODO", "/", "*", "x">>,
  <<"x", "*", "/", "TODO">>,
  <<"*", "/", "x", "/", "*", "fence">>,
  <<"*", "/", "/", "/", "x", "TODO">>,
  <<"/", "*", "/", "*", "/", "TODO">>,
  <<"\"", "/", "*", "\"", "/", "/", "1">>,
  <<"x", "=", "r", "#", "\"", "/", "/", "\"", "#", "/", "*">>,
  <<"\"", "/", "/", "TODO">>,
  <<"'", "\"", "'", "/", "*", "TODO">>}

RustComments == {
  <<"x", "=", "1">>, <<"x", " ", "::", "x", "(">>, <<"x", "::", " ", "x", "(">>,
  <<"fn", " ", "x", "(">>, <<"fn", "x", " ", "{", "x">>, <<"#", "[", "x">>, <<"x", "}">>,
  <<"x", " ", "x", "(">>, <<"@legal", "x", ";">>, <<"TODO", "x">>, <<"x">>}

HashLines == {
  <<"#", "!", "x">>, <<"x", " ", "#", "TODO">>, <<"\"", "#", "\"", "#", "x", ";">>,
  <<"'", "\\", "'", "#", "'">>, <<"x", "#", " ">>, <<"#", "fence">>, <<"#", "x", "TODO">>}

Unreadable == [syntax |-> "rust", readable |-> FALSE, lines |-> <<>>]
Prose == [syntax |-> "none", readable |-> TRUE, lines |-> <<<<"TODO">>>>]

Several ==
  LET open == RustFile(<<<<"/", "*", "x">>>>)
      fenced == RustFile(<<<<"/", "/", "fence">>>>)
      todo == RustFile(<<<<"/", "/", "TODO">>>>)
      hash == HashFile(<<<<"x", "#", "TODO">>>>)
  IN  UNION {[1 .. n -> {open, fenced, todo, hash, Unreadable, Prose}] : n \in 0 .. 3}

MCRepositories ==
  {<<RustFile(<<l>>)>> : l \in ShortLines}
    \cup {<<RustFile(f)>> : f \in UNION {[1 .. n -> Lines] : n \in 0 .. FileLength}}
    \cup {<<RustFile(<<<<"/", "/">> \o c>>)>> : c \in RustComments}
    \cup {<<HashFile(<<l, m>>)>> : l, m \in HashLines}
    \cup Several

(* For the documented claim on markers: lines of two comments, and of one. *)
JoinedRepositories ==
  {<<RustFile(<<<<"/", "*">> \o a \o <<"*", "/", "/", "*">> \o b \o <<"*", "/">>>>)>> :
     a, b \in {<<"TODO">>, <<"x">>, <<" ">>, <<"1", "x">>}}
    \cup {<<RustFile(<<c>>)>> : c \in {<<"/", "*", "TODO", "/", "*", "x">>, <<"/", "/", "TODO">>}}

=============================================================================
