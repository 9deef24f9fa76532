-------------------------------- MODULE Walk --------------------------------
(***************************************************************************)
(* The bundle-hash command (kaimeter-rules, src/bin/bundle-hash.rs) in     *)
(* front of Openings: a directory is walked, what bundle.json excludes is  *)
(* dropped, and the files collected are what is published and opened.      *)
(*                                                                         *)
(* read_dir returns the entries of a directory in any order and any call   *)
(* of the file system may fail.  A path is a byte sequence whose SLASHes   *)
(* separate components: a component may hold a BACKSLASH, as on Unix.      *)
(***************************************************************************)
EXTENDS Openings

CONSTANT Directories  (* directories the command is given *)

(* A directory is [metadata, tree]: what reading bundle.json returns (its   *)
(* excludedPaths), and its entries, path |-> [kind, content].              *)
Kinds == {"directory", "file", "other"}

ASSUME WalkAssumption ==
  \A d \in Directories : \A p \in DOMAIN d.tree : d.tree[p].kind \in Kinds

VARIABLES
  directory,  (* the argument; NoDirectory when files came from a caller      *)
  stage,      (* "metadata", "walking", "collected" or "failed"              *)
  unread,     (* for each open directory, innermost last, what is still to come *)
  found       (* the files collected, in the order they were met             *)

walkVars == <<directory, stage, unread, found>>

NoDirectory == [metadata |-> Err("none"), tree |-> <<>>]

-----------------------------------------------------------------------------
(* Exclusion.                                                              *)

DeepSuffix == <<SLASH, 42, 42>>  (* "/**" *)

(* Mutant: the directory's name may go on. *)
MatchesPatternLoosely(pattern, path) ==
  IF IsSuffix(DeepSuffix, pattern)
    THEN IsStrictPrefix(SubSeq(pattern, 1, Len(pattern) - 3), path)
    ELSE pattern = path

MatchesPattern(pattern, path) ==
  IF IsSuffix(DeepSuffix, pattern)
    THEN LET n == Len(pattern) - 3
         IN  IsStrictPrefix(SubSeq(pattern, 1, n), path) /\ path[n + 1] = SLASH
    ELSE pattern = path

Excludes(patterns, path) == \E i \in DOMAIN patterns : MatchesPattern(patterns[i], path)

(* What read_dir lists: the paths one component below. *)
ReadDir(tree, path) ==
  LET inside == IF path = <<>> THEN <<>> ELSE Append(path, SLASH)
  IN  {p \in DOMAIN tree :
         /\ IsStrictPrefix(inside, p)
         /\ \A i \in Len(inside) + 1 .. Len(p) : p[i] # SLASH}

-----------------------------------------------------------------------------

(* A caller's list, as in Openings, or a directory.  *)
WalkInit ==
  \/ /\ OpeningsInit
     /\ directory = NoDirectory /\ stage = "collected" /\ unread = <<>> /\ found = <<>>
  \/ /\ directory \in Directories
     /\ stage = "metadata" /\ unread = <<>> /\ found = <<>>
     /\ offered = <<>>
     /\ published = None /\ sent = None /\ arrived = None /\ verdict = None

(* hash_bundle: bundle.json first, then the walk from the root. *)
ReadMetadata ==
  /\ stage = "metadata"
  /\ IF directory.metadata.ok
       THEN stage' = "walking" /\ unread' = <<ReadDir(directory.tree, <<>>)>>
       ELSE stage' = "failed" /\ UNCHANGED unread
  /\ UNCHANGED <<directory, found, offered>>

(* collect_into: the next entry, in whatever order read_dir gives it. *)
Visit(path) ==
  /\ stage = "walking" /\ unread # <<>> /\ path \in Last(unread)
  /\ LET entry == directory.tree[path]
         others == [unread EXCEPT ![Len(unread)] = @ \ {path}]
     IN  CASE NOT_UTF8 \in ToSet(path) ->
                stage' = "failed" /\ UNCHANGED <<unread, found>>
           [] NOT_UTF8 \notin ToSet(path) /\ Excludes(directory.metadata.val, path) ->
                unread' = others /\ UNCHANGED <<stage, found>>
           [] OTHER ->
                /\ unread' = IF entry.kind = "directory"
                               THEN Append(others, ReadDir(directory.tree, path)) ELSE others
                /\ found' = IF entry.kind = "file"
                              THEN Append(found, [path |-> path, content |-> entry.content])
                              ELSE found
                /\ UNCHANGED stage
  /\ UNCHANGED <<directory, offered>>

(* read_dir, an entry, its type or its content cannot be read. *)
FailToRead ==
  /\ stage = "walking"
  /\ stage' = "failed"
  /\ UNCHANGED <<directory, unread, found, offered>>

LeaveDirectory ==
  /\ stage = "walking" /\ Len(unread) > 1 /\ Last(unread) = {}
  /\ unread' = Front(unread)
  /\ UNCHANGED <<directory, stage, found, offered>>

(* collect_files: the walk is over; its files are sorted and offered. *)
Collect ==
  /\ stage = "walking" /\ Len(unread) = 1 /\ Last(unread) = {}
  /\ stage' = "collected"
  /\ offered' = SortSeq(found, LAMBDA a, b : Before(a.path, b.path))
  /\ UNCHANGED <<directory, unread, found>>

WalkStep ==
  \/ ReadMetadata
  \/ \E path \in DOMAIN directory.tree : Visit(path)
  \/ FailToRead
  \/ LeaveDirectory
  \/ Collect

WalkNext ==
  \/ WalkStep /\ UNCHANGED <<published, sent, arrived, verdict>>
  \/ stage = "collected" /\ OpeningsNext /\ UNCHANGED walkVars

WalkSpec == WalkInit /\ [][WalkNext]_<<openingVars, walkVars>>

-----------------------------------------------------------------------------

(* The part of a path below which a pattern excludes, in components.       *)
Covers(pattern, path) ==
  LET parts == Parts(pattern)
  IN  IF Last(parts) = <<42, 42>> /\ Len(parts) > 1
        THEN IsStrictPrefix(Front(parts), path)
        ELSE IsPrefix(parts, path)

(* The components of a path of the file system: only SLASH separates. *)
PathParts(path) ==
  FoldLeft(LAMBDA parts, c :
             IF c = SLASH THEN Append(parts, <<>>)
             ELSE [parts EXCEPT ![Len(parts)] = Append(@, c)],
           << <<>> >>, path)

(***************************************************************************)
(* What is published of a directory is every regular file that no pattern  *)
(* covers, each once, whatever the order of read_dir and whatever failed:  *)
(* a directory that cannot be read in full publishes nothing.  The walk    *)
(* prunes, so an exact pattern that names a directory covers what is below *)
(* it, although BundleMetadata::excludes matches the directory alone, and  *)
(* a pattern on "x/**" does not cover "xy/z" (bundle.rs:196-224).          *)
(***************************************************************************)
PublishesWhatIsNotExcluded ==
  (stage = "collected" /\ directory # NoDirectory) =>
    LET tree == directory.tree
        patterns == ToSet(directory.metadata.val)
        wanted == {p \in DOMAIN tree :
                     /\ tree[p].kind = "file"
                     /\ ~\E pattern \in patterns : Covers(pattern, PathParts(p))}
    IN  /\ Len(offered) = Cardinality(wanted)
        /\ ToSet(offered) = {[path |-> p, content |-> tree[p].content] : p \in wanted}

=============================================================================
