------------------------------- MODULE Merkle -------------------------------
(***************************************************************************)
(* The identity of a bundle (kaimeter-interpreter, src/bundle.rs): a       *)
(* Merkle tree over the canonical files, its inclusion proofs, and the     *)
(* verification the guest runs on them.                                    *)
(*                                                                         *)
(* SHA-256 is a free constructor: two hashes are equal exactly when they   *)
(* were made of the same parts (collision resistance, which the whole      *)
(* design assumes; the tags keep a leaf from being a node).  Paths and     *)
(* contents are short byte sequences, because what canonicalisation does   *)
(* to them is what the properties are about.  Recursion is written with    *)
(* recursive functions over positions of the leaf sequence.                *)
(***************************************************************************)
EXTENDS Integers, Sequences, FiniteSets, SequencesExt

CONSTANT UsizeBits   (* width of a usize: 32 in the guest *)

ASSUME UsizeAssumption == UsizeBits \in Nat \ {0}

TwoTo[w \in Nat] == IF w = 0 THEN 1 ELSE 2 * TwoTo[w - 1]

(* The number of values of a usize. *)
USIZE == TwoTo[UsizeBits]

Ok(v)  == [ok |-> TRUE, val |-> v]
Err(e) == [ok |-> FALSE, err |-> e]
AndThen(r, F(_)) == IF r.ok THEN F(r.val) ELSE r

None == Err("None")   (* not there yet *)

(* BundleFile: a path and the bytes of its content. *)
File == [path : Seq(Nat), content : Seq(Nat)]

LF == 10
CR == 13
DOT == 46
SLASH == 47
BACKSLASH == 92
NOT_UTF8 == 255   (* a byte that occurs in no UTF-8 text *)

-----------------------------------------------------------------------------
(* Canonical files.                                                        *)

Separators == {SLASH, BACKSLASH}

(* path.split: the parts between separators, ends included. *)
Components(path) ==
  LET stops == {0, Len(path) + 1} \cup {i \in DOMAIN path : path[i] \in Separators}
  IN  {SubSeq(path, p[1] + 1, p[2] - 1) : p \in
         {p \in stops \X stops : p[1] < p[2] /\ ~\E k \in stops : p[1] < k /\ k < p[2]}}

CanonicalPath(path) ==
  IF Components(path) \cap {<<>>, <<DOT>>, <<DOT, DOT>>} # {}
    THEN Err("InvalidPath")
    ELSE Ok([i \in DOMAIN path |-> IF path[i] \in Separators THEN SLASH ELSE path[i]])

(* Mutant: CRLF becomes two line breaks. *)
NormalizeEachByte(content) ==
  IF NOT_UTF8 \in ToSet(content)
    THEN Err("NonUtf8Content")
    ELSE Ok([j \in DOMAIN content |-> IF content[j] = CR THEN LF ELSE content[j]])

(* Places of a sequence, in ascending order. *)
InOrder(places) ==
  [j \in 1 .. Cardinality(places) |->
     CHOOSE i \in places : Cardinality({k \in places : k < i}) = j - 1]

(* CRLF and CR become LF: an LF right after a CR is dropped. *)
NormalizeNewlines(content) ==
  IF NOT_UTF8 \in ToSet(content)
    THEN Err("NonUtf8Content")
    ELSE LET kept == InOrder({i \in DOMAIN content :
                                ~(content[i] = LF /\ i > 1 /\ content[i - 1] = CR)})
         IN  Ok([j \in DOMAIN kept |-> IF content[kept[j]] = CR THEN LF ELSE content[kept[j]]])

Entry(file) ==
  AndThen(CanonicalPath(file.path), LAMBDA path :
  AndThen(NormalizeNewlines(file.content), LAMBDA content :
    Ok([path |-> path, content |-> content])))

(* Byte order of paths. *)
Before(p, q) ==
  \/ IsStrictPrefix(p, q)
  \/ \E i \in DOMAIN p \cap DOMAIN q :
       p[i] < q[i] /\ \A j \in 1 .. i - 1 : p[j] = q[j]

(* The file at place k has k - 1 files before it. *)
InPathOrder(files) ==
  [k \in 1 .. Cardinality(files) |->
     CHOOSE f \in files : Cardinality({g \in files : Before(g.path, f.path)}) = k - 1]

(* The first file that has no entry decides the error; then duplicates. *)
SortedEntries(files) ==
  LET entries == [i \in DOMAIN files |-> Entry(files[i])]
      failed  == {i \in DOMAIN files : ~entries[i].ok}
      paths   == {entries[i].val.path : i \in DOMAIN files}
  IN  IF files = <<>> THEN Err("Empty")
      ELSE IF failed # {} THEN entries[CHOOSE i \in failed : \A j \in failed : i <= j]
      ELSE IF Cardinality(paths) < Len(files) THEN Err("DuplicatePath")
      ELSE Ok(InPathOrder({entries[i].val : i \in DOMAIN files}))

-----------------------------------------------------------------------------
(* The tree.                                                               *)

(* Mutant: a leaf does not commit to its path. *)
LeafHashOfContent(path, content) == <<"leaf", <<>>, content>>

LeafHash(path, content) == <<"leaf", path, content>>
NodeHash(left, right)   == <<"node", left, right>>

(* usize::next_power_of_two, which wraps to zero past the last one in the  *)
(* release profile the guest is built with.                                *)
NextPowerOfTwo(n) ==
  LET powers == {p \in {TwoTo[w] : w \in 0 .. UsizeBits} : p >= n}
  IN  (CHOOSE p \in powers : \A q \in powers : p <= q) % USIZE

(* Mutant: the tree is a list. *)
SplitLast(n) == n - 1

SplitPoint(n) == NextPowerOfTwo(n) \div 2

(* A slice of n leaves: its first and last position. *)
Slices(n) == (1 .. n) \X (1 .. n)

(* The root of leaves[first .. last], which is never an empty slice. *)
TreeRoot(leaves, first, last) ==
  LET root[slice \in Slices(Len(leaves))] ==
        LET lo == slice[1]
            hi == slice[2]
            middle == lo + SplitPoint(hi - lo + 1)
        IN  IF lo >= hi THEN leaves[lo]
            ELSE NodeHash(root[<<lo, middle - 1>>], root[<<middle, hi>>])
  IN  root[<<first, last>>]

(* Mutant: a leaf at the split point is taken to be on the left. *)
BuildProofSplitLate(leaves, index) ==
  LET proof[slice \in Slices(Len(leaves))] ==
        LET lo == slice[1]
            hi == slice[2]
            middle == lo + SplitPoint(hi - lo + 1)
        IN  IF lo >= hi THEN <<>>
            ELSE IF index <= middle
                   THEN Append(proof[<<lo, middle - 1>>], TreeRoot(leaves, middle, hi))
                   ELSE Append(proof[<<middle, hi>>], TreeRoot(leaves, lo, middle - 1))
  IN  proof[<<1, Len(leaves)>>]

(* The siblings of leaf `index` (from 1) in leaves[lo .. hi], leaf first. *)
BuildProof(leaves, index) ==
  LET proof[slice \in Slices(Len(leaves))] ==
        LET lo == slice[1]
            hi == slice[2]
            middle == lo + SplitPoint(hi - lo + 1)
        IN  IF lo >= hi THEN <<>>
            ELSE IF index < middle
                   THEN Append(proof[<<lo, middle - 1>>], TreeRoot(leaves, middle, hi))
                   ELSE Append(proof[<<middle, hi>>], TreeRoot(leaves, lo, middle - 1))
  IN  proof[<<1, Len(leaves)>>]

Leaves(entries) == [i \in DOMAIN entries |-> LeafHash(entries[i].path, entries[i].content)]

BundleHash(files) ==
  AndThen(SortedEntries(files), LAMBDA entries :
    Ok(TreeRoot(Leaves(entries), 1, Len(entries))))

OpenFile(files, path) ==
  AndThen(CanonicalPath(path), LAMBDA wanted :
  AndThen(SortedEntries(files), LAMBDA entries :
    LET found == {i \in DOMAIN entries : entries[i].path = wanted}
    IN  IF found = {} THEN Err("UnknownFile")
        ELSE LET i == CHOOSE j \in found : TRUE
             IN  Ok([path |-> wanted, content |-> entries[i].content,
                     index |-> i - 1, size |-> Len(entries),
                     proof |-> BuildProof(Leaves(entries), i)])))

-----------------------------------------------------------------------------
(* Verification.                                                           *)

NoHash == <<>>

(* The hash reached from the leaf, or NoHash when the proof is too short or *)
(* too long.  up[<<i, s, m>>] uses the first m siblings.                    *)
Fold(leaf, index, size, proof) ==
  LET up[at \in (0 .. index) \X (1 .. size) \X (0 .. Len(proof))] ==
        LET i == at[1]
            s == at[2]
            m == at[3]
            k == SplitPoint(s)
            below == IF i < k THEN up[<<i, k, m - 1>>] ELSE up[<<i - k, s - k, m - 1>>]
        IN  IF s = 1 \/ m = 0 THEN IF s = 1 /\ m = 0 THEN leaf ELSE NoHash
            ELSE IF below = NoHash THEN NoHash
            ELSE IF i < k THEN NodeHash(below, proof[m]) ELSE NodeHash(proof[m], below)
  IN  up[<<index, size, Len(proof)>>]

(* The path is made canonical before it is hashed; the content is not.     *)
VerifyOpening(root, opening) ==
  IF opening.index >= USIZE \/ opening.size >= USIZE \/ opening.index >= opening.size
    THEN Err("InvalidProof")
    ELSE AndThen(CanonicalPath(opening.path), LAMBDA path :
           IF Fold(LeafHash(path, opening.content), opening.index, opening.size, opening.proof)
                = root
             THEN Ok("verified") ELSE Err("InvalidProof"))

=============================================================================
