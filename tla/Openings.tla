------------------------------ MODULE Openings ------------------------------
(***************************************************************************)
(* Publishing a bundle, opening one of its files, carrying the opening to  *)
(* a verifier that knows only the root, and verifying it there.            *)
(*                                                                         *)
(* The witness channel authenticates nothing: between open_file and        *)
(* verify_opening each field of the opening may become any other value of  *)
(* its type.  The siblings that may arrive are the hashes a holder of the  *)
(* bundle can compute; the rest cannot fold to the root.                   *)
(***************************************************************************)
EXTENDS Merkle

CONSTANTS
  FileLists,   (* file lists offered for publication                       *)
  Channel(_)   (* for a list, the paths asked for, and the paths, contents *)
               (* and sizes (u64, a bound) an opening may arrive with      *)

(* next_power_of_two does not wrap for lists of half the numbers of a usize. *)
ASSUME OpeningsAssumption ==
  \A list \in FileLists :
    /\ list \in Seq(File) /\ Len(list) <= USIZE \div 2
    /\ Channel(list).paths \subseteq Seq(Nat)
    /\ Channel(list).sizes \subseteq Nat

VARIABLES
  offered,    (* the list of files                                     *)
  published,  (* Result of bundle_hash, None before                    *)
  sent,       (* Result of open_file, None before                      *)
  arrived,    (* the opening at the verifier, None before              *)
  verdict     (* Result of verify_opening, None before                 *)

openingVars == <<offered, published, sent, arrived, verdict>>

Opening == arrived.val

(* The hash of every subtree of the offered list: leaves and nodes. *)
SubtreeHashes ==
  LET leaves == Leaves(SortedEntries(offered).val)
      hashes[slice \in Slices(Len(leaves))] ==
        LET lo == slice[1]
            hi == slice[2]
            middle == lo + SplitPoint(hi - lo + 1)
        IN  {TreeRoot(leaves, lo, hi)} \cup
              (IF lo >= hi THEN {} ELSE hashes[<<lo, middle - 1>>] \cup hashes[<<middle, hi>>])
  IN  hashes[<<1, Len(leaves)>>]

OpeningsInit ==
  /\ offered \in FileLists
  /\ published = None /\ sent = None /\ arrived = None /\ verdict = None

Publish ==
  /\ published = None
  /\ published' = BundleHash(offered)
  /\ UNCHANGED <<offered, sent, arrived, verdict>>

Open(path) ==
  /\ published.ok /\ sent = None
  /\ sent' = OpenFile(offered, path)
  /\ UNCHANGED <<offered, published, arrived, verdict>>

Deliver ==
  /\ sent.ok /\ arrived = None
  /\ arrived' = sent
  /\ UNCHANGED <<offered, published, sent, verdict>>

(* An opening whose fields are not what open_file returned. *)
Altered(o) ==
  LET n == Len(o.proof)
      siblings == SubtreeHashes
      shortened == {SubSeq(o.proof, 1, m) : m \in 0 .. n} \cup {SubSeq(o.proof, m, n) : m \in 1 .. n}
      replaced == {[o.proof EXCEPT ![i] = h] : i \in 1 .. n, h \in siblings}
      extended == {Append(o.proof, h) : h \in siblings}
      values == Channel(offered)
  IN  [path : values.paths, content : values.contents, index : values.sizes,
       size : values.sizes, proof : shortened \cup replaced \cup extended]

DeliverAltered ==
  /\ sent.ok /\ arrived = None
  /\ \E o \in Altered(sent.val) : arrived' = Ok(o)
  /\ UNCHANGED <<offered, published, sent, verdict>>

Verify ==
  /\ arrived.ok /\ verdict = None
  /\ verdict' = VerifyOpening(published.val, Opening)
  /\ UNCHANGED <<offered, published, sent, arrived>>

OpeningsNext ==
  \/ Publish
  \/ \E path \in Channel(offered).asked : Open(path)
  \/ Deliver
  \/ DeliverAltered
  \/ Verify

OpeningsSpec == OpeningsInit /\ [][OpeningsNext]_openingVars

-----------------------------------------------------------------------------
(* The files a list stands for, said without the code's canonicalisation:  *)
(* a path is its sequence of parts, a content its text with every line     *)
(* break the same (a CR before an LF is dropped, any other CR is a break). *)

Parts(path) ==
  LET cut[n \in 0 .. Len(path)] ==
        IF n = 0 THEN << <<>> >>
        ELSE IF path[n] \in Separators THEN Append(cut[n - 1], <<>>)
             ELSE LET parts == cut[n - 1]
                  IN  [parts EXCEPT ![Len(parts)] = Append(@, path[n])]
  IN  cut[Len(path)]

Text(content) ==
  LET kept == InOrder({i \in DOMAIN content :
                         ~(content[i] = CR /\ i < Len(content) /\ content[i + 1] = LF)})
  IN  [j \in DOMAIN kept |-> IF content[kept[j]] = CR THEN LF ELSE content[kept[j]]]

Denotes(list) == {<<Parts(list[i].path), Text(list[i].content)>> : i \in DOMAIN list}

Accepted == verdict.ok

(***************************************************************************)
(* Soundness: whatever opening arrives, an accepted one names a file of    *)
(* the published bundle and carries its text (bundle.rs:426-439).  No      *)
(* index, size or proof makes another path or content reach the root.      *)
(***************************************************************************)
AcceptedFilesArePublished ==
  Accepted => <<Parts(Opening.path), Opening.content>> \in Denotes(offered)

(***************************************************************************)
(* Completeness: an opening that arrives as open_file returned it is       *)
(* accepted, for every file of every bundle size (the two recursions,      *)
(* build_proof and fold, split at the same points).                        *)
(***************************************************************************)
HonestOpeningsVerify ==
  (verdict # None /\ arrived = sent) => Accepted

(***************************************************************************)
(* Two lists have the same root exactly when they stand for the same files,*)
(* whatever the order, the separators and the line endings they were       *)
(* offered with (bundle.rs:3-8): the root identifies the bundle.  Said of   *)
(* the state of publication, after which root and files stay.             *)
(***************************************************************************)
RootIdentifiesTheFiles ==
  (published.ok /\ sent = None) =>
    \A other \in FileLists :
      BundleHash(other).ok => (BundleHash(other) = published <=> Denotes(other) = Denotes(offered))

(***************************************************************************)
(* An inclusion proof of a bundle of n files has at most log2 n siblings,  *)
(* rounded up, which is what makes the cost in the guest small (contract   *)
(* section 4); a wrong split would still round-trip (bundle.rs:645-646).   *)
(***************************************************************************)
ProofsAreShort ==
  (sent.ok /\ sent.val.proof # <<>>) =>
    TwoTo[Len(sent.val.proof) - 1] < sent.val.size

(***************************************************************************)
(* bundle.rs:423-425: an opening that names a path that is not canonical   *)
(* is rejected with InvalidPath.                                           *)
(***************************************************************************)
AcceptsOnlyCanonicalPaths ==
  Accepted => CanonicalPath(Opening.path) = Ok(Opening.path)

=============================================================================
