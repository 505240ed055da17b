--------------------------- MODULE DatasetSelection ---------------------------
(***************************************************************************)
(* process_dataset(): the images of a data set are judged in their order,  *)
(* those worth a place in it get objects, and some of them are recommended *)
(* for training.                                                           *)
(***************************************************************************)
EXTENDS Integers, FiniteSets, SequencesExt

CONSTANTS
  \* The contents of files, by what _magic(), _decode_image() and _quality() make of them
  Normal,
  Challenging,    \* a sequence: by falling score, equal scores by digest
  Unusable,
  Undecodable,
  MaxImages       \* bound: files of a data set, below dataset_max_images

ASSUME DatasetAssumption ==
  /\ Challenging \in Seq(ToSet(Challenging))
  /\ \A i, j \in DOMAIN Challenging : Challenging[i] = Challenging[j] => i = j
  /\ Normal \cap ToSet(Challenging) = {}
  /\ (Normal \cup ToSet(Challenging)) \cap (Unusable \cup Undecodable) = {}
  /\ Unusable \cap Undecodable = {}
  /\ MaxImages \in Nat \ {0}

VARIABLE
  entries  \* what the manifest will say of each file

Contents == Normal \cup ToSet(Challenging) \cup Unusable \cup Undecodable
DatasetInit == entries = <<>>

-----------------------------------------------------------------------------

Category(content) ==
  CASE content \in Undecodable -> "rejected"
    [] content \in Unusable -> "unusable"
    [] content \in Normal -> "normal"
    [] OTHER -> "challenging"

\* Only what could be decoded has been seen.
Seen == {entries[i].content : i \in {j \in DOMAIN entries : entries[j].category # "rejected"}}

\* The next file; a suffix that contradicts the content fails the job.
Judge ==
  /\ Len(entries) < MaxImages
  /\ \E content \in Contents :
       entries' = Append(entries, [content |-> content, category |-> Category(content),
                                   duplicate |-> content \in Seen, keys |-> FALSE])

-----------------------------------------------------------------------------
(* What is uploaded and exported *)

Usable == {i \in DOMAIN entries : entries[i].category \notin {"unusable", "rejected"}}

Of(category) == {i \in DOMAIN entries : entries[i].category = category}
Distinct(category) == {i \in Of(category) : ~entries[i].duplicate}

Rank(i) == CHOOSE n \in DOMAIN Challenging : Challenging[n] = entries[i].content

\* Mutation: copies count as normal images.
CapWithCopies == Cardinality(Of("normal")) \div 4
Cap == Cardinality(Distinct("normal")) \div 4

\* _recommended()
Recommended ==
  LET challenging == Distinct("challenging")
  IN  Distinct("normal")
        \cup {i \in challenging : Cardinality({j \in challenging : Rank(j) < Rank(i)}) < Cap}

\* The images of the two archives
Accepted == {i \in Usable : ~entries[i].duplicate}

\* Mutation: recommended images only
UploadsRecommended == [i \in DOMAIN entries |-> [entries[i] EXCEPT !.keys = i \in Recommended]]
\* Every usable image gets two objects.
Uploaded == [i \in DOMAIN entries |-> [entries[i] EXCEPT !.keys = i \in Usable]]

-----------------------------------------------------------------------------
(* Properties *)

\* Of a data set that is published, training is recommended every normal content once and
\* no content twice; at most a fifth is challenging, there is no room for another, and
\* none that was left out is better; and all of it is in both archives.
RecommendedFair ==
  Usable # {} =>
    LET normal == Recommended \cap Of("normal")
        challenging == Recommended \cap Of("challenging")
        left == Of("challenging") \ challenging
        contents == {entries[i].content : i \in challenging}
    IN  /\ {entries[i].content : i \in normal} = Normal \cap Seen
        /\ Cardinality({entries[i].content : i \in Recommended}) = Cardinality(Recommended)
        /\ Recommended = normal \cup challenging /\ Recommended \subseteq Accepted
        /\ 5 * Cardinality(challenging) <= Cardinality(Recommended)
        /\ \A i \in left : entries[i].content \notin contents =>
             /\ 5 * (Cardinality(challenging) + 1) > Cardinality(Recommended) + 1
             /\ \A j \in challenging : Rank(j) < Rank(i)

=============================================================================
