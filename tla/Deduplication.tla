----------------------------- MODULE Deduplication -----------------------------
(***************************************************************************)
(* The staged lookup of duplicates (dedup.py over simhash.py and the band  *)
(* indexes of the articles table) and the cleaning worker that asks it     *)
(* before it stores an article.  The embedding worker asks it again, about *)
(* a stored article among the others.                                      *)
(*                                                                         *)
(* An unsigned 64-bit integer is the set of its one bits; the bigint that  *)
(* Postgres keeps also has a sign, which its >> repeats from the left.     *)
(* Articles takes the relation "near" as given and follows the texts       *)
(* through the workers; here the relation is computed.                     *)
(***************************************************************************)
EXTENDS Integers, Sequences, FiniteSets

CONSTANTS
    Bands, BandBits,   \* BANDS, BAND_BITS: the 64 bits are Bands * BandBits
    Threshold,         \* hamming_threshold
    GrayZone,          \* GRAY_ZONE_HAMMING
    Limit,             \* how many rows the candidate query returns
    MaxCandidates,     \* how many gray candidates are passed on
    FeatureHash(_),    \* _feature_hash: the one bits of a shingle's blake2b
    Bodies,            \* the texts of the articles: sequences of words
    Bylines,           \* what content_hash reads beside the text
    Ids,               \* articles, by canonical URL
    Cleaners,          \* cleaning workers
    None

ASSUME DeduplicationAssumption ==
    /\ Bands \in Nat \ {0} /\ BandBits \in Nat \ {0}
    /\ Threshold \in 0 .. Bands - 1      \* DedupService refuses any other
    /\ GrayZone \in Nat /\ Limit \in Nat \ {0} /\ MaxCandidates \in Nat \ {0}
    /\ None \notin Ids
    /\ IsFiniteSet(Ids)

VARIABLES
    rows,      \* the articles row of each canonical URL: its text and its simhash
    lookup,    \* the new article that each cleaner has looked up and not committed yet
    exempt     \* history: articles whose lookup does not speak for the table as it is

vars == <<rows, lookup, exempt>>

-----------------------------------------------------------------------------
(* simhash.py                                                              *)
Width == Bands * BandBits
Bits == 0 .. Width - 1
BandIds == 0 .. Bands - 1
Unsigned == SUBSET Bits
Signed == [bits : Unsigned, negative : BOOLEAN]

\* Word 2-gram shingles; a single word is its own shingle.
Features(body) ==
    IF Len(body) = 0 THEN <<>>
    ELSE IF Len(body) = 1 THEN <<body>>
    ELSE [i \in 1 .. Len(body) - 1 |-> SubSeq(body, i, i + 1)]

\* A bit is set when more features vote for it than against it.
SimHash == [body \in Bodies |->
    LET features == Features(body)
        VotesFor(bit) == {i \in DOMAIN features : bit \in FeatureHash(features[i])}
    IN  {bit \in Bits : 2 * Cardinality(VotesFor(bit)) > Len(features)}]

Differing(a, b) == (a \ b) \cup (b \ a)
Hamming(a, b) == Cardinality(Differing(a, b))

\* The band of an unsigned value, low band first.
Band(value, band) == {i \in 0 .. BandBits - 1 : i + band * BandBits \in value}

ToSigned(value) == [bits |-> value, negative |-> Width - 1 \in value]
ToUnsigned(column) == column.bits

\* ((simhash >> shift) & mask), as Postgres computes it of a bigint.
ShiftRight(column, shift) ==
    [bits |-> {i \in Bits : IF i + shift < Width THEN i + shift \in column.bits
                            ELSE column.negative},
     negative |-> column.negative]
SqlBand(column, band) ==
    ShiftRight(column, band * BandBits).bits \cap (0 .. BandBits - 1)

-----------------------------------------------------------------------------
(* dedup.py                                                                *)
Texts == [body : Bodies, byline : Bylines]
Stored == {id \in Ids : rows[id] # None}
Row(text) == [text |-> text, simhash |-> ToSigned(SimHash[text.body])]

\* Mutant of SharesBand: the band predicates are combined with AND.
SharesEveryBand(column, value) ==
    \A band \in BandIds : SqlBand(column, band) = Band(value, band)

SharesBand(column, value) ==
    \E band \in BandIds : SqlBand(column, band) = Band(value, band)

Distance(id, value) == Hamming(value, ToUnsigned(rows[id].simhash))

\* Without an ORDER BY, the query answers with any Limit of the rows that match.
Matching(value, others) == {id \in others : SharesBand(rows[id].simhash, value)}
Fetched(value, others) ==
    LET matching == Matching(value, others)
    IN  IF Cardinality(matching) <= Limit THEN {matching}
        ELSE {some \in SUBSET matching : Cardinality(some) = Limit}

NoDuplicate == [original |-> None, candidates |-> {}]
DuplicateOf(id) == [original |-> id, candidates |-> {}]

\* The gray rows, the nearest MaxCandidates of them.
\* Mutant of Nearest: the list is cut before it is sorted.
NearestUnsorted(gray, value) ==
    {some \in SUBSET gray : Cardinality(some) = MaxCandidates}

Nearest(gray, value) ==
    {some \in SUBSET gray :
        /\ Cardinality(some) = MaxCandidates
        /\ \A id \in some, other \in gray \ some : Distance(id, value) <= Distance(other, value)}

IsNear(id, value) == Distance(id, value) <= Threshold

FindNear(value, others) ==
    UNION {LET near == {id \in fetched : IsNear(id, value)}
               gray == {id \in fetched : ~IsNear(id, value) /\ Distance(id, value) <= GrayZone}
           IN  IF near # {}
               THEN {DuplicateOf(id) : id \in {i \in near :
                        \A other \in near : Distance(i, value) <= Distance(other, value)}}
               ELSE IF Cardinality(gray) <= MaxCandidates
               THEN {[original |-> None, candidates |-> gray]}
               ELSE {[original |-> None, candidates |-> some] : some \in Nearest(gray, value)}
           : fetched \in Fetched(value, others)}

FindExact(text, others) == {id \in others : rows[id].text = text}

\* The answers find_duplicate may give about a text, among other articles.
FindDuplicate(text, others) ==
    LET exact == FindExact(text, others)
        value == SimHash[text.body]
    IN  IF exact # {} THEN {DuplicateOf(id) : id \in exact}
        ELSE IF value = {} THEN {NoDuplicate}
        ELSE FindNear(value, others)

-----------------------------------------------------------------------------
Init ==
    /\ rows = [id \in Ids |-> None]
    /\ lookup = [c \in Cleaners |-> None]
    /\ exempt = {}

\* A lookup that another commit overtakes does not know what that one wrote.
Overtaken(c) ==
    [d \in Cleaners |-> IF d = c THEN None
                        ELSE IF lookup[d] = None THEN None
                        ELSE [lookup[d] EXCEPT !.stale = TRUE]]

\* Mutant of LookUp: only the exact stage keeps an article from being stored.
LookUpExact(c, id, text) ==
    /\ lookup[c] = None /\ rows[id] = None
    /\ FindExact(text, Stored) = {}
    /\ lookup' = [lookup EXCEPT ![c] = [id |-> id, text |-> text, stale |-> FALSE]]
    /\ UNCHANGED <<rows, exempt>>

\* persist: an article with a new URL is looked up; a duplicate is not stored ...
LookUp(c, id, text) ==
    /\ lookup[c] = None /\ rows[id] = None
    /\ \E answer \in FindDuplicate(text, Stored) :
          /\ answer.original = None
          /\ lookup' = [lookup EXCEPT ![c] =
                [id |-> id, text |-> text,
                 stale |-> Cardinality(Matching(SimHash[text.body], Stored)) > Limit]]
    /\ UNCHANGED <<rows, exempt>>

\* ... and another one is, unless its URL was taken meanwhile: then the transaction
\* fails and the page comes back.
Create(c) ==
    /\ lookup[c] # None
    /\ rows[lookup[c].id] = None
    /\ rows' = [rows EXCEPT ![lookup[c].id] = Row(lookup[c].text)]
    /\ lookup' = Overtaken(c)
    /\ exempt' = IF lookup[c].stale THEN exempt \cup {lookup[c].id} ELSE exempt

CreateFails(c) ==
    /\ lookup[c] # None /\ rows[lookup[c].id] # None
    /\ lookup' = [lookup EXCEPT ![c] = None]
    /\ UNCHANGED <<rows, exempt>>

\* _update_existing: a known URL with another text is stored without a lookup.  Of two
\* updates that read the same version only one commits, the other violates the unique key
\* of (article_id, version) and is rolled back: a row is read and written as in one step.
Update(c, id, text) ==
    /\ lookup[c] = None /\ rows[id] # None /\ rows[id].text # text
    /\ rows' = [rows EXCEPT ![id] = Row(text)]
    /\ lookup' = Overtaken(c)
    /\ exempt' = exempt \cup {id}

Next ==
    \/ \E c \in Cleaners, id \in Ids, text \in Texts : LookUp(c, id, text) \/ Update(c, id, text)
    \/ \E c \in Cleaners : Create(c) \/ CreateFails(c)

Spec == Init /\ [][Next]_vars

-----------------------------------------------------------------------------
(* What the lookup promises.                                               *)

\* Every variable holds values of its type; a row's simhash is a signed one.
TypeOK ==
    /\ rows \in [Ids -> {None} \cup [text : Texts, simhash : Signed]]
    /\ lookup \in [Cleaners -> {None} \cup [id : Ids, text : Texts, stale : BOOLEAN]]
    /\ exempt \subseteq Ids

\* How far apart two texts really are, whatever is stored of them.
Apart(text, id) == Hamming(SimHash[text.body], SimHash[rows[id].text.body])

\* simhash.py: "two hashes within Hamming distance 3 must agree exactly on at least
\* one band".  In every table, and for every text, four probes of signed columns find
\* what a comparison with all rows would: the nearest article within the threshold
\* when there is one, and none otherwise.  The rows that match must fit the query's limit.
LookupIsExact ==
    \A text \in Texts, except \in Ids \cup {None} :
        LET others == Stored \ {except}
            near   == {id \in others : Apart(text, id) <= Threshold}
        IN  /\ FindExact(text, others) = {} /\ SimHash[text.body] # {}
            /\ Cardinality(Matching(SimHash[text.body], others)) <= Limit
            => \A answer \in FindDuplicate(text, others) :
                  IF near = {} THEN answer.original = None
                  ELSE /\ answer.original \in near
                       /\ \A id \in near : Apart(text, answer.original) <= Apart(text, id)

\* dedup.py: gray candidates are above the threshold and inside the gray zone, and
\* one that was found and not passed on is no nearer than those that are.
CandidatesAreGray ==
    \A text \in Texts, except \in Ids \cup {None} :
        LET others == Stored \ {except}
            value  == SimHash[text.body]
            gray   == {id \in Matching(value, others) : Apart(text, id) \in Threshold + 1 .. GrayZone}
        IN  \A answer \in FindDuplicate(text, others) :
              /\ answer.candidates \subseteq gray
              /\ Cardinality(answer.candidates) <= MaxCandidates
              /\ Cardinality(Matching(value, others)) <= Limit =>
                    \A id \in answer.candidates, other \in gray \ answer.candidates :
                        Apart(text, id) <= Apart(text, other)

\* articles.py: "different URL but same/near-same content as another article is not
\* persisted".  No two articles of the table have the same or nearly the same text,
\* except for those that were updated since they were stored, whose lookup met more
\* rows than it may read, or whose lookup another commit has overtaken.
StoredAreApart ==
    \A a, b \in Stored \ exempt :
        a # b =>
            /\ rows[a].text # rows[b].text
            /\ SimHash[rows[a].text.body] # {} /\ SimHash[rows[b].text.body] # {}
               => Apart(rows[a].text, b) > Threshold
=============================================================================
