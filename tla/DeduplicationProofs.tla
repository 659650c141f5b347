-------------------------- MODULE DeduplicationProofs --------------------------
(***************************************************************************)
(* Theorems about Deduplication, for any width and number of bands, any    *)
(* shingle hash, and any finite set of articles.                           *)
(***************************************************************************)
EXTENDS Deduplication, FiniteSetTheorems, TLAPS

USE DeduplicationAssumption DEF BandIds, Bits

-----------------------------------------------------------------------------
(* The bands of a word.                                                    *)

\* A bit of a band is a bit of the word.
LEMMA BandPosition ==
    ASSUME NEW i \in 0 .. BandBits - 1, NEW band \in BandIds
    PROVE  i + band * BandBits \in Bits
  <1> DEFINE above == Bands - 1 - band
  <1>1. above \in Nat /\ band \in Nat
    OBVIOUS
  <1>2. above * BandBits \in Nat /\ band * BandBits \in Nat
    BY <1>1
  <1>3. Width = above * BandBits + band * BandBits + BandBits
    BY <1>1 DEF Width
  <1>4. QED
    BY <1>2, <1>3

\* No bit belongs to two bands.
LEMMA BandsAreDisjoint ==
    ASSUME NEW i \in 0 .. BandBits - 1, NEW j \in 0 .. BandBits - 1,
           NEW b \in BandIds, NEW c \in BandIds,
           i + b * BandBits = j + c * BandBits
    PROVE  b = c
  <1>1. ASSUME NEW k \in 0 .. BandBits - 1, NEW l \in 0 .. BandBits - 1,
               NEW d \in BandIds, NEW e \in BandIds, d < e
        PROVE  k + d * BandBits # l + e * BandBits
    <2> DEFINE gap == e - d - 1
    <2>1. gap \in Nat /\ d \in Nat
      BY <1>1
    <2>2. gap * BandBits \in Nat /\ d * BandBits \in Nat
      BY <2>1
    <2>3. e * BandBits = d * BandBits + gap * BandBits + BandBits
      BY <2>1
    <2>4. QED
      BY <2>2, <2>3
  <1>2. b \in Int /\ c \in Int
    OBVIOUS
  <1>3. QED
    BY <1>1, <1>2

\* Shifting a signed column gives the same bands as shifting the unsigned value: the
\* sign that comes in from the left does not reach the mask.
LEMMA SqlBandIsBand ==
    ASSUME NEW value \in Unsigned, NEW band \in BandIds
    PROVE  SqlBand(ToSigned(value), band) = Band(value, band)
  <1>1. ASSUME NEW i \in 0 .. BandBits - 1
        PROVE  /\ i \in Bits
               /\ i + band * BandBits < Width
    <2>1. i \in Bits
      <3>1. 0 \in BandIds /\ 0 * BandBits = 0
        OBVIOUS
      <3>2. i + 0 * BandBits \in Bits
        BY <3>1, BandPosition
      <3>3. QED
        BY <3>1, <3>2
    <2>2. i + band * BandBits \in Bits
      BY BandPosition
    <2>3. Width \in Int
      BY DEF Width
    <2>4. QED
      BY <2>1, <2>2, <2>3
  <1>2. QED
    BY <1>1 DEF SqlBand, ShiftRight, ToSigned, Band

-----------------------------------------------------------------------------
(* The pigeonhole principle of simhash.py.                                 *)

LEMMA DifferingIsFinite ==
    ASSUME NEW a \in Unsigned, NEW b \in Unsigned
    PROVE  /\ IsFiniteSet(Differing(a, b))
           /\ Hamming(a, b) \in Nat
           /\ Hamming(a, b) = Hamming(b, a)
  <1>1. Width \in Int
    BY DEF Width
  <1>2. IsFiniteSet(Bits)
    BY <1>1, FS_Interval
  <1>3. Differing(a, b) \in SUBSET Bits
    BY DEF Unsigned, Differing
  <1>4. IsFiniteSet(Differing(a, b))
    BY <1>2, <1>3, FS_Subset
  <1>5. Differing(a, b) = Differing(b, a)
    BY DEF Differing
  <1>6. QED
    BY <1>4, <1>5, FS_CardinalityType DEF Hamming

\* simhash.py: values that differ in fewer bits than there are bands agree on a whole
\* band, as the query computes it of the signed column: otherwise every band would
\* hold a differing bit of its own.
THEOREM PigeonHole ==
    ASSUME NEW a \in Unsigned, NEW b \in Unsigned, Hamming(b, a) < Bands
    PROVE  SharesBand(ToSigned(a), b)
  <1> SUFFICES ASSUME \A band \in BandIds : Band(a, band) # Band(b, band)
               PROVE  FALSE
    BY SqlBandIsBand DEF SharesBand
  <1> DEFINE D == Differing(b, a)
             In(p, band) == \E i \in 0 .. BandBits - 1 : p = i + band * BandBits
             f == [band \in BandIds |-> CHOOSE p \in D : In(p, band)]
  <1>1. ASSUME NEW band \in BandIds
        PROVE  \E p \in D : In(p, band)
    <2>1. PICK i \in 0 .. BandBits - 1 :
             ~ (i + band * BandBits \in a <=> i + band * BandBits \in b)
      BY DEF Band
    <2>2. i + band * BandBits \in D
      BY <2>1 DEF Differing
    <2>3. QED
      BY <2>2
  <1>2. \A band \in BandIds : f[band] \in D /\ In(f[band], band)
    BY <1>1
  <1>3. ASSUME NEW x \in BandIds, NEW y \in BandIds, f[x] = f[y]
        PROVE  x = y
    <2>1. PICK i \in 0 .. BandBits - 1 : f[x] = i + x * BandBits
      BY <1>2
    <2>2. PICK j \in 0 .. BandBits - 1 : f[y] = j + y * BandBits
      BY <1>2
    <2>3. QED
      BY <2>1, <2>2, <1>3, BandsAreDisjoint
  <1>4. f \in Injection(BandIds, D)
    <2>1. f \in [BandIds -> D]
      BY <1>2
    <2>2. QED
      BY <2>1, <1>3 DEF Injection, IsInjective
  <1>5. IsFiniteSet(D)
    BY DifferingIsFinite
  <1>6. Cardinality(BandIds) <= Cardinality(D)
    BY <1>4, <1>5, FS_Injection
  <1>7. Cardinality(BandIds) = Bands
    BY FS_Interval
  <1>8. Cardinality(D) \in Nat /\ Cardinality(D) < Bands
    BY <1>5, FS_CardinalityType DEF Hamming
  <1>9. QED
    BY <1>6, <1>7, <1>8

-----------------------------------------------------------------------------
(* The lookup.                                                             *)

\* The simhash of a row is that of its text: no operation stores one without the other.
RowsAgree == \A id \in Stored : rows[id] = Row(rows[id].text)

LEMMA SimHashType ==
    \A text \in Texts : SimHash[text.body] \in Unsigned
  BY DEF SimHash, Unsigned, Texts

LEMMA RowType ==
    ASSUME NEW text \in Texts
    PROVE  Row(text) \in [text : Texts, simhash : Signed]
  <1>1. SimHash[text.body] \in Unsigned
    BY SimHashType
  <1>2. ToSigned(SimHash[text.body]) \in Signed
    BY <1>1 DEF ToSigned, Signed
  <1>3. QED
    BY <1>2 DEF Row

\* What the lookup compares is what the texts are apart.
LEMMA DistanceIsApart ==
    ASSUME TypeOK, RowsAgree, NEW id \in Stored, NEW text \in Texts
    PROVE  /\ rows[id].text \in Texts
           /\ Distance(id, SimHash[text.body]) = Apart(text, id)
           /\ Apart(text, id) \in Nat
  <1>1. rows[id].text \in Texts /\ rows[id] = Row(rows[id].text)
    BY DEF TypeOK, RowsAgree, Stored
  <1>2. rows[id].simhash.bits = SimHash[rows[id].text.body]
    BY <1>1 DEF Row, ToSigned
  <1>3. Apart(text, id) \in Nat
    BY <1>1, SimHashType, DifferingIsFinite DEF Apart
  <1>4. QED
    BY <1>1, <1>2, <1>3 DEF Distance, Apart, ToUnsigned

\* Every row within the threshold is among those that the band predicates select.
LEMMA NearIsMatched ==
    ASSUME TypeOK, RowsAgree, NEW id \in Stored, NEW text \in Texts,
           Apart(text, id) <= Threshold
    PROVE  SharesBand(rows[id].simhash, SimHash[text.body])
  <1>1. rows[id].text \in Texts /\ rows[id] = Row(rows[id].text)
    BY DistanceIsApart DEF RowsAgree
  <1>2. /\ SimHash[rows[id].text.body] \in Unsigned
        /\ SimHash[text.body] \in Unsigned
    BY <1>1, SimHashType
  <1>3. Hamming(SimHash[text.body], SimHash[rows[id].text.body]) < Bands
    BY DistanceIsApart DEF Apart
  <1>4. rows[id].simhash = ToSigned(SimHash[rows[id].text.body])
    BY <1>1 DEF Row
  <1>5. QED
    BY <1>2, <1>3, <1>4, PigeonHole

\* The answer of the near stage, when the query returns all rows that match.
LEMMA NearIsFound ==
    ASSUME TypeOK, RowsAgree, NEW others \in SUBSET Stored, NEW text \in Texts,
           FindExact(text, others) = {}, SimHash[text.body] # {},
           Cardinality(Matching(SimHash[text.body], others)) <= Limit,
           NEW answer \in FindDuplicate(text, others)
    PROVE  LET near == {id \in others : Apart(text, id) <= Threshold}
           IN  IF near = {} THEN answer.original = None
               ELSE /\ answer.original \in near
                    /\ \A id \in near : Apart(text, answer.original) <= Apart(text, id)
  <1> DEFINE value == SimHash[text.body]
             matching == Matching(value, others)
             near == {id \in others : Apart(text, id) <= Threshold}
             found == {id \in matching : IsNear(id, value)}
             gray == {id \in matching : ~IsNear(id, value) /\ Distance(id, value) <= GrayZone}
  <1>1. \A id \in others : Distance(id, value) = Apart(text, id)
    BY DistanceIsApart
  <1>2. found = near
    BY <1>1, NearIsMatched DEF IsNear, Matching
  <1>3. answer \in FindNear(value, others)
    BY DEF FindDuplicate
  <1>4. Fetched(value, others) = {matching}
    BY DEF Fetched
  <1>5. CASE near = {}
    <2>1. answer.original = None
      BY <1>2, <1>3, <1>4, <1>5 DEF FindNear
    <2>2. QED
      BY <2>1, <1>5
  <1>6. CASE near # {}
    <2>1. answer \in {DuplicateOf(id) : id \in {i \in found :
                         \A other \in found : Distance(i, value) <= Distance(other, value)}}
      BY <1>2, <1>3, <1>4, <1>6 DEF FindNear
    <2>2. PICK i \in found : /\ answer = DuplicateOf(i)
                             /\ \A other \in found : Distance(i, value) <= Distance(other, value)
      BY <2>1
    <2>3. answer.original = i
      BY <2>2 DEF DuplicateOf
    <2>4. QED
      BY <2>2, <2>3, <1>1, <1>2, <1>6
  <1>7. QED
    BY <1>5, <1>6

\* The candidates of an answer, whichever of the matching rows the query returned.
LEMMA CandidatesOfAnswer ==
    ASSUME TypeOK, RowsAgree, NEW others \in SUBSET Stored, NEW text \in Texts,
           NEW answer \in FindDuplicate(text, others)
    PROVE  LET value == SimHash[text.body]
               gray  == {id \in Matching(value, others) :
                            Apart(text, id) \in Threshold + 1 .. GrayZone}
           IN  /\ answer.candidates \subseteq gray
               /\ Cardinality(answer.candidates) <= MaxCandidates
               /\ Cardinality(Matching(value, others)) <= Limit =>
                     \A id \in answer.candidates, other \in gray \ answer.candidates :
                         Apart(text, id) <= Apart(text, other)
  <1> DEFINE value == SimHash[text.body]
             matching == Matching(value, others)
             gray == {id \in matching : Apart(text, id) \in Threshold + 1 .. GrayZone}
             grayOf(some) == {id \in some : ~IsNear(id, value) /\ Distance(id, value) <= GrayZone}
             nearOf(some) == {id \in some : IsNear(id, value)}
  <1>1. \A id \in others : Distance(id, value) = Apart(text, id) /\ Apart(text, id) \in Nat
    BY DistanceIsApart
  <1>2. matching \subseteq others
    BY DEF Matching
  <1>3. CASE answer.candidates = {}
    <2>1. Cardinality({}) = 0
      BY FS_EmptySet
    <2>2. QED
      BY <1>3, <2>1
  <1>4. CASE answer.candidates # {}
    <2>1. answer \in FindNear(value, others)
      <3>1. FindExact(text, others) = {}
        BY <1>4 DEF FindDuplicate, DuplicateOf
      <3>2. value # {}
        BY <3>1, <1>4 DEF FindDuplicate, NoDuplicate
      <3>3. QED
        BY <3>1, <3>2 DEF FindDuplicate
    <2>2. PICK fetched \in Fetched(value, others) :
              answer \in IF nearOf(fetched) # {}
                         THEN {DuplicateOf(id) : id \in {i \in nearOf(fetched) :
                                  \A other \in nearOf(fetched) :
                                     Distance(i, value) <= Distance(other, value)}}
                         ELSE IF Cardinality(grayOf(fetched)) <= MaxCandidates
                         THEN {[original |-> None, candidates |-> grayOf(fetched)]}
                         ELSE {[original |-> None, candidates |-> some] :
                                  some \in Nearest(grayOf(fetched), value)}
      BY <2>1 DEF FindNear
    <2>3. nearOf(fetched) = {}
      <3>1. \A id : DuplicateOf(id).candidates = {}
        BY DEF DuplicateOf
      <3>2. QED
        BY <2>2, <3>1, <1>4
    <2>4. fetched \subseteq matching /\ (Cardinality(matching) <= Limit => fetched = matching)
      BY DEF Fetched
    <2>5. grayOf(fetched) = fetched \cap gray
      <3>1. \A id \in matching : ~IsNear(id, value) /\ Distance(id, value) <= GrayZone
                                 <=> Apart(text, id) \in Threshold + 1 .. GrayZone
        BY <1>1, <1>2 DEF IsNear
      <3>2. QED
        BY <3>1, <2>4
    <2>6. CASE Cardinality(grayOf(fetched)) <= MaxCandidates
      <3>1. answer.candidates = grayOf(fetched)
        BY <2>2, <2>3, <2>6
      <3>2. QED
        BY <3>1, <2>4, <2>5, <2>6
    <2>7. CASE ~(Cardinality(grayOf(fetched)) <= MaxCandidates)
      <3>1. answer.candidates \in Nearest(grayOf(fetched), value)
        BY <2>2, <2>3, <2>7
      <3>2. /\ answer.candidates \subseteq grayOf(fetched)
            /\ Cardinality(answer.candidates) = MaxCandidates
            /\ \A id \in answer.candidates, other \in grayOf(fetched) \ answer.candidates :
                  Distance(id, value) <= Distance(other, value)
        BY <3>1 DEF Nearest
      <3>3. \A id \in gray : Distance(id, value) = Apart(text, id)
        BY <1>1, <1>2
      <3>4. ASSUME Cardinality(matching) <= Limit
            PROVE  grayOf(fetched) = gray
        BY <3>4, <2>4, <2>5
      <3>5. QED
        BY <3>2, <3>3, <3>4, <2>5
    <2>8. QED
      BY <2>6, <2>7
  <1>5. QED
    BY <1>3, <1>4

-----------------------------------------------------------------------------
(* The table.                                                              *)

\* What keeps a lookup that nothing overtook true until it is committed.
LookupsHold ==
    \A c \in Cleaners : lookup[c] # None /\ ~lookup[c].stale =>
        \A id \in Stored :
            /\ rows[id].text # lookup[c].text
            /\ SimHash[lookup[c].text.body] # {} => Apart(lookup[c].text, id) > Threshold

IInv == TypeOK /\ RowsAgree /\ LookupsHold /\ StoredAreApart

LEMMA InitIInv == Init => IInv
  BY DEF Init, IInv, TypeOK, RowsAgree, LookupsHold, StoredAreApart, Stored

\* After a commit no lookup is left that knows the table, but for its own.
LEMMA OvertakenType ==
    ASSUME TypeOK, NEW c \in Cleaners
    PROVE  /\ Overtaken(c) \in [Cleaners -> {None} \cup [id : Ids, text : Texts, stale : BOOLEAN]]
           /\ \A d \in Cleaners : Overtaken(c)[d] # None => Overtaken(c)[d].stale
  BY DEF TypeOK, Overtaken

\* A row that is written anew agrees with its text, and the others still do.
LEMMA WriteRow ==
    ASSUME TypeOK, RowsAgree, NEW id \in Ids, NEW text \in Texts,
           rows' = [rows EXCEPT ![id] = Row(text)]
    PROVE  /\ rows' \in [Ids -> {None} \cup [text : Texts, simhash : Signed]]
           /\ RowsAgree'
           /\ \A other \in Ids \ {id} : rows'[other] = rows[other]
           /\ rows'[id] = Row(text) /\ rows'[id].text = text
  <1>1. Row(text) \in [text : Texts, simhash : Signed] /\ Row(text).text = text
    BY RowType DEF Row
  <1>2. rows' \in [Ids -> {None} \cup [text : Texts, simhash : Signed]]
    BY <1>1 DEF TypeOK
  <1>3. rows'[id] = Row(text) /\ \A other \in Ids \ {id} : rows'[other] = rows[other]
    BY DEF TypeOK
  <1>4. ASSUME NEW other \in Ids, rows'[other] # None
        PROVE  rows'[other] = Row(rows'[other].text)
    BY <1>1, <1>3, <1>4 DEF RowsAgree, Stored
  <1>5. QED
    BY <1>1, <1>2, <1>3, <1>4 DEF RowsAgree, Stored

LEMMA LookUpIInv ==
    ASSUME IInv, NEW c \in Cleaners, NEW id \in Ids, NEW text \in Texts, LookUp(c, id, text)
    PROVE  IInv'
  <1> DEFINE value == SimHash[text.body]
             stale == Cardinality(Matching(value, Stored)) > Limit
  <1> USE DEF IInv
  <1>1. PICK answer \in FindDuplicate(text, Stored) : answer.original = None
    BY DEF LookUp
  <1>2. /\ lookup' = [lookup EXCEPT ![c] = [id |-> id, text |-> text, stale |-> stale]]
        /\ UNCHANGED <<rows, exempt>>
    BY DEF LookUp
  <1>3. TypeOK'
    BY <1>2 DEF TypeOK
  <1>4. RowsAgree' /\ StoredAreApart'
    BY <1>2 DEF RowsAgree, StoredAreApart, Stored, Apart
  <1>5. FindExact(text, Stored) = {}
    <2>1. ASSUME FindExact(text, Stored) # {}
          PROVE  FALSE
      <3>1. PICK i \in FindExact(text, Stored) : answer = DuplicateOf(i)
        BY <1>1, <2>1 DEF FindDuplicate
      <3>2. answer.original = i /\ i \in Ids
        BY <3>1 DEF DuplicateOf, FindExact, Stored
      <3>3. QED
        BY <3>2, <1>1
    <2>2. QED
      BY <2>1
  <1>6. ASSUME ~stale, value # {}, NEW i \in Stored
        PROVE  Apart(text, i) > Threshold
    <2>1. Cardinality(Matching(value, Stored)) \in Nat
      BY FS_Subset, FS_CardinalityType DEF Matching, Stored
    <2>2. Cardinality(Matching(value, Stored)) <= Limit
      BY <2>1, <1>6
    <2>3. {j \in Stored : Apart(text, j) <= Threshold} = {}
      <3> DEFINE near == {j \in Stored : Apart(text, j) <= Threshold}
      <3>1. near # {} => answer.original \in near
        BY <1>1, <1>5, <1>6, <2>2, NearIsFound
      <3>2. None \notin near
        BY DEF Stored
      <3>3. QED
        BY <1>1, <3>1, <3>2
    <2>4. Apart(text, i) \in Nat
      BY DistanceIsApart
    <2>5. QED
      BY <2>3, <2>4, <1>6
  <1>7. LookupsHold'
    <2> SUFFICES ASSUME NEW d \in Cleaners, lookup'[d] # None, ~lookup'[d].stale, NEW i \in Stored
                 PROVE  /\ rows[i].text # lookup'[d].text
                        /\ SimHash[lookup'[d].text.body] # {} =>
                              Apart(lookup'[d].text, i) > Threshold
      BY <1>2 DEF LookupsHold, Stored, Apart
    <2>1. CASE d = c
      <3>1. lookup'[d].text = text /\ lookup'[d].stale = stale
        BY <1>2, <2>1 DEF TypeOK
      <3>2. rows[i].text # text
        BY <1>5 DEF FindExact
      <3>3. QED
        BY <3>1, <3>2, <1>6
    <2>2. CASE d # c
      <3>1. lookup'[d] = lookup[d]
        BY <1>2, <2>2 DEF TypeOK
      <3>2. QED
        BY <3>1 DEF LookupsHold
    <2>3. QED
      BY <2>1, <2>2
  <1>8. QED
    BY <1>3, <1>4, <1>7

LEMMA CreateIInv ==
    ASSUME IInv, NEW c \in Cleaners, Create(c)
    PROVE  IInv'
  <1> DEFINE id == lookup[c].id
             text == lookup[c].text
  <1> USE DEF IInv
  <1>1. lookup[c] \in [id : Ids, text : Texts, stale : BOOLEAN]
    BY DEF Create, TypeOK
  <1>2. id \in Ids /\ text \in Texts /\ lookup[c] # None /\ rows[id] = None
    BY <1>1 DEF Create
  <1>3. /\ rows' = [rows EXCEPT ![id] = Row(text)]
        /\ lookup' = Overtaken(c)
        /\ exempt' = IF lookup[c].stale THEN exempt \cup {id} ELSE exempt
    BY DEF Create
  <1>4. /\ rows' \in [Ids -> {None} \cup [text : Texts, simhash : Signed]]
        /\ RowsAgree'
        /\ \A other \in Ids \ {id} : rows'[other] = rows[other]
        /\ rows'[id].text = text
    BY <1>2, <1>3, WriteRow
  <1>5. TypeOK'
    BY <1>2, <1>3, <1>4, OvertakenType DEF TypeOK
  <1>6. LookupsHold'
    BY <1>3, OvertakenType DEF LookupsHold
  <1>7. StoredAreApart'
    <2> SUFFICES ASSUME NEW a \in Stored' \ exempt', NEW b \in Stored' \ exempt', a # b
                 PROVE  /\ rows'[a].text # rows'[b].text
                        /\ SimHash[rows'[a].text.body] # {} /\ SimHash[rows'[b].text.body] # {}
                           => Hamming(SimHash[rows'[a].text.body], SimHash[rows'[b].text.body])
                                > Threshold
      BY DEF StoredAreApart, Apart
    <2>1. ASSUME NEW i \in Ids \ {id}, rows'[i] # None
          PROVE  i \in Stored /\ rows'[i] = rows[i]
      BY <1>4, <2>1 DEF Stored
    <2>2. a \in Ids /\ b \in Ids /\ rows'[a] # None /\ rows'[b] # None
          /\ a \notin exempt /\ b \notin exempt
      BY <1>3 DEF Stored
    <2>3. ASSUME id \notin exempt', NEW i \in Ids \ {id}, rows'[i] # None
          PROVE  /\ rows[i].text # text
                 /\ SimHash[text.body] # {} => Apart(text, i) > Threshold
      <3>1. ~lookup[c].stale
        BY <1>1, <1>3, <2>3
      <3>2. QED
        BY <2>1, <2>3, <3>1, <1>2 DEF LookupsHold
    <2>4. CASE a = id
      <3>1. rows'[a].text = text /\ b \in Ids \ {id} /\ rows'[b] = rows[b]
        BY <2>1, <2>2, <2>4, <1>4
      <3>2. QED
        BY <3>1, <2>2, <2>3, <2>4 DEF Apart
    <2>5. CASE b = id
      <3>1. rows'[b].text = text /\ a \in Ids \ {id} /\ a \in Stored /\ rows'[a] = rows[a]
        BY <2>1, <2>2, <2>5, <1>4
      <3>2. rows[a].text \in Texts
        BY <3>1, <1>2, DistanceIsApart
      <3>3. Hamming(SimHash[rows[a].text.body], SimHash[text.body])
              = Hamming(SimHash[text.body], SimHash[rows[a].text.body])
        BY <3>2, <1>2, SimHashType, DifferingIsFinite
      <3>4. QED
        BY <3>1, <3>3, <2>2, <2>3, <2>5 DEF Apart
    <2>6. CASE a # id /\ b # id
      <3>1. /\ a \in Stored \ exempt /\ rows'[a] = rows[a]
            /\ b \in Stored \ exempt /\ rows'[b] = rows[b]
        BY <2>1, <2>2, <2>6
      <3>2. QED
        BY <3>1 DEF StoredAreApart, Apart
    <2>7. QED
      BY <2>4, <2>5, <2>6
  <1>8. QED
    BY <1>4, <1>5, <1>6, <1>7

LEMMA UpdateIInv ==
    ASSUME IInv, NEW c \in Cleaners, NEW id \in Ids, NEW text \in Texts, Update(c, id, text)
    PROVE  IInv'
  <1> USE DEF IInv
  <1>1. /\ rows' = [rows EXCEPT ![id] = Row(text)]
        /\ lookup' = Overtaken(c)
        /\ exempt' = exempt \cup {id}
    BY DEF Update
  <1>2. /\ rows' \in [Ids -> {None} \cup [text : Texts, simhash : Signed]]
        /\ RowsAgree'
        /\ \A other \in Ids \ {id} : rows'[other] = rows[other]
    BY <1>1, WriteRow
  <1>3. TypeOK'
    BY <1>1, <1>2, OvertakenType DEF TypeOK
  <1>4. LookupsHold'
    BY <1>1, OvertakenType DEF LookupsHold
  <1>5. StoredAreApart'
    <2>1. ASSUME NEW i \in Stored' \ exempt'
          PROVE  i \in Stored \ exempt /\ rows'[i] = rows[i]
      BY <1>1, <1>2 DEF Stored
    <2>2. QED
      BY <2>1 DEF StoredAreApart, Apart
  <1>6. QED
    BY <1>2, <1>3, <1>4, <1>5

LEMMA CreateFailsIInv ==
    ASSUME IInv, NEW c \in Cleaners, CreateFails(c)
    PROVE  IInv'
  <1>1. /\ lookup' = [lookup EXCEPT ![c] = None]
        /\ UNCHANGED <<rows, exempt>>
    BY DEF CreateFails
  <1>2. TypeOK'
    BY <1>1 DEF IInv, TypeOK
  <1>3. RowsAgree' /\ StoredAreApart'
    BY <1>1 DEF IInv, RowsAgree, StoredAreApart, Stored, Apart
  <1>4. LookupsHold'
    <2>1. \A d \in Cleaners : lookup'[d] # None => lookup'[d] = lookup[d]
      BY <1>1 DEF IInv, TypeOK
    <2>2. QED
      BY <2>1, <1>1 DEF IInv, LookupsHold, Stored, Apart
  <1>5. QED
    BY <1>2, <1>3, <1>4 DEF IInv

LEMMA StutterIInv ==
    ASSUME IInv, UNCHANGED vars
    PROVE  IInv'
  BY DEF vars, IInv, TypeOK, RowsAgree, LookupsHold, StoredAreApart, Stored, Apart

LEMMA Invariance == Spec => []IInv
  <1>1. IInv /\ [Next]_vars => IInv'
    BY LookUpIInv, CreateIInv, CreateFailsIInv, UpdateIInv, StutterIInv DEF Next
  <1>2. QED
    BY InitIInv, <1>1, PTL DEF Spec

\* Every variable holds values of its type; a row's simhash is a signed one.
THEOREM TypeCorrect == Spec => []TypeOK
  BY Invariance, PTL DEF IInv

\* simhash.py, dedup.py: the probes of four bands find the nearest row within the
\* threshold, in every table that the workers can produce.
THEOREM LookupExact == Spec => []LookupIsExact
  <1>1. IInv => LookupIsExact
    <2> SUFFICES ASSUME IInv, NEW text \in Texts, NEW except \in Ids \cup {None},
                        FindExact(text, Stored \ {except}) = {}, SimHash[text.body] # {},
                        Cardinality(Matching(SimHash[text.body], Stored \ {except})) <= Limit,
                        NEW answer \in FindDuplicate(text, Stored \ {except})
                 PROVE  LET near == {id \in Stored \ {except} : Apart(text, id) <= Threshold}
                        IN  IF near = {} THEN answer.original = None
                            ELSE /\ answer.original \in near
                                 /\ \A id \in near : Apart(text, answer.original) <= Apart(text, id)
      BY DEF LookupIsExact
    <2> DEFINE others == Stored \ {except}
    <2>1. others \in SUBSET Stored
      OBVIOUS
    <2>2. QED
      BY <2>1, NearIsFound DEF IInv
  <1>2. QED
    BY Invariance, <1>1, PTL

\* dedup.py: only rows above the threshold and inside the gray zone are passed on, at
\* most MaxCandidates, and none that is farther away than one that is left out.
THEOREM CandidatesAlwaysGray == Spec => []CandidatesAreGray
  <1>1. IInv => CandidatesAreGray
    <2> SUFFICES ASSUME IInv, NEW text \in Texts, NEW except \in Ids \cup {None},
                        NEW answer \in FindDuplicate(text, Stored \ {except})
                 PROVE  LET others == Stored \ {except}
                            value  == SimHash[text.body]
                            gray   == {id \in Matching(value, others) :
                                          Apart(text, id) \in Threshold + 1 .. GrayZone}
                        IN  /\ answer.candidates \subseteq gray
                            /\ Cardinality(answer.candidates) <= MaxCandidates
                            /\ Cardinality(Matching(value, others)) <= Limit =>
                                  \A id \in answer.candidates, other \in gray \ answer.candidates :
                                      Apart(text, id) <= Apart(text, other)
      BY DEF CandidatesAreGray
    <2> DEFINE others == Stored \ {except}
    <2>1. others \in SUBSET Stored
      OBVIOUS
    <2>2. QED
      BY <2>1, CandidatesOfAnswer DEF IInv
  <1>2. QED
    BY Invariance, <1>1, PTL

\* articles.py: no two articles of the table have the same or nearly the same text,
\* but for those that the property names.
THEOREM TableIsApart == Spec => []StoredAreApart
  BY Invariance, PTL DEF IInv
=============================================================================
