------------------------------ MODULE Matching ------------------------------
(***************************************************************************)
(* ProductMatchEngine (app/matching): six matchers compare a supplier's    *)
(* product with Amazon's candidates.  A bar code is the number it denotes, *)
(* so leading zeros are gone; a title is its set of words; how alike two   *)
(* texts, embeddings or images are is a fact of the candidate.  Scores are *)
(* ten-thousandths.  A matcher that finds no data is silent: it has no     *)
(* part in the average.                                                    *)
(***************************************************************************)
EXTENDS Numbers

Weights ==
  [barcode |-> 95, brandTitle |-> 70, specification |-> 60, embedding |-> 65, titleFuzzy |-> 50, image |-> 40]

MatchThreshold == 5000

Score(confidence, matched) == [confidence |-> confidence, matched |-> matched, silent |-> FALSE]
Silent == [confidence |-> 0, matched |-> FALSE, silent |-> TRUE]

\* Given on both sides and equal.
Agree(a, b) == Given(a) /\ a = b

\* Within a fifth of each other.
Near(a, b) == Greatest(a, b) > 0 /\ 10 * Least(a, b) >= 8 * Greatest(a, b)

BarcodeMatcher(supplier, amazon) ==
  LET codes == <<"gtin", "ean", "upc">>
      agreeing == {i \in 1 .. 3 : Agree(supplier[codes[i]], amazon[codes[i]])}
      Has(product) == \E i \in 1 .. 3 : Given(product[codes[i]])
  IN IF agreeing # {} THEN Score(<<9800, 9700, 9500>>[Min(agreeing)], TRUE)
     ELSE IF Has(supplier) /\ Has(amazon) THEN Score(0, FALSE) ELSE Silent

\* _title_similarity: six tenths shared words, four tenths shared sequences.
TitleSimilarity(supplier, amazon) ==
  IF supplier.title = {} \/ amazon.title = {} THEN 0
  ELSE (6000 * Cardinality(supplier.title \cap amazon.title))
         \div Cardinality(supplier.title \cup amazon.title) + 40 * amazon.sequence

\* _brands_match, of brands that are names of a small set.
BrandsMatch(supplier, amazon) == Agree(supplier.brand, amazon.brand)

BrandTitleMatcher(supplier, amazon) ==
  LET similarity == TitleSimilarity(supplier, amazon)
  IN IF ~Given(supplier.brand) THEN Silent
     ELSE IF BrandsMatch(supplier, amazon)
       THEN IF similarity >= 8000 THEN Score(8500, TRUE)
            ELSE IF similarity >= 5000 THEN Score(7000, TRUE) ELSE Score(4000, FALSE)
     ELSE Score(IF similarity >= 8000 THEN 3000 ELSE 0, FALSE)

TitleFuzzyMatcher(supplier, amazon) ==
  LET similarity == TitleSimilarity(supplier, amazon)
  IN IF similarity >= 9000 THEN Score(7500, TRUE)
     ELSE IF similarity >= 7000 THEN Score(5500, TRUE)
     ELSE Score(IF similarity >= 5000 THEN 3000 ELSE 0, FALSE)

\* At least half of the dimensions are near, and none is missing.
DimensionsMatch(a, b) ==
  Len(a) = Len(b) /\ 2 * Cardinality({i \in DOMAIN a : Near(a[i], b[i])}) >= Len(a)

SpecificationMatcher(supplier, amazon) ==
  LET brand == BrandsMatch(supplier, amazon)
      checks == {<<"model", Agree(supplier.model, amazon.model), 8000, 4000>>,
                 <<"weight", Near(supplier.weight, amazon.weight), 6000, 3000>>,
                 <<"dimensions", DimensionsMatch(supplier.dimensions, amazon.dimensions), 5500, 2500>>}
      Compared(field) == IF field = "dimensions" THEN supplier.dimensions # <<>> /\ amazon.dimensions # <<>>
                         ELSE Given(supplier[field]) /\ Given(amazon[field])
      done == {c \in checks : Compared(c[1])}
      passed == {c \in done : c[2]}
  IN IF done = {} THEN Silent
     ELSE Score(Total(passed, LAMBDA c : IF brand THEN c[3] ELSE c[4]) \div Cardinality(done), passed # {})

\* The distance of the two hashes is in bits, of 64.
ImageMatcher(supplier, amazon) ==
  IF ~supplier.image \/ ~Given(amazon.distance) THEN Silent
  ELSE Score((10000 * (64 - amazon.distance)) \div 64, amazon.distance < 32)

EmbeddingMatcher(supplier, amazon) ==
  LET steps == <<9000, 7500, 5500, 3000, 0>>
      level == FirstReached(amazon.cosine, <<95, 85, 70, 50>>)
  IN IF ~Given(amazon.cosine) THEN Silent ELSE Score(steps[level], level <= 3)

MatcherScores(supplier, amazon) ==
  [barcode |-> BarcodeMatcher(supplier, amazon), brandTitle |-> BrandTitleMatcher(supplier, amazon),
   specification |-> SpecificationMatcher(supplier, amazon), embedding |-> EmbeddingMatcher(supplier, amazon),
   titleFuzzy |-> TitleFuzzyMatcher(supplier, amazon), image |-> ImageMatcher(supplier, amazon)]

\* _calculate_confidence.
CalculateConfidence(scores) ==
  LET heard == {m \in DOMAIN scores : ~scores[m].silent}
  IN IF heard = {} THEN 0
     ELSE Total(heard, LAMBDA m : scores[m].confidence * Weights[m]) \div Total(heard, LAMBDA m : Weights[m])

\* _evaluate_candidate: a silent matcher counts as rejected in the explanation, but for
\* the image's, whose text alone says "not available".
Explained(asin, scores) ==
  LET zero == {m \in DOMAIN scores : scores[m].confidence = 0}
      unavailable == {m \in zero \cap {"image"} : scores[m].silent}
  IN [asin |-> asin,
      confidence |-> CalculateConfidence(scores),
      match |-> CalculateConfidence(scores) >= MatchThreshold,
      matched |-> {m \in DOMAIN scores \ zero : scores[m].matched},
      unavailable |-> unavailable,
      rejected |-> {m \in DOMAIN scores \ unavailable : ~scores[m].matched}]

EvaluateCandidate(supplier, amazon) == Explained(amazon.asin, MatcherScores(supplier, amazon))

\* match.
Match(supplier, candidates, minConfidence, maxResults) ==
  LET results == [i \in DOMAIN candidates |-> EvaluateCandidate(supplier, candidates[i])]
  IN Top(Ranked(SelectSeq(results, LAMBDA r : r.confidence >= minConfidence), LAMBDA r : r.confidence), maxResults)

-----------------------------------------------------------------------------
\* Every matcher is in one list of the explanation, the results are the best candidates,
\* and one more candidate never pushes out a better one.
MatchSound(supplier, candidates, minConfidence, maxResults) ==
  \A results \in {Match(supplier, candidates, minConfidence, maxResults)} :
    LET kept == {results[i].asin : i \in DOMAIN results}
    IN /\ \A r \in ToSet(results) :
            /\ r.matched \cup r.rejected \cup r.unavailable = DOMAIN Weights
            /\ r.matched \cap r.rejected = {} /\ r.confidence \in minConfidence .. 10000
            /\ \A c \in ToSet(candidates) : c.asin \notin kept =>
                 EvaluateCandidate(supplier, c).confidence <= r.confidence
       /\ \A i, j \in DOMAIN results : i < j => results[i].confidence >= results[j].confidence
=============================================================================
