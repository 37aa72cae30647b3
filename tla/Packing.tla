------------------------------- MODULE Packing -------------------------------
(***************************************************************************)
(* From the hits of a round to its prompt: Ask reranks them (package       *)
(* rerank), compresses them (compress), packs them under the token budget  *)
(* hit by hit (pack), has the packed ones scanned for injections and cites *)
(* what is left.                                                           *)
(*                                                                         *)
(* A text is its number of words, a content the words of each of its       *)
(* sentences.  Scores are in twentieths, the weight of one matching word.  *)
(* What a model, an embedder or the scanner says is open.                  *)
(***************************************************************************)
EXTENDS Integers, Sequences, SequencesExt, FiniteSetsExt, Sorting

CONSTANTS
    PackInputs,     \* [question, hits, budget, reranker, topN, compress, drop]
    ModelScores,    \* scores that a ScoringModel gives
    MaxSentences,   \* ExtractiveCompressor.MaxSentences
    DefaultBudget   \* what Pack takes for a budget of 0

IsHit(h) ==
    /\ h = [id |-> h.id, name |-> h.name, title |-> h.title, content |-> h.content,
            score |-> h.score, matches |-> h.matches]
    /\ {h.name, h.title, h.score, h.matches} \subseteq Nat
    /\ h.content \in Seq(Nat)

\* question: its words; hits: the retrieved hits, each with the words of its ID
\* and title, its content, and how many words of the question it holds;
\* budget: AskOptions.MaxTokens; drop: the scanner drops what it suspects.
ASSUME PackAssumption ==
    /\ MaxSentences \in Nat \ {0} /\ DefaultBudget \in Nat \ {0}
    /\ ModelScores \subseteq Nat
    /\ \A a \in PackInputs :
          /\ a.question \in Nat \ {0} /\ a.budget \in Nat /\ a.topN \in Nat
          /\ a.reranker \in {"none", "noop", "heuristic", "model"}
          /\ a.hits \in Seq(Range(a.hits)) /\ \A h \in Range(a.hits) : IsHit(h)

VARIABLES
    ask,        \* the call
    phase,      \* "idle", "rerank", "compress", "pack", "scan", "cited", "failed"
    hits,       \* rankedHits
    next,       \* the next of them to pack, or of the packed to scan
    packed,     \* packedHits
    usedTokens,
    cut,        \* IDs of the hits packed, of those truncated and of those dropped
    cited,      \* the hits of the prompt
    suspects    \* IDs of the injection findings

packVars == <<ask, phase, hits, next, packed, usedTokens, cut, cited, suspects>>

NoAsk == [question |-> 1, hits |-> <<>>, budget |-> 0, reranker |-> "none", topN |-> 0,
          compress |-> FALSE, drop |-> FALSE]

PackInit ==
    /\ ask = NoAsk
    /\ phase = "idle"
    /\ hits = <<>>
    /\ next = 1
    /\ packed = <<>>
    /\ usedTokens = 0
    /\ cut = [selected |-> <<>>, truncated |-> <<>>, dropped |-> <<>>]
    /\ cited = <<>>
    /\ suspects = <<>>

AskRound ==
    /\ phase = "idle"
    /\ \E a \in PackInputs : ask' = a /\ hits' = a.hits
    /\ phase' = "rerank"
    /\ UNCHANGED <<next, packed, usedTokens, cut, cited, suspects>>

Total(ns) ==
    LET total[n \in 0..Len(ns)] == IF n = 0 THEN 0 ELSE total[n - 1] + ns[n]
    IN  total[Len(ns)]

IDs(hs)      == [i \in DOMAIN hs |-> hs[i].id]
Words(h)     == Total(h.content)
Count(words) == Max({1, (13 * words) \div 10})

-----------------------------------------------------------------------------
\* The best score first, ties in the order of retrieval.
Ranked(hs, score) ==
    LET order == InOrder(DOMAIN hs, LAMBDA i, j : \/ score[i] > score[j]
                                                  \/ score[i] = score[j] /\ i < j)
    IN  [p \in DOMAIN hs |-> [hs[order[p]] EXCEPT !.score = score[order[p]]]]

\* ModelReranker.TopN
Top(hs) == IF ask.topN > 0 THEN SubSeq(hs, 1, Min({ask.topN, Len(hs)})) ELSE hs

Rerank ==
    /\ phase = "rerank"
    /\ CASE ask.reranker \in {"none", "noop"} -> UNCHANGED hits
         [] ask.reranker = "heuristic" ->
              hits' = Ranked(hits, [i \in DOMAIN hits |-> hits[i].score + hits[i].matches])
         [] OTHER -> \E score \in [DOMAIN hits -> ModelScores] : hits' = Top(Ranked(hits, score))
    /\ phase' = "compress"
    /\ UNCHANGED <<ask, next, packed, usedTokens, cut, cited, suspects>>

\* The model fails, or gives more or fewer scores than there are hits.
RerankFails ==
    /\ phase = "rerank" /\ ask.reranker = "model"
    /\ phase' = "failed"
    /\ UNCHANGED <<ask, hits, next, packed, usedTokens, cut, cited, suspects>>

\* The most similar sentences, in the order of the text.
Kept(h) ==
    LET n == Len(h.content)
    IN  IF n <= MaxSentences THEN {h}
        ELSE {[h EXCEPT !.content = [k \in 1..MaxSentences |-> h.content[InOrder(S, <)[k]]]] :
                 S \in kSubset(MaxSentences, 1..n)}

Compress ==
    /\ phase = "compress"
    /\ IF ask.compress
       THEN \E short \in [DOMAIN hits -> UNION {Kept(h) : h \in Range(hits)}] :
              /\ \A i \in DOMAIN hits : short[i] \in Kept(hits[i])
              /\ hits' = short
       ELSE UNCHANGED hits
    /\ usedTokens' = Count(ask.question)
    /\ phase' = "pack"
    /\ UNCHANGED <<ask, next, packed, cut, cited, suspects>>

\* The embedder fails.
CompressFails ==
    /\ phase = "compress" /\ ask.compress
    /\ phase' = "failed"
    /\ UNCHANGED <<ask, hits, next, packed, usedTokens, cut, cited, suspects>>

-----------------------------------------------------------------------------
Budget    == IF ask.budget = 0 THEN DefaultBudget ELSE ask.budget
Cost(h)   == Count(h.name + h.title + Words(h))
Remaining == Budget - usedTokens

\* Mutation of Room: the ID is not counted.
RoomWithoutName(h) == IF Remaining <= Count(h.name) + 2 THEN 0 ELSE Remaining

\* Tokens left for the content of a hit, none if its ID leaves but two.
Room(h) == IF Remaining <= Count(h.name) + 2 THEN 0 ELSE Remaining - Count(h.name)

\* truncateText: the words that fit together with the marker, a word itself.
Fitting(h) == {k \in 1..Words(h) : Count(k + 1) <= Room(h)}
Truncatable(h) == Room(h) > Count(1) /\ Fitting(h) # {}
Truncated(h)   == [h EXCEPT !.content = <<Max(Fitting(h)) + 1>>]

PackWhole ==
    /\ phase = "pack" /\ next <= Len(hits)
    /\ LET h == hits[next]
       IN  /\ Cost(h) <= Remaining
           /\ packed' = Append(packed, h)
           /\ cut' = [cut EXCEPT !.selected = Append(@, h.id)]
           /\ usedTokens' = usedTokens + Cost(h)
    /\ next' = next + 1
    /\ UNCHANGED <<ask, phase, hits, cited, suspects>>

Rest == IDs(SubSeq(hits, next + 1, Len(hits)))

\* The first hit that does not fit ends the packing.
PackLast ==
    /\ phase = "pack" /\ next <= Len(hits)
    /\ LET h == hits[next]
       IN  /\ Cost(h) > Remaining
           /\ IF Truncatable(h)
              THEN /\ packed' = Append(packed, Truncated(h))
                   /\ cut' = [selected  |-> Append(cut.selected, h.id),
                              truncated |-> <<h.id>>,
                              dropped   |-> Rest]
                   /\ usedTokens' = usedTokens + Cost(Truncated(h))
              ELSE /\ cut' = [cut EXCEPT !.dropped = <<h.id>> \o Rest]
                   /\ UNCHANGED <<packed, usedTokens>>
    /\ phase' = "scan"
    /\ next' = 1
    /\ UNCHANGED <<ask, hits, cited, suspects>>

PackedAll ==
    /\ phase = "pack" /\ next > Len(hits)
    /\ phase' = "scan"
    /\ next' = 1
    /\ UNCHANGED <<ask, hits, packed, usedTokens, cut, cited, suspects>>

-----------------------------------------------------------------------------
\* sanitizeHits
Scan ==
    /\ phase = "scan" /\ next <= Len(packed)
    /\ \E suspicious \in BOOLEAN :
          /\ cited' = IF suspicious /\ ask.drop THEN cited ELSE Append(cited, packed[next])
          /\ suspects' = IF suspicious THEN Append(suspects, packed[next].id) ELSE suspects
    /\ next' = next + 1
    /\ UNCHANGED <<ask, phase, hits, packed, usedTokens, cut>>

Cite ==
    /\ phase = "scan" /\ next > Len(packed)
    /\ phase' = "cited"
    /\ UNCHANGED <<ask, hits, next, packed, usedTokens, cut, cited, suspects>>

PackStep ==
    Rerank \/ RerankFails \/ Compress \/ CompressFails
    \/ PackWhole \/ PackLast \/ PackedAll \/ Scan \/ Cite

PackNext == AskRound \/ PackStep

-----------------------------------------------------------------------------
(***************************************************************************)
(* What is expected.                                                       *)
(***************************************************************************)
\* A prompt is accounted for.  The selected hits and then the dropped ones are
\* the ranked ones, of which only the last selected may be truncated; the
\* tokens used are those of the question and of the packed hits, over the
\* budget by no more than the title of the truncated hit, which truncateHit
\* does not count, and 2 that rounding adds; a packed hit is cited or suspected.
ContextAddsUp ==
    phase = "cited" =>
        /\ cut.selected \o cut.dropped = IDs(hits)
        /\ IDs(packed) = cut.selected
        /\ \/ cut.truncated = <<>>
           \/ packed # <<>> /\ cut.truncated = <<Last(packed).id>>
        /\ usedTokens = Count(ask.question) + Total([i \in DOMAIN packed |-> Cost(packed[i])])
        /\ LET title == IF cut.truncated = <<>> THEN 0 ELSE Count(Last(packed).title) + 2
           IN  usedTokens <= Max({Count(ask.question), Budget + title})
        /\ \A h \in Range(packed) : h \in Range(cited) \/ h.id \in Range(suspects)
=============================================================================
