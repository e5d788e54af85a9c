-------------------------------- MODULE Scoring --------------------------------
(* The score that a language model gives an article                         *)
(* (ai_service/ai_scoring).  A long article is cut into chunks, which are   *)
(* sent in turn with what the model said of those before; its replies are   *)
(* JSON that may lack anything, and are normalised.  Text is abstracted to  *)
(* its length in characters.                                               *)
EXTENDS Integers, SequencesExt, FiniteSetsExt

CONSTANTS
  Papers,      \* articles: the lengths of their paragraphs, and blank space
  MaxChars,    \* articleScoringChunkMaxChars
  DirectMax,   \* articleScoringDirectMaxChars
  MinChars,    \* articleScoringMinChars
  Prefix,      \* the length of "[P1] "
  SmallLimit,  \* 32
  MaxIssues,   \* articleScoringMaxIssues
  Names,       \* dimensionOrder
  Types, Expository,   \* supportedArticleTypes, and the default one
  Weights,     \* articleTypeWeights
  Replies,     \* what the model may answer
  Failure      \* an answer that is no JSON, or none

VARIABLES
  paper, chunks, pc,
  kind,    \* statePtr.ArticleType
  sent,    \* history: the fragments of the chunks sent
  said,    \* history: the article types in the replies
  result

scoreVars == <<paper, chunks, pc, kind, sent, said, result>>

Total(s) == FoldLeft(+, 0, s)
CeilDiv(a, b) == (a + b - 1) \div b
Abs(n) == IF n < 0 THEN -n ELSE n
Clamp(n) == IF n < 0 THEN 0 ELSE IF n > 100 THEN 100 ELSE n
\* The length of fragments joined by an empty line.
Joined(s) == Total(s) + 2 * (Len(s) - 1)

(* splitParagraphFragments: a paragraph that is too long is cut.            *)
PartLimit == IF MaxChars - Prefix <= SmallLimit THEN MaxChars ELSE MaxChars - Prefix

ParagraphFragments(n) ==
  LET parts == CeilDiv(n, PartLimit) IN
  [i \in 1..parts |-> Prefix + IF i < parts THEN PartLimit
                               ELSE n - (parts - 1) * PartLimit]

Fragments(p) == FlattenSeq([i \in DOMAIN p.paragraphs |-> ParagraphFragments(p.paragraphs[i])])

(* splitArticleChunks: a chunk is closed when the next fragment does not    *)
(* fit, and when it has reached the target and would only get further off. *)
TargetChars(s) ==
  LET target == CeilDiv(Total(s), CeilDiv(Total(s), MaxChars)) IN
  IF target > MaxChars THEN MaxChars ELSE target

FitsLoosely(now, length, target) == now + length <= MaxChars
Fits(now, length, target) ==
  LET next == now + 2 + length IN
  /\ next <= MaxChars
  /\ now < target \/ Abs(target - now) > Abs(target - next)

Place(done, f, target) ==
  IF done # << >> /\ Fits(Joined(Last(done)), f, target)
  THEN Front(done) \o <<Append(Last(done), f)>>
  ELSE Append(done, <<f>>)

SplitArticleChunks(s) ==
  LET target == TargetChars(s) IN
  FoldLeft(LAMBDA done, f : Place(done, f, target), << >>, s)

-----------------------------------------------------------------------------
(* Replies.                                                                *)

(* normalizeArticleTypeWithFallback. *)
NormalizeType(type, fallback) ==
  IF type \in Types THEN type ELSE IF fallback \in Types THEN fallback ELSE Expository

(* normalizeFinalDimensions; a missing dimension scores 50.                *)
Dimensions(dims) ==
  [n \in Names |-> IF n \in DOMAIN dims THEN Clamp(dims[n]) ELSE 50]

WeightedScore(dims, type) ==
  Clamp(MapThenSumSet(LAMBDA n : dims[n] * Weights[type][n], Names)
          \div MapThenSumSet(LAMBDA n : Weights[type][n], Names))

(* issueCountRange, limitIssuesByScore. *)
IssueMax(score) == IF score < 30 THEN 9 ELSE IF score < 60 THEN 7
                   ELSE IF score < 70 THEN 5 ELSE 3
LimitIssues(issues, score) == Min({issues, IssueMax(score), MaxIssues})

NormalizeFinal(reply, fallback) ==
  LET type == NormalizeType(reply.type, fallback)
      dims == Dimensions(reply.dims)
      score == WeightedScore(dims, type) IN
  [type |-> type, dims |-> dims, total |-> score,
   issues |-> LimitIssues(reply.issues, score)]

-----------------------------------------------------------------------------
ScoringInit ==
  /\ paper \in Papers
  /\ chunks = << >> /\ pc = "start" /\ kind = Failure
  /\ sent = << >> /\ said = << >> /\ result = Failure

ContentLength == Total(paper.paragraphs) + paper.blank

ScoreArticleQuality ==
  /\ pc = "start"
  /\ \/ ContentLength < MinChars /\ pc' = "failed" /\ UNCHANGED chunks
     \/ ContentLength \in MinChars..DirectMax /\ pc' = "short" /\ UNCHANGED chunks
     \/ /\ ContentLength > DirectMax
        /\ chunks' = SplitArticleChunks(Fragments(paper))
        /\ pc' = IF chunks' = << >> THEN "failed" ELSE "first"
  /\ UNCHANGED <<paper, kind, sent, said, result>>

Heard(reply) == said' = Append(said, reply.type)

(* A reply to the chunk i becomes the state that the next one is sent with. *)
Chunk(i, reply, fallback) ==
  /\ sent' = Append(sent, chunks[i])
  /\ kind' = NormalizeType(reply.type, fallback)
  /\ Heard(reply)
  /\ UNCHANGED <<paper, chunks, result>>

FirstChunk(reply) ==
  /\ pc = "first"
  /\ Chunk(1, reply, Failure)
  /\ pc' = "middle"

MiddleChunk(reply) ==
  /\ pc = "middle" /\ Len(sent) < Len(chunks) - 1
  /\ Chunk(Len(sent) + 1, reply, kind)
  /\ pc' = "middle"

(* The last chunk, which is the first again when there is only one.        *)
FinalChunk(reply) ==
  /\ pc = "middle" /\ Len(sent) >= Len(chunks) - 1
  /\ sent' = Append(sent, Last(chunks))
  /\ result' = NormalizeFinal(reply, kind)
  /\ Heard(reply)
  /\ pc' = "scored"
  /\ UNCHANGED <<paper, chunks, kind>>

ShortArticle(reply) ==
  /\ pc = "short"
  /\ result' = NormalizeFinal(reply, Failure)
  /\ Heard(reply)
  /\ pc' = "scored"
  /\ UNCHANGED <<paper, chunks, kind, sent>>

ChatFails ==
  /\ pc \in {"short", "first", "middle"}
  /\ pc' = "failed"
  /\ UNCHANGED <<paper, chunks, kind, sent, said, result>>

ScoringNext ==
  \/ ScoreArticleQuality \/ ChatFails
  \/ \E reply \in Replies :
       FirstChunk(reply) \/ MiddleChunk(reply) \/ FinalChunk(reply) \/ ShortArticle(reply)

-----------------------------------------------------------------------------
ScoringTypeOK ==
  /\ pc \in {"start", "short", "first", "middle", "scored", "failed"}
  /\ kind \in Types \cup {Failure}
  /\ (result # Failure) <=> (pc = "scored")

(* The chunks are the article in order and none is longer than the limit;   *)
(* a long article of more than one chunk is read to its end once, chunk by  *)
(* chunk (splitArticleChunks, scoreLongArticle).                           *)
ChunksWhole ==
  chunks # << >> =>
    /\ FlattenSeq(chunks) = Fragments(paper)
    /\ \A i \in DOMAIN chunks : Joined(chunks[i]) <= MaxChars
    /\ Len(chunks) > 1 => IsPrefix(sent, chunks) /\ (pc = "scored" => sent = chunks)

(* The type is the last one the model named, or the default; the total lies *)
(* between the lowest and the highest dimension; a good article is not told *)
(* more than its share of issues (ai_scoring_merge.go).                    *)
ScoreFair ==
  pc = "scored" =>
    LET known == {i \in DOMAIN said : said[i] \in Types}
        scores == {result.dims[n] : n \in Names} IN
    /\ result.type = IF known = {} THEN Expository ELSE said[Max(known)]
    /\ scores \subseteq 0..100
    /\ Min(scores) <= result.total /\ result.total <= Max(scores)
    /\ result.issues <= IssueMax(result.total)

(* Scoring: the two together. *)
ScoringSound == ChunksWhole /\ ScoreFair
=============================================================================
