------------------------------ MODULE AutoRoute ------------------------------
(***************************************************************************)
(* The choice behind model "auto" (autoroute/autoroute.go): a requested     *)
(* level of intelligence, a catalog of models with a published score per    *)
(* reasoning effort, and the ranking of all (model, effort) pairs by how    *)
(* close they come.  Model names and efforts are naturals whose order is    *)
(* the alphabetical order the code sorts by.                                *)
(*                                                                         *)
(* A catalog is a set of records [name, multimodal, scores, tuned]: scores  *)
(* maps efforts to scores, tuned holds the <<path, effort>> pairs for which *)
(* the model publishes a request fragment.                                  *)
(***************************************************************************)
EXTENDS Integers, Sequences, FiniteSets, FiniteSetsExt

CONSTANTS MaxIntelligence, DefaultIntelligence

ASSUME IntelligenceAssumption ==
  /\ MaxIntelligence \in Nat \ {0}
  /\ DefaultIntelligence \in 0..MaxIntelligence

(***************************************************************************)
(* A level as it arrives, in the body's options or in the header: absent,   *)
(* a number, or something that is not an integer.                           *)
(***************************************************************************)
Unstated == [kind |-> "absent", level |-> 0]
Stated(n) == [kind |-> "level", level |-> n]
Malformed == [kind |-> "malformed", level |-> 0]

\* <<level>>, or <<>> where the code returns a ValidationError.
validateIntelligence(stated) ==
  IF stated.kind = "level" /\ stated.level \in 0..MaxIntelligence
  THEN <<stated.level>> ELSE <<>>

\* The body wins over the header, the header over the default.
ParseIntelligence(option, header) ==
  CASE option # Unstated -> validateIntelligence(option)
    [] option = Unstated /\ header # Unstated -> validateIntelligence(header)
    [] OTHER -> <<DefaultIntelligence>>

\* math.Round(score * Max / maxScore): halves round up.
normalize(score, maxScore) ==
  (2 * score * MaxIntelligence + maxScore) \div (2 * maxScore)

\* Scores that are out of range are not published.
maxIntelligenceScore == 100

validIntelligence(scores) ==
  /\ DOMAIN scores \subseteq Nat /\ IsFiniteSet(DOMAIN scores) /\ DOMAIN scores # {}
  /\ scores \in [DOMAIN scores -> 0..maxIntelligenceScore]

AllScores(catalog) == UNION {{m.scores[e] : e \in DOMAIN m.scores} : m \in catalog}

Distance(c, target) == IF c.level >= target THEN c.level - target ELSE target - c.level

\* Levels are normalized against the whole catalog, text-only models included,
\* and only then are the text-only models left out of a visual request.
Candidates(catalog, visual) ==
  LET top == Max(AllScores(catalog))
  IN  UNION {{[name |-> m.name, multimodal |-> m.multimodal, effort |-> e,
               score |-> m.scores[e], level |-> normalize(m.scores[e], top)]
              : e \in DOMAIN m.scores}
             : m \in {n \in catalog : visual => n.multimodal}}

\* The sort's order: fit, then multimodal, higher score, name, effort.
Precedes(a, b, target) ==
  LET key(c) == <<Distance(c, target), IF c.multimodal THEN 0 ELSE 1,
                  -c.score, c.name, c.effort>>
      differ == {i \in 1..5 : key(a)[i] # key(b)[i]}
  IN  differ # {} /\ key(a)[Min(differ)] < key(b)[Min(differ)]

\* The order is total: a candidate's place is the number of those ahead of it.
Rank(catalog, target, visual) ==
  LET candidates == Candidates(catalog, visual)
      Ahead(c) == {d \in candidates : Precedes(d, c, target)}
  IN  IF AllScores(catalog) \subseteq {0} THEN <<>>
      ELSE [i \in 1..Cardinality(candidates) |->
              CHOOSE c \in candidates : Cardinality(Ahead(c)) = i - 1]

\* What the request's effort fields hold afterwards: the client's are always
\* removed, the model's fragment is merged when it describes the endpoint.
ApplyEffort(catalog, path, c) ==
  IF \E m \in catalog : m.name = c.name /\ <<path, c.effort>> \in m.tuned
  THEN "router" ELSE "absent"
==============================================================================
