------------------------------- MODULE Research -------------------------------
(***************************************************************************)
(* agents/research: the sources are asked side by side, the two search     *)
(* engines stand in for each other, the LLM writes findings from what came *)
(* back, and verify scores how many of them cite a source.                 *)
(***************************************************************************)
EXTENDS Naturals, Sequences

CONSTANT ResearchLimit   \* bound of the engine, not met: a run has three stages

VARIABLES status, steps, next, done, read, st

\* The default sources in their order, and a request for fewer.
AllSources == <<"tavily", "serpapi", "crunchbase", "g2", "similarweb">>
SourceLists == {AllSources, <<"serpapi", "g2">>}

Sources(s) == {s.sources[i] : i \in DOMAIN s.sources}

AnySource == {AllSources[i] : i \in DOMAIN AllSources}

\* Of findings the share that cite a source: none, below the threshold of 0.70, from
\* there and from 0.85.  No findings have no share.
Scores == 0..3
Threshold == 2

Findings == {[by |-> "nobody", score |-> 0]} \cup [by : {"first", "retry"}, score : Scores]

Initial(list) ==
    [sources |-> list, ok |-> {}, error |-> {}, attempted |-> {}, cited |-> {},
     partial |-> {}, findings |-> [by |-> "nobody", score |-> 0],
     groundedness_score |-> 0, confidence |-> "low"]

TypeOK ==
    /\ st.sources \in SourceLists
    /\ st.ok \subseteq Sources(st) /\ st.error \subseteq Sources(st) \ st.ok
    /\ st.attempted \subseteq {"tavily", "serpapi"}
    /\ st.cited \subseteq AnySource /\ st.partial \subseteq AnySource
    /\ st.findings \in Findings
    /\ st.groundedness_score \in Scores
    /\ st.confidence \in {"low", "medium", "high"}

-----------------------------------------------------------------------------

\* score_groundedness of findings is part of them here.
score_groundedness(findings) == findings.score

confidence_band(score) == CASE score = 3 -> "high" [] score = 2 -> "medium" [] OTHER -> "low"

Successors(n, s) ==
    CASE n = "fan_out"        -> Sources(s)
      [] n \in AnySource      -> {"cross_fallback"}
      [] n = "cross_fallback" -> {"_synthesise"}
      [] OTHER                -> {}

\* A timeout of its own, and every exception of the tool, are a result.
_call_one(source, s) ==
    {[s EXCEPT !.ok = @ \cup {source}], [s EXCEPT !.error = @ \cup {source}]}

Fallback == [tavily |-> "serpapi", serpapi |-> "tavily"]

Collect(source, good, s) ==
    IF good THEN [s EXCEPT !.cited = @ \cup {source}] ELSE [s EXCEPT !.partial = @ \cup {source}]

\* What one source adds to the results, after the sources before it.  A search engine
\* that failed has the other one asked: when that was not asked at all, or failed too.
Add(source, s) ==
    IF source \in s.ok THEN {Collect(source, TRUE, s)}
    ELSE IF source \notin DOMAIN Fallback \/ Fallback[source] \in s.attempted \cup s.ok
    THEN {Collect(source, FALSE, s)}
    ELSE LET tried == [s EXCEPT !.attempted = @ \cup {Fallback[source]}]
         IN  {Collect(Fallback[source], TRUE, tried), Collect(source, FALSE, tried)}

\* The loop over the results of gather, then _collect_citations.
cross_fallback(s) ==
    LET after[i \in 0..Len(s.sources)] ==
            IF i = 0 THEN {s} ELSE UNION {Add(s.sources[i], t) : t \in after[i - 1]}
    IN  after[Len(s.sources)]

\* An answer that cannot be parsed makes no findings.
_synthesise(s, by) ==
    IF s.cited = {} THEN {[by |-> "nobody", score |-> 0]}
    ELSE {f \in Findings : f.by \in {by, "nobody"}}

Synthesised(s) == {[s EXCEPT !.findings = f] : f \in _synthesise(s, "first")}

Returns(n, r, s) ==
    CASE n \in AnySource      -> _call_one(n, s)
      [] n = "cross_fallback" -> cross_fallback(s)
      [] n = "_synthesise"    -> Synthesised(s)
      [] OTHER                -> {s}

\* The guardrails or every provider of the LLM.
Raises(n, r) == n = "_synthesise"

Graph == INSTANCE AgentGraph WITH Entry <- "fan_out", RecursionLimit <- ResearchLimit

-----------------------------------------------------------------------------

Score(findings, score, s) ==
    [s EXCEPT !.findings = findings, !.groundedness_score = score,
              !.confidence = confidence_band(score)]

\* Mutant: the retried findings are kept, and the score of the first ones with them.
better_of_aliased(retried, s) ==
    Score(retried, IF score_groundedness(retried) > score_groundedness(s.findings)
                   THEN score_groundedness(retried) ELSE score_groundedness(s.findings), s)

better_of(retried, s) ==
    IF score_groundedness(retried) > score_groundedness(s.findings)
    THEN Score(retried, score_groundedness(retried), s)
    ELSE Score(s.findings, score_groundedness(s.findings), s)

Retried(s) == score_groundedness(s.findings) < Threshold /\ s.findings.by # "nobody"

verify ==
    /\ status = "ended"
    /\ \/ /\ ~Retried(st)
          /\ status' = "returned"
          /\ st' = Score(st.findings, score_groundedness(st.findings), st)
       \/ /\ Retried(st)
          /\ status' = "returned"
          /\ \E retried \in _synthesise(st, "retry") : st' = better_of(retried, st)
       \/ /\ Retried(st)
          /\ status' = "failed"
          /\ UNCHANGED st
    /\ UNCHANGED <<steps, next, done, read>>

Init == \E list \in SourceLists : Graph!Start(Initial(list))

Next == Graph!Step \/ verify \/ Graph!abandoned

-----------------------------------------------------------------------------

\* The score and the confidence of findings that are returned are those of these
\* findings, the first or the retried ones (verify), which rest on a source that
\* answered, in the first round or as a stand-in (cross_fallback).
ScoreIsOfTheFindings ==
    status = "returned" =>
        /\ st.groundedness_score = score_groundedness(st.findings)
        /\ st.confidence = confidence_band(score_groundedness(st.findings))
        /\ st.findings.by # "nobody" => st.cited # {} /\ st.ok \cup st.attempted # {}

=============================================================================
