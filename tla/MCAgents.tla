------------------------------ MODULE MCAgents ------------------------------
(***************************************************************************)
(* Agents with the traces that LLMOps analyses: four of three kinds, made  *)
(* in and out of the order they come in or at one time, and one or none.   *)
(***************************************************************************)
EXTENDS Agents, Sequences

Trace(of, org, tokens, passed, coverage, time) ==
    [agent_id |-> of, organization_id |-> org, tokens_used |-> tokens,
     verify_passed |-> passed, coverage_score |-> coverage, timestamp |-> time]

Kinds == {<<"research", "org1", 10, TRUE, 8>>, <<"research", "org2", 11, FALSE, 10>>,
          <<"coder", "org1", 30, TRUE, NoCoverage>>}

Made(kinds, times) ==
    [i \in DOMAIN kinds |->
        Trace(kinds[i][1], kinds[i][2], kinds[i][3], kinds[i][4], kinds[i][5], times[i])]

MCInputs ==
    {<<>>} \cup {Made(<<k>>, <<1>>) : k \in Kinds} \cup
    {Made(kinds, times) :
        kinds \in [1..4 -> Kinds],
        times \in {<<1, 2, 3, 4>>, <<4, 3, 2, 1>>, <<2, 4, 1, 3>>, <<2, 1, 1, 2>>}}

=============================================================================
