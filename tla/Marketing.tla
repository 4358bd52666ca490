------------------------------ MODULE Marketing ------------------------------
(***************************************************************************)
(* agents/marketing: six generators side by side, an audit of their claims *)
(* against the product's features, the founder's launch control and the    *)
(* scheduling of what was approved.  Claims that the audit calls critical  *)
(* send the landing page, and only it, back to its generator.              *)
(*                                                                         *)
(* MarketingAgent.run never gets here (its execute raises): these are the  *)
(* runs of the compiled graph, which has no SLA around it.                 *)
(***************************************************************************)
EXTENDS Naturals

CONSTANT MarketingLimit   \* LangGraph's default recursion_limit

VARIABLES status, steps, next, done, read, st

MaxHallucinationRetries == 2

\* _ALL_CONTENT_TYPES, and the first three of them.
ContentTypes == {"landing_page", "seo_blogs", "product_hunt_kit", "social_posts",
                 "email_sequences", "visual_assets"}
FirstContentTypes == {"landing_page", "seo_blogs", "product_hunt_kit"}

\* The prompt of the audit has four of the six.
Audited == ContentTypes \ {"seo_blogs", "visual_assets"}

Generator == [
    landing_page     |-> "generate_landing_page",
    seo_blogs        |-> "generate_seo_blogs",
    product_hunt_kit |-> "generate_product_hunt_kit",
    social_posts     |-> "generate_social_posts",
    email_sequences  |-> "generate_email_sequences",
    visual_assets    |-> "generate_visual_assets"]

Generators == {Generator[t] : t \in ContentTypes}

Channels == {"x", "linkedin", "email_day0", "product_hunt"}

\* What the tools answer: without a key, and after the last of their own retries, the
\* post is kept as a draft and the mail in a queue that nothing reads.
Typefully == {"scheduled", "draft"}
Buffer == {"scheduled", "draft"}
Resend == {"sent", "queued"}

\* A generator whose LLM call failed leaves an empty draft.
Drafts == {"none", "empty", "written", "rewritten"}

\* APP_ENV: development, which is its default, or anything else.  Whether REDIS_URL is
\* set is a matter of its own.
Environments == {"development", "production"}

Answers == {"pending", "approved", "rejected", "partial"}

Initial(valid, env, redis_url, preset, named) ==
    [valid |-> valid, env |-> env, redis_url |-> redis_url, preset |-> preset, fatal_error |-> FALSE,
     draft |-> [t \in ContentTypes |-> "none"],
     seen |-> [t \in Audited |-> "none"], verdict |-> "none", retry_count |-> 0,
     answer |-> "none", approval_status |-> preset, approved |-> named,
     scheduled |-> [c \in Channels |-> "none"], report |-> FALSE]

TypeOK ==
    /\ st.valid \in BOOLEAN /\ st.env \in Environments /\ st.redis_url \in BOOLEAN
    /\ st.preset \in Answers
    /\ st.fatal_error \in BOOLEAN /\ st.report \in BOOLEAN
    /\ st.draft \in [ContentTypes -> Drafts]
    /\ st.seen \in [Audited -> Drafts]
    /\ st.verdict \in {"none", "passed", "critical", "not_audited"}
    /\ st.retry_count \in 0..MaxHallucinationRetries
    /\ st.answer \in {"none", "approved", "rejected", "partial", "unknown"}
    /\ st.approval_status \in Answers \cup {"timed_out", "unknown"}
    /\ st.approved \subseteq ContentTypes
    /\ st.scheduled \in
           [Channels -> Typefully \cup Buffer \cup Resend \cup {"none", "manual"}]

-----------------------------------------------------------------------------

route_after_ingest(s) == IF s.fatal_error THEN {"error_handler"} ELSE {"analyse_brand"}

\* Mutant: what failed too often is left to the founder.
route_after_hallucination_lenient(s) ==
    IF s.verdict # "critical" \/ s.retry_count >= MaxHallucinationRetries
    THEN {"launch_control_center"} ELSE {"generate_landing_page"}

route_after_hallucination(s) ==
    CASE s.verdict # "critical" -> {"launch_control_center"}
      [] s.verdict = "critical" /\ s.retry_count < MaxHallucinationRetries ->
            {"generate_landing_page"}
      [] OTHER -> {"error_handler"}

route_after_hitl(s) ==
    IF s.approval_status \in {"approved", "partial"} THEN {"schedule_posts"}
    ELSE {"error_handler"}

Successors(n, s) ==
    CASE n = "ingest_input"          -> route_after_ingest(s)
      [] n = "analyse_brand"         -> Generators
      [] n \in Generators            -> {"parallel_join"}
      [] n = "parallel_join"         -> {"hallucination_check"}
      [] n = "hallucination_check"   -> route_after_hallucination(s)
      [] n = "launch_control_center" -> route_after_hitl(s)
      [] n = "schedule_posts"        -> {"render_gtm_report"}
      [] OTHER                       -> {}

-----------------------------------------------------------------------------

\* Features and a product name are required.
ingest_input(s) == [s EXCEPT !.fatal_error = ~s.valid]

\* Falls back on the brand's own words; the nodes after it read no more than text.
analyse_brand(s) == s

Draft(t, d, s) == [s EXCEPT !.draft[t] = d]

Generate(t, s) == {Draft(t, "written", s), Draft(t, "empty", s)}

\* A page that was there is another page now.
generate_landing_page(s) ==
    {Draft("landing_page", IF s.draft["landing_page"] = "none" THEN "written" ELSE "rewritten", s),
     Draft("landing_page", "empty", s)}

generate_seo_blogs(s) == Generate("seo_blogs", s)
generate_product_hunt_kit(s) == Generate("product_hunt_kit", s)
generate_social_posts(s) == Generate("social_posts", s)
generate_email_sequences(s) == Generate("email_sequences", s)
generate_visual_assets(s) == Generate("visual_assets", s)

Audit(verdict, s) ==
    [s EXCEPT !.verdict = verdict, !.seen = [t \in Audited |-> s.draft[t]],
              !.retry_count = IF verdict = "critical" THEN @ + 1 ELSE @]

\* An audit whose LLM call failed counts as passed.
hallucination_check(s) == {Audit(v, s) : v \in {"passed", "critical", "not_audited"}}

\* _build_approval_state.  A status that it does not know approves everything, and is
\* then routed to the error handler.
Decide(decision, s) ==
    [s EXCEPT !.approval_status = decision,
              !.approved =
                  CASE decision \in {"approved", "unknown"}   -> ContentTypes
                    [] decision \in {"rejected", "timed_out"} -> {}
                    [] decision = "partial" -> IF s.approved # {} THEN s.approved
                                               ELSE FirstContentTypes]

PollAnswer(s) ==
    {Decide(a, [s EXCEPT !.answer = a]) : a \in {"approved", "rejected", "partial", "unknown"}}

\* Without REDIS_URL everything is approved, whatever APP_ENV is; a failure of Redis
\* approves in development and otherwise counts as no answer in time.
launch_control_center(s) ==
    CASE s.preset # "pending"                   -> {Decide(s.preset, s)}
      [] s.preset = "pending" /\ ~s.redis_url   -> {Decide("approved", s)}
      [] s.preset = "pending" /\ s.redis_url    ->
            PollAnswer(s) \cup {Decide("timed_out", s)} \cup
            (IF s.env = "development" THEN {Decide("approved", s)} ELSE {})

\* The approved types that have a draft go to their channels; the thread, the post and
\* the mail may each be missing from it.  Product Hunt is left to the founder.
schedule_posts(s) ==
    LET ready(t) == t \in s.approved /\ s.draft[t] # "empty"
        answers(t, tool) == IF ready(t) THEN tool \cup {"none"} ELSE {"none"}
        hunt == IF "product_hunt_kit" \in s.approved THEN "manual" ELSE "none"
    IN  {[s EXCEPT !.scheduled = [x            |-> thread,
                                  linkedin     |-> post,
                                  email_day0   |-> mail,
                                  product_hunt |-> hunt]] :
            thread \in answers("social_posts", Typefully),
            post   \in answers("social_posts", Buffer),
            mail   \in answers("email_sequences", Resend)}

render_gtm_report(s) == [s EXCEPT !.report = TRUE]

\* Logs and, with a webhook, alerts; nothing is repaired.
error_handler(s) == s

Returns(n, r, s) ==
    CASE n = "ingest_input"              -> {ingest_input(s)}
      [] n = "analyse_brand"             -> {analyse_brand(s)}
      [] n = "generate_landing_page"     -> generate_landing_page(s)
      [] n = "generate_seo_blogs"        -> generate_seo_blogs(s)
      [] n = "generate_product_hunt_kit" -> generate_product_hunt_kit(s)
      [] n = "generate_social_posts"     -> generate_social_posts(s)
      [] n = "generate_email_sequences"  -> generate_email_sequences(s)
      [] n = "generate_visual_assets"    -> generate_visual_assets(s)
      [] n = "hallucination_check"       -> hallucination_check(s)
      [] n = "launch_control_center"     -> launch_control_center(s)
      [] n = "schedule_posts"            -> schedule_posts(s)
      [] n = "render_gtm_report"         -> {render_gtm_report(s)}
      [] n = "error_handler"             -> {error_handler(s)}
      [] OTHER                           -> {s}

\* JSON that is not an object, outside of the nodes' try blocks.
Raises(n, r) == n \in {"analyse_brand", "generate_visual_assets", "hallucination_check"}

Graph == INSTANCE AgentGraph WITH Entry <- "ingest_input",
                                  RecursionLimit <- MarketingLimit

-----------------------------------------------------------------------------

Init ==
    \E valid \in BOOLEAN, env \in Environments, redis_url \in BOOLEAN, preset \in Answers,
       named \in {{}, {"social_posts", "email_sequences"}} :
        Graph!Start(Initial(valid, env, redis_url, preset, named))

Next == Graph!Step \/ Graph!abandoned

-----------------------------------------------------------------------------

\* Nothing goes out but what the last audit saw and let through, after every
\* regeneration.  Where REDIS_URL is set and APP_ENV is not development, nothing goes
\* out without the founder or the caller having approved it; without REDIS_URL it does,
\* in every APP_ENV (hallucination_check, route_after_hallucination,
\* launch_control_center, schedule_posts).
PublishedIsChecked ==
    (\E c \in Channels : st.scheduled[c] \in {"scheduled", "sent"}) =>
        /\ st.verdict # "critical"
        /\ \A t \in Audited : st.seen[t] = st.draft[t]
        /\ st.redis_url /\ st.env # "development" =>
              {st.preset, st.answer} \cap {"approved", "partial"} # {}

=============================================================================
