-------------------------- MODULE DualCheckpointer --------------------------
(***************************************************************************)
(* orchestrator/checkpointer.py: the checkpoints of one run, committed to  *)
(* PostgreSQL and then mirrored to one Redis key.  A task is one use of    *)
(* the run's graph: aupdate_state or ainvoke.  A pillar may invoke its     *)
(* agent's own graph, with the run's id for thread_id and no namespace     *)
(* (agents/strategy/agent.py:67, agents/devops/agent.py:37), so both loops *)
(* read and write the same rows and the same key.  A loop reads the latest *)
(* checkpoint, then makes supersteps; their puts run in the background.    *)
(***************************************************************************)
EXTENDS Naturals

CONSTANTS
    Tasks,           \* users of the run's graph that may overlap
    MaxCheckpoints,  \* bounds the checkpoints that are put
    Missing          \* no checkpoint

Run == "run"
Agent == "agent"

\* What is told of a checkpoint: its created_at and whose graph put it.
StoredCheckpoint == [at : 1..MaxCheckpoints, of : {Run, Agent}]

ASSUME CheckpointerAssumption ==
    /\ MaxCheckpoints \in Nat
    /\ Missing \notin [at : Nat, of : {Run, Agent}]

VARIABLES
    postgres,   \* the committed rows of orchestrator.checkpoints
    clock,      \* the greatest created_at given so far
    redis,      \* the value of orch:checkpoint:{run_id}
    loop,       \* for each graph of each task where it is, what its first superstep
                \* works on and what it is putting
    owes,       \* does a checkpoint of the run follow an agent's graph of the task?
    disturbed,  \* history: did a mirror fail, a task die or overlap another?
    abandoned   \* history: did a task die that owed the run a checkpoint?

vars == <<postgres, clock, redis, loop, owes, disturbed, abandoned>>

Loops == Tasks \X {Run, Agent}

Idle == [pc |-> "idle", read |-> Missing, new |-> Missing]

TypeOK ==
    /\ postgres \subseteq StoredCheckpoint
    /\ clock \in 0..MaxCheckpoints
    /\ redis \in StoredCheckpoint \cup {Missing}
    /\ loop \in [Loops -> [pc : {"idle", "cold", "run", "put", "commit", "mirror"},
                           read : StoredCheckpoint \cup {Missing},
                           new : StoredCheckpoint \cup {Missing}]]
    /\ owes \in [Tasks -> {"nothing", "superstep", "put"}]
    /\ disturbed \in BOOLEAN
    /\ abandoned \in BOOLEAN

Init ==
    /\ postgres = {}
    /\ clock = 0
    /\ redis = Missing
    /\ loop = [l \in Loops |-> Idle]
    /\ owes = [t \in Tasks |-> "nothing"]
    /\ disturbed = FALSE
    /\ abandoned = FALSE

-----------------------------------------------------------------------------
(* aget_tuple *)

\* Mutant: ORDER BY created_at ASC.
LatestFirst ==
    IF postgres = {} THEN Missing
    ELSE CHOOSE r \in postgres : \A q \in postgres : r.at <= q.at

\* ORDER BY created_at DESC LIMIT 1, of the run and the namespace '' of both graphs.
Latest ==
    IF postgres = {} THEN Missing
    ELSE CHOOSE r \in postgres : \A q \in postgres : q.at <= r.at

\* The run's graph starts for a task that has none.  The agent's graph starts in a
\* superstep of the run's, when the put of the last superstep may still be under way.
Starts(t, o) ==
    /\ loop[<<t, o>>].pc = "idle"
    /\ o = Agent =>
         /\ loop[<<t, Run>>].pc \in {"run", "put", "commit", "mirror"}
         /\ postgres # {} \/ loop[<<t, Run>>].pc # "run"

\* aget_tuple, hot path: whatever Redis holds for the run, of either graph; a miss or
\* an exception falls through to PostgreSQL.
aget_tuple_hot(t, o) ==
    /\ Starts(t, o)
    /\ \/ /\ redis # Missing
          /\ loop' = [loop EXCEPT ![<<t, o>>].pc = "run", ![<<t, o>>].read = redis]
       \/ loop' = [loop EXCEPT ![<<t, o>>].pc = "cold"]
    /\ owes' = IF o = Agent THEN [owes EXCEPT ![t] = "superstep"] ELSE owes
    /\ disturbed' = (disturbed \/ \E u \in Tasks \ {t} : loop[<<u, Run>>].pc # "idle")
    /\ UNCHANGED <<postgres, clock, redis, abandoned>>

aget_tuple_cold(t, o) ==
    /\ loop[<<t, o>>].pc = "cold"
    /\ loop' = [loop EXCEPT ![<<t, o>>].pc = "run", ![<<t, o>>].read = Latest]
    /\ UNCHANGED <<postgres, clock, redis, owes, disturbed, abandoned>>

-----------------------------------------------------------------------------
(* aput *)

\* The end of a superstep hands its checkpoint to aput in the background.  A superstep
\* of the run ends after the graph of its agent.
superstep(t, o) ==
    /\ loop[<<t, o>>].pc = "run"
    /\ o = Run => loop[<<t, Agent>>].pc = "idle"
    /\ loop' = [loop EXCEPT ![<<t, o>>].pc = "put", ![<<t, o>>].read = Missing]
    /\ owes' = IF o = Run /\ owes[t] = "superstep" THEN [owes EXCEPT ![t] = "put"] ELSE owes
    /\ UNCHANGED <<postgres, clock, redis, disturbed, abandoned>>

\* aput, the INSERT: created_at is the time of the transaction, not of its commit.
aput_insert(t, o) ==
    /\ loop[<<t, o>>].pc = "put"
    /\ clock < MaxCheckpoints
    /\ clock' = clock + 1
    /\ loop' = [loop EXCEPT ![<<t, o>>].pc = "commit",
                            ![<<t, o>>].new = [at |-> clock + 1, of |-> o]]
    /\ UNCHANGED <<postgres, redis, owes, disturbed, abandoned>>

\* Mutant: the session is not committed.
aput_commit_forgotten(t, o) ==
    /\ loop[<<t, o>>].pc = "commit"
    /\ loop' = [loop EXCEPT ![<<t, o>>].pc = "mirror"]
    /\ owes' = IF o = Run /\ owes[t] = "put" THEN [owes EXCEPT ![t] = "nothing"] ELSE owes
    /\ UNCHANGED <<postgres, clock, redis, disturbed, abandoned>>

aput_commit(t, o) ==
    /\ loop[<<t, o>>].pc = "commit"
    /\ postgres' = postgres \cup {loop[<<t, o>>].new}
    /\ loop' = [loop EXCEPT ![<<t, o>>].pc = "mirror"]
    /\ owes' = IF o = Run /\ owes[t] = "put" THEN [owes EXCEPT ![t] = "nothing"] ELSE owes
    /\ UNCHANGED <<clock, redis, disturbed, abandoned>>

\* Mutant: the key is set only if it does not exist.
aput_redis_nx(t, o) ==
    /\ loop[<<t, o>>].pc = "mirror"
    /\ \/ redis' = (IF redis = Missing THEN loop[<<t, o>>].new ELSE redis) /\ UNCHANGED disturbed
       \/ disturbed' = TRUE /\ UNCHANGED redis
    /\ loop' = [loop EXCEPT ![<<t, o>>].pc = "run", ![<<t, o>>].new = Missing]
    /\ UNCHANGED <<postgres, clock, owes, abandoned>>

\* aput, the mirror: an exception is logged and the put succeeds without it.
aput_redis(t, o) ==
    /\ loop[<<t, o>>].pc = "mirror"
    /\ \/ redis' = loop[<<t, o>>].new /\ UNCHANGED disturbed
       \/ disturbed' = TRUE /\ UNCHANGED redis
    /\ loop' = [loop EXCEPT ![<<t, o>>].pc = "run", ![<<t, o>>].new = Missing]
    /\ UNCHANGED <<postgres, clock, owes, abandoned>>

-----------------------------------------------------------------------------
(* The end of a loop and of the key *)

\* ainvoke and aupdate_state return when their puts are done.  The run's graph does not
\* end in the superstep of a pillar.
return(t, o) ==
    /\ loop[<<t, o>>].pc = "run"
    /\ o = Run => loop[<<t, Agent>>].pc = "idle" /\ owes[t] = "nothing"
    /\ loop' = [loop EXCEPT ![<<t, o>>] = Idle]
    /\ UNCHANGED <<postgres, clock, redis, owes, disturbed, abandoned>>

\* The process dies, or an exception ends the task's graphs.
crash(t) ==
    /\ loop[<<t, Run>>].pc # "idle"
    /\ loop' = [l \in Loops |-> IF l[1] = t THEN Idle ELSE loop[l]]
    /\ owes' = [owes EXCEPT ![t] = "nothing"]
    /\ disturbed' = TRUE
    /\ abandoned' = (abandoned \/ owes[t] # "nothing")
    /\ UNCHANGED <<postgres, clock, redis>>

\* The key expires _CHECKPOINT_TTL after it was set, or Redis evicts it earlier.
expire ==
    /\ redis # Missing
    /\ redis' = Missing
    /\ UNCHANGED <<postgres, clock, loop, owes, disturbed, abandoned>>

Next ==
    \/ expire
    \/ \E t \in Tasks :
         \/ crash(t)
         \/ \E o \in {Run, Agent} :
              \/ aget_tuple_hot(t, o) \/ aget_tuple_cold(t, o) \/ superstep(t, o)
              \/ aput_insert(t, o) \/ aput_commit(t, o) \/ aput_redis(t, o) \/ return(t, o)

Spec == Init /\ [][Next]_vars

-----------------------------------------------------------------------------
(* Properties *)

\* Redis never runs ahead of PostgreSQL: a crash between the two writes of aput
\* loses the mirror and never leaves a checkpoint that was not committed.
CacheIsDurable == redis # Missing => redis \in postgres

\* The run's graph begins its work with the latest committed checkpoint, its own.
ReadsLatest(t) ==
    loop[<<t, Run>>].pc \in {"idle", "cold"} /\ loop'[<<t, Run>>].pc = "run"
      => /\ loop'[<<t, Run>>].read = Latest
         /\ Latest # Missing => Latest.of = Run

\* Redis expiring, evicting or failing to answer is harmless, and so are the agents'
\* checkpoints among the run's: as long as no mirror failed, no task died and none
\* overlapped, a task starts from the latest checkpoint, and it is the run's.
ReadsLatestUndisturbed == [][\A t \in Tasks : ~disturbed' => ReadsLatest(t)]_vars

\* An agent's checkpoint is PostgreSQL's latest only between the agent's start and the
\* run's next checkpoint, unless a task died there: tasks that overlap, mirrors that
\* fail and crashes elsewhere leave a run that can be resumed.
LatestIsTheRuns ==
    Latest # Missing /\ Latest.of = Agent => abandoned \/ \E t \in Tasks : owes[t] # "nothing"

=============================================================================
