----------------------------- MODULE AgentGraph -----------------------------
(***************************************************************************)
(* One run of an agent of app/agents: BaseAgent.execute as LangGraph, or   *)
(* plain awaits one after the other, carry it out.  The nodes of a         *)
(* superstep run at the same time; each has read the state the superstep   *)
(* began with, and their updates are merged into the next one.             *)
(***************************************************************************)
EXTENDS Naturals

CONSTANTS
    Entry,             \* the first node
    Successors(_, _),  \* the nodes a node and the state lead to
    Returns(_, _, _),  \* what a node, having read one state, may make of another
    Raises(_, _),      \* whether a node, having read a state, may raise
    RecursionLimit     \* supersteps that LangGraph allows

VARIABLES
    status,  \* of the run
    steps,   \* supersteps begun
    next,    \* the nodes of the superstep, of which
    done,    \* these have returned
    read,    \* the state they have read
    st       \* the state with the updates so far

Statuses == {"running", "ended", "returned", "failed"}

Start(s) ==
    /\ status = "running"
    /\ steps = 1
    /\ next = {Entry}
    /\ done = {}
    /\ read = s
    /\ st = s

node_returns(n) ==
    /\ status = "running"
    /\ n \in next \ done
    /\ st' \in Returns(n, read, st)
    /\ done' = done \cup {n}
    /\ UNCHANGED <<status, steps, next, read>>

Stop(outcome) ==
    /\ status' = outcome
    /\ next' = {}
    /\ done' = {}
    /\ UNCHANGED <<steps, read, st>>

\* A node that raises takes the nodes beside it with it.
node_raises(n) ==
    /\ status = "running"
    /\ n \in next \ done
    /\ Raises(n, read)
    /\ Stop("failed")

Following == UNION {Successors(n, st) : n \in next}

superstep ==
    /\ status = "running"
    /\ done = next
    /\ Following # {}
    /\ steps < RecursionLimit
    /\ steps' = steps + 1
    /\ next' = Following
    /\ done' = {}
    /\ read' = st
    /\ UNCHANGED <<status, st>>

\* GraphRecursionError.
limit_reached ==
    /\ status = "running"
    /\ done = next
    /\ Following # {}
    /\ steps = RecursionLimit
    /\ Stop("failed")

end_reached ==
    /\ status = "running"
    /\ done = next
    /\ Following = {}
    /\ Stop("ended")

Step ==
    \/ superstep \/ limit_reached \/ end_reached
    \/ \E n \in next : node_returns(n) \/ node_raises(n)

\* asyncio.timeout(SLA_SECONDS), or the process dies.
abandoned ==
    /\ status = "running"
    /\ Stop("failed")

=============================================================================
