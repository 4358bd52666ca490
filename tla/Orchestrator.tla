---------------------------- MODULE Orchestrator ----------------------------
(***************************************************************************)
(* One run under the orchestrator: the runs row, the gates table, the      *)
(* run's checkpoint, and the asyncio tasks of the backend that work on     *)
(* them -- the run.created consumer, POST /gates/{id} requests, the gate   *)
(* timeout sweep, pillar workers that report a finished step, and the      *)
(* DELETE /runs/{id} that may take the rows from under all of them.  They  *)
(* share nothing in memory, so it is the same in one process or several.   *)
(*                                                                         *)
(* Every action of a task is the code between two awaits that reach the    *)
(* database, the checkpointer or the event bus; what a task read before an *)
(* await it keeps in its record.  Handlers is the set of tasks that may be *)
(* under way together: with one handler everything is sequential.          *)
(***************************************************************************)
EXTENDS RunGraph, FiniteSets, Sequences

CONSTANTS
    Handlers,     \* tasks that may run at the same time
    NoRun,        \* a thread without a checkpoint
    Answers,      \* the decisions that requests carry: the API accepts every GateState
    Scenarios,    \* how often each thing outside the process happens
    MaxFailures,  \* how many exceptions and crashes there may be
    DurableQueue  \* SQS redelivers run.created after a crash; the mock queue forgets it

Events == {"deliver", "decide", "sweep", "step", "cancel"}

ASSUME OrchestratorAssumption ==
    /\ NoRun \notin Checkpoint
    /\ Answers \subseteq Decisions
    /\ Scenarios \subseteq [Events -> Nat]
    /\ MaxFailures \in Nat
    /\ DurableQueue \in BOOLEAN

VARIABLES
    status,        \* runs.status, "none" before the row exists, "deleted" after it
    completed_at,  \* is runs.completed_at set?
    published,     \* the idea in the run.created on the queue, NoPivot without one
    gates,         \* the gates table, in order of creation: the gate's node and state
    announced,     \* the gates whose gate.required went out
    checkpoint,    \* the latest checkpoint of the run's thread
    task,          \* what each handler is doing
    left,          \* what is left of the scenario
    failures,      \* how many failures there were
    disturbed      \* history: have two calls met, or has one come unasked?

runVars ==
    <<status, completed_at, published, gates, announced, checkpoint, task, left, failures>>
vars == <<runVars, disturbed>>
rows == <<status, completed_at, published, gates, announced>>

\* A handler's program counter names the call it makes next; the other fields
\* are its local variables.
Idle == [pc |-> "idle", kind |-> "none", gate |-> 0, decision |-> "none",
         pivot_text |-> NoPivot, memory |-> NoRun, snapshot |-> NoRun,
         row |-> 0, inserted |-> FALSE, expired |-> {}]

TypeOK ==
    /\ status \in {"none", "queued", "running", "paused", "completed", "failed", "deleted"}
    /\ completed_at \in BOOLEAN
    /\ published \in Ideas \cup {NoPivot}
    /\ gates \in Seq([kind : GateNodes, state : Decisions \cup {"deleted"}])
    /\ announced \subseteq DOMAIN gates
    /\ checkpoint \in Checkpoint \cup {NoRun}
    /\ left \in [Events -> Nat]
    /\ failures \in 0..MaxFailures
    /\ disturbed \in BOOLEAN
    /\ \A h \in Handlers :
         /\ task[h].pc \in {"idle", "start", "loop", "resumed", "select_gate",
                            "insert_gate", "activate", "activated", "emit", "sync", "set_status",
                            "commit", "expire", "load", "inject", "invoke"}
         /\ task[h].gate \in 0..Len(gates) /\ task[h].row \in 0..Len(gates)
         /\ task[h].memory \in Checkpoint \cup {NoRun}
         /\ task[h].snapshot \in Checkpoint \cup {NoRun}
         /\ task[h].expired \subseteq DOMAIN gates

Init ==
    /\ status = "none"
    /\ completed_at = FALSE
    /\ published = NoPivot
    /\ gates = <<>>
    /\ announced = {}
    /\ checkpoint = NoRun
    /\ task = [h \in Handlers |-> Idle]
    /\ left \in Scenarios
    /\ failures = 0
    /\ disturbed = FALSE

Terminal == {"completed", "failed"}

Pending == {g \in DOMAIN gates : gates[g].state = "pending"}

Spend(e) == left[e] > 0 /\ left' = [left EXCEPT ![e] = @ - 1]

Goto(h, pc) == task' = [task EXCEPT ![h].pc = pc]

-----------------------------------------------------------------------------
(* POST /ideas: the row is committed, then run.created is published.        *)
(* DELETE /runs/{id}: the run and, by the cascade, its gates; the thread    *)
(* of the graph, the message and the tasks under way stay.                  *)

submit_idea ==
    /\ status = "none"
    /\ status' = "queued"
    /\ UNCHANGED <<completed_at, published, gates, announced, checkpoint, task, left, failures>>

publish_run_created ==
    /\ status = "queued" /\ published = NoPivot /\ checkpoint = NoRun
    /\ published' \in Ideas
    /\ UNCHANGED <<status, completed_at, gates, announced, checkpoint, task, left, failures>>

cancel_run ==
    /\ status \notin {"none", "deleted"}
    /\ Spend("cancel")
    /\ status' = "deleted"
    /\ gates' = [g \in DOMAIN gates |-> [gates[g] EXCEPT !.state = "deleted"]]
    /\ UNCHANGED <<completed_at, published, announced, checkpoint, task, failures>>

(* SQSRunCreatedConsumer._process_message *)

receive_run_created(h) ==
    /\ published # NoPivot
    /\ task[h].pc = "idle"
    /\ Spend("deliver")
    /\ task' = [task EXCEPT ![h].pc = "start", ![h].kind = "create"]
    /\ UNCHANGED <<rows, checkpoint, failures>>

\* ainvoke with an input: whatever the thread held, it starts over.
start_graph(h) ==
    /\ task[h].pc = "start"
    /\ checkpoint' = [last |-> "START", values |-> make_initial_state(published)]
    /\ task' = [task EXCEPT ![h].pc = "loop", ![h].memory = checkpoint']
    /\ UNCHANGED <<rows, left, failures>>

-----------------------------------------------------------------------------
(* ainvoke: supersteps on the task's own copy of the state, each one        *)
(* checkpointed over whatever the thread holds by then.                     *)

Stops(h) ==
    \/ next_of(task[h].memory) = "END"
    \/ interrupt_before(task[h].memory) /\ task[h].pc = "loop"

superstep(h) ==
    /\ task[h].pc \in {"loop", "resumed"}
    /\ ~Stops(h)
    /\ \E s \in NodeResults(next_of(task[h].memory), task[h].memory.values) :
         checkpoint' = [last |-> next_of(task[h].memory), values |-> s]
    /\ task' = [task EXCEPT ![h].pc = "loop", ![h].memory = checkpoint']
    /\ UNCHANGED <<rows, left, failures>>

\* ainvoke returns, and the caller asks for the state of the thread.
aget_state(h) ==
    /\ task[h].pc \in {"loop", "resumed"}
    /\ Stops(h)
    /\ task' = [task EXCEPT ![h].pc = "select_gate", ![h].memory = NoRun,
                            ![h].snapshot = checkpoint]
    /\ UNCHANGED <<rows, checkpoint, left, failures>>

-----------------------------------------------------------------------------
(* check_and_create_gate, on the snapshot *)

\* resume writes the status it read from that snapshot; the consumer reads again.
AfterGate(h) == IF task[h].kind = "create" THEN "sync" ELSE "set_status"

PendingOfSnapshot(h) == {g \in Pending : gates[g].kind = next_of(task[h].snapshot)}

select_gate(h) ==
    /\ task[h].pc = "select_gate"
    /\ \/ ~interrupt_before(task[h].snapshot) /\ Goto(h, AfterGate(h))
       \/ /\ interrupt_before(task[h].snapshot)
          /\ PendingOfSnapshot(h) = {}
          /\ Goto(h, "insert_gate")
       \/ \E g \in Pending :
            /\ interrupt_before(task[h].snapshot)
            /\ PendingOfSnapshot(h) = {g}
            /\ IF task[h].snapshot.values.active_gate_id = 0
               THEN task' = [task EXCEPT ![h].pc = "activate", ![h].row = g]
               ELSE Goto(h, AfterGate(h))
       \/ /\ interrupt_before(task[h].snapshot)
          /\ Cardinality(PendingOfSnapshot(h)) > 1  \* scalar_one_or_none raises
          /\ task' = [task EXCEPT ![h] = Idle]
    /\ UNCHANGED <<rows, checkpoint, left, failures>>

\* Mutants: the insert is not committed; a kind is confused with another.
insert_gate_uncommitted(h) ==
    /\ task[h].pc = "insert_gate"
    /\ task' = [task EXCEPT ![h].pc = "activate", ![h].row = Len(gates) + 1,
                            ![h].inserted = TRUE]
    /\ UNCHANGED <<rows, checkpoint, left, failures>>

insert_gate_confused(h) ==
    /\ task[h].pc = "insert_gate"
    /\ gates' = Append(gates, [kind |-> "launch_gate", state |-> "pending"])
    /\ task' = [task EXCEPT ![h].pc = "activate", ![h].row = Len(gates'), ![h].inserted = TRUE]
    /\ UNCHANGED <<status, completed_at, published, announced, checkpoint, left, failures>>

\* Mutant: gates.run_id does not refer to a row of runs.
insert_gate_orphaned(h) ==
    /\ task[h].pc = "insert_gate"
    /\ gates' = Append(gates, [kind |-> next_of(task[h].snapshot), state |-> "pending"])
    /\ task' = [task EXCEPT ![h].pc = "activate", ![h].row = Len(gates'), ![h].inserted = TRUE]
    /\ UNCHANGED <<status, completed_at, published, announced, checkpoint, left, failures>>

\* Without its run the row breaks the foreign key and the commit raises.
insert_gate(h) ==
    /\ task[h].pc = "insert_gate"
    /\ \/ /\ status # "deleted"
          /\ gates' = Append(gates, [kind |-> next_of(task[h].snapshot), state |-> "pending"])
          /\ task' = [task EXCEPT ![h].pc = "activate", ![h].row = Len(gates'),
                                  ![h].inserted = TRUE]
       \/ /\ status = "deleted"
          /\ task' = [task EXCEPT ![h] = Idle]
          /\ UNCHANGED gates
    /\ UNCHANGED <<status, completed_at, published, announced, checkpoint, left, failures>>

\* aupdate_state(active_gate_id): a read of the thread, then a write.
activate_read(h) ==
    /\ task[h].pc = "activate"
    /\ task' = [task EXCEPT ![h].pc = "activated", ![h].memory = checkpoint]
    /\ UNCHANGED <<rows, checkpoint, left, failures>>

\* Mutant: the event goes out for the gates that existed already.
activate_write_inverted(h) ==
    /\ task[h].pc = "activated"
    /\ checkpoint' = [task[h].memory EXCEPT !.values.active_gate_id = task[h].row]
    /\ task' = [task EXCEPT ![h].pc = IF task[h].inserted THEN AfterGate(h) ELSE "emit",
                            ![h].memory = NoRun]
    /\ UNCHANGED <<rows, left, failures>>

\* Only a gate that this call inserted is announced.
activate_write(h) ==
    /\ task[h].pc = "activated"
    /\ checkpoint' = [task[h].memory EXCEPT !.values.active_gate_id = task[h].row]
    /\ task' = [task EXCEPT ![h].pc = IF task[h].inserted THEN "emit" ELSE AfterGate(h),
                            ![h].memory = NoRun]
    /\ UNCHANGED <<rows, left, failures>>

emit_gate_required(h) ==
    /\ task[h].pc = "emit"
    /\ announced' = announced \cup {task[h].row}
    /\ Goto(h, AfterGate(h))
    /\ UNCHANGED <<status, completed_at, published, gates, checkpoint, left, failures>>

-----------------------------------------------------------------------------
(* runs.status after a call *)

sync_status_from_graph(h) ==
    /\ task[h].pc = "sync"
    /\ task' = [task EXCEPT ![h].pc = "set_status", ![h].snapshot = checkpoint]
    /\ UNCHANGED <<rows, checkpoint, left, failures>>

derive_status(snapshot) ==
    CASE interrupt_before(snapshot) -> "paused"
      [] next_of(snapshot) = "END" ->
           IF snapshot.values.status \in Terminal THEN snapshot.values.status ELSE "completed"
      [] OTHER -> "running"

\* The last step of a call; a sweep goes on with its list.  The UPDATE of a deleted
\* run finds no row.
update_run_status(h) ==
    /\ task[h].pc = "set_status"
    /\ status' = IF status = "deleted" THEN status ELSE derive_status(task[h].snapshot)
    /\ completed_at' = (completed_at \/ status' \in Terminal)
    /\ task' = [task EXCEPT ![h] =
                  IF task[h].expired = {} THEN Idle
                  ELSE [Idle EXCEPT !.pc = "expire", !.kind = "resume",
                                    !.expired = task[h].expired]]
    /\ UNCHANGED <<published, gates, announced, checkpoint, left, failures>>

-----------------------------------------------------------------------------
(* POST /runs/{id}/gates/{gate}: any member of GateState is accepted as the *)
(* decision and the notes are passed on as pivot text; a row that is no     *)
(* longer pending is answered with 409.                                     *)

decide_gate(h, g, decision, notes) ==
    /\ task[h].pc = "idle"
    /\ gates[g].state = "pending"
    /\ Spend("decide")
    /\ task' = [task EXCEPT ![h] = [Idle EXCEPT !.pc = "commit", !.kind = "resume", !.gate = g,
                                     !.decision = decision, !.pivot_text = notes]]
    /\ UNCHANGED <<rows, checkpoint, failures>>

\* The commit of a row that was read raises when the row is gone by then.
stale_row(h) ==
    /\ \/ task[h].pc = "commit" /\ gates[task[h].gate].state = "deleted"
       \/ task[h].pc = "expire" /\ \E g \in task[h].expired : gates[g].state = "deleted"
    /\ task' = [task EXCEPT ![h] = Idle]
    /\ UNCHANGED <<rows, checkpoint, left, failures>>

commit_decision(h) ==
    /\ task[h].pc = "commit"
    /\ gates[task[h].gate].state # "deleted"
    /\ gates' = [gates EXCEPT ![task[h].gate].state = task[h].decision]
    /\ status' = CASE task[h].decision = "approved" -> "running"
                   [] task[h].decision = "rejected" -> "failed"
                   [] OTHER -> status
    /\ Goto(h, "load")
    /\ UNCHANGED <<completed_at, published, announced, checkpoint, left, failures>>

(* OrchestratorEngine.resume: aupdate_state (a read, then a write), then    *)
(* ainvoke(None), which reads the thread again.                             *)

resume_read(h) ==
    /\ task[h].pc = "load"
    /\ task' = [task EXCEPT ![h].pc = "inject", ![h].memory = checkpoint]
    /\ UNCHANGED <<rows, checkpoint, left, failures>>

\* Mutant: the graph is resumed without the decision.
resume_write_nothing(h) ==
    /\ task[h].pc = "inject"
    /\ task' = [task EXCEPT ![h].pc = "invoke", ![h].memory = NoRun,
                            ![h].decision = "none", ![h].pivot_text = NoPivot]
    /\ UNCHANGED <<rows, checkpoint, left, failures>>

resume_write(h) ==
    /\ task[h].pc = "inject"
    /\ checkpoint' = inject(task[h].memory, task[h].decision, task[h].pivot_text)
    /\ task' = [task EXCEPT ![h].pc = "invoke", ![h].memory = NoRun,
                            ![h].decision = "none", ![h].pivot_text = NoPivot]
    /\ UNCHANGED <<rows, left, failures>>

resume_invoke(h) ==
    /\ task[h].pc = "invoke"
    /\ task' = [task EXCEPT ![h].pc = "resumed", ![h].gate = 0, ![h].memory = checkpoint]
    /\ UNCHANGED <<rows, checkpoint, left, failures>>

(* check_gate_timeouts: a list of overdue rows, read once, then one commit  *)
(* and one resume after the other, in no particular order.  Any pending row *)
(* may be overdue.                                                          *)

check_gate_timeouts(h, overdue) ==
    /\ task[h].pc = "idle"
    /\ overdue # {}
    /\ Spend("sweep")
    /\ task' = [task EXCEPT ![h] = [Idle EXCEPT !.pc = "expire", !.kind = "resume",
                                     !.expired = overdue]]
    /\ UNCHANGED <<rows, checkpoint, failures>>

expire(h) ==
    /\ task[h].pc = "expire"
    /\ \E g \in task[h].expired :
           /\ gates[g].state # "deleted"
           /\ gates' = [gates EXCEPT ![g].state = "timed_out"]
           /\ task' = [task EXCEPT ![h].pc = "load", ![h].gate = g,
                                   ![h].decision = "timed_out", ![h].expired = @ \ {g}]
    /\ UNCHANGED <<status, completed_at, published, announced, checkpoint, left, failures>>

\* A pillar worker that finished a step approves whatever the run waits at; its events
\* refer to the runs row, and without the row it does not get that far.
finish_step(h) ==
    /\ task[h].pc = "idle"
    /\ status # "deleted"
    /\ checkpoint # NoRun
    /\ Spend("step")
    /\ task' = [task EXCEPT ![h] = [Idle EXCEPT !.pc = "load", !.kind = "resume",
                                     !.decision = "approved"]]
    /\ UNCHANGED <<rows, checkpoint, failures>>

-----------------------------------------------------------------------------

\* An await of the database, Redis or the event bus raises.
fail(h) ==
    /\ task[h].pc # "idle"
    /\ failures < MaxFailures
    /\ failures' = failures + 1
    /\ task' = [task EXCEPT ![h] = Idle]
    /\ UNCHANGED <<rows, checkpoint, left>>

\* The backend dies, and with it every task and the in-memory queue.
crash ==
    /\ failures < MaxFailures
    /\ failures' = failures + 1
    /\ task' = [h \in Handlers |-> Idle]
    /\ published' = IF DurableQueue THEN published ELSE NoPivot
    /\ UNCHANGED <<status, completed_at, gates, announced, checkpoint, left>>

Handle(h) ==
    \/ start_graph(h) \/ superstep(h) \/ aget_state(h)
    \/ select_gate(h) \/ insert_gate(h) \/ activate_read(h) \/ activate_write(h)
    \/ emit_gate_required(h) \/ sync_status_from_graph(h) \/ update_run_status(h)
    \/ commit_decision(h) \/ stale_row(h) \/ expire(h)
    \/ resume_read(h) \/ resume_write(h) \/ resume_invoke(h)

Arrive(h) ==
    \/ receive_run_created(h)
    \/ \E g \in DOMAIN gates, d \in Answers, t \in Ideas \cup {NoPivot} :
         decide_gate(h, g, d, t)
    \/ \E overdue \in SUBSET Pending : check_gate_timeouts(h, overdue)
    \/ finish_step(h)

Act ==
    \/ submit_idea \/ publish_run_created \/ cancel_run \/ crash
    \/ \E h \in Handlers : Handle(h) \/ Arrive(h) \/ fail(h)

\* What nothing in the code keeps from happening, and what several properties do not
\* survive: two calls for the run are under way at once, the message starts over a
\* run that is on its way, a worker approves without having asked for a gate.
Disturbing ==
    \/ \E h, k \in Handlers : h # k /\ task[h].pc # "idle" /\ task[k].pc # "idle"
    \/ \E h \in Handlers : task[h].pc = "start" /\ checkpoint # NoRun
    \/ \E h \in Handlers : task[h].pc = "load" /\ task[h].gate = 0

Next == Act /\ disturbed' = (disturbed \/ Disturbing')

Spec == Init /\ [][Next]_vars

\* The event loop does not starve a task.
FairSpec == Spec /\ \A h \in Handlers : WF_runVars(Handle(h))

-----------------------------------------------------------------------------
(* Properties *)

Quiescent == \A h \in Handlers : task[h].pc = "idle"

NoFailureYet == failures = 0

\* The gates that a decision acts on: the one the run waits at or left last.
GatesActedOn(cp) == {cp.last, next_of(cp)} \cap GateNodes

\* A decision is applied to the gate it was made about: when ainvoke(None) picks up
\* an injected decision, the gate it passes or routes from is the one whose row was
\* decided (gates.decide_gate, gate_manager.check_gate_timeouts, engine.resume).
AppliedToItsGate ==
    \A h \in Handlers :
        task[h].pc = "invoke" /\ task'[h].pc = "resumed" /\ task[h].gate # 0
          => GatesActedOn(checkpoint) \subseteq {gates[task[h].gate].kind}

DecisionReachesItsGate == [][AppliedToItsGate]_vars

\* It is, as long as no two calls for the run have met: failures, crashes, late
\* timeouts and a cancellation do not lead a decision to another gate.
UndisturbedDecisionReachesItsGate == [][~disturbed' => AppliedToItsGate]_vars

\* When nothing is under way, nothing failed and no two calls have met, a run that
\* waits at a gate can be answered: one pending row, of that gate, known to the graph,
\* announced to the founder and the run shown as paused (check_and_create_gate,
\* _derive_status).
Settled ==
    Quiescent /\ NoFailureYet /\ ~disturbed /\ checkpoint # NoRun /\ status # "deleted" =>
        /\ interrupt_before(checkpoint) =>
             LET g == checkpoint.values.active_gate_id
             IN  /\ Pending = {g}
                 /\ gates[g].kind = next_of(checkpoint)
                 /\ g \in announced
        /\ status = derive_status(checkpoint)
        /\ status \in Terminal => completed_at

\* The gates table records every signature the promise of GatedPipeline asks for.
Promise == INSTANCE GatedPipeline WITH
    MaxPivots <- MaxPivotRetries,
    done   <- IF checkpoint = NoRun THEN {}
              ELSE {p \in Pillars : checkpoint.values.output[p] # "none"},
    signed <- {gates[g].kind : g \in {i \in DOMAIN gates : gates[i].state = "approved"}},
    costly <- checkpoint # NoRun /\ checkpoint.values.output[5] = "costly",
    pivots <- IF checkpoint = NoRun THEN 0 ELSE checkpoint.values.retry_count

ImplementsGatedPipeline == Promise!Spec

\* With any number of tasks: every step of a run that was not cancelled is one of the
\* promise, up to the moment when two calls for the run meet.
KeepsPromise ==
    /\ Promise!Init
    /\ [][~disturbed' /\ status' # "deleted" => [Promise!Next]_(Promise!pipelineVars)]_vars

\* An approval is not lost between the commit of the row and the resume: the pillar
\* behind the gate delivers, unless a task failed (gates.decide_gate, engine.resume).
PillarBehind(n) ==
    CASE n = "validation_gate" -> 2 [] n = "architecture_gate" -> 3
      [] n = "infra_spend_gate" -> 6 [] n = "launch_gate" -> 7

ApprovalAdvances ==
    \A n \in GateNodes :
        (\E g \in DOMAIN gates : gates[g].kind = n /\ gates[g].state = "approved")
          ~> (checkpoint # NoRun /\ (checkpoint.values.output[PillarBehind(n)] # "none"
                                     \/ ~NoFailureYet))

\* However calls interleave, a checkpoint never shows a pillar without the work it
\* stands on (graph.build_run_graph; every write starts from one that was read).
OutputsInOrder ==
    checkpoint # NoRun =>
        \A p \in {3, 4, 6, 7} :
            checkpoint.values.output[p] # "none"
              => \A q \in {2, 3, 4, 6} : q < p => checkpoint.values.output[q] # "none"

\* A cancelled run stays cancelled: whatever the tasks under way, the sweep and the
\* message on the queue go on to do, none of them brings the row or a gate back
\* (runs.cancel_run, the cascade and the foreign keys of gates, _update_run_status).
CancelIsFinal ==
    [][status = "deleted" =>
         /\ status' = "deleted"
         /\ \A g \in DOMAIN gates' : gates'[g].state = "deleted"]_vars

=============================================================================
