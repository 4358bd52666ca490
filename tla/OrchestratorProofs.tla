------------------------- MODULE OrchestratorProofs -------------------------
(***************************************************************************)
(* What holds of Orchestrator for any number of handlers under way at the  *)
(* same time, any number of arrivals, failures and crashes, and every set  *)
(* of ideas: whatever the interleaving, a checkpoint is one that a single  *)
(* caller could have left, and a cancelled run stays cancelled.  And what  *)
(* holds of every behaviour up to the moment when two calls for the run    *)
(* meet: a decision reaches the gate it was made on, the tables agree with *)
(* the graph once a call has returned, and every step is one that          *)
(* GatedPipeline promises.                                                 *)
(***************************************************************************)
EXTENDS Orchestrator, RunGraphProofs, SequenceTheorems, FiniteSetTheorems

\* The checkpoints that a single caller could have left.
Copies == {cp \in Checkpoint :
             Positioned(cp) /\ cp.values.retry_count <= MaxPivotRetries}

GateRows == [kind : GateNodes, state : Decisions \cup {"deleted"}]

Calls == {"idle", "start", "loop", "resumed", "select_gate", "insert_gate", "activate",
          "activated", "emit", "sync", "set_status", "commit", "expire", "load", "inject",
          "invoke"}

Tasks == [pc : Calls, kind : {"none", "create", "resume"}, gate : Nat,
          decision : Decisions \cup {"none"}, pivot_text : Ideas \cup {NoPivot},
          memory : Copies \cup {NoRun}, snapshot : Copies \cup {NoRun},
          row : Nat, inserted : BOOLEAN, expired : SUBSET Nat]

(***************************************************************************)
(* The inductive invariant.  No lock orders the handlers: each works on a  *)
(* copy of the run that it read earlier, over what others have done since. *)
(* It is enough that every copy is a good one, that a handler has what its *)
(* next call needs, and that nothing a handler refers to ever disappears:  *)
(* rows are only added, and a thread that has a checkpoint keeps one.      *)
(***************************************************************************)

\* A task t is sound over a table of n gates, a thread at cp and a message pub.
Sound(t, n, cp, pub) ==
    /\ t.gate <= n /\ t.row <= n /\ t.expired \subseteq 1..n
    /\ t.pc = "start" => pub # NoPivot
    /\ t.pc \notin {"idle", "start"} => cp # NoRun
    /\ t.pc \in {"loop", "resumed", "activated", "inject"} => t.memory # NoRun
    /\ t.pc = "insert_gate" => interrupt_before(t.snapshot)
    /\ t.pc \in {"activate", "activated", "emit"} => t.row # 0
    /\ t.pc = "commit" => t.gate # 0
    /\ t.pc \in {"commit", "load", "inject"} => t.decision \in Decisions

\* The gates of a cancelled run went with its row.
DeletedTogether ==
    status = "deleted" => \A g \in DOMAIN gates : gates[g].state = "deleted"

SharedOK ==
    /\ status \in {"none", "queued", "running", "paused", "completed", "failed", "deleted"}
    /\ completed_at \in BOOLEAN
    /\ published \in Ideas \cup {NoPivot}
    /\ gates \in Seq(GateRows)
    /\ announced \subseteq DOMAIN gates
    /\ checkpoint \in Copies \cup {NoRun}
    /\ left \in [Events -> Nat]
    /\ failures \in 0..MaxFailures
    /\ Len(gates) # 0 => checkpoint # NoRun
    /\ DeletedTogether

IInv ==
    /\ SharedOK
    /\ task \in [Handlers -> Tasks]
    /\ \A h \in Handlers : Sound(task[h], Len(gates), checkpoint, published)

-----------------------------------------------------------------------------
(* Copies of a run *)

\* ainvoke with an input starts from a good copy.
LEMMA StartIsCopy ==
    ASSUME NEW idea \in Ideas
    PROVE  [last |-> "START", values |-> make_initial_state(idea)] \in Copies
  <1>1. make_initial_state(idea).retry_count = 0 BY DEF make_initial_state
  <1> QED BY <1>1, StartIsPositioned, RunGraphAssumption DEF Copies

\* A superstep makes a good copy of a good copy.
LEMMA SuperStepIsCopy ==
    ASSUME NEW cp \in Copies, next_of(cp) \in Nodes,
           NEW r \in NodeResults(next_of(cp), cp.values)
    PROVE  [last |-> next_of(cp), values |-> r] \in Copies
  <1> DEFINE n == next_of(cp)
  <1>1. cp \in Checkpoint /\ Positioned(cp) /\ cp.values.retry_count <= MaxPivotRetries
    BY DEF Copies
  <1>2. cp.values \in RunState /\ cp.values.retry_count \in Nat
    BY <1>1 DEF Checkpoint, RunState
  <1>3. r.retry_count <= MaxPivotRetries
    <2>1. CASE n = "pivot_rerun"
      <3>1. r.retry_count = cp.values.retry_count + 1 /\ cp.values.retry_count < MaxPivotRetries
        BY <1>1, <1>2, <2>1, NodeEffects, Edges
      <3> QED BY <1>2, <3>1, RunGraphAssumption
    <2>2. CASE n # "pivot_rerun" BY <1>1, <1>2, <2>2, NodeEffects
    <2> QED BY <2>1, <2>2
  <1> QED BY <1>1, <1>3, SuperStepKeepsPosition DEF Copies

\* So do a resume's update and the write of active_gate_id.
LEMMA UpdateIsCopy ==
    ASSUME NEW cp \in Copies
    PROVE  /\ \A d \in Decisions, t \in Ideas \cup {NoPivot} : inject(cp, d, t) \in Copies
           /\ \A g \in Nat : [cp EXCEPT !.values.active_gate_id = g] \in Copies
  <1>1. cp \in Checkpoint /\ Positioned(cp) /\ cp.values.retry_count <= MaxPivotRetries
    BY DEF Copies
  <1>2. ASSUME NEW d \in Decisions, NEW t \in Ideas \cup {NoPivot}
        PROVE  inject(cp, d, t) \in Copies
    BY <1>1, InjectType, InjectKeepsPosition DEF Copies
  <1>3. ASSUME NEW g \in Nat
        PROVE  [cp EXCEPT !.values.active_gate_id = g] \in Copies
    <2> DEFINE cp2 == [cp EXCEPT !.values.active_gate_id = g]
    <2>1. /\ cp2 \in Checkpoint /\ cp2.last = cp.last
          /\ cp2.values.output = cp.values.output
          /\ cp2.values.retry_count = cp.values.retry_count
      BY <1>1 DEF Checkpoint, RunState
    <2> HIDE DEF cp2
    <2>2. Positioned(cp2) BY <1>1, <2>1 DEF Positioned
    <2>3. cp2 \in Copies BY <1>1, <2>1, <2>2 DEF Copies
    <2> QED BY <2>3 DEF cp2
  <1> QED BY <1>2, <1>3

-----------------------------------------------------------------------------
(* Steps *)

\* A step of one task, over a table that only grows, a thread that stays one and the
\* same message, keeps the others sound.
LEMMA TaskStep ==
    ASSUME IInv, SharedOK', NEW h \in Handlers, NEW t \in Tasks,
           task' = [task EXCEPT ![h] = t],
           Sound(t, Len(gates'), checkpoint', published'),
           Len(gates) <= Len(gates'), checkpoint # NoRun => checkpoint' # NoRun,
           published' = published
    PROVE  IInv'
  <1>1. task' \in [Handlers -> Tasks] BY DEF IInv
  <1>2. Len(gates) \in Nat /\ Len(gates') \in Nat BY DEF IInv, SharedOK
  <1>3. ASSUME NEW g \in Handlers
        PROVE  Sound(task'[g], Len(gates'), checkpoint', published')
    <2>1. CASE g = h BY <2>1 DEF IInv
    <2>2. CASE g # h
      <3>1. task'[g] = task[g] /\ Sound(task[g], Len(gates), checkpoint, published)
        BY <2>2 DEF IInv
      <3>2. task[g].gate \in Nat /\ task[g].row \in Nat BY DEF IInv, Tasks
      <3> QED BY <1>2, <3>1, <3>2 DEF Sound
    <2> QED BY <2>1, <2>2
  <1> QED BY <1>1, <1>3 DEF IInv

\* The same of a step that changes nothing but a task and the counters.
LEMMA LocalStep ==
    ASSUME IInv, NEW h \in Handlers, NEW t \in Tasks, task' = [task EXCEPT ![h] = t],
           UNCHANGED <<rows, checkpoint>>, left' \in [Events -> Nat],
           failures' \in 0..MaxFailures,
           Sound(t, Len(gates), checkpoint, published)
    PROVE  IInv'
  <1>1. UNCHANGED <<status, completed_at, published, gates, announced, checkpoint>>
    BY DEF rows
  <1>2. SharedOK' BY <1>1 DEF IInv, SharedOK, DeletedTogether
  <1>3. Len(gates) \in Nat BY DEF IInv, SharedOK
  <1>4. Sound(t, Len(gates'), checkpoint', published') BY <1>1
  <1>5. /\ Len(gates) <= Len(gates')
        /\ checkpoint # NoRun => checkpoint' # NoRun
        /\ published' = published
    BY <1>1, <1>3
  <1> QED BY <1>2, <1>4, <1>5, TaskStep

\* A task that has ended is sound.
LEMMA IdleIsSound ==
    /\ Idle \in Tasks
    /\ \A n \in Nat : \A cp, pub : Sound(Idle, n, cp, pub)
  BY RunGraphAssumption DEF Idle, Tasks, Calls, Sound

\* What a task finds in its own record, and in what it shares.
LEMMA Record ==
    ASSUME IInv, NEW h \in Handlers
    PROVE  /\ task[h] \in Tasks
           /\ Sound(task[h], Len(gates), checkpoint, published)
           /\ Len(gates) \in Nat /\ DOMAIN gates = 1..Len(gates)
           /\ checkpoint \in Copies \cup {NoRun} /\ NoRun \notin Copies
           /\ Len(gates) # 0 => checkpoint # NoRun
           /\ left \in [Events -> Nat] /\ failures \in 0..MaxFailures
  BY OrchestratorAssumption DEF IInv, SharedOK, Copies

LEMMA SpendType ==
    ASSUME left \in [Events -> Nat], NEW e \in Events, Spend(e)
    PROVE  left' \in [Events -> Nat]
  BY DEF Spend

-----------------------------------------------------------------------------
(* Arrivals and reads change the task only *)

\* The consumer takes the message.
LEMMA ReceiveStep == ASSUME IInv, NEW h \in Handlers, receive_run_created(h) PROVE IInv'
  <1> DEFINE t == [task[h] EXCEPT !.pc = "start", !.kind = "create"]
  <1>1. task' = [task EXCEPT ![h] = t] BY Record DEF receive_run_created, IInv, Tasks
  <1>2. t \in Tasks BY Record DEF Tasks, Calls
  <1>3. Sound(t, Len(gates), checkpoint, published)
    BY Record DEF receive_run_created, Tasks, Sound
  <1>4. left' \in [Events -> Nat] /\ failures' \in 0..MaxFailures
    BY Record, SpendType DEF receive_run_created, Events
  <1> HIDE DEF t
  <1> QED BY <1>1, <1>2, <1>3, <1>4, LocalStep DEF receive_run_created

\* A request, a sweep or a worker starts with a record of its own.
LEMMA ArriveStep == ASSUME IInv, NEW h \in Handlers, Arrive(h) PROVE IInv'
  <1>1. CASE receive_run_created(h) BY <1>1, ReceiveStep
  <1>2. ASSUME NEW g \in DOMAIN gates, NEW d \in Answers, NEW n \in Ideas \cup {NoPivot},
               decide_gate(h, g, d, n)
        PROVE  IInv'
    <2> DEFINE t == [Idle EXCEPT !.pc = "commit", !.kind = "resume", !.gate = g,
                                 !.decision = d, !.pivot_text = n]
    <2>1. task' = [task EXCEPT ![h] = t] BY <1>2 DEF decide_gate
    <2>2. d \in Decisions /\ g \in 1..Len(gates) /\ checkpoint # NoRun
      BY Record, OrchestratorAssumption
    <2>3. t \in Tasks
      <3>1. Idle \in Tasks /\ g \in Nat BY <2>2, IdleIsSound, Record
      <3> QED BY <2>2, <3>1 DEF Tasks, Calls
    <2>4. Sound(t, Len(gates), checkpoint, published)
      BY <2>2, Record DEF Sound, Idle
    <2>5. left' \in [Events -> Nat] /\ failures' \in 0..MaxFailures
      BY <1>2, Record, SpendType DEF decide_gate, Events
    <2> HIDE DEF t
    <2> QED BY <1>2, <2>1, <2>3, <2>4, <2>5, LocalStep DEF decide_gate
  <1>3. ASSUME NEW overdue \in SUBSET Pending, check_gate_timeouts(h, overdue) PROVE IInv'
    <2> DEFINE t == [Idle EXCEPT !.pc = "expire", !.kind = "resume", !.expired = overdue]
    <2>1. task' = [task EXCEPT ![h] = t] BY <1>3 DEF check_gate_timeouts
    <2>2. overdue \subseteq 1..Len(gates) /\ checkpoint # NoRun
      BY <1>3, Record DEF Pending, check_gate_timeouts
    <2>3. t \in Tasks
      <3>1. Idle \in Tasks /\ overdue \in SUBSET Nat BY <2>2, IdleIsSound, Record
      <3> QED BY <3>1 DEF Tasks, Calls
    <2>4. Sound(t, Len(gates), checkpoint, published)
      BY <2>2, Record DEF Sound, Idle
    <2>5. left' \in [Events -> Nat] /\ failures' \in 0..MaxFailures
      BY <1>3, Record, SpendType DEF check_gate_timeouts, Events
    <2> HIDE DEF t
    <2> QED BY <1>3, <2>1, <2>3, <2>4, <2>5, LocalStep DEF check_gate_timeouts
  <1>4. CASE finish_step(h)
    <2> DEFINE t == [Idle EXCEPT !.pc = "load", !.kind = "resume", !.decision = "approved"]
    <2>1. task' = [task EXCEPT ![h] = t] BY <1>4 DEF finish_step
    <2>2. t \in Tasks BY IdleIsSound DEF Tasks, Calls, Decisions
    <2>3. Sound(t, Len(gates), checkpoint, published)
      BY <1>4, Record DEF finish_step, Sound, Idle, Decisions
    <2>4. left' \in [Events -> Nat] /\ failures' \in 0..MaxFailures
      BY <1>4, Record, SpendType DEF finish_step, Events
    <2> HIDE DEF t
    <2> QED BY <1>4, <2>1, <2>2, <2>3, <2>4, LocalStep DEF finish_step
  <1> QED BY <1>1, <1>2, <1>3, <1>4 DEF Arrive

\* An exception, or a row that is gone, ends the task.
LEMMA EndStep == ASSUME IInv, NEW h \in Handlers, fail(h) \/ stale_row(h) PROVE IInv'
  <1>1. task' = [task EXCEPT ![h] = Idle] /\ UNCHANGED <<rows, checkpoint, left>>
    BY DEF fail, stale_row
  <1>2. failures' \in 0..MaxFailures
    BY Record, OrchestratorAssumption DEF fail, stale_row
  <1> QED BY <1>1, <1>2, Record, IdleIsSound, LocalStep

\* Reads of the thread: the copy is as good as the thread.
LEMMA ReadStep ==
    ASSUME IInv, NEW h \in Handlers,
           aget_state(h) \/ activate_read(h) \/ sync_status_from_graph(h)
               \/ resume_read(h) \/ resume_invoke(h)
    PROVE  IInv'
  <1>1. UNCHANGED <<rows, checkpoint, left, failures>>
    BY DEF aget_state, activate_read, sync_status_from_graph, resume_read, resume_invoke
  <1>2. PICK t \in Tasks : /\ task' = [task EXCEPT ![h] = t]
                           /\ Sound(t, Len(gates), checkpoint, published)
    <2>1. CASE aget_state(h)
      <3> DEFINE t == [task[h] EXCEPT !.pc = "select_gate", !.memory = NoRun,
                                      !.snapshot = checkpoint]
      <3>1. task' = [task EXCEPT ![h] = t] BY <2>1, Record DEF aget_state, IInv, Tasks
      <3>2. t \in Tasks BY Record DEF Tasks, Calls
      <3>3. Sound(t, Len(gates), checkpoint, published)
        BY <2>1, Record DEF aget_state, Tasks, Sound
      <3> QED BY <3>1, <3>2, <3>3
    <2>2. CASE activate_read(h)
      <3> DEFINE t == [task[h] EXCEPT !.pc = "activated", !.memory = checkpoint]
      <3>1. task' = [task EXCEPT ![h] = t] BY <2>2, Record DEF activate_read, IInv, Tasks
      <3>2. t \in Tasks BY Record DEF Tasks, Calls
      <3>3. Sound(t, Len(gates), checkpoint, published)
        BY <2>2, Record DEF activate_read, Tasks, Sound
      <3> QED BY <3>1, <3>2, <3>3
    <2>3. CASE sync_status_from_graph(h)
      <3> DEFINE t == [task[h] EXCEPT !.pc = "set_status", !.snapshot = checkpoint]
      <3>1. task' = [task EXCEPT ![h] = t]
        BY <2>3, Record DEF sync_status_from_graph, IInv, Tasks
      <3>2. t \in Tasks BY Record DEF Tasks, Calls
      <3>3. Sound(t, Len(gates), checkpoint, published)
        BY <2>3, Record DEF sync_status_from_graph, Tasks, Sound
      <3> QED BY <3>1, <3>2, <3>3
    <2>4. CASE resume_read(h)
      <3> DEFINE t == [task[h] EXCEPT !.pc = "inject", !.memory = checkpoint]
      <3>1. task' = [task EXCEPT ![h] = t] BY <2>4, Record DEF resume_read, IInv, Tasks
      <3>2. t \in Tasks BY Record DEF Tasks, Calls
      <3>3. Sound(t, Len(gates), checkpoint, published)
        BY <2>4, Record DEF resume_read, Tasks, Sound
      <3> QED BY <3>1, <3>2, <3>3
    <2>5. CASE resume_invoke(h)
      <3> DEFINE t == [task[h] EXCEPT !.pc = "resumed", !.gate = 0, !.memory = checkpoint]
      <3>1. task' = [task EXCEPT ![h] = t] BY <2>5, Record DEF resume_invoke, IInv, Tasks
      <3>2. t \in Tasks BY Record DEF Tasks, Calls
      <3>3. Sound(t, Len(gates), checkpoint, published)
        BY <2>5, Record DEF resume_invoke, Tasks, Sound
      <3> QED BY <3>1, <3>2, <3>3
    <2> QED BY <2>1, <2>2, <2>3, <2>4, <2>5
  <1>3. left' \in [Events -> Nat] /\ failures' \in 0..MaxFailures BY <1>1, Record
  <1> QED BY <1>1, <1>2, <1>3, LocalStep

\* check_and_create_gate decides what to do on the rows that it finds.
LEMMA SelectStep == ASSUME IInv, NEW h \in Handlers, select_gate(h) PROVE IInv'
  <1>1. UNCHANGED <<rows, checkpoint, left, failures>> BY DEF select_gate
  <1>2. left' \in [Events -> Nat] /\ failures' \in 0..MaxFailures BY <1>1, Record
  <1>3. task[h].pc = "select_gate" BY DEF select_gate
  <1>4. ASSUME NEW pc \in {"sync", "set_status", "insert_gate"}, Goto(h, pc),
               pc = "insert_gate" => interrupt_before(task[h].snapshot)
        PROVE  IInv'
    <2> DEFINE t == [task[h] EXCEPT !.pc = pc]
    <2>1. task' = [task EXCEPT ![h] = t] BY <1>4, Record DEF Goto, IInv, Tasks
    <2>2. t \in Tasks BY Record DEF Tasks, Calls
    <2>3. Sound(t, Len(gates), checkpoint, published)
      BY <1>3, <1>4, Record DEF Tasks, Sound
    <2> HIDE DEF t
    <2> QED BY <1>1, <1>2, <2>1, <2>2, <2>3, LocalStep
  <1>5. ASSUME NEW g \in Pending,
               task' = [task EXCEPT ![h].pc = "activate", ![h].row = g]
        PROVE  IInv'
    <2> DEFINE t == [task[h] EXCEPT !.pc = "activate", !.row = g]
    <2>1. task' = [task EXCEPT ![h] = t] BY <1>5, Record DEF IInv, Tasks
    <2>2. g \in 1..Len(gates) BY Record DEF Pending
    <2>3. t \in Tasks
      <3>1. task[h] \in Tasks /\ g \in Nat BY <2>2, Record
      <3> QED BY <3>1 DEF Tasks, Calls
    <2>4. Sound(t, Len(gates), checkpoint, published)
      BY <1>3, <2>2, Record DEF Tasks, Sound
    <2> HIDE DEF t
    <2> QED BY <1>1, <1>2, <2>1, <2>3, <2>4, LocalStep
  <1>6. task' = [task EXCEPT ![h] = Idle] => IInv'
    BY <1>1, <1>2, Record, IdleIsSound, LocalStep
  <1>7. AfterGate(h) \in {"sync", "set_status"} BY DEF AfterGate
  <1> QED BY <1>4, <1>5, <1>6, <1>7 DEF select_gate

-----------------------------------------------------------------------------
(* Writes of the thread *)

\* A step that leaves a good copy in the thread.
LEMMA ThreadStep ==
    ASSUME IInv, NEW h \in Handlers, NEW t \in Tasks, task' = [task EXCEPT ![h] = t],
           UNCHANGED <<rows, left, failures>>, checkpoint' \in Copies,
           Sound(t, Len(gates), checkpoint', published)
    PROVE  IInv'
  <1>1. UNCHANGED <<status, completed_at, published, gates, announced, left, failures>>
    BY DEF rows
  <1>2. checkpoint' # NoRun BY Record
  <1>3. SharedOK' BY <1>1, <1>2 DEF IInv, SharedOK, DeletedTogether
  <1>4. Sound(t, Len(gates'), checkpoint', published') BY <1>1
  <1>5. Len(gates) <= Len(gates') /\ published' = published BY <1>1, Record
  <1> QED BY <1>2, <1>3, <1>4, <1>5, TaskStep

\* The graph starts over on the message's idea.
LEMMA StartStep == ASSUME IInv, NEW h \in Handlers, start_graph(h) PROVE IInv'
  <1> DEFINE t == [task[h] EXCEPT !.pc = "loop", !.memory = checkpoint']
  <1>1. published \in Ideas
    BY Record DEF start_graph, Sound, IInv, SharedOK
  <1>2. checkpoint' \in Copies BY <1>1, StartIsCopy DEF start_graph
  <1>3. task' = [task EXCEPT ![h] = t] BY Record DEF start_graph, IInv, Tasks
  <1>4. t \in Tasks BY <1>2, Record DEF Tasks, Calls
  <1>5. Sound(t, Len(gates), checkpoint', published)
    BY <1>2, Record DEF start_graph, Tasks, Sound
  <1> HIDE DEF t
  <1> QED BY <1>2, <1>3, <1>4, <1>5, ThreadStep DEF start_graph

\* A superstep works on the task's copy, whatever the thread holds by then.
LEMMA SuperStepStep == ASSUME IInv, NEW h \in Handlers, superstep(h) PROVE IInv'
  <1> DEFINE t == [task[h] EXCEPT !.pc = "loop", !.memory = checkpoint']
             m == task[h].memory
  <1>1. m \in Copies BY Record DEF superstep, Sound, Tasks
  <1>2. next_of(m) \in Nodes
    BY <1>1, NextNodeType DEF superstep, Stops, Copies
  <1>3. PICK s \in NodeResults(next_of(m), m.values) :
          checkpoint' = [last |-> next_of(m), values |-> s]
    BY DEF superstep
  <1>4. checkpoint' \in Copies
    <2> HIDE DEF m
    <2> QED BY <1>1, <1>2, <1>3, SuperStepIsCopy
  <1>5. task' = [task EXCEPT ![h] = t] BY Record DEF superstep, IInv, Tasks
  <1>6. t \in Tasks BY <1>4, Record DEF Tasks, Calls
  <1>7. Sound(t, Len(gates), checkpoint', published)
    BY <1>4, Record DEF superstep, Tasks, Sound
  <1>8. UNCHANGED <<rows, left, failures>> BY DEF superstep
  <1> HIDE DEF t
  <1> QED BY <1>4, <1>5, <1>6, <1>7, <1>8, ThreadStep

\* aupdate_state(active_gate_id) writes the copy that it read.
LEMMA ActivateStep == ASSUME IInv, NEW h \in Handlers, activate_write(h) PROVE IInv'
  <1> DEFINE pc == IF task[h].inserted THEN "emit" ELSE AfterGate(h)
             t == [task[h] EXCEPT !.pc = pc, !.memory = NoRun]
  <1>1. task[h].memory \in Copies /\ task[h].row \in Nat /\ task[h].row # 0
    BY Record DEF activate_write, Sound, Tasks
  <1>2. checkpoint' \in Copies BY <1>1, UpdateIsCopy DEF activate_write
  <1>3. pc \in {"emit", "sync", "set_status"} BY DEF AfterGate
  <1>4. task' = [task EXCEPT ![h] = t] BY Record DEF activate_write, IInv, Tasks
  <1> HIDE DEF pc
  <1>5. t \in Tasks BY <1>3, Record DEF Tasks, Calls
  <1>6. Sound(t, Len(gates), checkpoint', published)
    BY <1>1, <1>2, <1>3, Record DEF activate_write, Tasks, Sound
  <1>7. UNCHANGED <<rows, left, failures>> BY DEF activate_write
  <1> HIDE DEF t
  <1> QED BY <1>2, <1>4, <1>5, <1>6, <1>7, ThreadStep

\* And so does the update of a resume.
LEMMA InjectStep == ASSUME IInv, NEW h \in Handlers, resume_write(h) PROVE IInv'
  <1> DEFINE t == [task[h] EXCEPT !.pc = "invoke", !.memory = NoRun,
                                  !.decision = "none", !.pivot_text = NoPivot]
  <1>1. /\ task[h].memory \in Copies /\ task[h].decision \in Decisions
        /\ task[h].pivot_text \in Ideas \cup {NoPivot}
    BY Record DEF resume_write, Sound, Tasks
  <1>2. checkpoint' \in Copies BY <1>1, UpdateIsCopy DEF resume_write
  <1>3. task' = [task EXCEPT ![h] = t] BY Record DEF resume_write, IInv, Tasks
  <1>4. t \in Tasks BY Record DEF Tasks, Calls
  <1>5. Sound(t, Len(gates), checkpoint', published)
    BY <1>2, Record DEF resume_write, Tasks, Sound
  <1>6. UNCHANGED <<rows, left, failures>> BY DEF resume_write
  <1> HIDE DEF t
  <1> QED BY <1>2, <1>3, <1>4, <1>5, <1>6, ThreadStep

-----------------------------------------------------------------------------
(* Writes of the tables *)

\* Adding a row, or changing the state of one, keeps the table a table of gates.
LEMMA RowAdded ==
    ASSUME gates \in Seq(GateRows), NEW r \in GateRows
    PROVE  /\ Append(gates, r) \in Seq(GateRows)
           /\ Len(Append(gates, r)) = Len(gates) + 1
           /\ DOMAIN gates \subseteq DOMAIN Append(gates, r)
  <1>1. Append(gates, r) \in Seq(GateRows) /\ Len(Append(gates, r)) = Len(gates) + 1
    BY AppendProperties
  <1>2. /\ DOMAIN gates = 1..Len(gates) /\ Len(gates) \in Nat
        /\ DOMAIN Append(gates, r) = 1..Len(Append(gates, r))
    BY <1>1, LenProperties
  <1> QED BY <1>1, <1>2

LEMMA RowChanged ==
    ASSUME gates \in Seq(GateRows), NEW g \in DOMAIN gates,
           NEW s \in Decisions \cup {"deleted"}
    PROVE  /\ [gates EXCEPT ![g].state = s] \in Seq(GateRows)
           /\ Len([gates EXCEPT ![g].state = s]) = Len(gates)
           /\ DOMAIN [gates EXCEPT ![g].state = s] = DOMAIN gates
  <1> DEFINE r == [gates[g] EXCEPT !.state = s]
  <1>1. DOMAIN gates = 1..Len(gates) BY LenProperties
  <1>2. gates[g] \in GateRows BY <1>1, ElementOfSeq
  <1>3. r \in GateRows BY <1>2 DEF GateRows
  <1>4. [gates EXCEPT ![g].state = s] = [gates EXCEPT ![g] = r] OBVIOUS
  <1> HIDE DEF r
  <1>5. /\ [gates EXCEPT ![g] = r] \in Seq(GateRows)
        /\ Len([gates EXCEPT ![g] = r]) = Len(gates)
        /\ DOMAIN [gates EXCEPT ![g] = r] = DOMAIN gates
    BY <1>1, <1>3, ExceptSeq
  <1> QED BY <1>4, <1>5

LEMMA RowsDeleted ==
    ASSUME gates \in Seq(GateRows),
           gates' = [g \in DOMAIN gates |-> [gates[g] EXCEPT !.state = "deleted"]]
    PROVE  /\ gates' \in Seq(GateRows)
           /\ Len(gates') = Len(gates)
           /\ DOMAIN gates' = DOMAIN gates
           /\ \A g \in DOMAIN gates' : gates'[g].state = "deleted"
  <1>1. DOMAIN gates = 1..Len(gates) /\ Len(gates) \in Nat BY LenProperties
  <1>2. \A g \in DOMAIN gates : gates[g] \in GateRows BY <1>1, ElementOfSeq
  <1>3. \A g \in DOMAIN gates : /\ gates'[g] \in GateRows
                               /\ gates'[g].state = "deleted"
    BY <1>2 DEF GateRows
  <1>4. DOMAIN gates' = 1..Len(gates) BY <1>1
  <1>5. gates' \in [1..Len(gates) -> GateRows] BY <1>1, <1>3
  <1>6. gates' \in Seq(GateRows) BY <1>1, <1>5, SeqDef
  <1>7. Len(gates') = Len(gates) BY <1>1, <1>4, <1>6, LenProperties
  <1> QED BY <1>1, <1>3, <1>4, <1>6, <1>7

\* A gate is inserted while its run is there; a task that finds it gone ends.
LEMMA InsertStep == ASSUME IInv, NEW h \in Handlers, insert_gate(h) PROVE IInv'
  <1>1. UNCHANGED <<status, completed_at, published, announced, checkpoint, left, failures>>
    BY DEF insert_gate
  <1>2. CASE status # "deleted"
    <2> DEFINE r == [kind |-> next_of(task[h].snapshot), state |-> "pending"]
               t == [task[h] EXCEPT !.pc = "activate", !.row = Len(gates'),
                                    !.inserted = TRUE]
    <2>1. r \in GateRows
      BY Record DEF insert_gate, Sound, interrupt_before, GateRows, Decisions
    <2>2. gates' = Append(gates, r) BY <1>2 DEF insert_gate
    <2>3. gates \in Seq(GateRows) BY DEF IInv, SharedOK
    <2>4. /\ gates' \in Seq(GateRows) /\ Len(gates') = Len(gates) + 1
          /\ DOMAIN gates \subseteq DOMAIN gates'
      <3> HIDE DEF r
      <3> QED BY <2>1, <2>2, <2>3, RowAdded
    <2>5. checkpoint # NoRun BY Record DEF insert_gate, Sound
    <2>6. SharedOK' BY <1>1, <1>2, <2>4, <2>5 DEF IInv, SharedOK, DeletedTogether
    <2>7. task' = [task EXCEPT ![h] = t] BY <1>2, Record DEF insert_gate, IInv, Tasks
    <2>8. task[h] \in Tasks /\ Len(gates') \in Nat /\ Len(gates') # 0 BY <2>4, Record
    <2>9. t \in Tasks BY <2>8 DEF Tasks, Calls
    <2>10. Sound(t, Len(gates'), checkpoint', published')
      BY <1>1, <2>4, <2>5, <2>8, Record DEF Tasks, Sound
    <2>11. Len(gates) <= Len(gates') /\ published' = published
      BY <1>1, <2>4, Record
    <2> HIDE DEF t
    <2> QED BY <1>1, <2>6, <2>7, <2>9, <2>10, <2>11, TaskStep
  <1>3. CASE status = "deleted"
    <2>1. task' = [task EXCEPT ![h] = Idle] /\ UNCHANGED <<rows, checkpoint>>
      BY <1>3 DEF insert_gate, rows
    <2> QED BY <1>1, <2>1, Record, IdleIsSound, LocalStep
  <1> QED BY <1>2, <1>3

\* gate.required goes out for a row of the table.
LEMMA EmitStep == ASSUME IInv, NEW h \in Handlers, emit_gate_required(h) PROVE IInv'
  <1> DEFINE t == [task[h] EXCEPT !.pc = AfterGate(h)]
  <1>1. UNCHANGED <<status, completed_at, published, gates, checkpoint, left, failures>>
    BY DEF emit_gate_required
  <1>2. task[h].row \in DOMAIN gates BY Record DEF emit_gate_required, Sound, Tasks
  <1>3. announced' = announced \cup {task[h].row} BY DEF emit_gate_required
  <1>4. SharedOK' BY <1>1, <1>2, <1>3 DEF IInv, SharedOK, DeletedTogether
  <1>5. AfterGate(h) \in {"sync", "set_status"} BY DEF AfterGate
  <1>6. task' = [task EXCEPT ![h] = t] BY Record DEF emit_gate_required, Goto, IInv, Tasks
  <1>7. t \in Tasks BY <1>5, Record DEF Tasks, Calls
  <1>8. Sound(t, Len(gates), checkpoint, published)
    BY <1>5, Record DEF emit_gate_required, Tasks, Sound
  <1>9. Sound(t, Len(gates'), checkpoint', published') BY <1>1, <1>8
  <1>10. Len(gates) <= Len(gates') /\ published' = published BY <1>1, Record
  <1> HIDE DEF t
  <1> QED BY <1>1, <1>4, <1>6, <1>7, <1>9, <1>10, TaskStep

\* The last write of a call never brings a deleted run back.
LEMMA StatusStep == ASSUME IInv, NEW h \in Handlers, update_run_status(h) PROVE IInv'
  <1> DEFINE t == IF task[h].expired = {} THEN Idle
                  ELSE [Idle EXCEPT !.pc = "expire", !.kind = "resume",
                                    !.expired = task[h].expired]
  <1>1. UNCHANGED <<published, gates, announced, checkpoint, left, failures>>
    BY DEF update_run_status
  <1>2. \A cp : derive_status(cp) \in {"paused", "completed", "failed", "running"}
    BY DEF derive_status, Terminal
  <1>3. /\ status' = IF status = "deleted" THEN status ELSE derive_status(task[h].snapshot)
        /\ completed_at' = (completed_at \/ status' \in Terminal)
    BY DEF update_run_status
  <1>4. completed_at' \in BOOLEAN BY <1>3
  <1>5. /\ status' \in {"none", "queued", "running", "paused", "completed", "failed",
                        "deleted"}
        /\ status' = "deleted" => status = "deleted"
    BY <1>2, <1>3
  <1>6. SharedOK' BY <1>1, <1>4, <1>5 DEF IInv, SharedOK, DeletedTogether
  <1>7. task' = [task EXCEPT ![h] = t] BY DEF update_run_status
  <1>8. task[h].expired \in SUBSET Nat BY Record DEF Tasks
  <1>9. t \in Tasks BY <1>8, IdleIsSound DEF Tasks, Calls
  <1>10. Sound(t, Len(gates), checkpoint, published)
    BY Record DEF update_run_status, Sound, Idle
  <1>11. Sound(t, Len(gates'), checkpoint', published') BY <1>1, <1>10
  <1>12. Len(gates) <= Len(gates') /\ published' = published BY <1>1, Record
  <1> HIDE DEF t
  <1> QED BY <1>1, <1>6, <1>7, <1>9, <1>11, <1>12, TaskStep

\* A decision is written to a row that is still there: its run is, too.
LEMMA CommitStep == ASSUME IInv, NEW h \in Handlers, commit_decision(h) PROVE IInv'
  <1> DEFINE t == [task[h] EXCEPT !.pc = "load"]
             g == task[h].gate
  <1>1. UNCHANGED <<completed_at, published, announced, checkpoint, left, failures>>
    BY DEF commit_decision
  <1>2. /\ g \in DOMAIN gates /\ gates[g].state # "deleted"
        /\ task[h].decision \in Decisions /\ checkpoint # NoRun
    BY Record DEF commit_decision, Sound, Tasks
  <1>3. status # "deleted" BY <1>2 DEF IInv, SharedOK, DeletedTogether
  <1>4. /\ status' \in {"none", "queued", "running", "paused", "completed", "failed"}
    BY <1>3 DEF commit_decision, IInv, SharedOK
  <1>5. gates' = [gates EXCEPT ![g].state = task[h].decision] BY DEF commit_decision
  <1>6. gates \in Seq(GateRows) BY DEF IInv, SharedOK
  <1>7. task' = [task EXCEPT ![h] = t] BY Record DEF commit_decision, Goto, IInv, Tasks
  <1>8. t \in Tasks BY Record DEF Tasks, Calls
  <1>9. Sound(t, Len(gates), checkpoint, published)
    BY <1>2, Record DEF commit_decision, Tasks, Sound
  <1> HIDE DEF t, g
  <1>10. gates' \in Seq(GateRows) /\ Len(gates') = Len(gates) /\ DOMAIN gates' = DOMAIN gates
    BY <1>2, <1>5, <1>6, RowChanged
  <1>11. SharedOK' BY <1>1, <1>2, <1>4, <1>10 DEF IInv, SharedOK, DeletedTogether
  <1>12. Sound(t, Len(gates'), checkpoint', published') BY <1>1, <1>9, <1>10
  <1>13. Len(gates) <= Len(gates') /\ published' = published BY <1>1, <1>10, Record
  <1> QED BY <1>1, <1>7, <1>8, <1>11, <1>12, <1>13, TaskStep

\* The sweep times out a row that is still there.
LEMMA ExpireStep == ASSUME IInv, NEW h \in Handlers, expire(h) PROVE IInv'
  <1>1. UNCHANGED <<status, completed_at, published, announced, checkpoint, left, failures>>
    BY DEF expire
  <1>2. PICK g \in task[h].expired :
          /\ gates[g].state # "deleted"
          /\ gates' = [gates EXCEPT ![g].state = "timed_out"]
          /\ task' = [task EXCEPT ![h].pc = "load", ![h].gate = g,
                                  ![h].decision = "timed_out", ![h].expired = @ \ {g}]
    BY DEF expire
  <1> DEFINE t == [task[h] EXCEPT !.pc = "load", !.gate = g, !.decision = "timed_out",
                                  !.expired = task[h].expired \ {g}]
  <1>3. g \in DOMAIN gates /\ g \in 1..Len(gates) /\ checkpoint # NoRun
    BY Record DEF expire, Sound
  <1>4. status # "deleted" BY <1>2, <1>3 DEF IInv, SharedOK, DeletedTogether
  <1>5. gates \in Seq(GateRows) BY DEF IInv, SharedOK
  <1>6. gates' \in Seq(GateRows) /\ Len(gates') = Len(gates) /\ DOMAIN gates' = DOMAIN gates
    BY <1>2, <1>3, <1>5, RowChanged DEF Decisions
  <1>7. SharedOK' BY <1>1, <1>3, <1>4, <1>6 DEF IInv, SharedOK, DeletedTogether
  <1>8. task' = [task EXCEPT ![h] = t] BY <1>2, Record DEF IInv, Tasks
  <1>9. t \in Tasks
    <2>1. task[h] \in Tasks /\ g \in Nat BY <1>3, Record
    <2> QED BY <2>1 DEF Tasks, Calls, Decisions
  <1>10. Sound(t, Len(gates), checkpoint, published)
    BY <1>3, Record DEF Tasks, Sound, Decisions
  <1> HIDE DEF t
  <1>11. Sound(t, Len(gates'), checkpoint', published') BY <1>1, <1>6, <1>10
  <1>12. Len(gates) <= Len(gates') /\ published' = published BY <1>1, <1>6, Record
  <1> QED BY <1>1, <1>7, <1>8, <1>9, <1>11, <1>12, TaskStep

\* Whatever a handler does keeps the invariant.
LEMMA HandleStep == ASSUME IInv, NEW h \in Handlers, Handle(h) PROVE IInv'
  <1>1. CASE start_graph(h) BY <1>1, StartStep
  <1>2. CASE superstep(h) BY <1>2, SuperStepStep
  <1>3. CASE aget_state(h) \/ activate_read(h) \/ sync_status_from_graph(h)
               \/ resume_read(h) \/ resume_invoke(h)
    BY <1>3, ReadStep
  <1>4. CASE select_gate(h) BY <1>4, SelectStep
  <1>5. CASE insert_gate(h) BY <1>5, InsertStep
  <1>6. CASE activate_write(h) BY <1>6, ActivateStep
  <1>7. CASE emit_gate_required(h) BY <1>7, EmitStep
  <1>8. CASE update_run_status(h) BY <1>8, StatusStep
  <1>9. CASE commit_decision(h) BY <1>9, CommitStep
  <1>10. CASE stale_row(h) BY <1>10, EndStep
  <1>11. CASE resume_write(h) BY <1>11, InjectStep
  <1>12. CASE expire(h) BY <1>12, ExpireStep
  <1> QED
    BY <1>1, <1>2, <1>3, <1>4, <1>5, <1>6, <1>7, <1>8, <1>9, <1>10, <1>11, <1>12 DEF Handle

-----------------------------------------------------------------------------
(* What happens outside the handlers *)

\* The tasks stay sound when only the rows' states and the message change, as long as
\* no task is about to start on the message.
LEMMA OutsideStep ==
    ASSUME IInv, SharedOK', UNCHANGED <<task, checkpoint>>, Len(gates') = Len(gates),
           published' # NoPivot \/ published' = published
    PROVE  IInv'
  <1>1. ASSUME NEW h \in Handlers
        PROVE  Sound(task'[h], Len(gates'), checkpoint', published')
    BY Record DEF Sound
  <1> QED BY <1>1 DEF IInv

\* POST /ideas, its message, and DELETE /runs/{id}.
LEMMA ApiStep == ASSUME IInv, submit_idea \/ publish_run_created \/ cancel_run PROVE IInv'
  <1>1. CASE submit_idea
    <2>1. SharedOK' BY <1>1 DEF submit_idea, IInv, SharedOK, DeletedTogether
    <2> QED BY <1>1, <2>1, OutsideStep DEF submit_idea
  <1>2. CASE publish_run_created
    <2>1. SharedOK' BY <1>2 DEF publish_run_created, IInv, SharedOK, DeletedTogether
    <2>2. published' # NoPivot BY <1>2, RunGraphAssumption DEF publish_run_created
    <2> QED BY <1>2, <2>1, <2>2, OutsideStep DEF publish_run_created
  <1>3. CASE cancel_run
    <2>1. gates \in Seq(GateRows) BY DEF IInv, SharedOK
    <2>2. /\ gates' \in Seq(GateRows) /\ Len(gates') = Len(gates)
          /\ DOMAIN gates' = DOMAIN gates
          /\ \A g \in DOMAIN gates' : gates'[g].state = "deleted"
      BY <1>3, <2>1, RowsDeleted DEF cancel_run
    <2>3. left' \in [Events -> Nat]
      BY <1>3, SpendType DEF cancel_run, Events, IInv, SharedOK
    <2>4. SharedOK'
      BY <1>3, <2>2, <2>3 DEF cancel_run, IInv, SharedOK, DeletedTogether
    <2> QED BY <1>3, <2>2, <2>4, OutsideStep DEF cancel_run
  <1> QED BY <1>1, <1>2, <1>3

\* With the process, every task is gone, and so may be the message.
LEMMA CrashStep == ASSUME IInv, crash PROVE IInv'
  <1>1. task' \in [Handlers -> Tasks] /\ \A h \in Handlers : task'[h] = Idle
    BY IdleIsSound DEF crash
  <1>2. failures' \in 0..MaxFailures
    BY OrchestratorAssumption DEF crash, IInv, SharedOK
  <1>3. SharedOK'
    BY <1>2 DEF crash, IInv, SharedOK, DeletedTogether
  <1>4. Len(gates') \in Nat BY Record DEF crash, IInv, SharedOK
  <1>5. \A h \in Handlers : Sound(task'[h], Len(gates'), checkpoint', published')
    BY <1>1, <1>4, IdleIsSound
  <1> QED BY <1>1, <1>3, <1>5 DEF IInv

-----------------------------------------------------------------------------
(* The inductive invariant *)

LEMMA InitialState == Init => IInv
  <1> SUFFICES ASSUME Init PROVE IInv OBVIOUS
  <1>1. gates = <<>> /\ gates \in Seq(GateRows) /\ Len(gates) = 0
    BY EmptySeq DEF Init
  <1>2. left \in [Events -> Nat] /\ failures \in 0..MaxFailures
    BY OrchestratorAssumption DEF Init
  <1>3. SharedOK BY <1>1, <1>2 DEF Init, SharedOK, DeletedTogether
  <1>4. task \in [Handlers -> Tasks] /\ \A h \in Handlers : task[h] = Idle
    BY IdleIsSound DEF Init
  <1>5. \A h \in Handlers : Sound(task[h], Len(gates), checkpoint, published)
    BY <1>1, <1>4, IdleIsSound
  <1> QED BY <1>3, <1>4, <1>5 DEF IInv

LEMMA NextStep == IInv /\ [Next]_vars => IInv'
  <1> SUFFICES ASSUME IInv, Act \/ UNCHANGED runVars PROVE IInv'
    BY DEF Next, vars
  <1>1. CASE submit_idea \/ publish_run_created \/ cancel_run BY <1>1, ApiStep
  <1>2. CASE crash BY <1>2, CrashStep
  <1>3. CASE \E h \in Handlers : Handle(h) \/ Arrive(h) \/ fail(h)
    BY <1>3, HandleStep, ArriveStep, EndStep
  <1>4. CASE UNCHANGED runVars
    BY <1>4 DEF runVars, IInv, SharedOK, DeletedTogether
  <1> QED BY <1>1, <1>2, <1>3, <1>4 DEF Act

LEMMA Invariance == Spec => []IInv
  BY InitialState, NextStep, PTL DEF Spec

\* Nothing writes the status of a run that is gone.
LEMMA DeletedStays ==
    ASSUME IInv, Act, status = "deleted"
    PROVE  status' = "deleted"
  <1>1. ASSUME NEW h \in Handlers, Handle(h) PROVE status' = "deleted"
    <2>1. CASE commit_decision(h)
      <3>1. task[h].gate \in DOMAIN gates /\ gates[task[h].gate].state # "deleted"
        BY <2>1, Record DEF commit_decision, Sound, Tasks
      <3> QED BY <3>1 DEF IInv, SharedOK, DeletedTogether
    <2>2. CASE update_run_status(h) BY <2>2 DEF update_run_status
    <2>3. CASE ~commit_decision(h) /\ ~update_run_status(h)
      BY <1>1, <2>3
      DEF Handle, start_graph, superstep, aget_state, select_gate, insert_gate, activate_read,
          activate_write, emit_gate_required, sync_status_from_graph, stale_row, resume_read,
          resume_write, resume_invoke, expire, rows
    <2> QED BY <2>1, <2>2, <2>3
  <1>2. ASSUME NEW h \in Handlers, Arrive(h) \/ fail(h) PROVE status' = "deleted"
    BY <1>2 DEF Arrive, receive_run_created, decide_gate, check_gate_timeouts, finish_step,
               fail, rows
  <1> QED BY <1>1, <1>2 DEF Act, submit_idea, publish_run_created, cancel_run, crash

-----------------------------------------------------------------------------
(* The theorems *)

\* Type correctness, for any number of handlers.
THEOREM TypeCorrect == Spec => []TypeOK
  <1>1. IInv /\ disturbed \in BOOLEAN => TypeOK
    <2> SUFFICES ASSUME IInv, disturbed \in BOOLEAN PROVE TypeOK OBVIOUS
    <2>1. ASSUME NEW h \in Handlers
          PROVE  /\ task[h].pc \in {"idle", "start", "loop", "resumed", "select_gate",
                                    "insert_gate", "activate", "activated", "emit", "sync",
                                    "set_status", "commit", "expire", "load", "inject",
                                    "invoke"}
                 /\ task[h].gate \in 0..Len(gates) /\ task[h].row \in 0..Len(gates)
                 /\ task[h].memory \in Checkpoint \cup {NoRun}
                 /\ task[h].snapshot \in Checkpoint \cup {NoRun}
                 /\ task[h].expired \subseteq DOMAIN gates
      BY Record DEF Tasks, Calls, Copies, Sound
    <2> QED BY <2>1 DEF IInv, SharedOK, TypeOK, GateRows, Copies
  <1>2. Spec => [](disturbed \in BOOLEAN)
    <2>1. Init => disturbed \in BOOLEAN BY DEF Init
    <2>2. disturbed \in BOOLEAN /\ [Next]_vars => (disturbed \in BOOLEAN)'
      BY DEF Next, vars
    <2> QED BY <2>1, <2>2, PTL DEF Spec
  <1> QED BY <1>1, <1>2, Invariance, PTL

\* Whatever requests, messages, sweeps and workers do to the thread at the same time, no
\* checkpoint shows a pillar without the work it stands on (graph.build_run_graph).
THEOREM OutputsStayInOrder == Spec => []OutputsInOrder
  <1>1. IInv => OutputsInOrder
    <2> SUFFICES ASSUME IInv, checkpoint # NoRun,
                        NEW p \in {3, 4, 6, 7}, checkpoint.values.output[p] # "none",
                        NEW q \in {2, 3, 4, 6}, q < p
                 PROVE  checkpoint.values.output[q] # "none"
      BY DEF OutputsInOrder
    <2>1. Positioned(checkpoint) BY DEF IInv, SharedOK, Copies
    <2> QED BY <2>1 DEF Positioned, After2, After3, After4, After5, After6, After7
  <1> QED BY <1>1, Invariance, PTL

\* Nor do they let a run pivot more than MaxPivotRetries times (_MAX_PIVOT_RETRIES).
THEOREM PivotsStayBounded ==
    Spec => [](checkpoint # NoRun => checkpoint.values.retry_count <= MaxPivotRetries)
  <1>1. IInv => (checkpoint # NoRun => checkpoint.values.retry_count <= MaxPivotRetries)
    BY DEF IInv, SharedOK, Copies
  <1> QED BY <1>1, Invariance, PTL

\* A cancelled run stays cancelled, with all of its gates, whoever is at work on it
\* (runs.cancel_run, the cascade and the foreign keys of gates).
THEOREM CancellationIsFinal == Spec => CancelIsFinal
  <1>1. IInv /\ IInv' /\ [Next]_vars =>
          [status = "deleted" =>
             /\ status' = "deleted"
             /\ \A g \in DOMAIN gates' : gates'[g].state = "deleted"]_vars
    <2> SUFFICES ASSUME IInv, IInv', Next, status = "deleted"
                 PROVE  /\ status' = "deleted"
                        /\ \A g \in DOMAIN gates' : gates'[g].state = "deleted"
      OBVIOUS
    <2>1. status' = "deleted" BY DeletedStays DEF Next
    <2> QED BY <2>1 DEF IInv, SharedOK, DeletedTogether
  <1> QED BY <1>1, Invariance, PTL DEF Spec, CancelIsFinal

-----------------------------------------------------------------------------
(***************************************************************************)
(* Undisturbed runs.  Until two tasks are under way at once, the message   *)
(* starts over a run, or a worker approves blindly, the backend keeps more *)
(* than the types.  No assumption is made on who arrives when: the         *)
(* invariant below holds of every behaviour as long as `disturbed' is      *)
(* false, whatever the number of tasks, arrivals, failures, crashes and    *)
(* cancellations; Disturbing describes the steps that end it.              *)
(***************************************************************************)

Signed == {gates[g].kind : g \in {i \in DOMAIN gates : gates[i].state = "approved"}}

\* Gate g is the one a decision acts on now, and is in state s unless it was deleted.
ActsOn(g, s) ==
    /\ g \in DOMAIN gates
    /\ gates[g].kind \in GatesActedOn(checkpoint)
    /\ gates[g].state \in {s, "deleted"}

\* Two copies that lead to the same node and status.
Alike(a, b) ==
    /\ next_of(a) = next_of(b)
    /\ a.values.status = b.values.status

\* A run that waits at a gate has its one pending row, announced.
Waits ==
    interrupt_before(checkpoint) /\ status # "deleted" =>
        /\ Pending = {checkpoint.values.active_gate_id}
        /\ gates[checkpoint.values.active_gate_id].kind = next_of(checkpoint)
        /\ checkpoint.values.active_gate_id \in announced

Rests ==
    NoFailureYet /\ checkpoint # NoRun /\ status # "deleted" =>
        /\ Waits
        /\ status = derive_status(checkpoint)
        /\ status \in Terminal => completed_at

\* Where the task t is, when no other is under way, tells how far the rows and the
\* thread agree.
Turn(t) ==
    /\ t.pc # "expire" => t.expired = {}
    /\ t.pc = "start" => checkpoint = NoRun
    /\ t.pc \in {"loop", "resumed", "activated", "inject"} => t.memory = checkpoint
    /\ t.pc \in {"select_gate", "insert_gate", "activate", "activated", "emit", "set_status"}
         => Alike(t.snapshot, checkpoint)
    /\ t.pc \in {"idle", "commit", "expire"} => Rests
    /\ t.pc = "commit" => ActsOn(t.gate, "pending")
    /\ t.pc = "expire" => /\ \A g \in t.expired : ActsOn(g, "pending")
                          /\ \A f, g \in t.expired : f = g
    /\ t.pc \in {"load", "inject"} => /\ ActsOn(t.gate, t.decision)
                                      /\ t.decision = "pending" \/ Pending = {}
    /\ t.pc = "invoke" => ActsOn(t.gate, checkpoint.values.gate_decision)
    /\ t.pc \in {"invoke", "resumed", "loop"}
         => Pending = {} \/ checkpoint.values.gate_decision = "pending"
    /\ t.pc = "resumed" /\ checkpoint.values.gate_decision = "approved"
         => status = "deleted" \/ GatesActedOn(checkpoint) \subseteq Signed
    /\ t.pc = "loop" => Pending = {} \/ checkpoint.last \in GateNodes
    /\ t.pc \in {"select_gate", "insert_gate"} => Pending = {} \/ ~interrupt_before(checkpoint)
    /\ t.pc \in {"activate", "activated", "emit"} =>
         /\ interrupt_before(checkpoint)
         /\ t.inserted
         /\ \/ status = "deleted"
            \/ Pending = {t.row} /\ gates[t.row].kind = next_of(checkpoint)
    /\ t.pc = "emit" => checkpoint.values.active_gate_id = t.row
    /\ t.pc \in {"sync", "set_status"} => Waits

\* At most one gate is pending: the one that a decision would act on.
OneWaits ==
    /\ \A f, g \in Pending : f = g
    /\ \A g \in Pending : gates[g].kind \in GatesActedOn(checkpoint)

\* The gate that the run left on an approval has that approval in its row.
PassedIsSigned ==
    checkpoint # NoRun /\ checkpoint.last \in GateNodes
    /\ checkpoint.values.gate_decision = "approved"
      => status = "deleted" \/ checkpoint.last \in Signed

\* Before the row of the run there is no message and no thread.
Fresh == status = "none" => published = NoPivot /\ checkpoint = NoRun

\* Rows are deleted with their run only.
RunIsGone == \A g \in DOMAIN gates : gates[g].state = "deleted" => status = "deleted"

SerialShared == Fresh /\ RunIsGone /\ OneWaits /\ PassedIsSigned

\* What a task h is told when it is the only one.
SerialAt(h) == SerialShared /\ Turn(task[h])

Alone(h) == \A k \in Handlers \ {h} : task[k].pc = "idle"

SerialInv ==
    /\ SerialShared
    /\ Quiescent => Rests
    /\ \A h \in Handlers :
         /\ Alone(h) => Turn(task[h])
         /\ task[h].pc = "idle" => task[h].expired = {}

Undisturbed == ~disturbed => ~Disturbing /\ SerialInv

-----------------------------------------------------------------------------
(* The gates that a decision acts on *)

LEMMA OneGateActedOn ==
    ASSUME NEW cp \in Checkpoint
    PROVE  /\ \A f, g \in GatesActedOn(cp) : f = g
           /\ GatesActedOn(cp) \subseteq GateNodes
           /\ cp.last \in GateNodes => cp.last \in GatesActedOn(cp)
           /\ next_of(cp) \in GateNodes => next_of(cp) \in GatesActedOn(cp)
           /\ next_of(cp) = "END" => ~interrupt_before(cp)
           /\ interrupt_before(cp) => cp.last \notin GateNodes
  BY NoGateAfterGate DEF GatesActedOn, GateNodes, interrupt_before

\* Behind a gate, an answer that is none ends the run.
LEMMA PendingEnds ==
    ASSUME NEW cp \in Checkpoint, cp.last \in GateNodes,
           cp.values.gate_decision = "pending"
    PROVE  next_of(cp) = "END"
  BY DEF next_of, NextNode, GateNodes, route_after_validation_gate, route_on_approval

\* A decision acts on the same gate before and after it is injected.
LEMMA InjectActsOn ==
    ASSUME NEW cp \in Checkpoint, NEW d \in Decisions, NEW t \in Ideas \cup {NoPivot},
           NEW k \in GatesActedOn(cp)
    PROVE  k \in GatesActedOn(inject(cp, d, t))
  <1> DEFINE ip == inject(cp, d, t)
  <1>1. /\ ip \in Checkpoint /\ ip.last = cp.last
        /\ ip.values.output = cp.values.output /\ ip.values.status = cp.values.status
    BY InjectType
  <1>2. k \in GateNodes /\ (k = cp.last \/ k = next_of(cp)) BY DEF GatesActedOn
  <1> HIDE DEF ip
  <1>3. CASE k = cp.last BY <1>1, <1>2, <1>3 DEF GatesActedOn, ip
  <1>4. CASE k = next_of(cp)
    <2>1. cp.last \notin GateNodes BY <1>2, <1>4, NoGateAfterGate
    <2>2. /\ cp.last \in (Nodes \cup {"START"}) \ GateNodes
          /\ ip.values \in RunState /\ cp.values \in RunState
      BY <1>1, <2>1 DEF Checkpoint
    <2>3. next_of(ip) = next_of(cp) BY <1>1, <2>2, EdgeInputs DEF next_of
    <2> QED BY <1>2, <1>4, <2>3 DEF GatesActedOn, ip
  <1> QED BY <1>2, <1>3, <1>4

\* The write of active_gate_id changes nothing else.
LEMMA ActivateEffects ==
    ASSUME NEW cp \in Checkpoint, NEW g \in Nat, NEW cp2,
           cp2 = [cp EXCEPT !.values.active_gate_id = g]
    PROVE  /\ cp2 \in Checkpoint
           /\ cp2.last = cp.last
           /\ cp2.values.active_gate_id = g
           /\ cp2.values.gate_decision = cp.values.gate_decision
           /\ cp2.values.output = cp.values.output
           /\ cp2.values.retry_count = cp.values.retry_count
           /\ Alike(cp, cp2)
           /\ GatesActedOn(cp2) = GatesActedOn(cp)
  <1>1. /\ cp2 \in Checkpoint
        /\ cp2.last = cp.last
        /\ cp2.values.active_gate_id = g
        /\ cp2.values.gate_decision = cp.values.gate_decision
        /\ cp2.values.output = cp.values.output
        /\ cp2.values.status = cp.values.status
        /\ cp2.values.retry_count = cp.values.retry_count
    BY DEF Checkpoint, RunState
  <1>2. next_of(cp2) = next_of(cp)
    <2>1. /\ route_after_validate_input(cp2.values) = route_after_validate_input(cp.values)
          /\ route_after_pillar_5(cp2.values) = route_after_pillar_5(cp.values)
          /\ route_after_validation_gate(cp2.values) = route_after_validation_gate(cp.values)
          /\ \A p : route_on_approval(cp2.values, p) = route_on_approval(cp.values, p)
      BY <1>1 DEF route_after_validate_input, route_after_pillar_5,
                  route_after_validation_gate, route_on_approval
    <2> QED BY <1>1, <2>1 DEF next_of, NextNode
  <1> QED BY <1>1, <1>2 DEF Alike, GatesActedOn

\* Copies that are alike stop at the same gate and show the same status.
LEMMA AlikeStops ==
    ASSUME NEW a, NEW b, Alike(a, b)
    PROVE  /\ interrupt_before(a) <=> interrupt_before(b)
           /\ derive_status(a) = derive_status(b)
  BY DEF Alike, interrupt_before, derive_status

LEMMA StatusType ==
    ASSUME NEW cp
    PROVE  derive_status(cp) \in {"paused", "completed", "failed", "running"}
  BY DEF derive_status, Terminal

-----------------------------------------------------------------------------
(* The rows *)

\* A new row is the only new one that is pending, and signs nothing.
LEMMA RowAddedPending ==
    ASSUME gates \in Seq(GateRows), NEW r \in GateRows, r.state = "pending",
           gates' = Append(gates, r)
    PROVE  /\ Pending' = Pending \cup {Len(gates')}
           /\ gates'[Len(gates')] = r
           /\ \A g \in DOMAIN gates : g \in DOMAIN gates' /\ gates'[g] = gates[g]
           /\ DOMAIN gates' = DOMAIN gates \cup {Len(gates')}
           /\ Signed' = Signed
  <1>1. /\ Len(gates') = Len(gates) + 1 /\ Len(gates) \in Nat
        /\ \A i \in 1..Len(gates) : gates'[i] = gates[i]
        /\ gates'[Len(gates) + 1] = r
        /\ gates' \in Seq(GateRows)
    BY AppendProperties, LenProperties
  <1>2. DOMAIN gates = 1..Len(gates) /\ DOMAIN gates' = 1..(Len(gates) + 1)
    BY <1>1, LenProperties
  <1>3. DOMAIN gates' = DOMAIN gates \cup {Len(gates')} BY <1>1, <1>2
  <1>4. \A g \in DOMAIN gates : g \in DOMAIN gates' /\ gates'[g] = gates[g] BY <1>1, <1>2
  <1>5. Pending' = Pending \cup {Len(gates')} BY <1>1, <1>3, <1>4 DEF Pending
  <1>6. {i \in DOMAIN gates' : gates'[i].state = "approved"}
          = {i \in DOMAIN gates : gates[i].state = "approved"}
    BY <1>1, <1>3, <1>4
  <1>7. Signed' = Signed BY <1>4, <1>6 DEF Signed
  <1> QED BY <1>1, <1>3, <1>4, <1>5, <1>7

\* A decision changes the state of one pending row, and an approval signs its gate.
LEMMA RowDecided ==
    ASSUME gates \in Seq(GateRows), NEW g \in Pending, NEW s \in Decisions,
           gates' = [gates EXCEPT ![g].state = s]
    PROVE  /\ DOMAIN gates' = DOMAIN gates
           /\ \A i \in DOMAIN gates : gates'[i].kind = gates[i].kind
           /\ \A i \in DOMAIN gates \ {g} : gates'[i] = gates[i]
           /\ gates'[g].state = s
           /\ s = "pending" => Pending' = Pending
           /\ s # "pending" => Pending' = Pending \ {g}
           /\ s = "approved" => Signed' = Signed \cup {gates[g].kind}
           /\ s # "approved" => Signed' = Signed
  <1>1. DOMAIN gates = 1..Len(gates) BY LenProperties
  <1>2. \A i \in DOMAIN gates : gates[i] \in GateRows BY <1>1, ElementOfSeq
  <1>3. g \in DOMAIN gates /\ gates[g].state = "pending" BY DEF Pending
  <1>4. /\ DOMAIN gates' = DOMAIN gates
        /\ \A i \in DOMAIN gates \ {g} : gates'[i] = gates[i]
        /\ gates'[g] = [gates[g] EXCEPT !.state = s]
    BY <1>3
  <1>5. gates'[g].state = s /\ gates'[g].kind = gates[g].kind
    BY <1>2, <1>3, <1>4 DEF GateRows
  <1>6. \A i \in DOMAIN gates : gates'[i].kind = gates[i].kind BY <1>4, <1>5
  <1>7. s = "pending" => Pending' = Pending BY <1>3, <1>4, <1>5 DEF Pending
  <1>8. s # "pending" => Pending' = Pending \ {g} BY <1>3, <1>4, <1>5 DEF Pending
  <1> DEFINE A == {i \in DOMAIN gates : gates[i].state = "approved"}
             B == {i \in DOMAIN gates' : gates'[i].state = "approved"}
  <1>9. s = "approved" => B = A \cup {g} BY <1>3, <1>4, <1>5
  <1>10. s # "approved" => B = A BY <1>3, <1>4, <1>5
  <1>11. /\ Signed = {gates[i].kind : i \in A} /\ Signed' = {gates'[i].kind : i \in B}
         /\ A \subseteq DOMAIN gates /\ B \subseteq DOMAIN gates
    BY <1>4 DEF Signed
  <1> HIDE DEF A, B
  <1>12. s = "approved" => Signed' = Signed \cup {gates[g].kind}
    BY <1>3, <1>6, <1>9, <1>11
  <1>13. s # "approved" => Signed' = Signed BY <1>6, <1>10, <1>11
  <1> QED BY <1>4, <1>5, <1>6, <1>7, <1>8, <1>12, <1>13

\* Without its run no row is pending.
LEMMA RowsGone ==
    ASSUME \A g \in DOMAIN gates : gates[g].state = "deleted"
    PROVE  Pending = {}
  BY DEF Pending

-----------------------------------------------------------------------------
(* Steps of the one task that leave the rows and the thread alone *)

LEMMA SerialRecord ==
    ASSUME IInv, NEW h \in Handlers, SerialAt(h)
    PROVE  /\ task[h] \in Tasks /\ Turn(task[h]) /\ SerialShared
           /\ Sound(task[h], Len(gates), checkpoint, published)
           /\ gates \in Seq(GateRows) /\ DOMAIN gates = 1..Len(gates)
           /\ \A g \in DOMAIN gates : gates[g] \in GateRows
           /\ checkpoint # NoRun => checkpoint \in Copies /\ checkpoint \in Checkpoint
           /\ gates # <<>> => checkpoint # NoRun
           /\ task[h].pc \notin {"idle", "start"} => checkpoint # NoRun
  <1>1. task[h] \in Tasks /\ Turn(task[h]) /\ SerialShared BY Record DEF SerialAt
  <1>2. gates \in Seq(GateRows) /\ DOMAIN gates = 1..Len(gates) BY Record DEF IInv, SharedOK
  <1>3. \A g \in DOMAIN gates : gates[g] \in GateRows BY <1>2, ElementOfSeq
  <1>4. gates # <<>> => checkpoint # NoRun
    <2>1. gates # <<>> => Len(gates) # 0 BY <1>2, EmptySeq
    <2> QED BY <2>1, Record
  <1> QED BY <1>1, <1>2, <1>3, <1>4, Record DEF Copies, Sound

\* A step of a task that is alone leaves the others idle.
LEMMA OneTaskMoves ==
    ASSUME IInv, NEW h \in Handlers, Handle(h) \/ Arrive(h) \/ fail(h)
    PROVE  /\ \A k \in Handlers \ {h} : task'[k] = task[k]
           /\ Handle(h) \/ fail(h) => task[h].pc # "idle"
           /\ Arrive(h) => task'[h].pc # "idle"
  <1>0. task \in [Handlers -> Tasks] /\ task[h] \in Tasks BY Record DEF IInv
  <1>1. CASE Handle(h)
    <2>1. task[h].pc # "idle"
      BY <1>1
      DEF Handle, start_graph, superstep, aget_state, select_gate, insert_gate, activate_read,
          activate_write, emit_gate_required, sync_status_from_graph, update_run_status,
          commit_decision, stale_row, expire, resume_read, resume_write, resume_invoke
    <2>2. \A k \in Handlers \ {h} : task'[k] = task[k]
      BY <1>0, <1>1
      DEF Handle, start_graph, superstep, aget_state, select_gate, insert_gate, activate_read,
          activate_write, emit_gate_required, sync_status_from_graph, update_run_status,
          commit_decision, stale_row, expire, resume_read, resume_write, resume_invoke, Goto
    <2>3. ~Arrive(h)
      BY <2>1 DEF Arrive, receive_run_created, decide_gate, check_gate_timeouts, finish_step
    <2> QED BY <2>1, <2>2, <2>3
  <1>2. CASE fail(h)
    <2>1. ~Arrive(h)
      BY <1>2
      DEF fail, Arrive, receive_run_created, decide_gate, check_gate_timeouts, finish_step
    <2> QED BY <1>0, <1>2, <2>1 DEF fail
  <1>3. CASE Arrive(h)
    <2>1. task[h].pc = "idle" /\ ~Handle(h) /\ ~fail(h)
      BY <1>3
      DEF Arrive, receive_run_created, decide_gate, check_gate_timeouts, finish_step, fail,
          Handle, start_graph, superstep, aget_state, select_gate, insert_gate, activate_read,
          activate_write, emit_gate_required, sync_status_from_graph, update_run_status,
          commit_decision, stale_row, expire, resume_read, resume_write, resume_invoke
    <2>2. \A k \in Handlers \ {h} : task'[k] = task[k]
      BY <1>0, <1>3
      DEF Arrive, receive_run_created, decide_gate, check_gate_timeouts, finish_step
    <2>3. CASE receive_run_created(h)
      <3>1. task'[h] = [task[h] EXCEPT !.pc = "start", !.kind = "create"]
        BY <1>0, <2>3 DEF receive_run_created, Tasks
      <3> QED BY <1>0, <2>1, <2>2, <3>1 DEF Tasks
    <2>4. CASE ~receive_run_created(h)
      <3>1. task'[h].pc \in {"commit", "expire", "load"}
        BY <1>0, <1>3, <2>4
        DEF Arrive, decide_gate, check_gate_timeouts, finish_step, Idle
      <3> QED BY <2>1, <2>2, <3>1
    <2> QED BY <2>3, <2>4
  <1> QED BY <1>1, <1>2, <1>3

LEMMA SerialStep ==
    ASSUME NEW h \in Handlers, SerialShared', Turn(task[h])'
    PROVE  SerialAt(h)'
  BY DEF SerialAt

\* What a task alone keeps for itself is kept for all.
LEMMA AloneStep ==
    ASSUME SerialInv, NEW h \in Handlers, Alone(h), SerialAt(h)',
           \A k \in Handlers \ {h} : task'[k] = task[k]
    PROVE  SerialInv'
  <1>1. SerialShared' /\ Turn(task[h])' BY DEF SerialAt
  <1>2. task'[h].pc = "idle" => Rests' /\ task'[h].expired = {} BY <1>1 DEF Turn
  <1>3. ASSUME NEW k \in Handlers, k # h
        PROVE  /\ task'[k].pc = "idle" /\ task'[k].expired = {}
               /\ Alone(k)' => Turn(task[k])'
    <2>1. task'[k] = task[k] /\ task[k].pc = "idle" /\ task[k].expired = {}
      BY <1>3 DEF Alone, SerialInv
    <2>2. Alone(k)' => task'[h].pc = "idle" BY <1>3 DEF Alone
    <2> QED BY <1>2, <2>1, <2>2 DEF Turn
  <1>4. Quiescent' => Rests' BY <1>2 DEF Quiescent
  <1> QED BY <1>1, <1>2, <1>3, <1>4 DEF SerialInv

\* Steps that change the task only.
LEMMA SameRows ==
    ASSUME IInv, NEW h \in Handlers, SerialAt(h), task[h].pc # "idle",
           UNCHANGED <<rows, checkpoint, left>>
    PROVE  /\ SerialShared' /\ Pending' = Pending /\ Signed' = Signed
           /\ Waits' <=> Waits
           /\ failures' = failures => (Rests' <=> Rests)
           /\ failures' = failures + 1 => Rests'
  <1>1. UNCHANGED <<status, completed_at, published, gates, announced, checkpoint, left>>
    BY DEF rows
  <1>2. Pending' = Pending /\ Signed' = Signed BY <1>1 DEF Pending, Signed
  <1>3. Waits' <=> Waits BY <1>1, <1>2 DEF Waits
  <1>4. failures' = failures => (Rests' <=> Rests) BY <1>1, <1>3 DEF Rests, NoFailureYet
  <1>5. failures' = failures + 1 => Rests'
    <2>1. failures \in 0..MaxFailures BY Record
    <2>2. failures' = failures + 1 => failures' # 0
      BY <2>1, OrchestratorAssumption
    <2> QED BY <2>2 DEF Rests, NoFailureYet
  <1>6. SerialShared'
    BY <1>1, <1>2, SerialRecord DEF SerialShared, Fresh, RunIsGone, OneWaits, PassedIsSigned
  <1> QED BY <1>2, <1>3, <1>4, <1>5, <1>6

\* A task that ends leaves the run at rest, or has failed, or found the run gone.
LEMMA IdleTurn ==
    ASSUME NEW h \in Handlers, task'[h] = Idle, Rests'
    PROVE  Turn(task[h])'
  BY DEF Turn, Idle

LEMMA SerialEnd ==
    ASSUME IInv, NEW h \in Handlers, SerialAt(h), fail(h) \/ stale_row(h)
    PROVE  SerialAt(h)'
  <1>1. /\ task'[h] = Idle /\ UNCHANGED <<rows, checkpoint, left>>
        /\ task[h].pc # "idle"
    BY DEF fail, stale_row, IInv
  <1>2. Rests'
    <2>1. CASE fail(h) BY <1>1, <2>1, SameRows DEF fail
    <2>2. CASE stale_row(h)
      <3>1. status = "deleted"
        <4>1. \E g \in DOMAIN gates : gates[g].state = "deleted"
          BY <2>2, Record DEF stale_row, Sound, Tasks
        <4> QED BY <4>1, SerialRecord DEF SerialShared, RunIsGone
      <3> QED BY <1>1, <3>1 DEF Rests, rows
    <2> QED BY <2>1, <2>2
  <1> QED BY <1>1, <1>2, SameRows, IdleTurn, SerialStep

\* The reads: what the task takes from the thread is what the thread holds.
LEMMA SerialRead ==
    ASSUME IInv, NEW h \in Handlers, SerialAt(h),
           aget_state(h) \/ activate_read(h) \/ sync_status_from_graph(h)
               \/ resume_read(h) \/ resume_invoke(h)
    PROVE  SerialAt(h)'
  <1>1. UNCHANGED <<rows, checkpoint, left, failures>> /\ task[h].pc # "idle"
    BY DEF aget_state, activate_read, sync_status_from_graph, resume_read, resume_invoke
  <1>2. UNCHANGED <<status, completed_at, published, gates, announced, checkpoint, left>>
    BY <1>1 DEF rows
  <1>3. /\ SerialShared' /\ Pending' = Pending /\ Signed' = Signed
        /\ Waits' <=> Waits
    BY <1>1, SameRows
  <1>4. task[h] \in Tasks /\ Turn(task[h]) /\ SerialShared BY SerialRecord
  <1>5. checkpoint \in Checkpoint BY <1>1, SerialRecord
      DEF aget_state, activate_read, sync_status_from_graph, resume_read, resume_invoke
  <1>6. Turn(task[h])'
    <2>1. CASE aget_state(h)
      <3>1. task'[h] = [task[h] EXCEPT !.pc = "select_gate", !.memory = NoRun,
                                       !.snapshot = checkpoint]
        BY <2>1, Record DEF aget_state, IInv, Tasks
      <3>2. task'[h].pc = "select_gate" /\ task'[h].snapshot = checkpoint
            /\ task'[h].expired = task[h].expired
        BY <1>4, <3>1 DEF Tasks
      <3>3. Pending = {} \/ ~interrupt_before(checkpoint)
        BY <1>4, <1>5, <2>1, OneGateActedOn DEF aget_state, Stops, Turn
      <3> QED BY <1>2, <1>3, <1>4, <2>1, <3>2, <3>3 DEF aget_state, Turn, Alike
    <2>2. CASE activate_read(h)
      <3>1. task'[h] = [task[h] EXCEPT !.pc = "activated", !.memory = checkpoint]
        BY <2>2, Record DEF activate_read, IInv, Tasks
      <3>2. /\ task'[h].pc = "activated" /\ task'[h].memory = checkpoint
            /\ task'[h].snapshot = task[h].snapshot /\ task'[h].row = task[h].row
            /\ task'[h].inserted = task[h].inserted /\ task'[h].expired = task[h].expired
        BY <1>4, <3>1 DEF Tasks
      <3> QED BY <1>2, <1>3, <1>4, <2>2, <3>2 DEF activate_read, Turn
    <2>3. CASE sync_status_from_graph(h)
      <3>1. task'[h] = [task[h] EXCEPT !.pc = "set_status", !.snapshot = checkpoint]
        BY <2>3, Record DEF sync_status_from_graph, IInv, Tasks
      <3>2. task'[h].pc = "set_status" /\ task'[h].snapshot = checkpoint
            /\ task'[h].expired = task[h].expired
        BY <1>4, <3>1 DEF Tasks
      <3> QED BY <1>2, <1>3, <1>4, <2>3, <3>2 DEF sync_status_from_graph, Turn, Alike
    <2>4. CASE resume_read(h)
      <3>1. task'[h] = [task[h] EXCEPT !.pc = "inject", !.memory = checkpoint]
        BY <2>4, Record DEF resume_read, IInv, Tasks
      <3>2. /\ task'[h].pc = "inject" /\ task'[h].memory = checkpoint
            /\ task'[h].gate = task[h].gate /\ task'[h].decision = task[h].decision
            /\ task'[h].expired = task[h].expired
        BY <1>4, <3>1 DEF Tasks
      <3> QED BY <1>2, <1>3, <1>4, <2>4, <3>2 DEF resume_read, Turn, ActsOn
    <2>5. CASE resume_invoke(h)
      <3>1. task'[h] = [task[h] EXCEPT !.pc = "resumed", !.gate = 0, !.memory = checkpoint]
        BY <2>5, Record DEF resume_invoke, IInv, Tasks
      <3>2. /\ task'[h].pc = "resumed" /\ task'[h].memory = checkpoint
            /\ task'[h].expired = task[h].expired
        BY <1>4, <3>1 DEF Tasks
      <3>3. task[h].pc = "invoke" BY <2>5 DEF resume_invoke
      <3>4. /\ ActsOn(task[h].gate, checkpoint.values.gate_decision)
            /\ Pending = {} \/ checkpoint.values.gate_decision = "pending"
            /\ task[h].expired = {}
        BY <1>4, <3>3 DEF Turn
      <3>5. checkpoint.values.gate_decision = "approved" =>
              status = "deleted" \/ GatesActedOn(checkpoint) \subseteq Signed
        <4> SUFFICES ASSUME checkpoint.values.gate_decision = "approved",
                            status # "deleted"
                     PROVE  GatesActedOn(checkpoint) \subseteq Signed
          OBVIOUS
        <4>1. /\ task[h].gate \in DOMAIN gates /\ gates[task[h].gate].state = "approved"
              /\ gates[task[h].gate].kind \in GatesActedOn(checkpoint)
          BY <1>4, <3>4 DEF ActsOn, SerialShared, RunIsGone
        <4>2. gates[task[h].gate].kind \in Signed BY <4>1 DEF Signed
        <4> QED BY <1>5, <4>1, <4>2, OneGateActedOn
      <3> QED BY <1>2, <1>3, <3>2, <3>4, <3>5 DEF Turn
    <2> QED BY <2>1, <2>2, <2>3, <2>4, <2>5
  <1> QED BY <1>3, <1>6, SerialStep

\* check_and_create_gate finds no pending row: it goes on, or inserts one.
LEMMA SerialSelect ==
    ASSUME IInv, NEW h \in Handlers, SerialAt(h), select_gate(h)
    PROVE  SerialAt(h)'
  <1>1. UNCHANGED <<rows, checkpoint, left, failures>> /\ task[h].pc = "select_gate"
    BY DEF select_gate
  <1>2. UNCHANGED <<status, completed_at, published, gates, announced, checkpoint, left>>
    BY <1>1 DEF rows
  <1>3. /\ SerialShared' /\ Pending' = Pending /\ Signed' = Signed
        /\ Waits' <=> Waits
    BY <1>1, SameRows
  <1>4. task[h] \in Tasks /\ Turn(task[h]) BY SerialRecord
  <1>5. /\ Alike(task[h].snapshot, checkpoint) /\ task[h].expired = {}
        /\ Pending = {} \/ ~interrupt_before(checkpoint)
    BY <1>1, <1>4 DEF Turn
  <1>6. interrupt_before(task[h].snapshot) <=> interrupt_before(checkpoint)
    BY <1>5, AlikeStops
  <1>7. interrupt_before(checkpoint) =>
          Pending = {} /\ PendingOfSnapshot(h) = {} /\ Cardinality(PendingOfSnapshot(h)) = 0
    BY <1>5, FS_EmptySet DEF PendingOfSnapshot
  <1>8. \/ ~interrupt_before(checkpoint) /\ Goto(h, AfterGate(h))
        \/ interrupt_before(checkpoint) /\ Goto(h, "insert_gate")
    BY <1>6, <1>7 DEF select_gate
  <1>9. ASSUME NEW pc \in {"sync", "set_status", "insert_gate"}, Goto(h, pc),
               interrupt_before(checkpoint) <=> pc = "insert_gate"
        PROVE  Turn(task[h])'
    <2>1. task'[h] = [task[h] EXCEPT !.pc = pc] BY <1>9, Record DEF Goto, IInv, Tasks
    <2>2. task'[h].pc = pc /\ task'[h].snapshot = task[h].snapshot
          /\ task'[h].expired = task[h].expired
      BY <1>4, <2>1 DEF Tasks
    <2>3. pc # "insert_gate" => Waits BY <1>9 DEF Waits
    <2> QED BY <1>2, <1>3, <1>5, <1>9, <2>2, <2>3 DEF Turn
  <1>10. AfterGate(h) \in {"sync", "set_status"} BY DEF AfterGate
  <1>11. Turn(task[h])' BY <1>8, <1>9, <1>10
  <1> QED BY <1>3, <1>11, SerialStep

-----------------------------------------------------------------------------
(* Steps of the one task that write the thread *)

\* The tables stay, the thread changes.
LEMMA SameTables ==
    ASSUME IInv, NEW h \in Handlers, SerialAt(h),
           UNCHANGED <<rows, left, failures>>, checkpoint' \in Checkpoint,
           task[h].pc # "idle", task'[h].pc # "idle"
    PROVE  /\ UNCHANGED <<status, completed_at, published, gates, announced, left>>
           /\ Pending' = Pending /\ Signed' = Signed
           /\ status # "none"
           /\ Fresh' /\ RunIsGone'
  <1>1. UNCHANGED <<status, completed_at, published, gates, announced, left>> BY DEF rows
  <1>2. Pending' = Pending /\ Signed' = Signed BY <1>1 DEF Pending, Signed
  <1>3. SerialShared /\ Sound(task[h], Len(gates), checkpoint, published)
    BY SerialRecord
  <1>4. status # "none" BY <1>3 DEF SerialShared, Fresh, Sound
  <1>5. Fresh' /\ RunIsGone' BY <1>1, <1>3, <1>4 DEF SerialShared, Fresh, RunIsGone
  <1> QED BY <1>1, <1>2, <1>4, <1>5

\* ainvoke with an input starts a thread that held nothing.
LEMMA SerialStart ==
    ASSUME IInv, IInv', NEW h \in Handlers, SerialAt(h), start_graph(h)
    PROVE  SerialAt(h)'
  <1>1. task[h] \in Tasks /\ Turn(task[h]) /\ SerialShared /\ task[h].pc = "start"
    BY SerialRecord DEF start_graph
  <1>2. checkpoint = NoRun /\ task[h].expired = {} BY <1>1 DEF Turn
  <1>3. task'[h] = [task[h] EXCEPT !.pc = "loop", !.memory = checkpoint']
    BY Record DEF start_graph, IInv, Tasks
  <1>4. task'[h].pc = "loop" /\ task'[h].memory = checkpoint' /\ task'[h].expired = {}
    BY <1>1, <1>2, <1>3 DEF Tasks
  <1>5. UNCHANGED <<rows, left, failures>> /\ checkpoint'.last = "START"
    BY DEF start_graph
  <1>6. checkpoint' \in Checkpoint
    <2>1. published \in Ideas BY Record DEF start_graph, Sound, IInv, SharedOK
    <2> QED BY <2>1, StartIsCopy DEF start_graph, Copies
  <1>7. Pending = {}
    <2>1. gates = <<>> BY <1>2, SerialRecord
    <2> QED BY <2>1, SerialRecord DEF Pending
  <1>8. Pending' = {} /\ Fresh' /\ RunIsGone'
    BY <1>1, <1>4, <1>5, <1>6, <1>7, SameTables
  <1>9. SerialShared'
    BY <1>5, <1>8 DEF SerialShared, OneWaits, PassedIsSigned, GateNodes
  <1>10. Turn(task[h])' BY <1>4, <1>8 DEF Turn
  <1> QED BY <1>9, <1>10, SerialStep

\* The run leaves a gate on the answer to that gate only, and only the answer
\* "pending" leaves a row pending.
LEMMA SerialSuperStep ==
    ASSUME IInv, IInv', NEW h \in Handlers, SerialAt(h), superstep(h)
    PROVE  SerialAt(h)'
  <1> DEFINE n == next_of(checkpoint)
  <1>1. /\ task[h] \in Tasks /\ Turn(task[h]) /\ SerialShared
        /\ task[h].pc \in {"loop", "resumed"}
        /\ checkpoint \in Checkpoint /\ checkpoint # NoRun
    BY SerialRecord DEF superstep
  <1>2. /\ task[h].memory = checkpoint /\ task[h].expired = {}
        /\ Pending = {} \/ checkpoint.values.gate_decision = "pending"
    BY <1>1 DEF Turn
  <1>3. n \in Nodes /\ (task[h].pc = "loop" => n \notin GateNodes)
    BY <1>1, <1>2, NextNodeType DEF superstep, Stops, interrupt_before
  <1>4. PICK s \in NodeResults(n, checkpoint.values) :
          checkpoint' = [last |-> n, values |-> s]
    BY <1>2 DEF superstep
  <1>5. task'[h] = [task[h] EXCEPT !.pc = "loop", !.memory = checkpoint']
    BY Record DEF superstep, IInv, Tasks
  <1>6. task'[h].pc = "loop" /\ task'[h].memory = checkpoint' /\ task'[h].expired = {}
    BY <1>1, <1>2, <1>5 DEF Tasks
  <1>7. UNCHANGED <<rows, left, failures>> BY DEF superstep
  <1>8. checkpoint' \in Checkpoint
    <2>1. checkpoint' \in Copies \cup {NoRun} /\ NoRun \notin Copies
      BY Record DEF IInv, SharedOK
    <2>2. checkpoint' # NoRun
      <3>1. Sound(task'[h], Len(gates'), checkpoint', published') BY DEF IInv
      <3> QED BY <1>6, <3>1 DEF Sound
    <2> QED BY <2>1, <2>2 DEF Copies
  <1>9. UNCHANGED gates /\ Pending' = Pending /\ Signed' = Signed /\ UNCHANGED status
        /\ Fresh' /\ RunIsGone'
    BY <1>1, <1>6, <1>7, <1>8, SameTables
  <1>10. checkpoint'.last = n /\ checkpoint'.values = s BY <1>4
  <1>11. n \in GateNodes => s.gate_decision = checkpoint.values.gate_decision
    <2>1. checkpoint.values \in RunState BY <1>1 DEF Checkpoint
    <2>2. n \in GateNodes => n # "pivot_rerun" BY DEF GateNodes
    <2> HIDE DEF n
    <2> QED BY <1>3, <1>4, <2>1, <2>2, NodeEffects
  <1>12. Pending # {} => n \in GateNodes
    <2> SUFFICES ASSUME Pending # {}, n \notin GateNodes PROVE FALSE OBVIOUS
    <2>1. PICK g \in Pending : gates[g].kind \in GatesActedOn(checkpoint)
      BY <1>1 DEF SerialShared, OneWaits
    <2>2. checkpoint.last \in GateNodes BY <2>1 DEF GatesActedOn
    <2>3. n = "END" BY <1>1, <1>2, <2>2, PendingEnds
    <2> QED BY <1>3, <2>3 DEF Nodes, GateNodes
  <1>13. n \in GateNodes => n \in GatesActedOn(checkpoint) /\ n \in GatesActedOn(checkpoint')
    BY <1>1, <1>8, <1>10, OneGateActedOn
  <1> HIDE DEF n
  <1>14. OneWaits'
    BY <1>1, <1>9, <1>12, <1>13, OneGateActedOn DEF SerialShared, OneWaits
  <1>15. PassedIsSigned'
    BY <1>1, <1>3, <1>9, <1>10, <1>11, <1>13 DEF PassedIsSigned, Turn
  <1>16. Turn(task[h])'
    BY <1>2, <1>6, <1>9, <1>10, <1>11, <1>12 DEF Turn
  <1> QED BY <1>9, <1>14, <1>15, <1>16, SerialStep DEF SerialShared

\* The write of active_gate_id leaves the run where it waits.
LEMMA SerialActivate ==
    ASSUME IInv, IInv', NEW h \in Handlers, SerialAt(h), activate_write(h)
    PROVE  SerialAt(h)'
  <1>1. /\ task[h] \in Tasks /\ Turn(task[h]) /\ SerialShared
        /\ task[h].pc = "activated"
        /\ checkpoint \in Checkpoint /\ checkpoint # NoRun
    BY SerialRecord DEF activate_write
  <1>2. /\ task[h].memory = checkpoint /\ task[h].expired = {} /\ task[h].inserted
        /\ Alike(task[h].snapshot, checkpoint) /\ interrupt_before(checkpoint)
        /\ \/ status = "deleted"
           \/ Pending = {task[h].row} /\ gates[task[h].row].kind = next_of(checkpoint)
    BY <1>1 DEF Turn
  <1>3. task'[h] = [task[h] EXCEPT !.pc = "emit", !.memory = NoRun]
    BY <1>2, Record DEF activate_write, IInv, Tasks
  <1>4. /\ task'[h].pc = "emit" /\ task'[h].row = task[h].row /\ task'[h].inserted
        /\ task'[h].snapshot = task[h].snapshot /\ task'[h].expired = {}
    BY <1>1, <1>2, <1>3 DEF Tasks
  <1>5. UNCHANGED <<rows, left, failures>>
        /\ checkpoint' = [checkpoint EXCEPT !.values.active_gate_id = task[h].row]
    BY <1>2 DEF activate_write
  <1>6. task[h].row \in Nat BY <1>1 DEF Tasks
  <1>7. /\ checkpoint' \in Checkpoint
        /\ checkpoint'.last = checkpoint.last
        /\ checkpoint'.values.active_gate_id = task[h].row
        /\ checkpoint'.values.gate_decision = checkpoint.values.gate_decision
        /\ Alike(checkpoint, checkpoint')
        /\ GatesActedOn(checkpoint') = GatesActedOn(checkpoint)
    BY <1>1, <1>5, <1>6, ActivateEffects
  <1>8. UNCHANGED gates /\ Pending' = Pending /\ Signed' = Signed /\ UNCHANGED status
        /\ Fresh' /\ RunIsGone'
    BY <1>1, <1>4, <1>5, <1>7, SameTables
  <1>9. /\ next_of(checkpoint') = next_of(checkpoint) /\ interrupt_before(checkpoint')
        /\ Alike(task[h].snapshot, checkpoint')
    BY <1>2, <1>7, AlikeStops DEF Alike
  <1>10. SerialShared'
    BY <1>1, <1>7, <1>8 DEF SerialShared, OneWaits, PassedIsSigned
  <1>11. Turn(task[h])' BY <1>2, <1>4, <1>7, <1>8, <1>9 DEF Turn
  <1> QED BY <1>10, <1>11, SerialStep

\* The update of a resume carries the decision that is in the gate's row.
LEMMA SerialInject ==
    ASSUME IInv, IInv', NEW h \in Handlers, SerialAt(h), resume_write(h)
    PROVE  SerialAt(h)'
  <1> DEFINE d == task[h].decision
  <1>1. /\ task[h] \in Tasks /\ Turn(task[h]) /\ SerialShared
        /\ task[h].pc = "inject"
        /\ checkpoint \in Checkpoint /\ checkpoint # NoRun
        /\ Sound(task[h], Len(gates), checkpoint, published)
    BY SerialRecord DEF resume_write
  <1>2. /\ task[h].memory = checkpoint /\ task[h].expired = {}
        /\ ActsOn(task[h].gate, d)
        /\ d = "pending" \/ Pending = {}
        /\ d \in Decisions /\ task[h].pivot_text \in Ideas \cup {NoPivot}
    BY <1>1 DEF Turn, Sound, Tasks
  <1>3. task'[h] = [task[h] EXCEPT !.pc = "invoke", !.memory = NoRun,
                                   !.decision = "none", !.pivot_text = NoPivot]
    BY Record DEF resume_write, IInv, Tasks
  <1>4. task'[h].pc = "invoke" /\ task'[h].gate = task[h].gate /\ task'[h].expired = {}
    BY <1>1, <1>2, <1>3 DEF Tasks
  <1>5. UNCHANGED <<rows, left, failures>>
        /\ checkpoint' = inject(checkpoint, d, task[h].pivot_text)
    BY <1>2 DEF resume_write
  <1>6. /\ checkpoint' \in Checkpoint
        /\ checkpoint'.last = checkpoint.last
        /\ checkpoint'.values.gate_decision = d
    BY <1>1, <1>2, <1>5, InjectType
  <1>7. \A k \in GatesActedOn(checkpoint) : k \in GatesActedOn(checkpoint')
    BY <1>1, <1>2, <1>5, InjectActsOn
  <1>8. UNCHANGED gates /\ Pending' = Pending /\ Signed' = Signed /\ UNCHANGED status
        /\ Fresh' /\ RunIsGone'
    BY <1>1, <1>4, <1>5, <1>6, SameTables
  <1> HIDE DEF d
  <1>9. OneWaits' BY <1>1, <1>7, <1>8 DEF SerialShared, OneWaits
  <1>10. PassedIsSigned'
    <2> SUFFICES ASSUME checkpoint.last \in GateNodes, d = "approved", status # "deleted"
                 PROVE  checkpoint.last \in Signed
      BY <1>6, <1>8 DEF PassedIsSigned
    <2>1. /\ task[h].gate \in DOMAIN gates /\ gates[task[h].gate].state = "approved"
          /\ gates[task[h].gate].kind \in GatesActedOn(checkpoint)
      BY <1>1, <1>2 DEF ActsOn, SerialShared, RunIsGone
    <2>2. gates[task[h].gate].kind = checkpoint.last BY <1>1, <2>1, OneGateActedOn
    <2> QED BY <2>1, <2>2 DEF Signed
  <1>11. Turn(task[h])'
    BY <1>2, <1>4, <1>6, <1>7, <1>8 DEF Turn, ActsOn
  <1> QED BY <1>8, <1>9, <1>10, <1>11, SerialStep DEF SerialShared

-----------------------------------------------------------------------------
(* Steps of the one task that write the rows *)

\* A gate is inserted where none is pending.
LEMMA SerialInsert ==
    ASSUME IInv, IInv', NEW h \in Handlers, SerialAt(h), insert_gate(h)
    PROVE  SerialAt(h)'
  <1>1. /\ task[h] \in Tasks /\ Turn(task[h]) /\ SerialShared
        /\ task[h].pc = "insert_gate"
        /\ checkpoint \in Checkpoint /\ checkpoint # NoRun /\ gates \in Seq(GateRows)
        /\ Sound(task[h], Len(gates), checkpoint, published)
    BY SerialRecord DEF insert_gate
  <1>2. /\ Alike(task[h].snapshot, checkpoint) /\ task[h].expired = {}
        /\ interrupt_before(checkpoint)
        /\ Pending = {}
    <2>1. Alike(task[h].snapshot, checkpoint) /\ task[h].expired = {}
          /\ (Pending = {} \/ ~interrupt_before(checkpoint))
      BY <1>1 DEF Turn
    <2>2. interrupt_before(checkpoint) BY <1>1, <2>1, AlikeStops DEF Sound
    <2> QED BY <2>1, <2>2
  <1>3. UNCHANGED <<status, completed_at, published, announced, checkpoint, left, failures>>
    BY DEF insert_gate
  <1>4. status # "none" BY <1>1 DEF SerialShared, Fresh
  <1>5. Fresh' BY <1>1, <1>3, <1>4 DEF SerialShared, Fresh
  <1>6. CASE status # "deleted"
    <2> DEFINE r == [kind |-> next_of(checkpoint), state |-> "pending"]
    <2>1. /\ gates' = Append(gates, r)
          /\ task'[h] = [task[h] EXCEPT !.pc = "activate", !.row = Len(gates'),
                                        !.inserted = TRUE]
      BY <1>2, <1>6, Record DEF insert_gate, Alike, IInv, Tasks
    <2>2. /\ task'[h].pc = "activate" /\ task'[h].row = Len(gates') /\ task'[h].inserted
          /\ task'[h].snapshot = task[h].snapshot /\ task'[h].expired = {}
      BY <1>1, <1>2, <2>1 DEF Tasks
    <2>3. r \in GateRows /\ r.state = "pending" /\ r.kind = next_of(checkpoint)
      BY <1>2 DEF interrupt_before, GateRows, Decisions
    <2> HIDE DEF r
    <2>4. /\ Pending' = Pending \cup {Len(gates')}
          /\ gates'[Len(gates')] = r
          /\ \A g \in DOMAIN gates : g \in DOMAIN gates' /\ gates'[g] = gates[g]
          /\ DOMAIN gates' = DOMAIN gates \cup {Len(gates')}
          /\ Signed' = Signed
      BY <1>1, <2>1, <2>3, RowAddedPending
    <2>5. Pending' = {Len(gates')} /\ gates'[Len(gates')].kind = next_of(checkpoint)
      BY <1>2, <2>3, <2>4
    <2>6. next_of(checkpoint) \in GatesActedOn(checkpoint)
      BY <1>1, <1>2, OneGateActedOn DEF interrupt_before
    <2>7. RunIsGone' BY <1>1, <1>3, <2>3, <2>4 DEF SerialShared, RunIsGone
    <2>8. OneWaits' BY <1>3, <2>5, <2>6 DEF OneWaits
    <2>9. PassedIsSigned' BY <1>1, <1>3, <2>4 DEF SerialShared, PassedIsSigned
    <2>10. Turn(task[h])' BY <1>2, <1>3, <2>2, <2>5 DEF Turn
    <2> QED BY <1>5, <2>7, <2>8, <2>9, <2>10, SerialStep DEF SerialShared
  <1>7. CASE status = "deleted"
    <2>1. task'[h] = Idle /\ UNCHANGED <<rows, checkpoint, left, failures>>
      BY <1>3, <1>7 DEF insert_gate, rows, IInv
    <2>2. Rests' BY <1>3, <1>7 DEF Rests
    <2> QED BY <1>1, <2>1, <2>2, SameRows, IdleTurn, SerialStep
  <1> QED BY <1>6, <1>7

\* With gate.required out, the run waits for an answer.
LEMMA SerialEmit ==
    ASSUME IInv, IInv', NEW h \in Handlers, SerialAt(h), emit_gate_required(h)
    PROVE  SerialAt(h)'
  <1>1. /\ task[h] \in Tasks /\ Turn(task[h]) /\ SerialShared
        /\ task[h].pc = "emit"
    BY SerialRecord DEF emit_gate_required
  <1>2. UNCHANGED <<status, completed_at, published, gates, checkpoint, left, failures>>
        /\ announced' = announced \cup {task[h].row}
    BY DEF emit_gate_required
  <1>3. task'[h] = [task[h] EXCEPT !.pc = AfterGate(h)]
    BY Record DEF emit_gate_required, Goto, IInv, Tasks
  <1>4. AfterGate(h) \in {"sync", "set_status"} BY DEF AfterGate
  <1>5. /\ task'[h].pc \in {"sync", "set_status"}
        /\ task'[h].snapshot = task[h].snapshot /\ task'[h].expired = task[h].expired
    BY <1>1, <1>3, <1>4 DEF Tasks
  <1>6. Pending' = Pending /\ Signed' = Signed BY <1>2 DEF Pending, Signed
  <1>8. SerialShared'
    BY <1>1, <1>2, <1>6 DEF SerialShared, Fresh, RunIsGone, OneWaits, PassedIsSigned
  <1>9. Waits' BY <1>1, <1>2, <1>6 DEF Waits, Turn
  <1>10. Turn(task[h])' BY <1>1, <1>2, <1>5, <1>9 DEF Turn
  <1> QED BY <1>8, <1>10, SerialStep

\* The last write of a call shows the status that the thread has.
LEMMA SerialStatus ==
    ASSUME IInv, IInv', NEW h \in Handlers, SerialAt(h), update_run_status(h)
    PROVE  SerialAt(h)'
  <1>1. /\ task[h] \in Tasks /\ Turn(task[h]) /\ SerialShared
        /\ task[h].pc = "set_status" /\ checkpoint # NoRun
        /\ status # "none"
    BY SerialRecord DEF update_run_status, SerialShared, Fresh
  <1>2. Alike(task[h].snapshot, checkpoint) /\ task[h].expired = {} /\ Waits
    BY <1>1 DEF Turn
  <1>3. /\ UNCHANGED <<published, gates, announced, checkpoint, left, failures>>
        /\ task'[h] = Idle
        /\ status' = IF status = "deleted" THEN status ELSE derive_status(task[h].snapshot)
        /\ completed_at' = (completed_at \/ status' \in Terminal)
    BY <1>2, Record DEF update_run_status, IInv
  <1>4. derive_status(task[h].snapshot) = derive_status(checkpoint) BY <1>2, AlikeStops
  <1>5. /\ status' = IF status = "deleted" THEN status ELSE derive_status(checkpoint)
        /\ status' = "deleted" <=> status = "deleted"
        /\ status' # "none"
    BY <1>1, <1>3, <1>4, StatusType
  <1>6. Pending' = Pending /\ Signed' = Signed BY <1>3 DEF Pending, Signed
  <1>7. SerialShared'
    BY <1>1, <1>3, <1>5, <1>6 DEF SerialShared, Fresh, RunIsGone, OneWaits, PassedIsSigned
  <1>8. Waits' BY <1>2, <1>3, <1>5, <1>6 DEF Waits
  <1>9. Rests' BY <1>3, <1>5, <1>8 DEF Rests
  <1> QED BY <1>3, <1>7, <1>9, IdleTurn, SerialStep

\* What a decision, or a timeout, of the one pending gate does to the rows.
LEMMA Decided ==
    ASSUME IInv, NEW h \in Handlers, SerialAt(h), task[h].pc # "idle",
           NEW g, ActsOn(g, "pending"), gates[g].state # "deleted", NEW d \in Decisions,
           gates' = [gates EXCEPT ![g].state = d],
           UNCHANGED <<published, announced, checkpoint, left, failures>>,
           status' = status \/ status' \notin {"none", "deleted"},
           task'[h].pc # "idle"
    PROVE  /\ SerialShared' /\ ActsOn(g, d)'
           /\ d = "pending" \/ Pending' = {}
  <1>1. SerialShared /\ gates \in Seq(GateRows) /\ checkpoint # NoRun
    <2>1. g \in DOMAIN gates BY DEF ActsOn
    <2> QED BY <2>1, SerialRecord
  <1>2. g \in Pending BY DEF ActsOn, Pending
  <1>3. /\ DOMAIN gates' = DOMAIN gates
        /\ \A i \in DOMAIN gates : gates'[i].kind = gates[i].kind
        /\ \A i \in DOMAIN gates \ {g} : gates'[i] = gates[i]
        /\ gates'[g].state = d
        /\ d = "pending" => Pending' = Pending
        /\ d # "pending" => Pending' = Pending \ {g}
        /\ d = "approved" => Signed' = Signed \cup {gates[g].kind}
        /\ d # "approved" => Signed' = Signed
    BY <1>1, <1>2, RowDecided
  <1>4. Pending' \subseteq Pending /\ Pending \subseteq DOMAIN gates
        /\ Signed \subseteq Signed'
    BY <1>3 DEF Pending
  <1>5. status # "none" /\ status # "deleted"
    BY <1>1, <1>2, Record DEF SerialShared, Fresh, IInv, SharedOK, DeletedTogether, Pending
  <1>6. status' # "none" /\ status' # "deleted" BY <1>5
  <1>7. Fresh' BY <1>1, <1>6 DEF SerialShared, Fresh
  <1>8. RunIsGone' BY <1>1, <1>3, <1>5 DEF SerialShared, RunIsGone, Decisions
  <1>9. OneWaits' BY <1>1, <1>3, <1>4 DEF SerialShared, OneWaits
  <1>10. PassedIsSigned' BY <1>1, <1>4, <1>5 DEF SerialShared, PassedIsSigned
  <1>11. ActsOn(g, d)' BY <1>1, <1>3 DEF ActsOn
  <1>12. d = "pending" \/ Pending' = {}
    BY <1>1, <1>2, <1>3 DEF SerialShared, OneWaits
  <1> QED BY <1>7, <1>8, <1>9, <1>10, <1>11, <1>12 DEF SerialShared

LEMMA SerialCommit ==
    ASSUME IInv, IInv', NEW h \in Handlers, SerialAt(h), commit_decision(h)
    PROVE  SerialAt(h)'
  <1>0. PICK g, d : g = task[h].gate /\ d = task[h].decision OBVIOUS
  <1>1. /\ task[h] \in Tasks /\ Turn(task[h]) /\ SerialShared
        /\ task[h].pc = "commit" /\ Sound(task[h], Len(gates), checkpoint, published)
    BY SerialRecord DEF commit_decision
  <1>2. ActsOn(g, "pending") /\ task[h].expired = {} /\ d \in Decisions
    BY <1>0, <1>1 DEF Turn, Sound
  <1>3. /\ gates[g].state # "deleted"
        /\ gates' = [gates EXCEPT ![g].state = d]
        /\ UNCHANGED <<published, announced, checkpoint, left, failures>>
        /\ status' \in {"running", "failed", status}
    BY <1>0 DEF commit_decision
  <1>4. task'[h] = [task[h] EXCEPT !.pc = "load"]
    BY Record DEF commit_decision, Goto, IInv, Tasks
  <1>5. /\ task'[h].pc = "load" /\ task'[h].gate = g /\ task'[h].decision = d
        /\ task'[h].expired = {}
    BY <1>0, <1>1, <1>2, <1>4 DEF Tasks
  <1>6. status' = status \/ status' \notin {"none", "deleted"} BY <1>3
  <1>7. SerialShared' /\ ActsOn(g, d)' /\ (d = "pending" \/ Pending' = {})
    BY <1>1, <1>2, <1>3, <1>5, <1>6, Decided
  <1>8. Turn(task[h])' BY <1>5, <1>7 DEF Turn, ActsOn
  <1> QED BY <1>7, <1>8, SerialStep

LEMMA SerialExpire ==
    ASSUME IInv, IInv', NEW h \in Handlers, SerialAt(h), expire(h)
    PROVE  SerialAt(h)'
  <1>1. /\ task[h] \in Tasks /\ Turn(task[h]) /\ SerialShared
        /\ task[h].pc = "expire"
    BY SerialRecord DEF expire
  <1>2. PICK g \in task[h].expired :
          /\ gates[g].state # "deleted"
          /\ gates' = [gates EXCEPT ![g].state = "timed_out"]
          /\ task' = [task EXCEPT ![h].pc = "load", ![h].gate = g,
                                  ![h].decision = "timed_out", ![h].expired = @ \ {g}]
    BY DEF expire
  <1>3. ActsOn(g, "pending") /\ task[h].expired = {g} BY <1>1 DEF Turn
  <1>4. task'[h] = [task[h] EXCEPT !.pc = "load", !.gate = g, !.decision = "timed_out",
                                   !.expired = task[h].expired \ {g}]
    BY <1>2, Record DEF IInv, Tasks
  <1>5. /\ task'[h].pc = "load" /\ task'[h].gate = g /\ task'[h].decision = "timed_out"
        /\ task'[h].expired = {}
    BY <1>1, <1>3, <1>4 DEF Tasks
  <1>6. UNCHANGED <<published, announced, checkpoint, left, failures, status>>
    BY DEF expire
  <1>7. SerialShared' /\ ActsOn(g, "timed_out")' /\ Pending' = {}
    BY <1>1, <1>2, <1>3, <1>5, <1>6, Decided DEF Decisions
  <1>8. Turn(task[h])' BY <1>5, <1>7 DEF Turn, ActsOn
  <1> QED BY <1>7, <1>8, SerialStep

-----------------------------------------------------------------------------
(* Arrivals, and what happens outside the task *)

\* A request or a sweep finds the run at rest and takes its one pending gate.
LEMMA SerialArrive ==
    ASSUME IInv, IInv', NEW h \in Handlers, SerialAt(h), Arrive(h), ~Disturbing'
    PROVE  SerialAt(h)'
  <1>1. /\ task[h] \in Tasks /\ Turn(task[h]) /\ SerialShared /\ left \in [Events -> Nat]
        /\ gates # <<>> => checkpoint # NoRun
        /\ DOMAIN gates = 1..Len(gates)
    BY SerialRecord, Record
  <1>2. ASSUME UNCHANGED <<rows, checkpoint, failures>>
        PROVE  /\ UNCHANGED <<status, completed_at, published, gates, announced, checkpoint,
                             failures>>
               /\ Pending' = Pending /\ Signed' = Signed /\ (Rests' <=> Rests)
    <2>1. UNCHANGED <<status, completed_at, published, gates, announced, checkpoint, failures>>
      BY <1>2 DEF rows
    <2>2. Pending' = Pending /\ Signed' = Signed BY <2>1 DEF Pending, Signed
    <2>3. Waits' <=> Waits BY <2>1, <2>2 DEF Waits
    <2> QED BY <2>1, <2>2, <2>3 DEF Rests, NoFailureYet
  <1>3. CASE receive_run_created(h)
    <2>1. UNCHANGED <<rows, checkpoint, failures>> /\ task[h].pc = "idle"
      BY <1>3 DEF receive_run_created
    <2>3. task'[h] = [task[h] EXCEPT !.pc = "start", !.kind = "create"]
      BY <1>3, Record DEF receive_run_created, IInv, Tasks
    <2>4. task'[h].pc = "start" /\ task'[h].expired = {} /\ checkpoint = NoRun
      BY <1>1, <2>1, <2>3 DEF Tasks, Turn, Disturbing
    <2>5. SerialShared'
      BY <1>1, <1>2, <2>1 DEF SerialShared, Fresh, RunIsGone, OneWaits, PassedIsSigned
    <2>6. Turn(task[h])' BY <1>2, <2>1, <2>4 DEF Turn
    <2> QED BY <2>5, <2>6, SerialStep
  <1>4. ASSUME NEW g \in DOMAIN gates, NEW d \in Answers, NEW n \in Ideas \cup {NoPivot},
               decide_gate(h, g, d, n)
        PROVE  SerialAt(h)'
    <2>1. /\ task[h].pc = "idle" /\ gates[g].state = "pending"
          /\ UNCHANGED <<rows, checkpoint, failures>>
      BY <1>4 DEF decide_gate
    <2>3. checkpoint # NoRun BY <1>1, EmptySeq
    <2>4. task'[h] = [Idle EXCEPT !.pc = "commit", !.kind = "resume", !.gate = g,
                                  !.decision = d, !.pivot_text = n]
      BY <1>4, Record DEF decide_gate, IInv
    <2>5. task'[h].pc = "commit" /\ task'[h].gate = g /\ task'[h].expired = {}
      BY <2>4 DEF Idle
    <2>6. ActsOn(g, "pending") BY <1>1, <2>1 DEF SerialShared, OneWaits, ActsOn, Pending
    <2>7. SerialShared'
      BY <1>1, <1>2, <2>1, <2>3
      DEF SerialShared, Fresh, RunIsGone, OneWaits, PassedIsSigned
    <2>8. Turn(task[h])' BY <1>1, <1>2, <2>1, <2>5, <2>6 DEF Turn, ActsOn
    <2> QED BY <2>7, <2>8, SerialStep
  <1>5. ASSUME NEW overdue \in SUBSET Pending, check_gate_timeouts(h, overdue)
        PROVE  SerialAt(h)'
    <2>1. /\ task[h].pc = "idle" /\ overdue # {}
          /\ UNCHANGED <<rows, checkpoint, failures>>
      BY <1>5 DEF check_gate_timeouts
    <2>3. checkpoint # NoRun BY <1>1, <2>1, EmptySeq DEF Pending
    <2>4. task'[h] = [Idle EXCEPT !.pc = "expire", !.kind = "resume", !.expired = overdue]
      BY <1>5, Record DEF check_gate_timeouts, IInv
    <2>5. task'[h].pc = "expire" /\ task'[h].expired = overdue BY <2>4 DEF Idle
    <2>6. /\ \A g \in overdue : ActsOn(g, "pending")
          /\ \A f, g \in overdue : f = g
      BY <1>1 DEF SerialShared, OneWaits, ActsOn, Pending
    <2>7. SerialShared'
      BY <1>1, <1>2, <2>1, <2>3
      DEF SerialShared, Fresh, RunIsGone, OneWaits, PassedIsSigned
    <2>8. Turn(task[h])' BY <1>1, <1>2, <2>1, <2>5, <2>6 DEF Turn, ActsOn
    <2> QED BY <2>7, <2>8, SerialStep
  <1>6. ~finish_step(h)
    <2> SUFFICES ASSUME finish_step(h) PROVE FALSE OBVIOUS
    <2>1. task'[h] = [Idle EXCEPT !.pc = "load", !.kind = "resume", !.decision = "approved"]
      BY Record DEF finish_step, IInv
    <2>2. task'[h].pc = "load" /\ task'[h].gate = 0 BY <2>1 DEF Idle
    <2> QED BY <2>2 DEF Disturbing
  <1> QED BY <1>3, <1>4, <1>5, <1>6 DEF Arrive

\* POST /ideas and its message come before the run; a cancellation only takes from it.
LEMMA SerialApi ==
    ASSUME IInv, IInv', SerialShared, submit_idea \/ publish_run_created \/ cancel_run
    PROVE  /\ SerialShared' /\ (Rests => Rests') /\ task' = task
           /\ \A h \in Handlers : Turn(task[h]) => Turn(task[h])'
  <1>1. /\ left \in [Events -> Nat] /\ gates \in Seq(GateRows)
        /\ \A g \in DOMAIN gates : gates[g] \in GateRows
    <2>1. gates \in Seq(GateRows) BY DEF IInv, SharedOK
    <2>2. \A g \in DOMAIN gates : gates[g] \in GateRows BY <2>1, ElementOfSeq, LenProperties
    <2> QED BY <2>1, <2>2 DEF IInv, SharedOK
  <1>2. CASE submit_idea
    <2>1. /\ UNCHANGED <<completed_at, published, gates, announced, checkpoint, task, left,
                         failures>>
          /\ status = "none" /\ status' = "queued"
      BY <1>2 DEF submit_idea
    <2>2. checkpoint = NoRun /\ published = NoPivot BY <2>1 DEF SerialShared, Fresh
    <2>3. Pending' = Pending /\ Signed' = Signed BY <2>1 DEF Pending, Signed
    <2>4. SerialShared'
      BY <2>1, <2>2, <2>3 DEF SerialShared, Fresh, RunIsGone, OneWaits, PassedIsSigned
    <2>5. Rests' BY <2>1, <2>2 DEF Rests
    <2>6. ASSUME NEW h \in Handlers, Turn(task[h]) PROVE Turn(task[h])'
      <3>1. Sound(task[h], Len(gates), checkpoint, published) BY Record
      <3>2. task[h].pc = "idle" /\ task'[h].pc = "idle" /\ task'[h].expired = {}
        BY <2>1, <2>2, <2>6, <3>1 DEF Turn, Sound
      <3> QED BY <2>5, <3>2 DEF Turn
    <2> QED BY <2>1, <2>4, <2>5, <2>6
  <1>3. CASE publish_run_created
    <2>1. /\ UNCHANGED <<status, completed_at, gates, announced, checkpoint, task, left,
                         failures>>
          /\ status = "queued"
      BY <1>3 DEF publish_run_created
    <2>2. Pending' = Pending /\ Signed' = Signed BY <2>1 DEF Pending, Signed
    <2>3. Waits' <=> Waits BY <2>1, <2>2 DEF Waits
    <2>4. Rests' <=> Rests BY <2>1, <2>3 DEF Rests, NoFailureYet
    <2>5. SerialShared'
      BY <2>1, <2>2 DEF SerialShared, Fresh, RunIsGone, OneWaits, PassedIsSigned
    <2>6. ASSUME NEW h \in Handlers, Turn(task[h]) PROVE Turn(task[h])'
      BY <2>1, <2>2, <2>3, <2>4, <2>6 DEF Turn, ActsOn
    <2> QED BY <2>1, <2>4, <2>5, <2>6
  <1>4. CASE cancel_run
    <2>1. /\ UNCHANGED <<completed_at, published, announced, checkpoint, task, failures>>
          /\ status' = "deleted"
          /\ gates' = [g \in DOMAIN gates |-> [gates[g] EXCEPT !.state = "deleted"]]
      BY <1>4 DEF cancel_run
    <2>2. /\ DOMAIN gates' = DOMAIN gates
          /\ \A g \in DOMAIN gates : /\ gates'[g].state = "deleted"
                                     /\ gates'[g].kind = gates[g].kind
      BY <1>1, <2>1 DEF GateRows
    <2>3. Pending' = {} BY <2>2 DEF Pending
    <2>4. Waits' /\ Rests' BY <2>1 DEF Waits, Rests
    <2>5. SerialShared'
      BY <2>1, <2>2, <2>3 DEF SerialShared, Fresh, RunIsGone, OneWaits, PassedIsSigned
    <2>6. \A g, d : ActsOn(g, d) => ActsOn(g, d)' BY <2>1, <2>2 DEF ActsOn
    <2>7. ASSUME NEW h \in Handlers, Turn(task[h]) PROVE Turn(task[h])'
      <3>1. PICK t : t = task[h] /\ task'[h] = t BY <2>1
      <3> QED BY <2>1, <2>3, <2>4, <2>6, <2>7, <3>1 DEF Turn
    <2> QED BY <2>1, <2>4, <2>5, <2>7
  <1> QED BY <1>2, <1>3, <1>4

\* A crash leaves no task, and no claim on a run in which something failed.
LEMMA SerialCrash == ASSUME IInv, SerialShared, crash PROVE SerialInv'
  <1>1. /\ \A h \in Handlers : task'[h] = Idle
        /\ failures' = failures + 1
        /\ UNCHANGED <<status, completed_at, gates, announced, checkpoint, left>>
        /\ published' \in {published, NoPivot}
    BY DEF crash
  <1>2. Rests'
    <2>1. failures \in 0..MaxFailures BY DEF IInv, SharedOK
    <2>2. failures' # 0 BY <1>1, <2>1, OrchestratorAssumption
    <2> QED BY <2>2 DEF Rests, NoFailureYet
  <1>3. Pending' = Pending /\ Signed' = Signed BY <1>1 DEF Pending, Signed
  <1>4. \A h \in Handlers : task'[h].pc = "idle" /\ task'[h].expired = {}
    BY <1>1 DEF Idle
  <1>5. SerialShared'
    BY <1>1, <1>3 DEF SerialShared, Fresh, RunIsGone, OneWaits, PassedIsSigned
  <1>6. \A h \in Handlers : Turn(task[h])' BY <1>2, <1>4 DEF Turn
  <1> QED BY <1>2, <1>4, <1>5, <1>6 DEF SerialInv

LEMMA SerialInitial == Init => Undisturbed
  <1> SUFFICES ASSUME Init PROVE ~Disturbing /\ SerialInv BY DEF Undisturbed
  <1>1. checkpoint = NoRun /\ published = NoPivot /\ gates = <<>> BY DEF Init
  <1>2. \A h \in Handlers : task[h].pc = "idle" /\ task[h].expired = {}
    BY DEF Init, Idle
  <1>3. Pending = {} BY <1>1 DEF Pending
  <1>4. Rests BY <1>1 DEF Rests
  <1>5. \A h \in Handlers : Turn(task[h]) BY <1>2, <1>4 DEF Turn
  <1>6. SerialShared
    BY <1>1, <1>3 DEF SerialShared, Fresh, RunIsGone, OneWaits, PassedIsSigned
  <1>7. ~Disturbing BY <1>2 DEF Disturbing
  <1> QED BY <1>2, <1>4, <1>5, <1>6, <1>7 DEF SerialInv

\* Undisturbed, the task that takes a step is alone.
LEMMA StepsAlone ==
    ASSUME IInv, ~Disturbing, ~Disturbing', NEW h \in Handlers,
           Handle(h) \/ Arrive(h) \/ fail(h)
    PROVE  Alone(h)
  <1>1. CASE Handle(h) \/ fail(h) BY <1>1, OneTaskMoves DEF Disturbing, Alone
  <1>2. CASE Arrive(h)
    <2>1. \A k \in Handlers \ {h} : task'[k].pc = "idle"
      BY <1>2, OneTaskMoves DEF Disturbing
    <2> QED BY <1>2, <2>1, OneTaskMoves DEF Alone
  <1> QED BY <1>1, <1>2

LEMMA SerialNext ==
    ASSUME IInv, IInv', SerialInv, ~Disturbing, ~Disturbing', Act \/ UNCHANGED runVars
    PROVE  SerialInv'
  <1>1. ASSUME SerialShared', Rests => Rests', task' = task,
               \A h \in Handlers : Turn(task[h]) => Turn(task[h])'
        PROVE  SerialInv'
    BY <1>1 DEF SerialInv, Quiescent, Alone
  <1>2. CASE submit_idea \/ publish_run_created \/ cancel_run
    BY <1>1, <1>2, SerialApi DEF SerialInv
  <1>3. CASE crash BY <1>3, SerialCrash DEF SerialInv
  <1>4. ASSUME NEW h \in Handlers, Handle(h) \/ Arrive(h) \/ fail(h) PROVE SerialInv'
    <2>1. Alone(h) BY <1>4, StepsAlone
    <2>2. SerialAt(h) BY <2>1 DEF SerialInv, SerialAt
    <2>3. CASE Arrive(h) BY <1>4, <2>1, <2>2, <2>3, SerialArrive, AloneStep, OneTaskMoves
    <2>4. CASE fail(h) BY <1>4, <2>1, <2>2, <2>4, SerialEnd, AloneStep, OneTaskMoves
    <2>5. CASE Handle(h)
      <3>1. SerialAt(h)'
        BY <2>2, <2>5, SerialStart, SerialSuperStep, SerialRead, SerialSelect, SerialInsert,
           SerialActivate, SerialEmit, SerialStatus, SerialCommit, SerialEnd, SerialExpire,
           SerialInject
        DEF Handle
      <3> QED BY <1>4, <2>1, <3>1, AloneStep, OneTaskMoves
    <2> QED BY <1>4, <2>3, <2>4, <2>5
  <1>5. CASE UNCHANGED runVars
    <2>1. UNCHANGED <<status, completed_at, published, gates, announced, checkpoint, task,
                      left, failures>>
      BY <1>5 DEF runVars
    <2>2. Pending' = Pending /\ Signed' = Signed BY <2>1 DEF Pending, Signed
    <2>3. Waits' <=> Waits BY <2>1, <2>2 DEF Waits
    <2>4. Rests' <=> Rests BY <2>1, <2>3 DEF Rests, NoFailureYet
    <2>5. SerialShared'
      BY <2>1, <2>2 DEF SerialInv, SerialShared, Fresh, RunIsGone, OneWaits, PassedIsSigned
    <2>6. ASSUME NEW h \in Handlers, Turn(task[h]) PROVE Turn(task[h])'
      BY <2>1, <2>2, <2>3, <2>4, <2>6 DEF Turn, ActsOn
    <2> QED BY <1>1, <2>1, <2>4, <2>5, <2>6
  <1> QED BY <1>2, <1>3, <1>4, <1>5 DEF Act

LEMMA UndisturbedInvariance == Spec => []Undisturbed
  <1>1. IInv /\ IInv' /\ Undisturbed /\ [Next]_vars => Undisturbed'
    <2> SUFFICES ASSUME IInv, IInv', Undisturbed, [Next]_vars, ~disturbed'
                 PROVE  ~Disturbing' /\ SerialInv'
      BY DEF Undisturbed
    <2>1. ~disturbed /\ (Act \/ UNCHANGED runVars)
      <3>1. CASE Next BY <3>1, Zenon DEF Next
      <3>2. CASE UNCHANGED vars BY <3>2 DEF vars
      <3> QED BY <3>1, <3>2
    <2>2. ~Disturbing /\ SerialInv BY <2>1 DEF Undisturbed
    <2>3. ~Disturbing'
      <3>1. CASE Next BY <3>1 DEF Next
      <3>2. CASE UNCHANGED vars
        <4>1. task' = task /\ checkpoint' = checkpoint BY <3>2 DEF vars, runVars
        <4> QED BY <2>2, <4>1 DEF Disturbing
      <3> QED BY <3>1, <3>2
    <2> QED BY <2>1, <2>2, <2>3, SerialNext
  <1> QED BY <1>1, SerialInitial, Invariance, PTL DEF Spec

\* A step after which the run is still undisturbed was one before which it was.
LEMMA UndisturbedStep ==
    ASSUME Undisturbed, Next, ~disturbed'
    PROVE  ~Disturbing /\ ~Disturbing' /\ SerialInv
  BY DEF Undisturbed, Next

-----------------------------------------------------------------------------
(* What an undisturbed run can rely on *)

\* As long as no two calls have met, a decision is applied to the gate that it was made
\* about, also after failures and crashes, and in a run that is cancelled meanwhile
\* (gates.decide_gate, gate_manager.check_gate_timeouts, engine.resume).
THEOREM DecisionsReachTheirGate == Spec => UndisturbedDecisionReachesItsGate
  <1>1. IInv /\ Undisturbed /\ [Next]_vars => [~disturbed' => AppliedToItsGate]_vars
    <2> SUFFICES ASSUME IInv, Undisturbed, Next, ~disturbed',
                        NEW h \in Handlers, task[h].pc = "invoke"
                 PROVE  GatesActedOn(checkpoint) \subseteq {gates[task[h].gate].kind}
      BY DEF AppliedToItsGate
    <2>1. SerialAt(h) BY UndisturbedStep DEF Disturbing, SerialInv, SerialAt, Alone
    <2>2. Turn(task[h]) /\ checkpoint \in Checkpoint BY <2>1, SerialRecord
    <2>3. gates[task[h].gate].kind \in GatesActedOn(checkpoint) BY <2>2 DEF Turn, ActsOn
    <2> QED BY <2>2, <2>3, OneGateActedOn
  <1> QED
    BY <1>1, Invariance, UndisturbedInvariance, PTL DEF Spec, UndisturbedDecisionReachesItsGate

\* As long as no two calls have met, a run at rest that waits at a gate can be answered:
\* one pending row of that gate, known to the graph and announced, and the run shown as
\* what it is (check_and_create_gate, _derive_status).
THEOREM RunsSettle == Spec => []Settled
  <1>1. ASSUME Undisturbed PROVE Settled
    <2> SUFFICES ASSUME Quiescent, NoFailureYet, ~disturbed, checkpoint # NoRun,
                        status # "deleted"
                 PROVE  /\ interrupt_before(checkpoint) =>
                             LET g == checkpoint.values.active_gate_id
                             IN  /\ Pending = {g}
                                 /\ gates[g].kind = next_of(checkpoint)
                                 /\ g \in announced
                        /\ status = derive_status(checkpoint)
                        /\ status \in Terminal => completed_at
      BY DEF Settled
    <2>1. Rests BY <1>1 DEF Undisturbed, SerialInv
    <2> QED BY <2>1 DEF Rests, Waits
  <1> QED BY <1>1, UndisturbedInvariance, PTL

-----------------------------------------------------------------------------
(* The promise of GatedPipeline, for a run that is not cancelled *)

\* The abstract state that Promise reads off the rows and the thread.
done == IF checkpoint = NoRun THEN {}
        ELSE {p \in Pillars : checkpoint.values.output[p] # "none"}
costly == checkpoint # NoRun /\ checkpoint.values.output[5] = "costly"
pivots == IF checkpoint = NoRun THEN 0 ELSE checkpoint.values.retry_count

\* A pillar behind a gate starts on that gate's approval.
LEMMA SignedBefore ==
    ASSUME SerialShared, status # "deleted", checkpoint # NoRun, checkpoint \in Checkpoint,
           next_of(checkpoint) \in Nodes
    PROVE  LET n == next_of(checkpoint)
           IN  /\ n = "run_pillar_2" => "validation_gate" \in Signed
               /\ n = "run_pillar_3" => "architecture_gate" \in Signed
               /\ n = "run_pillar_6" => ~costly \/ "infra_spend_gate" \in Signed
               /\ n = "run_pillar_7" => "launch_gate" \in Signed
  BY Edges DEF SerialShared, PassedIsSigned, GateNodes, costly

LEMMA SuperStepRefines ==
    ASSUME IInv, NEW h \in Handlers, SerialAt(h), status # "deleted", superstep(h)
    PROVE  Promise!Next \/ UNCHANGED <<done, Signed, costly, pivots>>
  <1> DEFINE n == next_of(checkpoint)
             s == checkpoint.values
  <1>1. /\ checkpoint \in Copies /\ checkpoint # NoRun
        /\ task[h].memory = checkpoint
    BY SerialRecord DEF superstep, Turn
  <1>2. /\ checkpoint \in Checkpoint /\ s \in RunState /\ Positioned(checkpoint)
        /\ n \in Nodes
    BY <1>1, NextNodeType DEF superstep, Stops, Copies, Checkpoint
  <1>3. PICK r \in NodeResults(n, s) : checkpoint' = [last |-> n, values |-> r]
    BY <1>1 DEF superstep
  <1>4. checkpoint'.values = r /\ checkpoint' # NoRun /\ Signed' = Signed
    <2>1. checkpoint' \in Copies BY <1>1, <1>2, <1>3, SuperStepIsCopy
    <2>2. gates' = gates BY DEF superstep, rows
    <2> QED BY <1>3, <2>1, <2>2, Record DEF Signed
  <1>5. /\ n = "run_pillar_3" => 2 \in done
        /\ n = "run_pillar_4" => 3 \in done
        /\ n \in {"run_pillar_5", "run_pillar_6"} => 4 \in done
        /\ n = "run_pillar_7" => 6 \in done
        /\ n = "pivot_rerun" => 2 \notin done
    BY <1>1, <1>2, Edges
    DEF Positioned, done, Pillars, After2, After3, After4, After5, After6, After7
  <1>6. /\ n = "run_pillar_2" => "validation_gate" \in Signed
        /\ n = "run_pillar_3" => "architecture_gate" \in Signed
        /\ n = "run_pillar_6" => ~costly \/ "infra_spend_gate" \in Signed
        /\ n = "run_pillar_7" => "launch_gate" \in Signed
    BY <1>1, <1>2, SignedBefore DEF SerialAt
  <1>7. n = "pivot_rerun" => pivots < MaxPivotRetries
    BY <1>1, <1>2, Edges DEF pivots
  <1>8. /\ done' = {p \in Pillars : r.output[p] # "none"}
        /\ costly' = (r.output[5] = "costly")
        /\ pivots' = r.retry_count
    BY <1>4 DEF done, costly, pivots
  <1>9. /\ done = {p \in Pillars : s.output[p] # "none"}
        /\ costly = (s.output[5] = "costly")
        /\ pivots = s.retry_count
    BY <1>1 DEF done, costly, pivots
  <1> HIDE DEF n, s
  <1>10. CASE n \notin {"run_pillar_1", "run_pillar_2", "run_pillar_3", "run_pillar_4",
                        "run_pillar_5", "run_pillar_6", "run_pillar_7", "pivot_rerun"}
    <2>1. \A p \in Pillars : r.output[p] = s.output[p]
      BY <1>2, <1>3, <1>10, NodeEffects DEF Pillars
    <2> QED BY <1>2, <1>3, <1>4, <1>8, <1>9, <1>10, <2>1, NodeEffects DEF Pillars
  <1>11. CASE n = "pivot_rerun"
    <2>1. done' = done \ {1} /\ costly' = costly /\ pivots' = pivots + 1
      BY <1>2, <1>3, <1>8, <1>9, <1>11, NodeEffects DEF Pillars
    <2>2. Promise!Pivot
      BY <1>4, <1>5, <1>7, <1>11, <2>1 DEF Promise!Pivot, done, costly, pivots, Signed
    <2> QED BY <2>2 DEF Promise!Next
  <1>12. ASSUME NEW p \in Pillars,
                <<p, n>> \in {<<1, "run_pillar_1">>, <<2, "run_pillar_2">>,
                             <<3, "run_pillar_3">>, <<4, "run_pillar_4">>,
                             <<5, "run_pillar_5">>, <<6, "run_pillar_6">>,
                             <<7, "run_pillar_7">>}
         PROVE  Promise!Next \/ UNCHANGED <<done, Signed, costly, pivots>>
    <2>1. \A q \in Pillars \ {p} : r.output[q] = s.output[q]
      BY <1>2, <1>3, <1>12, NodeEffects DEF Pillars
    <2>2. r.output[p] # "none" \/ r.output[p] = s.output[p]
      BY <1>2, <1>3, <1>12, NodeEffects
    <2>3. pivots' = pivots
      BY <1>2, <1>3, <1>8, <1>9, <1>12, NodeEffects
    <2>4. p # 5 => costly' = costly
      BY <1>8, <1>9, <2>1 DEF Pillars
    <2>5. CASE r.output[p] = s.output[p]
      <3>1. done' = done BY <1>8, <1>9, <2>1, <2>5
      <3>2. costly' = costly BY <1>8, <1>9, <2>1, <2>5 DEF Pillars
      <3> QED BY <1>4, <2>3, <3>1, <3>2
    <2>6. CASE r.output[p] # "none"
      <3>1. done' = done \cup {p} BY <1>8, <1>9, <2>1, <2>6
      <3>2. costly' \in BOOLEAN BY <1>8
      <3>3. Promise!MayWork(p)
        BY <1>5, <1>6, <1>12 DEF Promise!MayWork, done, costly, Signed
      <3>4. Promise!Work(p)
        BY <1>4, <2>3, <2>4, <3>1, <3>2, <3>3
        DEF Promise!Work, done, costly, pivots, Signed
      <3> QED BY <3>4 DEF Promise!Next, Pillars
    <2> QED BY <2>2, <2>5, <2>6
  <1> QED BY <1>10, <1>11, <1>12 DEF Pillars

\* An approval signs the gate that the run is at, about work that exists.
LEMMA CommitRefines ==
    ASSUME IInv, NEW h \in Handlers, SerialAt(h), commit_decision(h)
    PROVE  Promise!Next \/ UNCHANGED <<done, Signed, costly, pivots>>
  <1>1. PICK g, d : g = task[h].gate /\ d = task[h].decision OBVIOUS
  <1>2. /\ Turn(task[h]) /\ task[h].pc = "commit" /\ gates \in Seq(GateRows)
        /\ Sound(task[h], Len(gates), checkpoint, published)
        /\ checkpoint \in Copies /\ checkpoint # NoRun
    BY SerialRecord DEF commit_decision
  <1>3. /\ g \in Pending /\ gates[g].kind \in GatesActedOn(checkpoint) /\ d \in Decisions
        /\ gates' = [gates EXCEPT ![g].state = d] /\ checkpoint' = checkpoint
    BY <1>1, <1>2 DEF Turn, ActsOn, Sound, Pending, commit_decision
  <1>4. UNCHANGED <<done, costly, pivots>> BY <1>3 DEF done, costly, pivots
  <1>5. CASE d # "approved"
    <2>1. Signed' = Signed BY <1>2, <1>3, <1>5, RowDecided
    <2> QED BY <1>4, <2>1
  <1>6. CASE d = "approved"
    <2>0. PICK k : k = gates[g].kind OBVIOUS
    <2>1. Signed' = Signed \cup {k} BY <1>2, <1>3, <1>6, <2>0, RowDecided
    <2>2. k \in GatesActedOn(checkpoint) BY <1>3, <2>0
    <2>3. checkpoint \in Checkpoint /\ Positioned(checkpoint) BY <1>2 DEF Copies
    <2>4. /\ k = "architecture_gate" => 2 \in done
          /\ k = "infra_spend_gate" => costly
          /\ k = "launch_gate" => 6 \in done
      <3>1. k = next_of(checkpoint) \/ k = checkpoint.last BY <2>2 DEF GatesActedOn
      <3>2. CASE k = checkpoint.last
        BY <1>2, <2>3, <3>2 DEF Positioned, done, costly, Pillars, After2, After6
      <3>3. CASE k = next_of(checkpoint)
        <4>1. k \in GateNodes /\ k \in Nodes BY <2>2 DEF GatesActedOn, Nodes
        <4>2. /\ k = "architecture_gate" => checkpoint.last \in After2
              /\ k = "infra_spend_gate" => checkpoint.values.output[5] = "costly"
              /\ k = "launch_gate" => checkpoint.last \in After6
          BY <2>3, <3>3, <4>1, Edges DEF After2, After6
        <4> QED BY <1>2, <2>3, <4>2 DEF Positioned, done, costly, Pillars
      <3> QED BY <3>1, <3>2, <3>3
    <2>5. k \in Promise!Gates BY <2>2 DEF GatesActedOn, GateNodes, Promise!Gates
    <2>6. Promise!Sign(k)
      BY <1>4, <2>1, <2>4
      DEF Promise!Sign, Promise!MaySign, done, costly, pivots, Signed
    <2> QED BY <2>5, <2>6 DEF Promise!Next
  <1> QED BY <1>5, <1>6

\* The other writes leave the promise's state as it is.
LEMMA OthersRefine ==
    ASSUME IInv, IInv', NEW h \in Handlers, SerialAt(h), status # "deleted",
           Handle(h), ~superstep(h), ~commit_decision(h)
    PROVE  UNCHANGED <<done, Signed, costly, pivots>>
  <1>1. CASE start_graph(h)
    <2>1. checkpoint = NoRun /\ gates' = gates
      BY <1>1, SerialRecord DEF start_graph, Turn, rows
    <2>2. /\ checkpoint' = [last |-> "START", values |-> make_initial_state(published)]
          /\ checkpoint' # NoRun
      <3>1. published \in Ideas BY <1>1, Record DEF start_graph, Sound, IInv, SharedOK
      <3> QED BY <1>1, <3>1, StartIsCopy, Record DEF start_graph
    <2>3. /\ \A p \in Pillars : checkpoint'.values.output[p] = "none"
          /\ checkpoint'.values.output[5] = "none"
          /\ checkpoint'.values.retry_count = 0
      BY <2>2 DEF make_initial_state, Pillars
    <2> QED BY <2>1, <2>2, <2>3 DEF done, Signed, costly, pivots
  <1>2. CASE activate_write(h) \/ resume_write(h)
    <2>1. /\ task[h].memory = checkpoint /\ checkpoint \in Checkpoint
          /\ checkpoint # NoRun /\ gates' = gates
          /\ task[h].row \in Nat /\ task[h].pivot_text \in Ideas \cup {NoPivot}
          /\ task[h].pc = "inject" => task[h].decision \in Decisions
      BY <1>2, SerialRecord DEF activate_write, resume_write, Turn, rows, Sound, Tasks
    <2>2. /\ checkpoint'.values.output = checkpoint.values.output
          /\ checkpoint'.values.retry_count = checkpoint.values.retry_count
          /\ checkpoint' \in Checkpoint
      <3>1. CASE activate_write(h)
        <4>1. checkpoint' = [checkpoint EXCEPT !.values.active_gate_id = task[h].row]
          BY <2>1, <3>1 DEF activate_write
        <4> QED BY <2>1, <4>1, ActivateEffects
      <3>2. CASE resume_write(h)
        <4>1. /\ checkpoint' = inject(checkpoint, task[h].decision, task[h].pivot_text)
              /\ task[h].decision \in Decisions
          BY <2>1, <3>2 DEF resume_write
        <4> QED BY <2>1, <4>1, InjectType
      <3> QED BY <1>2, <3>1, <3>2
    <2>3. checkpoint' # NoRun BY <2>2, OrchestratorAssumption
    <2> QED BY <2>1, <2>2, <2>3 DEF done, Signed, costly, pivots
  <1>3. CASE insert_gate(h)
    <2> DEFINE r == [kind |-> next_of(task[h].snapshot), state |-> "pending"]
    <2>1. gates' = Append(gates, r) /\ checkpoint' = checkpoint
      BY <1>3 DEF insert_gate
    <2>2. r \in GateRows /\ gates \in Seq(GateRows) /\ r.state = "pending"
      BY <1>3, SerialRecord DEF insert_gate, Sound, interrupt_before, GateRows, Decisions
    <2> HIDE DEF r
    <2>3. Signed' = Signed BY <2>1, <2>2, RowAddedPending
    <2> QED BY <2>1, <2>3 DEF done, costly, pivots
  <1>4. CASE expire(h)
    <2>1. PICK g \in task[h].expired : gates' = [gates EXCEPT ![g].state = "timed_out"]
                                       /\ gates[g].state # "deleted"
      BY <1>4 DEF expire
    <2>2. g \in Pending /\ gates \in Seq(GateRows)
      BY <1>4, <2>1, SerialRecord DEF expire, Turn, ActsOn, Pending
    <2>3. Signed' = Signed BY <2>1, <2>2, RowDecided DEF Decisions
    <2> QED BY <1>4, <2>3 DEF expire, done, costly, pivots
  <1>5. CASE gates' = gates /\ checkpoint' = checkpoint
    BY <1>5 DEF done, Signed, costly, pivots
  <1> QED
    BY <1>1, <1>2, <1>3, <1>4, <1>5
    DEF Handle, aget_state, select_gate, activate_read, emit_gate_required,
        sync_status_from_graph, update_run_status, stale_row, resume_read, resume_invoke, rows

\* As long as no two calls have met and the run was not cancelled, the backend keeps the
\* promise of the pipeline, and the gates table is the record of it: no pillar behind a gate
\* has an output unless a row of that gate was approved, whatever fails or crashes on the way.
THEOREM OrchestratorKeepsPromise == Spec => KeepsPromise
  <1>1. Init => Promise!Init
    BY DEF Init, Promise!Init
  <1>2. IInv /\ IInv' /\ Undisturbed /\ [Next]_vars =>
          [~disturbed' /\ status' # "deleted" => [Promise!Next]_(Promise!pipelineVars)]_vars
    <2> SUFFICES ASSUME IInv, IInv', Undisturbed, Next, ~disturbed', status' # "deleted"
                 PROVE  Promise!Next \/ UNCHANGED <<done, Signed, costly, pivots>>
      BY DEF Promise!pipelineVars, done, Signed, costly, pivots
    <2>1. ~Disturbing /\ ~Disturbing' /\ SerialInv /\ Act BY UndisturbedStep DEF Next
    <2>2. status # "deleted" BY <2>1, DeletedStays
    <2>3. ASSUME NEW h \in Handlers, Handle(h)
          PROVE  Promise!Next \/ UNCHANGED <<done, Signed, costly, pivots>>
      <3>1. SerialAt(h) BY <2>1, <2>3, StepsAlone DEF SerialInv, SerialAt
      <3> QED BY <2>2, <2>3, <3>1, SuperStepRefines, CommitRefines, OthersRefine
    <2>4. CASE gates' = gates /\ checkpoint' = checkpoint
      BY <2>4 DEF done, Signed, costly, pivots
    <2>5. ~cancel_run BY DEF cancel_run
    <2> QED
      BY <2>1, <2>3, <2>4, <2>5
      DEF Act, submit_idea, publish_run_created, crash, Arrive, receive_run_created,
          decide_gate, check_gate_timeouts, finish_step, fail, rows
  <1> QED
    BY <1>1, <1>2, Invariance, UndisturbedInvariance, PTL DEF Spec, KeepsPromise

=============
