---------------------------- MODULE PillarWorker ----------------------------
(***************************************************************************)
(* orchestrator/worker.py: one task message of a pillar queue and the      *)
(* polling loops that may receive it.  A loop dispatches the task to an    *)
(* agent, records the agent's events, resumes the run with "approved" and  *)
(* deletes the message; when any of it raises, it backs off, or gives the  *)
(* task up on the last attempt.                                            *)
(*                                                                         *)
(* With an SQS client the message is leased: it shows up again when its    *)
(* visibility timeout ends, also under a loop that is still at work, and   *)
(* the queue moves it to its dead-letter queue after MaxReceives receives. *)
(* Without a client it lives in the memory of the process.                 *)
(***************************************************************************)
EXTENDS Naturals

CONSTANTS
    Loops,        \* the polling loops of the pillar, one for each process
    MaxAttempts,  \* max_attempts of _handle_failure
    MaxReceives   \* maxReceiveCount of the queue's redrive policy

ASSUME WorkerAssumption ==
    /\ MaxAttempts \in Nat \ {0}
    /\ MaxReceives \in Nat \ {0}

VARIABLES
    client,      \* is there an SQS client, or only the mock queue?
    message,     \* where the task message is
    receives,    \* how often it was received: 1 + retry_count on the mock queue
    loop,        \* for each loop its next call and the attempt it is at
    recorded,    \* the attempts whose step_events are committed
    approved,    \* the attempts that resumed the run with "approved"
    run_status,  \* runs.status, "advanced" when a resume has written it
    announced    \* did agent.failed go out?

vars == <<client, message, receives, loop, recorded, approved, run_status, announced>>

Idle == [pc |-> "idle", attempt |-> 0]

\* The last calls of a loop that gives a task up.
GivingUp == {"drop", "fail_run", "announce"}

TypeOK ==
    /\ client \in BOOLEAN
    /\ message \in {"waiting", "in_flight", "gone", "dead_letter", "lost"}
    /\ receives \in Nat
    /\ loop \in [Loops -> [pc : {"idle", "process", "resume", "delete", "failed"} \cup GivingUp,
                           attempt : Nat]]
    /\ recorded \subseteq 1..receives
    /\ approved \subseteq 1..receives
    /\ run_status \in {"running", "advanced", "failed"}
    /\ announced \in BOOLEAN

Init ==
    /\ client \in BOOLEAN
    /\ message = "waiting"
    /\ receives = 0
    /\ loop = [w \in Loops |-> Idle]
    /\ recorded = {}
    /\ approved = {}
    /\ run_status = "running"
    /\ announced = FALSE

Goto(w, pc) == loop' = [loop EXCEPT ![w].pc = pc]

-----------------------------------------------------------------------------
(* The queue *)

\* receive_message, or get on the mock queue.
receive(w) ==
    /\ loop[w].pc = "idle"
    /\ message = "waiting"
    /\ client => receives < MaxReceives
    /\ message' = "in_flight"
    /\ receives' = receives + 1
    /\ loop' = [loop EXCEPT ![w] = [pc |-> "process", attempt |-> receives']]
    /\ UNCHANGED <<client, recorded, approved, run_status, announced>>

\* The message was not deleted in time; nothing renews the lease while a task runs.
visibility_timeout ==
    /\ client
    /\ message = "in_flight"
    /\ message' = "waiting"
    /\ UNCHANGED <<client, receives, loop, recorded, approved, run_status, announced>>

redrive ==
    /\ client
    /\ message = "waiting"
    /\ receives >= MaxReceives
    /\ message' = "dead_letter"
    /\ UNCHANGED <<client, receives, loop, recorded, approved, run_status, announced>>

\* delete_message succeeds also with the receipt handle of a lease that has ended, and
\* may then have no effect; a dead letter is out of its reach.  The mock queue gave
\* the message away when it was got.
Deletes(w) ==
    \/ message' = "gone" /\ message # "dead_letter"
    \/ /\ message # "in_flight" \/ loop[w].attempt # receives
       /\ UNCHANGED message

-----------------------------------------------------------------------------
(* _process_task *)

\* Mutant: the run is resumed before the events are committed.
record_events_later(w) ==
    /\ loop[w].pc = "process"
    /\ Goto(w, "resume")
    /\ UNCHANGED <<client, message, receives, recorded, approved, run_status, announced>>

\* The agent's event stream and the inserts, up to their one commit.
record_events(w) ==
    /\ loop[w].pc = "process"
    /\ \/ /\ recorded' = recorded \cup {loop[w].attempt}
          /\ Goto(w, "resume")
       \/ UNCHANGED recorded /\ Goto(w, "failed")
    /\ UNCHANGED <<client, message, receives, approved, run_status, announced>>

\* engine.resume may raise before the decision is in the graph, or after.
resume(w) ==
    /\ loop[w].pc = "resume"
    /\ \/ /\ approved' = approved \cup {loop[w].attempt}
          /\ run_status' = "advanced"
          /\ Goto(w, "delete")
       \/ /\ approved' \in {approved, approved \cup {loop[w].attempt}}
          /\ UNCHANGED run_status
          /\ Goto(w, "failed")
    /\ UNCHANGED <<client, message, receives, recorded, announced>>

\* An exception of delete_message counts as a failure of the task.
delete(w) ==
    /\ loop[w].pc = "delete"
    /\ \/ /\ Deletes(w)
          /\ loop' = [loop EXCEPT ![w] = Idle]
       \/ client /\ Goto(w, "failed") /\ UNCHANGED message
    /\ UNCHANGED <<client, receives, recorded, approved, run_status, announced>>

-----------------------------------------------------------------------------
(* _handle_failure; retries is attempt - 1 *)

\* Mutants: the mock queue does not get its message back, or gets it back with its
\* old retry_count; one attempt is missing.
back_off_forgetting(w) ==
    /\ loop[w].pc = "failed"
    /\ loop[w].attempt < MaxAttempts
    /\ loop' = [loop EXCEPT ![w] = Idle]
    /\ UNCHANGED <<client, message, receives, recorded, approved, run_status, announced>>

back_off_uncounted(w) ==
    /\ loop[w].pc = "failed"
    /\ loop[w].attempt < MaxAttempts
    /\ message' = IF client THEN message ELSE "waiting"
    /\ receives' = IF client THEN receives ELSE receives - 1
    /\ loop' = [loop EXCEPT ![w] = Idle]
    /\ UNCHANGED <<client, recorded, approved, run_status, announced>>

give_up_early(w) ==
    /\ loop[w].pc = "failed"
    /\ loop[w].attempt + 1 >= MaxAttempts
    /\ Goto(w, IF client THEN "drop" ELSE "fail_run")
    /\ message' = IF client THEN message ELSE "gone"
    /\ UNCHANGED <<client, receives, recorded, approved, run_status, announced>>

\* Another visibility timeout for the lease, or a delayed put on the mock queue.
back_off(w) ==
    /\ loop[w].pc = "failed"
    /\ loop[w].attempt < MaxAttempts
    /\ message' = IF client THEN message ELSE "waiting"
    /\ loop' = [loop EXCEPT ![w] = Idle]
    /\ UNCHANGED <<client, receives, recorded, approved, run_status, announced>>

give_up(w) ==
    /\ loop[w].pc = "failed"
    /\ loop[w].attempt >= MaxAttempts
    /\ Goto(w, IF client THEN "drop" ELSE "fail_run")
    /\ message' = IF client THEN message ELSE "gone"
    /\ UNCHANGED <<client, receives, recorded, approved, run_status, announced>>

\* Each of the three calls may raise; that is logged, and the next one follows.
drop(w) ==
    /\ loop[w].pc = "drop"
    /\ Deletes(w) \/ UNCHANGED message
    /\ Goto(w, "fail_run")
    /\ UNCHANGED <<client, receives, recorded, approved, run_status, announced>>

fail_run(w) ==
    /\ loop[w].pc = "fail_run"
    /\ run_status' \in {run_status, "failed"}
    /\ Goto(w, "announce")
    /\ UNCHANGED <<client, message, receives, recorded, approved, announced>>

announce(w) ==
    /\ loop[w].pc = "announce"
    /\ announced' \in {announced, TRUE}
    /\ loop' = [loop EXCEPT ![w] = Idle]
    /\ UNCHANGED <<client, message, receives, recorded, approved, run_status>>

-----------------------------------------------------------------------------

\* The process dies or is shut down: the lease ends by itself, the mock queue is lost.
crash(w) ==
    /\ loop[w].pc # "idle" \/ (~client /\ message = "waiting")
    /\ message' = IF client \/ message = "gone" THEN message ELSE "lost"
    /\ loop' = [loop EXCEPT ![w] = Idle]
    /\ UNCHANGED <<client, receives, recorded, approved, run_status, announced>>

Work(w) ==
    \/ receive(w) \/ record_events(w) \/ resume(w) \/ delete(w)
    \/ back_off(w) \/ give_up(w) \/ drop(w) \/ fail_run(w) \/ announce(w)

Next ==
    \/ visibility_timeout \/ redrive
    \/ \E w \in Loops : Work(w) \/ crash(w)

Spec == Init /\ [][Next]_vars

\* The loops poll and work on; leases end and the queue redrives.
FairSpec ==
    /\ Spec
    /\ WF_vars(\E w \in Loops : Work(w))
    /\ WF_vars(visibility_timeout)
    /\ WF_vars(redrive)

-----------------------------------------------------------------------------
(* Properties *)

\* A task is given up -- its message dropped with nothing done, its run failed, its
\* failure announced -- only when MaxAttempts attempts were made, whatever loops
\* crash, overlap on an expired lease or delete with an old receipt handle
\* (_handle_failure, _poll_aws).
GivenUpAfterLastAttempt ==
    (message = "gone" /\ approved = {}) \/ run_status = "failed" \/ announced
      => receives >= MaxAttempts

\* Every approval given in the name of a task follows the commit of the events of
\* that same attempt: a run never advances on a step that left no record, even when
\* the attempts of two loops overlap (_process_task).
ApprovalsAreRecorded == approved \subseteq recorded

\* Every task comes to an end, however often loops crash or calls raise: it is
\* deleted, or in the dead-letter queue, or lost with the process that kept the
\* mock queue in memory.
TaskSettles == <>[](message \in {"gone", "dead_letter", "lost"})

=============================================================================
