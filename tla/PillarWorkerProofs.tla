------------------------- MODULE PillarWorkerProofs -------------------------
(***************************************************************************)
(* The safety of PillarWorker for any number of polling loops, any limit   *)
(* of attempts and any redrive policy.                                     *)
(***************************************************************************)
EXTENDS PillarWorker, TLAPS

(***************************************************************************)
(* A loop's place in its program tells what its attempt has left behind:   *)
(* that is what makes the order commit, resume, delete matter.             *)
(***************************************************************************)
AttemptOf(w) ==
    /\ loop[w].pc # "idle" => loop[w].attempt \in 1..receives
    /\ loop[w].pc = "resume" => loop[w].attempt \in recorded
    /\ loop[w].pc = "delete" => loop[w].attempt \in approved
    /\ loop[w].pc \in GivingUp => loop[w].attempt >= MaxAttempts

IInv ==
    /\ TypeOK
    /\ \A w \in Loops : AttemptOf(w)
    /\ ApprovalsAreRecorded
    /\ GivenUpAfterLastAttempt

-----------------------------------------------------------------------------
(* The invariant holds at first and is kept *)

\* The initial state satisfies the invariant: nothing was attempted yet.
LEMMA InitialState == Init => IInv
  <1> SUFFICES ASSUME Init PROVE IInv OBVIOUS
  <1>1. TypeOK BY DEF Init, TypeOK, Idle
  <1>2. \A w \in Loops : AttemptOf(w) BY DEF Init, AttemptOf, Idle, GivingUp
  <1>3. ApprovalsAreRecorded /\ GivenUpAfterLastAttempt
    BY DEF Init, ApprovalsAreRecorded, GivenUpAfterLastAttempt
  <1> QED BY <1>1, <1>2, <1>3 DEF IInv

\* A loop that does not move keeps its place: attempts, records and approvals only grow.
LEMMA OthersKeepTheirPlace ==
    ASSUME TypeOK, NEW u \in Loops, AttemptOf(u),
           loop'[u] = loop[u], receives' \in Nat, receives <= receives',
           recorded \subseteq recorded', approved \subseteq approved'
    PROVE  AttemptOf(u)'
  BY DEF TypeOK, AttemptOf

\* Goto changes the place and keeps the attempt.
LEMMA GotoMeans ==
    ASSUME TypeOK, NEW w \in Loops, NEW pc, Goto(w, pc)
    PROVE  loop' = [loop EXCEPT ![w] = [pc |-> pc, attempt |-> loop[w].attempt]]
  <1>1. [loop[w] EXCEPT !.pc = pc] = [pc |-> pc, attempt |-> loop[w].attempt]
    BY DEF TypeOK
  <1>2. loop' = [loop EXCEPT ![w] = [loop[w] EXCEPT !.pc = pc]] BY DEF Goto
  <1> QED BY <1>1, <1>2

\* A step of the queue: neither the loops nor the run are touched.
LEMMA QueueStep ==
    ASSUME IInv, visibility_timeout \/ redrive
    PROVE  IInv'
  <1> USE DEF visibility_timeout, redrive
  <1>1. TypeOK' BY DEF IInv, TypeOK
  <1>2. \A w \in Loops : AttemptOf(w)' BY DEF IInv, AttemptOf
  <1>3. ApprovalsAreRecorded' BY DEF IInv, ApprovalsAreRecorded
  <1>4. GivenUpAfterLastAttempt' BY DEF IInv, GivenUpAfterLastAttempt
  <1> QED BY <1>1, <1>2, <1>3, <1>4 DEF IInv

\* A receive starts an attempt of its own; it is the only step that counts one.
LEMMA ReceiveStep ==
    ASSUME IInv, NEW w \in Loops, receive(w)
    PROVE  IInv'
  <1> USE DEF receive
  <1>1. receives \in Nat /\ receives' = receives + 1 /\ receives' \in 1..receives'
    BY DEF IInv, TypeOK
  <1>2. 1..receives \subseteq 1..receives' BY <1>1
  <1>3. TypeOK' BY <1>1, <1>2 DEF IInv, TypeOK
  <1>4. AttemptOf(w)' BY <1>1 DEF IInv, TypeOK, AttemptOf, GivingUp
  <1>5. ASSUME NEW u \in Loops, u # w PROVE AttemptOf(u)'
    <2>1. loop'[u] = loop[u] BY <1>5 DEF IInv, TypeOK
    <2> QED BY <1>1, <2>1, OthersKeepTheirPlace DEF IInv
  <1>6. ApprovalsAreRecorded' BY DEF IInv, ApprovalsAreRecorded
  <1>7. GivenUpAfterLastAttempt'
    BY <1>1, WorkerAssumption DEF IInv, GivenUpAfterLastAttempt
  <1> QED BY <1>3, <1>4, <1>5, <1>6, <1>7 DEF IInv

\* The two steps that add to the record of an attempt.
LEMMA ProcessStep ==
    ASSUME IInv, NEW w \in Loops, record_events(w) \/ resume(w)
    PROVE  IInv'
  <1> USE DEF record_events, resume, Goto
  <1>1. loop[w].attempt \in 1..receives BY DEF IInv, AttemptOf
  <1>2. TypeOK' BY <1>1 DEF IInv, TypeOK
  <1>3. AttemptOf(w)' BY <1>1 DEF IInv, TypeOK, AttemptOf, GivingUp
  <1>4. ASSUME NEW u \in Loops, u # w PROVE AttemptOf(u)'
    <2>1. loop'[u] = loop[u] BY <1>4 DEF IInv, TypeOK
    <2>2. receives' \in Nat /\ receives <= receives' BY DEF IInv, TypeOK
    <2> QED BY <2>1, <2>2, OthersKeepTheirPlace DEF IInv
  <1>5. ApprovalsAreRecorded' BY DEF IInv, AttemptOf, ApprovalsAreRecorded
  <1>6. GivenUpAfterLastAttempt' BY DEF IInv, GivenUpAfterLastAttempt
  <1> QED BY <1>2, <1>3, <1>4, <1>5, <1>6 DEF IInv

\* A deletion after the approval.
LEMMA DeleteStep ==
    ASSUME IInv, NEW w \in Loops, delete(w)
    PROVE  IInv'
  <1> USE DEF delete, Deletes, Goto, Idle
  <1>1. approved # {} BY DEF IInv, AttemptOf
  <1>2. TypeOK' BY DEF IInv, TypeOK
  <1>3. AttemptOf(w)' BY DEF IInv, TypeOK, AttemptOf, GivingUp
  <1>4. ASSUME NEW u \in Loops, u # w PROVE AttemptOf(u)'
    <2>1. loop'[u] = loop[u] BY <1>4 DEF IInv, TypeOK
    <2>2. receives' \in Nat /\ receives <= receives' BY DEF IInv, TypeOK
    <2> QED BY <2>1, <2>2, OthersKeepTheirPlace DEF IInv
  <1>5. ApprovalsAreRecorded' BY DEF IInv, ApprovalsAreRecorded
  <1>6. GivenUpAfterLastAttempt' BY <1>1 DEF IInv, GivenUpAfterLastAttempt
  <1> QED BY <1>2, <1>3, <1>4, <1>5, <1>6 DEF IInv

\* The steps of _handle_failure, and a crash: no attempt is counted or recorded.
LEMMA FailureStep ==
    ASSUME IInv, NEW w \in Loops,
           \/ back_off(w) \/ give_up(w) \/ drop(w) \/ fail_run(w) \/ announce(w)
           \/ crash(w)
    PROVE  IInv'
  <1> USE DEF back_off, give_up, drop, fail_run, announce, crash
  <1>1. UNCHANGED <<client, receives, recorded, approved>> OBVIOUS
  <1>2. PICK r \in [pc : {"idle", "drop", "fail_run", "announce"}, attempt : Nat] :
           /\ loop' = [loop EXCEPT ![w] = r]
           /\ r.pc # "idle" => r.attempt = loop[w].attempt /\ r.attempt >= MaxAttempts
                               /\ r.attempt \in 1..receives
    <2>1. CASE back_off(w) \/ announce(w) \/ crash(w)
      <3>1. loop' = [loop EXCEPT ![w] = Idle] BY <2>1
      <3>2. Idle \in [pc : {"idle", "drop", "fail_run", "announce"}, attempt : Nat]
            /\ Idle.pc = "idle"
        BY DEF Idle
      <3> QED BY <3>1, <3>2
    <2>2. CASE give_up(w) \/ drop(w) \/ fail_run(w)
      <3> DEFINE q(pc) == [pc |-> pc, attempt |-> loop[w].attempt]
      <3>1. loop[w].attempt >= MaxAttempts /\ loop[w].attempt \in 1..receives
        BY <2>2 DEF IInv, AttemptOf, GivingUp
      <3>2. PICK pc \in {"drop", "fail_run", "announce"} : Goto(w, pc) BY <2>2
      <3>3. loop' = [loop EXCEPT ![w] = q(pc)]
        <4>1. TypeOK BY DEF IInv
        <4> QED BY <3>2, <4>1, GotoMeans
      <3>4. /\ q(pc) \in [pc : {"idle", "drop", "fail_run", "announce"}, attempt : Nat]
            /\ q(pc).attempt = loop[w].attempt
        BY <3>1
      <3> HIDE DEF q
      <3> QED BY <3>1, <3>3, <3>4
    <2> QED BY <2>1, <2>2
  <1>3. receives >= MaxAttempts \/ back_off(w) \/ crash(w)
    <2>1. CASE give_up(w) \/ drop(w) \/ fail_run(w) \/ announce(w)
      <3>1. loop[w].attempt >= MaxAttempts /\ loop[w].attempt \in 1..receives
        BY <2>1 DEF IInv, AttemptOf, GivingUp
      <3>2. receives \in Nat BY DEF IInv, TypeOK
      <3> QED BY <3>1, <3>2, WorkerAssumption
    <2> QED BY <2>1
  <1>4. /\ message' \in {"waiting", "in_flight", "gone", "dead_letter", "lost"}
        /\ run_status' \in {"running", "advanced", "failed"} /\ announced' \in BOOLEAN
    BY DEF IInv, TypeOK, Deletes
  <1>5. TypeOK' BY <1>1, <1>2, <1>4 DEF IInv, TypeOK, GivingUp
  <1>6. AttemptOf(w)' BY <1>1, <1>2 DEF IInv, TypeOK, AttemptOf, GivingUp
  <1>7. ASSUME NEW u \in Loops, u # w PROVE AttemptOf(u)'
    <2>1. loop'[u] = loop[u] BY <1>2, <1>7 DEF IInv, TypeOK
    <2>2. receives' \in Nat /\ receives <= receives' BY <1>1 DEF IInv, TypeOK
    <2> QED BY <1>1, <2>1, <2>2, OthersKeepTheirPlace DEF IInv
  <1>8. ApprovalsAreRecorded' BY <1>1 DEF IInv, ApprovalsAreRecorded
  <1>9. GivenUpAfterLastAttempt'
    <2>1. CASE receives >= MaxAttempts BY <1>1, <2>1 DEF GivenUpAfterLastAttempt
    <2>2. CASE back_off(w) \/ crash(w)
      BY <1>1, <2>2 DEF IInv, GivenUpAfterLastAttempt
    <2> QED BY <1>3, <2>1, <2>2
  <1> QED BY <1>5, <1>6, <1>7, <1>8, <1>9 DEF IInv

\* The invariant is inductive.
LEMMA StepPreserves == IInv /\ [Next]_vars => IInv'
  <1> SUFFICES ASSUME IInv, [Next]_vars PROVE IInv' OBVIOUS
  <1>1. CASE visibility_timeout \/ redrive BY <1>1, QueueStep
  <1>2. ASSUME NEW w \in Loops, Work(w) \/ crash(w) PROVE IInv'
    BY <1>2, ReceiveStep, ProcessStep, DeleteStep, FailureStep DEF Work
  <1>3. CASE UNCHANGED vars
    BY <1>3 DEF vars, IInv, TypeOK, AttemptOf, ApprovalsAreRecorded, GivenUpAfterLastAttempt
  <1> QED BY <1>1, <1>2, <1>3 DEF Next

LEMMA Invariance == Spec => []IInv
  <1>1. Init => IInv BY InitialState
  <1>2. IInv /\ [Next]_vars => IInv' BY StepPreserves
  <1> QED BY <1>1, <1>2, PTL DEF Spec

-----------------------------------------------------------------------------
(* Theorems *)

\* The types of the worker's state, for any number of loops and attempts.
THEOREM TypeCorrect == Spec => []TypeOK
  <1>1. IInv => TypeOK BY DEF IInv
  <1> QED BY <1>1, Invariance, PTL

\* No task is given up before its last attempt, however many loops overlap on expired
\* leases and whatever the redrive policy is (_handle_failure, _poll_aws).
THEOREM TasksAreNotGivenUpEarly == Spec => []GivenUpAfterLastAttempt
  <1>1. IInv => GivenUpAfterLastAttempt BY DEF IInv
  <1> QED BY <1>1, Invariance, PTL

\* Every attempt that approves has its events on record (_process_task).
THEOREM EveryApprovalIsRecorded == Spec => []ApprovalsAreRecorded
  <1>1. IInv => ApprovalsAreRecorded BY DEF IInv
  <1> QED BY <1>1, Invariance, PTL

=============================================================================
