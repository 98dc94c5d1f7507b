------------------------- MODULE BootHandoffProofs -------------------------
(***************************************************************************)
(* Proofs about BootHandoff for any number of reconciliations, power calls,*)
(* reboots and faults.                                                     *)
(***************************************************************************)
EXTENDS BootHandoff, TLAPS

USE BoundsAssumption DEF Handoffs, Powers

\* A fresh session satisfies the invariant.
LEMMA InitHandoffInv == Init => HandoffInv
  <1> SUFFICES ASSUME Init PROVE HandoffInv
    OBVIOUS
  <1> USE DEF Init, NoAttempt
  <1>1. TypeOK
    <2>1. current \in BindingAttempt
      BY DEF BindingAttempt
    <2>2. queue \in Seq(Command)
      OBVIOUS
    <2>3. hpc \in [Handoffs -> HandoffPhase] /\ phase \in SerialRuntimePhase
      BY DEF HandoffPhase, SerialRuntimePhase
    <2>4. aborted \in SUBSET Handoffs /\ posts \in SUBSET Handoffs /\ lock \in Handoffs \cup {0}
      OBVIOUS
    <2>5. revokes \in SUBSET [boot : Nat, binding : Nat] /\ proven \in SUBSET [boot : Nat, binding : Nat]
      OBVIOUS
    <2>6. ppc \in [Powers -> {"idle", "bumped", "sent", "act", "done"}] /\ pon \in [Powers -> BOOLEAN]
      OBVIOUS
    <2> QED
      BY <2>1, <2>2, <2>3, <2>4, <2>5, <2>6 DEF TypeOK, DeviceTypes, SessionTypes, HandoffTypes, PowerTypes, StatusTypes, RuntimeTypes, BudgetTypes
  <1>2. AttemptIsConsistent /\ BindingsAreVerified /\ CallersAreKnown /\ KernelIsVerified
    BY DEF AttemptIsConsistent, BindingsAreVerified, CallersAreKnown, KernelIsVerified
  <1> QED
    BY <1>1, <1>2 DEF HandoffInv

\* What a task that ends changes.
LEMMA EndsEffect ==
  ASSUME TypeOK, NEW h \in Handoffs, Ends(h)
  PROVE  /\ hpc' \in [Handoffs -> HandoffPhase]
         /\ hpc'[h] = "done"
         /\ \A k \in Handoffs : k # h => hpc'[k] = hpc[k]
         /\ lock' \in Handoffs \cup {0}
         /\ revokes' \in SUBSET [boot : Nat, binding : Nat]
  <1> USE DEF TypeOK, DeviceTypes, SessionTypes, HandoffTypes, PowerTypes, StatusTypes, RuntimeTypes, BudgetTypes, Ends
  <1>1. "done" \in HandoffPhase
    BY DEF HandoffPhase
  <1>2. [boot |-> hboot[h], binding |-> hbinding[h]] \in [boot : Nat, binding : Nat]
    OBVIOUS
  <1> QED
    BY <1>1, <1>2

\* Publish keeps the types of the status.
LEMMA PublishEffect ==
  ASSUME TypeOK, NEW p \in SerialRuntimePhase, NEW e \in Nat, NEW b \in Nat, Publish(p, e, b)
  PROVE  phase' \in SerialRuntimePhase /\ status_boot' \in Nat /\ status_binding' \in Nat
  BY DEF TypeOK, DeviceTypes, SessionTypes, HandoffTypes, PowerTypes, StatusTypes, RuntimeTypes, BudgetTypes, Publish, statusVars

\* A command goes to the end of the queue.
LEMMA AppendEffect ==
  ASSUME TypeOK, NEW c \in Command, queue' = Append(queue, c)
  PROVE  /\ queue' \in Seq(Command)
         /\ Len(queue') = Len(queue) + 1
         /\ \A i \in 1..Len(queue) : queue'[i] = queue[i]
         /\ queue'[Len(queue) + 1] = c
  BY DEF TypeOK, DeviceTypes, SessionTypes, HandoffTypes, PowerTypes, StatusTypes, RuntimeTypes, BudgetTypes

\* The command served is a command, and the others keep their order.
LEMMA ServingEffect ==
  ASSUME TypeOK, NEW kind, Serving(kind)
  PROVE  /\ Head(queue) \in Command /\ Head(queue).kind = kind /\ Head(queue) = queue[1]
         /\ 1 \in 1..Len(queue)
         /\ Tail(queue) \in Seq(Command)
         /\ Len(Tail(queue)) = Len(queue) - 1
         /\ \A i \in 1..Len(Tail(queue)) : Tail(queue)[i] = queue[i + 1]
  BY DEF TypeOK, DeviceTypes, SessionTypes, HandoffTypes, PowerTypes, StatusTypes, RuntimeTypes, BudgetTypes, Serving

\* What the answer to a bind changes.
LEMMA AnswerBindingEffect ==
  ASSUME TypeOK, NEW h \in Handoffs, NEW id \in Nat, AnswerBinding(h, id)
  PROVE  /\ hpc' \in [Handoffs -> HandoffPhase]
         /\ hbinding' \in [Handoffs -> Nat]
         /\ lock' = lock /\ revokes' = revokes
         /\ \A k \in Handoffs : hpc'[k] = "idle" <=> hpc[k] = "idle"
         /\ \A k \in Handoffs : hbinding'[k] = hbinding[k] \/ (k = h /\ hbinding'[k] = id /\ hpc[k] # "idle")
  <1>1. "bound" \in HandoffPhase
    BY DEF HandoffPhase
  <1> QED
    BY <1>1 DEF TypeOK, DeviceTypes, SessionTypes, HandoffTypes, PowerTypes, StatusTypes, RuntimeTypes, BudgetTypes, AnswerBinding

\* What an error as the answer changes.
LEMMA AnswerErrorEffect ==
  ASSUME TypeOK, NEW h \in Nat, h = 0 \/ h \in Handoffs, NEW w \in HandoffPhase, w # "idle", AnswerError(h, w)
  PROVE  /\ hpc' \in [Handoffs -> HandoffPhase]
         /\ \A k \in Handoffs : hpc'[k] = "idle" <=> hpc[k] = "idle"
         /\ lock' \in Handoffs \cup {0}
         /\ revokes' \in SUBSET [boot : Nat, binding : Nat]
  <1>1. CASE h # 0 /\ hpc[h] = w
    BY <1>1, EndsEffect DEF AnswerError
  <1>2. CASE ~(h # 0 /\ hpc[h] = w)
    BY <1>2 DEF AnswerError, TypeOK, DeviceTypes, SessionTypes, HandoffTypes, PowerTypes, StatusTypes, RuntimeTypes, BudgetTypes
  <1> QED
    BY <1>1, <1>2

\* The parts of the invariant beside the types.
Rest == AttemptIsConsistent /\ BindingsAreVerified /\ CallersAreKnown /\ KernelIsVerified

\* A step that leaves the runtime, the boots and the bindings alone, and starts no task, keeps it.
LEMMA QuietStepKeepsRest ==
  ASSUME HandoffInv, TypeOK',
         UNCHANGED <<powered, boot, grant, kernel, hboot, hbinding, lease, opening, current, verifying, proven>>,
         \A h \in Handoffs : hpc'[h] = "idle" <=> hpc[h] = "idle",
         \A i \in 1..Len(queue') : queue'[i].kind = "Bind" =>
            queue'[i].who \in Handoffs /\ hpc[queue'[i].who] # "idle"
  PROVE  Rest'
  <1> USE DEF HandoffInv
  <1>1. AttemptIsConsistent' /\ KernelIsVerified' /\ BindingsAreVerified'
    BY DEF AttemptIsConsistent, KernelIsVerified, BindingsAreVerified, Proof
  <1>2. CallersAreKnown'
    BY DEF CallersAreKnown
  <1> QED
    BY <1>1, <1>2 DEF Rest

\* The commands in the queue name tasks that have begun.
LEMMA QueueIsKnown ==
  ASSUME HandoffInv, NEW i \in 1..Len(queue), queue[i].kind = "Bind"
  PROVE  queue[i].who \in Handoffs /\ hpc[queue[i].who] # "idle"
  <1>1. queue[i] \in Command
    BY DEF HandoffInv, TypeOK, DeviceTypes, SessionTypes, HandoffTypes, PowerTypes, StatusTypes, RuntimeTypes, BudgetTypes
  <1>2. queue[i].who \in Handoffs
    BY <1>1 DEF Command
  <1> QED
    BY <1>2 DEF HandoffInv, CallersAreKnown

USE DEF deviceVars, sessionVars, taskVars, handoffVars, powerVars, statusVars, attemptVars, runtimeVars,
        budgetVars

\* Variables that do not change keep their types.
LEMMA TypesFrame ==
  ASSUME TypeOK
  PROVE  /\ UNCHANGED deviceVars => DeviceTypes'
         /\ UNCHANGED sessionVars => SessionTypes'
         /\ UNCHANGED handoffVars => HandoffTypes'
         /\ UNCHANGED powerVars => PowerTypes'
         /\ UNCHANGED statusVars => StatusTypes'
         /\ UNCHANGED <<running, queue, lease, opening, current, attempts, verifying, power_wait, retired, proven>>
              => RuntimeTypes'
         /\ UNCHANGED budgetVars => BudgetTypes'
  BY DEF TypeOK, DeviceTypes, SessionTypes, HandoffTypes, PowerTypes, StatusTypes, RuntimeTypes, BudgetTypes

\* The device, the client and the power calls keep the invariant.
LEMMA OutsideStepKeepsInv ==
  ASSUME HandoffInv,
         \/ DeviceReboots \/ StaleAnnouncement \/ StopRequested \/ ShutdownSignalled
         \/ \E m \in revokes : Revoked(m)
         \/ \E p \in Powers : Power(p)
  PROVE  HandoffInv'
  <1> USE DEF HandoffInv
  <1>0. \A i \in 1..Len(queue) : queue[i].kind = "Bind" => queue[i].who \in Handoffs /\ hpc[queue[i].who] # "idle"
    BY QueueIsKnown
  <1>1. CASE DeviceReboots
    <2>1. TypeOK'
      <3>1. DeviceTypes' /\ BudgetTypes'
        BY <1>1 DEF DeviceReboots, TypeOK, DeviceTypes, BudgetTypes
      <3> QED
        BY <3>1, <1>1, TypesFrame DEF TypeOK, DeviceReboots
    <2>2. AttemptIsConsistent' /\ BindingsAreVerified' /\ KernelIsVerified'
      BY <1>1 DEF DeviceReboots, AttemptIsConsistent, BindingsAreVerified, KernelIsVerified, Proof
    <2>3. CallersAreKnown'
      BY <1>1 DEF DeviceReboots, CallersAreKnown, TypeOK, DeviceTypes, SessionTypes, HandoffTypes, PowerTypes, StatusTypes, RuntimeTypes, BudgetTypes
    <2> QED
      BY <2>1, <2>2, <2>3
  <1>2. CASE StaleAnnouncement \/ StopRequested \/ ShutdownSignalled
    <2>1. TypeOK'
      <3>0. aborted' \in SUBSET Handoffs
        BY <1>2 DEF StaleAnnouncement, StopRequested, ShutdownSignalled, Unfinished, TypeOK, HandoffTypes
      <3>1. HandoffTypes'
        BY <1>2, <3>0 DEF StaleAnnouncement, StopRequested, ShutdownSignalled, TypeOK, HandoffTypes
      <3>2. SessionTypes'
        BY <1>2 DEF StaleAnnouncement, StopRequested, ShutdownSignalled, TypeOK, SessionTypes
      <3>3. BudgetTypes'
        BY <1>2 DEF StaleAnnouncement, StopRequested, ShutdownSignalled, Fault, TypeOK, BudgetTypes
      <3> QED
        BY <3>1, <3>2, <3>3, <1>2, TypesFrame DEF TypeOK, StaleAnnouncement, StopRequested, ShutdownSignalled, Fault, Unfinished
    <2>2. Rest'
      <3>1. UNCHANGED <<powered, boot, grant, kernel, hboot, hbinding, lease, opening, current, verifying,
                        proven, hpc, queue>>
        BY <1>2 DEF StaleAnnouncement, StopRequested, ShutdownSignalled
      <3> QED
        BY <3>1, <2>1, <1>0, QuietStepKeepsRest
    <2> QED
      BY <2>1, <2>2 DEF Rest
  <1>3. ASSUME NEW m \in revokes, Revoked(m) PROVE HandoffInv'
    <2>1. TypeOK'
      BY <1>3 DEF TypeOK, DeviceTypes, SessionTypes, HandoffTypes, PowerTypes, StatusTypes, RuntimeTypes, BudgetTypes, Revoked
    <2>2. AttemptIsConsistent' /\ BindingsAreVerified' /\ KernelIsVerified' /\ CallersAreKnown'
      BY <1>3 DEF Revoked, AttemptIsConsistent, BindingsAreVerified, KernelIsVerified, CallersAreKnown, Proof
    <2> QED
      BY <2>1, <2>2
  <1>4. ASSUME NEW p \in Powers, NEW on \in BOOLEAN, PowerBegins(p, on) PROVE HandoffInv'
    <2>1. TypeOK'
      <3>1. SessionTypes' /\ PowerTypes'
        BY <1>4 DEF PowerBegins, TypeOK, SessionTypes, PowerTypes
      <3> QED
        BY <3>1, <1>4, TypesFrame DEF TypeOK, PowerBegins
    <2>2. UNCHANGED <<powered, boot, grant, kernel, hboot, hbinding, lease, opening, current, verifying,
                      proven, hpc, queue>>
      BY <1>4 DEF PowerBegins
    <2> QED
      BY <2>1, <2>2, <1>0, QuietStepKeepsRest DEF Rest
  <1>5. ASSUME NEW p \in Powers, PowerRetires(p) PROVE HandoffInv'
    <2> DEFINE c == [kind |-> "Restart", who |-> p]
    <2>1. c \in Command
      BY DEF Command
    <2>2. /\ queue' = queue \/ queue' = Append(queue, c)
          /\ UNCHANGED <<powered, boot, grant, kernel, hboot, hbinding, lease, opening, current, verifying,
                         proven, hpc>>
      BY <1>5 DEF PowerRetires
    <2>3. queue' \in Seq(Command)
      BY <2>1, <2>2, AppendEffect DEF TypeOK, DeviceTypes, SessionTypes, HandoffTypes, PowerTypes, StatusTypes, RuntimeTypes, BudgetTypes
    <2>4. TypeOK'
      BY <1>5, <2>3 DEF TypeOK, DeviceTypes, SessionTypes, HandoffTypes, PowerTypes, StatusTypes, RuntimeTypes, BudgetTypes, PowerRetires
    <2>5. \A i \in 1..Len(queue') : queue'[i].kind = "Bind" => queue'[i].who \in Handoffs /\ hpc[queue'[i].who] # "idle"
      <3>1. CASE queue' = queue
        BY <3>1, <1>0
      <3>2. CASE queue' = Append(queue, c)
        <4>1. /\ Len(queue') = Len(queue) + 1
              /\ \A i \in 1..Len(queue) : queue'[i] = queue[i]
              /\ queue'[Len(queue) + 1].kind = "Restart"
          BY <3>2, <2>1, AppendEffect
        <4>2. Len(queue) \in Nat
          BY DEF TypeOK, DeviceTypes, SessionTypes, HandoffTypes, PowerTypes, StatusTypes, RuntimeTypes, BudgetTypes
        <4> QED
          BY <4>1, <4>2, <1>0
      <3> QED
        BY <3>1, <3>2, <2>2
    <2> QED
      BY <2>2, <2>4, <2>5, QuietStepKeepsRest DEF Rest
  <1>6. ASSUME NEW p \in Powers, PowerUnanswered(p) PROVE HandoffInv'
    <2>1. TypeOK'
      BY <1>6 DEF TypeOK, DeviceTypes, SessionTypes, HandoffTypes, PowerTypes, StatusTypes, RuntimeTypes, BudgetTypes, PowerUnanswered
    <2>2. UNCHANGED <<powered, boot, grant, kernel, hboot, hbinding, lease, opening, current, verifying,
                      proven, hpc, queue>>
      BY <1>6 DEF PowerUnanswered
    <2> QED
      BY <2>1, <2>2, <1>0, QuietStepKeepsRest DEF Rest
  <1>7. ASSUME NEW p \in Powers, PowerActs(p) PROVE HandoffInv'
    <2>1. TypeOK'
      <3>1. DeviceTypes' /\ PowerTypes'
        BY <1>7 DEF PowerActs, TypeOK, DeviceTypes, PowerTypes
      <3> QED
        BY <3>1, <1>7, TypesFrame DEF TypeOK, PowerActs
    <2>2. AttemptIsConsistent' /\ BindingsAreVerified' /\ KernelIsVerified'
      BY <1>7 DEF PowerActs, AttemptIsConsistent, BindingsAreVerified, KernelIsVerified, Proof
    <2>3. CallersAreKnown'
      BY <1>7 DEF PowerActs, CallersAreKnown, TypeOK, DeviceTypes, SessionTypes, HandoffTypes, PowerTypes, StatusTypes, RuntimeTypes, BudgetTypes
    <2> QED
      BY <2>1, <2>2, <2>3
  <1> QED
    BY <1>1, <1>2, <1>3, <1>4, <1>5, <1>6, <1>7 DEF Power

\* A task that goes on, or ends, on its own and changes nothing else keeps the invariant.
LEMMA TaskMovesKeepsInv ==
  ASSUME HandoffInv, NEW h \in Handoffs, hpc[h] # "idle",
         hpc' \in [Handoffs -> HandoffPhase], hpc'[h] # "idle",
         \A k \in Handoffs : k # h => hpc'[k] = hpc[k],
         lock' \in Handoffs \cup {0},
         revokes' \in SUBSET [boot : Nat, binding : Nat],
         posts' \in SUBSET Handoffs,
         hgen' \in [Handoffs -> Nat],
         BudgetTypes', StatusTypes',
         UNCHANGED <<deviceVars, sessionVars, hboot, hseen, hbinding, aborted, powerVars, running, lease,
                     attemptVars, power_wait, retired, proven>>,
         \/ queue' = queue
         \/ \E kind \in {"Bind", "Confirm", "Fail"} : queue' = Append(queue, [kind |-> kind, who |-> h])
  PROVE  HandoffInv'
  <1> USE DEF HandoffInv
  <1>0. \A i \in 1..Len(queue) : queue[i].kind = "Bind" => queue[i].who \in Handoffs /\ hpc[queue[i].who] # "idle"
    BY QueueIsKnown
  <1>1. /\ queue' \in Seq(Command)
        /\ \A i \in 1..Len(queue') : queue'[i].kind = "Bind" => queue'[i].who \in Handoffs /\ hpc[queue'[i].who] # "idle"
    <2>1. CASE queue' = queue
      BY <2>1, <1>0 DEF TypeOK, RuntimeTypes
    <2>2. ASSUME NEW kind \in {"Bind", "Confirm", "Fail"}, queue' = Append(queue, [kind |-> kind, who |-> h])
          PROVE  /\ queue' \in Seq(Command)
                 /\ \A i \in 1..Len(queue') : queue'[i].kind = "Bind" => queue'[i].who \in Handoffs /\ hpc[queue'[i].who] # "idle"
      <3>1. [kind |-> kind, who |-> h] \in Command
        BY DEF Command
      <3>2. /\ queue' \in Seq(Command)
            /\ Len(queue') = Len(queue) + 1
            /\ \A i \in 1..Len(queue) : queue'[i] = queue[i]
            /\ queue'[Len(queue) + 1] = [kind |-> kind, who |-> h]
        BY <2>2, <3>1, AppendEffect
      <3>3. Len(queue) \in Nat
        BY DEF TypeOK, RuntimeTypes
      <3>4. queue'[Len(queue) + 1].who = h
        BY <3>2
      <3>5. ASSUME NEW i \in 1..Len(queue'), queue'[i].kind = "Bind"
            PROVE  queue'[i].who \in Handoffs /\ hpc[queue'[i].who] # "idle"
        <4>1. CASE i \in 1..Len(queue)
          BY <4>1, <3>2, <3>5, <1>0
        <4>2. CASE i = Len(queue) + 1
          BY <4>2, <3>4
        <4> QED
          BY <4>1, <4>2, <3>2, <3>3
      <3> QED
        BY <3>2, <3>5
    <2> QED
      BY <2>1, <2>2
  <1>2. TypeOK'
    <2>1. RuntimeTypes'
      BY <1>1 DEF TypeOK, RuntimeTypes
    <2>2. HandoffTypes'
      BY DEF TypeOK, HandoffTypes
    <2> QED
      BY <2>1, <2>2, TypesFrame DEF TypeOK
  <1>3. Rest'
    BY <1>1, <1>2, QuietStepKeepsRest
  <1> QED
    BY <1>2, <1>3 DEF Rest

\* A request to the device keeps the invariant when what it grants or starts is verified.
LEMMA RequestKeepsInv ==
  ASSUME HandoffInv,
         HandoffTypes', BudgetTypes',
         \A k \in Handoffs : hpc'[k] = "idle" <=> hpc[k] = "idle",
         UNCHANGED <<powered, boot, sessionVars, hboot, hbinding, powerVars, runtimeVars>>,
         grant' \in Nat, kernel' \in Nat,
         grant' # 0 => [boot |-> boot, binding |-> grant'] \in proven,
         kernel' # 0 => [boot |-> boot, binding |-> kernel'] \in proven
  PROVE  HandoffInv'
  <1> USE DEF HandoffInv
  <1>0. \A i \in 1..Len(queue) : queue[i].kind = "Bind" => queue[i].who \in Handoffs /\ hpc[queue[i].who] # "idle"
    BY QueueIsKnown
  <1>1. TypeOK'
    <2>1. DeviceTypes'
      BY DEF TypeOK, DeviceTypes
    <2> QED
      BY <2>1, TypesFrame DEF TypeOK
  <1>2. AttemptIsConsistent' /\ KernelIsVerified' /\ BindingsAreVerified'
    BY DEF AttemptIsConsistent, KernelIsVerified, BindingsAreVerified, Proof
  <1>3. CallersAreKnown'
    BY <1>0 DEF CallersAreKnown
  <1> QED
    BY <1>1, <1>2, <1>3

\* The steps of a reconciliation keep the invariant.
LEMMA HandoffStepKeepsInv ==
  ASSUME HandoffInv, NEW h \in Handoffs, Handoff(h)
  PROVE  HandoffInv'
  <1> USE DEF HandoffInv
  <1>0. \A i \in 1..Len(queue) : queue[i].kind = "Bind" => queue[i].who \in Handoffs /\ hpc[queue[i].who] # "idle"
    BY QueueIsKnown
  <1>p. {"observed", "queued", "checked", "revoking", "clean", "binding", "continuing", "continued", "confirming", "done"}
          \subseteq HandoffPhase
    BY DEF HandoffPhase
  <1>1. CASE HandoffObserve(h)
    <2>1. TypeOK'
      <3>1. HandoffTypes'
        <4>1. aborted' \in SUBSET Handoffs
          BY <1>1 DEF HandoffObserve, Unfinished, TypeOK, HandoffTypes
        <4>2. boot \in Nat /\ grant \in Nat
          BY DEF TypeOK, DeviceTypes
        <4> QED
          BY <1>1, <4>1, <4>2, <1>p DEF HandoffObserve, TypeOK, HandoffTypes
      <3> QED
        BY <3>1, <1>1, TypesFrame DEF TypeOK, HandoffObserve
    <2>2. AttemptIsConsistent' /\ KernelIsVerified'
      BY <1>1 DEF HandoffObserve, AttemptIsConsistent, KernelIsVerified, Proof
    <2>3. hbinding[h] = 0 /\ boot # 0
      BY <1>1 DEF HandoffObserve, CallersAreKnown
    <2>4. BindingsAreVerified'
      BY <1>1, <2>3 DEF HandoffObserve, BindingsAreVerified, TypeOK, HandoffTypes
    <2>5. CallersAreKnown'
      <3>1. \A k \in Handoffs : k # h => hpc'[k] = hpc[k] /\ hboot'[k] = hboot[k]
        BY <1>1 DEF HandoffObserve, TypeOK, HandoffTypes
      <3>2. hpc'[h] = "observed" /\ hboot'[h] = boot /\ hpc[h] = "idle"
        BY <1>1 DEF HandoffObserve, TypeOK, HandoffTypes
      <3>3. UNCHANGED <<powered, boot, hbinding, queue, current>>
        BY <1>1 DEF HandoffObserve
      <3> QED
        BY <3>1, <3>2, <3>3, <2>3, <1>0 DEF CallersAreKnown
    <2> QED
      BY <2>1, <2>2, <2>4, <2>5
  <1>2. CASE HandoffSubscribe(h)
    BY <1>2, <1>p, TaskMovesKeepsInv, TypesFrame
       DEF HandoffSubscribe, Goes, TypeOK, HandoffTypes, SessionTypes
  <1>3. CASE HandoffLocked(h)
    BY <1>3, <1>p, EndsEffect, TaskMovesKeepsInv, TypesFrame DEF HandoffLocked, TypeOK, HandoffTypes
  <1>4. CASE HandoffPreflightFails(h)
    <2>1. StatusTypes'
      BY <1>4, PublishEffect DEF HandoffPreflightFails, TypeOK, StatusTypes, SerialRuntimePhase
    <2>2. BudgetTypes'
      BY <1>4 DEF HandoffPreflightFails, Fault, TypeOK, BudgetTypes
    <2> QED
      BY <1>4, <2>1, <2>2, EndsEffect, TaskMovesKeepsInv DEF HandoffPreflightFails, TypeOK, HandoffTypes
  <1>5. CASE HandoffDecides(h)
    BY <1>5, <1>p, TaskMovesKeepsInv, TypesFrame DEF HandoffDecides, Goes, TypeOK, HandoffTypes
  <1>7. CASE HandoffBind(h)
    BY <1>7, <1>p, EndsEffect, TaskMovesKeepsInv, TypesFrame DEF HandoffBind, TypeOK, HandoffTypes
  <1>8. CASE HandoffContinue(h)
    BY <1>8, <1>p, EndsEffect, TaskMovesKeepsInv, TypesFrame DEF HandoffContinue, TypeOK, HandoffTypes
  <1>10. CASE HandoffConfirm(h)
    BY <1>10, <1>p, EndsEffect, TaskMovesKeepsInv, TypesFrame DEF HandoffConfirm, TypeOK, HandoffTypes
  <1>13. CASE HandoffUnanswered(h)
    BY <1>13, EndsEffect, TaskMovesKeepsInv, TypesFrame DEF HandoffUnanswered, TypeOK, HandoffTypes
  <1>14. CASE HandoffDropped(h)
    BY <1>14, EndsEffect, TaskMovesKeepsInv, TypesFrame DEF HandoffDropped, Unfinished, TypeOK, HandoffTypes
  <1>6. CASE HandoffRevokes(h)
    <2>1. HandoffTypes' /\ \A k \in Handoffs : hpc'[k] = "idle" <=> hpc[k] = "idle"
      BY <1>6, <1>p, EndsEffect DEF HandoffRevokes, TypeOK, HandoffTypes
    <2>2. grant' \in {0, grant}
      BY <1>6 DEF HandoffRevokes
    <2> QED
      BY <1>6, <2>1, <2>2, RequestKeepsInv, TypesFrame
         DEF HandoffRevokes, TypeOK, DeviceTypes, BindingsAreVerified, KernelIsVerified
  <1>9. CASE ContinueArrives(h)
    <2>1. HandoffTypes' /\ \A k \in Handoffs : hpc'[k] = "idle" <=> hpc[k] = "idle"
      BY <1>9, <1>p, EndsEffect DEF ContinueArrives, TypeOK, HandoffTypes
    <2>2. grant' = grant \/ (boot = hboot[h] /\ grant' = hbinding[h])
      BY <1>9 DEF ContinueArrives, InLoader
    <2>3. grant' \in Nat /\ (grant' # 0 => [boot |-> boot, binding |-> grant'] \in proven)
      BY <2>2 DEF TypeOK, DeviceTypes, HandoffTypes, BindingsAreVerified
    <2> QED
      BY <1>9, <2>1, <2>3, RequestKeepsInv, TypesFrame
         DEF ContinueArrives, TypeOK, DeviceTypes, KernelIsVerified
  <1>11. CASE HandoffStart(h)
    <2>1. HandoffTypes' /\ \A k \in Handoffs : hpc'[k] = "idle" <=> hpc[k] = "idle"
      BY <1>11, <1>p, EndsEffect DEF HandoffStart, TypeOK, HandoffTypes
    <2>2. kernel' = kernel \/ kernel' = grant
      BY <1>11 DEF HandoffStart
    <2> QED
      BY <1>11, <2>1, <2>2, RequestKeepsInv, TypesFrame
         DEF HandoffStart, TypeOK, DeviceTypes, BindingsAreVerified, KernelIsVerified
  <1>12. CASE HandoffRequestFails(h)
    <2>1. HandoffTypes' /\ \A k \in Handoffs : hpc'[k] = "idle" <=> hpc[k] = "idle"
      BY <1>12, EndsEffect DEF HandoffRequestFails, TypeOK, HandoffTypes
    <2>2. kernel' = kernel \/ kernel' = grant
      BY <1>12 DEF HandoffRequestFails
    <2>3. BudgetTypes'
      BY <1>12 DEF HandoffRequestFails, Fault, TypeOK, BudgetTypes
    <2> QED
      BY <1>12, <2>1, <2>2, <2>3, RequestKeepsInv
         DEF HandoffRequestFails, TypeOK, DeviceTypes, BindingsAreVerified, KernelIsVerified
  <1> QED
    BY <1>1, <1>2, <1>3, <1>4, <1>5, <1>6, <1>7, <1>8, <1>9, <1>10, <1>11, <1>12, <1>13, <1>14 DEF Handoff

\* After a command is served, or all are dropped, those in the queue still name known tasks.
LEMMA ServedQueue ==
  ASSUME HandoffInv, queue' = <<>> \/ queue' = queue \/ (queue' = Tail(queue) /\ queue # <<>>)
  PROVE  /\ queue' \in Seq(Command)
         /\ \A i \in 1..Len(queue') : queue'[i].kind = "Bind" => queue'[i].who \in Handoffs /\ hpc[queue'[i].who] # "idle"
  <1>0. \A i \in 1..Len(queue) : queue[i].kind = "Bind" => queue[i].who \in Handoffs /\ hpc[queue[i].who] # "idle"
    BY QueueIsKnown
  <1>1. queue \in Seq(Command)
    BY DEF HandoffInv, TypeOK, RuntimeTypes
  <1>2. CASE queue' = <<>>
    BY <1>2
  <1>3. CASE queue' = queue
    BY <1>3, <1>0, <1>1
  <1>4. CASE queue' = Tail(queue) /\ queue # <<>>
    <2>1. /\ queue' \in Seq(Command)
          /\ Len(queue') = Len(queue) - 1
          /\ \A i \in 1..Len(queue') : queue'[i] = queue[i + 1]
      BY <1>1, <1>4
    <2>2. \A i \in 1..Len(queue') : i + 1 \in 1..Len(queue)
      BY <2>1, <1>1
    <2> QED
      BY <2>1, <2>2, <1>0
  <1> QED
    BY <1>2, <1>3, <1>4

\* A step of the runtime keeps the invariant if it keeps the attempt consistent and known, gives
\* tasks verified bindings only and forgets no proof.
LEMMA RuntimeKeepsInv ==
  ASSUME HandoffInv,
         SessionTypes', HandoffTypes', PowerTypes', StatusTypes', RuntimeTypes', BudgetTypes',
         UNCHANGED <<deviceVars, hboot>>,
         proven \subseteq proven',
         queue' = <<>> \/ queue' = queue \/ (queue' = Tail(queue) /\ queue # <<>>),
         \A k \in Handoffs : hpc'[k] = "idle" <=> hpc[k] = "idle",
         \A k \in Handoffs : \/ hbinding'[k] = hbinding[k]
                             \/ hpc[k] # "idle" /\ [boot |-> hboot[k], binding |-> hbinding'[k]] \in proven',
         AttemptIsConsistent',
         current'.boot # 0 => /\ current'.caller \in Handoffs
                              /\ hboot[current'.caller] = current'.boot
                              /\ hpc[current'.caller] # "idle"
  PROVE  HandoffInv'
  <1> USE DEF HandoffInv
  <1>0. \A i \in 1..Len(queue') : queue'[i].kind = "Bind" => queue'[i].who \in Handoffs /\ hpc[queue'[i].who] # "idle"
    BY ServedQueue
  <1>1. TypeOK'
    BY TypesFrame DEF TypeOK
  <1>2. KernelIsVerified' /\ BindingsAreVerified'
    BY DEF KernelIsVerified, BindingsAreVerified
  <1>3. CallersAreKnown'
    BY <1>0 DEF CallersAreKnown
  <1> QED
    BY <1>1, <1>2, <1>3

\* The end of the runtime, with or without an error, keeps the invariant.
LEMMA EndKeepsInv ==
  ASSUME HandoffInv, BudgetTypes', RuntimeFails \/ Closes
  PROVE  HandoffInv'
  <1> USE DEF HandoffInv
  <1>1. StatusTypes'
    <2>1. {"Failed", "Closed"} \subseteq SerialRuntimePhase /\ status_boot \in Nat /\ status_binding \in Nat
      BY DEF SerialRuntimePhase, TypeOK, StatusTypes
    <2> QED
      BY <2>1, PublishEffect DEF RuntimeFails, Closes, StatusTypes
  <1>2. SessionTypes'
    BY DEF RuntimeFails, Closes, TypeOK, SessionTypes
  <1>3. RuntimeTypes'
    <2>1. NoAttempt \in BindingAttempt /\ <<>> \in Seq(Command)
      BY DEF NoAttempt, BindingAttempt
    <2>2. /\ running' = FALSE /\ queue' = <<>> /\ lease' = FALSE /\ opening' = 0
          /\ current' = NoAttempt /\ verifying' = FALSE
          /\ UNCHANGED <<attempts, power_wait, retired, proven>>
      BY DEF RuntimeFails, Closes
    <2>3. /\ attempts \in Nat /\ power_wait \in BOOLEAN /\ retired \in Nat
          /\ proven \in SUBSET [boot : Nat, binding : Nat]
      BY DEF TypeOK, RuntimeTypes
    <2> QED
      BY <2>1, <2>2, <2>3 DEF RuntimeTypes
  <1>4. HandoffTypes' /\ PowerTypes' /\ UNCHANGED <<deviceVars, handoffVars, proven>>
    BY TypesFrame DEF RuntimeFails, Closes
  <1>5. queue' = <<>> /\ current' = NoAttempt /\ opening' = 0 /\ verifying' = FALSE
    BY DEF RuntimeFails, Closes
  <1>6. AttemptIsConsistent' /\ current'.boot = 0
    BY <1>5 DEF AttemptIsConsistent, NoAttempt
  <1> QED
    BY <1>1, <1>2, <1>3, <1>4, <1>5, <1>6, RuntimeKeepsInv

\* The attempt of the runtime, as the invariant types it.
LEMMA AttemptTypes ==
  ASSUME HandoffInv
  PROVE  /\ current.boot \in Nat /\ current.binding \in Nat /\ current.caller \in Nat
         /\ current.replied \in BOOLEAN
         /\ [current EXCEPT !.replied = TRUE] \in BindingAttempt
         /\ [current EXCEPT !.replied = TRUE].boot = current.boot
         /\ [current EXCEPT !.replied = TRUE].binding = current.binding
         /\ [current EXCEPT !.replied = TRUE].caller = current.caller
         /\ NoAttempt \in BindingAttempt /\ NoAttempt.boot = 0 /\ NoAttempt.replied = FALSE
         /\ {"WaitingDevice", "Verifying", "Discovering", "Bound", "Recovering"} \subseteq SerialRuntimePhase
         /\ {"binding", "confirming", "confirmed"} \subseteq HandoffPhase
  BY DEF HandoffInv, TypeOK, RuntimeTypes, BindingAttempt, NoAttempt, SerialRuntimePhase, HandoffPhase

\* The commands keep the invariant.
LEMMA CommandKeepsInv ==
  ASSUME HandoffInv, ServeFail \/ ServeRestart \/ ServeConfirm \/ BindRetired \/ BindRejected
  PROVE  HandoffInv'
  <1> USE AttemptTypes, TypesFrame DEF HandoffInv
  <1>0. /\ Serving("Restart") => Head(queue).who \in Powers
        /\ Serving("Confirm") \/ Serving("Bind") => Head(queue).who \in Handoffs
    BY ServingEffect DEF Command
  <1>1. CASE ServeFail
    BY <1>1, EndKeepsInv DEF ServeFail
  <1>2. CASE ServeRestart
    <2>1. PowerTypes'
      BY <1>2, <1>0 DEF ServeRestart, TypeOK, PowerTypes
    <2>2. StatusTypes'
      BY <1>2, PublishEffect DEF ServeRestart, StatusTypes
    <2>3. queue' = Tail(queue) /\ queue # <<>> /\ queue' \in Seq(Command)
      BY <1>2, ServedQueue DEF ServeRestart, Serving
    <2>4. pon[Head(queue).who] \in BOOLEAN
      BY <1>2, <1>0 DEF ServeRestart, TypeOK, PowerTypes
    <2>5. RuntimeTypes'
      BY <1>2, <2>3, <2>4 DEF ServeRestart, TypeOK, RuntimeTypes
    <2>6. AttemptIsConsistent'
      BY <1>2 DEF ServeRestart, AttemptIsConsistent
    <2> QED
      BY <1>2, <2>1, <2>2, <2>3, <2>5, <2>6, RuntimeKeepsInv DEF ServeRestart
  <1>3. CASE ServeConfirm
    <2> DEFINE h == Head(queue).who
    <2>1. h \in Handoffs
      BY <1>3, <1>0 DEF ServeConfirm
    <2>2. StatusTypes'
      BY <1>3, PublishEffect DEF ServeConfirm, TypeOK, StatusTypes
    <2>3. queue' = Tail(queue) /\ queue # <<>> /\ queue' \in Seq(Command)
      BY <1>3, ServedQueue DEF ServeConfirm, Serving
    <2>4. /\ hpc' \in [Handoffs -> HandoffPhase]
          /\ \A k \in Handoffs : hpc'[k] = "idle" <=> hpc[k] = "idle"
          /\ lock' \in Handoffs \cup {0}
          /\ revokes' \in SUBSET [boot : Nat, binding : Nat]
      <3>1. CASE Confirmable(hbinding[h])
        BY <3>1, <1>3, <2>1 DEF ServeConfirm, TypeOK, HandoffTypes
      <3>2. CASE ~Confirmable(hbinding[h])
        BY <3>2, <1>3, <2>1, AnswerErrorEffect DEF ServeConfirm
      <3> QED
        BY <3>1, <3>2
    <2>5. HandoffTypes'
      BY <1>3, <2>4 DEF ServeConfirm, TypeOK, HandoffTypes
    <2>6. RuntimeTypes' /\ AttemptIsConsistent'
      BY <1>3, <2>3 DEF ServeConfirm, TypeOK, RuntimeTypes, AttemptIsConsistent, Proof
    <2> QED
      BY <1>3, <2>2, <2>3, <2>4, <2>5, <2>6, RuntimeKeepsInv DEF ServeConfirm, CallersAreKnown
  <1>4. CASE BindRetired \/ BindRejected
    <2> DEFINE h == Head(queue).who
    <2>1. h \in Handoffs /\ hboot[h] \in Nat
      BY <1>4, <1>0 DEF BindRetired, BindRejected, TypeOK, HandoffTypes
    <2>2. StatusTypes'
      BY <1>4, <2>1, PublishEffect DEF BindRetired, BindRejected, TypeOK, StatusTypes
    <2>3. queue' = Tail(queue) /\ queue # <<>> /\ queue' \in Seq(Command)
      BY <1>4, ServedQueue DEF BindRetired, BindRejected, Serving
    <2>4. /\ hpc' \in [Handoffs -> HandoffPhase]
          /\ \A k \in Handoffs : hpc'[k] = "idle" <=> hpc[k] = "idle"
          /\ lock' \in Handoffs \cup {0}
          /\ revokes' \in SUBSET [boot : Nat, binding : Nat]
      BY <1>4, <2>1, AnswerErrorEffect DEF BindRetired, BindRejected
    <2>5. HandoffTypes'
      BY <1>4, <2>4 DEF BindRetired, BindRejected, TypeOK, HandoffTypes
    <2>6. RuntimeTypes' /\ AttemptIsConsistent'
      <3>1. /\ UNCHANGED <<running, lease, opening, current, attempts, verifying, retired, proven>>
            /\ power_wait' = TRUE \/ power_wait' = power_wait
        BY <1>4 DEF BindRetired, BindRejected
      <3>2. RuntimeTypes'
        BY <3>1, <2>3 DEF TypeOK, RuntimeTypes
      <3> QED
        BY <3>1, <3>2 DEF AttemptIsConsistent, Proof
    <2>7. BudgetTypes'
      BY <1>4 DEF BindRetired, BindRejected, Fault, TypeOK, BudgetTypes
    <2> QED
      BY <1>4, <2>2, <2>3, <2>4, <2>5, <2>6, <2>7, RuntimeKeepsInv DEF BindRetired, BindRejected, CallersAreKnown
  <1> QED
    BY <1>1, <1>2, <1>3, <1>4

\* A bind that is answered, or that begins an attempt, keeps the invariant.
LEMMA BindKeepsInv ==
  ASSUME HandoffInv, BindReused \/ \E c \in BOOLEAN : BindAttempt(c)
  PROVE  HandoffInv'
  <1> USE AttemptTypes, TypesFrame DEF HandoffInv
  <1> DEFINE h == Head(queue).who
  <1>1. Serving("Bind")
    BY DEF BindReused, BindAttempt
  <1>2. h \in Handoffs /\ hpc[h] # "idle" /\ hboot[h] \in Nat /\ hboot[h] # 0
    <2>1. Head(queue) = queue[1] /\ 1 \in 1..Len(queue) /\ queue[1].kind = "Bind"
      BY <1>1, ServingEffect
    <2>2. h \in Handoffs /\ hpc[h] # "idle"
      BY <2>1, QueueIsKnown
    <2> QED
      BY <2>2 DEF CallersAreKnown, TypeOK, HandoffTypes
  <1>3. queue' = Tail(queue) /\ queue # <<>> /\ queue' \in Seq(Command)
    BY <1>1, ServedQueue DEF BindReused, BindAttempt, Serving
  <1> HIDE DEF h
  <1>4. CASE BindReused
    <2>1. /\ Reusable(hboot[h]) /\ AnswerBinding(h, current.binding)
          /\ power_wait' = TRUE
          /\ UNCHANGED <<deviceVars, sessionVars, taskVars, aborted, posts, powerVars, running, lease,
                         attemptVars, statusVars, retired, proven, budgetVars>>
      BY <1>4 DEF BindReused, h
    <2>2. [boot |-> hboot[h], binding |-> current.binding] \in proven
      BY <2>1 DEF Reusable, AttemptIsConsistent, Proof
    <2>3. /\ hpc' \in [Handoffs -> HandoffPhase] /\ hbinding' \in [Handoffs -> Nat]
          /\ lock' = lock /\ revokes' = revokes
          /\ \A k \in Handoffs : hpc'[k] = "idle" <=> hpc[k] = "idle"
          /\ \A k \in Handoffs : \/ hbinding'[k] = hbinding[k]
                                 \/ k = h /\ hbinding'[k] = current.binding /\ hpc[k] # "idle"
      <3>1. current.binding \in Nat /\ TypeOK
        OBVIOUS
      <3> QED
        BY <3>1, <2>1, <1>2, AnswerBindingEffect
    <2>4. HandoffTypes'
      BY <2>1, <2>3 DEF TypeOK, HandoffTypes
    <2>5. RuntimeTypes'
      BY <2>1, <1>3 DEF TypeOK, RuntimeTypes
    <2>6. AttemptIsConsistent'
      BY <2>1 DEF AttemptIsConsistent, Proof
    <2> QED
      BY <2>1, <2>2, <2>3, <2>4, <2>5, <2>6, <1>3, RuntimeKeepsInv DEF CallersAreKnown
  <1>5. ASSUME NEW c \in BOOLEAN, BindAttempt(c) PROVE HandoffInv'
    <2>1. /\ attempts' = attempts + 1 /\ power_wait' = TRUE
          /\ current' = [boot |-> hboot[h], binding |-> attempts + 1, caller |-> h, replied |-> FALSE]
          /\ lease' = (lease /\ c)
          /\ opening' = IF lease /\ c THEN 0 ELSE hboot[h]
          /\ verifying' = (verifying \/ (lease /\ c))
          /\ UNCHANGED <<deviceVars, sessionVars, handoffVars, powerVars, running, retired, proven>>
      BY <1>5 DEF BindAttempt, h
    <2>2. StatusTypes'
      BY <1>5, <1>2, PublishEffect DEF BindAttempt, StatusTypes, h
    <2>3. BudgetTypes'
      BY <1>5 DEF BindAttempt, Fault, TypeOK, BudgetTypes
    <2>4. /\ current' \in BindingAttempt /\ current'.boot = hboot[h] /\ current'.caller = h
          /\ current'.replied = FALSE
      BY <2>1, <1>2 DEF BindingAttempt, TypeOK, RuntimeTypes
    <2>5. RuntimeTypes'
      <3>1. lease' \in BOOLEAN /\ verifying' \in BOOLEAN /\ opening' \in Nat /\ attempts' \in Nat
        BY <2>1, <1>2 DEF TypeOK, RuntimeTypes
      <3> QED
        BY <2>1, <2>4, <3>1, <1>3 DEF TypeOK, RuntimeTypes
    <2>6. AttemptIsConsistent'
      BY <2>1, <2>4, <1>2 DEF AttemptIsConsistent
    <2> QED
      BY <2>1, <2>2, <2>3, <2>4, <2>5, <2>6, <1>2, <1>3, RuntimeKeepsInv
  <1> QED
    BY <1>4, <1>5

\* An identity that is read, by the manager or by the runtime itself, keeps the invariant.
LEMMA IdentityKeepsInv ==
  ASSUME HandoffInv, Opened \/ \E b \in 1..boot : Read(b)
  PROVE  HandoffInv'
  <1> USE AttemptTypes, TypesFrame DEF HandoffInv
  <1> DEFINE h == current.caller
             pair == Proof(current.boot)
  <1>1. /\ current.boot # 0
        /\ current' = [current EXCEPT !.replied = TRUE]
        /\ proven' = proven \cup {pair}
        /\ lease' = TRUE /\ opening' = 0 /\ (verifying' => verifying) /\ verifying' \in BOOLEAN
        /\ \/ AnswerBinding(h, current.binding)
           \/ UNCHANGED <<hpc, hbinding, lock, revokes>>
        /\ UNCHANGED <<deviceVars, sessionVars, taskVars, aborted, posts, powerVars, running, queue, attempts,
                       power_wait, retired, budgetVars>>
    <2>1. CASE Opened
      BY <2>1 DEF Opened, AttemptIsConsistent, TypeOK, RuntimeTypes
    <2>2. ASSUME NEW b \in 1..boot, Read(b) PROVE <1>1
      <3>1. current.boot = b /\ b # 0 /\ lease
        BY <2>2 DEF Read, TypeOK, DeviceTypes
      <3>2. opening = 0
        BY <3>1 DEF AttemptIsConsistent
      <3>3. lease = TRUE
        BY <3>1 DEF TypeOK, RuntimeTypes
      <3> QED
        BY <2>2, <3>1, <3>2, <3>3 DEF Read
    <2> QED
      BY <2>1, <2>2
  <1>2. h \in Handoffs /\ hboot[h] = current.boot /\ hpc[h] # "idle"
    BY <1>1 DEF CallersAreKnown
  <1>3. pair \in [boot : Nat, binding : Nat] /\ pair = [boot |-> hboot[h], binding |-> current.binding]
    BY <1>2 DEF Proof
  <1>4. StatusTypes'
    BY PublishEffect DEF Opened, Read, TypeOK, StatusTypes
  <1> HIDE DEF h, pair
  <1>5. /\ hpc' \in [Handoffs -> HandoffPhase] /\ hbinding' \in [Handoffs -> Nat]
        /\ lock' = lock /\ revokes' = revokes
        /\ \A k \in Handoffs : hpc'[k] = "idle" <=> hpc[k] = "idle"
        /\ \A k \in Handoffs : \/ hbinding'[k] = hbinding[k]
                               \/ k = h /\ hbinding'[k] = current.binding /\ hpc[k] # "idle"
    <2>1. CASE AnswerBinding(h, current.binding)
      <3>1. current.binding \in Nat /\ TypeOK
        OBVIOUS
      <3> QED
        BY <3>1, <2>1, <1>2, AnswerBindingEffect
    <2>2. CASE UNCHANGED <<hpc, hbinding, lock, revokes>>
      BY <2>2 DEF TypeOK, HandoffTypes
    <2> QED
      BY <1>1, <2>1, <2>2
  <1>6. HandoffTypes'
    BY <1>1, <1>5 DEF TypeOK, HandoffTypes
  <1>7. RuntimeTypes'
    <2>1. current' \in BindingAttempt /\ proven' \in SUBSET [boot : Nat, binding : Nat]
      BY <1>1, <1>3 DEF TypeOK, RuntimeTypes
    <2> QED
      BY <1>1, <2>1 DEF TypeOK, RuntimeTypes
  <1>8. AttemptIsConsistent'
    <2>1. current'.boot = current.boot /\ current'.binding = current.binding
      BY <1>1
    <2>2. pair = [boot |-> current'.boot, binding |-> current'.binding]
      BY <2>1 DEF pair, Proof
    <2> QED
      BY <1>1, <2>1, <2>2 DEF AttemptIsConsistent, Proof
  <1> QED
    <2>1. current'.caller = h /\ current'.boot = current.boot
      BY <1>1 DEF h
    <2> QED
      BY <1>1, <1>2, <1>3, <1>4, <1>5, <1>6, <1>7, <1>8, <2>1, RuntimeKeepsInv

\* A search that fails, a port that is lost and the timer keep the invariant.
LEMMA LossKeepsInv ==
  ASSUME HandoffInv, OpenFails \/ Lost \/ Tick
  PROVE  HandoffInv'
  <1> USE AttemptTypes, TypesFrame DEF HandoffInv
  <1>1. CASE OpenFails
    <2>1. StatusTypes'
      BY <1>1, PublishEffect DEF OpenFails, StatusTypes
    <2>2. current.boot # 0 /\ current.caller \in Handoffs
      BY <1>1 DEF OpenFails, AttemptIsConsistent, CallersAreKnown
    <2>3. /\ hpc' \in [Handoffs -> HandoffPhase]
          /\ \A k \in Handoffs : hpc'[k] = "idle" <=> hpc[k] = "idle"
          /\ lock' \in Handoffs \cup {0}
          /\ revokes' \in SUBSET [boot : Nat, binding : Nat]
      <3>1. CASE current.replied
        BY <3>1, <1>1 DEF OpenFails, TypeOK, HandoffTypes
      <3>2. CASE ~current.replied
        BY <3>2, <1>1, <2>2, AnswerErrorEffect DEF OpenFails
      <3> QED
        BY <3>1, <3>2
    <2>4. HandoffTypes'
      BY <1>1, <2>3 DEF OpenFails, TypeOK, HandoffTypes
    <2>5. RuntimeTypes' /\ AttemptIsConsistent'
      BY <1>1 DEF OpenFails, TypeOK, RuntimeTypes, AttemptIsConsistent
    <2> QED
      BY <1>1, <2>1, <2>3, <2>4, <2>5, RuntimeKeepsInv DEF OpenFails
  <1>2. CASE Lost
    <2>1. StatusTypes'
      BY <1>2, PublishEffect DEF Lost, TypeOK, StatusTypes
    <2>2. BudgetTypes'
      BY <1>2 DEF Lost, Fault, TypeOK, BudgetTypes
    <2>3. /\ lease' = FALSE /\ verifying' = FALSE /\ (opening' = opening \/ opening' = current.boot)
          /\ UNCHANGED <<deviceVars, sessionVars, handoffVars, powerVars, running, queue, current, attempts,
                         power_wait, retired, proven>>
      BY <1>2 DEF Lost
    <2>4. RuntimeTypes'
      BY <2>3 DEF TypeOK, RuntimeTypes
    <2>5. AttemptIsConsistent'
      BY <2>3 DEF AttemptIsConsistent, Proof
    <2> QED
      BY <2>1, <2>2, <2>3, <2>4, <2>5, RuntimeKeepsInv DEF CallersAreKnown
  <1>3. CASE Tick
    <2>1. StatusTypes'
      BY <1>3, PublishEffect DEF Tick, TypeOK, StatusTypes
    <2>2. /\ verifying' = FALSE
          /\ \/ current' = NoAttempt /\ opening' = 0 /\ lease' = lease
             \/ current' = current /\ opening' = current.boot /\ lease' = FALSE
          /\ UNCHANGED <<deviceVars, sessionVars, handoffVars, powerVars, running, queue, attempts, power_wait,
                         retired, proven, budgetVars>>
      BY <1>3 DEF Tick
    <2>3. RuntimeTypes'
      <3>0. /\ current \in BindingAttempt /\ current.boot \in Nat /\ lease \in BOOLEAN /\ NoAttempt \in BindingAttempt
            /\ running \in BOOLEAN /\ queue \in Seq(Command) /\ attempts \in Nat /\ power_wait \in BOOLEAN
            /\ retired \in Nat /\ proven \in SUBSET [boot : Nat, binding : Nat]
        BY DEF TypeOK, RuntimeTypes
      <3>1. CASE current' = NoAttempt /\ opening' = 0 /\ lease' = lease
        BY <2>2, <3>0, <3>1 DEF RuntimeTypes
      <3>2. CASE current' = current /\ opening' = current.boot /\ lease' = FALSE
        BY <2>2, <3>0, <3>2 DEF RuntimeTypes
      <3> QED
        BY <2>2, <3>1, <3>2
    <2>4. AttemptIsConsistent'
      BY <2>2 DEF AttemptIsConsistent, Proof
    <2> QED
      BY <2>1, <2>2, <2>3, <2>4, RuntimeKeepsInv DEF CallersAreKnown
  <1> QED
    BY <1>1, <1>2, <1>3

\* Every step keeps the invariant.
LEMMA NextHandoffInv == HandoffInv /\ [Next]_vars => HandoffInv'
  <1> SUFFICES ASSUME HandoffInv, [Next]_vars PROVE HandoffInv'
    OBVIOUS
  <1>1. CASE Runtime
    <2>1. CASE ServeFail \/ ServeRestart \/ ServeConfirm \/ ServeBind
      BY <2>1, CommandKeepsInv, BindKeepsInv DEF ServeBind
    <2>2. CASE Opened \/ \E b \in 1..boot : Read(b)
      BY <2>2, IdentityKeepsInv
    <2>3. CASE OpenFails \/ Lost \/ Tick
      BY <2>3, LossKeepsInv
    <2>4. CASE OpenIsFatal \/ OutputFull
      <3>1. BudgetTypes'
        BY <2>4 DEF OpenIsFatal, OutputFull, Fault, HandoffInv, TypeOK, BudgetTypes
      <3> QED
        BY <2>4, <3>1, EndKeepsInv DEF OpenIsFatal, OutputFull
    <2>5. CASE DeadlinePasses \/ RuntimeCloses \/ ClientCloses
      <3>1. BudgetTypes'
        BY <2>5 DEF DeadlinePasses, RuntimeCloses, ClientCloses, Closes, HandoffInv, TypeOK, BudgetTypes
      <3> QED
        BY <2>5, <3>1, EndKeepsInv DEF DeadlinePasses, RuntimeCloses, ClientCloses
    <2> QED
      BY <1>1, <2>1, <2>2, <2>3, <2>4, <2>5 DEF Runtime
  <1>2. ASSUME NEW h \in Handoffs, Handoff(h) PROVE HandoffInv'
    BY <1>2, HandoffStepKeepsInv
  <1>3. CASE \/ DeviceReboots \/ StaleAnnouncement \/ StopRequested \/ ShutdownSignalled
             \/ (\E m \in revokes : Revoked(m))
             \/ \E p \in Powers : Power(p)
    BY <1>3, OutsideStepKeepsInv
  <1>4. CASE UNCHANGED vars
    <2>1. TypeOK'
      BY <1>4, TypesFrame DEF vars, HandoffInv, TypeOK
    <2>2. Rest'
      BY <1>4, <2>1, QueueIsKnown, QuietStepKeepsRest DEF vars
    <2> QED
      BY <2>1, <2>2 DEF Rest, HandoffInv
  <1> QED
    BY <1>1, <1>2, <1>3, <1>4 DEF Next

\* The strengthened invariant holds in every reachable state.
THEOREM HandoffInvariant == Spec => []HandoffInv
  BY InitHandoffInv, NextHandoffInv, PTL DEF Spec

\* Whatever reboots, power calls and failures interleave, a kernel only starts on the boot whose
\* identity was read on the port of its binding.
THEOREM KernelStartsVerified == Spec => []KernelIsVerified
  <1>1. HandoffInv => KernelIsVerified
    BY DEF HandoffInv
  <1> QED
    BY <1>1, HandoffInvariant, PTL

\* The two "missing" errors of run_owner never happen, and it never searches beside a held port.
THEOREM AttemptStaysConsistent == Spec => []AttemptIsConsistent
  <1>1. HandoffInv => AttemptIsConsistent
    BY DEF HandoffInv
  <1> QED
    BY <1>1, HandoffInvariant, PTL

\* update_status never replaces a failure.
THEOREM FailureIsTerminal == Spec => FailureStays
  <1>1. ASSUME phase = "Failed", [Next]_vars PROVE phase' = "Failed"
    <2> USE <1>1 DEF Publish
    <2>1. CASE Runtime
      BY <2>1 DEF Runtime, ServeFail, ServeRestart, ServeConfirm, ServeBind, BindRetired, BindRejected, BindReused,
         BindAttempt, Opened, OpenFails, OpenIsFatal, Lost, Read, OutputFull, Tick, DeadlinePasses, RuntimeCloses,
         ClientCloses, Closes, RuntimeFails
    <2>2. ASSUME NEW h \in Handoffs, Handoff(h) PROVE phase' = "Failed"
      BY <2>2 DEF Handoff, HandoffObserve, HandoffSubscribe, HandoffLocked, HandoffPreflightFails, HandoffDecides,
         HandoffRevokes, HandoffBind, HandoffContinue, ContinueArrives, HandoffConfirm, HandoffStart,
         HandoffRequestFails, HandoffUnanswered, HandoffDropped
    <2>3. ASSUME NEW p \in Powers, Power(p) PROVE phase' = "Failed"
      BY <2>3 DEF Power, PowerBegins, PowerRetires, PowerUnanswered, PowerActs
    <2>4. CASE DeviceReboots \/ StaleAnnouncement \/ StopRequested \/ ShutdownSignalled \/ \E m \in revokes : Revoked(m)
      BY <2>4 DEF DeviceReboots, StaleAnnouncement, StopRequested, ShutdownSignalled, Revoked
    <2>5. CASE UNCHANGED vars
      BY <2>5 DEF vars
    <2> QED
      BY <2>1, <2>2, <2>3, <2>4, <2>5 DEF Next
  <1>2. [Next]_vars => [phase = "Failed" => phase' = "Failed"]_vars
    BY <1>1
  <1> QED
    BY <1>2, PTL DEF Spec, FailureStays

-----------------------------------------------------------------------------
(***************************************************************************)
(* A session shown as bound.                                               *)
(***************************************************************************)
Known(h) == hpc[h] # "idle"
\* Where a task holds boot_operation, and where it has its binding.
Holding == HandoffPhase \ {"idle", "observed", "queued", "done"}
Answered == Armed \cup {"bound"}
Queued(kind) == {i \in 1..Len(queue) : queue[i].kind = kind}

\* Boots are observed one after the other; only the last observer goes on.
TasksAreOrdered ==
  /\ \A h \in Handoffs : Known(h) => hboot[h] <= boot
  /\ \A h, k \in Handoffs : k < h /\ Known(h) =>
       Known(k) /\ hboot[k] <= hboot[h] /\ (k \in aborted \/ hpc[k] = "done")
  /\ \A h \in Handoffs : hpc[h] \in Holding => lock = h

\* The binds in the queue are in the order of their boots and later than what is being bound, and
\* every confirmation is before them.
QueueIsOrdered ==
  /\ \A i, j \in Queued("Bind") : i < j => queue[i].who < queue[j].who
  /\ \A i \in Queued("Bind"), j \in Queued("Confirm") : j < i
  /\ \A i \in Queued("Bind") : hpc[queue[i].who] \in {"binding", "done"}
  /\ \A i \in Queued("Bind"), h \in Handoffs :
       hpc[h] \notin Answered /\ (hpc[h] = "binding" => queue[i].who <= h)
  /\ current.boot # 0 => /\ hpc[current.caller] \in Answered \cup {"binding", "done"}
                         /\ \A i \in Queued("Bind") : current.caller < queue[i].who

\* The status is that of a later boot, and nobody will confirm the current attempt any more.
Overtaken ==
  /\ current.boot < status_boot
  /\ \E k \in Handoffs : Known(k) /\ hboot[k] = status_boot /\ \A i \in Queued("Bind") : k <= queue[i].who
  /\ hpc[current.caller] # "binding"
  /\ \A h \in Handoffs : hpc[h] \in Answered => hbinding[h] # current.binding
  /\ \A i \in Queued("Confirm") : hbinding[queue[i].who] # current.binding

\* The status shows the attempt, with its binding while the port is held that it was read on.
Fresh ==
  /\ status_boot = current.boot
  /\ current.replied /\ lease => status_binding = current.binding

StatusIsCurrent ==
  /\ BoundIsHeld
  /\ current.replied => current.boot # 0
  /\ current.boot # 0 /\ phase # "Failed" => Fresh \/ Overtaken

BoundInv == TasksAreOrdered /\ QueueIsOrdered /\ StatusIsCurrent

\* What a command says of the task it names.
LEMMA CommandsAreTyped ==
  ASSUME HandoffInv
  PROVE  /\ queue \in Seq(Command) /\ Len(queue) \in Nat
         /\ \A i \in Queued("Bind") : /\ i \in Nat /\ i >= 1 /\ i <= Len(queue)
                                      /\ queue[i].who \in Handoffs /\ Known(queue[i].who)
         /\ \A i \in Queued("Confirm") : i \in Nat /\ i >= 1 /\ i <= Len(queue) /\ queue[i].who \in Handoffs
  <1>1. queue \in Seq(Command)
    BY DEF HandoffInv, TypeOK, RuntimeTypes
  <1>2. \A i \in Queued("Confirm") : queue[i] \in Command /\ i \in 1..Len(queue)
    BY <1>1 DEF Queued
  <1>3. \A i \in Queued("Confirm") : queue[i].who \in Handoffs
    BY <1>2 DEF Queued, Command
  <1> QED
    BY <1>1, <1>2, <1>3, QueueIsKnown DEF Queued, Known

\* Places in the queue only move forward, as long as no bind or confirmation is added.
Moved(n) ==
  /\ \A i \in Queued("Bind")' : i + n \in Queued("Bind") /\ queue'[i] = queue[i + n]
  /\ \A i \in Queued("Confirm")' : i + n \in Queued("Confirm") /\ queue'[i] = queue[i + n]

LEMMA QueueMoves ==
  ASSUME HandoffInv
  PROVE  /\ queue' = queue \/ queue' = <<>> => Moved(0)
         /\ queue' = Tail(queue) /\ queue # <<>> => Moved(1)
         /\ \A c \in Command : queue' = Append(queue, c) /\ c.kind \in {"Restart", "Fail"} => Moved(0)
  <1>1. queue \in Seq(Command) /\ Len(queue) \in Nat
    BY CommandsAreTyped
  <1>2. queue' = queue \/ queue' = <<>> => Moved(0)
    BY <1>1 DEF Moved, Queued
  <1>3. ASSUME queue' = Tail(queue), queue # <<>> PROVE Moved(1)
    <2>1. Len(queue') = Len(queue) - 1 /\ \A i \in 1..Len(queue') : queue'[i] = queue[i + 1]
      BY <1>1, <1>3
    <2> QED
      BY <1>1, <2>1 DEF Moved, Queued
  <1>4. ASSUME NEW c \in Command, queue' = Append(queue, c), c.kind \in {"Restart", "Fail"} PROVE Moved(0)
    <2>1. /\ Len(queue') = Len(queue) + 1 /\ queue'[Len(queue) + 1] = c
          /\ \A i \in 1..Len(queue) : queue'[i] = queue[i]
      BY <1>1, <1>4
    <2> QED
      BY <1>1, <1>4, <2>1 DEF Moved, Queued
  <1> QED
    BY <1>2, <1>3, <1>4

\* How the tasks go on in most steps: a task ends, or stays on its side of the bind.
Goings ==
  \A h \in Handoffs :
    \/ hpc'[h] = hpc[h]
    \/ Known(h) /\ hpc'[h] = "done"
    \/ Known(h) /\ hpc[h] \notin Answered \cup {"done", "binding"} /\ hpc'[h] \notin Answered \cup {"idle", "binding"}
    \/ hpc[h] \in Answered /\ hpc'[h] \in Answered

\* No task passes the bind or comes to it.
Sides ==
  \A h \in Handoffs :
    /\ Known(h) => Known(h)'
    /\ hpc[h] \in {"binding", "done"} => hpc'[h] \in {"binding", "done"}
    /\ hpc[h] \in Answered => hpc'[h] \in Answered \cup {"done"}
    /\ hpc'[h] \in Answered => hpc[h] \in Answered
    /\ hpc'[h] = "binding" => hpc[h] = "binding"

LEMMA GoingsKeepSides == Goings => Sides
  BY DEF Goings, Sides, Known, Answered, Armed

\* The tasks stay in their order in a step that starts none of them.
LEMMA OrderKept ==
  ASSUME TasksAreOrdered, HandoffInv, HandoffInv', boot' >= boot, hboot' = hboot, aborted \subseteq aborted',
         \A h \in Handoffs : (Known(h)' <=> Known(h)) /\ (hpc[h] = "done" => hpc'[h] = "done"),
         \A h \in Handoffs : hpc'[h] \in Holding => lock' = h
  PROVE  TasksAreOrdered'
  <1>1. boot \in Nat /\ boot' \in Nat /\ hboot \in [Handoffs -> Nat]
    BY DEF HandoffInv, TypeOK, DeviceTypes, HandoffTypes
  <1>2. \A h \in Handoffs : Known(h)' => hboot'[h] <= boot'
    BY <1>1 DEF TasksAreOrdered
  <1>3. \A h, k \in Handoffs : k < h /\ Known(h)' =>
          Known(k)' /\ hboot'[k] <= hboot'[h] /\ (k \in aborted' \/ hpc'[k] = "done")
    BY DEF TasksAreOrdered
  <1> QED
    BY <1>2, <1>3 DEF TasksAreOrdered

\* The queue stays in its order in a step that adds no bind and answers none.
LEMMA QueueKept ==
  ASSUME QueueIsOrdered, HandoffInv, HandoffInv', Sides, NEW n \in Nat, Moved(n),
         current'.boot # 0 => current.boot # 0 /\ current'.caller = current.caller
  PROVE  QueueIsOrdered'
  <1>1. /\ \A i \in Queued("Bind") : i \in Nat /\ queue[i].who \in Handoffs /\ Known(queue[i].who)
        /\ \A i \in Queued("Confirm") : i \in Nat
    BY CommandsAreTyped
  <1>2. /\ \A i \in Queued("Bind")' : i \in Nat
        /\ \A i \in Queued("Confirm")' : i \in Nat
    BY DEF HandoffInv, TypeOK, RuntimeTypes, Queued
  <1>3. \A i, j \in Queued("Bind")' : i < j => queue'[i].who < queue'[j].who
    BY <1>2 DEF QueueIsOrdered, Moved
  <1>4. \A i \in Queued("Bind")', j \in Queued("Confirm")' : j < i
    BY <1>2 DEF QueueIsOrdered, Moved
  <1>5. \A i \in Queued("Bind")' : hpc'[queue'[i].who] \in {"binding", "done"}
    BY <1>1 DEF QueueIsOrdered, Moved, Sides, Answered, Armed
  <1>6. \A i \in Queued("Bind")', h \in Handoffs :
          hpc'[h] \notin Answered /\ (hpc'[h] = "binding" => queue'[i].who <= h)
    BY <1>1 DEF QueueIsOrdered, Moved, Sides, Answered, Armed
  <1>7. current'.boot # 0 => /\ hpc'[current'.caller] \in Answered \cup {"binding", "done"}
                            /\ \A i \in Queued("Bind")' : current'.caller < queue'[i].who
    <2>1. current'.boot # 0 => current'.caller \in Handoffs
      BY DEF HandoffInv, CallersAreKnown
    <2> QED
      BY <2>1 DEF QueueIsOrdered, Moved, Sides
  <1> QED
    BY <1>3, <1>4, <1>5, <1>6, <1>7 DEF QueueIsOrdered

\* A step that leaves the attempt alone keeps what is shown of it.
LEMMA StatusKept ==
  ASSUME StatusIsCurrent, HandoffInv, HandoffInv', Sides, UNCHANGED <<hbinding, current>>,
         \A h \in Handoffs : Known(h) => hboot'[h] = hboot[h],
         NEW n \in Nat, Moved(n), lease' => lease, phase' = "Bound" => phase = "Bound" /\ lease',
         phase' = "Failed" \/ (phase # "Failed" /\ UNCHANGED <<status_boot, status_binding>>)
  PROVE  StatusIsCurrent'
  <1>1. BoundIsHeld' /\ (current'.replied => current'.boot # 0)
    BY DEF StatusIsCurrent, BoundIsHeld
  <1>2. ASSUME current'.boot # 0, phase' # "Failed", Fresh PROVE Fresh'
    BY <1>2 DEF Fresh
  <1>3. ASSUME current'.boot # 0, phase' # "Failed", Overtaken PROVE Overtaken'
    <2>1. \A h \in Handoffs : /\ hpc'[h] \in Answered => hpc[h] \in Answered
                              /\ hpc'[h] = "binding" => hpc[h] = "binding"
                              /\ Known(h) => Known(h)'
      BY DEF Sides, Answered, Armed
    <2>2. current.caller \in Handoffs
      BY <1>3 DEF HandoffInv, CallersAreKnown
    <2>3. \E k \in Handoffs : Known(k)' /\ hboot'[k] = status_boot' /\ \A i \in Queued("Bind")' : k <= queue'[i].who
      BY <1>3, <2>1 DEF Overtaken, Moved
    <2>4. \A h \in Handoffs : hpc'[h] \in Answered => hbinding'[h] # current'.binding
      BY <1>3, <2>1 DEF Overtaken
    <2>5. \A i \in Queued("Confirm")' : hbinding'[queue'[i].who] # current'.binding
      BY <1>3 DEF Overtaken, Moved
    <2>6. current'.boot < status_boot' /\ hpc'[current'.caller] # "binding"
      BY <1>3, <2>1, <2>2 DEF Overtaken
    <2> QED
      BY <2>3, <2>4, <2>5, <2>6 DEF Overtaken
  <1> QED
    BY <1>1, <1>2, <1>3 DEF StatusIsCurrent

\* A step that keeps the order of the tasks and of the queue, and that leaves the attempt alone
\* or gives it up, keeps the invariant.
LEMMA QuietKeepsBound ==
  ASSUME BoundInv, HandoffInv, HandoffInv', boot' >= boot, aborted \subseteq aborted', UNCHANGED <<hboot, hbinding>>,
         Goings, \A h \in Handoffs : hpc'[h] \in Holding => lock' = h,
         NEW n \in Nat, Moved(n),
         \/ /\ UNCHANGED current /\ (lease' => lease) /\ (phase' = "Bound" => phase = "Bound" /\ lease')
            /\ phase' = "Failed" \/ (phase # "Failed" /\ UNCHANGED <<status_boot, status_binding>>)
         \/ current' = NoAttempt /\ phase' # "Bound"
  PROVE  BoundInv'
  <1>1. \A h \in Handoffs : (Known(h)' <=> Known(h)) /\ (hpc[h] = "done" => hpc'[h] = "done")
    BY DEF Goings, Known, Answered, Armed
  <1> Sides
    BY GoingsKeepSides
  <1>2. TasksAreOrdered'
    BY <1>1, OrderKept DEF BoundInv
  <1>3. QueueIsOrdered'
    <2>1. current'.boot # 0 => current.boot # 0 /\ current'.caller = current.caller
      BY DEF NoAttempt
    <2> QED
      BY <2>1, QueueKept DEF BoundInv
  <1>4. StatusIsCurrent'
    <2>1. CASE current' = NoAttempt /\ phase' # "Bound"
      BY <2>1 DEF StatusIsCurrent, BoundIsHeld, NoAttempt
    <2>2. CASE ~(current' = NoAttempt /\ phase' # "Bound")
      BY <2>2, StatusKept DEF BoundInv
    <2> QED
      BY <2>1, <2>2
  <1> QED
    BY <1>2, <1>3, <1>4 DEF BoundInv

\* The tasks when one of them ends, goes on, or stays.
LEMMA TasksGoOn ==
  ASSUME TasksAreOrdered, HandoffInv
  PROVE  /\ UNCHANGED <<hpc, lock>> => Goings /\ \A k \in Handoffs : hpc'[k] \in Holding => lock' = k
         /\ \A h \in Handoffs : Known(h) /\ Ends(h) =>
              Goings /\ \A k \in Handoffs : hpc'[k] \in Holding => lock' = k
  <1>1. hpc \in [Handoffs -> HandoffPhase] /\ 0 \notin Handoffs
    BY DEF HandoffInv, TypeOK, HandoffTypes
  <1>2. UNCHANGED <<hpc, lock>> => Goings /\ \A k \in Handoffs : hpc'[k] \in Holding => lock' = k
    BY DEF Goings, TasksAreOrdered
  <1>3. ASSUME NEW h \in Handoffs, Known(h), Ends(h)
        PROVE  Goings /\ \A k \in Handoffs : hpc'[k] \in Holding => lock' = k
    <2>1. /\ hpc'[h] = "done" /\ \A k \in Handoffs : k # h => hpc'[k] = hpc[k]
          /\ lock' = IF lock = h THEN 0 ELSE lock
      BY <1>1, <1>3 DEF Ends
    <2>2. Goings
      BY <1>3, <2>1 DEF Goings
    <2>3. \A k \in Handoffs : hpc'[k] \in Holding => lock' = k
      BY <2>1 DEF TasksAreOrdered, Holding
    <2> QED
      BY <2>2, <2>3
  <1> QED
    BY <1>2, <1>3

\* A task goes from one point to the next.
LEMMA TaskGoesOn ==
  ASSUME TasksAreOrdered, HandoffInv, NEW h \in Handoffs, NEW to \in HandoffPhase,
         hpc' = [hpc EXCEPT ![h] = to],
         \/ hpc[h] \in Answered /\ to \in Answered
         \/ Known(h) /\ hpc[h] \notin Answered \cup {"done", "binding"} /\ to \notin Answered \cup {"idle", "binding"},
         to \in Holding => lock' = h, \A k \in Handoffs : k # h /\ lock = k => lock' = k
  PROVE  Goings /\ \A k \in Handoffs : hpc'[k] \in Holding => lock' = k
  <1>1. hpc \in [Handoffs -> HandoffPhase]
    BY DEF HandoffInv, TypeOK, HandoffTypes
  <1>2. hpc'[h] = to /\ \A k \in Handoffs : k # h => hpc'[k] = hpc[k]
    BY <1>1
  <1>3. Goings
    BY <1>2 DEF Goings
  <1>4. \A k \in Handoffs : hpc'[k] \in Holding => lock' = k
    BY <1>2 DEF TasksAreOrdered
  <1> QED
    BY <1>3, <1>4

\* The device, the client and the power calls do not reach what is shown.
LEMMA OutsideKeepsBound ==
  ASSUME BoundInv, HandoffInv, HandoffInv',
         \/ DeviceReboots \/ StaleAnnouncement \/ StopRequested \/ ShutdownSignalled
         \/ (\E m \in revokes : Revoked(m)) \/ \E p \in Powers : Power(p)
  PROVE  BoundInv'
  <1>1. boot \in Nat
    BY DEF HandoffInv, TypeOK, DeviceTypes
  <1>2. UNCHANGED <<hpc, lock, hboot, hbinding, current, lease, statusVars>> /\ aborted \subseteq aborted'
    BY DEF DeviceReboots, StaleAnnouncement, StopRequested, ShutdownSignalled, Revoked, Power,
         PowerBegins, PowerRetires, PowerUnanswered, PowerActs
  <1>6. boot' = boot \/ boot' = boot + 1
    BY DEF DeviceReboots, StaleAnnouncement, StopRequested, ShutdownSignalled, Revoked, Power,
         PowerBegins, PowerRetires, PowerUnanswered, PowerActs
  <1>7. phase = "Bound" => lease
    BY DEF BoundInv, StatusIsCurrent, BoundIsHeld
  <1>3. \/ queue' = queue
        \/ \E p \in Powers : queue' = Append(queue, [kind |-> "Restart", who |-> p])
    BY DEF DeviceReboots, StaleAnnouncement, StopRequested, ShutdownSignalled, Revoked, Power,
         PowerBegins, PowerRetires, PowerUnanswered, PowerActs
  <1>4. Moved(0)
    <2>1. \A p \in Powers : [kind |-> "Restart", who |-> p] \in Command
      BY DEF Command
    <2> QED
      BY <1>3, <2>1, QueueMoves
  <1>5. Goings /\ \A k \in Handoffs : hpc'[k] \in Holding => lock' = k
    BY <1>2, TasksGoOn DEF BoundInv
  <1> QED
    BY <1>1, <1>2, <1>4, <1>5, <1>6, <1>7, QuietKeepsBound

\* A task that neither begins nor sends a command to the runtime.
LEMMA HandoffKeepsBound ==
  ASSUME BoundInv, HandoffInv, HandoffInv', NEW h \in Handoffs,
         \/ HandoffSubscribe(h) \/ HandoffLocked(h) \/ HandoffPreflightFails(h)
         \/ HandoffDecides(h) \/ HandoffRevokes(h) \/ HandoffContinue(h) \/ ContinueArrives(h)
         \/ HandoffStart(h) \/ HandoffRequestFails(h) \/ HandoffUnanswered(h) \/ HandoffDropped(h)
  PROVE  BoundInv'
  <1>1. boot \in Nat /\ boot >= boot
    BY DEF HandoffInv, TypeOK, DeviceTypes
  <1>2. UNCHANGED <<hboot, hbinding, current, lease, boot, aborted>>
    BY DEF HandoffSubscribe, HandoffLocked, HandoffPreflightFails, HandoffDecides, HandoffRevokes, HandoffContinue,
         ContinueArrives, HandoffStart, HandoffRequestFails, HandoffUnanswered, HandoffDropped
  <1>3. phase' = "Failed" \/ (phase # "Failed" /\ UNCHANGED statusVars)
    BY DEF HandoffSubscribe, HandoffLocked, HandoffPreflightFails, HandoffDecides, HandoffRevokes, HandoffContinue,
         ContinueArrives, HandoffStart, HandoffRequestFails, HandoffUnanswered, HandoffDropped, Publish
  <1>4. Moved(0)
    <2>1. queue' = queue \/ queue' = Append(queue, [kind |-> "Fail", who |-> h])
      BY DEF HandoffSubscribe, HandoffLocked, HandoffPreflightFails, HandoffDecides, HandoffRevokes, HandoffContinue,
           ContinueArrives, HandoffStart, HandoffRequestFails, HandoffUnanswered, HandoffDropped
    <2>2. [kind |-> "Fail", who |-> h] \in Command
      BY DEF Command
    <2> QED
      BY <2>1, <2>2, QueueMoves
  <1>5. Goings /\ \A k \in Handoffs : hpc'[k] \in Holding => lock' = k
    <2> DEFINE Going == Goings /\ \A k \in Handoffs : hpc'[k] \in Holding => lock' = k
    <2>0. TasksAreOrdered /\ 0 \notin Handoffs
      BY DEF BoundInv
    <2>11. {"observed", "queued", "checked", "revoking", "clean"} \cap (Answered \cup {"done", "binding", "idle"}) = {}
      BY DEF Answered, Armed
    <2>1. Known(h) /\ Ends(h) => Going
      BY <2>0, TasksGoOn
    <2>2. UNCHANGED <<hpc, lock>> => Going
      BY <2>0, TasksGoOn
    <2>3. CASE HandoffSubscribe(h)
      <3>1. "queued" \in HandoffPhase \ (Answered \cup Holding)
        BY DEF HandoffPhase, Answered, Armed, Holding
      <3> QED
        BY <2>0, <2>3, <3>1, <2>11, TaskGoesOn DEF HandoffSubscribe, Goes, Known
    <2>4. CASE HandoffLocked(h)
      <3>1. "checked" \in HandoffPhase \ Answered
        BY DEF HandoffPhase, Answered, Armed
      <3> QED
        BY <2>0, <2>1, <2>4, <3>1, <2>11, TaskGoesOn DEF HandoffLocked, Known
    <2>5. CASE HandoffDecides(h)
      <3>1. {"revoking", "clean"} \subseteq HandoffPhase \ Answered
        BY DEF HandoffPhase, Answered, Armed
      <3>2. lock = h
        BY <2>0, <2>5 DEF TasksAreOrdered, HandoffDecides, Goes, Holding, HandoffPhase
      <3> QED
        BY <2>0, <2>5, <3>1, <3>2, <2>11, TaskGoesOn DEF HandoffDecides, Goes, Known
    <2>6. CASE HandoffRevokes(h)
      <3>1. "clean" \in HandoffPhase \ Answered
        BY DEF HandoffPhase, Answered, Armed
      <3>2. lock = h
        BY <2>0, <2>6 DEF TasksAreOrdered, HandoffRevokes, Holding, HandoffPhase
      <3> QED
        BY <2>0, <2>1, <2>6, <3>1, <3>2, <2>11, TaskGoesOn DEF HandoffRevokes, Known
    <2>7. CASE HandoffContinue(h)
      <3>1. {"bound", "continuing"} \subseteq Answered /\ Answered \subseteq HandoffPhase /\ Answered \subseteq Holding
        BY DEF HandoffPhase, Answered, Armed, Holding
      <3>2. lock = h
        BY <2>0, <2>7, <3>1 DEF TasksAreOrdered, HandoffContinue
      <3>3. hpc[h] = "bound" /\ (Ends(h) \/ (hpc' = [hpc EXCEPT ![h] = "continuing"] /\ lock' = lock))
        BY <2>7 DEF HandoffContinue
      <3>4. CASE hpc' = [hpc EXCEPT ![h] = "continuing"] /\ lock' = lock
        BY <2>0, <3>1, <3>2, <3>3, <3>4, TaskGoesOn
      <3> QED
        BY <2>1, <3>3, <3>4 DEF Known
    <2>8. CASE ContinueArrives(h)
      <3>1. {"continued", "continuing"} \subseteq Answered /\ Answered \subseteq HandoffPhase /\ Answered \subseteq Holding
        BY DEF HandoffPhase, Answered, Armed, Holding
      <3>2. \/ UNCHANGED <<hpc, lock>>
            \/ hpc[h] = "continuing" /\ hpc' = [hpc EXCEPT ![h] = "continued"] /\ UNCHANGED lock
            \/ hpc[h] = "continuing" /\ Ends(h)
        BY <2>8 DEF ContinueArrives
      <3>3. hpc[h] = "continuing" => lock = h
        BY <2>0, <3>1 DEF TasksAreOrdered
      <3>4. CASE hpc[h] = "continuing" /\ hpc' = [hpc EXCEPT ![h] = "continued"] /\ UNCHANGED lock
        BY <2>0, <3>1, <3>3, <3>4, TaskGoesOn
      <3> QED
        BY <2>1, <2>2, <3>2, <3>4 DEF Known
    <2>9. CASE HandoffStart(h)
      <3>1. "confirmed" \in Holding
        BY DEF HandoffPhase, Holding
      <3>2. "done" \in HandoffPhase \ (Answered \cup Holding)
        BY DEF HandoffPhase, Answered, Armed, Holding
      <3>3. lock = h
        BY <2>0, <2>9, <3>1 DEF TasksAreOrdered, HandoffStart
      <3>4. (hpc' = [hpc EXCEPT ![h] = "done"] /\ lock' = 0) \/ Ends(h)
        BY <2>9 DEF HandoffStart
      <3>5. hpc \in [Handoffs -> HandoffPhase] /\ hpc[h] = "confirmed"
        BY <2>9 DEF HandoffStart, HandoffInv, TypeOK, HandoffTypes
      <3>6. ASSUME hpc' = [hpc EXCEPT ![h] = "done"], lock' = 0 PROVE Going
        <4>1. hpc'[h] = "done" /\ \A k \in Handoffs : k # h => hpc'[k] = hpc[k]
          BY <3>5, <3>6
        <4>2. Goings
          BY <3>5, <4>1 DEF Goings, Known
        <4>3. \A k \in Handoffs : hpc'[k] \in Holding => lock' = k
          BY <2>0, <3>2, <3>3, <4>1 DEF TasksAreOrdered
        <4> QED
          BY <4>2, <4>3
      <3> QED
        BY <2>1, <3>4, <3>5, <3>6 DEF Known
    <2>10. CASE HandoffPreflightFails(h) \/ HandoffRequestFails(h) \/ HandoffUnanswered(h) \/ HandoffDropped(h)
      <3>1. Known(h) /\ Ends(h)
        BY <2>10 DEF HandoffPreflightFails, HandoffRequestFails, HandoffUnanswered, HandoffDropped, Known, Unfinished
      <3> QED
        BY <2>1, <3>1
    <2> QED
      BY <2>3, <2>4, <2>5, <2>6, <2>7, <2>8, <2>9, <2>10
  <1>6. phase = "Bound" => lease
    BY DEF BoundInv, StatusIsCurrent, BoundIsHeld
  <1> QED
    BY <1>1, <1>2, <1>3, <1>4, <1>5, <1>6, QuietKeepsBound

\* An announcement starts a task: every other one has ended or is aborted.
LEMMA ObserveKeepsBound ==
  ASSUME BoundInv, HandoffInv, HandoffInv', NEW h \in Handoffs, HandoffObserve(h)
  PROVE  BoundInv'
  <1>1. /\ hpc \in [Handoffs -> HandoffPhase] /\ hboot \in [Handoffs -> Nat] /\ boot \in Nat
        /\ hpc[h] = "idle" /\ ~Known(h)
    BY DEF HandoffInv, TypeOK, HandoffTypes, DeviceTypes, HandoffObserve, Known
  <1>2. /\ hpc'[h] = "observed" /\ \A k \in Handoffs : k # h => hpc'[k] = hpc[k]
        /\ hboot'[h] = boot /\ \A k \in Handoffs : k # h => hboot'[k] = hboot[k]
        /\ aborted' = aborted \cup Unfinished
        /\ UNCHANGED <<boot, lock, queue, lease, current, statusVars, hbinding>>
    BY <1>1 DEF HandoffObserve
  <1>3. \A k \in Handoffs : k < h => Known(k)
    BY DEF HandoffObserve, Known
  <1>4. TasksAreOrdered'
    <2>1. \A k \in Handoffs : Known(k)' => hboot'[k] <= boot'
      BY <1>1, <1>2 DEF BoundInv, TasksAreOrdered, Known
    <2>2. ASSUME NEW a \in Handoffs, NEW k \in Handoffs, k < a, Known(a)'
          PROVE  Known(k)' /\ hboot'[k] <= hboot'[a] /\ (k \in aborted' \/ hpc'[k] = "done")
      <3>1. CASE a = h
        <4>1. Known(k) /\ k # h /\ hboot[k] <= boot
          BY <1>3, <2>2, <3>1 DEF BoundInv, TasksAreOrdered
        <4>2. k \in Unfinished \/ hpc[k] = "done"
          BY <4>1 DEF Unfinished, Known
        <4> QED
          BY <1>2, <3>1, <4>1, <4>2 DEF Known
      <3>2. CASE a # h
        <4>1. Known(a)
          BY <1>2, <2>2, <3>2 DEF Known
        <4>2. Known(k) /\ hboot[k] <= hboot[a] /\ (k \in aborted \/ hpc[k] = "done")
          BY <2>2, <4>1 DEF BoundInv, TasksAreOrdered
        <4>3. k # h
          BY <1>1, <4>2
        <4> QED
          BY <1>2, <3>2, <4>2, <4>3 DEF Known
      <3> QED
        BY <3>1, <3>2
    <2>3. \A k \in Handoffs : hpc'[k] \in Holding => lock' = k
      BY <1>2 DEF BoundInv, TasksAreOrdered, Holding
    <2> QED
      BY <2>1, <2>2, <2>3 DEF TasksAreOrdered
  <1>5. Sides
    BY <1>1, <1>2 DEF Sides, Known, Answered, Armed
  <1>6. Moved(0)
    BY <1>2, QueueMoves
  <1>7. QueueIsOrdered'
    BY <1>2, <1>5, <1>6, QueueKept DEF BoundInv
  <1>8. StatusIsCurrent'
    <2>1. phase = "Bound" => lease
      BY DEF BoundInv, StatusIsCurrent, BoundIsHeld
    <2>2. \A k \in Handoffs : Known(k) => hboot'[k] = hboot[k]
      BY <1>1, <1>2
    <2> QED
      BY <1>2, <1>5, <1>6, <2>1, <2>2, StatusKept DEF BoundInv
  <1> QED
    BY <1>4, <1>7, <1>8 DEF BoundInv

\* The task that goes on is the last that was started.
LEMMA RunningIsLast ==
  ASSUME BoundInv, HandoffInv, NEW h \in Handoffs, Runs(h), hpc[h] # "done", NEW k \in Handoffs, Known(k)
  PROVE  k <= h
  BY DEF BoundInv, TasksAreOrdered, Runs

\* A bind is sent by the last task, after every other command.
LEMMA SendBindKeepsBound ==
  ASSUME BoundInv, HandoffInv, HandoffInv', NEW h \in Handoffs, HandoffBind(h)
  PROVE  BoundInv'
  <1>1. /\ hpc \in [Handoffs -> HandoffPhase] /\ hpc[h] = "clean" /\ Known(h) /\ boot \in Nat
        /\ lock = h
    <2>1. "clean" \in Holding
      BY DEF Holding, HandoffPhase
    <2> QED
      BY <2>1 DEF HandoffInv, TypeOK, HandoffTypes, DeviceTypes, HandoffBind, Known, BoundInv, TasksAreOrdered
  <1>2. UNCHANGED <<boot, aborted, hboot, hbinding, current, lease, statusVars>>
    BY DEF HandoffBind
  <1>3. phase = "Bound" => lease
    BY DEF BoundInv, StatusIsCurrent, BoundIsHeld
  <1>4. CASE ~running
    <2>1. Ends(h) /\ queue' = queue
      BY <1>4 DEF HandoffBind
    <2>2. Goings /\ \A k \in Handoffs : hpc'[k] \in Holding => lock' = k
      BY <1>1, <2>1, TasksGoOn DEF BoundInv
    <2>3. Moved(0)
      BY <2>1, QueueMoves
    <2> QED
      BY <1>1, <1>2, <1>3, <2>2, <2>3, QuietKeepsBound
  <1>5. CASE running
    <2> DEFINE n == Len(queue) + 1
    <2>1. /\ hpc'[h] = "binding" /\ \A k \in Handoffs : k # h => hpc'[k] = hpc[k]
          /\ lock' = lock
          /\ queue \in Seq(Command) /\ queue' = Append(queue, [kind |-> "Bind", who |-> h])
      BY <1>1, <1>5, CommandsAreTyped DEF HandoffBind
    <2>2. /\ \A i \in Queued("Bind")' : (i \in Queued("Bind") /\ queue'[i] = queue[i]) \/ (i = n /\ queue'[i].who = h)
          /\ \A i \in Queued("Confirm")' : i \in Queued("Confirm") /\ queue'[i] = queue[i]
          /\ \A i \in Queued("Bind") \cup Queued("Confirm") : i \in Nat /\ i < n
      BY <2>1, CommandsAreTyped DEF Queued
    <2>3. Runs(h)
      BY DEF HandoffBind
    <2>4. \A k \in Handoffs : k # h => hpc[k] \notin Answered \cup {"binding"}
      BY <1>1 DEF BoundInv, TasksAreOrdered, Holding, HandoffPhase, Answered, Armed
    <2>5. \A i \in Queued("Bind") : queue[i].who \in Handoffs /\ queue[i].who < h
      <3>1. \A i \in Queued("Bind") : queue[i].who \in Handoffs /\ queue[i].who <= h
        BY <1>1, <2>3, RunningIsLast, CommandsAreTyped
      <3> QED
        BY <1>1, <3>1 DEF BoundInv, QueueIsOrdered
    <2>6. current.boot # 0 => /\ current.caller \in Handoffs /\ current.caller < h
                              /\ hpc[current.caller] \in Answered \cup {"binding", "done"}
      <3>1. current.boot # 0 => /\ current.caller \in Handoffs /\ Known(current.caller)
                                /\ hpc[current.caller] \in Answered \cup {"binding", "done"}
        BY DEF BoundInv, QueueIsOrdered, HandoffInv, CallersAreKnown, Known
      <3>2. "clean" \notin Answered
        BY DEF Answered, Armed
      <3> QED
        BY <1>1, <2>3, <3>1, <3>2, RunningIsLast
    <2>7. TasksAreOrdered'
      <3>1. \A k \in Handoffs : (Known(k)' <=> Known(k)) /\ (hpc[k] = "done" => hpc'[k] = "done")
        BY <1>1, <2>1 DEF Known
      <3>2. \A k \in Handoffs : hpc'[k] \in Holding => lock' = k
        BY <1>1, <2>1 DEF BoundInv, TasksAreOrdered
      <3> QED
        BY <1>1, <1>2, <3>1, <3>2, OrderKept DEF BoundInv
    <2>8. QueueIsOrdered'
      <3>1. \A i, j \in Queued("Bind")' : i < j => queue'[i].who < queue'[j].who
        BY <2>2, <2>5 DEF BoundInv, QueueIsOrdered
      <3>2. \A i \in Queued("Bind")', j \in Queued("Confirm")' : j < i
        BY <2>2 DEF BoundInv, QueueIsOrdered
      <3>3. ASSUME NEW i \in Queued("Bind")' PROVE hpc'[queue'[i].who] \in {"binding", "done"}
        <4>1. CASE queue'[i].who = h
          BY <2>1, <4>1
        <4>2. CASE i \in Queued("Bind") /\ queue'[i] = queue[i]
          <5>1. queue[i].who \in Handoffs /\ queue[i].who # h
            BY <1>1, <2>5, <4>2
          <5> QED
            BY <2>1, <4>2, <5>1 DEF BoundInv, QueueIsOrdered
        <4> QED
          BY <2>2, <4>1, <4>2
      <3>4. ASSUME NEW i \in Queued("Bind")', NEW k \in Handoffs
            PROVE  hpc'[k] \notin Answered /\ (hpc'[k] = "binding" => queue'[i].who <= k)
        <4>1. hpc'[k] \notin Answered /\ (hpc'[k] = "binding" => k = h)
          BY <2>1, <2>4 DEF Answered, Armed
        <4>2. queue'[i].who <= h
          BY <1>1, <2>2, <2>5
        <4> QED
          BY <4>1, <4>2
      <3>5. current'.boot # 0 => /\ hpc'[current'.caller] \in Answered \cup {"binding", "done"}
                                /\ \A i \in Queued("Bind")' : current'.caller < queue'[i].who
        BY <1>2, <2>1, <2>2, <2>6 DEF BoundInv, QueueIsOrdered
      <3> QED
        BY <3>1, <3>2, <3>3, <3>4, <3>5 DEF QueueIsOrdered
    <2>9. StatusIsCurrent'
      <3>1. BoundIsHeld' /\ (current'.replied => current'.boot # 0)
        BY <1>2 DEF BoundInv, StatusIsCurrent, BoundIsHeld
      <3>2. Fresh => Fresh'
        BY <1>2 DEF Fresh
      <3>3. ASSUME current.boot # 0, Overtaken PROVE Overtaken'
        <4>1. PICK k \in Handoffs : Known(k) /\ hboot[k] = status_boot /\ \A i \in Queued("Bind") : k <= queue[i].who
          BY <3>3 DEF Overtaken
        <4>2. k <= h
          BY <1>1, <2>3, <4>1, RunningIsLast
        <4>3. Known(k)' /\ hboot'[k] = status_boot' /\ \A i \in Queued("Bind")' : k <= queue'[i].who
          <5>1. Known(k)' /\ hboot'[k] = status_boot'
            BY <1>2, <2>1, <4>1 DEF Known
          <5>2. \A i \in Queued("Bind")' : k <= queue'[i].who
            BY <2>2, <4>1, <4>2
          <5> QED
            BY <5>1, <5>2
        <4>4. hpc'[current'.caller] # "binding" /\ current'.boot < status_boot'
          BY <1>2, <2>1, <2>6, <3>3 DEF Overtaken
        <4>5. \A a \in Handoffs : hpc'[a] \in Answered => hbinding'[a] # current'.binding
          BY <1>2, <2>1, <3>3 DEF Overtaken, Answered, Armed
        <4>6. \A i \in Queued("Confirm")' : hbinding'[queue'[i].who] # current'.binding
          BY <1>2, <2>2, <3>3 DEF Overtaken
        <4> QED
          BY <4>3, <4>4, <4>5, <4>6 DEF Overtaken
      <3> QED
        BY <1>2, <3>1, <3>2, <3>3 DEF BoundInv, StatusIsCurrent
    <2> QED
      BY <2>7, <2>8, <2>9 DEF BoundInv
  <1> QED
    BY <1>4, <1>5

\* A confirmation is sent when no bind waits any more.
LEMMA SendConfirmKeepsBound ==
  ASSUME BoundInv, HandoffInv, HandoffInv', NEW h \in Handoffs, HandoffConfirm(h)
  PROVE  BoundInv'
  <1>1. /\ hpc \in [Handoffs -> HandoffPhase] /\ hpc[h] = "continued" /\ Known(h) /\ boot \in Nat
        /\ lock = h
    <2>1. "continued" \in Holding
      BY DEF Holding, HandoffPhase
    <2> QED
      BY <2>1 DEF HandoffInv, TypeOK, HandoffTypes, DeviceTypes, HandoffConfirm, Known, BoundInv, TasksAreOrdered
  <1>2. UNCHANGED <<boot, aborted, hboot, hbinding, current, lease, statusVars>>
    BY DEF HandoffConfirm
  <1>3. phase = "Bound" => lease
    BY DEF BoundInv, StatusIsCurrent, BoundIsHeld
  <1>0. {"continued", "confirming"} \subseteq Answered /\ Answered \subseteq HandoffPhase
    BY DEF Answered, Armed, HandoffPhase
  <1>4. CASE ~running
    <2>1. Ends(h) /\ queue' = queue
      BY <1>4 DEF HandoffConfirm
    <2>2. Goings /\ \A k \in Handoffs : hpc'[k] \in Holding => lock' = k
      BY <1>1, <2>1, TasksGoOn DEF BoundInv
    <2>3. Moved(0)
      BY <2>1, QueueMoves
    <2> QED
      BY <1>1, <1>2, <1>3, <2>2, <2>3, QuietKeepsBound
  <1>5. CASE running
    <2> DEFINE n == Len(queue) + 1
    <2>1. /\ hpc' = [hpc EXCEPT ![h] = "confirming"] /\ lock' = lock
          /\ queue \in Seq(Command) /\ queue' = Append(queue, [kind |-> "Confirm", who |-> h])
      BY <1>1, <1>5, CommandsAreTyped DEF HandoffConfirm
    <2>2. /\ \A i \in Queued("Bind")' : i \in Queued("Bind") /\ queue'[i] = queue[i]
          /\ \A i \in Queued("Confirm")' : (i \in Queued("Confirm") /\ queue'[i] = queue[i]) \/ queue'[i].who = h
      BY <2>1, CommandsAreTyped DEF Queued
    <2>3. Goings /\ \A k \in Handoffs : hpc'[k] \in Holding => lock' = k
      BY <1>0, <1>1, <2>1, TaskGoesOn DEF BoundInv
    <2>4. Sides
      BY <2>3, GoingsKeepSides
    <2>5. TasksAreOrdered'
      <3>1. \A k \in Handoffs : (Known(k)' <=> Known(k)) /\ (hpc[k] = "done" => hpc'[k] = "done")
        BY <2>3 DEF Goings, Known, Answered, Armed
      <3> QED
        BY <1>1, <1>2, <2>3, <3>1, OrderKept DEF BoundInv
    <2>6. Queued("Bind")' = {}
      BY <1>0, <1>1, <2>2 DEF BoundInv, QueueIsOrdered
    <2>7. QueueIsOrdered'
      <3>1. current.boot # 0 => current.caller \in Handoffs
        BY DEF HandoffInv, CallersAreKnown
      <3> QED
        BY <1>2, <2>4, <2>6, <3>1 DEF BoundInv, QueueIsOrdered, Sides
    <2>8. StatusIsCurrent'
      <3>1. BoundIsHeld' /\ (current'.replied => current'.boot # 0)
        BY <1>2 DEF BoundInv, StatusIsCurrent, BoundIsHeld
      <3>2. Fresh => Fresh'
        BY <1>2 DEF Fresh
      <3>3. ASSUME current.boot # 0, Overtaken PROVE Overtaken'
        <4>1. \E k \in Handoffs : Known(k)' /\ hboot'[k] = status_boot'
          BY <1>2, <2>4, <3>3 DEF Overtaken, Sides
        <4>2. hpc'[current'.caller] # "binding" /\ current'.boot < status_boot'
          BY <1>2, <2>4, <3>3 DEF Overtaken, Sides, HandoffInv, CallersAreKnown
        <4>3. \A k \in Handoffs : hpc'[k] \in Answered => hbinding'[k] # current'.binding
          BY <1>2, <2>4, <3>3 DEF Overtaken, Sides
        <4>4. \A i \in Queued("Confirm")' : hbinding'[queue'[i].who] # current'.binding
          BY <1>0, <1>1, <1>2, <2>2, <3>3 DEF Overtaken
        <4> QED
          BY <2>6, <4>1, <4>2, <4>3, <4>4 DEF Overtaken
      <3> QED
        BY <1>2, <3>1, <3>2, <3>3 DEF BoundInv, StatusIsCurrent
    <2> QED
      BY <2>5, <2>7, <2>8 DEF BoundInv
  <1> QED
    BY <1>4, <1>5

\* The command that is served is the first of the queue.
LEMMA ServedIsFirst ==
  ASSUME HandoffInv, NEW kind \in {"Bind", "Confirm"}, Serving(kind)
  PROVE  /\ queue # <<>> /\ Head(queue) = queue[1] /\ 1 \in Queued(kind)
         /\ Head(queue).who \in Handoffs /\ (kind = "Bind" => Known(Head(queue).who))
  <1>1. queue \in Seq(Command) /\ queue # <<>> /\ Head(queue).kind = kind
    BY CommandsAreTyped DEF Serving
  <1>2. Head(queue) = queue[1] /\ 1 \in Queued(kind)
    BY <1>1 DEF Queued
  <1> QED
    BY <1>1, <1>2, CommandsAreTyped

\* A step that ends the runtime, or loses the attempt, the port or the answer of a bind.
LEMMA LosingKeepsBound ==
  ASSUME BoundInv, HandoffInv, HandoffInv',
         \/ ServeFail \/ ServeRestart \/ BindRetired \/ OpenFails \/ OpenIsFatal \/ Lost \/ OutputFull
         \/ Tick \/ DeadlinePasses \/ RuntimeCloses \/ ClientCloses
  PROVE  BoundInv'
  <1>1. boot \in Nat /\ TasksAreOrdered /\ 0 \notin Handoffs
    BY DEF HandoffInv, TypeOK, DeviceTypes, BoundInv
  <1>2. phase = "Bound" => lease /\ current.replied
    BY DEF BoundInv, StatusIsCurrent, BoundIsHeld
  <1>3. UNCHANGED <<boot, aborted, hboot, hbinding>>
    BY DEF ServeFail, ServeRestart, BindRetired, OpenFails, OpenIsFatal, Lost, OutputFull, Tick, DeadlinePasses,
         RuntimeCloses, ClientCloses, Closes, RuntimeFails
  <1>4. \E n \in Nat : Moved(n)
    <2>1. queue' = queue \/ queue' = <<>> \/ (queue' = Tail(queue) /\ queue # <<>>)
      BY DEF ServeFail, ServeRestart, BindRetired, OpenFails, OpenIsFatal, Lost, OutputFull, Tick, DeadlinePasses,
           RuntimeCloses, ClientCloses, Closes, RuntimeFails, Serving
    <2> QED
      BY <2>1, QueueMoves
  <1>5. Goings /\ \A k \in Handoffs : hpc'[k] \in Holding => lock' = k
    <2>1. UNCHANGED <<hpc, lock>> \/ \E h \in Handoffs : Known(h) /\ Ends(h)
      <3>1. CASE BindRetired
        BY <3>1, ServedIsFirst DEF BindRetired, AnswerError, Known
      <3>2. CASE OpenFails
        <4>1. current.boot # 0
          BY <3>2 DEF OpenFails, HandoffInv, AttemptIsConsistent
        <4>2. current.caller \in Handoffs /\ Known(current.caller)
          BY <4>1 DEF HandoffInv, CallersAreKnown, Known
        <4> QED
          BY <3>2, <4>2 DEF OpenFails, AnswerError
      <3> QED
        BY <3>1, <3>2 DEF ServeFail, ServeRestart, OpenIsFatal, Lost, OutputFull, Tick, DeadlinePasses,
             RuntimeCloses, ClientCloses, Closes, RuntimeFails
    <2> QED
      BY <1>1, <2>1, TasksGoOn
  <1>6. \/ /\ UNCHANGED current /\ (lease' => lease) /\ (phase' = "Bound" => phase = "Bound" /\ lease')
           /\ phase' = "Failed" \/ (phase # "Failed" /\ UNCHANGED <<status_boot, status_binding>>)
        \/ current' = NoAttempt /\ phase' # "Bound"
    <2>1. CASE Tick
      BY <1>2, <2>1 DEF Tick, Abandoned, Publish
    <2>2. CASE BindRetired
      BY <1>2, <2>2 DEF BindRetired
    <2>3. CASE Lost
      BY <2>3 DEF Lost, Publish
    <2>4. CASE ServeRestart \/ OpenFails
      BY <1>2, <2>4 DEF ServeRestart, OpenFails, Publish
    <2>5. CASE ServeFail \/ OpenIsFatal \/ OutputFull \/ DeadlinePasses \/ RuntimeCloses \/ ClientCloses
      BY <2>5 DEF ServeFail, OpenIsFatal, OutputFull, DeadlinePasses, RuntimeCloses, ClientCloses, Closes,
           RuntimeFails, Publish
    <2> QED
      BY <2>1, <2>2, <2>3, <2>4, <2>5
  <1>7. PICK n \in Nat : Moved(n)
    BY <1>4
  <1> QED
    BY <1>1, <1>3, <1>5, <1>6, <1>7, QuietKeepsBound

\* Only a confirmation of the current binding, while its port is held, shows the session as bound.
LEMMA ConfirmKeepsBound ==
  ASSUME BoundInv, HandoffInv, HandoffInv', ServeConfirm
  PROVE  BoundInv'
  <1> DEFINE h == Head(queue).who
  <1>1. h \in Handoffs /\ h = queue[1].who /\ 1 \in Queued("Confirm") /\ queue' = Tail(queue) /\ queue # <<>>
    BY ServedIsFirst DEF ServeConfirm
  <1>2. /\ boot \in Nat /\ TasksAreOrdered /\ 0 \notin Handoffs /\ hpc \in [Handoffs -> HandoffPhase]
        /\ UNCHANGED <<boot, aborted, hboot, hbinding, current, lease>>
    BY DEF HandoffInv, TypeOK, DeviceTypes, HandoffTypes, BoundInv, ServeConfirm
  <1>3. Moved(1)
    BY <1>1, QueueMoves
  <1>4. Goings /\ \A k \in Handoffs : hpc'[k] \in Holding => lock' = k
    <2>1. \/ UNCHANGED <<hpc, lock>>
          \/ Known(h) /\ Ends(h)
          \/ hpc[h] = "confirming" /\ hpc' = [hpc EXCEPT ![h] = "confirmed"] /\ UNCHANGED lock
      BY <1>1 DEF ServeConfirm, AnswerError, Known
    <2>2. {"confirming", "confirmed"} \subseteq Answered /\ Answered \subseteq HandoffPhase /\ Answered \subseteq Holding
      BY DEF HandoffPhase, Answered, Armed, Holding
    <2>3. hpc[h] = "confirming" => lock = h
      BY <1>1, <1>2, <2>2 DEF TasksAreOrdered
    <2>4. CASE hpc[h] = "confirming" /\ hpc' = [hpc EXCEPT ![h] = "confirmed"] /\ UNCHANGED lock
      BY <1>1, <1>2, <2>2, <2>3, <2>4, TaskGoesOn
    <2> QED
      BY <1>1, <1>2, <2>1, <2>4, TasksGoOn
  <1>5. CASE UNCHANGED statusVars \/ phase = "Failed"
    <2>1. phase' = "Failed" \/ (phase # "Failed" /\ UNCHANGED statusVars)
      BY <1>5 DEF ServeConfirm, Publish
    <2>2. phase = "Bound" => lease
      BY DEF BoundInv, StatusIsCurrent, BoundIsHeld
    <2> QED
      BY <1>2, <1>3, <1>4, <2>1, <2>2, QuietKeepsBound
  <1>6. CASE ~(UNCHANGED statusVars \/ phase = "Failed")
    <2>1. /\ phase # "Failed" /\ phase' = "Bound" /\ UNCHANGED <<status_boot, status_binding>>
          /\ hbinding[h] = current.binding /\ current.replied /\ lease
      BY <1>6 DEF ServeConfirm, Publish, Confirmable
    <2>2. current.boot # 0
      BY <2>1 DEF BoundInv, StatusIsCurrent
    <2>3. ~Overtaken
      BY <1>1, <2>1 DEF Overtaken
    <2>4. Fresh
      BY <2>1, <2>2, <2>3 DEF BoundInv, StatusIsCurrent
    <2>5. StatusIsCurrent'
      BY <1>2, <2>1, <2>2, <2>4 DEF StatusIsCurrent, BoundIsHeld, Fresh
    <2>6. TasksAreOrdered'
      <3>1. \A k \in Handoffs : (Known(k)' <=> Known(k)) /\ (hpc[k] = "done" => hpc'[k] = "done")
        BY <1>4 DEF Goings, Known, Answered, Armed
      <3> QED
        BY <1>2, <1>4, <3>1, OrderKept
    <2>7. QueueIsOrdered'
      BY <1>2, <1>3, <1>4, GoingsKeepSides, QueueKept DEF BoundInv
    <2> QED
      BY <2>5, <2>6, <2>7 DEF BoundInv
  <1> QED
    BY <1>5, <1>6

\* What is known when the first command is a bind: no task has its binding, nobody who waits for one
\* began earlier, no confirmation waits, and every bind behind it is later.
LEMMA FirstBind ==
  ASSUME BoundInv, HandoffInv, Serving("Bind"), NEW h, h = Head(queue).who
  PROVE  /\ h \in Handoffs /\ Known(h) /\ hpc[h] \in {"binding", "done"} /\ queue # <<>>
         /\ \A k \in Handoffs : hpc[k] \notin Answered /\ (hpc[k] = "binding" => h <= k)
         /\ queue' = Tail(queue) =>
              /\ Moved(1) /\ Queued("Confirm")' = {}
              /\ \A i \in Queued("Bind")' : h < queue'[i].who
         /\ current.boot # 0 =>
              /\ current.caller \in Handoffs /\ current.caller < h
              /\ current.boot <= hboot[h] /\ hpc[current.caller] # "binding"
  <1>1. /\ h \in Handoffs /\ Known(h) /\ h = queue[1].who /\ 1 \in Queued("Bind") /\ queue # <<>>
        /\ hboot \in [Handoffs -> Nat]
    BY ServedIsFirst DEF HandoffInv, TypeOK, HandoffTypes
  <1>2. /\ hpc[h] \in {"binding", "done"}
        /\ \A k \in Handoffs : hpc[k] \notin Answered /\ (hpc[k] = "binding" => h <= k)
    BY <1>1 DEF BoundInv, QueueIsOrdered
  <1>3. ASSUME queue' = Tail(queue)
        PROVE  Moved(1) /\ Queued("Confirm")' = {} /\ \A i \in Queued("Bind")' : h < queue'[i].who
    <2>1. Moved(1)
      BY <1>1, <1>3, QueueMoves
    <2>2. \A i \in Queued("Bind") \cup Queued("Confirm") : i \in Nat /\ i >= 1
      BY CommandsAreTyped
    <2>3. \A i \in Queued("Confirm") : i < 1
      BY <1>1 DEF BoundInv, QueueIsOrdered
    <2>4. Queued("Confirm")' = {}
      BY <2>1, <2>2, <2>3 DEF Moved
    <2>5. ASSUME NEW i \in Queued("Bind")' PROVE h < queue'[i].who
      <3>1. i \in Nat /\ i >= 1
        <4>1. queue \in Seq(Command) /\ queue # <<>>
          BY <1>1, CommandsAreTyped
        <4>2. Len(queue') \in Nat
          BY <1>3, <4>1
        <4> QED
          BY <2>5, <4>2 DEF Queued
      <3>2. i + 1 \in Queued("Bind") /\ queue'[i] = queue[i + 1]
        BY <2>1 DEF Moved
      <3>3. 1 < i + 1
        BY <3>1
      <3> QED
        BY <1>1, <3>2, <3>3 DEF BoundInv, QueueIsOrdered
    <2> QED
      BY <2>1, <2>4, <2>5
  <1>4. ASSUME current.boot # 0
        PROVE  /\ current.caller \in Handoffs /\ current.caller < h
               /\ current.boot <= hboot[h] /\ hpc[current.caller] # "binding"
    <2>1. current.caller \in Handoffs /\ hboot[current.caller] = current.boot
      BY <1>4 DEF HandoffInv, CallersAreKnown
    <2>2. current.caller < h
      BY <1>1, <1>4 DEF BoundInv, QueueIsOrdered
    <2>3. hboot[current.caller] <= hboot[h]
      BY <1>1, <2>1, <2>2 DEF BoundInv, TasksAreOrdered
    <2>4. ~(h <= current.caller)
      BY <1>1, <2>1, <2>2
    <2> QED
      BY <1>2, <2>1, <2>2, <2>3, <2>4
  <1> QED
    BY <1>1, <1>2, <1>3, <1>4

\* A report that is refused shows its boot, and the binding only of an attempt for that boot.
LEMMA RejectKeepsBound ==
  ASSUME BoundInv, HandoffInv, HandoffInv', BindRejected
  PROVE  BoundInv'
  <1>9. PICK h : h = Head(queue).who
    OBVIOUS
  <1>0. Serving("Bind") /\ queue' = Tail(queue)
    BY DEF BindRejected
  <1>1. /\ h \in Handoffs /\ Known(h) /\ hpc[h] \in {"binding", "done"}
        /\ \A k \in Handoffs : hpc[k] \notin Answered
        /\ Moved(1) /\ Queued("Confirm")' = {} /\ \A i \in Queued("Bind")' : h < queue'[i].who
        /\ current.boot # 0 =>
              /\ current.caller \in Handoffs /\ current.caller < h
              /\ current.boot <= hboot[h] /\ hpc[current.caller] # "binding"
    BY <1>0, <1>9, FirstBind
  <1>2. /\ boot \in Nat /\ TasksAreOrdered /\ 0 \notin Handoffs /\ hboot \in [Handoffs -> Nat] /\ current.boot \in Nat
        /\ UNCHANGED <<boot, aborted, hboot, hbinding, current, lease>>
    BY DEF HandoffInv, TypeOK, DeviceTypes, HandoffTypes, RuntimeTypes, BindingAttempt, BoundInv, BindRejected
  <1>3. Goings /\ \A k \in Handoffs : hpc'[k] \in Holding => lock' = k
    <2>1. UNCHANGED <<hpc, lock>> \/ (Known(h) /\ Ends(h))
      BY <1>1, <1>9 DEF BindRejected, AnswerError
    <2> QED
      BY <1>1, <1>2, <2>1, TasksGoOn
  <1>4. Sides
    BY <1>3, GoingsKeepSides
  <1>5. TasksAreOrdered'
    <2>1. \A k \in Handoffs : (Known(k)' <=> Known(k)) /\ (hpc[k] = "done" => hpc'[k] = "done")
      BY <1>3 DEF Goings, Known, Answered, Armed
    <2> QED
      BY <1>2, <1>3, <2>1, OrderKept
  <1>6. QueueIsOrdered'
    BY <1>1, <1>2, <1>4, QueueKept DEF BoundInv
  <1>7. CASE phase = "Failed"
    <2>1. phase' = "Failed"
      BY <1>7 DEF BindRejected, Publish
    <2>2. StatusIsCurrent'
      BY <1>2, <2>1 DEF BoundInv, StatusIsCurrent, BoundIsHeld
    <2> QED
      BY <1>5, <1>6, <2>2 DEF BoundInv
  <1>8. CASE phase # "Failed"
    <2>1. /\ phase' = "Recovering" /\ status_boot' = hboot[h]
          /\ status_binding' = IF lease /\ current.boot = hboot[h] THEN current.binding ELSE 0
      BY <1>8, <1>9 DEF BindRejected, Publish
    <2>2. hboot[h] = current.boot => Fresh'
      BY <1>2, <2>1 DEF Fresh
    <2>3. ASSUME current.boot # 0, hboot[h] # current.boot PROVE Overtaken'
      <3>1. current'.boot < status_boot'
        BY <1>1, <1>2, <2>1, <2>3
      <3>2. Known(h)' /\ hboot'[h] = status_boot' /\ \A i \in Queued("Bind")' : h <= queue'[i].who
        <4>1. \A i \in Queued("Bind")' : queue'[i].who \in Handoffs
          BY <1>1, CommandsAreTyped DEF Moved
        <4>2. \A i \in Queued("Bind")' : h <= queue'[i].who
          BY <1>1, <4>1
        <4>3. Known(h)' /\ hboot'[h] = status_boot'
          BY <1>1, <1>2, <1>4, <2>1 DEF Sides
        <4> QED
          BY <4>2, <4>3
      <3>3. hpc'[current'.caller] # "binding" /\ \A k \in Handoffs : hpc'[k] \notin Answered
        BY <1>1, <1>2, <1>4, <2>3 DEF Sides
      <3>4. \E k \in Handoffs : Known(k)' /\ hboot'[k] = status_boot' /\ \A i \in Queued("Bind")' : k <= queue'[i].who
        BY <1>1, <3>2
      <3> QED
        BY <1>1, <3>1, <3>3, <3>4 DEF Overtaken
    <2>4. StatusIsCurrent'
      BY <1>2, <2>1, <2>2, <2>3 DEF BoundInv, StatusIsCurrent, BoundIsHeld
    <2> QED
      BY <1>5, <1>6, <2>4 DEF BoundInv
  <1> QED
    BY <1>7, <1>8

\* The task that gets its binding, when no later bind waits.
LEMMA AnswerKeepsOrder ==
  ASSUME BoundInv, HandoffInv, HandoffInv', NEW h \in Handoffs, NEW id, AnswerBinding(h, id),
         NEW n \in Nat, Moved(n), hpc[h] = "binding" => Queued("Bind")' = {},
         UNCHANGED <<boot, hboot, aborted>>, current'.boot = current.boot, current'.caller = current.caller
  PROVE  TasksAreOrdered' /\ QueueIsOrdered'
  <1>1. /\ hpc \in [Handoffs -> HandoffPhase] /\ boot \in Nat
        /\ current.boot # 0 => current.caller \in Handoffs
    BY DEF HandoffInv, TypeOK, HandoffTypes, DeviceTypes, CallersAreKnown
  <1>2. CASE hpc[h] # "binding"
    <2>1. UNCHANGED <<hpc, lock>>
      BY <1>2 DEF AnswerBinding
    <2>2. Goings /\ \A k \in Handoffs : hpc'[k] \in Holding => lock' = k
      BY <2>1, TasksGoOn DEF BoundInv
    <2>3. TasksAreOrdered'
      BY <1>1, <2>1, <2>2, OrderKept DEF BoundInv, Known
    <2>4. QueueIsOrdered'
      BY <2>2, GoingsKeepSides, QueueKept DEF BoundInv
    <2> QED
      BY <2>3, <2>4
  <1>3. CASE hpc[h] = "binding"
    <2>1. hpc'[h] = "bound" /\ lock' = lock /\ \A k \in Handoffs : k # h => hpc'[k] = hpc[k]
      BY <1>1, <1>3 DEF AnswerBinding
    <2>2. "binding" \in Holding /\ "bound" \in Answered
      BY DEF Holding, HandoffPhase, Answered
    <2>3. TasksAreOrdered'
      <3>1. \A k \in Handoffs : (Known(k)' <=> Known(k)) /\ (hpc[k] = "done" => hpc'[k] = "done")
        BY <1>3, <2>1 DEF Known
      <3>2. \A k \in Handoffs : hpc'[k] \in Holding => lock' = k
        BY <1>3, <2>1, <2>2 DEF BoundInv, TasksAreOrdered
      <3> QED
        BY <1>1, <3>1, <3>2, OrderKept DEF BoundInv
    <2>4. current'.boot # 0 => hpc'[current'.caller] \in Answered \cup {"binding", "done"}
      BY <1>1, <2>1, <2>2 DEF BoundInv, QueueIsOrdered
    <2>5. QueueIsOrdered'
      BY <1>3, <2>4 DEF QueueIsOrdered
    <2> QED
      BY <2>3, <2>5
  <1> QED
    BY <1>2, <1>3

\* A bind of the boot that is bound already gets its binding; a boot that was overtaken is not asked for.
LEMMA ReuseKeepsBound ==
  ASSUME BoundInv, HandoffInv, HandoffInv', BindReused
  PROVE  BoundInv'
  <1>1. PICK h : h = Head(queue).who
    OBVIOUS
  <1>2. Serving("Bind") /\ queue' = Tail(queue) /\ AnswerBinding(h, current.binding)
    BY <1>1 DEF BindReused
  <1>3. /\ current.boot = hboot[h] /\ current.replied /\ lease
        /\ UNCHANGED <<boot, hboot, aborted, current, lease, statusVars>>
    BY <1>1 DEF BindReused, Reusable
  <1>4. /\ h \in Handoffs /\ Known(h)
        /\ \A k \in Handoffs : hpc[k] = "binding" => h <= k
        /\ Moved(1) /\ \A i \in Queued("Bind")' : h < queue'[i].who
    BY <1>1, <1>2, FirstBind
  <1>5. hpc[h] = "binding" => Queued("Bind")' = {}
    <2>1. \A i \in Queued("Bind")' : queue'[i].who \in Handoffs
      BY <1>4, CommandsAreTyped DEF Moved
    <2>2. hpc[h] = "binding" => \A i \in Queued("Bind")' : queue'[i].who <= h
      BY <1>4 DEF Moved, BoundInv, QueueIsOrdered
    <2>3. \A i \in Queued("Bind")' : ~(queue'[i].who <= h)
      BY <1>4, <2>1
    <2> QED
      BY <2>2, <2>3
  <1>6. TasksAreOrdered' /\ QueueIsOrdered'
    BY <1>2, <1>3, <1>4, <1>5, AnswerKeepsOrder
  <1>7. current.boot # 0
    BY <1>3 DEF BoundInv, StatusIsCurrent
  <1>8. ~Overtaken
    <2>1. SUFFICES ASSUME Overtaken PROVE FALSE
      OBVIOUS
    <2>2. PICK k \in Handoffs : Known(k) /\ hboot[k] = status_boot /\ \A i \in Queued("Bind") : k <= queue[i].who
      BY <2>1 DEF Overtaken
    <2>3. k <= h
      BY <1>1, <1>2, <2>2, ServedIsFirst
    <2>5. hboot \in [Handoffs -> Nat]
      BY DEF HandoffInv, TypeOK, HandoffTypes
    <2>4. hboot[k] <= hboot[h]
      <3>1. CASE k = h
        BY <1>4, <2>5, <3>1
      <3>2. CASE k # h
        <4>1. k < h
          BY <1>4, <2>3, <3>2
        <4> QED
          BY <1>4, <4>1 DEF BoundInv, TasksAreOrdered
      <3> QED
        BY <3>1, <3>2
    <2> QED
      BY <1>3, <1>4, <2>1, <2>2, <2>4, <2>5 DEF Overtaken
  <1>9. StatusIsCurrent'
    BY <1>3, <1>7, <1>8 DEF BoundInv, StatusIsCurrent, BoundIsHeld, Fresh
  <1> QED
    BY <1>6, <1>9 DEF BoundInv

\* A new attempt is shown at once, without a binding.
LEMMA AttemptKeepsBound ==
  ASSUME BoundInv, HandoffInv, HandoffInv', NEW c \in BOOLEAN, BindAttempt(c)
  PROVE  BoundInv'
  <1>1. PICK h : h = Head(queue).who
    OBVIOUS
  <1>2. /\ Serving("Bind") /\ queue' = Tail(queue)
        /\ current'.boot = hboot[h] /\ current'.caller = h /\ ~current'.replied
        /\ UNCHANGED <<boot, hboot, aborted, hpc, lock>>
    BY <1>1 DEF BindAttempt
  <1>3. phase' # "Bound" /\ (phase' # "Failed" => status_boot' = hboot[h])
    BY <1>1 DEF BindAttempt, Publish
  <1>4. /\ h \in Handoffs /\ hpc[h] \in {"binding", "done"}
        /\ Moved(1) /\ \A i \in Queued("Bind")' : h < queue'[i].who
    BY <1>1, <1>2, FirstBind
  <1>5. Goings /\ \A k \in Handoffs : hpc'[k] \in Holding => lock' = k
    BY <1>2, TasksGoOn DEF BoundInv
  <1>6. TasksAreOrdered'
    <2>1. boot \in Nat
      BY DEF HandoffInv, TypeOK, DeviceTypes
    <2> QED
      BY <1>2, <1>5, <2>1, OrderKept DEF BoundInv, Known
  <1>7. QueueIsOrdered'
    <2>1. \A i \in Queued("Bind")' \cup Queued("Confirm")' : i \in Nat
      BY DEF HandoffInv, TypeOK, RuntimeTypes, Queued
    <2>2. \A i, j \in Queued("Bind")' : i < j => queue'[i].who < queue'[j].who
      BY <1>4, <2>1 DEF BoundInv, QueueIsOrdered, Moved
    <2>3. \A i \in Queued("Bind")', j \in Queued("Confirm")' : j < i
      BY <1>4, <2>1 DEF BoundInv, QueueIsOrdered, Moved
    <2>4. /\ \A i \in Queued("Bind")' : hpc'[queue'[i].who] \in {"binding", "done"}
          /\ \A i \in Queued("Bind")', k \in Handoffs :
               hpc'[k] \notin Answered /\ (hpc'[k] = "binding" => queue'[i].who <= k)
      BY <1>2, <1>4 DEF BoundInv, QueueIsOrdered, Moved
    <2> QED
      BY <1>2, <1>4, <2>2, <2>3, <2>4 DEF QueueIsOrdered
  <1>8. StatusIsCurrent'
    BY <1>2, <1>3 DEF StatusIsCurrent, BoundIsHeld, Fresh
  <1> QED
    BY <1>6, <1>7, <1>8 DEF BoundInv

\* The identity arrives: who still waits is the last that a bind was sent for.
LEMMA AnsweredIsLast ==
  ASSUME BoundInv, HandoffInv, HandoffInv', current.boot # 0, queue' = queue, hpc[current.caller] = "binding"
  PROVE  Queued("Bind")' = {}
  <1>1. current.caller \in Handoffs /\ \A i \in Queued("Bind") : queue[i].who \in Handoffs
    BY CommandsAreTyped DEF HandoffInv, CallersAreKnown
  <1>2. \A i \in Queued("Bind") : queue[i].who <= current.caller /\ current.caller < queue[i].who
    BY <1>1 DEF BoundInv, QueueIsOrdered
  <1>3. Queued("Bind") = {}
    BY <1>1, <1>2
  <1> QED
    BY <1>3 DEF Queued

LEMMA OpenedKeepsBound ==
  ASSUME BoundInv, HandoffInv, HandoffInv', Opened
  PROVE  BoundInv'
  <1>1. /\ current.boot # 0 /\ current.caller \in Handoffs /\ current \in BindingAttempt
        /\ Moved(0) /\ queue' = queue
    BY QueueMoves DEF Opened, HandoffInv, AttemptIsConsistent, CallersAreKnown, TypeOK, RuntimeTypes
  <1>2. /\ current'.boot = current.boot /\ current'.caller = current.caller /\ current'.binding = current.binding
        /\ UNCHANGED <<boot, hboot, aborted>>
    BY <1>1 DEF Opened, BindingAttempt
  <1>3. TasksAreOrdered' /\ QueueIsOrdered'
    <2>1. CASE AnswerBinding(current.caller, current.binding)
      BY <1>1, <1>2, <2>1, AnsweredIsLast, AnswerKeepsOrder
    <2>2. CASE UNCHANGED <<hpc, lock>>
      <3>1. Goings /\ \A k \in Handoffs : hpc'[k] \in Holding => lock' = k
        BY <2>2, TasksGoOn DEF BoundInv
      <3>2. boot \in Nat
        BY DEF HandoffInv, TypeOK, DeviceTypes
      <3>3. TasksAreOrdered'
        BY <1>2, <2>2, <3>1, <3>2, OrderKept DEF BoundInv, Known
      <3>4. QueueIsOrdered'
        BY <1>1, <1>2, <3>1, GoingsKeepSides, QueueKept DEF BoundInv
      <3> QED
        BY <3>3, <3>4
    <2> QED
      BY <2>1, <2>2 DEF Opened
  <1>4. phase' # "Bound" /\ (phase' # "Failed" => status_boot' = current.boot /\ status_binding' = current.binding)
    BY DEF Opened, Publish
  <1>5. StatusIsCurrent'
    BY <1>1, <1>2, <1>4 DEF StatusIsCurrent, BoundIsHeld, Fresh
  <1> QED
    BY <1>3, <1>5 DEF BoundInv

LEMMA ReadKeepsBound ==
  ASSUME BoundInv, HandoffInv, HandoffInv', NEW b \in 1..boot, Read(b)
  PROVE  BoundInv'
  <1>1. /\ current.boot # 0 /\ ~current.replied /\ current \in BindingAttempt /\ boot \in Nat
        /\ Moved(0) /\ queue' = queue
    BY QueueMoves DEF Read, HandoffInv, TypeOK, RuntimeTypes, DeviceTypes
  <1>2. current.caller \in Handoffs /\ hpc \in [Handoffs -> HandoffPhase] /\ hbinding \in [Handoffs -> Nat]
    BY <1>1 DEF HandoffInv, CallersAreKnown, TypeOK, HandoffTypes
  <1>3. /\ current'.boot = current.boot /\ current'.caller = current.caller /\ current'.binding = current.binding
        /\ UNCHANGED <<boot, hboot, aborted, lease>> /\ AnswerBinding(current.caller, current.binding)
    BY <1>1 DEF Read, BindingAttempt
  <1>4. TasksAreOrdered' /\ QueueIsOrdered'
    BY <1>1, <1>2, <1>3, AnsweredIsLast, AnswerKeepsOrder
  <1>5. /\ phase # "Bound" /\ phase' = phase
        /\ phase # "Failed" => status_boot' = status_boot /\ status_binding' = current.binding
    BY <1>1 DEF Read, Publish, BoundInv, StatusIsCurrent, BoundIsHeld
  <1>6. Fresh /\ phase # "Failed" => Fresh'
    BY <1>3, <1>5 DEF Fresh
  <1>7. Overtaken /\ phase # "Failed" => Overtaken'
    <2>1. SUFFICES ASSUME Overtaken, phase # "Failed" PROVE Overtaken'
      OBVIOUS
    <2>2. UNCHANGED <<hpc, hbinding>>
      BY <1>3, <2>1 DEF Overtaken, AnswerBinding
    <2> QED
      BY <1>1, <1>3, <1>5, <2>1, <2>2 DEF Overtaken, Known, Queued
  <1>8. StatusIsCurrent'
    BY <1>1, <1>3, <1>5, <1>6, <1>7 DEF BoundInv, StatusIsCurrent, BoundIsHeld
  <1> QED
    BY <1>4, <1>8 DEF BoundInv

LEMMA InitBoundInv == Init => BoundInv
  <1> SUFFICES ASSUME Init PROVE BoundInv
    OBVIOUS
  <1>1. TasksAreOrdered
    BY DEF Init, TasksAreOrdered, Known, Holding
  <1>2. QueueIsOrdered
    BY DEF Init, QueueIsOrdered, Queued, NoAttempt
  <1>3. StatusIsCurrent
    BY DEF Init, StatusIsCurrent, BoundIsHeld, NoAttempt
  <1> QED
    BY <1>1, <1>2, <1>3 DEF BoundInv

LEMMA NextBoundInv == BoundInv /\ HandoffInv /\ HandoffInv' /\ [Next]_vars => BoundInv'
  <1> SUFFICES ASSUME BoundInv, HandoffInv, HandoffInv', [Next]_vars PROVE BoundInv'
    OBVIOUS
  <1>1. CASE Runtime
    <2>1. CASE ServeBind
      BY <2>1, LosingKeepsBound, RejectKeepsBound, ReuseKeepsBound, AttemptKeepsBound DEF ServeBind
    <2>2. CASE Opened \/ ServeConfirm \/ \E b \in 1..boot : Read(b)
      BY <2>2, OpenedKeepsBound, ConfirmKeepsBound, ReadKeepsBound
    <2> QED
      BY <1>1, <2>1, <2>2, LosingKeepsBound DEF Runtime
  <1>2. ASSUME NEW h \in Handoffs, Handoff(h) PROVE BoundInv'
    BY <1>2, ObserveKeepsBound, SendBindKeepsBound, SendConfirmKeepsBound, HandoffKeepsBound DEF Handoff
  <1>3. CASE \/ DeviceReboots \/ StaleAnnouncement \/ StopRequested \/ ShutdownSignalled
             \/ (\E m \in revokes : Revoked(m)) \/ \E p \in Powers : Power(p)
    BY <1>3, OutsideKeepsBound
  <1>4. CASE UNCHANGED vars
    <2>1. UNCHANGED <<boot, hboot, hbinding, hpc, lock, aborted, queue, current, lease, statusVars>>
      BY <1>4 DEF vars
    <2>2. Goings /\ \A k \in Handoffs : hpc'[k] \in Holding => lock' = k
      BY <2>1, TasksGoOn DEF BoundInv
    <2>3. Moved(0) /\ boot \in Nat /\ (phase = "Bound" => lease)
      BY <2>1, QueueMoves DEF HandoffInv, TypeOK, DeviceTypes, BoundInv, StatusIsCurrent, BoundIsHeld
    <2> QED
      BY <2>1, <2>2, <2>3, QuietKeepsBound
  <1> QED
    BY <1>1, <1>2, <1>3, <1>4 DEF Next

\* A session that is shown as bound holds the port on which the identity of its boot was read, and
\* shows the binding of it, whatever tasks, binds and confirmations of other boots are on their way.
THEOREM BoundHoldsItsPort == Spec => []BoundIsHeld
  <1>1. BoundInv => BoundIsHeld
    BY DEF BoundInv, StatusIsCurrent
  <1> QED
    BY <1>1, InitBoundInv, NextBoundInv, HandoffInvariant, PTL DEF Spec

\* The bindings of all places are verified, and a session shown as bound is backed by its port.
THEOREM BindingsAreSound == Spec => []BindingInv
  <1> QED
    BY HandoffInvariant, BoundHoldsItsPort, PTL DEF BindingInv
=============================================================================
