--------------------------- MODULE OperationRepair ---------------------------
(***************************************************************************)
(* OperationRepairService: the operator's repair of one operation, beside  *)
(* the processes of DurableExecution.                                      *)
(*                                                                         *)
(* A repair is accepted if a second preview yields the token of the first. *)
(* The token covers the revisions of record, item and binding, so all      *)
(* three had the values of the token at some instant between the two       *)
(* previews: that instant is RepairAccepted.  Everything after it is done  *)
(* one store call at a time, on state that may have moved on.              *)
(***************************************************************************)
EXTENDS DurableExecution

CONSTANT Operator   \* the process that runs the repair command

ASSUME OperatorAssumption == Operator \notin Procs \cup Ops \cup {None}

VARIABLE rep        \* the repair under way

repairVars == <<vars, rep>>

NoRepair == [pc |-> "off", op |-> None, disp |-> "none", owner |-> None,
             requeue |-> FALSE, item |-> NoItem, bnd |-> NoBinding]

(* The dispositions that apply acts on (already_terminal is answered        *)
(* without a step).                                                        *)
Repairable == {"cancel_queued", "requeue_unstarted", "cancel_reaped", "orphan_reaped"}

RepairInit == Init /\ rep = NoRepair

GiveUp == rep' = NoRepair

StepTo(pc) == rep' = [rep EXCEPT !.pc = pc]

-----------------------------------------------------------------------------
(* preview: the disposition of record t, item i and binding b. *)
RepairDisposition(t, i, b) ==
    CASE t.state \in TerminalStates \cup {"absent"} -> "already_terminal"
      [] i.state = "absent"                         -> "not_repairable"
      [] t.cancel /\ ~i.started                     -> "cancel_queued"
      [] t.cancel /\ i.started                      ->
            IF BindingMatches(i, b) THEN "cancel_reaped" ELSE "blocked"
      [] i.state = "claimed" /\ i.lease = "expired" ->
            IF ~i.started THEN "requeue_unstarted"
            ELSE IF BindingMatches(i, b) THEN "orphan_reaped" ELSE "blocked"
      [] OTHER                                      -> "not_repairable"

RepairAccepted(o) ==
    LET disp == RepairDisposition(task[o], work[o], binding[o])
    IN  /\ rep.pc = "off"
        /\ disp \in Repairable
        /\ rep' = [NoRepair EXCEPT !.pc = "reread", !.op = o, !.disp = disp,
                     !.owner = IF disp = "orphan_reaped" THEN None ELSE task[o].owner,
                     !.requeue = task[o].state = "running"]
        /\ UNCHANGED vars

(* apply reads the item once more; whatever it finds is what it works on. *)
RepairReread ==
    /\ rep.pc = "reread"
    /\ IF work[rep.op].state = "absent" THEN GiveUp
       ELSE rep' = [rep EXCEPT !.item = work[rep.op],
                       !.pc = CASE rep.disp = "cancel_queued"     -> "settle"
                                [] rep.disp = "requeue_unstarted" -> "item"
                                [] OTHER                          -> "reap"]
    /\ UNCHANGED vars

(* _reap_bound_child: the binding is read again, and not compared. *)
RepairReap ==
    /\ rep.pc = "reap"
    /\ \/ /\ binding[rep.op] # NoBinding /\ ReapSucceeds(binding[rep.op])
          /\ rep' = [rep EXCEPT !.pc = "settle", !.bnd = binding[rep.op]]
       \/ /\ binding[rep.op] = NoBinding \/ ReapFails(binding[rep.op])
          /\ GiveUp /\ UNCHANGED child
    /\ UNCHANGED <<task, work, binding, lock, wk, raced, rc>>
    /\ RestUnchanged

RepairGoal == IF rep.disp = "orphan_reaped" THEN "orphaned" ELSE "cancelled"

(* Mutant: the transition is written over whatever the record says. *)
RepairSettleAnyway ==
    /\ rep.pc = "settle"
    /\ WriteTask(Operator, rep.op, Terminalized(task[rep.op], RepairGoal))
    /\ StepTo("drop")
    /\ UNCHANGED <<work, binding, lock, child, wk, rc>>
    /\ RestUnchanged

(* manager.cancelled or orphan on the current record; a refusal ends the   *)
(* repair.                                                                 *)
RepairSettle ==
    /\ rep.pc = "settle"
    /\ LET t == task[rep.op]
       IN \/ /\ TransitionWrites(t, RepairGoal, rep.owner)
             /\ WriteTask(Operator, rep.op, Terminalized(t, RepairGoal))
             /\ StepTo("drop")
          \/ /\ TransitionRepeats(t, RepairGoal, rep.owner)
             /\ KeepTask(Operator)
             /\ StepTo("drop")
          \/ /\ ~TransitionWrites(t, RepairGoal, rep.owner)
             /\ ~TransitionRepeats(t, RepairGoal, rep.owner)
             /\ KeepTask(Operator)
             /\ GiveUp
    /\ UNCHANGED <<work, binding, lock, child, wk, rc>>
    /\ RestUnchanged

RepairDrop ==
    /\ rep.pc = "drop"
    /\ DeleteItem(rep.op)
    /\ IF rep.bnd = NoBinding THEN GiveUp ELSE StepTo("unbind")
    /\ UNCHANGED <<task, binding, lock, child, wk, raced, rc>>
    /\ RestUnchanged

RepairUnbind ==
    /\ rep.pc = "unbind"
    /\ DeleteBindingIfUnchanged(rep.op, rep.bnd)
    /\ GiveUp
    /\ UNCHANGED <<task, work, lock, child, wk, raced, rc>>
    /\ RestUnchanged

(* Mutant: the item is saved without a comparison. *)
RepairItemAnyway ==
    /\ rep.pc = "item"
    /\ work' = [work EXCEPT ![rep.op] = RequeuedItem(rep.item)]
    /\ IF rep.requeue THEN StepTo("task") ELSE GiveUp
    /\ UNCHANGED <<task, binding, lock, child, wk, raced, rc>>
    /\ RestUnchanged

(* requeue_unstarted_work, saved against the item that was read. *)
RepairItem ==
    /\ rep.pc = "item"
    /\ IF CanRequeueItem(rep.item) /\ work[rep.op] = rep.item
       THEN /\ work' = [work EXCEPT ![rep.op] = RequeuedItem(rep.item)]
            /\ IF rep.requeue THEN StepTo("task") ELSE GiveUp
       ELSE GiveUp /\ UNCHANGED work
    /\ UNCHANGED <<task, binding, lock, child, wk, raced, rc>>
    /\ RestUnchanged

RepairTask ==
    /\ rep.pc = "task"
    /\ IF RequeueAccepted(task[rep.op])
       THEN WriteTask(Operator, rep.op, Requeued(task[rep.op]))
       ELSE KeepTask(Operator)
    /\ GiveUp
    /\ UNCHANGED <<work, binding, lock, child, wk, rc>>
    /\ RestUnchanged

RepairCrash ==
    /\ rep.pc # "off" /\ faults < MaxFaults
    /\ faults' = faults + 1
    /\ GiveUp
    /\ UNCHANGED <<task, work, binding, result, lock, aged, child, pids, wk,
                   raced, rc, spawned>>

RepairStep ==
    \/ RepairReread \/ RepairReap \/ RepairSettle \/ RepairDrop \/ RepairUnbind
    \/ RepairItem \/ RepairTask

RepairNext ==
    \/ \E o \in Ops : RepairAccepted(o)
    \/ RepairStep \/ RepairCrash
    \/ Next /\ UNCHANGED rep

RepairSpec == RepairInit /\ [][RepairNext]_repairVars

-----------------------------------------------------------------------------
(* Properties.                                                             *)

(* A repair reports that the child's process group is gone, so the         *)
(* operation it orphans has no child.                                      *)
RepairOrphansContained ==
    [][\A w \in Workers :
          (rep.pc = "settle" /\ rep.disp = "orphan_reaped" /\ task' # task
             /\ child[w].st = "running") => child[w].op # rep.op]_repairVars
=============================================================================
