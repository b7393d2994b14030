-------------------------------- MODULE Tasks --------------------------------
(***************************************************************************)
(* Task execution (ExecuteTasks, ExecuteTask and executeBackgroundCommand  *)
(* of pkg/remote/client.go) over the SSH client manager.  A provisioner is *)
(* one invocation of ExecuteTasks; every command of its tasks is a call of *)
(* SSHManager, beside those that other goroutines make.                    *)
(*                                                                         *)
(* ExecuteTasks ranges over a Go map and deletes from it: each pass visits *)
(* what remains in any order.                                              *)
(***************************************************************************)
EXTENDS SSHManager

CONSTANTS
  Provisioners,
  HostOf,         \* the host each works on
  TaskNames,      \* those of its task list
  NoTask,
  Background,     \* the tasks that run in a tmux session
  DependsOn       \* the dependencies the lists may have; names may be missing

\* The commands of a task: a foreground task has one; a background task kills
\* its old tmux session and starts a new one.
Run(p, t)  == <<p, t, "run">>
Kill(p, t) == <<p, t, "kill">>

TaskCalls ==
  {Run(p, t) : p \in Provisioners, t \in TaskNames} \cup
  {Kill(p, t) : p \in Provisioners, t \in Background}

TasksAssumption ==
  /\ Background \subseteq TaskNames /\ NoTask \notin TaskNames
  /\ HostOf \in [Provisioners -> Hosts]
  /\ TaskCalls \subseteq Calls
  /\ \A p \in Provisioners, t \in TaskNames :
       Target[Run(p, t)] = HostOf[p] /\
       (t \in Background => Target[Kill(p, t)] = HostOf[p])
  /\ \A d \in DependsOn : DOMAIN d = TaskNames

ASSUME TasksAssumption

VARIABLES
  at,         \* where each provisioner is; at the end, what it returned
  deps,       \* task.DependsOn of its tasks
  remaining,  \* not completed
  visit,      \* what this pass over remaining has still to visit
  progress,   \* progressMade; TRUE before the first pass
  completed,  \* completedTasks
  task        \* the task ExecuteTask is at

taskVars == <<at, deps, remaining, visit, progress, completed, task>>

tasksVars == <<sshVars, taskVars>>

TasksTypeOK ==
  /\ TypeOK
  /\ at \in [Provisioners -> {"idle", "pass", "kill", "run",
                              "done", "failed", "circular"}]
  /\ deps \in [Provisioners -> DependsOn]
  /\ remaining \in [Provisioners -> SUBSET TaskNames]
  /\ visit \in [Provisioners -> SUBSET TaskNames]
  /\ progress \in [Provisioners -> BOOLEAN]
  /\ completed \in [Provisioners -> SUBSET TaskNames]
  /\ task \in [Provisioners -> TaskNames \cup {NoTask}]
  /\ \A p \in Provisioners : at[p] \in {"kill", "run"} => task[p] \in TaskNames

TasksInit ==
  /\ Init
  /\ at = [p \in Provisioners |-> "idle"]
  /\ deps \in [Provisioners -> DependsOn]
  /\ remaining = [p \in Provisioners |-> TaskNames]
  /\ visit = [p \in Provisioners |-> {}]
  /\ progress = [p \in Provisioners |-> TRUE]
  /\ completed = [p \in Provisioners |-> {}]
  /\ task = [p \in Provisioners |-> NoTask]

-----------------------------------------------------------------------------

Move(p, from, to) == at[p] = from /\ at' = [at EXCEPT ![p] = to]

Begin(p) ==
  /\ Move(p, "idle", "pass")
  /\ UNCHANGED <<sshVars, deps, remaining, visit, progress, completed, task>>

Runnable(p, t) == deps[p][t] \subseteq completed[p]

\* A task that has to wait for another one, in this pass.
Skip(p, t) ==
  /\ at[p] = "pass" /\ t \in visit[p] /\ ~Runnable(p, t)
  /\ visit' = [visit EXCEPT ![p] = @ \ {t}]
  /\ UNCHANGED <<sshVars, at, deps, remaining, progress, completed, task>>

\* Mutant of Execute: a dependency counts as done once the pass has visited it.
ExecuteVisited(p, t) ==
  /\ t \in visit[p] /\ deps[p][t] \cap visit[p] = {}
  /\ visit' = [visit EXCEPT ![p] = @ \ {t}]
  /\ task' = [task EXCEPT ![p] = t]
  /\ \/ t \in Background /\ Move(p, "pass", "kill") /\ Call(Kill(p, t))
     \/ t \notin Background /\ Move(p, "pass", "run") /\ Call(Run(p, t))
  /\ UNCHANGED <<deps, remaining, progress, completed>>

Execute(p, t) ==
  /\ t \in visit[p] /\ Runnable(p, t)
  /\ visit' = [visit EXCEPT ![p] = @ \ {t}]
  /\ task' = [task EXCEPT ![p] = t]
  /\ \/ t \in Background /\ Move(p, "pass", "kill") /\ Call(Kill(p, t))
     \/ t \notin Background /\ Move(p, "pass", "run") /\ Call(Run(p, t))
  /\ UNCHANGED <<deps, remaining, progress, completed>>

\* Whether the old session was there and could be killed does not matter.
Start(p) ==
  /\ Move(p, "kill", "run")
  /\ pc[Kill(p, task[p])] \in Returned
  /\ Call(Run(p, task[p]))
  /\ UNCHANGED <<deps, remaining, visit, progress, completed, task>>

Complete(p) ==
  /\ Move(p, "run", "pass")
  /\ pc[Run(p, task[p])] = "ok"
  /\ completed' = [completed EXCEPT ![p] = @ \cup {task[p]}]
  /\ remaining' = [remaining EXCEPT ![p] = @ \ {task[p]}]
  /\ progress' = [progress EXCEPT ![p] = TRUE]
  /\ UNCHANGED <<sshVars, deps, visit, task>>

Fail(p) ==
  /\ Move(p, "run", "failed")
  /\ pc[Run(p, task[p])] \in Returned \ {"ok"}
  /\ UNCHANGED <<sshVars, deps, remaining, visit, progress, completed, task>>

\* Mutants of PassEnds: progressMade is not reset; no second pass is made.
PassEndsProgress(p) ==
  /\ visit[p] = {}
  /\ \/ /\ remaining[p] = {} /\ Move(p, "pass", "done")
        /\ UNCHANGED visit
     \/ /\ remaining[p] # {} /\ ~progress[p] /\ Move(p, "pass", "circular")
        /\ UNCHANGED visit
     \/ /\ remaining[p] # {} /\ progress[p] /\ Move(p, "pass", "pass")
        /\ visit' = [visit EXCEPT ![p] = remaining[p]]
  /\ UNCHANGED progress
  /\ UNCHANGED <<sshVars, deps, remaining, completed, task>>

PassEndsAtOnce(p) ==
  /\ visit[p] = {}
  /\ \/ /\ remaining[p] = {} /\ Move(p, "pass", "done")
        /\ UNCHANGED <<visit, progress>>
     \/ /\ remaining[p] \notin {{}, TaskNames} /\ Move(p, "pass", "circular")
        /\ UNCHANGED <<visit, progress>>
     \/ /\ remaining[p] = TaskNames /\ progress[p] /\ Move(p, "pass", "pass")
        /\ visit' = [visit EXCEPT ![p] = remaining[p]]
        /\ progress' = [progress EXCEPT ![p] = FALSE]
  /\ UNCHANGED <<sshVars, deps, remaining, completed, task>>

\* The end of a pass: another one, unless nothing is left or nothing was done.
PassEnds(p) ==
  /\ visit[p] = {}
  /\ \/ /\ remaining[p] = {} /\ Move(p, "pass", "done")
        /\ UNCHANGED <<visit, progress>>
     \/ /\ remaining[p] # {} /\ ~progress[p] /\ Move(p, "pass", "circular")
        /\ UNCHANGED <<visit, progress>>
     \/ /\ remaining[p] # {} /\ progress[p] /\ Move(p, "pass", "pass")
        /\ visit' = [visit EXCEPT ![p] = remaining[p]]
        /\ progress' = [progress EXCEPT ![p] = FALSE]
  /\ UNCHANGED <<sshVars, deps, remaining, completed, task>>

ProvisionerStep(p) ==
  \/ \E t \in TaskNames : Skip(p, t) \/ Execute(p, t)
  \/ Start(p) \/ Complete(p) \/ Fail(p) \/ PassEnds(p)

TasksNext ==
  \/ \E p \in Provisioners : Begin(p) \/ ProvisionerStep(p)
  \/ (ManagerStep \/ \E x \in Calls \ TaskCalls : Call(x)) /\ UNCHANGED taskVars

TasksSpec == TasksInit /\ [][TasksNext]_tasksVars

TasksFairness ==
  ManagerFairness /\ \A p \in Provisioners : WF_tasksVars(ProvisionerStep(p))

TasksFairSpec == TasksSpec /\ TasksFairness

-----------------------------------------------------------------------------
(* Properties *)

\* A task's command reaches the host only when every task it depends on has run
\* there and succeeded.
DependenciesFirst ==
  \A p \in Provisioners, t \in TaskNames :
    runs[Run(p, t)] > 0 =>
      \A d \in deps[p][t] : d \in TaskNames /\ pc[Run(p, d)] = "ok"

\* It returns nil only if every task ran once and succeeded, and complains of a
\* circle or a missing task only if every task that is left waits for one that
\* is left or missing: no order of the tasks would have got further.
ReturnIsJustified ==
  \A p \in Provisioners :
    /\ at[p] = "done" =>
         \A t \in TaskNames : pc[Run(p, t)] = "ok" /\ runs[Run(p, t)] = 1
    /\ at[p] = "circular" =>
         \A t \in remaining[p] :
           \E d \in deps[p][t] : d \in remaining[p] \/ d \notin TaskNames

\* It returns, whatever the host and the dependencies, unless a dial, of any
\* host, never ends.
TasksReturn ==
  []<>(dialing = NoHost) =>
    \A p \in Provisioners :
      at[p] = "pass" ~> at[p] \in {"done", "failed", "circular"}

=============================================================================
