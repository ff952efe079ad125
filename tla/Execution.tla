------------------------------ MODULE Execution ------------------------------
(***************************************************************************)
(* Agents that work an epic off (README.md, "Execute"; docs/ai-agents.md,  *)
(* "Default execution loop"): an orchestrator reads `task ready` once,     *)
(* hands ready tasks to agents, each claims its task, works on it and      *)
(* calls `task done`, and the answer names the tasks that this unblocked.  *)
(* The database is module Tracker; what each command answers is translated *)
(* from commands/task.ts, suggest.ts and task-readiness.ts.                *)
(***************************************************************************)
EXTENDS Tracker

CONSTANTS
    Agent,
    PlanEdges,      \* bound: the dependencies that a plan may have
    MaxCrashes      \* bound: how often agents or their answers are lost

ASSUME MaxCrashesAssumption == MaxCrashes \in Nat
ASSUME PlanEdgesAssumption == PlanEdges \subseteq Edge

VARIABLES
    known,          \* tasks that the orchestrator knows to be ready
    step,           \* what each agent does
    task,           \* the task it does it with
    answer,         \* the ready tasks named by an answer it has not passed on
    unheard,        \* history: ready tasks named in no answer that arrived
    crashes

agents == <<known, step, task, answer, unheard, crashes>>
allVars == <<vars, agents>>

Nobody == "none"

----------------------------------------------------------------------------
(* What the commands answer *)

\* Mutant: only tasks that nobody has claimed are offered.
TodoOnly == {t \in Tasks : status[t] = "todo"}
OpenTasks == {t \in Tasks : status[t] \in {"in_progress", "todo"}}

\* batchResolveDependencyStatuses: dependencies of a task that are not done.
Blockers(t) == {d \in deps : d[1] = t /\ Live(d[2]) /\ status[d[2]] # "done"}

\* buildTaskReadiness
Candidates(e) == {t \in OpenTasks : EpicOf[t] = e /\ Blockers(t) = {}}

\* candidates[0], up to the time of creation: those in progress come first.
Foremost(e) ==
    LET busy == {t \in Candidates(e) : status[t] = "in_progress"}
    IN  IF busy = {} THEN Candidates(e) ELSE busy

\* The tasks that wait for t, as `task done` finds them before it writes.
\* Mutant: they are looked for after the write.
WaitingAfter(t) == {d[1] : d \in {d \in deps : d[2] = t /\ d[1] \in Tasks /\ Blockers(d[1])' # {}}}
Waiting(t) == {d[1] : d \in {d \in deps : d[2] = t /\ d[1] \in Tasks /\ Blockers(d[1]) # {}}}

\* The next step that `suggest` names for an epic without open tasks.
EpicTarget(e) == IF ValidTransition(status[e], "done") THEN "done" ELSE "in_progress"
Suggested(e) == /\ {t \in OpenTasks : EpicOf[t] = e} = {}
                /\ status[e] # "done"

----------------------------------------------------------------------------
(* The orchestrator *)

Idle == {a \in Agent : step[a] = "idle"}
Does(a, s) == step' = [step EXCEPT ![a] = s]

\* `task ready --epic`: at the start, and when nothing is left to do.
TaskReady(e) ==
    /\ known = {} /\ Idle = Agent
    /\ known' = Candidates(e)
    /\ unheard' = {}
    /\ UNCHANGED <<vars, step, task, answer, crashes>>

Dispatch(a, t) ==
    /\ a \in Idle /\ t \in known
    /\ known' = known \ {t}
    /\ Does(a, IF status[t] = "in_progress" THEN "working" ELSE "claiming")
    /\ task' = [task EXCEPT ![a] = t]
    /\ UNCHANGED <<vars, answer, unheard, crashes>>

TakeAnswer(a) ==
    /\ step[a] = "reported"
    /\ known' = known \cup answer[a]
    /\ answer' = [answer EXCEPT ![a] = {}]
    /\ Does(a, "idle")
    /\ UNCHANGED <<vars, task, unheard, crashes>>

AdvanceEpic(e) ==
    /\ Suggested(e) /\ Idle = Agent /\ known = {}
    /\ UpdateEpic(e, EpicTarget(e))
    /\ UNCHANGED agents

----------------------------------------------------------------------------
(* An agent *)

\* Mutant: the answer says claimed, and the row was not written.
ClaimUnwritten(a) ==
    /\ step[a] = "claiming"
    /\ status[task[a]] \in {"todo", "blocked"} /\ DepsDone(task[a])
    /\ Does(a, "working")
    /\ UNCHANGED <<vars, known, task, answer, unheard, crashes>>

ClaimTask(a) ==
    /\ step[a] = "claiming"
    /\ Claim(task[a])
    /\ Does(a, "working")
    /\ UNCHANGED <<known, task, answer, unheard, crashes>>

\* claimed: false, another agent was first; or dependency_blocked.
ClaimRefused(a) ==
    /\ step[a] = "claiming"
    /\ status[task[a]] \notin {"todo", "blocked"} \/ ~DepsDone(task[a])
    /\ Does(a, "idle")
    /\ UNCHANGED <<vars, known, task, answer, unheard, crashes>>

OpenSubtasks(t) == {s \in SubtasksOf({t}) : status[s] # "done"}

\* subtask claim, subtask update --status done
DoSubtask(a) ==
    /\ step[a] = "working"
    /\ \E s \in OpenSubtasks(task[a]) : Claim(s) \/ (UpdateItem(s, "done") /\ status[s] # "done")
    /\ UNCHANGED agents

\* task done, with the unblocked tasks and the next one in its answer; an agent that
\* went on with a task that is done already gets already_done.
TaskDone(a, t) ==
    /\ step[a] = "working" /\ task[a] = t /\ OpenSubtasks(t) = {}
    /\ MarkTaskDone(t)
    /\ \E next \in SUBSET Foremost(EpicOf[t])' :
          /\ Cardinality(next) <= 1
          /\ next # {} \/ Foremost(EpicOf[t])' = {}
          /\ answer' = [answer EXCEPT ![a] =
                           (Waiting(t) \cap Candidates(EpicOf[t])')
                           \cup {n \in next : status'[n] = "todo"}]
    /\ Does(a, "reported")
    /\ UNCHANGED <<known, task, unheard, crashes>>

AlreadyDone(a) ==
    /\ step[a] = "working" /\ status[task[a]] = "done"
    /\ Does(a, "idle")
    /\ UNCHANGED <<vars, known, task, answer, unheard, crashes>>

\* dependency_blocked for every subtask that is left: the agent leaves its task in
\* progress and works on a ready one.
SetAside(a) ==
    /\ step[a] = "working"
    /\ OpenSubtasks(task[a]) # {} /\ \A s \in OpenSubtasks(task[a]) : ~DepsDone(s)
    /\ Does(a, "idle")
    /\ UNCHANGED <<vars, known, task, answer, unheard, crashes>>

\* task update --append "Blocked by .." --status blocked
Block(a) ==
    /\ step[a] = "working"
    /\ UpdateItem(task[a], "blocked")
    /\ Does(a, "idle")
    /\ UNCHANGED <<known, task, answer, unheard, crashes>>

\* The agent ends, or its answer is lost; what it was told goes with it.
Crash(a) ==
    /\ a \notin Idle /\ crashes < MaxCrashes
    /\ crashes' = crashes + 1
    /\ unheard' = unheard \cup answer[a] \cup (IF step[a] = "claiming" THEN {task[a]} ELSE {})
    /\ answer' = [answer EXCEPT ![a] = {}]
    /\ Does(a, "idle")
    /\ UNCHANGED <<vars, known, task>>

----------------------------------------------------------------------------

\* What must end before n can: its dependencies, its subtasks, and for a subtask what its
\* task waits for.
Needs(D, n) == {d[2] : d \in {d \in D : d[1] = n \/ (n \in Subtasks /\ d[1] = TaskOf[n])}}
               \cup {s \in Subtasks : TaskOf[s] = n}

\* Plans without a cycle, in which no subtask waits for what waits for its own task.
Plans == {D \in SUBSET PlanEdges :
             /\ Acyclic(D)
             /\ \A N \in SUBSET Item : N # {} => \E n \in N : Needs(D, n) \cap N = {}}

Start ==
    /\ status = [n \in Node |-> "todo"]
    /\ deps \in Plans
    /\ logStatus = status /\ logDeps = deps
    /\ known = {} /\ unheard = {t \in Tasks : Blockers(t) = {}}
    /\ step = [a \in Agent |-> "idle"]
    /\ task = [a \in Agent |-> Nobody]
    /\ answer = [a \in Agent |-> {}]
    /\ crashes = 0

Works(a) == \/ ClaimTask(a) \/ ClaimRefused(a) \/ DoSubtask(a)
            \/ \E t \in Tasks : TaskDone(a, t)
            \/ AlreadyDone(a) \/ SetAside(a) \/ TakeAnswer(a)

Run == \/ \E e \in Epics : TaskReady(e) \/ AdvanceEpic(e)
       \/ \E a \in Agent : Works(a) \/ Block(a) \/ Crash(a) \/ (\E t \in Tasks : Dispatch(a, t))

Execute == Start /\ [][Run]_allVars

\* The orchestrator and the agents go on; none of them has to block or to crash.
FairExecution ==
    /\ Execute
    /\ \A e \in Epics : WF_allVars(TaskReady(e)) /\ WF_allVars(AdvanceEpic(e))
    /\ WF_allVars(\E a \in Agent, t \in Tasks : Dispatch(a, t))
    /\ \A a \in Agent : WF_allVars(Works(a))

----------------------------------------------------------------------------
(* Properties *)

\* Every variable has its type, and who works on a task has claimed it or went on with
\* one that was claimed.
AgentsOK ==
    /\ TypeOK
    /\ known \subseteq Tasks /\ unheard \subseteq Tasks /\ crashes \in 0 .. MaxCrashes
    /\ step \in [Agent -> {"idle", "claiming", "working", "reported"}]
    /\ task \in [Agent -> Tasks \cup {Nobody}]
    /\ answer \in [Agent -> SUBSET Tasks]
    /\ \A a \in Agent : step[a] = "working" => status[task[a]] \in {"in_progress", "done", "blocked"}

\* "No polling, no guessing" (README.md:115): a task that has become ready is named by
\* the answer of the `task done` that unblocked it, whichever of its dependencies ends
\* last and however many end at once; but for tasks that wait for subtasks, which no
\* answer names, and answers that were lost.
InHand == {task[a] : a \in {b \in Agent : step[b] = "claiming"}}
ReadyIsKnown ==
    \A t \in Tasks :
        /\ status[t] = "todo" /\ t \in Candidates(EpicOf[t])
        /\ \A d \in deps : d[1] = t => d[2] \in Tasks
        => t \in known \cup InHand \cup unheard \cup UNION {answer[a] : a \in Agent}

\* The loop goes on until "the epic is complete, all remaining work is blocked" (README.md:119),
\* over lost agents, lost answers, lost races for a claim and agents that hold tasks whose
\* subtasks wait for tasks that nobody holds: from some time on each task is done, reported
\* as blocked, or waits, itself or by all its open subtasks, for one that is not done; without
\* a blocked task nothing waits, and with no other task left the epic is done.
BlockedTasks == {t \in Tasks : status[t] = "blocked"}
Stopped(t) == \/ status[t] \in {"done", "blocked"}
              \/ ~DepsDone(t)
              \/ OpenSubtasks(t) # {} /\ \A s \in OpenSubtasks(t) : ~DepsDone(s)
Finished ==
    /\ \A t \in Tasks : Stopped(t)
    /\ BlockedTasks = {} => \A n \in Node : status[n] = "done"
    /\ OpenTasks = {} => \A e \in Epics : status[e] = "done"
Finishes == <>[]Finished
=============================================================================
