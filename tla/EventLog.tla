------------------------------- MODULE EventLog -------------------------------
(***************************************************************************)
(* The events table as a log that is appended to, read from cursors and    *)
(* pruned (sync/event-writes.ts, sync/branch-db.ts, syncPull in            *)
(* sync/service.ts, storage/events-retention.ts).  Events are ordered by   *)
(* a timestamp taken from a clock that may go back; a cursor is the        *)
(* timestamp of the last event that a worktree has replayed of a branch.   *)
(* A pull reads a batch before the transaction that replays it, and a      *)
(* prune computes its cutoff before the transaction that deletes.          *)
(***************************************************************************)
EXTENDS Integers, FiniteSets

CONSTANTS
    Worktree, Branch,
    Puller, Pruner, \* processes that run `sync pull` and `events prune`
    Idle,           \* such a process has nothing to do
    BatchSize,      \* SYNC_PULL_BATCH_SIZE
    Retention,      \* --retention-days
    Skew,           \* how far the clock goes back at most
    MaxClock, MaxEvents     \* bounds

\* A prune reaches further back than any clock is wrong: 90 days by default.
ASSUME LogAssumption ==
    /\ BatchSize \in Nat \ {0}
    /\ Retention \in Nat /\ Skew \in Nat /\ Skew < Retention
    /\ MaxClock \in Nat /\ MaxEvents \in Nat

VARIABLES
    clock, peak,    \* what Date.now() says; history: the most it has said
    log,            \* the events table
    cursor,         \* sync_cursors; 0 where there is no row
    pull,           \* what each pull is about to do
    prune,          \* what each prune is about to do
    gone,           \* history: events that were pruned
    seen,           \* history: events each worktree has replayed
    excused         \* history: events pruned without regard to a worktree

vars == <<clock, peak, log, cursor, pull, prune, gone, seen, excused>>

Event == [at : Nat, by : Branch]
All == log \cup gone

Drained == {}

Greatest(S) == {x \in S : \A y \in S : y <= x}
Least(S) == {x \in S : \A y \in S : x <= y}
Times(E) == {e.at : e \in E}

----------------------------------------------------------------------------
(* Appending *)

Tick ==
    /\ clock' \in 1 .. MaxClock
    /\ peak' = IF clock' > peak THEN clock' ELSE peak
    /\ clock' >= peak' - Skew
    /\ UNCHANGED <<log, cursor, pull, prune, gone, seen, excused>>

\* nextEventTimestamp, inside the write lock.
\* Mutant: the clock alone orders the log.
ClockTimestamp(top) == clock
NextTimestamp(top) == IF clock > top THEN clock ELSE top + 1

AppendEvent(b) ==
    /\ Cardinality(All) < MaxEvents
    /\ \E top \in Greatest({0} \cup Times(log)) :
          log' = log \cup {[at |-> NextTimestamp(top), by |-> b]}
    /\ UNCHANGED <<clock, peak, cursor, pull, prune, gone, seen, excused>>

----------------------------------------------------------------------------
(* Pulling *)

PullStart(p, w, src) ==
    /\ pull[p] = Idle
    /\ pull' = [pull EXCEPT ![p] = [home |-> w, src |-> src, at |-> cursor[w][src], batch |-> Drained]]
    /\ UNCHANGED <<clock, peak, log, cursor, prune, gone, seen, excused>>

Backlog(p) == {e \in log : e.by = pull[p].src /\ e.at > pull[p].at}

\* The oldest events of the backlog, at most a batch of them.
\* Mutant: all of it.
WholeBacklog(p) == {Backlog(p)}
Batches(p) ==
    {B \in SUBSET Backlog(p) :
        /\ \A e \in B, f \in Backlog(p) \ B : e.at < f.at
        /\ Cardinality(B) <= BatchSize
        /\ Cardinality(B) = BatchSize \/ B = Backlog(p)}

\* queryBranchEventsSinceBatch
PullRead(p) ==
    /\ pull[p] # Idle /\ pull[p].batch = Drained
    /\ IF Backlog(p) = {}
       THEN pull' = [pull EXCEPT ![p] = Idle]
       ELSE \E B \in Batches(p) : pull' = [pull EXCEPT ![p] = [@ EXCEPT !.batch = B]]
    /\ UNCHANGED <<clock, peak, log, cursor, prune, gone, seen, excused>>

\* The transaction of a batch: storeEvent (INSERT OR IGNORE) brings back what was
\* pruned since the read; the cursor is saved; a short batch is the last.
PullBatch(p) ==
    /\ pull[p] # Idle /\ pull[p].batch # Drained
    /\ LET B == pull[p].batch
           w == pull[p].home
       IN  \E last \in Greatest(Times(B)) :
              /\ log' = log \cup B
              /\ seen' = [seen EXCEPT ![w] = @ \cup B]
              /\ cursor' = [cursor EXCEPT ![w] = [@ EXCEPT ![pull[p].src] = last]]
              /\ pull' = [pull EXCEPT ![p] =
                            IF Cardinality(B) < BatchSize THEN Idle
                            ELSE [@ EXCEPT !.at = last, !.batch = Drained]]
    /\ UNCHANGED <<clock, peak, prune, gone, excused>>

PullDies(p) ==
    /\ pull[p] # Idle
    /\ pull' = [pull EXCEPT ![p] = Idle]
    /\ UNCHANGED <<clock, peak, log, cursor, prune, gone, seen, excused>>

----------------------------------------------------------------------------
(* Pruning *)

HasCursor == {x \in Worktree \X Branch : cursor[x[1]][x[2]] # 0}

\* The retention cutoff or, where a cursor is older, the oldest cursor.
\* Mutant: the retention cutoff alone.
RetentionCutoff == {clock - Retention}
Cutoffs == Least({clock - Retention} \cup {cursor[x[1]][x[2]] : x \in HasCursor})

PruneLook(r) ==
    /\ prune[r] = Idle
    /\ \E c \in Cutoffs :
          /\ \E e \in log : e.at < c
          /\ prune' = [prune EXCEPT ![r] = [cutoff |-> c, guarded |-> HasCursor]]
    /\ UNCHANGED <<clock, peak, log, cursor, pull, gone, seen, excused>>

PruneDelete(r) ==
    /\ prune[r] # Idle
    /\ LET D == {e \in log : e.at < prune[r].cutoff}
       IN  /\ log' = log \ D
           /\ gone' = gone \cup D
           /\ excused' = [w \in Worktree |->
                 excused[w] \cup {e \in D : <<w, e.by>> \notin prune[r].guarded}]
    /\ prune' = [prune EXCEPT ![r] = Idle]
    /\ UNCHANGED <<clock, peak, cursor, pull, seen>>

PruneDies(r) ==
    /\ prune[r] # Idle
    /\ prune' = [prune EXCEPT ![r] = Idle]
    /\ UNCHANGED <<clock, peak, log, cursor, pull, gone, seen, excused>>

----------------------------------------------------------------------------

Init ==
    /\ clock = 1 /\ peak = 1
    /\ log = {} /\ gone = {}
    /\ cursor = [w \in Worktree |-> [b \in Branch |-> 0]]
    /\ pull = [p \in Puller |-> Idle]
    /\ prune = [r \in Pruner |-> Idle]
    /\ seen = [w \in Worktree |-> {}]
    /\ excused = [w \in Worktree |-> {}]

Next ==
    \/ Tick
    \/ \E b \in Branch : AppendEvent(b)
    \/ \E p \in Puller, w \in Worktree, b \in Branch : PullStart(p, w, b)
    \/ \E p \in Puller : PullRead(p) \/ PullBatch(p) \/ PullDies(p)
    \/ \E r \in Pruner : PruneLook(r) \/ PruneDelete(r) \/ PruneDies(r)

Spec == Init /\ [][Next]_vars

----------------------------------------------------------------------------
(* Properties *)

Pulling == [home : Worktree, src : Branch, at : Nat, batch : SUBSET Event]
Pruning == [cutoff : Int, guarded : SUBSET (Worktree \X Branch)]

\* Every variable has its type, and no two events ever have one timestamp, those that
\* are gone included: a cursor stands for one place in the log.
TypeOK ==
    /\ clock \in Nat /\ peak \in Nat
    /\ log \subseteq Event /\ gone \subseteq Event
    /\ cursor \in [Worktree -> [Branch -> Nat]]
    /\ pull \in [Puller -> Pulling \cup {Idle}]
    /\ prune \in [Pruner -> Pruning \cup {Idle}]
    /\ seen \in [Worktree -> SUBSET Event] /\ excused \in [Worktree -> SUBSET Event]
    /\ \A e, f \in All : e.at = f.at => e = f
    /\ \A p \in Puller : pull[p] # Idle => Cardinality(pull[p].batch) <= BatchSize

\* "Cursors always have replayable history" (events-retention.ts:117): what a worktree
\* with a cursor has not replayed is ahead of its cursor and still in the log, over
\* clocks that go back, overlapping pulls and prunes that die or delete late; but for
\* events pruned by a prune that found no cursor of this worktree when it looked.
NothingMissed ==
    \A w \in Worktree : \A e \in All :
        \/ cursor[w][e.by] = 0
        \/ e \in seen[w] \cup excused[w]
        \/ e \in log /\ e.at > cursor[w][e.by]
=============================================================================
