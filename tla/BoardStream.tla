----------------------------- MODULE BoardStream -----------------------------
(***************************************************************************)
(* How the board server keeps browser tabs up to date: route handlers that *)
(* publish their own delta, the WAL watcher that finds the changes of      *)
(* other processes in the event log or in a diff of two snapshots, the     *)
(* event bus, and one server-sent-event stream per tab                     *)
(* (src/src/board/wal-watcher.ts, event-bus.ts, routes.ts, snapshot.ts).   *)
(*                                                                         *)
(* The server is one JavaScript thread, so a published delta reaches every *)
(* stream in one step; commands in other processes commit between any two  *)
(* reads of the server.  An item is a row of the board; the derived fields *)
(* of its parents are computed again by the tab (utils.js) and left out.   *)
(***************************************************************************)
EXTENDS Integers, FiniteSets, SequencesExt

CONSTANTS
    Item,           \* ids of rows
    Stream,         \* browser tabs
    MaxStamp,       \* bound: changes of one row
    MaxEvents       \* bound: events in the log

\* The log has room for an event of every row that is there at the start.
ASSUME BoundsAssumption == MaxStamp \in Nat \ {0} /\ MaxEvents \in Nat
ASSUME ItemAssumption == Item # {} /\ IsFiniteSet(Item) /\ Cardinality(Item) <= MaxEvents

VARIABLES
    alive,      \* the rows that exist
    stamp,      \* (version, updatedAt) of a row, counted; 0 before it is created
    log,        \* the event log
    pruned,     \* how many of the oldest events were deleted
    baseline,   \* lastSnapshot of the watcher
    cursor,     \* lastEventCursor: a position of the log, 0 if null
    thread,     \* what the server is in the middle of
    published,  \* lastInProcessSnapshotDelta
    recent,     \* that delta may still be suppressed (500 ms, one tick)
    due,        \* a reconcile is scheduled, or the last one failed
    open,       \* the connected streams
    queue,      \* frames enqueued for a stream
    pending,    \* pendingFrame of a stream
    view,       \* what a tab shows
    unsent      \* history: rows with a change that no tick can see

database == <<alive, stamp, log, pruned>>
watcher == <<baseline, cursor, published, recent>>
streams == <<open, queue, pending, view>>
vars == <<database, watcher, thread, due, streams, unsent>>

(***************************************************************************)
(* Snapshots and deltas.  A frame maps rows to what a tab then shows for   *)
(* them, 0 for nothing; a full snapshot has every row in its domain.       *)
(***************************************************************************)
HighWater == 1      \* the default of a ReadableStream
Nothing == 0
Idle == [step |-> "idle"]
NoFrame == [i \in {} |-> Nothing]

\* buildBoardSnapshot, buildBoardSnapshotDelta
Board == [i \in Item |-> IF i \in alive THEN stamp[i] ELSE Nothing]
DeltaOf(upserted, deleted) ==
    [i \in (upserted \cap alive) \cup deleted |-> IF i \in upserted \cap alive THEN stamp[i] ELSE Nothing]

\* diffById
Diff(old, new) == LET changed == {i \in Item : old[i] # new[i]}
                  IN  Restrict(new, changed)

\* suppressAlreadyPublishedDiff
Unpublished(frame) ==
    IF recent
    THEN Restrict(frame, {i \in DOMAIN frame : i \notin DOMAIN published \/ published[i] # frame[i]})
    ELSE frame

\* readEventsSinceCursor, isCursorStale, eventsToCursorDelta
Unread == {n \in DOMAIN log : n > cursor /\ n > pruned}
Touched(positions, ops) == {log[n].item : n \in {m \in positions : log[m].op \in ops}}
\* Mutant: a cursor whose event was pruned is used.
CursorNeverStale == cursor # 0 /\ \A n \in Unread : log[n].op # "resolve_conflict"
CursorUsable == /\ cursor # 0
                /\ cursor > pruned
                /\ \A n \in Unread : log[n].op # "resolve_conflict"

LatestCursor == IF Len(log) = pruned THEN 0 ELSE Len(log)

(***************************************************************************)
(* The streams.                                                            *)
(***************************************************************************)
Backpressured(frames) == Len(frames) > HighWater

Flushed(s) == IF pending[s] = NoFrame THEN queue[s] ELSE Append(queue[s], pending[s])

\* Mutant: what is pending stays, and the delta overtakes it.
DeltaFirst(s, frame) ==
    IF Backpressured(queue[s]) THEN [queue |-> queue[s], pending |-> Board]
    ELSE [queue |-> Append(queue[s], frame), pending |-> pending[s]]

\* Mutant: one check, before the flush.
CheckedOnce(s, frame) ==
    IF Backpressured(queue[s]) THEN [queue |-> queue[s], pending |-> Board]
    ELSE [queue |-> Append(Flushed(s), frame), pending |-> NoFrame]

\* handleSnapshotDelta
AfterDelta(s, frame) ==
    IF Backpressured(queue[s]) THEN [queue |-> queue[s], pending |-> Board]
    ELSE IF Backpressured(Flushed(s)) THEN [queue |-> Flushed(s), pending |-> Board]
    ELSE [queue |-> Append(Flushed(s), frame), pending |-> NoFrame]

\* publishSnapshotDelta, to every subscriber in turn
Publish(frame) ==
    /\ queue' = [s \in Stream |-> IF s \in open THEN AfterDelta(s, frame).queue ELSE queue[s]]
    /\ pending' = [s \in Stream |-> IF s \in open THEN AfterDelta(s, frame).pending ELSE pending[s]]
    /\ UNCHANGED <<open, view>>

\* The watcher publishes nothing for an empty delta (hasDiffChanges).
PublishChanges(frame) == IF frame = NoFrame THEN UNCHANGED streams ELSE Publish(frame)

\* The rows that a published frame brings up to date, except one that sync pull
\* brought back and whose deletion the watcher, now at a cursor, is yet to read.
SentBy(frame, at) ==
    {i \in DOMAIN frame : frame[i] = Board[i]}
        \ (alive \cap Touched({n \in DOMAIN log : n > at}, {"delete"}))

(***************************************************************************)
(* Commits.  Every one moves the WAL file and so schedules a reconcile.    *)
(***************************************************************************)
Event(i, op) == [item |-> i, op |-> op]
Logged(i, op) == /\ Len(log) < MaxEvents
                 /\ log' = Append(log, Event(i, op))

Create(i) == /\ stamp[i] = 0
             /\ stamp' = [stamp EXCEPT ![i] = 1]
             /\ alive' = alive \cup {i}
             /\ Logged(i, "upsert")
Update(i) == /\ i \in alive
             /\ stamp[i] < MaxStamp
             /\ stamp' = [stamp EXCEPT ![i] = @ + 1]
             /\ alive' = alive
             /\ Logged(i, "upsert")
Delete(i) == /\ i \in alive
             /\ alive' = alive \ {i}
             /\ stamp' = stamp
             /\ Logged(i, "delete")

Committed == due' = "yes" /\ pruned' = pruned

\* A command in another process.
CliWrite(i) == /\ Create(i) \/ Update(i) \/ Delete(i)
               /\ Committed
               /\ UNCHANGED <<watcher, thread, streams, unsent>>

\* sync pull rewrites, removes or brings back a row, with no event of its own.
Pull(i) == /\ stamp[i] < MaxStamp
           /\ stamp' = [stamp EXCEPT ![i] = @ + 1]
           /\ alive' \in {alive \cup {i}, alive \ {i}}
           /\ Committed
           /\ unsent' = unsent \cup {i}
           /\ UNCHANGED <<log, watcher, thread, streams>>

\* sync resolve: a resolve_conflict event, and the row if theirs is taken.
Resolve(i) == /\ Logged(i, "resolve_conflict")
              /\ \/ UNCHANGED <<alive, stamp>>
                 \/ /\ i \in alive /\ stamp[i] < MaxStamp
                    /\ stamp' = [stamp EXCEPT ![i] = @ + 1]
                    /\ alive' = alive
                 \/ /\ i \in alive
                    /\ alive' = alive \ {i}
                    /\ stamp' = stamp
              /\ Committed
              /\ UNCHANGED <<watcher, thread, streams, unsent>>

\* events prune
Prune == /\ pruned < Len(log)
         /\ pruned' \in (pruned + 1)..Len(log)
         /\ due' = "yes"
         /\ UNCHANGED <<alive, stamp, log, watcher, thread, streams, unsent>>

(***************************************************************************)
(* A mutation of a tab: the commit, then the delta.  POST and DELETE build *)
(* it in the transaction, PATCH reads the row again after it.              *)
(***************************************************************************)
BoardWrite(i) ==
    /\ thread = Idle
    /\ \/ /\ Create(i)
          /\ thread' = [step |-> "publish", frame |-> [j \in {i} |-> 1], reread |-> FALSE]
       \/ /\ Update(i)
          /\ thread' = [step |-> "publish", frame |-> [j \in {i} |-> stamp'[i]], reread |-> TRUE]
       \/ /\ Delete(i)
          /\ thread' = [step |-> "publish", frame |-> [j \in {i} |-> Nothing], reread |-> FALSE]
    /\ Committed
    /\ UNCHANGED <<watcher, streams, unsent>>

\* publishSnapshotDeltaIfPresent
PublishOwn ==
    /\ thread.step = "publish"
    /\ LET frame == IF thread.reread THEN DeltaOf(DOMAIN thread.frame, {}) ELSE thread.frame
       IN  /\ Publish(frame)
           /\ published' = frame
           /\ unsent' = unsent \ SentBy(frame, cursor)
    /\ recent' = TRUE
    /\ thread' = Idle
    /\ UNCHANGED <<database, baseline, cursor, due>>

(***************************************************************************)
(* The watcher.  A tick takes the event log if the cursor allows it, and   *)
(* otherwise reads the whole board; the rest of the tick is a second step. *)
(***************************************************************************)
Tick == thread = Idle /\ due = "yes"

ReadEvents ==
    /\ Tick /\ CursorUsable
    /\ due' = "no"
    /\ thread' = [step |-> "delta", upto |-> Len(log),
                  upserted |-> Touched(Unread, {"upsert"}), deleted |-> Touched(Unread, {"delete"})]
    /\ UNCHANGED <<database, watcher, streams, unsent>>

\* runEventCursorReconcile
PublishEvents ==
    /\ thread.step = "delta"
    /\ LET frame == Unpublished(DeltaOf(thread.upserted, thread.deleted))
       IN  /\ PublishChanges(frame)
           /\ unsent' = unsent \ SentBy(frame, thread.upto)
    /\ cursor' = thread.upto
    /\ recent' = FALSE
    /\ thread' = Idle
    /\ UNCHANGED <<database, baseline, published, due>>

\* A row that is born and gone since the baseline is in no diff.
ReadBoard ==
    /\ Tick /\ ~CursorUsable
    /\ due' = "no"
    /\ thread' = [step |-> "diff", upto |-> Len(log), fresh |-> Board]
    /\ unsent' = unsent \cup {i \in Item : baseline[i] = Nothing /\ Board[i] = Nothing /\ stamp[i] > 0}
    /\ UNCHANGED <<database, watcher, streams>>

\* runFullSnapshotReconcile: the cursor is read after the board, so an event
\* committed between the two is behind the cursor and not in the baseline.
PublishDiff ==
    /\ thread.step = "diff"
    /\ LET frame == Unpublished(Diff(baseline, thread.fresh))
           skipped == {log[n].item : n \in (thread.upto + 1)..Len(log)}
       IN  /\ PublishChanges(frame)
           /\ unsent' = (unsent \cup skipped) \ SentBy(frame, Len(log))
    /\ baseline' = thread.fresh
    /\ cursor' = LatestCursor
    /\ recent' = FALSE
    /\ thread' = Idle
    /\ UNCHANGED <<database, published, due>>

\* A read throws: nothing moved, and only the next commit tries again.
TickFails == /\ thread.step \in {"delta", "diff"}
             /\ thread' = Idle
             /\ due' = IF due = "yes" THEN "yes" ELSE "failed"
             /\ UNCHANGED <<database, watcher, streams, unsent>>

SuppressionExpires == /\ recent
                      /\ recent' = FALSE
                      /\ UNCHANGED <<database, baseline, cursor, published, thread, due, streams, unsent>>

(***************************************************************************)
(* Tabs.                                                                   *)
(***************************************************************************)
\* openSnapshotStream
Connect(s) == /\ thread = Idle
              /\ s \notin open
              /\ open' = open \cup {s}
              /\ queue' = [queue EXCEPT ![s] = <<Board>>]
              /\ UNCHANGED <<database, watcher, thread, due, pending, view, unsent>>

Disconnected(s) == /\ open' = open \ {s}
                   /\ queue' = [queue EXCEPT ![s] = <<>>]
                   /\ pending' = [pending EXCEPT ![s] = NoFrame]

\* A heartbeat takes a place in the queue and shows nothing.
Heartbeat(s) == /\ s \in open
                /\ thread = Idle
                /\ ~Backpressured(queue[s])
                /\ queue' = [queue EXCEPT ![s] = Append(@, NoFrame)]
                /\ UNCHANGED <<database, watcher, thread, due, open, pending, view, unsent>>

\* applySnapshotDelta of the tab: what the frame has is replaced.
Merged(frame, shown) == [i \in Item |-> IF i \in DOMAIN frame THEN frame[i] ELSE shown[i]]

\* Mutant: no pull, what is pending waits for the next delta.
ReadOnly(s) == /\ queue[s] # <<>>
               /\ view' = [view EXCEPT ![s] = Merged(Head(queue[s]), @)]
               /\ queue' = [queue EXCEPT ![s] = Tail(@)]
               /\ UNCHANGED <<database, watcher, thread, due, open, pending, unsent>>

\* The tab takes a frame; when the queue is empty, pull sends what is pending.
Read(s) == /\ queue[s] # <<>>
           /\ view' = [view EXCEPT ![s] = Merged(Head(queue[s]), @)]
           /\ IF Tail(queue[s]) = <<>> /\ pending[s] # NoFrame
              THEN /\ queue' = [queue EXCEPT ![s] = <<pending[s]>>]
                   /\ pending' = [pending EXCEPT ![s] = NoFrame]
              ELSE /\ queue' = [queue EXCEPT ![s] = Tail(@)]
                   /\ pending' = pending
           /\ UNCHANGED <<database, watcher, thread, due, open, unsent>>

\* The tab goes away, or the watchdog drops a tab that stopped reading.
Disconnect(s) == /\ s \in open
                 /\ Disconnected(s)
                 /\ UNCHANGED <<database, watcher, thread, due, view, unsent>>
Stall(s) == /\ s \in open /\ thread = Idle
            /\ Backpressured(queue[s])
            /\ Disconnected(s)
            /\ UNCHANGED <<database, watcher, thread, due, view, unsent>>

\* startBoardServer on a database with some rows, whose log may be pruned.
Init == /\ alive \in SUBSET Item
        /\ stamp = [i \in Item |-> IF i \in alive THEN 1 ELSE 0]
        /\ log = SetToSeq({Event(i, "upsert") : i \in alive})
        /\ pruned \in {0, Len(log)}
        /\ baseline = Board
        /\ cursor = LatestCursor
        /\ thread = Idle
        /\ published = NoFrame
        /\ recent = FALSE
        /\ due = "no"
        /\ open = {}
        /\ queue = [s \in Stream |-> <<>>]
        /\ pending = [s \in Stream |-> NoFrame]
        /\ view = [s \in Stream |-> [i \in Item |-> Nothing]]
        /\ unsent = {}

Commit(i) == CliWrite(i) \/ Pull(i) \/ Resolve(i) \/ BoardWrite(i)
Server == PublishOwn \/ ReadEvents \/ PublishEvents \/ ReadBoard \/ PublishDiff
Tab(s) == Connect(s) \/ Heartbeat(s) \/ Read(s) \/ Disconnect(s) \/ Stall(s)

Next == \/ \E i \in Item : Commit(i)
        \/ Prune \/ Server \/ TickFails \/ SuppressionExpires
        \/ \E s \in Stream : Tab(s)

Spec == Init /\ [][Next]_vars

\* The event loop runs: a reconcile that is due, and what it began, happens.
LiveSpec == Spec /\ WF_vars(Server)

(***************************************************************************)
(* Properties.                                                             *)
(***************************************************************************)
\* What the tab shows once it has read all that is on its way: of every row what the last
\* frame with it says.
Carriers(frames, i) == {n \in DOMAIN frames : i \in DOMAIN frames[n]}
Ending(frames, shown) ==
    [i \in Item |-> IF Carriers(frames, i) = {} THEN shown[i]
                    ELSE frames[Max(Carriers(frames, i))][i]]
Final(s) == Ending(Flushed(s), view[s])

Frames == UNION {[S -> 0..MaxStamp] : S \in SUBSET Item}
Positions == 0..MaxEvents

\* Every variable has its type; what the server is in the middle of is one of its
\* four steps, and a tab that never reads holds a bounded number of frames: the deltas
\* of a backpressured stream collapse into one pending snapshot, and flushing it does
\* not make room for a delta behind it (handleSnapshotDelta).
TypeOK == /\ alive \subseteq Item /\ unsent \subseteq Item
          /\ stamp \in [Item -> 0..MaxStamp]
          /\ log \in Seq([item : Item, op : {"upsert", "delete", "resolve_conflict"}])
          /\ pruned \in 0..Len(log) /\ cursor \in 0..Len(log)
          /\ baseline \in [Item -> 0..MaxStamp]
          /\ thread \in {Idle} \cup [step : {"publish"}, frame : Frames, reread : BOOLEAN]
                        \cup [step : {"delta"}, upto : Positions, upserted : SUBSET Item, deleted : SUBSET Item]
                        \cup [step : {"diff"}, upto : Positions, fresh : [Item -> 0..MaxStamp]]
          /\ published \in Frames /\ recent \in BOOLEAN
          /\ due \in {"no", "yes", "failed"}
          /\ open \subseteq Stream
          /\ queue \in [Stream -> Seq(Frames)]
          /\ \A s \in Stream : Len(queue[s]) <= HighWater + 1
          /\ pending \in [Stream -> Frames]
          /\ view \in [Stream -> [Item -> 0..MaxStamp]]

\* When the watcher has nothing to do, every connected tab has on its way
\* whatever it does not show yet, over any mix of event deltas, diffs against
\* an old baseline, suppressed deltas of the server itself, pruned cursors,
\* failed ticks and collapsed queues; the changes no tick can see, listed by
\* unsent, are the exception.
Converges == (thread = Idle /\ due = "no") =>
    \A s \in open, i \in Item \ unsent : Final(s)[i] = Board[i]

\* A tab never shows an older state of a row after a newer one, whichever of the
\* three publishers and of the two kinds of frame brought them and over any
\* number of reconnects: a pending snapshot is never overtaken by a delta.
NeverBack == [][\A s \in Stream, i \in Item :
                    view'[s][i] # Nothing => view'[s][i] >= view[s][i]]_vars

\* A tab that stays connected and catches up with its queue again and again
\* shows the board again and again, unless a tick failed and nothing was
\* committed since.
Delivered == \A s \in Stream :
    (<>[](s \in open) /\ []<>(queue[s] = <<>>)) =>
        []<>(due = "failed" \/ \A i \in Item \ unsent : view[s][i] = Board[i])

=============================================================================
