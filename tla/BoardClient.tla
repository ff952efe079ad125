----------------------------- MODULE BoardClient -----------------------------
(***************************************************************************)
(* One browser tab that edits the board: the serial mutation queue with    *)
(* optimistic updates, rollback, time limit and Retry (board/assets/state/ *)
(* api.js, store.js, utils.js), the routes that answer it, with If-Match   *)
(* for edits and idempotency keys for creations and deletions (routes.ts,  *)
(* mutation-service.ts), and the stream of deltas that reaches the tab     *)
(* beside the answers.  The stream itself is the module BoardStream: here  *)
(* it is a queue of frames, each read from the rows when it was published. *)
(***************************************************************************)
EXTENDS Integers, SequencesExt

CONSTANTS
    Row,            \* epics, tasks and subtasks that are edited
    Parent,         \* the epics, and the tasks that have subtasks
    Child,          \* subtasks and dependencies that are created and deleted
    Dependency,     \* those of them that are dependencies
    Mutation,       \* what the user does in the tab
    Kind,           \* "patch", "cascade", "create" or "delete", of each mutation
    Target,         \* the row or child of each mutation, the epic of a cascade
    Selection,      \* the rows and children that each mutation is about: those in
                    \* its delta, or the epic of a cascade with all that is below it
    ErrorLimit,     \* stream errors in a row that end the live updates, 5 in the code
    MaxStamp,       \* bound: versions of a row
    MaxAttempts     \* bound: requests sent

Item == Row \cup Child
Keyed == {m \in Mutation : Kind[m] \in {"create", "delete"}}

\* Every creation is of a child of its own: the server gives it a new id.  What
\* is below the epic of a cascade stays; children have no version to compare.
ASSUME MutationAssumption ==
    /\ Row \cap Child = {} /\ Parent \subseteq Row /\ Dependency \subseteq Child
    /\ Kind \in [Mutation -> {"patch", "cascade", "create", "delete"}]
    /\ Target \in [Mutation -> Item]
    /\ Selection \in [Mutation -> SUBSET Item]
    /\ \A m \in Mutation : Target[m] \in Selection[m] /\ (m \notin Keyed <=> Target[m] \in Row)
    /\ \A m \in Mutation : Kind[m] = "cascade" => Selection[m] \subseteq Row
    /\ \A m, n \in Mutation : Kind[m] = "create" /\ Kind[n] = "create" /\ Target[m] = Target[n] => m = n
ASSUME NoticeAssumption ==
    Mutation \cap {"none", "saved", "stale_version", "disconnected", "disabled"} = {}
ASSUME ClientBoundsAssumption ==
    ErrorLimit \in Nat \ {0} /\ MaxStamp \in Nat \ {0, 1} /\ MaxAttempts \in Nat

VARIABLES
    stamp,          \* version of a row; of a child 0 unborn, 1 there, 2 deleted
    record,         \* completed rows of board_idempotency_keys
    runs,           \* history: how often a mutation with a key ran
    requests,       \* requests on their way
    answer,         \* the answer on its way, if any
    frames,         \* deltas and snapshots on their way
    dirty,          \* committed by others, not yet found by the watcher
    errors,         \* stream errors in a row; the stream is off at ErrorLimit
    entered,        \* what the user has done so far
    queue,          \* mutations waiting in the tab
    current,        \* the mutation being sent, if any
    attempts,       \* requests sent so far
    view,           \* the stamps that the tab shows
    optimistic,     \* items shown as the user made them, not as the server said
    ghosts,         \* creations shown under an optimistic id
    notice, failed, \* model.store.notice, lastFailedMutation
    told,           \* history: mutations with a key whose success was shown
    stale,          \* history: items taken back by an answer or by a rollback
    skipped         \* history: rows that the rollback of a cascade passed over

server == <<stamp, record, runs>>
stream == <<frames, dirty, errors>>
screen == <<view, optimistic, ghosts, stale, skipped>>
vars == <<server, requests, answer, stream, entered, queue, current, attempts, screen, notice, failed, told>>

None == [result |-> "none"]
Waiting == [step |-> "idle"]
Shown(i, v) == IF i \in Child /\ v # 1 THEN 0 ELSE v
DeltaOf(items) == Restrict(stamp, items)

\* Mutant: one error too many before the live updates end.
OneErrorMore == errors <= ErrorLimit
Connected == errors < ErrorLimit

(***************************************************************************)
(* The store of the tab.  A delta or snapshot replaces records by id and   *)
(* compares no versions (mergeRecordsById); optimistic records that are    *)
(* not in it stay, but for the one whose creation the delta answers.       *)
(***************************************************************************)
Merged(delta) == [i \in Item |-> IF i \in DOMAIN delta THEN delta[i] ELSE view[i]]
ApplyDelta(delta) == /\ view' = Merged(delta)
                     /\ optimistic' = optimistic \ DOMAIN delta
                     /\ skipped' = skipped

\* What the tab shows less of than before; a newer value ends that.
Regressed(delta) == (stale \ {i \in DOMAIN delta : delta[i] > view[i]})
                        \cup {i \in DOMAIN delta : delta[i] < view[i]}

\* The records that the optimistic update of a mutation changes
\* (..InSnapshot): a cascade gives its status to the epic and all below it.
Painted(m) == CASE Kind[m] = "create" -> {}
                [] Kind[m] = "cascade" -> Selection[m]
                [] Kind[m] \in {"patch", "delete"} -> {Target[m]}
Preview(m) == /\ optimistic' = optimistic \cup Painted(m)
              /\ ghosts' = ghosts \cup (IF Kind[m] = "create" THEN {m} ELSE {})

\* Mutant: only the record that the mutation names is compared.
UnequalOfTarget(m) == IF Kind[m] = "create" THEN {} ELSE {Target[m]}
\* It normalizes the snapshot, which gives every epic new counts and every task
\* with subtasks new copies of them, so that the record is never equal to the
\* old one.
Unequal(m) == Parent \cup (Selection[m] \ (IF Kind[m] = "create" THEN {Target[m]} ELSE {}))

\* computeInverseDelta
InverseDelta(m) == Restrict(view, Unequal(m))

\* stripUpToDateEntitiesFromInverse: every record is compared with the version
\* that was sent, that of the target.  A create or delete sends none.
NoVersion == -1
\* Mutant: what the stream brought is rolled back too.
NotStripped(inverse, ifMatch) == inverse
Stripped(inverse, ifMatch) ==
    IF ifMatch = NoVersion THEN inverse
    ELSE Restrict(inverse, {i \in DOMAIN inverse : view[i] <= ifMatch})

(***************************************************************************)
(* The user and the queue.                                                 *)
(***************************************************************************)
Offered(m) == Kind[m] = "delete" => view[Target[m]] = 1

\* enqueueMutation; every action of the user is a mutation, and a key, of its own
Enqueue(m) == /\ m \notin entered /\ Offered(m)
              /\ attempts + Len(queue) < MaxAttempts
              /\ entered' = entered \cup {m}
              /\ queue' = Append(queue, m)
              /\ UNCHANGED <<server, requests, answer, stream, current, attempts, screen, notice, failed, told>>

\* retryLastFailedMutation, from the button of the notice: the same request,
\* under the same key.
Retry == /\ notice \in Mutation
         /\ attempts + Len(queue) < MaxAttempts
         /\ queue' = Append(queue, failed)
         /\ UNCHANGED <<server, requests, answer, stream, entered, current, attempts, screen, notice, failed, told>>

\* One turn of processNext: the version is read now, not when it was enqueued.
Fire == /\ current = Waiting /\ queue # <<>>
        /\ LET m == Head(queue)
               ifMatch == IF m \in Keyed THEN NoVersion ELSE view[Target[m]]
           IN  /\ current' = [step |-> "sent", mutation |-> m, try |-> attempts + 1,
                              ifMatch |-> ifMatch, inverse |-> InverseDelta(m),
                              was |-> optimistic]
               /\ requests' = requests \cup
                      {[mutation |-> m, try |-> attempts + 1, ifMatch |-> ifMatch]}
               /\ Preview(m)
        /\ queue' = Tail(queue)
        /\ attempts' = attempts + 1
        /\ notice' = "none"
        /\ UNCHANGED <<server, answer, stream, entered, view, stale, skipped, failed, told>>

(***************************************************************************)
(* The server.  A request that the tab gave up may still be served.        *)
(***************************************************************************)
Answer(r, result, delta) ==
    answer' = IF current # Waiting /\ current.try = r.try
              THEN [result |-> result, delta |-> delta] ELSE answer

\* Mutant: a mutation is answered and not published.
PublishedToNone(items) == frames' = frames
Published(items) == frames' = IF Connected THEN Append(frames, Restrict(stamp', items)) ELSE frames

\* A mutation has committed: its delta goes to the tab and to every stream.
Respond(r, items) == /\ Published(items)
                     /\ Answer(r, "ok", Restrict(stamp', items))
Refuse(r, result) == /\ Answer(r, result, <<>>)
                     /\ frames' = frames

\* update..WithIfMatch: the version of the target is compared inside the
\* transaction that writes the rows.
Write(r, rows) == /\ stamp[Target[r.mutation]] = r.ifMatch
                  /\ \A i \in rows : stamp[i] < MaxStamp
                  /\ stamp' = [i \in Item |-> IF i \in rows THEN stamp[i] + 1 ELSE stamp[i]]
                  /\ UNCHANGED <<record, runs>>

ServePatch(r) == /\ Kind[r.mutation] = "patch"
                 /\ Write(r, {Target[r.mutation]})
                 /\ Respond(r, Selection[r.mutation])

\* The plan changes the rows whose status is another one, the epic too.
ServeCascade(r) == /\ Kind[r.mutation] = "cascade"
                   /\ \E changed \in SUBSET Selection[r.mutation] :
                         /\ Write(r, changed)
                         /\ Respond(r, changed \cup {Target[r.mutation]})

ServeStale(r) == /\ r.mutation \notin Keyed
                 /\ stamp[Target[r.mutation]] # r.ifMatch
                 /\ Refuse(r, "precondition_failed")
                 /\ UNCHANGED server

\* #completeAtomicIdempotentMutation: one transaction claims the key, runs the
\* mutation and completes the record.  Mutant: it does not complete the record.
ClaimLost(m) == m \notin record /\ record' = record
Claim(m) == m \notin record /\ record' = record \cup {m}

Create(m) == /\ Kind[m] = "create"
             /\ stamp' = [stamp EXCEPT ![Target[m]] = @ + 1]
Delete(m) == /\ Kind[m] = "delete" /\ stamp[Target[m]] = 1
             /\ stamp' = [stamp EXCEPT ![Target[m]] = @ + 1]

ServeKeyed(r) == /\ Claim(r.mutation)
                 /\ Create(r.mutation) \/ Delete(r.mutation)
                 /\ runs' = [runs EXCEPT ![r.mutation] = @ + 1]
                 /\ Respond(r, Selection[r.mutation])

\* The stored answer of the first run, with a delta read afresh, which is
\* published again.  A creation whose child is gone leaves it out; of a subtask
\* the route reads the task, and of that the epic, from the child itself.
Replayed(m) == IF Kind[m] = "create" /\ stamp[Target[m]] # 1
               THEN IF Target[m] \in Dependency THEN Selection[m] \ {Target[m]} ELSE {}
               ELSE Selection[m]
Replay(r) == /\ r.mutation \in record
             /\ UNCHANGED server
             /\ Respond(r, Replayed(r.mutation))

\* The transaction is rolled back, with the claim: a row that is gone, a
\* dependency that closes a cycle, a cascade that dependencies block, a busy
\* database.
ServeError(r) == /\ Refuse(r, "error")
                 /\ UNCHANGED server

Serve(r) == /\ r \in requests
            /\ \/ ServePatch(r) \/ ServeCascade(r) \/ ServeStale(r)
               \/ ServeKeyed(r) \/ Replay(r) \/ ServeError(r)
            /\ requests' = requests \ {r}
            /\ UNCHANGED <<dirty, errors, entered, queue, current, attempts, screen, notice, failed, told>>

Lose(r) == /\ r \in requests
           /\ requests' = requests \ {r}
           /\ UNCHANGED <<server, answer, stream, entered, queue, current, attempts, screen, notice, failed, told>>

LoseAnswer == /\ answer # None /\ current.step = "sent"
              /\ answer' = None
              /\ UNCHANGED <<server, requests, stream, entered, queue, current, attempts, screen, notice, failed, told>>

\* Another tab or a command; the watcher reads the rows later.
OthersWrite(i) == /\ IF i \in Row THEN stamp[i] < MaxStamp ELSE stamp[i] = 1
                  /\ stamp' = [stamp EXCEPT ![i] = @ + 1]
                  /\ dirty' = dirty \cup {i}
                  /\ UNCHANGED <<record, runs, requests, answer, frames, errors, entered, queue, current, attempts, screen, notice, failed, told>>

Watch == /\ dirty # {}
         /\ dirty' = {}
         /\ frames' = IF Connected THEN Append(frames, DeltaOf(dirty)) ELSE frames
         /\ UNCHANGED <<server, requests, answer, errors, entered, queue, current, attempts, screen, notice, failed, told>>

(***************************************************************************)
(* Answers and frames reach the tab.                                       *)
(***************************************************************************)
\* The headers stop the timer; the body is still to be read.
Headers == /\ answer # None /\ current.step = "sent"
           /\ current' = [current EXCEPT !.step = "reading"]
           /\ UNCHANGED <<server, requests, answer, stream, entered, queue, attempts, screen, notice, failed, told>>

\* The rows of a cascade that are not in its delta had the status before.
Succeed == /\ answer.result = "ok"
           /\ view' = Merged(answer.delta)
           /\ optimistic' = optimistic \ (DOMAIN answer.delta \cup Painted(current.mutation))
           /\ skipped' = skipped
           /\ ghosts' = ghosts \ {current.mutation}
           /\ stale' = Regressed(answer.delta)
           /\ notice' = "saved"
           /\ failed' = failed
           /\ told' = told \cup ({current.mutation} \cap Keyed)

\* The rows below the epic that are above its version when a cascade fails.
PassedOver == IF Kind[current.mutation] = "cascade"
              THEN {i \in Selection[current.mutation] \ {Target[current.mutation]} :
                       view[i] > current.ifMatch}
              ELSE {}

\* The catch of processNext.  A record that comes back is as it was shown
\* before, by the server or by an earlier mutation.
Fail(staleVersion) ==
    LET inverse == Stripped(current.inverse, current.ifMatch)
    IN  /\ view' = Merged(inverse)
        /\ optimistic' = (optimistic \ DOMAIN inverse) \cup (current.was \cap DOMAIN inverse)
        /\ skipped' = skipped \cup PassedOver
        /\ ghosts' = ghosts \ {current.mutation}
        /\ stale' = Regressed(inverse)
        /\ notice' = IF staleVersion THEN "stale_version" ELSE current.mutation
        /\ failed' = IF staleVersion THEN failed ELSE current.mutation
        /\ told' = told

Settled == /\ current' = Waiting
           /\ answer' = None
           /\ UNCHANGED <<server, requests, stream, entered, queue, attempts>>

Body == /\ current.step = "reading"
        /\ Succeed \/ (answer.result # "ok" /\ Fail(answer.result = "precondition_failed"))
        /\ Settled

\* A body that is cut or is no JSON.
BodyBreaks == /\ current.step = "reading"
              /\ Fail(FALSE)
              /\ Settled

\* Mutant: the timer runs only once there is an answer to read.
TimeoutOfBody == /\ current.step = "reading"
                 /\ Fail(FALSE)
                 /\ Settled
Timeout == /\ current.step = "sent"
           /\ Fail(FALSE)
           /\ Settled

\* handleSnapshotDelta and handleSnapshot of subscribeSnapshotStream; a
\* snapshot has every item and leaves nothing optimistic.
TakeFrame == /\ Connected /\ frames # <<>>
             /\ frames' = Tail(frames)
             /\ errors' = 0
             /\ ApplyDelta(Head(frames))
             /\ ghosts' = IF DOMAIN Head(frames) = Item THEN {} ELSE ghosts
             /\ stale' = stale \ DOMAIN Head(frames)
             /\ notice' = IF notice = "disconnected" THEN "none" ELSE notice
             /\ UNCHANGED <<server, requests, answer, dirty, entered, queue, current, attempts, failed, told>>

\* The stream breaks.  The browser connects again, to a snapshot, until
\* ErrorLimit errors came with no frame between them (handleError).  Its notice
\* takes the place of any other, that of a failed mutation with its Retry too.
StreamError == /\ Connected
               /\ errors' = errors + 1
               /\ frames' = IF errors + 1 < ErrorLimit THEN <<stamp>> ELSE <<>>
               /\ notice' = IF errors + 1 < ErrorLimit THEN "disconnected" ELSE "disabled"
               /\ UNCHANGED <<server, requests, answer, dirty, entered, queue, current, attempts, screen, failed, told>>

Init == /\ stamp = [i \in Item |-> IF i \in Row THEN 1 ELSE 0]
        /\ record = {} /\ runs = [m \in Keyed |-> 0]
        /\ requests = {} /\ answer = None
        /\ frames = <<stamp>> /\ dirty = {} /\ errors = 0
        /\ entered = {} /\ queue = <<>> /\ current = Waiting /\ attempts = 0
        /\ view = stamp /\ optimistic = {} /\ ghosts = {}
        /\ notice = "none" /\ failed = "none"
        /\ told = {} /\ stale = {} /\ skipped = {}

Network == (\E r \in requests : Serve(r) \/ Lose(r)) \/ LoseAnswer
Tab == Fire \/ Headers \/ Body \/ BodyBreaks \/ Timeout \/ TakeFrame

Next == \/ \E m \in Mutation : Enqueue(m)
        \/ Retry \/ Network \/ Tab \/ StreamError \/ Watch
        \/ \E i \in Item : OthersWrite(i)

Spec == Init /\ [][Next]_vars

\* The event loop of the tab and its timer run, and a body whose headers came
\* arrives or breaks: the timer is stopped by the headers, so nothing in the
\* code ends a body that stalls.
LiveSpec == Spec /\ WF_vars(Fire) /\ WF_vars(Timeout) /\ WF_vars(Body \/ BodyBreaks)

(***************************************************************************)
(* Properties.                                                             *)
(***************************************************************************)
Frames == UNION {[S -> 0..MaxStamp] : S \in SUBSET Item}

\* Every variable has its type; at most one answer is on its way.
TypeOK == /\ stamp \in [Item -> 0..MaxStamp] /\ view \in [Item -> 0..MaxStamp]
          /\ record \subseteq Keyed /\ told \subseteq Keyed /\ runs \in [Keyed -> Nat]
          /\ requests \subseteq [mutation : Mutation, try : 1..MaxAttempts, ifMatch : NoVersion..MaxStamp]
          /\ answer \in {None} \cup [result : {"ok", "error", "precondition_failed"}, delta : Frames]
          /\ frames \in Seq(Frames)
          /\ dirty \subseteq Item /\ errors \in 0..ErrorLimit
          /\ entered \subseteq Mutation /\ queue \in Seq(Mutation) /\ attempts \in 0..MaxAttempts
          /\ current \in {Waiting} \cup
                [step : {"sent", "reading"}, mutation : Mutation, try : 1..MaxAttempts,
                 ifMatch : NoVersion..MaxStamp, inverse : Frames, was : SUBSET Item]
          /\ optimistic \subseteq Item /\ ghosts \subseteq Mutation
          /\ stale \subseteq Item /\ skipped \subseteq Item
          /\ notice \in {"none", "saved", "stale_version", "disconnected", "disabled"} \cup Mutation
          /\ failed \in {"none"} \cup Mutation

\* The tab, its time limit and its Retry, lost requests and answers and late
\* requests implement the promise of the keys: a creation or deletion runs at
\* most once and is reported only after it ran.
Promise == INSTANCE Ledger
KeyedOnce == Promise!Spec

\* Once all is quiet the tab shows the rows, although the deltas of a mutation
\* reach it twice, by two ways and in any order, over reconnects, rollbacks and
\* lost answers; the exception are items that an answer or a rollback took
\* back and no frame has renewed, and rows that are still optimistic.  Between
\* two mutations these are only rows below the epic of a failed cascade that
\* had a higher version than the epic, which its rollback passes over.
QuietAgrees ==
    /\ current = Waiting => ghosts = {} /\ optimistic \subseteq skipped
    /\ (/\ current = Waiting /\ queue = <<>> /\ requests = {}
        /\ Connected /\ frames = <<>> /\ dirty = {}) =>
           \A i \in Item \ (stale \cup optimistic) : Shown(i, view[i]) = Shown(i, stamp[i])

Failing == /\ current # Waiting /\ current' = Waiting
           /\ notice' # "saved"

\* The rollback of a failed edit or cascade does not take its own row, the one
\* whose version was sent, back behind a newer state that the stream brought
\* while the request was on its way.
OwnRowKept == [][(Failing /\ current.mutation \notin Keyed) =>
                    view'[Target[current.mutation]] >= view[Target[current.mutation]]]_vars

\* No request, lost or hanging, blocks the serial queue: again and again the tab has
\* settled every mutation that was entered or tried again.
Settles == []<>(queue = <<>> /\ current = Waiting)

=============================================================================
