------------------------------- MODULE Daemon -------------------------------
(***************************************************************************)
(* Commands that are sent to a `trekoon serve` daemon over a Unix socket   *)
(* (runtime/daemon.ts) and run by the client itself when no daemon is      *)
(* reachable (index.ts), and the cache of open databases in the daemon     *)
(* (storage/database.ts).  Two daemons may run for one socket path: the    *)
(* second unlinks the socket of the first, and each unlinks the path when  *)
(* it stops, whoever listens on it.                                        *)
(***************************************************************************)
EXTENDS Integers, FiniteSets, SequencesExt

CONSTANTS
    Client,         \* commands, one of each client
    Store,          \* database files
    Served,         \* those of directories that the daemon serves
    Process,        \* daemon processes, each of which starts once
    Capacity,       \* CACHED_DATABASES_CAPACITY, 16 in the code
    MaxConnections  \* DEFAULT_MAX_CONNECTIONS, 32 in the code

ASSUME DaemonAssumption ==
    /\ IsFiniteSet(Client) /\ Served \subseteq Store
    /\ Capacity \in Nat \ {0} /\ MaxConnections \in Nat \ {0}

None == "none"
ASSUME NoneAssumption == None \notin Process

VARIABLES
    opens,          \* the database that a command opens
    path,           \* the daemon whose socket file is at the path
    up,             \* what each daemon does
    live,           \* liveSockets of a daemon
    cache,          \* cachedDatabases of a daemon, least recently used first
    phase,          \* where a client is
    conn,           \* the daemon that a client is connected to
    request,        \* where its request is, in that daemon
    reply,          \* an answer on its way to the client
    runs,           \* history: how often a command ran
    told            \* history: commands whose success was reported

daemons == <<opens, path, up, cache>>
vars == <<daemons, live, phase, conn, request, reply, runs, told>>

Done == {"ok", "refused", "unknown"}
Handling == {"dispatched", "open", "ran", "failed"}     \* processingSockets

(***************************************************************************)
(* The cache: entries with the number of requests that borrow them.        *)
(***************************************************************************)
Idle(entry) == entry.refs = 0
Positions(q, s) == {n \in DOMAIN q : q[n].store = s}

\* Mutant: the least recently used entry is closed, borrowed or not.
EvictedAny(q) == IF Len(q) >= Capacity THEN SubSeq(q, 2, Len(q)) ELSE q

\* As long as there are more than `size`, the first that nobody borrows is closed.
IdleIn(q) == {n \in DOMAIN q : Idle(q[n])}
Shrunk(q, size) ==
    LET after[k \in 0 .. Len(q)] ==
            IF k = 0 THEN q
            ELSE IF Len(after[k - 1]) > size /\ IdleIn(after[k - 1]) # {}
            THEN RemoveAt(after[k - 1], Min(IdleIn(after[k - 1])))
            ELSE after[k - 1]
    IN after[Len(q)]

\* evictLruIfNeeded
Evicted(q) == Shrunk(q, Capacity - 1)

\* openTrekoonDatabase: a hit is touched, a miss makes room first.
Borrowed(q, s) ==
    IF Positions(q, s) = {} THEN Append(Evicted(q), [store |-> s, refs |-> 1])
    ELSE LET n == CHOOSE n \in Positions(q, s) : TRUE
         IN  Append(RemoveAt(q, n), [q[n] EXCEPT !.refs = @ + 1])

\* releaseCachedDatabase, which finds the entry by its key
Released(q, s) ==
    LET r == [n \in DOMAIN q |-> IF q[n].store = s /\ q[n].refs > 0
                                 THEN [q[n] EXCEPT !.refs = @ - 1] ELSE q[n]]
    IN  IF Len(r) > Capacity THEN Evicted(r) ELSE r

(***************************************************************************)
(* The client: run and tryDaemonDispatch, sendDaemonRequest.               *)
(***************************************************************************)
Goes(c, p) == phase' = [phase EXCEPT ![c] = p]
HangsUp(c) == live' = [d \in Process |-> live[d] \ {c}]

\* isDaemonSocketPresent
Look(c) == /\ phase[c] = "new"
           /\ Goes(c, IF path = None THEN "local" ELSE "found")
           /\ UNCHANGED <<daemons, live, conn, request, reply, runs, told>>

\* The connect event writes the request at once and sets writeAttempted.
Connect(c) == /\ phase[c] = "found"
              /\ path # None /\ up[path] = "up"
              /\ Goes(c, "sent")
              /\ conn' = [conn EXCEPT ![c] = path]
              /\ request' = [request EXCEPT ![c] = "wire"]
              /\ UNCHANGED <<daemons, live, reply, runs, told>>

\* PreWriteTransportError: no file, nobody listens, no time left.
ConnectFails(c) == /\ phase[c] = "found"
                   /\ Goes(c, "local")
                   /\ UNCHANGED <<daemons, live, conn, request, reply, runs, told>>

\* One-shot: the command succeeds, or fails and changes nothing.
RunLocal(c) == /\ phase[c] = "local"
               /\ \/ runs' = [runs EXCEPT ![c] = @ + 1] /\ Goes(c, "ran")
                  \/ runs' = runs /\ Goes(c, "refused")
               /\ UNCHANGED <<daemons, live, conn, request, reply, told>>

Report(c) == /\ phase[c] = "ran"
            /\ told' = told \cup {c}
            /\ Goes(c, "ok")
            /\ UNCHANGED <<daemons, live, conn, request, reply, runs>>

TakeReply(c) == /\ phase[c] = "sent" /\ reply[c] # None
                /\ Goes(c, reply[c])
                /\ told' = IF reply[c] = "ok" THEN told \cup {c} ELSE told
                /\ HangsUp(c)
                /\ UNCHANGED <<daemons, conn, request, reply, runs>>

\* PostWriteError: the connection is gone without an answer, or the 30 s are.
\* Mutant: what was written is run again by the client.
GiveUpAndRun(c) == /\ phase[c] = "sent"
                   /\ Goes(c, "local")
                   /\ HangsUp(c)
                   /\ UNCHANGED <<daemons, conn, request, reply, runs, told>>
GiveUp(c) == /\ phase[c] = "sent"
             /\ Goes(c, "unknown")
             /\ HangsUp(c)
             /\ UNCHANGED <<daemons, conn, request, reply, runs, told>>

(***************************************************************************)
(* The daemon: startDaemonServer, handlePayload, executeDaemonRequest.     *)
(***************************************************************************)
At(c, step) == conn[c] # None /\ request[c] = step
Moves(c, step) == request' = [request EXCEPT ![c] = step]
Answers(c, result) == reply' = [reply EXCEPT ![c] = result]

\* Mutant: one connection more than the cap.
FullLate(d) == Cardinality(live[d]) > MaxConnections
Full(d) == Cardinality(live[d]) >= MaxConnections

\* A connection over the cap gets daemon_busy and is never one of liveSockets.
Accept(c) ==
    /\ At(c, "wire") /\ up[conn[c]] = "up"
    /\ \/ /\ Full(conn[c])
          /\ Moves(c, "over")
          /\ Answers(c, "refused")
          /\ live' = live
       \/ /\ ~Full(conn[c])
          /\ Moves(c, "accepted")
          /\ reply' = reply
          /\ live' = [live EXCEPT ![conn[c]] = IF phase[c] = "sent" THEN @ \cup {c} ELSE @]
    /\ UNCHANGED <<daemons, phase, conn, runs, told>>

Receive(c) ==
    /\ At(c, "accepted") /\ up[conn[c]] = "up"
    /\ \/ opens[c] \in Served /\ Moves(c, "dispatched") /\ reply' = reply
       \/ opens[c] \notin Served /\ Moves(c, "over") /\ Answers(c, "refused")
    /\ UNCHANGED <<daemons, live, phase, conn, runs, told>>

\* The request did not arrive, or was not read, for five seconds.
IdleTimeout(c) == /\ At(c, "accepted") /\ up[conn[c]] = "up"
                  /\ Moves(c, "over")
                  /\ Answers(c, "refused")
                  /\ HangsUp(c)
                  /\ UNCHANGED <<daemons, phase, conn, runs, told>>

Open(c) == /\ At(c, "dispatched")
           /\ cache' = [cache EXCEPT ![conn[c]] = Borrowed(@, opens[c])]
           /\ Moves(c, "open")
           /\ UNCHANGED <<opens, path, up, live, phase, conn, reply, runs, told>>

Run(c) == /\ At(c, "open")
          /\ \/ Moves(c, "ran") /\ runs' = [runs EXCEPT ![c] = @ + 1]
             \/ Moves(c, "failed") /\ runs' = runs
          /\ UNCHANGED <<daemons, live, phase, conn, reply, told>>

\* The handler closes its database in a finally block, then the answer goes.
Respond(c) == /\ At(c, "ran") \/ At(c, "failed")
              /\ cache' = [cache EXCEPT ![conn[c]] = Released(@, opens[c])]
              /\ Answers(c, IF request[c] = "ran" THEN "ok" ELSE "refused")
              /\ Moves(c, "over")
              /\ UNCHANGED <<opens, path, up, live, phase, conn, runs, told>>

Of(d) == {c \in Client : conn[c] = d}
\* Connections end: what was not answered never will be.
Cut(cs) == request' = [c \in Client |-> IF c \in cs THEN "over" ELSE request[c]]

Start(d) == /\ up[d] = "off"
            /\ up' = [up EXCEPT ![d] = "up"]
            /\ path' = d
            /\ UNCHANGED <<opens, live, cache, phase, conn, request, reply, runs, told>>

\* handle.close: idle connections are destroyed, those being handled go on.
Shutdown(d) == /\ up[d] = "up"
               /\ up' = [up EXCEPT ![d] = "closing"]
               /\ LET cut == {c \in Of(d) : request[c] \notin Handling}
                  IN  Cut(cut) /\ live' = [live EXCEPT ![d] = @ \ cut]
               /\ UNCHANGED <<opens, path, cache, phase, conn, reply, runs, told>>

\* Mutant: processingSockets is never emptied.
HandledEver(d) == {c \in Of(d) : request[c] \in Handling \cup {"over"}}
Handled(d) == {c \in Of(d) : request[c] \in Handling}

\* An answer that was written but not flushed may be lost with its connection.
Stop(d) == /\ up[d] = "closing"
           /\ Handled(d) = {}
           /\ \E lost \in SUBSET {c \in Of(d) : phase[c] = "sent" /\ reply[c] # None} :
                  reply' = [c \in Client |-> IF c \in lost THEN None ELSE reply[c]]
           /\ up' = [up EXCEPT ![d] = "down"]
           /\ path' = None
           /\ live' = [live EXCEPT ![d] = {}]
           /\ cache' = [cache EXCEPT ![d] = Shrunk(@, 0)]
           /\ UNCHANGED <<opens, phase, conn, request, runs, told>>

\* The socket file stays.
Crash(d) == /\ up[d] \in {"up", "closing"}
            /\ up' = [up EXCEPT ![d] = "down"]
            /\ live' = [live EXCEPT ![d] = {}]
            /\ cache' = [cache EXCEPT ![d] = <<>>]
            /\ Cut(Of(d))
            /\ UNCHANGED <<opens, path, phase, conn, reply, runs, told>>

Init == /\ opens \in [Client -> Store]
        /\ path = None
        /\ up = [d \in Process |-> "off"]
        /\ live = [d \in Process |-> {}]
        /\ cache = [d \in Process |-> <<>>]
        /\ phase = [c \in Client |-> "new"]
        /\ conn = [c \in Client |-> None]
        /\ request = [c \in Client |-> None]
        /\ reply = [c \in Client |-> None]
        /\ runs = [c \in Client |-> 0]
        /\ told = {}

Calls(c) == Look(c) \/ Connect(c) \/ ConnectFails(c) \/ RunLocal(c) \/ Report(c) \/ TakeReply(c) \/ GiveUp(c)
Serves(c) == Accept(c) \/ Receive(c) \/ IdleTimeout(c) \/ Open(c) \/ Run(c) \/ Respond(c)
Lives(d) == Start(d) \/ Shutdown(d) \/ Stop(d) \/ Crash(d)

Next == (\E c \in Client : Calls(c) \/ Serves(c)) \/ (\E d \in Process : Lives(d))

Spec == Init /\ [][Next]_vars

\* A client goes on until its time limit at the latest, and a daemon finishes
\* what it handles; nobody has to connect, to start or to stop.
LiveSpec == /\ Spec
            /\ \A c \in Client : WF_vars(Look(c) \/ ConnectFails(c) \/ RunLocal(c) \/ Report(c) \/ GiveUp(c))
            /\ \A c \in Client : WF_vars(Open(c) \/ Run(c) \/ Respond(c))
            /\ \A d \in Process : WF_vars(Stop(d))

(***************************************************************************)
(* Properties.                                                             *)
(***************************************************************************)
Entries == [store : Store, refs : 0..Cardinality(Client)]

\* Every variable has its type, and no daemon has more connections than its cap.
TypeOK == /\ opens \in [Client -> Store]
          /\ path \in Process \cup {None}
          /\ up \in [Process -> {"off", "up", "closing", "down"}]
          /\ live \in [Process -> SUBSET Client]
          /\ \A d \in Process : Cardinality(live[d]) <= MaxConnections
          /\ \A d \in Process : cache[d] \in Seq(Entries)
          /\ phase \in [Client -> {"new", "found", "local", "ran", "sent"} \cup Done]
          /\ conn \in [Client -> Process \cup {None}]
          /\ request \in [Client -> {None, "wire", "accepted", "over"} \cup Handling]
          /\ reply \in [Client -> {None, "ok", "refused"}]
          /\ runs \in [Client -> Nat] /\ told \subseteq Client

\* A command whose request was written is never run again by the client, over
\* stale sockets, stolen sockets, crashes, time limits and lost answers: it
\* runs at most once and success is reported only of one that ran.
Promise == INSTANCE Ledger WITH Keyed <- Client
CommandOnce == Promise!Spec

\* The handle that a request works with is open and counted, one borrow for
\* each request, and the cache outgrows its capacity only by borrowed handles.
Borrowers(d, s) == {c \in Of(d) : opens[c] = s /\ request[c] \in Handling \ {"dispatched"}}
CacheSound == \A d \in Process :
    /\ \A s \in Store :
           /\ Cardinality(Positions(cache[d], s)) <= 1
           /\ Borrowers(d, s) # {} => Positions(cache[d], s) # {}
           /\ \A n \in Positions(cache[d], s) : cache[d][n].refs = Cardinality(Borrowers(d, s))
    /\ Len(cache[d]) > Capacity => \A n \in DOMAIN cache[d] : ~Idle(cache[d][n])

\* A client never hangs on a daemon, and a daemon that was told to stop stops,
\* whatever its clients do.
Settles == /\ \A c \in Client : phase[c] # "new" ~> phase[c] \in Done
           /\ \A d \in Process : up[d] = "closing" ~> up[d] = "down"
=============================================================================
