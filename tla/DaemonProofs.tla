---------------------------- MODULE DaemonProofs ----------------------------
(***************************************************************************)
(* The clients and daemons of module Daemon, for any number of clients,    *)
(* daemons and databases: step by step they keep the promise of Ledger,    *)
(* and no handle of the cache is closed under a request that works with    *)
(* it.  What an eviction leaves is shown round by round (ShrunkFits).      *)
(***************************************************************************)
EXTENDS Daemon, FiniteSetTheorems, SequenceTheorems, WellFoundedInduction, TLAPS

Phases == {"new", "found", "local", "ran", "sent"} \cup Done

Typed ==
    /\ phase \in [Client -> Phases]
    /\ conn \in [Client -> Process \cup {None}]
    /\ request \in [Client -> {None, "wire", "accepted", "over"} \cup Handling]
    /\ reply \in [Client -> {None, "ok", "refused"}]
    /\ runs \in [Client -> Nat] /\ told \subseteq Client
    /\ path \in Process \cup {None}

\* What a client has not sent to a daemon it may still run itself.
Unsent(c) ==
    /\ phase[c] \in {"new", "found", "local", "ran"} => conn[c] = None
    /\ phase[c] \in {"new", "found", "local"} => runs[c] = 0
    /\ phase[c] = "ran" => runs[c] = 1

\* What has reached a daemon runs there, and only before it is answered.
Sent(c) ==
    /\ conn[c] # None /\ request[c] \in {"wire", "accepted", "dispatched", "open"} => runs[c] = 0
    /\ conn[c] # None /\ request[c] = "ran" => runs[c] = 1

\* Who is, or will be, told of success had its command run, once.
Truthful(c) ==
    /\ runs[c] <= 1
    /\ reply[c] = "ok" => runs[c] = 1
    /\ c \in told => runs[c] = 1

IInv == Typed /\ \A c \in Client : Unsent(c) /\ Sent(c) /\ Truthful(c)

LEMMA InitIInv == Init => IInv
BY DEF Init, IInv, Typed, Phases, Done, Handling, Unsent, Sent, Truthful, None

\* One step of one client, or of its request.
LEMMA ClientKeepsIInv ==
    ASSUME IInv, NEW c \in Client, Calls(c) \/ Serves(c)
    PROVE  IInv'
<1> USE DEF IInv, Typed, Phases, Done, Handling, Unsent, Sent, Truthful, daemons
<1>1. CASE Look(c)
  BY <1>1 DEF Look, Goes
<1>2. CASE Connect(c)
  BY <1>2 DEF Connect, Goes
<1>3. CASE ConnectFails(c)
  BY <1>3 DEF ConnectFails, Goes
<1>4. CASE RunLocal(c)
  BY <1>4 DEF RunLocal, Goes
<1>5. CASE Report(c)
  BY <1>5 DEF Report, Goes
<1>6. CASE TakeReply(c)
  BY <1>6 DEF TakeReply, Goes
<1>7. CASE GiveUp(c)
  BY <1>7 DEF GiveUp, Goes
<1>8. CASE Accept(c)
  BY <1>8 DEF Accept, At, Moves, Answers
<1>9. CASE Receive(c)
  BY <1>9 DEF Receive, At, Moves, Answers
<1>10. CASE IdleTimeout(c)
  BY <1>10 DEF IdleTimeout, At, Moves, Answers
<1>11. CASE Open(c)
  BY <1>11 DEF Open, At, Moves
<1>12. CASE Run(c)
  BY <1>12 DEF Run, At, Moves
<1>13. CASE Respond(c)
  BY <1>13 DEF Respond, At, Moves, Answers
<1> QED
  BY <1>1, <1>2, <1>3, <1>4, <1>5, <1>6, <1>7, <1>8, <1>9, <1>10, <1>11, <1>12, <1>13
     DEF Calls, Serves

\* A daemon that starts, stops or dies runs nothing: it ends requests and loses answers.
LEMMA DaemonKeepsIInv ==
    ASSUME IInv, NEW d \in Process, Lives(d)
    PROVE  IInv'
<1> USE DEF IInv, Typed, Phases, Done, Handling, Unsent, Sent, Truthful, daemons
<1>1. CASE Start(d)
  BY <1>1 DEF Start
<1>2. CASE Shutdown(d)
  BY <1>2 DEF Shutdown, Cut
<1>3. CASE Stop(d)
  <2>1. PICK lost \in SUBSET {c \in Of(d) : phase[c] = "sent" /\ reply[c] # None} :
            reply' = [c \in Client |-> IF c \in lost THEN None ELSE reply[c]]
    BY <1>3 DEF Stop
  <2> QED BY <1>3, <2>1 DEF Stop, None
<1>4. CASE Crash(d)
  BY <1>4 DEF Crash, Cut
<1> QED BY <1>1, <1>2, <1>3, <1>4 DEF Lives

LEMMA NextKeepsIInv == IInv /\ [Next]_vars => IInv'
<1> SUFFICES ASSUME IInv, [Next]_vars PROVE IInv'
  OBVIOUS
<1>1. CASE UNCHANGED vars
  BY <1>1 DEF vars, daemons, IInv, Typed, Unsent, Sent, Truthful
<1>2. CASE Next
  BY <1>2, ClientKeepsIInv, DaemonKeepsIInv DEF Next
<1> QED BY <1>1, <1>2

\* A step that runs a command is Ledger's Run, one that reports is its Tell.
LEMMA StepIsLedger == IInv /\ [Next]_vars => [Promise!Next]_<<runs, told>>
<1> SUFFICES ASSUME IInv, [Next]_vars, runs' # runs \/ told' # told
             PROVE  Promise!Next
  OBVIOUS
<1>1. PICK c \in Client : Calls(c) \/ Serves(c)
  BY DEF Next, Lives, Start, Shutdown, Stop, Crash, vars, daemons
<1>2. CASE RunLocal(c) \/ Run(c)
  <2>1. runs[c] = 0
    BY <1>2 DEF RunLocal, Run, At, IInv, Unsent, Sent
  <2>2. runs' = [runs EXCEPT ![c] = 1] /\ told' = told
    BY <1>2, <2>1 DEF RunLocal, Run, IInv, Typed
  <2> QED BY <2>1, <2>2 DEF Promise!Next, Promise!Run
<1>3. CASE Report(c) \/ TakeReply(c)
  <2>1. runs[c] = 1
    BY <1>3 DEF Report, TakeReply, IInv, Typed, Unsent, Truthful
  <2>2. told' = told \cup {c} /\ runs' = runs
    BY <1>3 DEF Report, TakeReply
  <2> QED BY <2>1, <2>2 DEF Promise!Next, Promise!Tell
<1> QED
  BY <1>1, <1>2, <1>3
     DEF Calls, Serves, Look, Connect, ConnectFails, GiveUp, Accept, Receive, IdleTimeout,
         Open, Respond, vars, daemons

\* A command runs at most once, by a daemon or by its client, and success is reported only
\* of one that ran (sendDaemonRequest, tryDaemonDispatch, executeDaemonRequest), for any
\* number of clients and of daemons that steal each other's path, stop or crash.
THEOREM DaemonKeepsPromise == Spec => CommandOnce
<1>1. Init => Promise!Init
  BY DEF Init, Promise!Init
<1>2. Spec => []IInv
  BY InitIInv, NextKeepsIInv, PTL DEF Spec
<1> QED
  BY <1>1, <1>2, StepIsLedger, PTL DEF Spec, CommandOnce, Promise!Spec

----------------------------------------------------------------------------
(* Counting up, and least numbers *)

\* Counting up from 0 reaches every number up to n.
LEMMA UpTo ==
    ASSUME NEW n \in Nat, NEW T, 0 \in T, \A k \in 1 .. n : k - 1 \in T => k \in T
    PROVE  \A k \in 0 .. n : k \in T
<1> DEFINE Bad == {k \in 0 .. n : k \notin T}
           Less == OpToRel(<, Nat)
<1> SUFFICES ASSUME Bad # {} PROVE FALSE
  OBVIOUS
<1>1. PICK k \in Bad : \A y \in Bad : ~(<<y, k>> \in Less)
  <2>1. IsWellFoundedOn(Less, Nat)
    BY NatLessThanWellFounded DEF Less
  <2>2. Bad \subseteq Nat
    OBVIOUS
  <2> HIDE DEF Bad, Less
  <2> QED BY <2>1, <2>2, WFMin
<1>2. \A y \in Bad : ~(y < k)
  <2>1. Bad \subseteq Nat
    OBVIOUS
  <2> HIDE DEF Bad
  <2> QED BY <1>1, <2>1 DEF OpToRel
<1>3. k - 1 \in Bad /\ k - 1 < k
  OBVIOUS
<1> HIDE DEF Bad
<1> QED BY <1>2, <1>3

LEMMA MinIsMember ==
    ASSUME NEW S \in SUBSET Nat, S # {}
    PROVE  Min(S) \in S
<1> DEFINE Less == OpToRel(<, Nat)
<1>1. PICK k \in S : \A y \in S : ~(<<y, k>> \in Less)
  <2>1. IsWellFoundedOn(Less, Nat)
    BY NatLessThanWellFounded DEF Less
  <2> HIDE DEF Less
  <2> QED BY <2>1, WFMin
<1>2. \A y \in S : ~(y < k)
  BY <1>1 DEF OpToRel
<1>3. \A y \in S : k <= y
  BY <1>2
<1> QED BY <1>3 DEF Min

----------------------------------------------------------------------------
(* The cache *)

\* A cache of which `n` says how many requests borrow the handle of each database.
Handles == [store : Store, refs : Nat]
CacheOf(q, n) ==
    /\ q \in Seq(Handles)
    /\ \A i, j \in DOMAIN q : q[i].store = q[j].store => i = j
    /\ \A i \in DOMAIN q : q[i].refs = n[q[i].store]
    /\ \A s \in Store : n[s] # 0 => Positions(q, s) # {}

LEMMA Removed ==
    ASSUME NEW S, NEW q \in Seq(S), NEW i \in DOMAIN q
    PROVE  /\ RemoveAt(q, i) \in Seq(S)
           /\ Len(RemoveAt(q, i)) = Len(q) - 1
           /\ \A j \in 1 .. Len(q) - 1 :
                 /\ j < i => RemoveAt(q, i)[j] = q[j]
                 /\ ~(j < i) => RemoveAt(q, i)[j] = q[j + 1]
<1> DEFINE a == SubSeq(q, 1, i - 1)
           b == SubSeq(q, i + 1, Len(q))
<1>1. Len(q) \in Nat /\ DOMAIN q = 1 .. Len(q) /\ \A j \in 1 .. Len(q) : q[j] \in S
  OBVIOUS
<1>2. a \in Seq(S) /\ Len(a) = i - 1 /\ \A j \in 1 .. i - 1 : a[j] = q[j]
  BY <1>1, SubSeqProperties
<1>3. b \in Seq(S) /\ Len(b) = Len(q) - i /\ \A j \in 1 .. Len(q) - i : b[j] = q[i + j]
  BY <1>1, SubSeqProperties
<1>4. RemoveAt(q, i) = a \o b
  BY DEF RemoveAt
<1>5. i \in 1 .. Len(q)
  BY <1>1
<1> HIDE DEF a, b
<1>6. /\ a \o b \in Seq(S) /\ Len(a \o b) = (i - 1) + (Len(q) - i)
      /\ \A j \in 1 .. (i - 1) + (Len(q) - i) :
            (a \o b)[j] = IF j <= i - 1 THEN a[j] ELSE b[j - (i - 1)]
  <2>1. /\ a \o b \in Seq(S) /\ Len(a \o b) = Len(a) + Len(b)
        /\ \A j \in 1 .. Len(a) + Len(b) :
              (a \o b)[j] = IF j <= Len(a) THEN a[j] ELSE b[j - Len(a)]
    BY <1>2, <1>3, ConcatProperties
  <2> QED BY <2>1, <1>2, <1>3
<1>7. (i - 1) + (Len(q) - i) = Len(q) - 1
  BY <1>1, <1>5
<1>8. ASSUME NEW j \in 1 .. Len(q) - 1
      PROVE  /\ j < i => RemoveAt(q, i)[j] = q[j]
             /\ ~(j < i) => RemoveAt(q, i)[j] = q[j + 1]
  <2>1. CASE j < i
    <3>1. j \in 1 .. i - 1 /\ j \in 1 .. (i - 1) + (Len(q) - i)
      BY <1>1, <1>5, <2>1
    <3> QED BY <1>2, <1>4, <1>6, <2>1, <3>1
  <2>2. CASE ~(j < i)
    <3>1. /\ j - (i - 1) \in 1 .. Len(q) - i /\ i + (j - (i - 1)) = j + 1 /\ ~(j <= i - 1)
          /\ j \in 1 .. (i - 1) + (Len(q) - i)
      BY <1>1, <1>5, <2>2
    <3>2. b[j - (i - 1)] = q[j + 1]
      BY <1>3, <3>1
    <3> QED BY <1>4, <1>6, <2>2, <3>1, <3>2
  <2> QED BY <2>1, <2>2
<1> QED BY <1>4, <1>6, <1>7, <1>8

LEMMA HandlesOf ==
    ASSUME NEW q \in Seq(Handles)
    PROVE  /\ Len(q) \in Nat /\ DOMAIN q = 1 .. Len(q)
           /\ \A j \in DOMAIN q : q[j] \in Handles /\ q[j].store \in Store /\ q[j].refs \in Nat
<1>1. Len(q) \in Nat /\ DOMAIN q = 1 .. Len(q) /\ \A j \in DOMAIN q : q[j] \in Handles
  OBVIOUS
<1>2. \A r \in Handles : r.store \in Store /\ r.refs \in Nat
  BY DEF Handles
<1> QED BY <1>1, <1>2

LEMMA RemovedFits ==
    ASSUME NEW n \in [Store -> Nat], NEW q, CacheOf(q, n), NEW i \in DOMAIN q
    PROVE  LET r == RemoveAt(q, i) IN
           /\ CacheOf(r, [n EXCEPT ![q[i].store] = 0])
           /\ Len(r) = Len(q) - 1
           /\ Positions(r, q[i].store) = {}
           /\ \A s : Positions(q, s) = {} => Positions(r, s) = {}
<1> DEFINE r == RemoveAt(q, i)
           m == [n EXCEPT ![q[i].store] = 0]
<1>1. /\ q \in Seq(Handles) /\ Len(q) \in Nat /\ DOMAIN q = 1 .. Len(q)
      /\ \A j \in DOMAIN q : q[j].store \in Store
      /\ \A j, k \in DOMAIN q : q[j].store = q[k].store => j = k
  BY HandlesOf DEF CacheOf
<1>2. /\ r \in Seq(Handles)
      /\ Len(r) = Len(q) - 1 /\ DOMAIN r = 1 .. Len(q) - 1
      /\ \A j \in 1 .. Len(q) - 1 : r[j] = IF j < i THEN q[j] ELSE q[j + 1]
  <2>1. /\ r \in Seq(Handles)
        /\ Len(r) = Len(q) - 1
        /\ \A j \in 1 .. Len(q) - 1 :
              (j < i => r[j] = q[j]) /\ (~(j < i) => r[j] = q[j + 1])
    BY <1>1, Removed
  <2> HIDE DEF r
  <2> QED BY <2>1, HandlesOf
<1> HIDE DEF r
<1>3. ASSUME NEW j \in DOMAIN r
      PROVE  \E k \in DOMAIN q : k # i /\ r[j] = q[k] /\ k = IF j < i THEN j ELSE j + 1
  BY <1>1, <1>2
<1>4. \A j, k \in DOMAIN r : r[j].store = r[k].store => j = k
  BY <1>1, <1>2, <1>3
<1>5. \A j \in DOMAIN r : r[j].refs = m[r[j].store]
  BY <1>1, <1>3 DEF CacheOf
<1>6. ASSUME NEW s \in Store, m[s] # 0 PROVE Positions(r, s) # {}
  <2>1. PICK k \in DOMAIN q : q[k].store = s
    BY <1>6 DEF CacheOf, Positions
  <2>2. k # i
    BY <1>1, <1>6, <2>1
  <2>3. \E j \in DOMAIN r : r[j] = q[k]
    <3>1. CASE k < i
      BY <1>1, <1>2, <3>1
    <3>2. CASE k > i
      <4>1. k - 1 \in DOMAIN r /\ r[k - 1] = q[k]
        BY <1>1, <1>2, <3>2
      <4> QED BY <4>1
    <3> QED BY <1>1, <2>2, <3>1, <3>2
  <2> QED BY <2>1, <2>3 DEF Positions
<1>7. CacheOf(r, m)
  BY <1>2, <1>4, <1>5, <1>6 DEF CacheOf
<1>8. Positions(r, q[i].store) = {}
  BY <1>1, <1>3 DEF Positions
<1>9. \A s : Positions(q, s) = {} => Positions(r, s) = {}
  BY <1>3 DEF Positions
<1> HIDE DEF m
<1> QED BY <1>2, <1>7, <1>8, <1>9 DEF r, m

LEMMA AppendedFits ==
    ASSUME NEW n \in [Store -> Nat], NEW q, CacheOf(q, n),
           NEW s \in Store, Positions(q, s) = {}, NEW k \in Nat \ {0}
    PROVE  LET r == Append(q, [store |-> s, refs |-> k]) IN
           /\ CacheOf(r, [n EXCEPT ![s] = k])
           /\ Len(r) = Len(q) + 1
           /\ IdleIn(q) = {} => IdleIn(r) = {}
<1> DEFINE new == [store |-> s, refs |-> k]
           r == Append(q, new)
           m == [n EXCEPT ![s] = k]
<1>1. /\ q \in Seq(Handles) /\ Len(q) \in Nat /\ DOMAIN q = 1 .. Len(q)
      /\ \A j \in DOMAIN q : q[j].store \in Store /\ q[j].store # s
      /\ \A i, j \in DOMAIN q : q[i].store = q[j].store => i = j
  BY HandlesOf DEF CacheOf, Positions
<1>2. /\ new \in Handles /\ new.store = s /\ new.refs = k
  BY DEF Handles
<1> HIDE DEF new
<1>3. /\ r \in Seq(Handles)
      /\ Len(r) = Len(q) + 1 /\ DOMAIN r = 1 .. Len(q) + 1
      /\ \A j \in DOMAIN q : r[j] = q[j]
      /\ r[Len(q) + 1] = new
  BY <1>1, <1>2
<1> HIDE DEF r
<1>4. \A i, j \in DOMAIN r : r[i].store = r[j].store => i = j
  BY <1>1, <1>2, <1>3
<1>5. \A j \in DOMAIN r : r[j].refs = m[r[j].store]
  <2> SUFFICES ASSUME NEW j \in DOMAIN r PROVE r[j].refs = m[r[j].store]
    OBVIOUS
  <2>1. CASE j \in DOMAIN q
    BY <2>1, <1>1, <1>3 DEF CacheOf
  <2>2. CASE j = Len(q) + 1
    BY <2>2, <1>2, <1>3
  <2> QED BY <1>1, <1>3, <2>1, <2>2
<1>6. ASSUME NEW x \in Store, m[x] # 0 PROVE Positions(r, x) # {}
  <2>1. CASE x = s
    <3>1. Len(q) + 1 \in Positions(r, x)
      BY <2>1, <1>1, <1>2, <1>3 DEF Positions
    <3> QED BY <3>1
  <2>2. CASE x # s
    <3>1. PICK j \in DOMAIN q : q[j].store = x
      BY <1>6, <2>2 DEF CacheOf, Positions
    <3>2. j \in Positions(r, x)
      BY <3>1, <1>1, <1>3 DEF Positions
    <3> QED BY <3>2
  <2> QED BY <2>1, <2>2
<1>7. CacheOf(r, m)
  BY <1>3, <1>4, <1>5, <1>6 DEF CacheOf
<1>8. ASSUME IdleIn(q) = {}, NEW j \in DOMAIN r PROVE ~Idle(r[j])
  <2>1. CASE j \in DOMAIN q
    BY <2>1, <1>3, <1>8 DEF IdleIn
  <2>2. CASE j = Len(q) + 1
    BY <2>2, <1>2, <1>3 DEF Idle
  <2> QED BY <1>1, <1>3, <2>1, <2>2
<1> HIDE DEF m
<1> QED BY <1>3, <1>7, <1>8 DEF r, m, new, IdleIn

\* The rounds of an eviction.
LEMMA ShrunkRounds ==
    ASSUME NEW q, NEW size, Len(q) \in Nat
    PROVE  \E after :
              /\ after[0] = q
              /\ \A k \in 1 .. Len(q) :
                    after[k] = IF Len(after[k - 1]) > size /\ IdleIn(after[k - 1]) # {}
                               THEN RemoveAt(after[k - 1], Min(IdleIn(after[k - 1])))
                               ELSE after[k - 1]
              /\ Shrunk(q, size) = after[Len(q)]
<1> DEFINE Round(r) == IF Len(r) > size /\ IdleIn(r) # {} THEN RemoveAt(r, Min(IdleIn(r))) ELSE r
           Rounds(g, n) == g = [k \in 0 .. n |-> IF k = 0 THEN q ELSE Round(g[k - 1])]
           T == {n \in 0 .. Len(q) : \E g : Rounds(g, n)}
           after == CHOOSE g : Rounds(g, Len(q))
<1>1. Shrunk(q, size) = after[Len(q)]
  BY DEF Shrunk
<1> HIDE DEF Round
<1>2. 0 \in T
  <2>1. Rounds([k \in 0 .. 0 |-> q], 0)
    OBVIOUS
  <2>2. \E g : Rounds(g, 0)
    BY <2>1
  <2> HIDE DEF Rounds
  <2> QED BY <2>2
<1>3. ASSUME NEW k \in 1 .. Len(q), k - 1 \in T PROVE k \in T
  <2>1. PICK g : Rounds(g, k - 1)
    BY <1>3
  <2> DEFINE h == [i \in 0 .. k |-> IF i < k THEN g[i] ELSE Round(g[k - 1])]
  <2>2. Rounds(h, k)
    <3>1. ASSUME NEW i \in 0 .. k PROVE h[i] = IF i = 0 THEN q ELSE Round(h[i - 1])
      <4>1. CASE i < k
        BY <4>1, <2>1
      <4>2. CASE i = k
        BY <4>2
      <4> QED BY <4>1, <4>2
    <3> HIDE DEF h
    <3>2. h = [i \in 0 .. k |-> h[i]]
      BY DEF h
    <3> QED BY <3>1, <3>2
  <2> HIDE DEF Rounds, h
  <2> QED BY <2>2
<1>4. Len(q) \in T
  <2>1. \A k \in 1 .. Len(q) : k - 1 \in T => k \in T
    BY <1>3
  <2> HIDE DEF T
  <2>2. \A k \in 0 .. Len(q) : k \in T
    BY <1>2, <2>1, UpTo
  <2> QED BY <2>2
<1>5. Rounds(after, Len(q))
  <2> HIDE DEF Rounds
  <2> QED BY <1>4
<1> HIDE DEF after
<1>6. /\ after[0] = q
      /\ \A k \in 1 .. Len(q) : after[k] = Round(after[k - 1])
  BY <1>5
<1> QED BY <1>1, <1>6 DEF Round

\* An eviction closes handles that nobody borrows, until the cache is small enough or all
\* are borrowed.
LEMMA ShrunkFits ==
    ASSUME NEW n \in [Store -> Nat], NEW q, CacheOf(q, n), NEW size \in Nat
    PROVE  LET r == Shrunk(q, size) IN
           /\ CacheOf(r, n)
           /\ Len(r) <= size \/ IdleIn(r) = {}
           /\ \A s : Positions(q, s) = {} => Positions(r, s) = {}
<1>1. q \in Seq(Handles) /\ Len(q) \in Nat
  BY HandlesOf DEF CacheOf
<1>2. PICK after :
         /\ after[0] = q
         /\ \A k \in 1 .. Len(q) :
               after[k] = IF Len(after[k - 1]) > size /\ IdleIn(after[k - 1]) # {}
                          THEN RemoveAt(after[k - 1], Min(IdleIn(after[k - 1])))
                          ELSE after[k - 1]
         /\ Shrunk(q, size) = after[Len(q)]
  BY <1>1, ShrunkRounds
<1> DEFINE Small(r) == Len(r) <= size \/ IdleIn(r) = {}
           T == {k \in 0 .. Len(q) :
                    /\ CacheOf(after[k], n)
                    /\ Small(after[k]) \/ Len(after[k]) <= Len(q) - k
                    /\ \A s : Positions(q, s) = {} => Positions(after[k], s) = {}}
<1>3. 0 \in T
  BY <1>1, <1>2
<1>4. ASSUME NEW k \in 1 .. Len(q), k - 1 \in T PROVE k \in T
  <2> DEFINE r == after[k - 1]
  <2>1. /\ CacheOf(r, n) /\ Len(r) \in Nat /\ DOMAIN r = 1 .. Len(r)
        /\ Small(r) \/ Len(r) <= Len(q) - (k - 1)
        /\ \A s : Positions(q, s) = {} => Positions(r, s) = {}
    BY <1>4, HandlesOf DEF CacheOf
  <2>2. after[k] = IF Len(r) > size /\ IdleIn(r) # {} THEN RemoveAt(r, Min(IdleIn(r))) ELSE r
    BY <1>2
  <2> HIDE DEF r
  <2>3. CASE Len(r) > size /\ IdleIn(r) # {}
    <3> DEFINE i == Min(IdleIn(r))
    <3>1. i \in DOMAIN r /\ Idle(r[i])
      <4>1. IdleIn(r) \in SUBSET Nat
        BY <2>1 DEF IdleIn
      <4> QED BY <4>1, <2>3, MinIsMember DEF IdleIn
    <3> HIDE DEF i
    <3>2. r[i].store \in Store /\ n[r[i].store] = 0
      BY <2>1, <3>1, HandlesOf DEF CacheOf, Idle
    <3>3. [n EXCEPT ![r[i].store] = 0] = n
      BY <3>2
    <3>4. /\ CacheOf(RemoveAt(r, i), n)
          /\ Len(RemoveAt(r, i)) = Len(r) - 1
          /\ \A s : Positions(r, s) = {} => Positions(RemoveAt(r, i), s) = {}
      <4> DEFINE m == [n EXCEPT ![r[i].store] = 0]
      <4>1. /\ CacheOf(RemoveAt(r, i), m)
            /\ Len(RemoveAt(r, i)) = Len(r) - 1
            /\ \A s : Positions(r, s) = {} => Positions(RemoveAt(r, i), s) = {}
        BY <2>1, <3>1, RemovedFits
      <4> HIDE DEF m
      <4>2. m = n
        BY <3>3 DEF m
      <4> QED BY <4>1, <4>2
    <3>5. after[k] = RemoveAt(r, i)
      BY <2>2, <2>3 DEF i
    <3>6. Len(after[k]) <= Len(q) - k
      BY <1>1, <2>1, <2>3, <3>4, <3>5
    <3> HIDE DEF Small
    <3> QED BY <2>1, <3>4, <3>5, <3>6
  <2>4. CASE ~(Len(r) > size /\ IdleIn(r) # {})
    <3>1. after[k] = r /\ Small(r)
      BY <2>1, <2>2, <2>4
    <3> HIDE DEF Small
    <3> QED BY <2>1, <3>1
  <2> QED BY <2>3, <2>4
<1>5. Len(q) \in T
  <2>1. \A k \in 1 .. Len(q) : k - 1 \in T => k \in T
    BY <1>4
  <2> HIDE DEF T
  <2>2. \A k \in 0 .. Len(q) : k \in T
    BY <1>1, <1>3, <2>1, UpTo
  <2> QED BY <1>1, <2>2
<1>6. Small(after[Len(q)])
  <2>1. CASE Len(after[Len(q)]) <= Len(q) - Len(q)
    BY <1>1, <2>1
  <2> QED BY <1>5, <2>1
<1> QED BY <1>2, <1>5, <1>6

\* The cache has grown beyond its capacity only by handles that are all borrowed.
Bounded(q) == Len(q) > Capacity => IdleIn(q) = {}

LEMMA BorrowedFits ==
    ASSUME NEW n \in [Store -> Nat], NEW q, CacheOf(q, n), Bounded(q), NEW s \in Store
    PROVE  LET r == Borrowed(q, s) IN
           CacheOf(r, [n EXCEPT ![s] = @ + 1]) /\ Bounded(r)
<1>1. CASE Positions(q, s) = {}
  <2> DEFINE e == Evicted(q)
  <2>1. n[s] = 0
    BY <1>1 DEF CacheOf
  <2>2. Capacity - 1 \in Nat
    BY DaemonAssumption
  <2>3. /\ CacheOf(e, n) /\ Positions(e, s) = {}
        /\ Len(e) <= Capacity - 1 \/ IdleIn(e) = {}
    BY <1>1, <2>2, ShrunkFits DEF Evicted
  <2> HIDE DEF e
  <2>4. Borrowed(q, s) = Append(e, [store |-> s, refs |-> 1])
    BY <1>1 DEF Borrowed, e
  <2>5. [n EXCEPT ![s] = @ + 1] = [n EXCEPT ![s] = 1]
    BY <2>1
  <2>6. Len(e) \in Nat
    BY <2>3, HandlesOf DEF CacheOf
  <2> DEFINE r == Append(e, [store |-> s, refs |-> 1])
  <2>7. /\ CacheOf(r, [n EXCEPT ![s] = 1])
        /\ Len(r) = Len(e) + 1
        /\ IdleIn(e) = {} => IdleIn(r) = {}
    <3>1. 1 \in Nat \ {0}
      OBVIOUS
    <3> QED BY <2>3, <3>1, AppendedFits
  <2> HIDE DEF r
  <2>8. Bounded(r)
    BY <2>3, <2>6, <2>7, DaemonAssumption DEF Bounded
  <2> QED BY <2>4, <2>5, <2>7, <2>8 DEF r
<1>2. CASE Positions(q, s) # {}
  <2> DEFINE i == CHOOSE i \in Positions(q, s) : TRUE
             a == RemoveAt(q, i)
             m == [n EXCEPT ![s] = 0]
             k == q[i].refs + 1
             r == Append(a, [store |-> s, refs |-> k])
  <2>1. i \in DOMAIN q /\ q[i].store = s
    BY <1>2 DEF Positions
  <2>2. Borrowed(q, s) = Append(a, [q[i] EXCEPT !.refs = @ + 1])
    BY <1>2 DEF Borrowed
  <2> HIDE DEF i
  <2>3. q[i] \in Handles /\ q[i].refs = n[s]
    BY <2>1, HandlesOf DEF CacheOf
  <2>4. [q[i] EXCEPT !.refs = @ + 1] = [store |-> s, refs |-> k]
    BY <2>1, <2>3 DEF Handles
  <2>5. CacheOf(a, m) /\ Len(a) = Len(q) - 1 /\ Positions(a, s) = {}
    BY <2>1, RemovedFits
  <2>6. k \in Nat \ {0} /\ m \in [Store -> Nat] /\ [m EXCEPT ![s] = k] = [n EXCEPT ![s] = @ + 1]
    BY <2>3
  <2> HIDE DEF a, m, k
  <2>7. /\ CacheOf(r, [m EXCEPT ![s] = k])
        /\ Len(r) = Len(a) + 1
        /\ IdleIn(a) = {} => IdleIn(r) = {}
    BY <2>5, <2>6, AppendedFits
  <2> HIDE DEF r
  <2>8. Len(r) > Capacity => IdleIn(r) = {}
    <3> SUFFICES ASSUME Len(r) > Capacity PROVE IdleIn(a) = {}
      BY <2>7
    <3>1. Len(q) \in Nat /\ Len(r) = Len(q) /\ DOMAIN q = 1 .. Len(q)
      BY <2>5, <2>7, HandlesOf DEF CacheOf
    <3>2. \A x \in DOMAIN q : ~Idle(q[x])
      BY <3>1 DEF Bounded, IdleIn
    <3>3. \A j \in DOMAIN a : \E x \in DOMAIN q : a[j] = q[x]
      <4>1. q \in Seq(Handles) /\ a \in Seq(Handles) /\ DOMAIN a = 1 .. Len(q) - 1
        BY <2>5, HandlesOf DEF CacheOf
      <4>2. \A j \in 1 .. Len(q) - 1 :
               (j < i => a[j] = q[j]) /\ (~(j < i) => a[j] = q[j + 1])
        BY <2>1, <4>1, Removed DEF a
      <4>3. ASSUME NEW j \in 1 .. Len(q) - 1 PROVE j \in DOMAIN q /\ j + 1 \in DOMAIN q
        BY <3>1
      <4> QED BY <4>1, <4>2, <4>3
    <3> QED BY <3>2, <3>3 DEF IdleIn
  <2> QED BY <2>2, <2>4, <2>6, <2>7, <2>8 DEF Bounded, r
<1> QED BY <1>1, <1>2

LEMMA ReleasedFits ==
    ASSUME NEW n \in [Store -> Nat], NEW q, CacheOf(q, n), Bounded(q),
           NEW s \in Store, n[s] # 0
    PROVE  LET r == Released(q, s) IN
           CacheOf(r, [n EXCEPT ![s] = @ - 1]) /\ Bounded(r)
<1> DEFINE r == [i \in DOMAIN q |-> IF q[i].store = s /\ q[i].refs > 0
                                    THEN [q[i] EXCEPT !.refs = @ - 1] ELSE q[i]]
           m == [n EXCEPT ![s] = @ - 1]
<1>1. /\ q \in Seq(Handles) /\ Len(q) \in Nat /\ DOMAIN q = 1 .. Len(q)
      /\ \A i \in DOMAIN q : q[i] \in Handles /\ q[i].store \in Store /\ q[i].refs \in Nat
  BY HandlesOf DEF CacheOf
<1>2. m \in [Store -> Nat]
  OBVIOUS
<1>3. ASSUME NEW i \in DOMAIN q
      PROVE  r[i] \in Handles /\ r[i].store = q[i].store /\ r[i].refs = m[q[i].store]
  <2>1. q[i].refs = n[q[i].store]
    BY <1>3 DEF CacheOf
  <2>2. CASE q[i].store = s
    BY <1>1, <2>1, <2>2 DEF Handles
  <2>3. CASE q[i].store # s
    BY <1>1, <2>1, <2>3
  <2> QED BY <2>2, <2>3
<1>4. DOMAIN r = DOMAIN q /\ r \in Seq(Handles) /\ Len(r) = Len(q)
  <2>1. DOMAIN r = 1 .. Len(q) /\ r = [i \in 1 .. Len(q) |-> r[i]]
    BY <1>1
  <2> HIDE DEF r
  <2> QED BY <1>1, <1>3, <2>1
<1>5. Released(q, s) = IF Len(r) > Capacity THEN Evicted(r) ELSE r
  BY DEF Released
<1> HIDE DEF r, m
<1>6. CacheOf(r, m)
  <2>1. ASSUME NEW x \in Store, m[x] # 0 PROVE Positions(r, x) # {}
    <3>1. n[x] # 0
      BY <2>1 DEF m
    <3>2. PICK i \in DOMAIN q : q[i].store = x
      BY <3>1 DEF CacheOf, Positions
    <3> QED BY <3>2, <1>3, <1>4 DEF Positions
  <2>2. \A i, j \in DOMAIN r : r[i].store = r[j].store => i = j
    BY <1>3, <1>4 DEF CacheOf
  <2> QED BY <1>3, <1>4, <2>1, <2>2 DEF CacheOf
<1>7. CASE Len(r) > Capacity
  <2>1. Capacity - 1 \in Nat /\ Capacity \in Nat
    BY DaemonAssumption
  <2> DEFINE e == Evicted(r)
  <2>2. CacheOf(e, m) /\ (Len(e) <= Capacity - 1 \/ IdleIn(e) = {})
    BY <1>2, <1>6, <2>1, ShrunkFits DEF Evicted
  <2> HIDE DEF e
  <2>3. Len(e) \in Nat
    BY <2>2, HandlesOf DEF CacheOf
  <2>4. Bounded(e)
    BY <2>1, <2>2, <2>3 DEF Bounded
  <2> QED BY <1>5, <1>7, <2>2, <2>4 DEF e, m
<1>8. CASE ~(Len(r) > Capacity)
  BY <1>5, <1>6, <1>8 DEF Bounded, m
<1> QED BY <1>7, <1>8

----------------------------------------------------------------------------
(* The caches of the daemons *)

Borrows(d) == [s \in Store |-> Cardinality(Borrowers(d, s))]

CachesFit ==
    /\ opens \in [Client -> Store]
    /\ cache = [d \in Process |-> cache[d]]
    /\ \A d \in Process : CacheOf(cache[d], Borrows(d)) /\ Bounded(cache[d])

LEMMA BorrowersCount ==
    ASSUME NEW d, NEW s
    PROVE  /\ IsFiniteSet(Borrowers(d, s))
           /\ Cardinality(Borrowers(d, s)) \in Nat
           /\ Cardinality(Borrowers(d, s)) <= Cardinality(Client)
           /\ Cardinality(Client) \in Nat
           /\ Cardinality(Borrowers(d, s)) = 0 <=> Borrowers(d, s) = {}
<1>1. Borrowers(d, s) \in SUBSET Client /\ IsFiniteSet(Client)
  BY DaemonAssumption DEF Borrowers, Of
<1> QED BY <1>1, FS_Subset, FS_CardinalityType, FS_EmptySet

LEMMA BorrowsTyped == \A d : Borrows(d) \in [Store -> Nat]
BY BorrowersCount DEF Borrows

\* Requests that go on borrowing what they borrow, in every daemon.
SameBorrowers == \A d \in Process, s \in Store : Borrowers(d, s)' = Borrowers(d, s)

LEMMA SameBorrowersFit ==
    ASSUME CachesFit, UNCHANGED <<opens, cache>>, SameBorrowers
    PROVE  CachesFit'
<1>1. \A d \in Process : Borrows(d)' = Borrows(d)
  BY DEF SameBorrowers, Borrows
<1>2. \A d \in Process : CacheOf(cache[d], Borrows(d)')
  BY <1>1 DEF CachesFit
<1> QED BY <1>2 DEF CachesFit, CacheOf, Bounded, Positions, IdleIn, Idle

LEMMA OpenKeepsFit ==
    ASSUME IInv, CachesFit, NEW c \in Client, Open(c),
           NEW d \in Process, conn[c] = d, NEW s \in Store, opens[c] = s
    PROVE  CachesFit'
<1>1. /\ request[c] = "dispatched"
      /\ opens' = opens /\ conn' = conn
      /\ request' = [request EXCEPT ![c] = "open"] /\ c \in DOMAIN request
      /\ cache' = [cache EXCEPT ![d] = Borrowed(@, s)]
  BY DEF Open, At, Moves, IInv, Typed, CachesFit
<1>2. /\ Borrowers(d, s)' = Borrowers(d, s) \cup {c} /\ c \notin Borrowers(d, s)
      /\ \A q \in Process, x \in Store :
            q # d \/ x # s => Borrowers(q, x)' = Borrowers(q, x)
  BY <1>1 DEF Borrowers, Of, Handling
<1>3. Cardinality(Borrowers(d, s)') = Cardinality(Borrowers(d, s)) + 1
  <2> DEFINE B == Borrowers(d, s)
  <2>1. IsFiniteSet(B) /\ c \notin B /\ Borrowers(d, s)' = B \cup {c}
    BY <1>2, BorrowersCount
  <2> HIDE DEF B
  <2>2. Cardinality(B \cup {c}) = Cardinality(B) + 1
    BY <2>1, FS_AddElement
  <2>3. Cardinality(Borrowers(d, s)') = Cardinality(B) + 1
    BY <2>1, <2>2
  <2> QED BY <2>3 DEF B
<1>4. /\ Borrows(d)' = [Borrows(d) EXCEPT ![s] = @ + 1]
      /\ \A q \in Process : q # d => Borrows(q)' = Borrows(q)
  BY <1>1, <1>2, <1>3 DEF Borrows
<1>5. /\ cache'[d] = Borrowed(cache[d], s)
      /\ \A q \in Process : q # d => cache'[q] = cache[q]
      /\ cache' = [q \in Process |-> cache'[q]]
  BY <1>1 DEF CachesFit
<1>6. CacheOf(cache'[d], Borrows(d)') /\ Bounded(cache'[d])
  <2> DEFINE n == Borrows(d)
             q == cache[d]
             r == Borrowed(q, s)
  <2>1. CacheOf(q, n) /\ Bounded(q) /\ n \in [Store -> Nat]
    BY BorrowsTyped DEF CachesFit
  <2> HIDE DEF n, q
  <2>2. CacheOf(r, [n EXCEPT ![s] = @ + 1]) /\ Bounded(r)
    BY <2>1, BorrowedFits
  <2>3. cache'[d] = r /\ Borrows(d)' = [n EXCEPT ![s] = @ + 1]
    BY <1>4, <1>5 DEF n, q
  <2> QED BY <2>2, <2>3
<1>7. ASSUME NEW q \in Process
      PROVE  CacheOf(cache'[q], Borrows(q)') /\ Bounded(cache'[q])
  <2>1. CASE q = d
    BY <2>1, <1>6
  <2>2. CASE q # d
    <3>1. CacheOf(cache[q], Borrows(q)) /\ Bounded(cache[q])
      BY DEF CachesFit
    <3>2. Borrows(q)' = Borrows(q) /\ cache'[q] = cache[q]
      BY <2>2, <1>4, <1>5
    <3> QED BY <3>1, <3>2
  <2> QED BY <2>1, <2>2
<1> QED BY <1>1, <1>5, <1>7 DEF CachesFit, CacheOf, Bounded, Positions, IdleIn, Idle

LEMMA RespondKeepsFit ==
    ASSUME IInv, CachesFit, NEW c \in Client, Respond(c),
           NEW d \in Process, conn[c] = d, NEW s \in Store, opens[c] = s
    PROVE  CachesFit'
<1>1. /\ request[c] \in {"ran", "failed"}
      /\ opens' = opens /\ conn' = conn
      /\ request' = [request EXCEPT ![c] = "over"] /\ c \in DOMAIN request
      /\ cache' = [cache EXCEPT ![d] = Released(@, s)]
  BY DEF Respond, At, Moves, IInv, Typed, CachesFit
<1>2. /\ Borrowers(d, s)' = Borrowers(d, s) \ {c} /\ c \in Borrowers(d, s)
      /\ \A q \in Process, x \in Store :
            q # d \/ x # s => Borrowers(q, x)' = Borrowers(q, x)
  BY <1>1 DEF Borrowers, Of, Handling
<1>3. Cardinality(Borrowers(d, s)') = Cardinality(Borrowers(d, s)) - 1
  <2> DEFINE B == Borrowers(d, s)
  <2>1. IsFiniteSet(B) /\ c \in B /\ Borrowers(d, s)' = B \ {c}
    BY <1>2, BorrowersCount
  <2> HIDE DEF B
  <2>2. Cardinality(B \ {c}) = Cardinality(B) - 1
    BY <2>1, FS_RemoveElement
  <2>3. Cardinality(Borrowers(d, s)') = Cardinality(B) - 1
    BY <2>1, <2>2
  <2> QED BY <2>3 DEF B
<1>4. /\ Borrows(d)' = [Borrows(d) EXCEPT ![s] = @ - 1]
      /\ \A q \in Process : q # d => Borrows(q)' = Borrows(q)
  BY <1>1, <1>2, <1>3 DEF Borrows
<1>5. /\ cache'[d] = Released(cache[d], s)
      /\ \A q \in Process : q # d => cache'[q] = cache[q]
      /\ cache' = [q \in Process |-> cache'[q]]
  BY <1>1 DEF CachesFit
<1>6. CacheOf(cache'[d], Borrows(d)') /\ Bounded(cache'[d])
  <2> DEFINE n == Borrows(d)
             q == cache[d]
             r == Released(q, s)
  <2>1. CacheOf(q, n) /\ Bounded(q) /\ n \in [Store -> Nat]
    BY BorrowsTyped DEF CachesFit
  <2>2. n[s] # 0
    BY <1>1, <1>2, BorrowersCount DEF Borrows
  <2> HIDE DEF n, q
  <2>3. CacheOf(r, [n EXCEPT ![s] = @ - 1]) /\ Bounded(r)
    BY <2>1, <2>2, ReleasedFits
  <2>4. cache'[d] = r /\ Borrows(d)' = [n EXCEPT ![s] = @ - 1]
    BY <1>4, <1>5 DEF n, q
  <2> QED BY <2>3, <2>4
<1>7. ASSUME NEW q \in Process
      PROVE  CacheOf(cache'[q], Borrows(q)') /\ Bounded(cache'[q])
  <2>1. CASE q = d
    BY <2>1, <1>6
  <2>2. CASE q # d
    <3>1. CacheOf(cache[q], Borrows(q)) /\ Bounded(cache[q])
      BY DEF CachesFit
    <3>2. Borrows(q)' = Borrows(q) /\ cache'[q] = cache[q]
      BY <2>2, <1>4, <1>5
    <3> QED BY <3>1, <3>2
  <2> QED BY <2>1, <2>2
<1> QED BY <1>1, <1>5, <1>7 DEF CachesFit, CacheOf, Bounded, Positions, IdleIn, Idle

LEMMA StopKeepsFit ==
    ASSUME CachesFit, NEW d \in Process, Stop(d)
    PROVE  CachesFit'
<1>1. /\ opens' = opens /\ conn' = conn /\ request' = request
      /\ cache' = [cache EXCEPT ![d] = Shrunk(@, 0)]
  BY DEF Stop
<1>2. \A q \in Process : Borrows(q)' = Borrows(q)
  BY <1>1 DEF Borrows, Borrowers, Of
<1>3. /\ cache'[d] = Shrunk(cache[d], 0)
      /\ \A q \in Process : q # d => cache'[q] = cache[q]
      /\ cache' = [q \in Process |-> cache'[q]]
  BY <1>1 DEF CachesFit
<1>4. CacheOf(cache'[d], Borrows(d)') /\ Bounded(cache'[d])
  <2> DEFINE q == cache[d]
             r == Shrunk(q, 0)
             n == Borrows(d)
  <2>1. CacheOf(r, n) /\ (Len(r) <= 0 \/ IdleIn(r) = {})
    <3>1. CacheOf(q, n) /\ n \in [Store -> Nat] /\ 0 \in Nat
      BY BorrowsTyped DEF CachesFit
    <3> HIDE DEF q, n
    <3> QED BY <3>1, ShrunkFits
  <2> HIDE DEF r, n
  <2>4. cache'[d] = r /\ Borrows(d)' = n
    BY <1>2, <1>3 DEF r, n
  <2>2. Len(r) \in Nat
    BY <2>1, HandlesOf DEF CacheOf
  <2>3. Bounded(r)
    BY <2>1, <2>2, DaemonAssumption DEF Bounded
  <2> QED BY <2>1, <2>3, <2>4
<1>5. \A q \in Process : CacheOf(cache'[q], Borrows(q)') /\ Bounded(cache'[q])
  BY <1>2, <1>3, <1>4 DEF CachesFit
<1> QED BY <1>1, <1>3, <1>5 DEF CachesFit, CacheOf, Bounded, Positions, IdleIn, Idle

LEMMA EmptyCacheFits ==
    ASSUME NEW n \in [Store -> Nat], \A s \in Store : n[s] = 0
    PROVE  CacheOf(<<>>, n) /\ Bounded(<<>>)
BY DEF CacheOf, Bounded, IdleIn

LEMMA CrashKeepsFit ==
    ASSUME IInv, CachesFit, NEW d \in Process, Crash(d)
    PROVE  CachesFit'
<1>1. /\ opens' = opens /\ conn' = conn
      /\ request' = [c \in Client |-> IF conn[c] = d THEN "over" ELSE request[c]]
      /\ cache' = [cache EXCEPT ![d] = <<>>]
  BY DEF Crash, Cut, Of
<1>2. /\ \A s \in Store : Borrowers(d, s)' = {}
      /\ \A q \in Process, s \in Store : q # d => Borrowers(q, s)' = Borrowers(q, s)
  BY <1>1 DEF Borrowers, Of, Handling
<1>3. /\ cache'[d] = <<>>
      /\ \A q \in Process : q # d => cache'[q] = cache[q]
      /\ cache' = [q \in Process |-> cache'[q]]
  BY <1>1 DEF CachesFit
<1>4. CacheOf(cache'[d], Borrows(d)') /\ Bounded(cache'[d])
  <2> DEFINE n == Borrows(d)'
  <2>1. n \in [Store -> Nat] /\ \A s \in Store : n[s] = 0
    BY <1>2, FS_EmptySet DEF Borrows
  <2> HIDE DEF n
  <2>2. CacheOf(<<>>, n) /\ Bounded(<<>>)
    BY <2>1, EmptyCacheFits
  <2> QED BY <1>3, <2>2 DEF n
<1>5. \A q \in Process : q # d => Borrows(q)' = Borrows(q)
  BY <1>2 DEF Borrows
<1>6. \A q \in Process : CacheOf(cache'[q], Borrows(q)') /\ Bounded(cache'[q])
  BY <1>3, <1>4, <1>5 DEF CachesFit
<1> QED BY <1>1, <1>3, <1>6 DEF CachesFit, CacheOf, Bounded, Positions, IdleIn, Idle

\* No other step opens or closes a handle.
LEMMA OtherStepsKeepFit ==
    ASSUME IInv, CachesFit,
           \/ \E c \in Client : Calls(c)
           \/ \E c \in Client : Accept(c) \/ Receive(c) \/ IdleTimeout(c) \/ Run(c)
           \/ \E d \in Process : Start(d) \/ Shutdown(d)
    PROVE  CachesFit'
<1> DEFINE Borrowing(c) == request[c] \in {"open", "ran", "failed"}
<1> DEFINE Stays(c) == \/ conn'[c] = conn[c] /\ Borrowing(c)' = Borrowing(c)
                       \/ ~Borrowing(c)' /\ conn[c] = None
<1>1. UNCHANGED <<opens, cache>> /\ \A c \in Client : Stays(c)
  <2> USE DEF IInv, Typed, Handling, daemons
  <2>1. ASSUME NEW c \in Client, Calls(c) \/ Accept(c) \/ Receive(c) \/ IdleTimeout(c) \/ Run(c)
        PROVE  UNCHANGED <<opens, cache>> /\ \A b \in Client : Stays(b)
    <3>1. CASE Connect(c)
      <4>1. conn[c] = None
        BY <3>1 DEF Connect, Unsent
      <4> QED BY <3>1, <4>1 DEF Connect
    <3>2. CASE Look(c) \/ ConnectFails(c) \/ RunLocal(c) \/ Report(c) \/ TakeReply(c) \/ GiveUp(c)
      BY <3>2 DEF Look, ConnectFails, RunLocal, Report, TakeReply, GiveUp
    <3>3. CASE Accept(c) \/ Receive(c) \/ IdleTimeout(c) \/ Run(c)
      BY <3>3 DEF Accept, Receive, IdleTimeout, Run, At, Moves
    <3> QED BY <2>1, <3>1, <3>2, <3>3 DEF Calls
  <2>2. ASSUME NEW d \in Process, Start(d) \/ Shutdown(d)
        PROVE  UNCHANGED <<opens, cache>> /\ \A b \in Client : Stays(b)
    BY <2>2 DEF Start, Shutdown, Cut
  <2> QED BY <2>1, <2>2
<1>2. SameBorrowers
  <2>1. ASSUME NEW d \in Process, NEW s \in Store, NEW c \in Client
        PROVE  c \in Borrowers(d, s)' <=> c \in Borrowers(d, s)
    <3>1. d # None
      BY NoneAssumption
    <3> QED BY <1>1, <3>1 DEF Borrowers, Of, Handling
  <2> QED BY <2>1 DEF SameBorrowers, Borrowers, Of
<1> QED BY <1>1, <1>2, SameBorrowersFit

----------------------------------------------------------------------------
(* Types and caches *)

\* No daemon has more connections than its cap.
ConnectionsFit ==
    /\ live \in [Process -> SUBSET Client]
    /\ \A d \in Process : Cardinality(live[d]) <= MaxConnections
    /\ up \in [Process -> {"off", "up", "closing", "down"}]

SInv == IInv /\ CachesFit /\ ConnectionsFit

LEMMA FewerConnectionsFit ==
    ASSUME ConnectionsFit, live' \in [Process -> SUBSET Client],
           up' \in [Process -> {"off", "up", "closing", "down"}],
           \A d \in Process : live'[d] \subseteq live[d]
    PROVE  ConnectionsFit'
<1> SUFFICES ASSUME NEW d \in Process PROVE Cardinality(live'[d]) <= MaxConnections
  BY DEF ConnectionsFit
<1>1. IsFiniteSet(live[d])
  BY DaemonAssumption, FS_Subset DEF ConnectionsFit
<1>2. live'[d] \in SUBSET live[d]
  OBVIOUS
<1>3. /\ Cardinality(live'[d]) <= Cardinality(live[d])
      /\ Cardinality(live'[d]) \in Nat /\ Cardinality(live[d]) \in Nat
  BY <1>1, <1>2, FS_Subset, FS_CardinalityType
<1> QED BY <1>3, DaemonAssumption DEF ConnectionsFit

LEMMA AcceptKeepsConnections ==
    ASSUME IInv, ConnectionsFit, NEW c \in Client, Accept(c)
    PROVE  ConnectionsFit'
<1>1. CASE live' = live
  BY <1>1 DEF Accept, ConnectionsFit, daemons
<1>2. CASE /\ ~Full(conn[c])
           /\ live' = [live EXCEPT ![conn[c]] = @ \cup {c}]
  <2> SUFFICES ASSUME NEW d \in Process PROVE Cardinality(live'[d]) <= MaxConnections
    BY <1>2 DEF Accept, ConnectionsFit, daemons
  <2>1. CASE d = conn[c]
    <3>1. IsFiniteSet(live[d])
      BY DaemonAssumption, FS_Subset DEF ConnectionsFit
    <3>2. live'[d] = live[d] \cup {c}
      BY <1>2, <2>1 DEF ConnectionsFit
    <3>3. Cardinality(live[d]) < MaxConnections
      BY <1>2, <2>1, <3>1, FS_CardinalityType, DaemonAssumption DEF Full
    <3> DEFINE L == live[d]
    <3>4. IsFiniteSet(L) /\ Cardinality(L) \in Nat
      BY <3>1, FS_CardinalityType
    <3> HIDE DEF L
    <3>5. Cardinality(L \cup {c}) <= Cardinality(L) + 1
      BY <3>4, FS_AddElement
    <3>6. Cardinality(L \cup {c}) \in Nat /\ Cardinality(L) < MaxConnections
      BY <3>3, <3>4, FS_AddElement, FS_CardinalityType DEF L
    <3>7. Cardinality(L \cup {c}) <= MaxConnections
      BY <3>4, <3>5, <3>6, DaemonAssumption
    <3> QED BY <3>2, <3>7 DEF L
  <2>2. CASE d # conn[c]
    BY <1>2, <2>2 DEF ConnectionsFit
  <2> QED BY <2>1, <2>2
<1>3. \/ live' = live
      \/ ~Full(conn[c]) /\ live' = [live EXCEPT ![conn[c]] = @ \cup {c}]
  <2>1. live = [live EXCEPT ![conn[c]] = @]
    BY DEF ConnectionsFit
  <2> QED BY <2>1 DEF Accept
<1> QED BY <1>1, <1>2, <1>3

LEMMA NextKeepsConnections ==
    ASSUME IInv, ConnectionsFit, Next
    PROVE  ConnectionsFit'
<1>1. ASSUME NEW c \in Client, Calls(c) PROVE ConnectionsFit'
  <2>1. up' = up /\ \/ live' = live
                    \/ live' = [d \in Process |-> live[d] \ {c}]
    BY <1>1 DEF Calls, Look, Connect, ConnectFails, RunLocal, Report, TakeReply, GiveUp,
                HangsUp, daemons
  <2> QED BY <2>1, FewerConnectionsFit DEF ConnectionsFit
<1>2. ASSUME NEW c \in Client, Serves(c) PROVE ConnectionsFit'
  <2>1. CASE Accept(c)
    BY <2>1, AcceptKeepsConnections
  <2>2. CASE Receive(c) \/ IdleTimeout(c) \/ Open(c) \/ Run(c) \/ Respond(c)
    <3>1. up' = up /\ \/ live' = live
                      \/ live' = [d \in Process |-> live[d] \ {c}]
      BY <2>2 DEF Receive, IdleTimeout, Open, Run, Respond, HangsUp, daemons
    <3> QED BY <3>1, FewerConnectionsFit DEF ConnectionsFit
  <2> QED BY <1>2, <2>1, <2>2 DEF Serves
<1>3. ASSUME NEW d \in Process, Lives(d) PROVE ConnectionsFit'
  <2>1. /\ \/ live' = live
           \/ \E cut : live' = [live EXCEPT ![d] = @ \ cut]
           \/ live' = [live EXCEPT ![d] = {}]
        /\ \E how \in {"up", "closing", "down"} : up' = [up EXCEPT ![d] = how]
    BY <1>3 DEF Lives, Start, Shutdown, Stop, Crash
  <2> QED BY <2>1, FewerConnectionsFit DEF ConnectionsFit
<1> QED BY <1>1, <1>2, <1>3 DEF Next

LEMMA InitSInv == Init => SInv
<1> SUFFICES ASSUME Init PROVE SInv
  OBVIOUS
<1>1. CachesFit
  <2>1. ASSUME NEW d \in Process
        PROVE  CacheOf(cache[d], Borrows(d)) /\ Bounded(cache[d])
    <3>1. \A s \in Store : Borrowers(d, s) = {}
      BY DEF Init, Borrowers, Of, Handling, None
    <3>2. \A s \in Store : Borrows(d)[s] = 0
      BY <3>1, FS_EmptySet DEF Borrows
    <3>3. cache[d] = <<>>
      BY DEF Init
    <3> QED BY <3>2, <3>3, BorrowsTyped, EmptyCacheFits
  <2> QED BY <2>1 DEF Init, CachesFit
<1>2. ConnectionsFit
  BY FS_EmptySet, DaemonAssumption DEF Init, ConnectionsFit
<1> QED BY <1>1, <1>2, InitIInv DEF SInv

LEMMA NextKeepsSInv == SInv /\ [Next]_vars => SInv'
<1> SUFFICES ASSUME SInv, [Next]_vars PROVE SInv'
  OBVIOUS
<1>1. IInv'
  BY NextKeepsIInv DEF SInv
<1>2. CASE UNCHANGED vars
  <2>1. CachesFit'
    BY <1>2, SameBorrowersFit DEF vars, daemons, SInv, SameBorrowers, Borrowers, Of
  <2>2. ConnectionsFit'
    BY <1>2 DEF vars, daemons, SInv, ConnectionsFit
  <2> QED BY <1>1, <2>1, <2>2 DEF SInv
<1>3. CASE Next
  <2>1. ConnectionsFit'
    BY <1>3, NextKeepsConnections DEF SInv
  <2>2. ASSUME NEW c \in Client, Open(c) \/ Respond(c) PROVE CachesFit'
    <3>1. conn[c] \in Process /\ opens[c] \in Store
      BY <2>2 DEF Open, Respond, At, SInv, IInv, Typed, CachesFit
    <3> QED BY <2>2, <3>1, OpenKeepsFit, RespondKeepsFit DEF SInv
  <2>3. ASSUME NEW d \in Process, Stop(d) \/ Crash(d) PROVE CachesFit'
    BY <2>3, StopKeepsFit, CrashKeepsFit DEF SInv
  <2>4. CachesFit'
    BY <1>3, <2>2, <2>3, OtherStepsKeepFit DEF SInv, Next, Calls, Serves, Lives
  <2> QED BY <1>1, <2>1, <2>4 DEF SInv
<1> QED BY <1>2, <1>3

LEMMA AlwaysSInv == Spec => []SInv
BY InitSInv, NextKeepsSInv, PTL DEF Spec

\* Types hold for any number of clients and daemons, and no daemon (startDaemonServer) has
\* more live connections than its cap.
THEOREM DaemonTyped == Spec => []TypeOK
<1>1. SInv => TypeOK
  <2> SUFFICES ASSUME SInv PROVE TypeOK
    OBVIOUS
  <2>1. ASSUME NEW d \in Process PROVE cache[d] \in Seq(Entries)
    <3> DEFINE q == cache[d]
    <3>1. q \in Seq(Handles) /\ \A i \in DOMAIN q : q[i].refs = Borrows(d)[q[i].store]
      BY DEF SInv, CachesFit, CacheOf
    <3> HIDE DEF q
    <3>2. \A i \in DOMAIN q : q[i] \in Entries
      <4> SUFFICES ASSUME NEW i \in DOMAIN q PROVE q[i] \in Entries
        OBVIOUS
      <4>1. q[i] \in Handles /\ q[i].store \in Store /\ q[i].refs \in Nat
        BY <3>1, HandlesOf
      <4>2. q[i].refs <= Cardinality(Client) /\ Cardinality(Client) \in Nat
        BY <3>1, <4>1, BorrowersCount DEF Borrows
      <4> QED BY <4>1, <4>2 DEF Handles, Entries
    <3>3. Len(q) \in Nat /\ DOMAIN q = 1 .. Len(q)
      BY <3>1, HandlesOf
    <3> HIDE DEF Entries
    <3>4. q \in Seq(Entries)
      BY <3>1, <3>2, <3>3
    <3> QED BY <3>4 DEF q
  <2> QED BY <2>1 DEF SInv, IInv, Typed, Phases, CachesFit, ConnectionsFit, TypeOK
<1> QED BY <1>1, AlwaysSInv, PTL

\* However requests open and close databases, and daemons stop and crash: no handle is
\* closed under a request (evictLruIfNeeded, releaseCachedDatabase), each is counted once
\* for each request, and the cache is over its capacity only while all of it is borrowed.
THEOREM CachesSound == Spec => []CacheSound
<1>1. SInv => CacheSound
  <2> SUFFICES ASSUME SInv, NEW d \in Process
               PROVE  /\ \A s \in Store :
                            /\ Cardinality(Positions(cache[d], s)) <= 1
                            /\ Borrowers(d, s) # {} => Positions(cache[d], s) # {}
                            /\ \A n \in Positions(cache[d], s) :
                                  cache[d][n].refs = Cardinality(Borrowers(d, s))
                      /\ Len(cache[d]) > Capacity => \A n \in DOMAIN cache[d] : ~Idle(cache[d][n])
    BY DEF CacheSound
  <2> DEFINE q == cache[d]
  <2>1. CacheOf(q, Borrows(d)) /\ Bounded(q)
    BY DEF SInv, CachesFit
  <2> HIDE DEF q
  <2>2. Len(q) > Capacity => \A n \in DOMAIN q : ~Idle(q[n])
    BY <2>1 DEF Bounded, IdleIn
  <2>3. ASSUME NEW s \in Store
        PROVE  /\ Cardinality(Positions(q, s)) <= 1
               /\ Borrowers(d, s) # {} => Positions(q, s) # {}
               /\ \A n \in Positions(q, s) : q[n].refs = Cardinality(Borrowers(d, s))
    <3>1. Positions(q, s) = {} \/ \E n : Positions(q, s) = {n}
      BY <2>1 DEF CacheOf, Positions
    <3>2. Cardinality(Positions(q, s)) <= 1
      <4>1. CASE Positions(q, s) = {}
        BY <4>1, FS_EmptySet
      <4>2. CASE \E n : Positions(q, s) = {n}
        <5>1. PICK n : Positions(q, s) = {n}
          BY <4>2
        <5>2. Cardinality({n}) = 1
          BY FS_Singleton
        <5> QED BY <5>1, <5>2
      <4> QED BY <3>1, <4>1, <4>2
    <3>3. Borrows(d)[s] = Cardinality(Borrowers(d, s))
      BY DEF Borrows
    <3> QED BY <2>1, <3>2, <3>3, BorrowersCount DEF CacheOf, Positions
  <2> QED BY <2>2, <2>3 DEF q
<1> QED BY <1>1, AlwaysSInv, PTL
=============================================================================
