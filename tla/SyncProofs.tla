----------------------------- MODULE SyncProofs -----------------------------
(***************************************************************************)
(* For any number of worktrees, pulls and entities and any size of a       *)
(* batch: no pull passes over an event; the tables stay well formed; and   *)
(* what one transaction of a pull may do, shown by counting up through the *)
(* events of its batch (UpTo, ReplayingSteps): it spares what the own      *)
(* branch has touched, lets cascades wait with their cause, asks nothing   *)
(* again that the user has decided, and loses no value unnoticed.  A       *)
(* resolution that was asked about settles what was shown.                 *)
(*                                                                         *)
(* IInv is what NothingSkipped needs and TablesFit, which contains it,     *)
(* what all the other theorems do.                                         *)
(***************************************************************************)
EXTENDS Sync, FiniteSetTheorems, SequenceTheorems, WellFoundedInduction, TLAPS

----------------------------------------------------------------------------
(* Sets of naturals and sequences *)

\* A set of positive numbers up to n that is not empty has a largest one, which is Max.
LEMMA MaxOfBounded ==
    ASSUME NEW n \in Nat, NEW S, S \subseteq 1 .. n, S # {}
    PROVE  Max(S) \in S /\ \A y \in S : y <= Max(S)
<1> DEFINE T == {k \in Nat : \E x \in S : k = n - x}
           Less == OpToRel(<, Nat)
<1>1. T \subseteq Nat /\ T # {}
  <2>1. PICK x \in S : TRUE
    OBVIOUS
  <2>2. n - x \in Nat
    BY <2>1
  <2> QED BY <2>1, <2>2
<1>2. PICK k \in T : \A y \in T : ~(<<y, k>> \in Less)
  <2> HIDE DEF T, Less
  <2>1. IsWellFoundedOn(Less, Nat)
    BY NatLessThanWellFounded DEF Less
  <2> QED BY <1>1, <2>1, WFMin
<1>3. \A y \in T : ~(y < k)
  BY <1>2 DEF OpToRel
<1>4. PICK m \in S : k = n - m
  BY <1>2
<1>5. \A y \in S : m >= y
  <2> SUFFICES ASSUME NEW y \in S PROVE m >= y
    OBVIOUS
  <2>1. n - y \in T
    OBVIOUS
  <2> QED BY <2>1, <1>3, <1>4
<1>6. Max(S) \in S /\ \A y \in S : Max(S) >= y
  BY <1>4, <1>5 DEF Max
<1> QED BY <1>6

\* Appending keeps what is there.
LEMMA AppendKeeps ==
    ASSUME NEW s, s \in Seq(ToSet(s)), NEW S, NEW t \in Seq(S)
    PROVE  /\ s \o t \in Seq(ToSet(s \o t))
           /\ Len(s) \in Nat /\ Len(s) <= Len(s \o t)
           /\ DOMAIN s = 1 .. Len(s) /\ DOMAIN (s \o t) = 1 .. Len(s \o t)
           /\ \A i \in 1 .. Len(s) : (s \o t)[i] = s[i]
<1> DEFINE U == ToSet(s) \cup S
<1>1. s \in Seq(U) /\ t \in Seq(U)
  BY SeqMonotonic
<1> HIDE DEF U
<1>2. /\ s \o t \in Seq(U)
      /\ Len(s \o t) = Len(s) + Len(t)
      /\ \A i \in 1 .. Len(s) + Len(t) :
            (s \o t)[i] = IF i <= Len(s) THEN s[i] ELSE t[i - Len(s)]
  BY <1>1, ConcatProperties
<1>3. Len(s) \in Nat /\ Len(t) \in Nat /\ DOMAIN s = 1 .. Len(s)
  BY <1>1
<1>4. DOMAIN (s \o t) = 1 .. Len(s \o t)
  BY <1>2
<1>5. s \o t \in Seq(ToSet(s \o t))
  <2> DEFINE r == s \o t
  <2>1. r \in Seq(U) /\ Len(r) \in Nat /\ DOMAIN r = 1 .. Len(r)
    BY <1>2, <1>3, <1>4
  <2>2. \A i \in 1 .. Len(r) : r[i] \in ToSet(r)
    BY <2>1 DEF ToSet
  <2> HIDE DEF r
  <2>3. r = [i \in 1 .. Len(r) |-> r[i]]
    BY <2>1
  <2>4. r \in [1 .. Len(r) -> ToSet(r)]
    BY <2>2, <2>3
  <2>5. r \in Seq(ToSet(r))
    BY <2>1, <2>4
  <2> QED BY <2>5 DEF r
<1> QED BY <1>2, <1>3, <1>4, <1>5

----------------------------------------------------------------------------
(* The inductive invariant *)

LogIsSequence == log \in Seq(ToSet(log))

\* What the cursors, the histories and the pulls point to is in the log.
PointersValid ==
    /\ cursor \in [Worktrees -> [Worktrees -> 0 .. Len(log)]]
    /\ replayed \in [Worktrees -> SUBSET Nat]
    /\ pull \in [Pullers -> Pulls \cup {Idle}]

\* Nor has the position of a running pull passed an event, though it may be behind the
\* cursor or ahead of it.
PullsSkipNothing ==
    \A p \in Pullers : pull[p] # Idle =>
        \A i \in 1 .. pull[p].at : log[i].by = pull[p].src => i \in replayed[In[p]]

\* A batch that was read has all events of its branch from its position to its end.
BatchesHaveNoGap ==
    \A p \in Pullers : pull[p] # Idle =>
        \A j \in pull[p].batch : \A i \in 1 .. j :
            i > pull[p].at /\ log[i].by = pull[p].src => i \in pull[p].batch

IInv ==
    /\ LogIsSequence
    /\ PointersValid
    /\ NoEventSkipped
    /\ PullsSkipNothing
    /\ BatchesHaveNoGap

\* The log has only been appended to.
LogGrows ==
    /\ LogIsSequence'
    /\ Len(log) \in Nat /\ Len(log)' \in Nat /\ Len(log) <= Len(log)'
    /\ DOMAIN log = 1 .. Len(log) /\ (DOMAIN log)' = 1 .. Len(log)'
    /\ \A i \in 1 .. Len(log) : log'[i] = log[i]

LEMMA LogLength ==
    ASSUME LogIsSequence
    PROVE  Len(log) \in Nat /\ DOMAIN log = 1 .. Len(log)
BY DEF LogIsSequence

LEMMA InitIInv == Init => IInv
<1> SUFFICES ASSUME Init PROVE IInv
  OBVIOUS
<1>1. PICK F : log = [i \in DOMAIN Past |-> F[i]]
  <2>1. PICK c \in [Entities -> Contents(Required \cup Optional)] :
            log = [i \in DOMAIN Past |-> Event(Origin, "created", Past[i], c[Past[i]], 0)]
    BY DEF Init
  <2> DEFINE G == [i \in DOMAIN Past |-> Event(Origin, "created", Past[i], c[Past[i]], 0)]
  <2>2. log = [i \in DOMAIN Past |-> G[i]]
    BY <2>1
  <2> HIDE DEF G
  <2> QED BY <2>2
<1>2. DOMAIN Past = 1 .. Len(Past) /\ Len(Past) \in Nat
  BY PastAssumption
<1>3. LogIsSequence
  <2>1. \A i \in 1 .. Len(Past) : log[i] \in ToSet(log)
    BY <1>1, <1>2 DEF ToSet
  <2>2. log = [i \in 1 .. Len(Past) |-> log[i]]
    BY <1>1, <1>2
  <2>3. log \in [1 .. Len(Past) -> ToSet(log)]
    BY <2>1, <2>2
  <2> QED BY <2>3, <1>2 DEF LogIsSequence
<1>4. Len(log) \in Nat
  BY <1>3, LogLength
<1>5. \A p \in Pullers : pull[p] = Idle
  BY DEF Init
<1>6. PointersValid
  BY <1>4 DEF Init, PointersValid
<1>7. NoEventSkipped
  BY DEF Init, NoEventSkipped
<1> QED BY <1>3, <1>5, <1>6, <1>7 DEF IInv, PullsSkipNothing, BatchesHaveNoGap

----------------------------------------------------------------------------
(* Commands and resolutions append to the log; what the invariant says of it lasts. *)

LEMMA AppendGrows ==
    ASSUME LogIsSequence, NEW S, NEW events \in Seq(S), AppendEvents(events)
    PROVE  LogGrows
<1>1. log' = log \o events
  BY DEF AppendEvents
<1> QED BY <1>1, AppendKeeps DEF LogIsSequence, LogGrows

\* A list of distinct members is a sequence.
LEMMA ListingsAreSequences ==
    ASSUME NEW S, NEW s \in Listings(S)
    PROVE  \E n \in Nat : DOMAIN s = 1 .. n
BY DEF Listings, SeqOf

LEMMA GrowthKeepsIInv ==
    ASSUME IInv, LogGrows, UNCHANGED <<cursor, pull, replayed>>
    PROVE  IInv'
<1>1. Len(log) \in Nat /\ Len(log)' \in Nat /\ 0 .. Len(log) \subseteq 0 .. Len(log)'
  BY DEF LogGrows
<1>2. DOMAIN log \subseteq DOMAIN log'
  BY DEF LogGrows
<1>3. PointersValid'
  <2>1. \A m \in Pulls : m \in Pulls'
    BY <1>1, <1>2 DEF Pulls
  <2>2. cursor' \in [Worktrees -> [Worktrees -> 0 .. Len(log)']]
    BY <1>1 DEF IInv, PointersValid
  <2> QED BY <2>1, <2>2 DEF IInv, PointersValid
<1>4. \A w, src \in Worktrees : \A i \in 1 .. cursor[w][src] : log'[i] = log[i]
  BY <1>1 DEF IInv, PointersValid, LogGrows
<1>5. NoEventSkipped'
  BY <1>4 DEF IInv, NoEventSkipped
<1>6. ASSUME NEW p \in Pullers, pull[p] # Idle
      PROVE  /\ \A i \in 1 .. pull[p].at : log'[i] = log[i]
             /\ \A j \in pull[p].batch : \A i \in 1 .. j : log'[i] = log[i]
  <2>1. pull[p] \in Pulls
    BY <1>6 DEF IInv, PointersValid
  <2> QED BY <2>1 DEF Pulls, LogGrows
<1>7. PullsSkipNothing'
  BY <1>6 DEF IInv, PullsSkipNothing
<1>8. BatchesHaveNoGap'
  BY <1>6 DEF IInv, BatchesHaveNoGap
<1> QED BY <1>3, <1>5, <1>7, <1>8 DEF IInv, LogGrows

\* A step that appends: of a command or a resolution.
LEMMA CommandKeepsIInv ==
    ASSUME IInv, NEW w \in Worktrees,
           \/ \E e \in Entities, c \in Contents(Required \cup Optional) : Create(w, e, c)
           \/ \E e \in Entities, f \in Fields : \E v \in ColumnValues(f) : Update(w, e, f, v)
           \/ \E e \in Entities : Delete(w, e)
           \/ \E d \in Edges : AddDependency(w, d) \/ RemoveDependency(w, d)
           \/ \E choice \in {"ours", "theirs"} : \E C \in SUBSET PendingOf(w) : Resolve(w, C, choice)
    PROVE  IInv'
<1>1. LogIsSequence
  BY DEF IInv
<1>2. ASSUME NEW x, AppendEvents(<<x>>) PROVE LogGrows
  <2>1. <<x>> \in Seq({x})
    OBVIOUS
  <2> QED BY <1>1, <1>2, <2>1, AppendGrows
<1>3. ASSUME NEW S, NEW s \in Listings(S), NEW x, DOMAIN x = DOMAIN s,
             x = [i \in DOMAIN x |-> x[i]], AppendEvents(x)
      PROVE  LogGrows
  <2>1. PICK n \in Nat : DOMAIN x = 1 .. n
    BY <1>3, ListingsAreSequences
  <2>2. x \in [1 .. n -> ToSet(x)]
    BY <2>1, <1>3 DEF ToSet
  <2>3. x \in Seq(ToSet(x))
    BY <2>2
  <2> QED BY <1>1, <1>3, <2>3, AppendGrows
<1>4. CASE \E e \in Entities, c \in Contents(Required \cup Optional) : Create(w, e, c)
  <2>1. LogGrows
    BY <1>4, <1>2 DEF Create
  <2> QED BY <1>4, <2>1, GrowthKeepsIInv DEF Create
<1>5. CASE \E e \in Entities, f \in Fields : \E v \in ColumnValues(f) : Update(w, e, f, v)
  <2>1. LogGrows
    BY <1>5, <1>2 DEF Update
  <2> QED BY <1>5, <2>1, GrowthKeepsIInv DEF Update
<1>6. CASE \E e \in Entities : Delete(w, e)
  <2>1. PICK e \in Entities : Delete(w, e)
    BY <1>6
  <2>2. PICK order \in DeleteOrders(e) :
            AppendEvents([i \in DOMAIN order |-> CascadeEvent(w, order, i)])
    BY <2>1 DEF Delete
  <2>3. order \in Listings({x \in Below(e) : Live(row, x)} \cup Touching(deps, Below(e)))
    BY <2>2 DEF DeleteOrders
  <2>4. LogGrows
    BY <2>2, <2>3, <1>3
  <2> QED BY <2>1, <2>4, GrowthKeepsIInv DEF Delete
<1>7. CASE \E choice \in {"ours", "theirs"} : \E C \in SUBSET PendingOf(w) : Resolve(w, C, choice)
  <2>1. PICK choice, C : Resolve(w, C, choice)
    BY <1>7
  <2>2. PICK order \in Listings(C) :
            AppendEvents([k \in DOMAIN order |->
                Event(w, "resolve_conflict", log[order[k].event].ent, NoFields, 0)])
    BY <2>1 DEF Resolve
  <2>3. LogGrows
    BY <2>2, <1>3
  <2> QED BY <2>1, <2>3, GrowthKeepsIInv DEF Resolve
<1>8. CASE \E d \in Edges : AddDependency(w, d) \/ RemoveDependency(w, d)
  <2>1. LogGrows
    BY <1>8, <1>2 DEF AddDependency, RemoveDependency
  <2> QED BY <1>8, <2>1, GrowthKeepsIInv DEF AddDependency, RemoveDependency
<1> QED BY <1>4, <1>5, <1>6, <1>7, <1>8

----------------------------------------------------------------------------
(* Pulls *)

\* Where all stays as it is but the pull of one process, the invariant needs only be shown
\* of that pull.
OnlyPullOf(p) ==
    /\ UNCHANGED <<log, cursor, replayed>>
    /\ pull' = [pull EXCEPT ![p] = pull'[p]]

LEMMA OnePullChanges ==
    ASSUME IInv, NEW p \in Pullers, OnlyPullOf(p),
           pull'[p] \in Pulls \cup {Idle},
           pull'[p] # Idle =>
               /\ \A i \in 1 .. pull'[p].at : log[i].by = pull'[p].src => i \in replayed[In[p]]
               /\ \A j \in pull'[p].batch : \A i \in 1 .. j :
                     i > pull'[p].at /\ log[i].by = pull'[p].src => i \in pull'[p].batch
    PROVE  IInv'
<1>1. /\ log' = log /\ cursor' = cursor /\ replayed' = replayed
      /\ \A q \in Pullers : q # p => pull'[q] = pull[q]
      /\ pull' \in [Pullers -> Pulls \cup {Idle}]
  <2>1. pull \in [Pullers -> Pulls \cup {Idle}] /\ pull' = [pull EXCEPT ![p] = pull'[p]]
    BY DEF IInv, PointersValid, OnlyPullOf
  <2> HIDE DEF Pulls, Idle
  <2>2. pull' \in [Pullers -> Pulls \cup {Idle}]
    BY <2>1
  <2>3. \A q \in Pullers : q # p => pull'[q] = pull[q]
    BY <2>1
  <2> QED BY <2>2, <2>3 DEF OnlyPullOf
<1>2. Pulls' = Pulls
  BY <1>1 DEF Pulls
<1>3. LogIsSequence' /\ PointersValid' /\ NoEventSkipped'
  BY <1>1, <1>2 DEF IInv, LogIsSequence, PointersValid, NoEventSkipped
<1>4. PullsSkipNothing'
  BY <1>1 DEF IInv, PullsSkipNothing
<1>5. BatchesHaveNoGap'
  BY <1>1 DEF IInv, BatchesHaveNoGap
<1> QED BY <1>3, <1>4, <1>5 DEF IInv

LEMMA PullStartKeepsIInv ==
    ASSUME IInv, NEW p \in Pullers, NEW src \in Worktrees, PullStart(p, src)
    PROVE  IInv'
<1>1. /\ Len(log) \in Nat /\ In[p] \in Worktrees
      /\ cursor[In[p]][src] \in 0 .. Len(log)
  BY LogLength, WorktreesAssumption DEF IInv, PointersValid
<1>2. pull'[p] = [src |-> src, at |-> cursor[In[p]][src], batch |-> {}, start |-> Len(log)]
  BY DEF PullStart, IInv, PointersValid
<1>3. pull'[p] \in Pulls
  BY <1>1, <1>2 DEF Pulls
<1>4. OnlyPullOf(p)
  BY <1>2 DEF PullStart, OnlyPullOf
<1>5. \A i \in 1 .. pull'[p].at : log[i].by = pull'[p].src => i \in replayed[In[p]]
  BY <1>1, <1>2 DEF IInv, NoEventSkipped
<1>6. pull'[p].batch = {}
  BY <1>2
<1> QED BY <1>3, <1>4, <1>5, <1>6, OnePullChanges

LEMMA PullEndsKeepsIInv ==
    ASSUME IInv, NEW p \in Pullers, PullEnds(p), UNCHANGED <<log, cursor, replayed>>
    PROVE  IInv'
<1>1. pull'[p] = Idle
  BY DEF PullEnds, IInv, PointersValid
<1>2. OnlyPullOf(p)
  BY <1>1 DEF PullEnds, OnlyPullOf
<1> QED BY <1>1, <1>2, OnePullChanges

\* A batch is the beginning of the backlog.
LEMMA NextBatchHasNoGap ==
    ASSUME LogIsSequence, NEW p, NEW j \in NextBatch(p), NEW i \in Backlog(p), i <= j
    PROVE  i \in NextBatch(p)
<1> DEFINE Until(k) == {x \in Backlog(p) : x <= k}
<1>1. Len(log) \in Nat /\ Backlog(p) \subseteq 1 .. Len(log)
  BY LogLength DEF Backlog
<1>2. IsFiniteSet(1 .. Len(log))
  BY <1>1, FS_Interval
<1>3. IsFiniteSet(Until(j)) /\ IsFiniteSet(Until(i))
  BY <1>1, <1>2, FS_Subset
<1>4. j \in Backlog(p) /\ Cardinality(Until(j)) <= BatchSize
  BY DEF NextBatch
<1>5. Until(i) \in SUBSET Until(j)
  BY <1>1, <1>4
<1>6. Cardinality(Until(i)) <= Cardinality(Until(j))
  BY <1>3, <1>5, FS_Subset
<1>7. Cardinality(Until(i)) \in Nat /\ Cardinality(Until(j)) \in Nat
  BY <1>3, FS_CardinalityType
<1>8. Cardinality(Until(i)) <= BatchSize
  <2> HIDE DEF Until
  <2> QED BY <1>4, <1>6, <1>7, BoundsAssumption
<1> QED BY <1>8 DEF NextBatch

LEMMA PullReadKeepsIInv ==
    ASSUME IInv, NEW p \in Pullers, PullRead(p)
    PROVE  IInv'
<1>1. CASE NextBatch(p) = {}
  <2>1. PullEnds(p) /\ UNCHANGED <<log, cursor, replayed>>
    BY <1>1 DEF PullRead
  <2> QED BY <2>1, PullEndsKeepsIInv
<1>2. CASE NextBatch(p) # {}
  <2>1. /\ pull' = [pull EXCEPT ![p].batch = NextBatch(p)]
        /\ pull[p] # Idle
        /\ UNCHANGED <<log, cursor, replayed>>
    BY <1>2 DEF PullRead
  <2>2. pull[p] \in Pulls
    BY <2>1 DEF IInv, PointersValid
  <2>3. /\ pull'[p].src = pull[p].src /\ pull'[p].at = pull[p].at
        /\ pull'[p].batch = NextBatch(p)
        /\ pull'[p] \in Pulls
        /\ OnlyPullOf(p)
    <3>1. DOMAIN pull = Pullers
      BY DEF IInv, PointersValid
    <3>2. NextBatch(p) \subseteq DOMAIN log
      BY DEF NextBatch, Backlog
    <3>3. pull'[p] = [pull[p] EXCEPT !.batch = NextBatch(p)]
      BY <2>1, <3>1
    <3>4. OnlyPullOf(p)
      BY <2>1, <3>3 DEF OnlyPullOf
    <3> QED BY <3>2, <3>3, <3>4, <2>2 DEF Pulls
  <2>4. \A i \in 1 .. pull'[p].at : log[i].by = pull'[p].src => i \in replayed[In[p]]
    BY <2>1, <2>3 DEF IInv, PullsSkipNothing
  <2>5. ASSUME NEW j \in NextBatch(p), NEW i \in 1 .. j,
               i > pull[p].at, log[i].by = pull[p].src
        PROVE  i \in NextBatch(p)
    <3>1. Len(log) \in Nat /\ DOMAIN log = 1 .. Len(log) /\ j \in DOMAIN log
      BY LogLength DEF IInv, NextBatch, Backlog
    <3>2. i \in Backlog(p) /\ i <= j
      BY <3>1, <2>5 DEF Backlog
    <3> QED BY <3>2, NextBatchHasNoGap DEF IInv
  <2>6. \A j \in pull'[p].batch : \A i \in 1 .. j :
            i > pull'[p].at /\ log[i].by = pull'[p].src => i \in pull'[p].batch
    BY <2>3, <2>5
  <2> QED BY <2>3, <2>4, <2>6, OnePullChanges
<1> QED BY <1>1, <1>2

\* The commit of a batch, whatever its events did to the rows.
LEMMA CommitKeepsIInv ==
    ASSUME IInv, NEW p \in Pullers, pull[p] # Idle, pull[p].batch # {},
           NEW found, Commit(p, found)
    PROVE  IInv'
<1> DEFINE m == pull[p]
           w == In[p]
           last == Max(m.batch)
<1>1. /\ Len(log) \in Nat /\ DOMAIN log = 1 .. Len(log)
      /\ m \in Pulls /\ w \in Worktrees /\ m.src \in Worktrees
  BY LogLength, WorktreesAssumption DEF IInv, PointersValid, Pulls
<1>2. m.batch \subseteq 1 .. Len(log) /\ m.at \in 0 .. Len(log)
  BY <1>1 DEF Pulls
<1>3. last \in m.batch /\ last \in 0 .. Len(log)
  BY <1>1, <1>2, MaxOfBounded
<1>4. /\ cursor' = [cursor EXCEPT ![w][m.src] = last]
      /\ replayed' = [replayed EXCEPT ![w] = @ \cup m.batch]
      /\ log' = log
  BY DEF Commit
<1>5. \/ pull' = [pull EXCEPT ![p] = Idle]
      \/ pull' = [pull EXCEPT ![p] = [m EXCEPT !.at = last, !.batch = {}]]
  BY DEF Commit, PullEnds
<1> HIDE DEF last
<1>6. \A i \in 1 .. last : log[i].by = m.src => i \in replayed'[w]
  <2> SUFFICES ASSUME NEW i \in 1 .. last, log[i].by = m.src PROVE i \in replayed'[w]
    OBVIOUS
  <2>1. replayed'[w] = replayed[w] \cup m.batch
    BY <1>1, <1>4 DEF IInv, PointersValid
  <2>2. CASE i <= m.at
    BY <2>1, <2>2, <1>2, <1>3 DEF IInv, PullsSkipNothing
  <2>3. CASE i > m.at
    BY <2>1, <2>3, <1>3 DEF IInv, BatchesHaveNoGap
  <2> QED BY <2>2, <2>3, <1>2, <1>3
<1>7. \A v \in Worktrees : replayed[v] \subseteq replayed'[v]
  BY <1>1, <1>4 DEF IInv, PointersValid
<1>8. \A q \in Pullers : q # p => pull'[q] = pull[q]
  BY <1>5 DEF IInv, PointersValid
<1>9. /\ pull' \in [Pullers -> Pulls \cup {Idle}]
      /\ pull'[p] # Idle => pull'[p].src = m.src /\ pull'[p].at = last /\ pull'[p].batch = {}
  <2> DEFINE next == [m EXCEPT !.at = last, !.batch = {}]
  <2>1. next \in Pulls /\ next.src = m.src /\ next.at = last /\ next.batch = {}
    BY <1>1, <1>3 DEF Pulls
  <2>2. pull \in [Pullers -> Pulls \cup {Idle}]
    BY DEF IInv, PointersValid
  <2>3. pull' = [pull EXCEPT ![p] = Idle] \/ pull' = [pull EXCEPT ![p] = next]
    BY <1>5
  <2> HIDE DEF next, m
  <2> QED BY <2>1, <2>2, <2>3
<1>10. LogIsSequence'
  BY <1>4 DEF IInv, LogIsSequence
<1>11. PointersValid'
  <2>1. Pulls' = Pulls
    BY <1>4 DEF Pulls
  <2>2. cursor' \in [Worktrees -> [Worktrees -> 0 .. Len(log)]]
    BY <1>1, <1>3, <1>4 DEF IInv, PointersValid
  <2>3. replayed' \in [Worktrees -> SUBSET Nat]
    BY <1>1, <1>2, <1>4 DEF IInv, PointersValid
  <2> QED BY <2>1, <2>2, <2>3, <1>4, <1>9 DEF PointersValid
<1>12. NoEventSkipped'
  <2> SUFFICES ASSUME NEW v \in Worktrees, NEW src \in Worktrees,
                      NEW i \in 1 .. cursor'[v][src], log[i].by = src
               PROVE  i \in replayed'[v]
    BY <1>4 DEF NoEventSkipped
  <2>1. CASE v = w /\ src = m.src
    <3>1. cursor'[v][src] = last
      BY <2>1, <1>1, <1>4 DEF IInv, PointersValid
    <3> QED BY <3>1, <2>1, <1>6
  <2>2. CASE ~(v = w /\ src = m.src)
    <3>1. cursor'[v][src] = cursor[v][src]
      BY <2>2, <1>1, <1>4 DEF IInv, PointersValid
    <3> QED BY <3>1, <1>7 DEF IInv, NoEventSkipped
  <2> QED BY <2>1, <2>2
<1>13. PullsSkipNothing'
  <2> SUFFICES ASSUME NEW q \in Pullers, pull'[q] # Idle,
                      NEW i \in 1 .. pull'[q].at, log[i].by = pull'[q].src
               PROVE  i \in replayed'[In[q]]
    BY <1>4 DEF PullsSkipNothing
  <2>1. CASE q = p
    BY <2>1, <1>6, <1>9
  <2>2. CASE q # p
    <3>1. pull'[q] = pull[q] /\ In[q] \in Worktrees
      BY <2>2, <1>8, WorktreesAssumption
    <3> QED BY <3>1, <1>7 DEF IInv, PullsSkipNothing
  <2> QED BY <2>1, <2>2
<1>14. BatchesHaveNoGap'
  <2> SUFFICES ASSUME NEW q \in Pullers, pull'[q] # Idle,
                      NEW j \in pull'[q].batch, NEW i \in 1 .. j,
                      i > pull'[q].at, log[i].by = pull'[q].src
               PROVE  i \in pull'[q].batch
    BY <1>4 DEF BatchesHaveNoGap
  <2>1. q # p
    BY <1>9
  <2> QED BY <2>1, <1>8 DEF IInv, BatchesHaveNoGap
<1> QED BY <1>10, <1>11, <1>12, <1>13, <1>14 DEF IInv

----------------------------------------------------------------------------
(* All steps *)

\* The conflicts that are resolved were pending in the worktree.
LEMMA FilteredArePending ==
    ASSUME NEW w, NEW C \in Filtered(w)
    PROVE  C \in SUBSET PendingOf(w)
BY DEF Filtered, Matching

\* What a step does to the tables: a question touches none, and a confirmed one resolves
\* conflicts that are pending, as a command that lists and resolves at once does.
LEMMA TablesStep ==
    ASSUME [Next]_vars
    PROVE  \/ UNCHANGED tables
           \/ \E w \in Worktrees, e \in Entities :
                 \/ \E c \in Contents(Required \cup Optional) : Create(w, e, c)
                 \/ \E f \in Fields : \E v \in ColumnValues(f) : Update(w, e, f, v)
                 \/ Delete(w, e)
           \/ \E w \in Worktrees, d \in Edges : AddDependency(w, d) \/ RemoveDependency(w, d)
           \/ \E p \in Pullers :
                 \/ \E src \in Sources : PullStart(p, src)
                 \/ PullRead(p)
                 \/ PullBatch(p)
                 \/ PullSameBranch(p)
                 \/ PullDies(p)
           \/ \E w \in Worktrees, choice \in {"ours", "theirs"} :
                 \E C \in SUBSET PendingOf(w) : Resolve(w, C, choice)
<1>1. CASE UNCHANGED vars
  BY <1>1 DEF vars
<1>2. CASE Work
  BY <1>2, FilteredArePending DEF Work
<1>3. CASE \E w \in Askers : Ask(w) \/ Confirm(w) \/ Decline(w)
  <2>1. PICK w \in Askers : Ask(w) \/ Confirm(w) \/ Decline(w)
    BY <1>3
  <2>2. CASE Ask(w) \/ Decline(w)
    BY <2>2 DEF Ask, Decline
  <2>3. CASE Confirm(w)
    BY <2>3, WorktreesAssumption DEF Confirm
  <2> QED BY <2>1, <2>2, <2>3
<1> QED BY <1>1, <1>2, <1>3 DEF Next

LEMMA NextKeepsIInv == IInv /\ [Next]_vars => IInv'
<1> SUFFICES ASSUME IInv, [Next]_vars PROVE IInv'
  OBVIOUS
<1>1. CASE UNCHANGED tables
  BY <1>1 DEF tables, IInv, LogIsSequence, PointersValid, Pulls, NoEventSkipped,
              PullsSkipNothing, BatchesHaveNoGap
<1>2. CASE \E w \in Worktrees, e \in Entities :
              \/ \E c \in Contents(Required \cup Optional) : Create(w, e, c)
              \/ \E f \in Fields : \E v \in ColumnValues(f) : Update(w, e, f, v)
              \/ Delete(w, e)
  BY <1>2, CommandKeepsIInv
<1>3. CASE \E w \in Worktrees, choice \in {"ours", "theirs"} :
              \E C \in SUBSET PendingOf(w) : Resolve(w, C, choice)
  BY <1>3, CommandKeepsIInv
<1>4. CASE \E w \in Worktrees, d \in Edges : AddDependency(w, d) \/ RemoveDependency(w, d)
  BY <1>4, CommandKeepsIInv
<1>5. ASSUME NEW p \in Pullers, NEW src \in Sources, PullStart(p, src) PROVE IInv'
  BY <1>5, PullStartKeepsIInv, WorktreesAssumption
<1>6. ASSUME NEW p \in Pullers, PullRead(p) PROVE IInv'
  BY <1>6, PullReadKeepsIInv
<1>7. ASSUME NEW p \in Pullers, PullBatch(p) PROVE IInv'
  <2>1. pull[p] # Idle /\ pull[p].batch # {} /\ \E found : Commit(p, found)
    BY <1>7 DEF PullBatch
  <2> QED BY <2>1, CommitKeepsIInv
<1>8. ASSUME NEW p \in Pullers, PullSameBranch(p) PROVE IInv'
  <2>1. pull[p] # Idle /\ pull[p].batch # {} /\ Commit(p, ours[p])
    BY <1>8 DEF PullSameBranch
  <2> QED BY <2>1, CommitKeepsIInv
<1>9. ASSUME NEW p \in Pullers, PullDies(p) PROVE IInv'
  BY <1>9, PullEndsKeepsIInv DEF PullDies
<1> QED BY <1>1, <1>2, <1>3, <1>4, <1>5, <1>6, <1>7, <1>8, <1>9, TablesStep

\* A worktree has replayed every event of a branch up to its cursor for that branch
\* (runPull, replayPullBatch, saveCursor), however pulls overlap, die or are overtaken by
\* new events.
THEOREM NothingSkipped == Spec => []NoEventSkipped
<1>1. Spec => []IInv
  BY InitIInv, NextKeepsIInv, PTL DEF Spec
<1>2. IInv => NoEventSkipped
  BY DEF IInv
<1> QED BY <1>1, <1>2, PTL

\* Counting up from 0 reaches every number up to n.
LEMMA UpTo ==
    ASSUME NEW n \in Nat, NEW T, 0 \in T, \A k \in 1 .. n : k - 1 \in T => k \in T
    PROVE  \A k \in 0 .. n : k \in T
<1> DEFINE Bad == {k \in 0 .. n : k \notin T}
           Less == OpToRel(<, Nat)
<1> SUFFICES ASSUME Bad # {} PROVE FALSE
  OBVIOUS
<1>1. PICK k \in Bad : \A y \in Bad : ~(<<y, k>> \in Less)
  <2>1. IsWellFoundedOn(Less, Nat)
    BY NatLessThanWellFounded DEF Less
  <2>2. Bad \subseteq Nat
    OBVIOUS
  <2> HIDE DEF Bad, Less
  <2> QED BY <2>1, <2>2, WFMin
<1>2. \A y \in Bad : ~(y < k)
  <2>1. Bad \subseteq Nat
    OBVIOUS
  <2> HIDE DEF Bad
  <2> QED BY <1>1, <2>1 DEF OpToRel
<1>3. k - 1 \in Bad /\ k - 1 < k
  OBVIOUS
<1> HIDE DEF Bad
<1> QED BY <1>2, <1>3

\* Replaying a batch: the state before it, then one event of the batch after the other.
LEMMA ReplayingSteps ==
    ASSUME LogIsSequence, NEW p
    PROVE  /\ Replaying(p)[0] =
                 [row |-> row, deps |-> deps, conflicts |-> conflicts, ours |-> ours[p]]
           /\ \A i \in 1 .. Len(log) :
                 Replaying(p)[i] = IF i \in pull[p].batch
                                   THEN Replay(Replaying(p)[i - 1], In[p], i)
                                   ELSE Replaying(p)[i - 1]
<1> DEFINE before == [row |-> row, deps |-> deps, conflicts |-> conflicts, ours |-> ours[p]]
           Step(s, i) == IF i \in pull[p].batch THEN Replay(s, In[p], i) ELSE s
           Steps(g, n) == g = [i \in 0 .. n |-> IF i = 0 THEN before ELSE Step(g[i - 1], i)]
           T == {n \in 0 .. Len(log) : \E g : Steps(g, n)}
<1>1. Len(log) \in Nat
  BY LogLength
<1> HIDE DEF before, Step
<1>2. 0 \in T
  <2>1. Steps([i \in 0 .. 0 |-> before], 0)
    OBVIOUS
  <2>2. \E g : Steps(g, 0)
    BY <2>1
  <2> HIDE DEF Steps
  <2> QED BY <1>1, <2>2
<1>3. ASSUME NEW k \in 1 .. Len(log), k - 1 \in T PROVE k \in T
  <2>1. PICK g : Steps(g, k - 1)
    BY <1>3
  <2> DEFINE h == [i \in 0 .. k |-> IF i < k THEN g[i] ELSE Step(g[k - 1], k)]
  <2>2. Steps(h, k)
    <3>1. ASSUME NEW i \in 0 .. k
          PROVE  h[i] = IF i = 0 THEN before ELSE Step(h[i - 1], i)
      <4>1. CASE i < k
        BY <4>1, <2>1, <1>1
      <4>2. CASE i = k
        BY <4>2, <1>1
      <4> QED BY <4>1, <4>2
    <3> HIDE DEF h
    <3>2. h = [i \in 0 .. k |-> h[i]]
      BY DEF h
    <3> QED BY <3>1, <3>2
  <2> HIDE DEF Steps, h
  <2> QED BY <2>2
<1>4. Len(log) \in T
  <2>1. \A k \in 1 .. Len(log) : k - 1 \in T => k \in T
    BY <1>3
  <2> HIDE DEF T
  <2>2. \A k \in 0 .. Len(log) : k \in T
    BY <1>1, <1>2, <2>1, UpTo
  <2> QED BY <1>1, <2>2
<1>5. Replaying(p) = CHOOSE g : Steps(g, Len(log))
  BY DEF Replaying, Step, before
<1>6. Steps(Replaying(p), Len(log))
  <2> HIDE DEF Steps
  <2> QED BY <1>4, <1>5
<1> HIDE DEF Steps
<1>7. /\ Replaying(p)[0] = before
      /\ \A i \in 1 .. Len(log) : Replaying(p)[i] = Step(Replaying(p)[i - 1], i)
  BY <1>1, <1>6 DEF Steps
<1> QED BY <1>7 DEF Step, before

----------------------------------------------------------------------------
(* What the tables may hold *)

Rows == [Entities -> Contents(Fields) \cup {Absent}]

RowsHaveParents(rows) == \A x \in Entities : Live(rows, x) => ParentLive(rows, x)

\* A dependency has both its ends, as long as no epic was deleted.
EndsLive(rows, D) ==
    \/ \A d \in D : Live(rows, d[1]) /\ Live(rows, d[2])
    \/ \E i \in DOMAIN log : log[i].op = "deleted" /\ log[i].ent \in Epics

\* A conflict is about a deletion or about a field that its event has; what could not be
\* applied at all is not for the user to resolve.
ConflictFits(c) ==
    /\ c.event \in DOMAIN log
    /\ c.field = "__delete__" => log[c.event].op \in {"deleted", "removed"}
    /\ c.field \in Fields => c.field \in DOMAIN log[c.event].fields
    /\ c.field = "__apply__" => c.resolution = "invalid"

SameKey(c, d) == c.event = d.event /\ c.field = d.field /\ c.scope = d.scope

\* There is one conflict for a field of an event in a worktree.
OnePerField(C) == \A c, d \in C : SameKey(c, d) => c = d

RowsFit(rows, D) ==
    /\ rows \in Rows
    /\ D \subseteq Edges
    /\ RowsHaveParents(rows)
    /\ EndsLive(rows, D)

ConflictsFit(C) ==
    /\ C \subseteq Conflicts
    /\ \A c \in C : ConflictFits(c)
    /\ OnePerField(C)

\* The kinds of events are about what they can be about; a creation is the first event of
\* its entity; what caused an event came before it.
EventFits(i) ==
    /\ log[i].op \in {"created", "updated", "deleted"} => log[i].ent \in Entities
    /\ log[i].op \in {"added", "removed"} => log[i].ent \in Edges
    /\ log[i].op \notin {"created", "updated"} => DOMAIN log[i].fields = {}
    /\ log[i].op = "created" => \A j \in 1 .. i - 1 : log[j].ent # log[i].ent
    /\ log[i].cause < i

LogFits ==
    /\ log \in Seq(Events)
    /\ Len(log) <= MaxEvents
    /\ \A i \in DOMAIN log : EventFits(i)

----------------------------------------------------------------------------
(* Parents and children *)

LEMMA ChildrenOf ==
    ASSUME NEW e \in Entities \cup Edges
    PROVE  /\ Children(e) \subseteq Items
           /\ e \in Epics => Children(e) \subseteq Tasks
           /\ e \in Tasks => Children(e) \subseteq Subtasks /\ Below(e) = {e} \cup Children(e)
           /\ e \in Subtasks \cup Edges => Children(e) = {} /\ Below(e) = {e}
<1>1. Edges \cap Entities = {}
  BY EdgesAssumption
<1>2. \A c \in DOMAIN Parent :
        /\ c \in Tasks => Parent[c] \in Epics
        /\ c \notin Tasks => c \in Subtasks /\ Parent[c] \in Tasks
  BY ParentAssumption
<1>3. /\ Epics \cap Tasks = {} /\ Tasks \cap Subtasks = {} /\ Epics \cap Subtasks = {}
      /\ DOMAIN Parent \subseteq Items
  BY ParentAssumption DEF Items
<1>4. /\ Children(e) \subseteq Items
      /\ e \in Epics => Children(e) \subseteq Tasks
      /\ e \in Tasks => Children(e) \subseteq Subtasks
      /\ e \in Subtasks \cup Edges => Children(e) = {}
  BY <1>1, <1>2, <1>3 DEF Children, Entities
<1>5. \A c \in Subtasks : Children(c) = {}
  BY <1>2, <1>3 DEF Children
<1>6. e \in Tasks => Below(e) = {e} \cup Children(e)
  BY <1>4, <1>5 DEF Below
<1>7. e \in Subtasks \cup Edges => Below(e) = {e}
  BY <1>4 DEF Below
<1> QED BY <1>4, <1>6, <1>7

LEMMA BelowHasChildren ==
    ASSUME NEW e \in Entities, NEW x \in DOMAIN Parent, Parent[x] \in Below(e)
    PROVE  x \in Below(e)
<1>1. x \in Children(Parent[x])
  BY DEF Children
<1>2. CASE Parent[x] \in {e} \cup Children(e)
  BY <1>1, <1>2 DEF Below
<1>3. CASE \E c \in Children(e) : Parent[x] \in Children(c)
  <2>1. PICK c \in Children(e) : Parent[x] \in Children(c)
    BY <1>3
  <2>2. c \in Items /\ c \in Entities
    BY <2>1, ChildrenOf DEF Items, Entities
  <2>3. c \in Tasks /\ Parent[x] \in Subtasks
    BY <2>1, <2>2, ChildrenOf DEF Items
  <2> QED BY <2>3, ParentAssumption
<1> QED BY <1>2, <1>3 DEF Below

LEMMA RemoveSubtreeFits ==
    ASSUME NEW rows \in Rows, NEW e \in Entities \cup Edges
    PROVE  /\ RemoveSubtree(rows, e) \in Rows
           /\ \A x \in Entities :
                 /\ x \in Below(e) => ~Live(RemoveSubtree(rows, e), x)
                 /\ x \notin Below(e) => RemoveSubtree(rows, e)[x] = rows[x]
           /\ RowsHaveParents(rows) => RowsHaveParents(RemoveSubtree(rows, e))
<1> DEFINE after == RemoveSubtree(rows, e)
<1>1. after \in Rows
  BY DEF RemoveSubtree, Rows
<1>2. \A x \in Entities :
        /\ x \in Below(e) => after[x] = Absent
        /\ x \notin Below(e) => after[x] = rows[x]
  BY DEF RemoveSubtree
<1>3. ASSUME RowsHaveParents(rows), NEW x \in Entities, Live(after, x), x \in DOMAIN Parent
      PROVE  Live(after, Parent[x])
  <2>1. x \notin Below(e) /\ Live(rows, x)
    BY <1>2, <1>3 DEF Live
  <2>2. Live(rows, Parent[x]) /\ Parent[x] \in Entities
    BY <1>3, <2>1, ParentAssumption DEF RowsHaveParents, ParentLive, Entities
  <2>3. Parent[x] \notin Below(e)
    <3>1. CASE e \in Entities
      BY <3>1, <2>1, <1>3, BelowHasChildren
    <3>2. CASE e \in Edges
      BY <3>2, <2>2, ChildrenOf, EdgesAssumption
    <3> QED BY <3>1, <3>2
  <2> QED BY <2>2, <2>3, <1>2 DEF Live
<1> HIDE DEF after
<1>4. RowsHaveParents(rows) => RowsHaveParents(after)
  BY <1>3 DEF RowsHaveParents, ParentLive
<1> QED BY <1>1, <1>2, <1>4 DEF after, Live

----------------------------------------------------------------------------
(* Writing rows *)

\* Payloads: what an event may carry.
Payload(fields) ==
    /\ fields = [f \in DOMAIN fields |-> fields[f]]
    /\ DOMAIN fields \subseteq Fields
    /\ \A f \in DOMAIN fields : fields[f] \in ColumnValues(f)

LEMMA ContentsArePayloads ==
    ASSUME NEW F \in SUBSET Fields, NEW fields \in Contents(F)
    PROVE  Payload(fields) /\ DOMAIN fields = F
BY DEF Contents, Payload

LEMMA AbsentIsNoRow == Absent \notin Contents(Fields)
<1>1. DOMAIN Absent = {"absent"} /\ "absent" \notin Fields
  BY ColumnsAssumption DEF Absent
<1>2. \A r \in Contents(Fields) : DOMAIN r = Fields
  BY DEF Contents
<1> QED BY <1>1, <1>2

LEMMA ColumnHasValue ==
    ASSUME NEW f, NEW v \in ColumnValues(f)
    PROVE  v \in Values \cup {Default}
BY DEF ColumnValues

LEMMA RowWritten ==
    ASSUME NEW rows \in Rows, NEW e \in Entities, NEW r \in Contents(Fields)
    PROVE  LET after == [rows EXCEPT ![e] = r] IN
           /\ after \in Rows
           /\ after[e] = r /\ Live(after, e)
           /\ \A x \in Entities : x # e => after[x] = rows[x]
           /\ \A x \in Entities : Live(rows, x) => Live(after, x)
           /\ RowsHaveParents(rows) /\ ParentLive(rows, e) => RowsHaveParents(after)
           /\ \A D \in SUBSET Edges : EndsLive(rows, D) => EndsLive(after, D)
<1> DEFINE after == [rows EXCEPT ![e] = r]
<1>1. after \in Rows /\ after[e] = r /\ \A x \in Entities : x # e => after[x] = rows[x]
  BY DEF Rows
<1>2. r # Absent
  BY AbsentIsNoRow
<1> HIDE DEF after
<1>3. Live(after, e) /\ \A x \in Entities : Live(rows, x) => Live(after, x)
  BY <1>1, <1>2 DEF Live
<1>4. ASSUME RowsHaveParents(rows), ParentLive(rows, e) PROVE RowsHaveParents(after)
  <2> SUFFICES ASSUME NEW x \in Entities, Live(after, x), x \in DOMAIN Parent
               PROVE  Live(after, Parent[x])
    BY DEF RowsHaveParents, ParentLive
  <2>1. Parent[x] \in Entities
    BY ParentAssumption DEF Entities
  <2>2. Live(rows, Parent[x])
    <3>1. CASE x = e
      BY <3>1, <1>4 DEF ParentLive
    <3>2. CASE x # e
      BY <3>2, <1>1, <1>4 DEF RowsHaveParents, ParentLive, Live
    <3> QED BY <3>1, <3>2
  <2> QED BY <2>1, <2>2, <1>3
<1>5. ASSUME NEW D \in SUBSET Edges, EndsLive(rows, D) PROVE EndsLive(after, D)
  <2>1. \A d \in D : d[1] \in Entities /\ d[2] \in Entities
    BY EdgesAssumption DEF Items, Entities
  <2> QED BY <2>1, <1>3, <1>5 DEF EndsLive
<1> QED BY <1>1, <1>3, <1>4, <1>5 DEF after

\* What an update and what an upsert make of the columns of a row.
Patched(r, old, fields) ==
    \A f \in Fields : r[f] = IF f \in DOMAIN fields THEN fields[f] ELSE old[f]
Upserted(r, fields) ==
    \A f \in Fields : r[f] = IF f \in DOMAIN fields THEN fields[f] ELSE Default

\* A row that is written is as it was but for the columns that `fields` has, or but for
\* those and the columns that get their defaults.
LEMMA PatchWrites ==
    ASSUME NEW rows \in Rows, NEW e \in Entities, Live(rows, e),
           NEW fields, Payload(fields)
    PROVE  \E r \in Contents(Fields) :
              /\ Patch(rows, e, fields) = [rows EXCEPT ![e] = r]
              /\ Patched(r, rows[e], fields)
<1> DEFINE r == [f \in Fields |-> IF f \in DOMAIN fields THEN fields[f] ELSE rows[e][f]]
<1>1. rows[e] \in Contents(Fields)
  BY DEF Rows, Live
<1>2. r \in Contents(Fields)
  <2>1. \A f \in Fields : r[f] \in ColumnValues(f)
    BY <1>1 DEF Contents, Payload
  <2>2. \A f \in Fields : r[f] \in Values \cup {Default}
    BY <2>1, ColumnHasValue
  <2> HIDE DEF r
  <2>3. r = [f \in Fields |-> r[f]]
    BY DEF r
  <2> QED BY <2>1, <2>2, <2>3 DEF Contents
<1>3. Patch(rows, e, fields) = [rows EXCEPT ![e] = r]
  BY DEF Patch
<1>4. Patched(r, rows[e], fields)
  BY DEF Patched
<1> QED BY <1>2, <1>3, <1>4

LEMMA UpsertWrites ==
    ASSUME NEW rows \in Rows, NEW e \in Entities,
           NEW fields, Payload(fields), Required \subseteq DOMAIN fields
    PROVE  \E r \in Contents(Fields) :
              /\ Upsert(rows, e, fields) = [rows EXCEPT ![e] = r]
              /\ Upserted(r, fields)
<1> DEFINE r == [f \in Fields |-> IF f \in DOMAIN fields THEN fields[f] ELSE Default]
<1>1. r \in Contents(Fields)
  <2>1. \A f \in Fields : r[f] \in ColumnValues(f)
    BY DEF Payload, ColumnValues
  <2>2. \A f \in Fields : r[f] \in Values \cup {Default}
    BY <2>1, ColumnHasValue
  <2> HIDE DEF r
  <2>3. r = [f \in Fields |-> r[f]]
    BY DEF r
  <2> QED BY <2>1, <2>2, <2>3 DEF Contents
<1>2. Upsert(rows, e, fields) = [rows EXCEPT ![e] = r]
  BY DEF Upsert
<1>3. Upserted(r, fields)
  BY DEF Upserted
<1> QED BY <1>1, <1>2, <1>3

LEMMA WritesFit ==
    ASSUME NEW rows, NEW D, RowsFit(rows, D), NEW e \in Entities, ParentLive(rows, e),
           NEW r \in Contents(Fields)
    PROVE  RowsFit([rows EXCEPT ![e] = r], D)
BY RowWritten DEF RowsFit

\* A deleted task or subtask takes the dependencies of what goes with it; after the deletion
\* of an epic the table of dependencies promises nothing.
LEMMA DeletionFits ==
    ASSUME NEW rows, NEW D, RowsFit(rows, D), NEW e \in Entities \cup Edges,
           e \in Epics => \E i \in DOMAIN log : log[i].op = "deleted" /\ log[i].ent \in Epics
    PROVE  /\ RowsFit(RemoveSubtree(rows, e), Detach(D, rows, e))
           /\ Detach(D, rows, e) \subseteq D
<1>1. Detach(D, rows, e) \subseteq D
  BY DEF Detach
<1>2. RemoveSubtree(rows, e) \in Rows /\ RowsHaveParents(RemoveSubtree(rows, e))
  BY RemoveSubtreeFits DEF RowsFit
<1>3. EndsLive(RemoveSubtree(rows, e), Detach(D, rows, e))
  <2>1. CASE \E i \in DOMAIN log : log[i].op = "deleted" /\ log[i].ent \in Epics
    BY <2>1 DEF EndsLive
  <2>2. CASE e \in Items \cup Edges /\ \A d \in D : Live(rows, d[1]) /\ Live(rows, d[2])
    <3>1. SUFFICES ASSUME NEW d \in Detach(D, rows, e), NEW x \in {d[1], d[2]}
                   PROVE  Live(RemoveSubtree(rows, e), x)
      BY DEF EndsLive
    <3>2. d \in D /\ d \in Edges /\ x \in Items /\ x \in Entities /\ Live(rows, x)
      BY <2>2, <1>1, EdgesAssumption DEF RowsFit, Entities, Items
    <3>3. x \notin Below(e)
      <4>1. CASE e \in Tasks
        BY <4>1, <3>1, <3>2, ChildrenOf DEF Detach, Touching, Items, LiveChildren
      <4>2. CASE e \in Subtasks
        BY <4>2, <3>1, <3>2, ChildrenOf DEF Detach, Touching, Items
      <4>3. CASE e \in Edges
        BY <4>3, <3>2, ChildrenOf, EdgesAssumption
      <4> QED BY <4>1, <4>2, <4>3, <2>2 DEF Items
    <3> QED BY <3>2, <3>3, RemoveSubtreeFits DEF RowsFit, Live
  <2> QED BY <2>1, <2>2 DEF RowsFit, EndsLive, Entities, Items
<1> QED BY <1>1, <1>2, <1>3 DEF RowsFit

----------------------------------------------------------------------------
(* Conflicts *)

LEMMA FewerConflictsFit ==
    ASSUME NEW C, ConflictsFit(C), NEW D \in SUBSET C
    PROVE  ConflictsFit(D)
BY DEF ConflictsFit, OnePerField

LEMMA LogIndices ==
    ASSUME LogFits
    PROVE  /\ LogIsSequence
           /\ Len(log) \in Nat /\ DOMAIN log = 1 .. Len(log) /\ DOMAIN log \subseteq 1 .. MaxEvents
           /\ \A i \in DOMAIN log :
                 /\ log[i] \in Events /\ EventFits(i) /\ Payload(log[i].fields)
                 /\ log[i].ent \in Entities \cup Edges
                 /\ log[i].cause \in Nat
<1>1. log \in Seq(Events) /\ Len(log) \in Nat /\ DOMAIN log = 1 .. Len(log)
  BY DEF LogFits
<1>2. \A i \in DOMAIN log : log[i] \in Events
  BY <1>1
<1>3. \A i \in DOMAIN log : Payload(log[i].fields)
  BY <1>2, ContentsArePayloads DEF Events
<1>4. DOMAIN log \subseteq 1 .. MaxEvents
  BY <1>1, BoundsAssumption DEF LogFits
<1>5. LogIsSequence
  <2> DEFINE n == Len(log)
  <2>1. \A i \in 1 .. n : log[i] \in ToSet(log)
    BY <1>1 DEF ToSet
  <2>2. log = [i \in 1 .. n |-> log[i]]
    BY <1>1
  <2>3. n \in Nat
    BY <1>1
  <2> HIDE DEF n
  <2>4. log \in [1 .. n -> ToSet(log)]
    BY <2>1, <2>2
  <2>5. log \in Seq(ToSet(log))
    BY <2>3, <2>4
  <2> QED BY <2>5 DEF LogIsSequence
<1> QED BY <1>1, <1>2, <1>3, <1>4, <1>5 DEF LogFits, Events

\* What a replay notes are conflicts about the event it replays, where there were none.
LEMMA ConflictsNoted ==
    ASSUME LogFits, NEW C, ConflictsFit(C), NEW w \in Worktrees, NEW i \in DOMAIN log,
           NEW F \in SUBSET (Fields \cup {"__delete__", "__apply__"}),
           NEW resolution \in {"pending", "invalid"},
           "__delete__" \in F => log[i].op \in {"deleted", "removed"},
           "__apply__" \in F => resolution = "invalid",
           F \cap Fields \subseteq DOMAIN log[i].fields
    PROVE  LET D == CreateConflicts(C, w, i, F, resolution) IN
           /\ ConflictsFit(D)
           /\ C \subseteq D
           /\ \A d \in D \ C :
                 /\ d.event = i /\ d.scope = w /\ d.resolution = resolution /\ d.field \in F
                 /\ \A c \in C : ~SameKey(c, d)
           /\ \A f \in F : \E d \in D : d.event = i /\ d.scope = w /\ d.field = f
<1> DEFINE D == CreateConflicts(C, w, i, F, resolution)
           New == {f \in F : \A c \in C : ~(c.event = i /\ c.field = f /\ c.scope = w)}
           Conflict(f) == [event |-> i, field |-> f, scope |-> w, resolution |-> resolution]
<1>1. D = C \cup {Conflict(f) : f \in New}
  BY DEF CreateConflicts
<1> HIDE DEF D
<1>2. \A f \in New : Conflict(f) \in Conflicts /\ ConflictFits(Conflict(f))
  BY LogIndices, ColumnsAssumption DEF Conflicts, ConflictFits
<1>3. \A d \in D \ C :
          /\ d.event = i /\ d.scope = w /\ d.resolution = resolution /\ d.field \in F
          /\ d = Conflict(d.field)
          /\ \A c \in C : ~SameKey(c, d)
  BY <1>1 DEF SameKey
<1>4. OnePerField(D)
  <2> SUFFICES ASSUME NEW c \in D, NEW d \in D, SameKey(c, d) PROVE c = d
    BY DEF OnePerField
  <2>1. SameKey(d, c)
    BY DEF SameKey
  <2>2. CASE c \in C /\ d \in C
    BY <2>2 DEF ConflictsFit, OnePerField
  <2>3. CASE c \notin C /\ d \notin C
    <3>1. c.field = d.field
      BY DEF SameKey
    <3> QED BY <2>3, <3>1, <1>3
  <2> QED BY <2>1, <2>2, <2>3, <1>3
<1>5. ConflictsFit(D)
  BY <1>1, <1>2, <1>4 DEF ConflictsFit
<1>6. ASSUME NEW f \in F PROVE \E d \in D : d.event = i /\ d.scope = w /\ d.field = f
  <2>1. CASE f \in New
    <3>1. Conflict(f) \in D
      BY <1>1, <2>1
    <3>2. Conflict(f).event = i /\ Conflict(f).scope = w /\ Conflict(f).field = f
      OBVIOUS
    <3> HIDE DEF Conflict
    <3> QED BY <3>1, <3>2
  <2>2. CASE f \notin New
    BY <1>1, <2>2
  <2> QED BY <2>1, <2>2
<1> QED BY <1>1, <1>3, <1>5, <1>6 DEF D

----------------------------------------------------------------------------
(* The replay of one event *)

\* The values in the cache are what the branch last said some time after the pull began.
CacheFits(w, cache, from) ==
    /\ DOMAIN cache \subseteq Entities \X Fields
    /\ \A k \in DOMAIN cache :
          \E n \in from .. Len(log) : cache[k] = OwnSay(w, k[1], k[2], n)

StateFits(s, w, from) ==
    /\ s = [row |-> s.row, deps |-> s.deps, conflicts |-> s.conflicts, ours |-> s.ours]
    /\ RowsFit(s.row, s.deps)
    /\ ConflictsFit(s.conflicts)
    /\ CacheFits(w, s.ours, from)

LEMMA ReplayedDelete ==
    ASSUME LogFits, NEW w \in Worktrees, NEW from, NEW s, StateFits(s, w, from),
           NEW i \in DOMAIN log, log[i].op = "deleted"
    PROVE  LET t == ReplayDelete(s, w, i)
               e == log[i].ent IN
           /\ StateFits(t, w, from)
           /\ t.ours = s.ours
           /\ \/ t = s
              \/ /\ EditedSubtree(s.row, w, e)
                 /\ t.row = s.row /\ t.deps = s.deps
                 /\ t.conflicts = CreateConflicts(s.conflicts, w, i, {"__delete__"}, "pending")
              \/ /\ ~ShouldWithhold(s, w, i) /\ ~EditedSubtree(s.row, w, e)
                 /\ t.row = RemoveSubtree(s.row, e)
                 /\ t.deps = Detach(s.deps, s.row, e)
                 /\ t.conflicts = s.conflicts \ ConflictsAbout(s.conflicts, w, Forgotten(s.row, e))
<1> DEFINE t == ReplayDelete(s, w, i)
           e == log[i].ent
<1>1. CASE ShouldWithhold(s, w, i)
  BY <1>1 DEF ReplayDelete
<1>2. CASE ~ShouldWithhold(s, w, i) /\ EditedSubtree(s.row, w, e)
  <2>1. t = [s EXCEPT !.conflicts = CreateConflicts(@, w, i, {"__delete__"}, "pending")]
    BY <1>2 DEF ReplayDelete
  <2>2. t = [row |-> s.row, deps |-> s.deps, ours |-> s.ours,
             conflicts |-> CreateConflicts(s.conflicts, w, i, {"__delete__"}, "pending")]
    BY <2>1 DEF StateFits
  <2> HIDE DEF t
  <2>3. ConflictsFit(t.conflicts)
    BY <2>2, ConflictsNoted, ColumnsAssumption DEF StateFits
  <2> QED BY <1>2, <2>2, <2>3 DEF StateFits, t
<1>3. CASE ~ShouldWithhold(s, w, i) /\ ~EditedSubtree(s.row, w, e)
  <2> DEFINE gone == ConflictsAbout(s.conflicts, w, Forgotten(s.row, e))
  <2>1. t = [s EXCEPT !.row = RemoveSubtree(@, e),
                      !.deps = Detach(@, s.row, e),
                      !.conflicts = @ \ gone]
    BY <1>3 DEF ReplayDelete
  <2> HIDE DEF gone
  <2>2. t = [row |-> RemoveSubtree(s.row, e), deps |-> Detach(s.deps, s.row, e),
             ours |-> s.ours, conflicts |-> s.conflicts \ gone]
    BY <2>1 DEF StateFits
  <2> HIDE DEF t
  <2>3. ConflictsFit(t.conflicts)
    BY <2>2, FewerConflictsFit DEF StateFits
  <2>4. RowsFit(t.row, t.deps)
    BY <2>2, DeletionFits, LogIndices DEF StateFits
  <2> QED BY <1>3, <2>2, <2>3, <2>4 DEF StateFits, t, gone
<1> QED BY <1>1, <1>2, <1>3

LEMMA ReplayedAdded ==
    ASSUME LogFits, NEW w \in Worktrees, NEW from, NEW s, StateFits(s, w, from),
           NEW i \in DOMAIN log, log[i].op = "added"
    PROVE  LET t == ReplayAdded(s, w, i) IN
           /\ StateFits(t, w, from)
           /\ t.ours = s.ours /\ t.row = s.row
           /\ \/ t.deps = s.deps \cup {log[i].ent} /\ t.conflicts = s.conflicts
              \/ /\ t.deps = s.deps
                 /\ t.conflicts = CreateConflicts(s.conflicts, w, i, {"__apply__"}, "invalid")
<1> DEFINE t == ReplayAdded(s, w, i)
           d == log[i].ent
<1>1. CASE Live(s.row, d[1]) /\ Live(s.row, d[2])
  <2>1. t = [s EXCEPT !.deps = @ \cup {d}]
    BY <1>1 DEF ReplayAdded
  <2>2. t = [row |-> s.row, deps |-> s.deps \cup {d}, conflicts |-> s.conflicts, ours |-> s.ours]
    BY <2>1 DEF StateFits
  <2> HIDE DEF t
  <2>3. d \in Edges
    BY LogIndices DEF EventFits
  <2>4. RowsFit(t.row, t.deps)
    BY <1>1, <2>2, <2>3 DEF StateFits, RowsFit, EndsLive
  <2> QED BY <2>2, <2>4 DEF StateFits, t
<1>2. CASE ~(Live(s.row, d[1]) /\ Live(s.row, d[2]))
  <2>1. t = [s EXCEPT !.conflicts = CreateConflicts(@, w, i, {"__apply__"}, "invalid")]
    BY <1>2 DEF ReplayAdded
  <2>2. t = [row |-> s.row, deps |-> s.deps, ours |-> s.ours,
             conflicts |-> CreateConflicts(s.conflicts, w, i, {"__apply__"}, "invalid")]
    BY <2>1 DEF StateFits
  <2> HIDE DEF t
  <2>3. ConflictsFit(t.conflicts)
    BY <2>2, ConflictsNoted, ColumnsAssumption DEF StateFits
  <2> QED BY <2>2, <2>3 DEF StateFits, t
<1> QED BY <1>1, <1>2

LEMMA ReplayedRemoved ==
    ASSUME LogFits, NEW w \in Worktrees, NEW from, NEW s, StateFits(s, w, from),
           NEW i \in DOMAIN log, log[i].op = "removed"
    PROVE  LET t == ReplayRemoved(s, w, i)
               d == log[i].ent IN
           /\ StateFits(t, w, from)
           /\ t.ours = s.ours /\ t.row = s.row
           /\ \/ t = s
              \/ /\ t.deps = s.deps
                 /\ t.conflicts = CreateConflicts(s.conflicts, w, i, {"__delete__"}, "pending")
              \/ /\ ~ShouldWithhold(s, w, i) /\ ~(d \in s.deps /\ Holds(w, d))
                 /\ t.deps = s.deps \ {d}
                 /\ t.conflicts = s.conflicts
<1> DEFINE t == ReplayRemoved(s, w, i)
           d == log[i].ent
<1>1. CASE ShouldWithhold(s, w, i)
  BY <1>1 DEF ReplayRemoved
<1>2. CASE ~ShouldWithhold(s, w, i) /\ d \in s.deps /\ Holds(w, d)
  <2>1. t = [s EXCEPT !.conflicts = CreateConflicts(@, w, i, {"__delete__"}, "pending")]
    BY <1>2 DEF ReplayRemoved
  <2>2. t = [row |-> s.row, deps |-> s.deps, ours |-> s.ours,
             conflicts |-> CreateConflicts(s.conflicts, w, i, {"__delete__"}, "pending")]
    BY <2>1 DEF StateFits
  <2> HIDE DEF t
  <2>3. ConflictsFit(t.conflicts)
    BY <2>2, ConflictsNoted, ColumnsAssumption DEF StateFits
  <2> QED BY <2>2, <2>3 DEF StateFits, t
<1>3. CASE ~ShouldWithhold(s, w, i) /\ ~(d \in s.deps /\ Holds(w, d))
  <2>1. t = [s EXCEPT !.deps = @ \ {d}]
    BY <1>3 DEF ReplayRemoved
  <2>2. t = [row |-> s.row, deps |-> s.deps \ {d}, conflicts |-> s.conflicts, ours |-> s.ours]
    BY <2>1 DEF StateFits
  <2> HIDE DEF t
  <2>3. RowsFit(t.row, t.deps)
    BY <2>2 DEF StateFits, RowsFit, EndsLive
  <2> QED BY <1>3, <2>2, <2>3 DEF StateFits, t
<1> QED BY <1>1, <1>2, <1>3

\* What a creation or an update comes to, given which of its fields are contested: those
\* for which the own branch has said something else since the pull began.
Written(s, t, w, i, from, contested) ==
    LET e == log[i].ent
        fields == log[i].fields
        applied == Restrict(fields, DOMAIN fields \ contested)
        noted == CreateConflicts(s.conflicts, w, i, contested, "pending")
    IN  /\ \A f \in contested :
              \E n \in from .. Len(log) : OwnSay(w, e, f, n) \notin {NotFound, fields[f]}
        /\ \A f \in DOMAIN fields \ contested :
              \/ Live(s.row, e) /\ s.row[e][f] = fields[f]
              \/ \E n \in from .. Len(log) : OwnSay(w, e, f, n) \in {NotFound, fields[f]}
        /\ \/ /\ log[i].op = "created" /\ Required \subseteq DOMAIN applied
              /\ ParentLive(s.row, e)
              /\ t.row = Upsert(s.row, e, applied) /\ t.conflicts = noted
           \/ /\ Live(s.row, e)
              /\ t.row = Patch(s.row, e, applied) /\ t.conflicts = noted
           \/ /\ t.row = s.row
              /\ t.conflicts = CreateConflicts(noted, w, i, {"__apply__"}, "invalid")

LEMMA ReplayedWrite ==
    ASSUME LogFits, NEW w \in Worktrees, NEW from \in Nat, from <= Len(log),
           NEW s, StateFits(s, w, from),
           NEW i \in DOMAIN log, log[i].op \in {"created", "updated"}
    PROVE  LET t == ReplayWrite(s, w, i) IN
           /\ StateFits(t, w, from)
           /\ t.deps = s.deps
           /\ \E contested \in SUBSET DOMAIN log[i].fields : Written(s, t, w, i, from, contested)
<1> DEFINE t == ReplayWrite(s, w, i)
           ev == log[i]
           e == ev.ent
           fields == ev.fields
           u == LookUp(s, w, i)
           contested == Contested(u, i)
           applied == Restrict(fields, DOMAIN fields \ contested)
           noted == CreateConflicts(s.conflicts, w, i, contested, "pending")
           keys == {<<e, f>> : f \in Differing(s, i)}
           cache == [k \in DOMAIN s.ours \cup keys |->
                        IF k \in DOMAIN s.ours THEN s.ours[k]
                        ELSE OwnSay(w, k[1], k[2], Len(log))]
<1>1. /\ e \in Entities /\ Payload(fields)
      /\ Len(log) \in Nat
  BY LogIndices DEF EventFits
<1>2. u = [row |-> s.row, deps |-> s.deps, conflicts |-> s.conflicts, ours |-> cache]
  <2>1. u = [s EXCEPT !.ours = cache]
    BY DEF LookUp
  <2> HIDE DEF u, cache
  <2> QED BY <2>1 DEF StateFits
<1>3. CacheFits(w, cache, from)
  <2>1. keys \subseteq Entities \X Fields
    BY <1>1 DEF Differing, Payload
  <2>2. DOMAIN cache \subseteq Entities \X Fields
    BY <2>1 DEF StateFits, CacheFits
  <2>3. ASSUME NEW k \in DOMAIN cache
        PROVE  \E n \in from .. Len(log) : cache[k] = OwnSay(w, k[1], k[2], n)
    <3>1. CASE k \in DOMAIN s.ours
      <4>1. cache[k] = s.ours[k]
        BY <3>1
      <4> QED BY <3>1, <4>1 DEF StateFits, CacheFits
    <3>2. CASE k \notin DOMAIN s.ours
      <4>1. cache[k] = OwnSay(w, k[1], k[2], Len(log))
        BY <3>2
      <4>2. Len(log) \in from .. Len(log)
        BY <1>1
      <4> QED BY <4>1, <4>2
    <3> QED BY <3>1, <3>2
  <2> HIDE DEF cache
  <2> QED BY <2>2, <2>3 DEF CacheFits
<1>4. /\ contested = {f \in Differing(s, i) : cache[<<e, f>>] \notin {NotFound, fields[f]}}
      /\ contested \subseteq DOMAIN fields
      /\ \A f \in Differing(s, i) : <<e, f>> \in DOMAIN cache
  <2>1. Differing(u, i) = Differing(s, i)
    BY <1>2 DEF Differing
  <2>2. \A f \in Differing(s, i) : <<e, f>> \in DOMAIN cache
    OBVIOUS
  <2> HIDE DEF u, cache
  <2>3. contested = {f \in Differing(s, i) : cache[<<e, f>>] \notin {NotFound, fields[f]}}
    BY <1>2, <2>1 DEF Contested
  <2> QED BY <2>2, <2>3 DEF Differing
<1>5. ASSUME NEW f \in Differing(s, i)
      PROVE  \E n \in from .. Len(log) : cache[<<e, f>>] = OwnSay(w, e, f, n)
  <2> DEFINE k == <<e, f>>
  <2>1. k \in DOMAIN cache /\ k[1] = e /\ k[2] = f
    BY <1>4
  <2> HIDE DEF cache, k
  <2>2. \E n \in from .. Len(log) : cache[k] = OwnSay(w, k[1], k[2], n)
    BY <1>3, <2>1 DEF CacheFits
  <2> QED BY <2>1, <2>2 DEF k
<1>6. \A f \in contested :
         \E n \in from .. Len(log) : OwnSay(w, e, f, n) \notin {NotFound, fields[f]}
  <2> HIDE DEF cache, contested
  <2> QED BY <1>4, <1>5
<1>7. \A f \in DOMAIN fields \ contested :
         \/ Live(s.row, e) /\ s.row[e][f] = fields[f]
         \/ \E n \in from .. Len(log) : OwnSay(w, e, f, n) \in {NotFound, fields[f]}
  <2> SUFFICES ASSUME NEW f \in DOMAIN fields \ contested, f \in Differing(s, i)
               PROVE  \E n \in from .. Len(log) : OwnSay(w, e, f, n) \in {NotFound, fields[f]}
    BY DEF Differing
  <2> HIDE DEF cache, contested
  <2> QED BY <1>4, <1>5
<1>8. /\ Payload(applied) /\ DOMAIN applied = DOMAIN fields \ contested
  BY <1>1 DEF Restrict, Payload
<1>9. ConflictsFit(noted) /\ ConflictsFit(CreateConflicts(noted, w, i, {"__apply__"}, "invalid"))
  <2>1. contested \subseteq Fields /\ "__delete__" \notin contested /\ "__apply__" \notin contested
    BY <1>1, <1>4, ColumnsAssumption DEF Payload
  <2>2. ConflictsFit(noted)
    <3> HIDE DEF contested
    <3> QED BY <1>4, <2>1, ConflictsNoted DEF StateFits
  <2> HIDE DEF noted
  <2>3. ConflictsFit(CreateConflicts(noted, w, i, {"__apply__"}, "invalid"))
    BY <2>2, ConflictsNoted, ColumnsAssumption
  <2> QED BY <2>2, <2>3
<1>10. \/ /\ log[i].op = "created" /\ Required \subseteq DOMAIN applied /\ ParentLive(s.row, e)
          /\ t = [u EXCEPT !.row = Upsert(s.row, e, applied), !.conflicts = noted]
       \/ /\ Live(s.row, e)
          /\ t = [u EXCEPT !.row = Patch(s.row, e, applied), !.conflicts = noted]
       \/ t = [u EXCEPT !.conflicts = CreateConflicts(noted, w, i, {"__apply__"}, "invalid")]
  <2>1. u.row = s.row /\ u.conflicts = s.conflicts
    BY <1>2
  <2>2. t = LET Outcome(rows) == [u EXCEPT !.row = rows, !.conflicts = noted] IN
            IF ev.op = "created" /\ Required \subseteq DOMAIN applied /\ ParentLive(s.row, e)
            THEN Outcome(Upsert(s.row, e, applied))
            ELSE IF /\ Live(s.row, e)
                    /\ \/ ev.op = "created" /\ contested # {}
                       \/ ev.op = "updated" /\ (e \in Epics => DOMAIN applied # {})
            THEN Outcome(Patch(s.row, e, applied))
            ELSE [u EXCEPT !.conflicts = CreateConflicts(noted, w, i, {"__apply__"}, "invalid")]
    BY <2>1 DEF ReplayWrite
  <2> HIDE DEF t, u, applied, noted, contested
  <2> QED BY <2>2
<1>11. /\ StateFits(t, w, from)
       /\ t.deps = s.deps
       /\ \/ /\ log[i].op = "created" /\ Required \subseteq DOMAIN applied /\ ParentLive(s.row, e)
             /\ t.row = Upsert(s.row, e, applied) /\ t.conflicts = noted
          \/ /\ Live(s.row, e)
             /\ t.row = Patch(s.row, e, applied) /\ t.conflicts = noted
          \/ /\ t.row = s.row
             /\ t.conflicts = CreateConflicts(noted, w, i, {"__apply__"}, "invalid")
  <2>1. RowsFit(s.row, s.deps)
    BY DEF StateFits
  <2> HIDE DEF t, u, applied, noted, contested, cache
  <2>2. CASE /\ log[i].op = "created" /\ Required \subseteq DOMAIN applied /\ ParentLive(s.row, e)
             /\ t = [u EXCEPT !.row = Upsert(s.row, e, applied), !.conflicts = noted]
    <3>1. t = [row |-> Upsert(s.row, e, applied), deps |-> s.deps, conflicts |-> noted,
               ours |-> cache]
      BY <1>2, <2>2
    <3>2. RowsFit(t.row, t.deps)
      BY <3>1, <2>1, <2>2, <1>1, <1>8, UpsertWrites, WritesFit DEF RowsFit
    <3>3. StateFits(t, w, from)
      BY <3>1, <3>2, <1>3, <1>9 DEF StateFits
    <3>4. t.row = Upsert(s.row, e, applied) /\ t.deps = s.deps /\ t.conflicts = noted
      BY <3>1
    <3> QED BY <2>2, <3>3, <3>4
  <2>3. CASE /\ Live(s.row, e)
             /\ t = [u EXCEPT !.row = Patch(s.row, e, applied), !.conflicts = noted]
    <3>1. t = [row |-> Patch(s.row, e, applied), deps |-> s.deps, conflicts |-> noted,
               ours |-> cache]
      BY <1>2, <2>3
    <3>2. ParentLive(s.row, e)
      BY <2>1, <2>3, <1>1 DEF RowsFit, RowsHaveParents
    <3>3. RowsFit(t.row, t.deps)
      BY <3>1, <3>2, <2>1, <2>3, <1>1, <1>8, PatchWrites, WritesFit DEF RowsFit
    <3>4. StateFits(t, w, from)
      BY <3>1, <3>3, <1>3, <1>9 DEF StateFits
    <3>5. t.row = Patch(s.row, e, applied) /\ t.deps = s.deps /\ t.conflicts = noted
      BY <3>1
    <3> QED BY <2>3, <3>4, <3>5
  <2>4. CASE t = [u EXCEPT !.conflicts = CreateConflicts(noted, w, i, {"__apply__"}, "invalid")]
    <3>1. t = [row |-> s.row, deps |-> s.deps, ours |-> cache,
               conflicts |-> CreateConflicts(noted, w, i, {"__apply__"}, "invalid")]
      BY <1>2, <2>4
    <3> QED BY <3>1, <2>1, <1>3, <1>9 DEF StateFits
  <2> QED BY <1>10, <2>2, <2>3, <2>4
<1>12. contested \in SUBSET DOMAIN fields
  BY <1>4
<1> HIDE DEF contested
<1>13. Written(s, t, w, i, from, contested)
  BY <1>6, <1>7, <1>11 DEF Written
<1> HIDE DEF t
<1> QED BY <1>11, <1>12, <1>13 DEF t

LEMMA ReplayKinds ==
    ASSUME LogFits, NEW i \in DOMAIN log, NEW s, NEW w
    PROVE  \/ log[i].op = "resolve_conflict" /\ Replay(s, w, i) = s
           \/ log[i].op = "deleted" /\ Replay(s, w, i) = ReplayDelete(s, w, i)
           \/ log[i].op = "added" /\ Replay(s, w, i) = ReplayAdded(s, w, i)
           \/ log[i].op = "removed" /\ Replay(s, w, i) = ReplayRemoved(s, w, i)
           \/ log[i].op \in {"created", "updated"} /\ Replay(s, w, i) = ReplayWrite(s, w, i)
<1>1. log[i].op \in {"created", "updated", "deleted", "added", "removed", "resolve_conflict"}
  BY LogIndices DEF Events
<1> QED BY <1>1 DEF Replay

LEMMA ReplayFits ==
    ASSUME LogFits, NEW w \in Worktrees, NEW from \in Nat, from <= Len(log),
           NEW s, StateFits(s, w, from), NEW i \in DOMAIN log
    PROVE  StateFits(Replay(s, w, i), w, from)
<1>1. CASE log[i].op = "deleted" /\ Replay(s, w, i) = ReplayDelete(s, w, i)
  BY <1>1, ReplayedDelete
<1>2. CASE log[i].op = "added" /\ Replay(s, w, i) = ReplayAdded(s, w, i)
  BY <1>2, ReplayedAdded
<1>3. CASE log[i].op = "removed" /\ Replay(s, w, i) = ReplayRemoved(s, w, i)
  BY <1>3, ReplayedRemoved
<1>4. CASE log[i].op \in {"created", "updated"} /\ Replay(s, w, i) = ReplayWrite(s, w, i)
  BY <1>4, ReplayedWrite
<1> QED BY <1>1, <1>2, <1>3, <1>4, ReplayKinds

----------------------------------------------------------------------------
(* The tables fit *)

\* What a running pull has cached; nothing is left of one that ended.
CachesFit ==
    /\ ours = [p \in Pullers |-> ours[p]]
    /\ \A p \in Pullers :
          /\ pull[p] = Idle => ours[p] = <<>>
          /\ pull[p] # Idle => CacheFits(In[p], ours[p], pull[p].start)

BatchesFit == \A p \in Pullers : pull[p] # Idle => Cardinality(pull[p].batch) <= BatchSize

TablesFit ==
    /\ IInv
    /\ LogFits
    /\ RowsFit(row, deps)
    /\ ConflictsFit(conflicts)
    /\ CachesFit
    /\ BatchesFit

LEMMA TablesFitTypeOK == TablesFit => TypeOK
<1> SUFFICES ASSUME TablesFit PROVE TypeOK
  OBVIOUS
<1>1. \A p \in Pullers : DOMAIN ours[p] \subseteq Entities \X Fields
  <2> SUFFICES ASSUME NEW p \in Pullers PROVE DOMAIN ours[p] \subseteq Entities \X Fields
    OBVIOUS
  <2>1. CASE pull[p] = Idle
    <3>1. ours[p] = <<>>
      BY <2>1 DEF TablesFit, CachesFit
    <3> QED BY <3>1
  <2>2. CASE pull[p] # Idle
    BY <2>2 DEF TablesFit, CachesFit, CacheFits
  <2> QED BY <2>1, <2>2
<1>2. RowsFit(row, deps) /\ ConflictsFit(conflicts) /\ LogFits
  BY DEF TablesFit
<1>3. /\ row \in [Entities -> Contents(Fields) \cup {Absent}]
      /\ deps \subseteq Edges
      /\ \/ \A d \in deps : Live(row, d[1]) /\ Live(row, d[2])
         \/ \E i \in DOMAIN log : log[i].op = "deleted" /\ log[i].ent \in Epics
  BY <1>2 DEF RowsFit, Rows, EndsLive
<1>4. /\ conflicts \subseteq Conflicts
      /\ \A c \in conflicts : c.event \in DOMAIN log
  BY <1>2 DEF ConflictsFit, ConflictFits
<1>5. /\ cursor \in [Worktrees -> [Worktrees -> 0 .. Len(log)]]
      /\ pull \in [Pullers -> Pulls \cup {Idle}]
  BY DEF TablesFit, IInv, PointersValid
<1>6. \A p \in Pullers : pull[p] # Idle => Cardinality(pull[p].batch) <= BatchSize
  BY DEF TablesFit, BatchesFit
<1> QED BY <1>1, <1>2, <1>3, <1>4, <1>5, <1>6 DEF TypeOK, LogFits

----------------------------------------------------------------------------
(* Growth of the log *)

LEMMA GrowthKeepsSays ==
    ASSUME LogGrows, NEW w, NEW e, NEW f, NEW n \in 0 .. Len(log)
    PROVE  OwnSay(w, e, f, n)' = OwnSay(w, e, f, n)
<1>1. Len(log) \in Nat /\ \A i \in 1 .. n : log'[i] = log[i]
  BY DEF LogGrows
<1>2. OwnWrites(w, e, f, n)' = OwnWrites(w, e, f, n)
  BY <1>1 DEF OwnWrites, OwnEvents
<1> DEFINE W == OwnWrites(w, e, f, n)
<1>3. ASSUME W # {} PROVE log'[Max(W)] = log[Max(W)]
  <2>1. W \subseteq 1 .. n /\ n \in Nat
    BY <1>1 DEF OwnWrites, OwnEvents
  <2> HIDE DEF W
  <2>2. Max(W) \in 1 .. n
    BY <2>1, <1>3, MaxOfBounded
  <2> QED BY <2>2, <1>1
<1> QED BY <1>2, <1>3 DEF OwnSay

\* What fits goes on fitting when events are appended.
LEMMA GrowthKeepsTables ==
    ASSUME TablesFit, LogGrows, LogFits', RowsFit(row', deps'), ConflictsFit(conflicts'),
           UNCHANGED <<cursor, pull, replayed, ours>>
    PROVE  TablesFit'
<1>1. IInv'
  BY GrowthKeepsIInv DEF TablesFit
<1>2. \A i \in DOMAIN log : i \in DOMAIN log' /\ log'[i] = log[i]
  BY DEF LogGrows
<1>3. RowsFit(row, deps)'
  BY <1>2 DEF RowsFit, RowsHaveParents, ParentLive, EndsLive, Live, Rows
<1>4. ConflictsFit(conflicts)'
  BY <1>2 DEF ConflictsFit, ConflictFits, OnePerField, SameKey
<1>5. CachesFit'
  <2>1. ours' = [p \in Pullers |-> ours'[p]]
    BY DEF TablesFit, CachesFit
  <2>2. ASSUME NEW p \in Pullers, pull[p] # Idle, NEW k \in DOMAIN ours[p]
        PROVE  \E n \in pull[p].start .. Len(log)' :
                  ours[p][k] = OwnSay(In[p], k[1], k[2], n)'
    <3>1. PICK n \in pull[p].start .. Len(log) : ours[p][k] = OwnSay(In[p], k[1], k[2], n)
      BY <2>2 DEF TablesFit, CachesFit, CacheFits
    <3>2. pull[p].start \in Nat /\ Len(log) \in Nat /\ Len(log)' \in Nat /\ Len(log) <= Len(log)'
      BY <2>2 DEF TablesFit, IInv, PointersValid, Pulls, LogGrows
    <3>3. n \in 0 .. Len(log) /\ n \in pull[p].start .. Len(log)'
      BY <3>2
    <3> HIDE DEF LogGrows
    <3> QED BY <3>1, <3>3, GrowthKeepsSays
  <2>3. ASSUME NEW p \in Pullers, pull[p] # Idle
        PROVE  CacheFits(In[p], ours[p], pull[p].start)'
    <3>1. DOMAIN ours[p] \subseteq Entities \X Fields
      BY <2>3 DEF TablesFit, CachesFit, CacheFits
    <3> QED BY <3>1, <2>2, <2>3 DEF CacheFits
  <2> QED BY <2>1, <2>3 DEF TablesFit, CachesFit
<1>6. BatchesFit'
  BY DEF TablesFit, BatchesFit
<1> QED BY <1>1, <1>3, <1>4, <1>5, <1>6 DEF TablesFit

\* Events that are appended fit if each is about what it can be about, is the first of its
\* entity if it creates it, and was caused by an earlier one.
LEMMA AppendedFit ==
    ASSUME LogFits, NEW events \in Seq(Events), AppendEvents(events),
           \A k \in DOMAIN events :
              LET ev == events[k] IN
              /\ ev.op \in {"created", "updated", "deleted"} => ev.ent \in Entities
              /\ ev.op \in {"added", "removed"} => ev.ent \in Edges
              /\ ev.op \notin {"created", "updated"} => DOMAIN ev.fields = {}
              /\ ev.op = "created" => k = 1 /\ \A j \in DOMAIN log : log[j].ent # ev.ent
              /\ ev.cause < Len(log) + k
    PROVE  LogFits' /\ LogGrows
<1> DEFINE n == Len(log)
<1>1. log \in Seq(Events) /\ n \in Nat /\ DOMAIN log = 1 .. n
  BY LogIndices DEF LogFits
<1>2. log' = log \o events /\ Len(log \o events) <= MaxEvents
  BY <1>1, ConcatProperties DEF AppendEvents
<1>3. /\ log' \in Seq(Events) /\ Len(log') = n + Len(events)
      /\ Len(events) \in Nat /\ DOMAIN log' = 1 .. n + Len(events)
      /\ \A i \in 1 .. n : log'[i] = log[i]
      /\ \A k \in 1 .. Len(events) : log'[n + k] = events[k]
  <2>1. Len(events) \in Nat
    OBVIOUS
  <2>2. /\ log \o events \in Seq(Events)
        /\ Len(log \o events) = n + Len(events)
        /\ \A i \in 1 .. n + Len(events) :
              (log \o events)[i] = IF i <= n THEN log[i] ELSE events[i - n]
    BY <1>1, ConcatProperties
  <2> HIDE DEF n
  <2> QED BY <1>1, <1>2, <2>1, <2>2
<1>4. LogGrows
  BY <1>1, AppendGrows, LogIndices
<1>5. ASSUME NEW i \in DOMAIN log' PROVE EventFits(i)'
  <2>1. CASE i \in 1 .. n
    <3>1. EventFits(i)
      BY <1>1, <2>1, LogIndices
    <3>2. log'[i] = log[i] /\ \A j \in 1 .. i - 1 : log'[j] = log[j]
      BY <1>1, <1>3, <2>1
    <3> QED BY <3>1, <3>2 DEF EventFits
  <2>2. CASE i \in n + 1 .. n + Len(events)
    <3>1. PICK k \in 1 .. Len(events) : i = n + k
      <4>1. i - n \in 1 .. Len(events) /\ i = n + (i - n)
        BY <2>2, <1>1, <1>3
      <4> QED BY <4>1
    <3>2. log'[i] = events[k] /\ k \in DOMAIN events
      BY <3>1, <1>3
    <3>3. k = 1 => \A j \in 1 .. i - 1 : j \in DOMAIN log /\ log'[j] = log[j]
      BY <3>1, <1>1, <1>3
    <3> HIDE DEF n
    <3> QED BY <3>1, <3>2, <3>3 DEF EventFits, n
  <2> QED BY <2>1, <2>2, <1>1, <1>3
<1> QED BY <1>2, <1>3, <1>4, <1>5 DEF LogFits

----------------------------------------------------------------------------
(* Commands *)

LEMMA OneEventFits ==
    ASSUME LogFits, NEW w \in Worktrees, NEW op, NEW e \in Entities \cup Edges, NEW fields,
           AppendEvents(<<Event(w, op, e, fields, 0)>>),
           \E F \in SUBSET Fields : fields \in Contents(F),
           op \in {"created", "updated", "deleted", "added", "removed", "resolve_conflict"},
           op \in {"created", "updated", "deleted"} => e \in Entities,
           op \in {"added", "removed"} => e \in Edges,
           op \notin {"created", "updated"} => DOMAIN fields = {},
           op = "created" => \A j \in DOMAIN log : log[j].ent # e
    PROVE  LogFits' /\ LogGrows
<1> DEFINE ev == Event(w, op, e, fields, 0)
<1>1. 0 \in 0 .. MaxEvents
  BY BoundsAssumption
<1>2. fields \in UNION {Contents(F) : F \in SUBSET Fields}
  OBVIOUS
<1>3. ev \in Events
  BY <1>1, <1>2 DEF Event, Events
<1>4. /\ ev.op = op /\ ev.ent = e /\ ev.fields = fields /\ ev.cause = 0
  BY DEF Event
<1> HIDE DEF ev
<1>5. <<ev>> \in Seq(Events) /\ DOMAIN <<ev>> = {1} /\ <<ev>>[1] = ev
  BY <1>3
<1>6. Len(log) \in Nat
  BY LogIndices
<1>7. AppendEvents(<<ev>>)
  BY DEF ev
<1>8. ASSUME NEW k \in DOMAIN <<ev>> PROVE k = 1 /\ <<ev>>[k] = ev /\ ev.cause < Len(log) + k
  BY <1>4, <1>5, <1>6
<1> HIDE DEF Event
<1> QED BY <1>4, <1>5, <1>7, <1>8, AppendedFit

LEMMA NoFieldsFit == NoFields \in Contents({}) /\ DOMAIN NoFields = {}
BY DEF NoFields, Contents

LEMMA CreateKeepsFits ==
    ASSUME TablesFit, NEW w \in Worktrees, NEW e \in Entities,
           NEW c \in Contents(Required \cup Optional), Create(w, e, c)
    PROVE  TablesFit'
<1>1. LogFits /\ RowsFit(row, deps)
  BY DEF TablesFit
<1>2. Required \cup Optional \in SUBSET Fields
  BY DEF Fields
<1>3. Payload(c) /\ DOMAIN c = Required \cup Optional
  BY <1>2, ContentsArePayloads
<1>4. LogFits' /\ LogGrows
  BY <1>1, <1>2, OneEventFits DEF Create
<1>5. RowsFit(row', deps')
  <2>1. row' = Upsert(row, e, c) /\ deps' = deps /\ ParentLive(row, e)
    BY DEF Create
  <2> QED BY <2>1, <1>1, <1>3, UpsertWrites, WritesFit DEF RowsFit
<1> QED BY <1>4, <1>5, GrowthKeepsTables DEF Create, TablesFit

LEMMA UpdateKeepsFits ==
    ASSUME TablesFit, NEW w \in Worktrees, NEW e \in Entities, NEW f \in Fields,
           NEW v \in ColumnValues(f), Update(w, e, f, v)
    PROVE  TablesFit'
<1>1. LogFits /\ RowsFit(row, deps)
  BY DEF TablesFit
<1>2. Live(row, e) /\ row' = Patch(row, e, [g \in {f} |-> v]) /\ deps' = deps
  BY DEF Update
<1>3. Payload([g \in {f} |-> v])
  BY DEF Payload
<1>4. PICK r \in Contents(Fields) : row' = [row EXCEPT ![e] = r]
  BY <1>1, <1>2, <1>3, PatchWrites DEF RowsFit
<1>5. RowsFit(row', deps')
  BY <1>1, <1>2, <1>4, WritesFit DEF RowsFit, RowsHaveParents
<1>6. row'[e] \in Contents(Fields)
  BY <1>1, <1>4 DEF RowsFit, Rows
<1>7. LogFits' /\ LogGrows
  <2>1. AppendEvents(<<Event(w, "updated", e, row'[e], 0)>>)
    BY DEF Update
  <2>2. Fields \in SUBSET Fields
    OBVIOUS
  <2> QED BY <2>1, <2>2, <1>1, <1>6, OneEventFits
<1> QED BY <1>5, <1>7, GrowthKeepsTables DEF Update, TablesFit

LEMMA DependencyKeepsFits ==
    ASSUME TablesFit, NEW w \in Worktrees, NEW d \in Edges,
           AddDependency(w, d) \/ RemoveDependency(w, d)
    PROVE  TablesFit'
<1>1. LogFits /\ RowsFit(row, deps)
  BY DEF TablesFit
<1>2. {} \in SUBSET Fields
  OBVIOUS
<1>3. CASE AddDependency(w, d)
  <2>1. LogFits' /\ LogGrows
    BY <1>1, <1>2, <1>3, NoFieldsFit, OneEventFits DEF AddDependency
  <2>2. RowsFit(row', deps')
    BY <1>1, <1>3 DEF AddDependency, RowsFit, EndsLive
  <2> QED BY <1>3, <2>1, <2>2, GrowthKeepsTables DEF AddDependency, TablesFit
<1>4. CASE RemoveDependency(w, d)
  <2>1. LogFits' /\ LogGrows
    BY <1>1, <1>2, <1>4, NoFieldsFit, OneEventFits DEF RemoveDependency
  <2>2. RowsFit(row', deps')
    BY <1>1, <1>4 DEF RemoveDependency, RowsFit, EndsLive
  <2> QED BY <1>4, <2>1, <2>2, GrowthKeepsTables DEF RemoveDependency, TablesFit
<1> QED BY <1>3, <1>4

\* A listing numbers the members of its set.
LEMMA ListingOf ==
    ASSUME NEW S, NEW s \in Listings(S), Len(log) \in Nat
    PROVE  /\ s \in Seq(S) /\ Len(s) \in Nat /\ DOMAIN s = 1 .. Len(s)
           /\ Len(log) + Len(s) <= MaxEvents
           /\ \A x \in S : \E k \in DOMAIN s : s[k] = x
           /\ \A k \in DOMAIN s : s[k] \in S
           /\ \A j, k \in DOMAIN s : s[j] = s[k] => j = k
<1>1. PICK n \in 0 .. MaxEvents - Len(log) : s \in [1 .. n -> S]
  BY DEF Listings, SeqOf
<1>2. s \in Seq(S) /\ Len(s) = n /\ n \in Nat /\ DOMAIN s = 1 .. n
  BY <1>1
<1>3. ToSet(s) = S /\ IsInjective(s)
  BY DEF Listings
<1> QED BY <1>1, <1>2, <1>3, BoundsAssumption DEF ToSet, IsInjective

\* In the order of a deletion every row below the first comes after its parent.
LEMMA ParentsComeFirst ==
    ASSUME LogFits, RowsFit(row, deps), NEW e \in Entities, Live(row, e),
           NEW order \in DeleteOrders(e),
           NEW i \in DOMAIN order, i # 1, order[i] \in Entities
    PROVE  \E j \in 1 .. i - 1 : order[j] = Parent[order[i]]
<1> DEFINE S == {x \in Below(e) : Live(row, x)} \cup Touching(deps, Below(e))
           n == Len(order)
           T == {k \in 0 .. n : k \in 2 .. n /\ order[k] \in Entities =>
                                   \E j \in 1 .. k - 1 : order[j] = Parent[order[k]]}
<1>1. order \in Listings(S) /\ order[1] = e
  BY DEF DeleteOrders
<1>2. Len(log) \in Nat
  BY LogIndices
<1>3. /\ n \in Nat /\ DOMAIN order = 1 .. n
      /\ \A k \in DOMAIN order : order[k] \in S
      /\ \A j, k \in DOMAIN order : order[j] = order[k] => j = k
  BY <1>1, <1>2, ListingOf
<1>4. ASSUME NEW k \in 2 .. n, order[k] \in Entities
      PROVE  /\ order[k] \in Below(e) /\ order[k] # e /\ order[k] \in DOMAIN Parent
             /\ order[k] \in Tasks => Parent[order[k]] = e
  <2>1. order[k] \notin Edges /\ order[k] \in S
    BY <1>3, <1>4, EdgesAssumption
  <2>2. order[k] \in Below(e)
    BY <2>1 DEF Touching, RowsFit
  <2>3. order[k] # e
    BY <1>1, <1>3
  <2>4. order[k] \in DOMAIN Parent
    BY <2>2, <2>3 DEF Below, Children
  <2>5. ASSUME order[k] \in Tasks PROVE Parent[order[k]] = e
    <3>1. CASE order[k] \in Children(e)
      BY <3>1 DEF Children
    <3>2. CASE \E c \in Children(e) : order[k] \in Children(c)
      <4>1. PICK c \in Children(e) : order[k] \in Children(c)
        BY <3>2
      <4>2. c \in Items /\ Parent[order[k]] = c /\ Parent[order[k]] \in Epics
        BY <4>1, <2>4, <2>5, ChildrenOf, ParentAssumption DEF Children
      <4> QED BY <4>2, ParentAssumption DEF Items
    <3> QED BY <2>2, <2>3, <3>1, <3>2 DEF Below
  <2> QED BY <2>2, <2>3, <2>4, <2>5
<1>5. 0 \in T
  BY <1>3
<1>6. ASSUME NEW k \in 1 .. n, k - 1 \in T PROVE k \in T
  <2> SUFFICES ASSUME k \in 2 .. n, order[k] \in Entities
               PROVE  \E j \in 1 .. k - 1 : order[j] = Parent[order[k]]
    OBVIOUS
  <2>1. CASE order[k] \in Tasks
    <3>1. 1 \in 1 .. k - 1
      OBVIOUS
    <3> QED BY <2>1, <3>1, <1>1, <1>4
  <2>2. CASE order[k] \in Subtasks
    <3> DEFINE u == Parent[order[k]]
    <3>1. order[k - 1] \in {u} \cup Children(u)
      BY <2>2, <1>3 DEF DeleteOrders
    <3>2. u \in Tasks
      BY <2>2, ParentAssumption
    <3>3. CASE order[k - 1] = u
      BY <3>3
    <3>4. CASE order[k - 1] \in Children(u)
      <4>1. order[k - 1] \in Subtasks /\ Parent[order[k - 1]] = u
        BY <3>2, <3>4, ChildrenOf DEF Children, Entities
      <4>2. k - 1 # 1
        <5> SUFFICES ASSUME k - 1 = 1 PROVE FALSE
          OBVIOUS
        <5>1. e \in Subtasks
          BY <4>1, <1>1
        <5> QED BY <5>1, <1>4, ChildrenOf
      <4>3. \E j \in 1 .. k - 2 : order[j] = u
        BY <4>1, <4>2, <1>6 DEF Entities
      <4> QED BY <4>3
    <3> QED BY <3>1, <3>3, <3>4
  <2>3. CASE order[k] \in Epics
    <3>1. order[k] \in Items
      BY <1>4, ParentAssumption DEF Items
    <3> QED BY <2>3, <3>1, ParentAssumption DEF Items
  <2> QED BY <2>1, <2>2, <2>3 DEF Entities
<1>7. i \in T
  <2>1. \A k \in 1 .. n : k - 1 \in T => k \in T
    BY <1>6
  <2>2. i \in 0 .. n
    BY <1>3
  <2> HIDE DEF T, n
  <2>3. \A k \in 0 .. n : k \in T
    BY <1>3, <1>5, <2>1, UpTo
  <2> QED BY <2>2, <2>3
<1> QED BY <1>7, <1>3

LEMMA DeleteKeepsFits ==
    ASSUME TablesFit, NEW w \in Worktrees, NEW e \in Entities, Delete(w, e)
    PROVE  TablesFit'
<1> DEFINE S == {x \in Below(e) : Live(row, x)} \cup Touching(deps, Below(e))
<1>1. LogFits /\ RowsFit(row, deps) /\ Len(log) \in Nat /\ Live(row, e)
  BY LogIndices DEF TablesFit, Delete
<1>2. PICK order \in DeleteOrders(e) :
          AppendEvents([k \in DOMAIN order |-> CascadeEvent(w, order, k)])
  BY DEF Delete
<1> DEFINE events == [k \in DOMAIN order |-> CascadeEvent(w, order, k)]
           n == Len(order)
<1>3. order \in Listings(S) /\ order[1] = e
  BY <1>2 DEF DeleteOrders
<1>4. /\ n \in Nat /\ DOMAIN order = 1 .. n /\ Len(log) + n <= MaxEvents
      /\ \A k \in DOMAIN order : order[k] \in S
      /\ \A j, k \in DOMAIN order : order[j] = order[k] => j = k
  BY <1>1, <1>3, ListingOf
<1>5. \A k \in DOMAIN order : order[k] \in Entities \cup Edges
  <2>1. Below(e) \subseteq Entities
    <3>1. Children(e) \subseteq Entities
      BY ChildrenOf DEF Entities, Items
    <3>2. \A c \in Entities : Children(c) \subseteq Entities
      BY ChildrenOf DEF Entities, Items
    <3> QED BY <3>1, <3>2 DEF Below
  <2> QED BY <1>1, <1>4, <2>1 DEF RowsFit, Touching
<1>6. ASSUME NEW k \in DOMAIN order
      PROVE  LET ev == CascadeEvent(w, order, k) IN
             /\ ev \in Events
             /\ \/ ev.op = "deleted" /\ ev.ent \in Entities
                \/ ev.op = "removed" /\ ev.ent \in Edges
             /\ DOMAIN ev.fields = {}
             /\ ev.cause < Len(log) + k
  <2> DEFINE ev == CascadeEvent(w, order, k)
  <2>1. NoFields \in UNION {Contents(F) : F \in SUBSET Fields} /\ DOMAIN NoFields = {}
    BY NoFieldsFit
  <2>2. ASSUME NEW op \in {"deleted", "removed"}, NEW cause \in 0 .. MaxEvents
        PROVE  Event(w, op, order[k], NoFields, cause) \in Events
    BY <1>5, <2>1 DEF Event, Events
  <2>3. CASE order[k] \in Edges
    <3>1. ev = Event(w, "removed", order[k], NoFields, Len(log) + 1)
      BY <2>3 DEF CascadeEvent
    <3>2. k # 1 /\ k \in 1 .. n
      BY <2>3, <1>3, <1>4, EdgesAssumption
    <3>3. Len(log) + 1 \in 0 .. MaxEvents /\ Len(log) + 1 < Len(log) + k
      BY <3>2, <1>1, <1>4, BoundsAssumption
    <3>4. ev \in Events
      BY <3>1, <3>3, <2>2
    <3>5. ev.op = "removed" /\ ev.ent = order[k] /\ ev.fields = NoFields /\ ev.cause = Len(log) + 1
      BY <3>1 DEF Event
    <3> HIDE DEF ev
    <3>6. ev.cause < Len(log) + k
      BY <3>3, <3>5
    <3>7. DOMAIN ev.fields = {}
      BY <3>5, <2>1
    <3> QED BY <3>4, <3>5, <3>6, <3>7, <2>3 DEF ev
  <2>4. CASE order[k] \notin Edges /\ k = 1
    <3>1. ev = Event(w, "deleted", order[k], NoFields, 0)
      BY <2>4 DEF CascadeEvent
    <3>2. 0 \in 0 .. MaxEvents
      BY BoundsAssumption
    <3>3. ev \in Events
      BY <3>1, <3>2, <2>2
    <3>4. ev.op = "deleted" /\ ev.ent = order[k] /\ ev.fields = NoFields /\ ev.cause = 0
      BY <3>1 DEF Event
    <3>5. order[k] \in Entities /\ 0 < Len(log) + k
      BY <2>4, <1>1, <1>5
    <3> HIDE DEF ev
    <3> QED BY <3>3, <3>4, <3>5, <2>1 DEF ev
  <2>5. CASE order[k] \notin Edges /\ k # 1
    <3> DEFINE c == CHOOSE j \in DOMAIN order : order[j] = Parent[order[k]]
    <3>1. ev = Event(w, "deleted", order[k], NoFields, Len(log) + c)
      BY <2>5 DEF CascadeEvent
    <3>2. order[k] \in Entities
      BY <2>5, <1>5
    <3>3. PICK j \in 1 .. k - 1 : order[j] = Parent[order[k]]
      BY <3>2, <2>5, <1>1, <1>2, ParentsComeFirst
    <3>4. j \in DOMAIN order
      BY <1>4
    <3>5. c = j
      BY <3>3, <3>4, <1>4
    <3>6. Len(log) + c \in 0 .. MaxEvents /\ Len(log) + c < Len(log) + k
      BY <3>3, <3>5, <1>1, <1>4, BoundsAssumption
    <3> HIDE DEF c
    <3>7. ev \in Events
      BY <3>1, <3>6, <2>2
    <3>8. ev.op = "deleted" /\ ev.ent = order[k] /\ ev.fields = NoFields /\ ev.cause = Len(log) + c
      BY <3>1 DEF Event
    <3> HIDE DEF ev
    <3>9. ev.cause < Len(log) + k
      BY <3>6, <3>8
    <3>10. DOMAIN ev.fields = {}
      BY <3>8, <2>1
    <3> QED BY <3>7, <3>8, <3>9, <3>10, <3>2 DEF ev
  <2> QED BY <2>3, <2>4, <2>5
<1>7. events \in Seq(Events) /\ DOMAIN events = DOMAIN order /\ AppendEvents(events)
  <2>1. \A k \in 1 .. n : events[k] \in Events
    BY <1>4, <1>6
  <2> QED BY <2>1, <1>2, <1>4
<1>8. LogFits' /\ LogGrows
  <2>1. \A k \in DOMAIN events : events[k] = CascadeEvent(w, order, k)
    BY <1>7
  <2> HIDE DEF events
  <2> QED BY <2>1, <1>1, <1>6, <1>7, AppendedFit
<1>9. RowsFit(row', deps')
  <2>1. row' = RemoveSubtree(row, e) /\ deps' = deps \ Touching(deps, Below(e))
    BY DEF Delete
  <2>2. row' \in Rows /\ RowsHaveParents(row')
    BY <2>1, <1>1, RemoveSubtreeFits DEF RowsFit
  <2>3. \A x \in Entities : Live(row, x) /\ x \notin Below(e) => Live(row', x)
    BY <2>1, <1>1, RemoveSubtreeFits DEF RowsFit, Live
  <2>4. \A d \in deps' : d[1] \in Entities \ Below(e) /\ d[2] \in Entities \ Below(e)
    BY <2>1, <1>1, EdgesAssumption DEF RowsFit, Touching, Entities, Items
  <2>5. EndsLive(row', deps')
    BY <1>1, <2>1, <2>3, <2>4 DEF RowsFit, EndsLive
  <2> QED BY <2>1, <2>2, <2>5, <1>1 DEF RowsFit
<1> QED BY <1>8, <1>9, GrowthKeepsTables DEF Delete, TablesFit

----------------------------------------------------------------------------
(* Resolution *)

\* Resolving conflicts: the state before, then one conflict after the other.
LEMMA ResolvingSteps ==
    ASSUME NEW order, Len(order) \in Nat, NEW choice
    PROVE  /\ Resolving(order, choice)[0] = [row |-> row, deps |-> deps, conflicts |-> conflicts]
           /\ \A k \in 1 .. Len(order) :
                 Resolving(order, choice)[k] =
                    ResolveConflictRow(Resolving(order, choice)[k - 1], order[k], choice)
<1> DEFINE before == [row |-> row, deps |-> deps, conflicts |-> conflicts]
           Step(s, k) == ResolveConflictRow(s, order[k], choice)
           Steps(g, n) == g = [k \in 0 .. n |-> IF k = 0 THEN before ELSE Step(g[k - 1], k)]
           T == {n \in 0 .. Len(order) : \E g : Steps(g, n)}
<1> HIDE DEF before, Step
<1>1. 0 \in T
  <2>1. Steps([k \in 0 .. 0 |-> before], 0)
    OBVIOUS
  <2>2. \E g : Steps(g, 0)
    BY <2>1
  <2> HIDE DEF Steps
  <2> QED BY <2>2
<1>2. ASSUME NEW n \in 1 .. Len(order), n - 1 \in T PROVE n \in T
  <2>1. PICK g : Steps(g, n - 1)
    BY <1>2
  <2> DEFINE h == [k \in 0 .. n |-> IF k < n THEN g[k] ELSE Step(g[n - 1], n)]
  <2>2. Steps(h, n)
    <3>1. ASSUME NEW k \in 0 .. n
          PROVE  h[k] = IF k = 0 THEN before ELSE Step(h[k - 1], k)
      <4>1. CASE k < n
        BY <4>1, <2>1
      <4>2. CASE k = n
        BY <4>2
      <4> QED BY <4>1, <4>2
    <3> HIDE DEF h
    <3>2. h = [k \in 0 .. n |-> h[k]]
      BY DEF h
    <3> QED BY <3>1, <3>2
  <2> HIDE DEF Steps, h
  <2> QED BY <2>2
<1>3. Len(order) \in T
  <2>1. \A n \in 1 .. Len(order) : n - 1 \in T => n \in T
    BY <1>2
  <2> HIDE DEF T
  <2>2. \A n \in 0 .. Len(order) : n \in T
    BY <1>1, <2>1, UpTo
  <2> QED BY <2>2
<1>4. Resolving(order, choice) = CHOOSE g : Steps(g, Len(order))
  BY DEF Resolving, Step, before
<1>5. Steps(Resolving(order, choice), Len(order))
  <2> HIDE DEF Steps
  <2> QED BY <1>3, <1>4
<1> HIDE DEF Steps
<1>6. /\ Resolving(order, choice)[0] = before
      /\ \A k \in 1 .. Len(order) :
            Resolving(order, choice)[k] = Step(Resolving(order, choice)[k - 1], k)
  BY <1>5 DEF Steps
<1> QED BY <1>6 DEF Step, before

ResolvingFits(s) ==
    /\ s = [row |-> s.row, deps |-> s.deps, conflicts |-> s.conflicts]
    /\ RowsFit(s.row, s.deps)
    /\ ConflictsFit(s.conflicts)

\* One conflict is resolved, and perhaps others go: none changes otherwise.
LEMMA ConflictResolved ==
    ASSUME LogFits, NEW s, ResolvingFits(s), NEW choice \in {"ours", "theirs"},
           NEW c \in Conflicts, ConflictFits(c), c.resolution = "pending"
    PROVE  LET t == ResolveConflictRow(s, c, choice) IN
           /\ ResolvingFits(t)
           /\ \A d \in t.conflicts : d \in s.conflicts \/ d.resolution = choice
<1> DEFINE t == ResolveConflictRow(s, c, choice)
           e == log[c.event].ent
           gone == IF choice = "theirs"
                   THEN ConflictsAbout(s.conflicts, c.scope, ForgottenWith(s.row, c)) \ {c}
                   ELSE {}
           Now(d) == IF d = c THEN [d EXCEPT !.resolution = choice] ELSE d
<1>1. /\ t.row = IF choice = "theirs" THEN ApplyTheirs(s.row, c) ELSE s.row
      /\ t.deps = IF choice = "theirs" THEN DepsWithout(s.deps, s.row, c) ELSE s.deps
      /\ t.conflicts = {Now(d) : d \in s.conflicts \ gone}
      /\ t = [row |-> t.row, deps |-> t.deps, conflicts |-> t.conflicts]
  BY DEF ResolveConflictRow
<1> HIDE DEF t, gone
<1>2. /\ c.event \in DOMAIN log /\ e \in Entities \cup Edges
      /\ EventFits(c.event) /\ Payload(log[c.event].fields)
  BY LogIndices DEF ConflictFits
<1>3. /\ Now(c).event = c.event /\ Now(c).field = c.field /\ Now(c).scope = c.scope
      /\ Now(c).resolution = choice
      /\ Now(c) \in Conflicts
  BY DEF Conflicts
<1>4. \A d : d # c => Now(d) = d
  OBVIOUS
<1> HIDE DEF Now
<1>5. \A d \in s.conflicts : SameKey(Now(d), d) /\ Now(d) \in Conflicts /\ ConflictFits(Now(d))
  BY <1>3, <1>4, ConflictFits(c) DEF ResolvingFits, ConflictsFit, ConflictFits, SameKey
<1>6. ConflictsFit(t.conflicts)
  <2>1. ASSUME NEW x \in t.conflicts, NEW y \in t.conflicts, SameKey(x, y)
        PROVE  x = y
    <3>1. PICK dx \in s.conflicts : x = Now(dx)
      BY <1>1
    <3>2. PICK dy \in s.conflicts : y = Now(dy)
      BY <1>1
    <3>3. SameKey(dx, dy)
      BY <3>1, <3>2, <2>1, <1>5 DEF SameKey
    <3> QED BY <3>1, <3>2, <3>3 DEF ResolvingFits, ConflictsFit, OnePerField
  <2> QED BY <2>1, <1>1, <1>5 DEF ConflictsFit, OnePerField
<1>7. \A d \in t.conflicts : d \in s.conflicts \/ d.resolution = choice
  BY <1>1, <1>3, <1>4
<1>8. RowsFit(t.row, t.deps)
  <2>1. CASE choice # "theirs"
    BY <1>1, <2>1 DEF ResolvingFits
  <2>2. CASE choice = "theirs" /\ c.field = "__delete__"
    <3>1. e \in Epics => \E i \in DOMAIN log : log[i].op = "deleted" /\ log[i].ent \in Epics
      <4>1. log[c.event].op \in {"deleted", "removed"}
        BY <2>2 DEF ConflictFits
      <4> QED BY <4>1, <1>2, EdgesAssumption DEF EventFits, Entities
    <3>2. RowsFit(RemoveSubtree(s.row, e), Detach(s.deps, s.row, e))
      BY <3>1, <1>2, DeletionFits DEF ResolvingFits
    <3>3. t.row = RemoveSubtree(s.row, e) /\ t.deps \subseteq Detach(s.deps, s.row, e)
      BY <2>2, <1>1 DEF ApplyTheirs, DepsWithout
    <3> QED BY <3>2, <3>3 DEF RowsFit, EndsLive
  <2>3. CASE choice = "theirs" /\ c.field # "__delete__"
    <3>1. t.deps = s.deps
      BY <2>3, <1>1 DEF DepsWithout
    <3>2. CASE t.row = s.row
      BY <3>1, <3>2 DEF ResolvingFits
    <3>3. CASE Live(s.row, e) /\ t.row = Patch(s.row, e, [f \in {c.field} |-> log[c.event].fields[f]])
      <4>0. c.field \in Fields
        BY <2>3 DEF Conflicts, ConflictFits
      <4>1. Payload([f \in {c.field} |-> log[c.event].fields[f]])
        BY <4>0, <1>2 DEF ConflictFits, Payload
      <4>2. e \in Entities
        BY <4>0, <1>2 DEF ConflictFits, EventFits
      <4>3. ParentLive(s.row, e)
        BY <3>3, <4>2 DEF ResolvingFits, RowsFit, RowsHaveParents
      <4> QED BY <3>1, <3>3, <4>1, <4>2, <4>3, PatchWrites, WritesFit DEF ResolvingFits, RowsFit
    <3> QED BY <3>2, <3>3, <2>3, <1>1 DEF ApplyTheirs
  <2> QED BY <2>1, <2>2, <2>3
<1> QED BY <1>1, <1>6, <1>7, <1>8 DEF ResolvingFits, t

LEMMA Resolutions ==
    ASSUME TablesFit, NEW w \in Worktrees, NEW choice \in {"ours", "theirs"},
           NEW C \in SUBSET PendingOf(w), Resolve(w, C, choice)
    PROVE  /\ RowsFit(row', deps') /\ ConflictsFit(conflicts')
           /\ \A d \in conflicts' : d \in conflicts \/ d.resolution = choice
           /\ LogFits' /\ LogGrows
<1>1. /\ LogFits /\ RowsFit(row, deps) /\ ConflictsFit(conflicts) /\ Len(log) \in Nat
  BY LogIndices DEF TablesFit
<1>2. PICK order \in Listings(C) :
          /\ LET s == Resolving(order, choice)[Len(order)]
             IN  row' = s.row /\ deps' = s.deps /\ conflicts' = s.conflicts
          /\ AppendEvents([k \in DOMAIN order |->
                 Event(w, "resolve_conflict", log[order[k].event].ent, NoFields, 0)])
  BY DEF Resolve
<1> DEFINE n == Len(order)
           R == Resolving(order, choice)
           T == {k \in 0 .. n :
                    /\ ResolvingFits(R[k])
                    /\ \A d \in R[k].conflicts : d \in conflicts \/ d.resolution = choice}
<1>3. /\ n \in Nat /\ DOMAIN order = 1 .. n
      /\ \A k \in DOMAIN order : order[k] \in C
  BY <1>1, ListingOf
<1>4. \A k \in 1 .. n :
          /\ order[k] \in Conflicts /\ ConflictFits(order[k]) /\ order[k].resolution = "pending"
          /\ order[k].event \in DOMAIN log
  BY <1>1, <1>3 DEF PendingOf, ConflictsFit, ConflictFits
<1>5. /\ R[0] = [row |-> row, deps |-> deps, conflicts |-> conflicts]
      /\ \A k \in 1 .. n : R[k] = ResolveConflictRow(R[k - 1], order[k], choice)
  BY <1>3, ResolvingSteps
<1> HIDE DEF R
<1>6. 0 \in T
  BY <1>1, <1>3, <1>5 DEF ResolvingFits
<1>7. ASSUME NEW k \in 1 .. n, k - 1 \in T PROVE k \in T
  <2> DEFINE s == R[k - 1]
             c == order[k]
  <2>0. /\ R[k] = ResolveConflictRow(s, c, choice) /\ ResolvingFits(s)
        /\ c \in Conflicts /\ ConflictFits(c) /\ c.resolution = "pending"
    BY <1>4, <1>5, <1>7
  <2> HIDE DEF s, c
  <2>1. /\ ResolvingFits(R[k])
        /\ \A d \in R[k].conflicts : d \in s.conflicts \/ d.resolution = choice
    BY <1>1, <2>0, ConflictResolved
  <2> USE DEF s, c
  <2> QED BY <2>1, <1>7
<1>8. n \in T
  <2>1. \A k \in 1 .. n : k - 1 \in T => k \in T
    BY <1>7
  <2> HIDE DEF T, n
  <2>2. \A k \in 0 .. n : k \in T
    BY <1>3, <1>6, <2>1, UpTo
  <2> QED BY <1>3, <2>2
<1>9. row' = R[n].row /\ deps' = R[n].deps /\ conflicts' = R[n].conflicts
  BY <1>2 DEF R
<1>10. LogFits' /\ LogGrows
  <2> DEFINE events == [k \in DOMAIN order |->
                          Event(w, "resolve_conflict", log[order[k].event].ent, NoFields, 0)]
  <2>1. \A k \in 1 .. n :
           /\ events[k] \in Events /\ events[k].op = "resolve_conflict"
           /\ events[k].fields = NoFields /\ events[k].cause = 0
    <3>1. \A k \in 1 .. n : log[order[k].event].ent \in Entities \cup Edges
      BY <1>1, <1>4, LogIndices
    <3>2. NoFields \in UNION {Contents(F) : F \in SUBSET Fields} /\ 0 \in 0 .. MaxEvents
      BY NoFieldsFit, BoundsAssumption
    <3> QED BY <3>1, <3>2, <1>3 DEF Event, Events
  <2>2. events \in Seq(Events) /\ DOMAIN events = 1 .. n /\ AppendEvents(events)
    BY <2>1, <1>2, <1>3
  <2> HIDE DEF events
  <2>3. \A k \in DOMAIN events : events[k].cause < Len(log) + k
    BY <2>1, <2>2, <1>1
  <2> QED BY <2>1, <2>2, <2>3, <1>1, NoFieldsFit, AppendedFit
<1> QED BY <1>8, <1>9, <1>10 DEF ResolvingFits

LEMMA ResolveKeepsFits ==
    ASSUME TablesFit, NEW w \in Worktrees, NEW choice \in {"ours", "theirs"},
           NEW C \in SUBSET PendingOf(w), Resolve(w, C, choice)
    PROVE  TablesFit'
BY Resolutions, GrowthKeepsTables DEF Resolve

----------------------------------------------------------------------------
(* Pulls *)

\* What holds before a batch and is kept by the replay of each of its events holds after it:
\* that the tables fit.
LEMMA ReplayingFits ==
    ASSUME TablesFit, NEW p \in Pullers, pull[p] # Idle
    PROVE  \A i \in 0 .. Len(log) : StateFits(Replaying(p)[i], In[p], pull[p].start)
<1> DEFINE R == Replaying(p)
           w == In[p]
           T == {i \in 0 .. Len(log) : StateFits(R[i], w, pull[p].start)}
<1>1. LogFits /\ Len(log) \in Nat /\ LogIsSequence
  BY LogIndices DEF TablesFit
<1>2. w \in Worktrees /\ pull[p].start \in Nat /\ pull[p].start <= Len(log)
      /\ pull[p].batch \subseteq DOMAIN log
  BY <1>1, WorktreesAssumption DEF TablesFit, IInv, PointersValid, Pulls
<1>3. /\ R[0] = [row |-> row, deps |-> deps, conflicts |-> conflicts, ours |-> ours[p]]
      /\ \A i \in 1 .. Len(log) :
            R[i] = IF i \in pull[p].batch THEN Replay(R[i - 1], w, i) ELSE R[i - 1]
  BY <1>1, ReplayingSteps
<1> HIDE DEF R
<1>4. 0 \in T
  <2>1. CacheFits(w, ours[p], pull[p].start)
    BY DEF TablesFit, CachesFit
  <2> QED BY <1>1, <1>3, <2>1 DEF StateFits, TablesFit
<1>5. ASSUME NEW i \in 1 .. Len(log), i - 1 \in T PROVE i \in T
  BY <1>1, <1>2, <1>3, <1>5, ReplayFits
<1>6. \A i \in 0 .. Len(log) : i \in T
  <2>1. \A i \in 1 .. Len(log) : i - 1 \in T => i \in T
    BY <1>5
  <2> HIDE DEF T
  <2> QED BY <1>1, <1>4, <2>1, UpTo
<1> QED BY <1>6 DEF R

\* Where the log stays as it is and only the pull of one process changes.
LEMMA OnePullKeepsFits ==
    ASSUME TablesFit, IInv', NEW p \in Pullers,
           UNCHANGED log, RowsFit(row', deps'), ConflictsFit(conflicts'),
           pull' = [pull EXCEPT ![p] = pull'[p]], ours' = [ours EXCEPT ![p] = ours'[p]],
           pull'[p] = Idle => ours'[p] = <<>>,
           pull'[p] # Idle =>
              /\ CacheFits(In[p], ours'[p], pull'[p].start)
              /\ Cardinality(pull'[p].batch) <= BatchSize
    PROVE  TablesFit'
<1>1. \A q \in Pullers : q # p => pull'[q] = pull[q] /\ ours'[q] = ours[q]
  BY DEF TablesFit, IInv, PointersValid, CachesFit
<1>2. LogFits'
  BY DEF TablesFit, LogFits, EventFits
<1>3. RowsFit(row, deps)'
  BY DEF RowsFit, RowsHaveParents, ParentLive, EndsLive, Live, Rows
<1>4. ConflictsFit(conflicts)'
  BY DEF ConflictsFit, ConflictFits, OnePerField, SameKey
<1>5. CachesFit'
  <2>1. ours' = [q \in Pullers |-> ours'[q]]
    BY DEF TablesFit, CachesFit
  <2>2. ASSUME NEW q \in Pullers
        PROVE  /\ pull'[q] = Idle => ours'[q] = <<>>
               /\ pull'[q] # Idle => CacheFits(In[q], ours'[q], pull'[q].start)
    BY <1>1 DEF TablesFit, CachesFit
  <2>3. ASSUME NEW q \in Pullers, CacheFits(In[q], ours'[q], pull'[q].start)
        PROVE  CacheFits(In[q], ours[q], pull[q].start)'
    <3>1. \A e, f, n : OwnSay(In[q], e, f, n)' = OwnSay(In[q], e, f, n)
      BY DEF OwnSay, OwnWrites, OwnEvents
    <3> QED BY <3>1, <2>3 DEF CacheFits
  <2> QED BY <2>1, <2>2, <2>3 DEF CachesFit
<1>6. BatchesFit'
  BY <1>1 DEF TablesFit, BatchesFit
<1> QED BY <1>2, <1>3, <1>4, <1>5, <1>6 DEF TablesFit

\* A batch is no larger than it may be.
LEMMA NextBatchIsSmall ==
    ASSUME LogIsSequence, NEW p, NextBatch(p) # {}
    PROVE  Cardinality(NextBatch(p)) <= BatchSize
<1> DEFINE Until(k) == {x \in Backlog(p) : x <= k}
           last == Max(NextBatch(p))
<1>1. Len(log) \in Nat /\ Backlog(p) \subseteq 1 .. Len(log) /\ NextBatch(p) \subseteq Backlog(p)
  BY LogLength DEF Backlog, NextBatch
<1>2. last \in NextBatch(p) /\ \A y \in NextBatch(p) : y <= last
  BY <1>1, MaxOfBounded
<1> HIDE DEF last
<1>3. NextBatch(p) \in SUBSET Until(last)
  BY <1>1, <1>2
<1>4. IsFiniteSet(Until(last))
  <2>1. IsFiniteSet(1 .. Len(log))
    BY <1>1, FS_Interval
  <2> QED BY <1>1, <2>1, FS_Subset
<1>5. Cardinality(Until(last)) <= BatchSize
  BY <1>2 DEF NextBatch
<1>6. /\ Cardinality(NextBatch(p)) <= Cardinality(Until(last))
      /\ Cardinality(NextBatch(p)) \in Nat /\ Cardinality(Until(last)) \in Nat
  BY <1>3, <1>4, FS_Subset, FS_CardinalityType
<1> HIDE DEF Until
<1> QED BY <1>5, <1>6, BoundsAssumption

LEMMA PullEndsKeepsFits ==
    ASSUME TablesFit, NEW p \in Pullers, PullEnds(p), IInv',
           UNCHANGED log, RowsFit(row', deps'), ConflictsFit(conflicts')
    PROVE  TablesFit'
<1>1. pull'[p] = Idle /\ ours'[p] = <<>>
  BY DEF PullEnds, TablesFit, IInv, PointersValid, CachesFit
<1> QED BY <1>1, OnePullKeepsFits DEF PullEnds

\* The commit of a batch, given what it left of the tables and the cache.
LEMMA CommitKeepsFits ==
    ASSUME TablesFit, NEW p \in Pullers, pull[p] # Idle, pull[p].batch # {},
           NEW found, Commit(p, found), CacheFits(In[p], found, pull[p].start),
           RowsFit(row', deps'), ConflictsFit(conflicts')
    PROVE  TablesFit'
<1>1. IInv'
  BY CommitKeepsIInv DEF TablesFit
<1>2. CASE PullEnds(p)
  BY <1>1, <1>2, PullEndsKeepsFits DEF Commit
<1>3. CASE ~PullEnds(p)
  <2> DEFINE next == [pull[p] EXCEPT !.at = Max(pull[p].batch), !.batch = {}]
  <2>1. /\ pull' = [pull EXCEPT ![p] = next]
        /\ ours' = [ours EXCEPT ![p] = found]
    BY <1>3 DEF Commit
  <2>2. pull[p] \in Pulls
    BY DEF TablesFit, IInv, PointersValid
  <2>3. next.start = pull[p].start /\ next.batch = {} /\ next # Idle
    BY <2>2 DEF Pulls, Idle
  <2>4. pull'[p] = next /\ ours'[p] = found
    BY <2>1 DEF TablesFit, IInv, PointersValid, CachesFit
  <2>5. Cardinality({}) <= BatchSize
    BY FS_EmptySet, BoundsAssumption
  <2> HIDE DEF next
  <2> QED BY <1>1, <2>1, <2>3, <2>4, <2>5, OnePullKeepsFits DEF Commit
<1> QED BY <1>2, <1>3

LEMMA PullKeepsFits ==
    ASSUME TablesFit, NEW p \in Pullers,
           \/ \E src \in Sources : PullStart(p, src)
           \/ PullRead(p)
           \/ PullBatch(p)
           \/ PullSameBranch(p)
           \/ PullDies(p)
    PROVE  TablesFit'
<1>1. LogFits /\ RowsFit(row, deps) /\ ConflictsFit(conflicts) /\ LogIsSequence /\ Len(log) \in Nat
  BY LogIndices DEF TablesFit
<1>2. ASSUME NEW src \in Sources, PullStart(p, src) PROVE TablesFit'
  <2>1. IInv'
    BY <1>2, PullStartKeepsIInv, WorktreesAssumption DEF TablesFit
  <2>2. pull'[p] = [src |-> src, at |-> cursor[In[p]][src], batch |-> {}, start |-> Len(log)]
    BY <1>2 DEF PullStart, TablesFit, IInv, PointersValid
  <2>3. ours[p] = <<>>
    BY <1>2 DEF PullStart, TablesFit, CachesFit
  <2>4. CacheFits(In[p], ours'[p], pull'[p].start)
    BY <1>2, <2>3 DEF PullStart, CacheFits
  <2>5. Cardinality(pull'[p].batch) <= BatchSize
    BY <2>2, FS_EmptySet, BoundsAssumption
  <2>6. pull'[p] # Idle
    BY <2>2 DEF Idle
  <2>7. ours' = [ours EXCEPT ![p] = ours'[p]]
    BY <1>2 DEF PullStart, TablesFit, CachesFit
  <2> QED BY <1>1, <1>2, <2>1, <2>2, <2>4, <2>5, <2>6, <2>7, OnePullKeepsFits DEF PullStart
<1>3. CASE PullRead(p)
  <2>1. IInv'
    BY <1>3, PullReadKeepsIInv DEF TablesFit
  <2>2. CASE NextBatch(p) = {}
    BY <1>1, <1>3, <2>1, <2>2, PullEndsKeepsFits DEF PullRead
  <2>3. CASE NextBatch(p) # {}
    <3>1. pull' = [pull EXCEPT ![p].batch = NextBatch(p)] /\ UNCHANGED <<row, deps, log, conflicts, ours>>
      BY <1>3, <2>3 DEF PullRead
    <3>2. pull[p] \in Pulls
      BY <1>3 DEF PullRead, TablesFit, IInv, PointersValid
    <3>3. /\ pull'[p].batch = NextBatch(p) /\ pull'[p].start = pull[p].start
          /\ pull'[p] # Idle
          /\ pull' = [pull EXCEPT ![p] = pull'[p]]
      <4>1. pull'[p] = [pull[p] EXCEPT !.batch = NextBatch(p)]
        BY <3>1 DEF TablesFit, IInv, PointersValid
      <4>2. pull' = [pull EXCEPT ![p] = pull'[p]]
        BY <3>1, <4>1
      <4> QED BY <4>1, <4>2, <3>2 DEF Pulls, Idle
    <3>4. ours' = [ours EXCEPT ![p] = ours'[p]]
      BY <3>1 DEF TablesFit, CachesFit
    <3>5. CacheFits(In[p], ours'[p], pull'[p].start)
      BY <1>3, <3>1, <3>3 DEF PullRead, TablesFit, CachesFit
    <3>6. Cardinality(pull'[p].batch) <= BatchSize
      BY <1>1, <2>3, <3>3, NextBatchIsSmall
    <3> QED BY <1>1, <2>1, <3>1, <3>3, <3>4, <3>5, <3>6, OnePullKeepsFits
  <2> QED BY <2>2, <2>3
<1>4. CASE PullBatch(p)
  <2>1. StateFits(Replaying(p)[Len(log)], In[p], pull[p].start)
    BY <1>1, <1>4, ReplayingFits DEF PullBatch
  <2> QED BY <1>4, <2>1, CommitKeepsFits DEF PullBatch, StateFits
<1>5. CASE PullSameBranch(p)
  <2>1. CacheFits(In[p], ours[p], pull[p].start)
    BY <1>5 DEF PullSameBranch, TablesFit, CachesFit
  <2> QED BY <1>1, <1>5, <2>1, CommitKeepsFits DEF PullSameBranch
<1>6. CASE PullDies(p)
  <2>1. IInv'
    BY <1>6, PullEndsKeepsIInv DEF PullDies, TablesFit
  <2> QED BY <1>1, <1>6, <2>1, PullEndsKeepsFits DEF PullDies
<1> QED BY <1>2, <1>3, <1>4, <1>5, <1>6

LEMMA InitFits == Init => TablesFit
<1> SUFFICES ASSUME Init PROVE TablesFit
  OBVIOUS
<1>1. IInv
  BY InitIInv
<1>2. PICK c \in [Entities -> Contents(Required \cup Optional)] :
          /\ row = [e \in Entities |->
                IF \E i \in DOMAIN Past : Past[i] = e
                THEN [f \in Fields |-> IF f \in DOMAIN c[e] THEN c[e][f] ELSE Default]
                ELSE Absent]
          /\ log = [i \in DOMAIN Past |-> Event(Origin, "created", Past[i], c[Past[i]], 0)]
  BY DEF Init
<1>3. /\ Past \in Seq(Entities) /\ Len(Past) \in Nat /\ DOMAIN Past = 1 .. Len(Past)
      /\ Len(Past) <= MaxEvents
  BY PastAssumption
<1>4. Required \cup Optional \in SUBSET Fields
  BY DEF Fields
<1>5. LogFits
  <2>1. \A i \in DOMAIN Past : log[i] \in Events
    <3>1. \A i \in DOMAIN Past : c[Past[i]] \in UNION {Contents(F) : F \in SUBSET Fields}
      BY <1>3, <1>4
    <3> QED BY <3>1, <1>2, <1>3, PastAssumption, BoundsAssumption DEF Event, Events
  <2>2. log \in Seq(Events) /\ Len(log) = Len(Past) /\ DOMAIN log = 1 .. Len(Past)
    BY <2>1, <1>2, <1>3
  <2>3. \A i \in DOMAIN log : /\ log[i].op = "created" /\ log[i].ent = Past[i] /\ log[i].cause = 0
                              /\ Past[i] \in Entities
    BY <1>2, <1>3 DEF Event
  <2>4. \A i \in DOMAIN log : EventFits(i)
    BY <2>2, <2>3, <1>3, PastAssumption DEF EventFits
  <2> QED BY <2>2, <2>4, <1>3 DEF LogFits
<1>6. RowsFit(row, deps)
  <2>1. ASSUME NEW e \in Entities, \E i \in DOMAIN Past : Past[i] = e
        PROVE  row[e] \in Contents(Fields)
    <3>1. row[e] = [f \in Fields |-> IF f \in DOMAIN c[e] THEN c[e][f] ELSE Default]
      BY <1>2, <2>1
    <3>2. c[e] \in Contents(Required \cup Optional)
      OBVIOUS
    <3>3. Payload(c[e]) /\ Required \subseteq DOMAIN c[e]
      BY <3>2, <1>4, ContentsArePayloads
    <3>4. \A f \in Fields : row[e][f] \in ColumnValues(f)
      BY <3>1, <3>3 DEF Payload, ColumnValues
    <3>5. \A f \in Fields : row[e][f] \in Values \cup {Default}
      BY <3>4, ColumnHasValue
    <3>6. row[e] = [f \in Fields |-> row[e][f]]
      BY <3>1
    <3> QED BY <3>4, <3>5, <3>6 DEF Contents
  <2>2. \A e \in Entities : ~(\E i \in DOMAIN Past : Past[i] = e) => row[e] = Absent
    BY <1>2
  <2>3. row \in Rows
    BY <1>2, <2>1, <2>2 DEF Rows
  <2>4. RowsHaveParents(row)
    <3> SUFFICES ASSUME NEW x \in Entities, Live(row, x), x \in DOMAIN Parent
                 PROVE  Live(row, Parent[x])
      BY DEF RowsHaveParents, ParentLive
    <3>1. PICK i \in DOMAIN Past : Past[i] = x
      BY <2>2 DEF Live
    <3>2. \E j \in DOMAIN Past : Past[j] = Parent[x]
      BY <3>1, <1>3, PastAssumption
    <3>3. Parent[x] \in Entities
      BY ParentAssumption DEF Entities
    <3> QED BY <3>2, <3>3, <2>1, AbsentIsNoRow DEF Live
  <2> QED BY <2>3, <2>4 DEF Init, RowsFit, EndsLive
<1>7. ConflictsFit(conflicts)
  BY DEF Init, ConflictsFit, OnePerField
<1>8. \A p \in Pullers : pull[p] = Idle /\ ours[p] = <<>>
  BY DEF Init
<1>9. CachesFit /\ BatchesFit
  BY <1>8 DEF Init, CachesFit, BatchesFit
<1> QED BY <1>1, <1>5, <1>6, <1>7, <1>9 DEF TablesFit

LEMMA NextKeepsFits == TablesFit /\ [Next]_vars => TablesFit'
<1> SUFFICES ASSUME TablesFit, [Next]_vars PROVE TablesFit'
  OBVIOUS
<1>1. CASE UNCHANGED tables
  <2>1. IInv'
    BY NextKeepsIInv DEF TablesFit
  <2>2. RowsFit(row, deps)' /\ ConflictsFit(conflicts)' /\ LogFits'
    BY <1>1 DEF tables, TablesFit, RowsFit, RowsHaveParents, ParentLive, EndsLive, Live, Rows,
                ConflictsFit, ConflictFits, OnePerField, SameKey, LogFits, EventFits
  <2>3. CachesFit' /\ BatchesFit'
    <3>1. \A q \in Pullers : \A e, f, n : OwnSay(In[q], e, f, n)' = OwnSay(In[q], e, f, n)
      BY <1>1 DEF tables, OwnSay, OwnWrites, OwnEvents
    <3>2. ASSUME NEW q \in Pullers, CacheFits(In[q], ours[q], pull[q].start)
          PROVE  CacheFits(In[q], ours[q], pull[q].start)'
      <4>1. UNCHANGED <<ours, pull, log>>
        BY <1>1 DEF tables
      <4>2. \A e, f, n : OwnSay(In[q], e, f, n)' = OwnSay(In[q], e, f, n)
        BY <3>1
      <4> QED BY <3>2, <4>1, <4>2 DEF CacheFits
    <3>3. CachesFit'
      BY <3>2, <1>1 DEF tables, TablesFit, CachesFit
    <3>4. BatchesFit'
      BY <1>1 DEF tables, TablesFit, BatchesFit
    <3> QED BY <3>3, <3>4
  <2> QED BY <2>1, <2>2, <2>3 DEF TablesFit
<1>2. ASSUME NEW w \in Worktrees, NEW e \in Entities,
             \/ \E c \in Contents(Required \cup Optional) : Create(w, e, c)
             \/ \E f \in Fields : \E v \in ColumnValues(f) : Update(w, e, f, v)
             \/ Delete(w, e)
      PROVE  TablesFit'
  BY <1>2, CreateKeepsFits, UpdateKeepsFits, DeleteKeepsFits
<1>3. ASSUME NEW w \in Worktrees, NEW d \in Edges, AddDependency(w, d) \/ RemoveDependency(w, d)
      PROVE  TablesFit'
  BY <1>3, DependencyKeepsFits
<1>4. ASSUME NEW p \in Pullers,
             \/ \E src \in Sources : PullStart(p, src)
             \/ PullRead(p)
             \/ PullBatch(p)
             \/ PullSameBranch(p)
             \/ PullDies(p)
      PROVE  TablesFit'
  BY <1>4, PullKeepsFits
<1>5. ASSUME NEW w \in Worktrees, NEW choice \in {"ours", "theirs"},
             \E C \in SUBSET PendingOf(w) : Resolve(w, C, choice)
      PROVE  TablesFit'
  BY <1>5, ResolveKeepsFits
<1> QED BY <1>1, <1>2, <1>3, <1>4, <1>5, TablesStep

LEMMA AlwaysFits == Spec => []TablesFit
BY InitFits, NextKeepsFits, PTL DEF Spec

\* The tables hold what their columns may hold, events and conflicts are about what exists,
\* and a dependency has both its ends until an epic is deleted, whatever is replayed,
\* withheld, accepted or refused (replayPullBatch, applyEntityEvent, resolveConflictRow).
THEOREM TypeCorrect == Spec => []TypeOK
BY AlwaysFits, TablesFitTypeOK, PTL

----------------------------------------------------------------------------
(* What one replayed event can do *)

\* A row is lost to a deletion of it or of one above it that is neither withheld nor
\* contradicted by the own branch.
LEMMA RowLost ==
    ASSUME LogFits, NEW w \in Worktrees, NEW from \in Nat, from <= Len(log),
           NEW s, StateFits(s, w, from), NEW i \in DOMAIN log,
           NEW x \in Entities, Live(s.row, x), ~Live(Replay(s, w, i).row, x)
    PROVE  LET t == Replay(s, w, i)
               e == log[i].ent IN
           /\ log[i].op = "deleted" /\ e \in Entities /\ x \in Below(e)
           /\ ~ShouldWithhold(s, w, i) /\ ~EditedSubtree(s.row, w, e)
           /\ t.conflicts = s.conflicts \ ConflictsAbout(s.conflicts, w, Forgotten(s.row, e))
<1> DEFINE t == Replay(s, w, i)
           e == log[i].ent
<1>1. e \in Entities \cup Edges /\ EventFits(i) /\ Payload(log[i].fields) /\ s.row \in Rows
  BY LogIndices DEF StateFits, RowsFit
<1>2. t.row # s.row
  BY DEF Live
<1>3. CASE log[i].op \in {"created", "updated"} /\ t = ReplayWrite(s, w, i)
  <2>1. e \in Entities
    BY <1>1, <1>3 DEF EventFits
  <2>2. PICK contested \in SUBSET DOMAIN log[i].fields : Written(s, t, w, i, from, contested)
    BY <1>3, ReplayedWrite
  <2> DEFINE applied == Restrict(log[i].fields, DOMAIN log[i].fields \ contested)
  <2>3. Payload(applied)
    BY <1>1 DEF Restrict, Payload
  <2>9. \/ Required \subseteq DOMAIN applied /\ t.row = Upsert(s.row, e, applied)
        \/ Live(s.row, e) /\ t.row = Patch(s.row, e, applied)
        \/ t.row = s.row
    BY <2>2 DEF Written
  <2> HIDE DEF applied, t
  <2>4. \E r \in Contents(Fields) : t.row = [s.row EXCEPT ![e] = r]
    BY <1>1, <1>2, <2>1, <2>9, <2>3, PatchWrites, UpsertWrites DEF t
  <2>5. Live(t.row, x)
    BY <1>1, <2>1, <2>4, RowWritten
  <2> QED BY <2>5 DEF t
<1>4. CASE log[i].op = "deleted" /\ t = ReplayDelete(s, w, i)
  <2>1. /\ ~ShouldWithhold(s, w, i) /\ ~EditedSubtree(s.row, w, e)
        /\ t.row = RemoveSubtree(s.row, e)
        /\ t.conflicts = s.conflicts \ ConflictsAbout(s.conflicts, w, Forgotten(s.row, e))
    BY <1>2, <1>4, ReplayedDelete
  <2>2. x \in Below(e)
    BY <1>1, <2>1, RemoveSubtreeFits DEF Live
  <2> QED BY <1>1, <1>4, <2>1, <2>2 DEF EventFits
<1>5. CASE log[i].op = "added" /\ t = ReplayAdded(s, w, i)
  BY <1>2, <1>5, ReplayedAdded
<1>6. CASE log[i].op = "removed" /\ t = ReplayRemoved(s, w, i)
  BY <1>2, <1>6, ReplayedRemoved
<1> HIDE DEF t
<1> QED BY <1>2, <1>3, <1>4, <1>5, <1>6, ReplayKinds DEF t

\* A dependency is lost to its own removal, or to the deletion of a task or subtask that it
\* touches or that has a subtask it touches.
LEMMA DependencyLost ==
    ASSUME LogFits, NEW w \in Worktrees, NEW from \in Nat, from <= Len(log),
           NEW s, StateFits(s, w, from), NEW i \in DOMAIN log,
           NEW d \in s.deps, d \notin Replay(s, w, i).deps
    PROVE  LET t == Replay(s, w, i)
               e == log[i].ent IN
           /\ ~ShouldWithhold(s, w, i)
           /\ \/ /\ log[i].op = "removed" /\ e = d /\ ~Holds(w, d)
                 /\ t.conflicts = s.conflicts
              \/ /\ log[i].op = "deleted" /\ e \in Items /\ ~EditedSubtree(s.row, w, e)
                 /\ \E x \in {e} \cup (IF e \in Tasks THEN LiveChildren(s.row, e) ELSE {}) :
                       x \in Items /\ x \in {d[1], d[2]} /\ x \in Below(e)
                 /\ t.conflicts = s.conflicts \ ConflictsAbout(s.conflicts, w, Forgotten(s.row, e))
<1> DEFINE t == Replay(s, w, i)
           e == log[i].ent
<1>1. e \in Entities \cup Edges /\ EventFits(i)
  BY LogIndices
<1>2. t.deps # s.deps
  OBVIOUS
<1>3. CASE log[i].op \in {"created", "updated"} /\ t = ReplayWrite(s, w, i)
  BY <1>2, <1>3, ReplayedWrite
<1>4. CASE log[i].op = "deleted" /\ t = ReplayDelete(s, w, i)
  <2>1. /\ ~ShouldWithhold(s, w, i) /\ ~EditedSubtree(s.row, w, e)
        /\ t.deps = Detach(s.deps, s.row, e)
        /\ t.conflicts = s.conflicts \ ConflictsAbout(s.conflicts, w, Forgotten(s.row, e))
    BY <1>2, <1>4, ReplayedDelete
  <2>2. e \in Entities
    BY <1>1, <1>4 DEF EventFits
  <2>3. PICK x \in ({e} \cap Items) \cup (IF e \in Tasks THEN LiveChildren(s.row, e) ELSE {}) :
            x \in {d[1], d[2]}
    BY <2>1 DEF Detach, Touching
  <2>4. x \in Items /\ x \in Below(e) /\ e \in Items
    BY <2>2, <2>3, ChildrenOf DEF LiveChildren, Below, Items
  <2> QED BY <1>4, <2>1, <2>3, <2>4
<1>5. CASE log[i].op = "added" /\ t = ReplayAdded(s, w, i)
  BY <1>5, ReplayedAdded
<1>6. CASE log[i].op = "removed" /\ t = ReplayRemoved(s, w, i)
  BY <1>2, <1>6, ReplayedRemoved
<1> HIDE DEF t
<1> QED BY <1>2, <1>3, <1>4, <1>5, <1>6, ReplayKinds DEF t

\* The steps of a batch.
LEMMA BatchSteps ==
    ASSUME TablesFit, NEW p \in Pullers, PullBatch(p)
    PROVE  LET R == Replaying(p)
               n == Len(log) IN
           /\ LogFits /\ n \in Nat /\ DOMAIN log = 1 .. n /\ log' = log
           /\ In[p] \in Worktrees /\ pull[p] \in Pulls
           /\ pull[p].start \in Nat /\ pull[p].start <= n /\ pull[p].batch \subseteq 1 .. n
           /\ R[0].row = row /\ R[0].deps = deps /\ R[0].conflicts = conflicts
           /\ \A i \in 1 .. n :
                 R[i] = IF i \in pull[p].batch THEN Replay(R[i - 1], In[p], i) ELSE R[i - 1]
           /\ \A i \in 0 .. n : StateFits(R[i], In[p], pull[p].start)
           /\ row' = R[n].row /\ deps' = R[n].deps /\ conflicts' = R[n].conflicts
<1>1. LogFits /\ Len(log) \in Nat /\ DOMAIN log = 1 .. Len(log) /\ LogIsSequence
  BY LogIndices DEF TablesFit
<1>2. pull[p] \in Pulls /\ pull[p] # Idle /\ In[p] \in Worktrees
  BY WorktreesAssumption DEF PullBatch, TablesFit, IInv, PointersValid
<1>3. /\ Replaying(p)[0].row = row /\ Replaying(p)[0].deps = deps
      /\ Replaying(p)[0].conflicts = conflicts
  <2> DEFINE r == Replaying(p)[0]
  <2>1. r = [row |-> row, deps |-> deps, conflicts |-> conflicts, ours |-> ours[p]]
    BY <1>1, ReplayingSteps
  <2> HIDE DEF r
  <2>2. r.row = row /\ r.deps = deps /\ r.conflicts = conflicts
    BY <2>1
  <2> QED BY <2>2 DEF r
<1>4. \A i \in 1 .. Len(log) :
         Replaying(p)[i] = IF i \in pull[p].batch
                           THEN Replay(Replaying(p)[i - 1], In[p], i)
                           ELSE Replaying(p)[i - 1]
  BY <1>1, ReplayingSteps
<1>5. \A i \in 0 .. Len(log) : StateFits(Replaying(p)[i], In[p], pull[p].start)
  BY <1>2, ReplayingFits
<1>6. /\ log' = log
      /\ row' = Replaying(p)[Len(log)].row /\ deps' = Replaying(p)[Len(log)].deps
      /\ conflicts' = Replaying(p)[Len(log)].conflicts
  BY DEF PullBatch, Commit
<1>7. pull[p].start \in Nat /\ pull[p].start <= Len(log) /\ pull[p].batch \subseteq 1 .. Len(log)
  BY <1>1, <1>2 DEF Pulls
<1> QED BY <1>1, <1>2, <1>3, <1>4, <1>5, <1>6, <1>7

----------------------------------------------------------------------------
(* Own edits are spared *)

\* What the own branch has touched of a task or subtask, or below it, stops its deletion.
LEMMA EditsStopDeletion ==
    ASSUME NEW rows, NEW w, NEW e \in Entities,
           NEW x \in {e} \cup (IF e \in Tasks THEN LiveChildren(rows, e) ELSE {}),
           ~EditedSubtree(rows, w, e)
    PROVE  /\ ~Edited(w, x)
           /\ \A d \in Edges : x \in Items /\ x \in {d[1], d[2]} => EdgeEvents(w, {d}) = {}
<1>1. ~Edited(w, x)
  BY DEF EditedSubtree
<1>2. ASSUME NEW d \in Edges, x \in Items, x \in {d[1], d[2]} PROVE EdgeEvents(w, {d}) = {}
  <2> DEFINE N == {e} \cup (IF e \in Tasks THEN LiveChildren(rows, e) ELSE {})
  <2>1. d \in Touching(Edges, N \cap Items)
    BY <1>2 DEF Touching
  <2>2. EdgeEvents(w, Touching(Edges, N \cap Items)) = {}
    BY DEF EditedSubtree
  <2> QED BY <2>1, <2>2 DEF EdgeEvents
<1> QED BY <1>1, <1>2

LEMMA BatchSparesDependencies ==
    ASSUME TablesFit, NEW p \in Pullers, PullBatch(p), NEW d \in deps, Holds(In[p], d)
    PROVE  d \in deps'
<1> DEFINE R == Replaying(p)
           n == Len(log)
           w == In[p]
           T == {i \in 0 .. n : d \in R[i].deps}
<1>1. /\ LogFits /\ n \in Nat /\ DOMAIN log = 1 .. n /\ w \in Worktrees
      /\ pull[p].start \in Nat /\ pull[p].start <= n
      /\ R[0].deps = deps /\ deps' = R[n].deps
      /\ \A i \in 1 .. n : R[i] = IF i \in pull[p].batch THEN Replay(R[i - 1], w, i) ELSE R[i - 1]
      /\ \A i \in 0 .. n : StateFits(R[i], w, pull[p].start)
  BY BatchSteps
<1>2. d \in Edges /\ EdgeEvents(w, {d}) # {}
  BY DEF TablesFit, RowsFit, Holds
<1> HIDE DEF R
<1>3. ASSUME NEW i \in 1 .. n, i - 1 \in T, i \notin T PROVE FALSE
  <2> DEFINE s == R[i - 1]
             e == log[i].ent
  <2>1. R[i] = Replay(s, w, i) /\ d \in s.deps /\ d \notin Replay(s, w, i).deps
    BY <1>1, <1>3
  <2>2. StateFits(s, w, pull[p].start) /\ i \in DOMAIN log
    BY <1>1
  <2> HIDE DEF s
  <2>3. /\ e \in Items /\ ~EditedSubtree(s.row, w, e)
        /\ \E x \in {e} \cup (IF e \in Tasks THEN LiveChildren(s.row, e) ELSE {}) :
              x \in Items /\ x \in {d[1], d[2]}
    BY <1>1, <2>1, <2>2, DependencyLost
  <2> QED BY <2>3, <1>2, EditsStopDeletion DEF Items, Entities
<1>4. \A i \in 0 .. n : i \in T
  <2>1. \A i \in 1 .. n : i - 1 \in T => i \in T
    BY <1>3
  <2>2. 0 \in T
    BY <1>1
  <2> HIDE DEF T
  <2> QED BY <1>1, <2>1, <2>2, UpTo
<1> QED BY <1>1, <1>4

LEMMA BatchSparesRows ==
    ASSUME TablesFit, NEW p \in Pullers, PullBatch(p),
           NEW x \in Items, Live(row, x), Edited(In[p], x)
    PROVE  \/ Live(row', x)
           \/ \E i \in pull[p].batch :
                 log[i].op = "deleted" /\ log[i].ent \in Epics /\ x \in Below(log[i].ent)
<1> DEFINE R == Replaying(p)
           n == Len(log)
           w == In[p]
           Above(i) == log[i].op = "deleted" /\ log[i].ent \in Epics /\ x \in Below(log[i].ent)
           T == {i \in 0 .. n : Live(R[i].row, x)}
<1> SUFFICES ASSUME \A i \in pull[p].batch : ~Above(i) PROVE Live(row', x)
  OBVIOUS
<1>1. /\ LogFits /\ n \in Nat /\ DOMAIN log = 1 .. n /\ w \in Worktrees
      /\ pull[p].start \in Nat /\ pull[p].start <= n
      /\ R[0].row = row /\ row' = R[n].row
      /\ \A i \in 1 .. n : R[i] = IF i \in pull[p].batch THEN Replay(R[i - 1], w, i) ELSE R[i - 1]
      /\ \A i \in 0 .. n : StateFits(R[i], w, pull[p].start)
  BY BatchSteps
<1>2. x \in Entities
  BY DEF Items, Entities
<1> HIDE DEF R
<1>3. ASSUME NEW i \in 1 .. n, i - 1 \in T, i \notin T PROVE FALSE
  <2> DEFINE s == R[i - 1]
             e == log[i].ent
  <2>1. i \in pull[p].batch /\ Live(s.row, x) /\ ~Live(Replay(s, w, i).row, x)
    BY <1>1, <1>3
  <2>2. StateFits(s, w, pull[p].start) /\ i \in DOMAIN log
    BY <1>1
  <2> HIDE DEF s
  <2>3. /\ log[i].op = "deleted" /\ e \in Entities /\ x \in Below(e)
        /\ ~EditedSubtree(s.row, w, e)
    BY <1>1, <1>2, <2>1, <2>2, RowLost
  <2>4. e \in Items
    BY <2>1, <2>3 DEF Entities, Items
  <2>5. x \in {e} \cup (IF e \in Tasks THEN LiveChildren(s.row, e) ELSE {})
    BY <2>1, <2>3, <2>4, ChildrenOf DEF LiveChildren, Items
  <2> QED BY <2>3, <2>4, <2>5, EditsStopDeletion
<1>4. \A i \in 0 .. n : i \in T
  <2>1. \A i \in 1 .. n : i - 1 \in T => i \in T
    BY <1>3
  <2>2. 0 \in T
    BY <1>1
  <2> HIDE DEF T
  <2> QED BY <1>1, <2>1, <2>2, UpTo
<1> QED BY <1>1, <1>4

\* For any rows, dependencies and history of pulls: replaying the deletions of another
\* branch (applyEntityEvent, hasLocalDeleteCascadeEdits, hasLocalDependencyEdits) takes
\* nothing that the own branch has touched, but with a whole epic.
THEOREM OwnEditsSpared == Spec => DeletesSpareOwnEdits
<1>1. TablesFit /\ [Next]_vars =>
        [\A p \in Pullers : PullBatch(p) =>
            /\ \A d \in deps : Holds(In[p], d) => d \in deps'
            /\ \A e \in Items :
                  Live(row, e) /\ Edited(In[p], e) =>
                      \/ Live(row', e)
                      \/ \E i \in pull[p].batch :
                            /\ log[i].op = "deleted" /\ log[i].ent \in Epics
                            /\ e \in Below(log[i].ent)]_vars
  BY BatchSparesDependencies, BatchSparesRows
<1> QED BY <1>1, InitFits, NextKeepsFits, PTL DEF Spec, DeletesSpareOwnEdits

----------------------------------------------------------------------------
(* Conflicts come and go *)

\* Why a replayed event may note a pending conflict.
Contradicts(s, w, i, from, field) ==
    LET e == log[i].ent IN
    \/ log[i].op = "deleted" /\ EditedSubtree(s.row, w, e)
    \/ log[i].op = "removed"
    \/ /\ log[i].op \in {"created", "updated"} /\ e \in Entities
       /\ \E n \in from .. Len(log) : OwnSay(w, e, field, n) # NotFound

\* A new conflict is about the event that is replayed and stands where there was none.
LEMMA ConflictNew ==
    ASSUME LogFits, NEW w \in Worktrees, NEW from \in Nat, from <= Len(log),
           NEW s, StateFits(s, w, from), NEW i \in DOMAIN log,
           NEW d \in Replay(s, w, i).conflicts, d \notin s.conflicts
    PROVE  /\ d.event = i /\ d.scope = w
           /\ \A c \in s.conflicts : ~SameKey(c, d)
           /\ d.resolution = "pending" => Contradicts(s, w, i, from, d.field)
<1> DEFINE t == Replay(s, w, i)
           e == log[i].ent
<1>1. EventFits(i) /\ Payload(log[i].fields) /\ ConflictsFit(s.conflicts)
  BY LogIndices DEF StateFits
<1>2. t.conflicts # s.conflicts
  OBVIOUS
<1>3. CASE log[i].op \in {"created", "updated"} /\ t = ReplayWrite(s, w, i)
  <2>1. PICK contested \in SUBSET DOMAIN log[i].fields : Written(s, t, w, i, from, contested)
    BY <1>3, ReplayedWrite
  <2> DEFINE noted == CreateConflicts(s.conflicts, w, i, contested, "pending")
             last == CreateConflicts(noted, w, i, {"__apply__"}, "invalid")
  <2>2. /\ t.conflicts = noted \/ t.conflicts = last
        /\ \A f \in contested : \E n \in from .. Len(log) : OwnSay(w, e, f, n) # NotFound
    BY <2>1 DEF Written
  <2>3. e \in Entities /\ contested \subseteq Fields
        /\ "__delete__" \notin contested /\ "__apply__" \notin contested
    BY <1>1, <1>3, ColumnsAssumption DEF EventFits, Payload
  <2>4. /\ ConflictsFit(noted) /\ s.conflicts \subseteq noted
        /\ \A x \in noted \ s.conflicts :
              /\ x.event = i /\ x.scope = w /\ x.field \in contested
              /\ \A c \in s.conflicts : ~SameKey(c, x)
    BY <1>1, <2>3, ConflictsNoted
  <2> HIDE DEF noted
  <2>5. \A x \in last \ noted :
              /\ x.event = i /\ x.scope = w /\ x.resolution = "invalid"
              /\ \A c \in noted : ~SameKey(c, x)
    BY <2>4, ConflictsNoted, ColumnsAssumption
  <2> HIDE DEF last, t
  <2>6. d \in t.conflicts
    BY DEF t
  <2>7. CASE d \in noted
    BY <1>3, <2>2, <2>3, <2>4, <2>7 DEF Contradicts
  <2>8. CASE d \notin noted
    BY <2>2, <2>4, <2>5, <2>6, <2>8
  <2> QED BY <2>7, <2>8
<1>4. CASE log[i].op = "deleted" /\ t = ReplayDelete(s, w, i)
  <2>1. /\ EditedSubtree(s.row, w, e)
        /\ t.conflicts = CreateConflicts(s.conflicts, w, i, {"__delete__"}, "pending")
    BY <1>2, <1>4, ReplayedDelete
  <2>2. \A x \in t.conflicts \ s.conflicts :
            /\ x.event = i /\ x.scope = w
            /\ \A c \in s.conflicts : ~SameKey(c, x)
    BY <1>1, <1>4, <2>1, ConflictsNoted, ColumnsAssumption
  <2> QED BY <1>4, <2>1, <2>2 DEF Contradicts
<1>5. CASE log[i].op = "added" /\ t = ReplayAdded(s, w, i)
  <2>1. t.conflicts = CreateConflicts(s.conflicts, w, i, {"__apply__"}, "invalid")
    BY <1>2, <1>5, ReplayedAdded
  <2>2. \A x \in t.conflicts \ s.conflicts :
            /\ x.event = i /\ x.scope = w /\ x.resolution = "invalid"
            /\ \A c \in s.conflicts : ~SameKey(c, x)
    BY <1>1, <2>1, ConflictsNoted, ColumnsAssumption
  <2> QED BY <2>2
<1>6. CASE log[i].op = "removed" /\ t = ReplayRemoved(s, w, i)
  <2>1. t.conflicts = CreateConflicts(s.conflicts, w, i, {"__delete__"}, "pending")
    BY <1>2, <1>6, ReplayedRemoved
  <2>2. \A x \in t.conflicts \ s.conflicts :
            /\ x.event = i /\ x.scope = w
            /\ \A c \in s.conflicts : ~SameKey(c, x)
    BY <1>1, <1>6, <2>1, ConflictsNoted, ColumnsAssumption
  <2> QED BY <1>6, <2>2 DEF Contradicts
<1> HIDE DEF t
<1> QED BY <1>2, <1>3, <1>4, <1>5, <1>6, ReplayKinds DEF t

\* Only a deletion that is applied drops conflicts.
LEMMA ConflictDropped ==
    ASSUME LogFits, NEW w \in Worktrees, NEW from \in Nat, from <= Len(log),
           NEW s, StateFits(s, w, from), NEW i \in DOMAIN log,
           NEW c \in s.conflicts, c \notin Replay(s, w, i).conflicts
    PROVE  LET t == Replay(s, w, i)
               e == log[i].ent IN
           /\ log[i].op = "deleted" /\ e \in Entities /\ ~EditedSubtree(s.row, w, e)
           /\ c.scope = w /\ log[c.event].ent \in Forgotten(s.row, e)
           /\ t.row = RemoveSubtree(s.row, e)
           /\ t.conflicts \subseteq s.conflicts
<1> DEFINE t == Replay(s, w, i)
           e == log[i].ent
<1>1. EventFits(i) /\ Payload(log[i].fields) /\ ConflictsFit(s.conflicts)
  BY LogIndices DEF StateFits
<1>2. \A C, F, resolution : C \subseteq CreateConflicts(C, w, i, F, resolution)
  BY DEF CreateConflicts
<1>3. ~(s.conflicts \subseteq t.conflicts)
  OBVIOUS
<1>4. CASE log[i].op \in {"created", "updated"} /\ t = ReplayWrite(s, w, i)
  <2>1. PICK contested \in SUBSET DOMAIN log[i].fields : Written(s, t, w, i, from, contested)
    BY <1>4, ReplayedWrite
  <2> HIDE DEF t
  <2>2. s.conflicts \subseteq t.conflicts
    BY <2>1, <1>2 DEF Written
  <2> QED BY <1>3, <2>2
<1>5. CASE log[i].op = "deleted" /\ t = ReplayDelete(s, w, i)
  <2>1. /\ ~EditedSubtree(s.row, w, e)
        /\ t.row = RemoveSubtree(s.row, e)
        /\ t.conflicts = s.conflicts \ ConflictsAbout(s.conflicts, w, Forgotten(s.row, e))
    BY <1>2, <1>3, <1>5, ReplayedDelete
  <2>2. c.scope = w /\ log[c.event].ent \in Forgotten(s.row, e)
    BY <2>1 DEF ConflictsAbout
  <2> QED BY <1>1, <1>5, <2>1, <2>2 DEF EventFits
<1>6. CASE log[i].op = "added" /\ t = ReplayAdded(s, w, i)
  BY <1>2, <1>3, <1>6, ReplayedAdded
<1>7. CASE log[i].op = "removed" /\ t = ReplayRemoved(s, w, i)
  BY <1>2, <1>3, <1>7, ReplayedRemoved
<1> HIDE DEF t
<1> QED BY <1>3, <1>4, <1>5, <1>6, <1>7, ReplayKinds DEF t

----------------------------------------------------------------------------
(* A deletion that waits holds up what it caused *)

LEMMA NoNewWait ==
    ASSUME LogFits, NEW w \in Worktrees, NEW from \in Nat, from <= Len(log),
           NEW s, StateFits(s, w, from), NEW i \in DOMAIN log,
           NEW k, k # i, ~Pending(s.conflicts, w, k)
    PROVE  ~Pending(Replay(s, w, i).conflicts, w, k)
BY ConflictNew DEF Pending

\* What is applied did not wait, and does not from then on.
LEMMA AppliedDidNotWait ==
    ASSUME LogFits, NEW w \in Worktrees, NEW from \in Nat, from <= Len(log),
           NEW s, StateFits(s, w, from), NEW i \in DOMAIN log, ~ShouldWithhold(s, w, i),
           Replay(s, w, i).conflicts \subseteq s.conflicts
    PROVE  ~Pending(Replay(s, w, i).conflicts, w, log[i].cause)
<1>1. \A c \in s.conflicts : c.event # 0
  BY DEF StateFits, ConflictsFit, Conflicts
<1> QED BY <1>1 DEF ShouldWithhold, Pending

LEMMA RowsWait ==
    ASSUME TablesFit, NEW p \in Pullers, PullBatch(p), NEW x \in Items, Live(row, x),
           \A i \in DeletesOf(p, x) : Waits(In[p], {i, log[i].cause})'
    PROVE  Live(row', x)
<1> DEFINE R == Replaying(p)
           n == Len(log)
           w == In[p]
           Done(i, j) ==
              /\ j <= i
              /\ ~Pending(R[i].conflicts, w, j) /\ ~Pending(R[i].conflicts, w, log[j].cause)
           T == {i \in 0 .. n : Live(R[i].row, x) \/ \E j \in DeletesOf(p, x) : Done(i, j)}
<1>1. /\ LogFits /\ n \in Nat /\ DOMAIN log = 1 .. n /\ w \in Worktrees /\ log' = log
      /\ pull[p].start \in Nat /\ pull[p].start <= n /\ pull[p].batch \subseteq 1 .. n
      /\ R[0].row = row /\ row' = R[n].row /\ conflicts' = R[n].conflicts
      /\ \A i \in 1 .. n : R[i] = IF i \in pull[p].batch THEN Replay(R[i - 1], w, i) ELSE R[i - 1]
      /\ \A i \in 0 .. n : StateFits(R[i], w, pull[p].start)
  BY BatchSteps
<1>2. x \in Entities
  BY DEF Items, Entities
<1>3. DeletesOf(p, x) \subseteq 1 .. n /\ \A j \in DeletesOf(p, x) : log[j].cause < j /\ log[j].cause \in Nat
  BY <1>1, LogIndices DEF DeletesOf, EventFits
<1> HIDE DEF R
<1>4. ASSUME NEW i \in 1 .. n, i - 1 \in T PROVE i \in T
  <2> DEFINE s == R[i - 1]
             e == log[i].ent
  <2>1. StateFits(s, w, pull[p].start) /\ i \in DOMAIN log
    BY <1>1
  <2>2. CASE i \notin pull[p].batch
    <3>1. R[i] = R[i - 1]
      BY <1>1, <2>2
    <3> QED BY <3>1, <1>1, <1>3, <1>4
  <2>3. CASE i \in pull[p].batch
    <3>1. R[i] = Replay(s, w, i)
      BY <1>1, <2>3
    <3>2. CASE Live(s.row, x) /\ ~Live(R[i].row, x)
      <4> HIDE DEF s
      <4>1. /\ log[i].op = "deleted" /\ x \in Below(e)
            /\ ~ShouldWithhold(s, w, i)
            /\ R[i].conflicts = s.conflicts \ ConflictsAbout(s.conflicts, w, Forgotten(s.row, e))
        BY <1>1, <1>2, <2>1, <3>1, <3>2, RowLost
      <4>2. i \in DeletesOf(p, x)
        BY <2>3, <4>1 DEF DeletesOf
      <4>3. ~Pending(R[i].conflicts, w, i)
        BY <4>1 DEF Pending, ConflictsAbout, Forgotten
      <4>4. ~Pending(R[i].conflicts, w, log[i].cause)
        BY <1>1, <2>1, <3>1, <4>1, AppliedDidNotWait
      <4>5. Done(i, i)
        BY <4>3, <4>4
      <4> QED BY <4>2, <4>5
    <3>3. CASE \E j \in DeletesOf(p, x) : Done(i - 1, j)
      <4>1. PICK j \in DeletesOf(p, x) : Done(i - 1, j)
        BY <3>3
      <4>2. j # i /\ log[j].cause # i /\ j <= i
        BY <4>1, <1>3
      <4>3. ~Pending(s.conflicts, w, j) /\ ~Pending(s.conflicts, w, log[j].cause)
        BY <4>1
      <4> HIDE DEF s
      <4>4. ~Pending(R[i].conflicts, w, j) /\ ~Pending(R[i].conflicts, w, log[j].cause)
        BY <4>2, <4>3, <1>1, <2>1, <3>1, NoNewWait
      <4> QED BY <4>2, <4>4
    <3> QED BY <3>2, <3>3, <1>4
  <2> QED BY <2>2, <2>3
<1>5. n \in T
  <2>1. \A i \in 1 .. n : i - 1 \in T => i \in T
    BY <1>4
  <2>2. 0 \in T
    BY <1>1
  <2> HIDE DEF T, n
  <2>3. \A i \in 0 .. n : i \in T
    BY <1>1, <2>1, <2>2, UpTo
  <2> QED BY <1>1, <2>3
<1>6. ~\E j \in DeletesOf(p, x) : Done(n, j)
  BY <1>1 DEF Waits, Pending
<1> QED BY <1>1, <1>5, <1>6

LEMMA RemovalsWait ==
    ASSUME TablesFit, NEW p \in Pullers, PullBatch(p), NEW d \in deps,
           \A i \in RemovalsOf(p, d) : RemovalWaits(In[p], i)'
    PROVE  d \in deps'
<1> DEFINE R == Replaying(p)
           n == Len(log)
           w == In[p]
           Done(i, j) ==
              /\ j <= i
              /\ log[j].op # "removed" => ~Pending(R[i].conflicts, w, j)
              /\ ~Pending(R[i].conflicts, w, log[j].cause)
           T == {i \in 0 .. n : d \in R[i].deps \/ \E j \in RemovalsOf(p, d) : Done(i, j)}
<1>1. /\ LogFits /\ n \in Nat /\ DOMAIN log = 1 .. n /\ w \in Worktrees /\ log' = log
      /\ pull[p].start \in Nat /\ pull[p].start <= n /\ pull[p].batch \subseteq 1 .. n
      /\ R[0].deps = deps /\ deps' = R[n].deps /\ conflicts' = R[n].conflicts
      /\ \A i \in 1 .. n : R[i] = IF i \in pull[p].batch THEN Replay(R[i - 1], w, i) ELSE R[i - 1]
      /\ \A i \in 0 .. n : StateFits(R[i], w, pull[p].start)
  BY BatchSteps
<1>2. RemovalsOf(p, d) \subseteq 1 .. n
      /\ \A j \in RemovalsOf(p, d) : log[j].cause < j /\ log[j].cause \in Nat
  BY <1>1, LogIndices DEF RemovalsOf, DeletesOf, EventFits
<1> HIDE DEF R
<1>3. ASSUME NEW i \in 1 .. n, i - 1 \in T PROVE i \in T
  <2> DEFINE s == R[i - 1]
             e == log[i].ent
  <2>1. StateFits(s, w, pull[p].start) /\ i \in DOMAIN log
    BY <1>1
  <2>2. CASE i \notin pull[p].batch
    <3>1. R[i] = R[i - 1]
      BY <1>1, <2>2
    <3> QED BY <3>1, <1>1, <1>2, <1>3
  <2>3. CASE i \in pull[p].batch
    <3>1. R[i] = Replay(s, w, i)
      BY <1>1, <2>3
    <3>2. CASE d \in s.deps /\ d \notin R[i].deps
      <4> HIDE DEF s
      <4>1. ~ShouldWithhold(s, w, i)
        BY <1>1, <2>1, <3>1, <3>2, DependencyLost
      <4>2. CASE log[i].op = "removed" /\ e = d /\ R[i].conflicts = s.conflicts
        <5>1. i \in RemovalsOf(p, d)
          BY <2>3, <4>2 DEF RemovalsOf
        <5>2. ~Pending(R[i].conflicts, w, log[i].cause)
          BY <1>1, <2>1, <3>1, <4>1, <4>2, AppliedDidNotWait
        <5>3. Done(i, i)
          BY <4>2, <5>2
        <5> QED BY <5>1, <5>3
      <4>3. CASE /\ log[i].op = "deleted"
                 /\ d[1] \in Below(e) \/ d[2] \in Below(e)
                 /\ R[i].conflicts = s.conflicts \ ConflictsAbout(s.conflicts, w, Forgotten(s.row, e))
        <5>1. i \in RemovalsOf(p, d)
          BY <2>3, <4>3 DEF RemovalsOf, DeletesOf
        <5>2. ~Pending(R[i].conflicts, w, log[i].cause)
          BY <1>1, <2>1, <3>1, <4>1, <4>3, AppliedDidNotWait
        <5>3. ~Pending(R[i].conflicts, w, i)
          BY <4>3 DEF Pending, ConflictsAbout, Forgotten
        <5>4. Done(i, i)
          BY <5>2, <5>3
        <5> QED BY <5>1, <5>4
      <4> QED BY <1>1, <2>1, <3>1, <3>2, <4>2, <4>3, DependencyLost
    <3>3. CASE \E j \in RemovalsOf(p, d) : Done(i - 1, j)
      <4>1. PICK j \in RemovalsOf(p, d) : Done(i - 1, j)
        BY <3>3
      <4>2. j # i /\ log[j].cause # i /\ j <= i
        BY <4>1, <1>2
      <4>3. /\ log[j].op # "removed" => ~Pending(s.conflicts, w, j)
            /\ ~Pending(s.conflicts, w, log[j].cause)
        BY <4>1
      <4> HIDE DEF s
      <4>4. /\ log[j].op # "removed" => ~Pending(R[i].conflicts, w, j)
            /\ ~Pending(R[i].conflicts, w, log[j].cause)
        BY <4>2, <4>3, <1>1, <2>1, <3>1, NoNewWait
      <4> QED BY <4>2, <4>4
    <3> QED BY <3>2, <3>3, <1>3
  <2> QED BY <2>2, <2>3
<1>4. n \in T
  <2>1. \A i \in 1 .. n : i - 1 \in T => i \in T
    BY <1>3
  <2>2. 0 \in T
    BY <1>1
  <2> HIDE DEF T, n
  <2>3. \A i \in 0 .. n : i \in T
    BY <1>1, <2>1, <2>2, UpTo
  <2> QED BY <1>1, <2>3
<1>5. ~\E j \in RemovalsOf(p, d) : Done(n, j)
  BY <1>1 DEF RemovalWaits, Waits, Pending
<1> QED BY <1>1, <1>4, <1>5

\* Whatever is in a batch and however often it is replayed: what a waiting deletion caused
\* (shouldWithholdDeleteCascadeEvent) is not applied while it waits.
THEOREM CascadesWait == Spec => CascadeWaits
<1>1. TablesFit /\ [Next]_vars =>
        [\A p \in Pullers : PullBatch(p) =>
            /\ \A e \in Items :
                  /\ Live(row, e)
                  /\ \A i \in DeletesOf(p, e) : Waits(In[p], {i, log[i].cause})'
                  => Live(row', e)
            /\ \A d \in deps :
                  (\A i \in RemovalsOf(p, d) : RemovalWaits(In[p], i)') => d \in deps']_vars
  BY RowsWait, RemovalsWait
<1> QED BY <1>1, InitFits, NextKeepsFits, PTL DEF Spec, CascadeWaits

----------------------------------------------------------------------------
(* What the user has resolved stays resolved *)

\* A row comes into being only where its creation is replayed, below a parent that is there.
LEMMA RowGained ==
    ASSUME LogFits, NEW w \in Worktrees, NEW from \in Nat, from <= Len(log),
           NEW s, StateFits(s, w, from), NEW i \in DOMAIN log,
           NEW x \in Entities, ~Live(s.row, x), Live(Replay(s, w, i).row, x)
    PROVE  log[i].op = "created" /\ log[i].ent = x /\ ParentLive(s.row, x)
<1> DEFINE t == Replay(s, w, i)
           e == log[i].ent
<1>1. e \in Entities \cup Edges /\ EventFits(i) /\ Payload(log[i].fields) /\ s.row \in Rows
  BY LogIndices DEF StateFits, RowsFit
<1>2. t.row # s.row
  BY DEF Live
<1>3. CASE log[i].op \in {"created", "updated"} /\ t = ReplayWrite(s, w, i)
  <2>1. PICK contested \in SUBSET DOMAIN log[i].fields : Written(s, t, w, i, from, contested)
    BY <1>3, ReplayedWrite
  <2> DEFINE applied == Restrict(log[i].fields, DOMAIN log[i].fields \ contested)
  <2>2. Payload(applied) /\ e \in Entities
    BY <1>1, <1>3 DEF Restrict, Payload, EventFits
  <2>3. \/ /\ log[i].op = "created" /\ ParentLive(s.row, e)
           /\ Required \subseteq DOMAIN applied /\ t.row = Upsert(s.row, e, applied)
        \/ Live(s.row, e) /\ t.row = Patch(s.row, e, applied)
    BY <1>2, <2>1 DEF Written
  <2> HIDE DEF applied, t
  <2>4. \E r \in Contents(Fields) : t.row = [s.row EXCEPT ![e] = r]
    BY <1>1, <2>2, <2>3, PatchWrites, UpsertWrites
  <2>5. x = e
    BY <1>1, <2>2, <2>4, RowWritten DEF Live, t
  <2> QED BY <2>3, <2>5
<1>4. CASE log[i].op = "deleted" /\ t = ReplayDelete(s, w, i)
  <2>1. t.row = RemoveSubtree(s.row, e)
    BY <1>2, <1>4, ReplayedDelete
  <2> QED BY <1>1, <2>1, RemoveSubtreeFits DEF Live
<1>5. CASE log[i].op = "added" /\ t = ReplayAdded(s, w, i)
  BY <1>2, <1>5, ReplayedAdded
<1>6. CASE log[i].op = "removed" /\ t = ReplayRemoved(s, w, i)
  BY <1>2, <1>6, ReplayedRemoved
<1> HIDE DEF t
<1> QED BY <1>2, <1>3, <1>4, <1>5, <1>6, ReplayKinds DEF t

\* A row that a batch has deleted, its own branch never having touched it: no later event
\* of the batch about it can contradict the branch.  A task has not come back either, nor
\* can its subtasks without it.
Gone(w, rows, i, x) ==
    /\ x \in Entities
    /\ ~Edited(w, x)
    /\ \A d \in Edges : x \in Items /\ x \in {d[1], d[2]} => EdgeEvents(w, {d}) = {}
    /\ x \in Tasks =>
          /\ ~Live(rows, x) /\ LiveChildren(rows, x) = {}
          /\ \A m \in DOMAIN log : m > i /\ log[m].ent = x => log[m].op # "created"

LEMMA DeletedIsGone ==
    ASSUME LogFits, NEW w \in Worktrees, NEW rows \in Rows, NEW i \in DOMAIN log,
           LET e == log[i].ent IN e \in Entities /\ ~EditedSubtree(rows, w, e),
           NEW x \in Forgotten(rows, log[i].ent)
    PROVE  Gone(w, RemoveSubtree(rows, log[i].ent), i, x)
<1> DEFINE e == log[i].ent
           after == RemoveSubtree(rows, e)
<1>1. x \in {e} \cup (IF e \in Tasks THEN LiveChildren(rows, e) ELSE {})
  BY DEF Forgotten
<1>2. x \in Entities /\ (x \in Tasks => x = e)
  BY <1>1, ChildrenOf, ParentAssumption DEF LiveChildren, Entities
<1>3. /\ ~Edited(w, x)
      /\ \A d \in Edges : x \in Items /\ x \in {d[1], d[2]} => EdgeEvents(w, {d}) = {}
  BY <1>1, EditsStopDeletion
<1>4. ASSUME x \in Tasks PROVE ~Live(after, x) /\ LiveChildren(after, x) = {}
  <2>1. x = e /\ Below(e) = {e} \cup Children(e) /\ Children(e) \subseteq Entities
    BY <1>2, <1>4, ChildrenOf DEF Entities
  <2>2. \A y \in Entities : y \in Below(e) => ~Live(after, y)
    BY <1>2, RemoveSubtreeFits
  <2> QED BY <2>1, <2>2, <1>2 DEF LiveChildren
<1>5. ASSUME x \in Tasks, NEW m \in DOMAIN log, m > i, log[m].ent = x
      PROVE  log[m].op # "created"
  <2>1. EventFits(m) /\ i \in 1 .. m - 1 /\ log[i].ent = x
    BY <1>2, <1>5, LogIndices
  <2> QED BY <2>1, <1>5 DEF EventFits
<1> QED BY <1>2, <1>3, <1>4, <1>5 DEF Gone

LEMMA GoneStaysGone ==
    ASSUME LogFits, NEW w \in Worktrees, NEW from \in Nat, from <= Len(log),
           NEW s, StateFits(s, w, from), NEW i \in DOMAIN log, NEW x, Gone(w, s.row, i - 1, x)
    PROVE  Gone(w, Replay(s, w, i).row, i, x)
<1> DEFINE rows == Replay(s, w, i).row
<1>1. i \in Nat /\ DOMAIN log \subseteq Nat
  BY LogIndices
<1>2. ASSUME x \in Tasks PROVE ~Live(rows, x) /\ LiveChildren(rows, x) = {}
  <2>1. ~Live(rows, x)
    BY <1>1, <1>2, RowGained DEF Gone
  <2>2. ASSUME NEW y \in Children(x) PROVE ~Live(rows, y)
    <3>1. y \in Entities /\ ~Live(s.row, y) /\ ~ParentLive(s.row, y)
      BY <1>2, ChildrenOf DEF Gone, LiveChildren, Children, ParentLive, Entities
    <3> QED BY <3>1, RowGained
  <2> QED BY <2>1, <2>2 DEF LiveChildren
<1> HIDE DEF rows
<1>3. Gone(w, rows, i, x)
  BY <1>1, <1>2 DEF Gone
<1> QED BY <1>3 DEF rows

LEMMA NothingContradictsGone ==
    ASSUME LogFits, NEW w \in Worktrees, NEW from \in Nat, NEW s, NEW i \in DOMAIN log,
           Gone(w, s.row, i - 1, log[i].ent), NEW field
    PROVE  ~Contradicts(s, w, i, from, field)
<1> DEFINE e == log[i].ent
<1>1. e \in Entities /\ EventFits(i) /\ Len(log) \in Nat /\ DOMAIN log = 1 .. Len(log)
  BY LogIndices DEF Gone
<1>2. log[i].op # "removed"
  BY <1>1, EdgesAssumption DEF EventFits
<1>3. \A n \in from .. Len(log) : OwnSay(w, e, field, n) = NotFound
  <2> SUFFICES ASSUME NEW n \in from .. Len(log) PROVE OwnWrites(w, e, field, n) = {}
    BY DEF OwnSay
  <2>1. OwnEvents(w, e, Len(log)) = {}
    BY DEF Gone, Edited
  <2>2. 1 .. n \subseteq 1 .. Len(log)
    BY <1>1
  <2> QED BY <2>1, <2>2 DEF OwnWrites, OwnEvents
<1>4. ~EditedSubtree(s.row, w, e)
  <2>1. {e} \cup (IF e \in Tasks THEN LiveChildren(s.row, e) ELSE {}) = {e}
    BY DEF Gone
  <2>2. EdgeEvents(w, Touching(Edges, {e} \cap Items)) = {}
    <3> SUFFICES ASSUME NEW k \in EdgeEvents(w, Touching(Edges, {e} \cap Items)) PROVE FALSE
      OBVIOUS
    <3>1. log[k].ent \in Edges /\ e \in Items /\ e \in {log[k].ent[1], log[k].ent[2]}
      BY DEF EdgeEvents, Touching
    <3>2. k \in EdgeEvents(w, {log[k].ent})
      BY DEF EdgeEvents
    <3> QED BY <3>1, <3>2 DEF Gone
  <2> QED BY <2>1, <2>2 DEF EditedSubtree, Gone
<1> QED BY <1>2, <1>3, <1>4 DEF Contradicts

LEMMA BatchKeepsResolutions ==
    ASSUME TablesFit, NEW p \in Pullers, PullBatch(p),
           NEW c \in conflicts, c.resolution # "pending",
           NEW d \in conflicts', SameKey(c, d)
    PROVE  d.resolution # "pending"
<1> DEFINE R == Replaying(p)
           n == Len(log)
           w == In[p]
           x == log[c.event].ent
           T == {i \in 0 .. n :
                    /\ c \in R[i].conflicts \/ Gone(w, R[i].row, i, x)
                    /\ \A b \in R[i].conflicts : SameKey(c, b) => b.resolution # "pending"}
<1>1. /\ LogFits /\ n \in Nat /\ DOMAIN log = 1 .. n /\ w \in Worktrees
      /\ pull[p].start \in Nat /\ pull[p].start <= n
      /\ R[0].conflicts = conflicts /\ conflicts' = R[n].conflicts
      /\ \A i \in 1 .. n : R[i] = IF i \in pull[p].batch THEN Replay(R[i - 1], w, i) ELSE R[i - 1]
      /\ \A i \in 0 .. n : StateFits(R[i], w, pull[p].start)
  BY BatchSteps
<1> HIDE DEF R
<1>2. 0 \in T
  BY <1>1 DEF TablesFit, ConflictsFit, OnePerField
<1>3. ASSUME NEW i \in 1 .. n, i - 1 \in T PROVE i \in T
  <2> DEFINE s == R[i - 1]
  <2>1. StateFits(s, w, pull[p].start) /\ i \in DOMAIN log /\ s.row \in Rows
    BY <1>1 DEF StateFits, RowsFit
  <2>2. CASE i \notin pull[p].batch
    <3>1. R[i] = s
      BY <1>1, <2>2
    <3>2. Gone(w, s.row, i - 1, x) => Gone(w, s.row, i, x)
      BY <1>1 DEF Gone
    <3> QED BY <3>1, <3>2, <1>3
  <2>3. CASE i \in pull[p].batch
    <3> DEFINE t == Replay(s, w, i)
    <3>1. R[i] = t
      BY <1>1, <2>3
    <3>2. /\ c \in s.conflicts \/ Gone(w, s.row, i - 1, x)
          /\ \A b \in s.conflicts : SameKey(c, b) => b.resolution # "pending"
      BY <1>3
    <3> HIDE DEF s
    <3>3. c \in t.conflicts \/ Gone(w, t.row, i, x)
      <4>1. CASE c \in s.conflicts /\ c \notin t.conflicts
        <5>1. /\ log[i].ent \in Entities /\ ~EditedSubtree(s.row, w, log[i].ent)
              /\ x \in Forgotten(s.row, log[i].ent)
              /\ t.row = RemoveSubtree(s.row, log[i].ent)
          BY <1>1, <2>1, <4>1, ConflictDropped
        <5> HIDE DEF t, x
        <5> QED BY <1>1, <2>1, <5>1, DeletedIsGone
      <4>2. CASE Gone(w, s.row, i - 1, x)
        BY <1>1, <2>1, <4>2, GoneStaysGone
      <4> QED BY <3>2, <4>1, <4>2
    <3>4. ASSUME NEW b \in t.conflicts, SameKey(c, b), b.resolution = "pending" PROVE FALSE
      <4>1. b \notin s.conflicts
        BY <3>2, <3>4
      <4>2. /\ b.event = i /\ \A a \in s.conflicts : ~SameKey(a, b)
            /\ Contradicts(s, w, i, pull[p].start, b.field)
        BY <1>1, <2>1, <3>4, <4>1, ConflictNew
      <4>3. Gone(w, s.row, i - 1, log[i].ent)
        BY <3>2, <3>4, <4>2 DEF SameKey
      <4> QED BY <1>1, <2>1, <4>2, <4>3, NothingContradictsGone
    <3> HIDE DEF t
    <3> QED BY <3>1, <3>3, <3>4
  <2> QED BY <2>2, <2>3
<1>4. n \in T
  <2>1. \A i \in 1 .. n : i - 1 \in T => i \in T
    BY <1>3
  <2> HIDE DEF T, n
  <2>2. \A i \in 0 .. n : i \in T
    BY <1>1, <1>2, <2>1, UpTo
  <2> QED BY <1>1, <2>2
<1> QED BY <1>1, <1>4

LEMMA StepKeepsResolutions ==
    ASSUME TablesFit, Next, NEW c \in conflicts, c.resolution \in {"ours", "theirs"},
           NEW d \in conflicts', SameKey(c, d)
    PROVE  d.resolution # "pending"
<1>1. CASE d \in conflicts
  BY <1>1 DEF TablesFit, ConflictsFit, OnePerField
<1>2. ASSUME NEW p \in Pullers, PullBatch(p) PROVE d.resolution # "pending"
  BY <1>2, BatchKeepsResolutions
<1>3. ASSUME NEW w \in Worktrees, NEW choice \in {"ours", "theirs"},
             NEW C \in SUBSET PendingOf(w), Resolve(w, C, choice)
      PROVE  d.resolution # "pending"
  BY <1>1, <1>3, Resolutions
<1>4. CASE UNCHANGED conflicts
  BY <1>1, <1>4
<1> QED BY <1>2, <1>3, <1>4, TablesStep
        DEF tables, Create, Update, Delete, AddDependency, RemoveDependency, PullStart, PullRead,
            PullSameBranch, PullDies

\* However often an event is replayed, and though a deletion drops conflicts that a later
\* event of the batch could raise again: what the user has decided (sync resolve) is not
\* asked again.
THEOREM ResolutionsStick == Spec => ResolutionSticks
<1>1. TablesFit /\ [Next]_vars =>
        [\A c \in conflicts : c.resolution \in {"ours", "theirs"} =>
            ~\E d \in conflicts' :
                d.event = c.event /\ d.field = c.field /\ d.scope = c.scope
                /\ d.resolution = "pending"]_vars
  BY StepKeepsResolutions DEF SameKey
<1> QED BY <1>1, InitFits, NextKeepsFits, PTL DEF Spec, ResolutionSticks

----------------------------------------------------------------------------
(* Nobody is settled unasked *)

\* One conflict of C is resolved: only rows that one of C is about or that are below it
\* change, and of the conflicts that are not in C only those that an accepted deletion of
\* a row drops with it.
Spares(C, t) ==
    /\ \A e \in Entities : t.row[e] # row[e] => \E c \in C : e \in Below(log[c.event].ent)
    /\ \A x \in conflicts \ C :
          \/ x \in t.conflicts
          \/ \E d \in C : d.field = "__delete__" /\ log[x.event].ent \in Below(log[d.event].ent)

LEMMA OneSpares ==
    ASSUME NEW C, NEW c \in C, NEW s, ResolvingFits(s), Spares(C, s)
    PROVE  Spares(C, ResolveConflictRow(s, c, "theirs"))
<1> DEFINE t == ResolveConflictRow(s, c, "theirs")
           e == log[c.event].ent
           gone == ConflictsAbout(s.conflicts, c.scope, ForgottenWith(s.row, c)) \ {c}
           Now(d) == IF d = c THEN [d EXCEPT !.resolution = "theirs"] ELSE d
<1>1. t.row = ApplyTheirs(s.row, c) /\ t.conflicts = {Now(d) : d \in s.conflicts \ gone}
  BY DEF ResolveConflictRow
<1>2. e \in Below(e) /\ Children(e) \subseteq Below(e)
  BY DEF Below
<1>3. ASSUME NEW x \in Entities, t.row[x] # s.row[x] PROVE x \in Below(e)
  <2>1. s.row = [y \in Entities |-> s.row[y]]
    BY DEF ResolvingFits, RowsFit, Rows
  <2>2. CASE t.row = RemoveSubtree(s.row, e)
    BY <2>2, <1>3 DEF RemoveSubtree
  <2>3. CASE \E fields : t.row = Patch(s.row, e, fields)
    BY <2>1, <2>3, <1>2, <1>3 DEF Patch
  <2> QED BY <1>1, <1>3, <2>2, <2>3 DEF ApplyTheirs
<1>4. ASSUME NEW x \in s.conflicts, x \notin C, x \notin t.conflicts
      PROVE  c.field = "__delete__" /\ log[x.event].ent \in Below(e)
  <2>1. x # c /\ Now(x) = x
    BY <1>4
  <2>2. x \in gone
    BY <2>1, <1>1, <1>4
  <2>3. log[x.event].ent \in ForgottenWith(s.row, c)
    BY <2>2 DEF ConflictsAbout
  <2> QED BY <2>3, <1>2 DEF ForgottenWith, Forgotten, LiveChildren
<1> HIDE DEF t
<1>5. \A x \in Entities : t.row[x] # row[x] => \E d \in C : x \in Below(log[d.event].ent)
  BY <1>3 DEF Spares
<1>6. \A x \in conflicts \ C :
         \/ x \in t.conflicts
         \/ \E d \in C : d.field = "__delete__" /\ log[x.event].ent \in Below(log[d.event].ent)
  BY <1>4 DEF Spares
<1> QED BY <1>5, <1>6 DEF Spares, t

\* All of them, in whichever order they are resolved.
LEMMA ResolveSpares ==
    ASSUME TablesFit, NEW w \in Worktrees, NEW C \in SUBSET PendingOf(w), Resolve(w, C, "theirs")
    PROVE  Spares(C, [row |-> row', deps |-> deps', conflicts |-> conflicts'])
<1>1. LogFits /\ RowsFit(row, deps) /\ ConflictsFit(conflicts) /\ Len(log) \in Nat
  BY LogIndices DEF TablesFit
<1>2. PICK order \in Listings(C) :
          LET s == Resolving(order, "theirs")[Len(order)]
          IN  row' = s.row /\ deps' = s.deps /\ conflicts' = s.conflicts
  BY DEF Resolve
<1> DEFINE n == Len(order)
           R == Resolving(order, "theirs")
           T == {k \in 0 .. n : ResolvingFits(R[k]) /\ Spares(C, R[k])}
<1>3. /\ n \in Nat /\ DOMAIN order = 1 .. n
      /\ \A k \in DOMAIN order : order[k] \in C
  BY <1>1, ListingOf
<1>4. \A k \in 1 .. n :
          order[k] \in C /\ order[k] \in Conflicts /\ ConflictFits(order[k]) /\ order[k].resolution = "pending"
  BY <1>1, <1>3 DEF PendingOf, ConflictsFit
<1>5. /\ R[0] = [row |-> row, deps |-> deps, conflicts |-> conflicts]
      /\ \A k \in 1 .. n : R[k] = ResolveConflictRow(R[k - 1], order[k], "theirs")
  BY <1>3, ResolvingSteps
<1>6. row' = R[n].row /\ conflicts' = R[n].conflicts
  BY <1>2
<1> HIDE DEF R
<1>7. 0 \in T
  BY <1>1, <1>3, <1>5 DEF ResolvingFits, Spares
<1>8. ASSUME NEW k \in 1 .. n, k - 1 \in T PROVE k \in T
  <2>1. ResolvingFits(R[k])
    BY <1>1, <1>4, <1>5, <1>8, ConflictResolved
  <2>2. Spares(C, R[k])
    BY <1>4, <1>5, <1>8, OneSpares
  <2> QED BY <2>1, <2>2
<1>9. n \in T
  <2>1. \A k \in 1 .. n : k - 1 \in T => k \in T
    BY <1>8
  <2> HIDE DEF T, n
  <2>2. \A k \in 0 .. n : k \in T
    BY <1>3, <1>7, <2>1, UpTo
  <2> QED BY <1>3, <2>2
<1> QED BY <1>6, <1>9 DEF Spares

\* Every worktree has its list, empty or not.
ListsAsked == DOMAIN asked = Worktrees

LEMMA NextKeepsLists == ListsAsked /\ [Next]_vars => ListsAsked'
BY DEF ListsAsked, Next, vars, Ask, Confirm, Decline, Answered

LEMMA AnswerSpares ==
    ASSUME TablesFit, ListsAsked, Next, NEW w \in Askers, asked[w] # {}, asked'[w] = {}
    PROVE  Spares(asked[w], [row |-> row', deps |-> deps', conflicts |-> conflicts'])
<1>1. PICK v \in Askers : Ask(v) \/ Confirm(v) \/ Decline(v)
  BY DEF Next
<1>2. v \in Worktrees /\ w \in Worktrees
  BY WorktreesAssumption
<1>3. ~Ask(v)
  BY <1>2 DEF Ask, ListsAsked
<1>4. v = w
  BY <1>1, <1>2, <1>3 DEF Confirm, Decline, Answered, ListsAsked
<1>5. CASE Confirm(w)
  BY <1>2, <1>5, ResolveSpares DEF Confirm
<1>6. CASE Decline(w)
  BY <1>6 DEF Decline, tables, Spares
<1> QED BY <1>1, <1>3, <1>4, <1>5, <1>6

\* A user who says yes settles the conflicts that were listed (syncResolveAllPreview) and no
\* others, whatever pulls, commands and other resolutions do before the answer.
THEOREM ShownIsResolved == Spec => ResolvesWhatWasShown
<1> DEFINE Told == \A w \in Askers : asked[w] # {} /\ asked'[w] = {} =>
                     /\ \A e \in Entities : row'[e] # row[e] =>
                           \E c \in asked[w] : e \in Below(log[c.event].ent)
                     /\ \A c \in PendingOf(w) \ asked[w] :
                           \/ c \in conflicts'
                           \/ \E d \in asked[w] :
                                 d.field = "__delete__" /\ log[c.event].ent \in Below(log[d.event].ent)
<1>1. TablesFit /\ ListsAsked /\ [Next]_vars => [Told]_vars
  <2> SUFFICES ASSUME TablesFit, ListsAsked, Next PROVE Told
    OBVIOUS
  <2> QED BY AnswerSpares DEF Spares, PendingOf
<1>2. Init => ListsAsked
  BY DEF Init, ListsAsked
<1> HIDE DEF Told
<1>3. Spec => [][Told]_vars
  BY <1>1, <1>2, AlwaysFits, NextKeepsLists, PTL DEF Spec
<1> QED BY <1>3 DEF Told, ResolvesWhatWasShown

----------------------------------------------------------------------------
(* Nothing is lost unnoticed *)

\* A replayed event touches its own row and, if it deletes it, those below.
LEMMA RowKept ==
    ASSUME LogFits, NEW w \in Worktrees, NEW from \in Nat, from <= Len(log),
           NEW s, StateFits(s, w, from), NEW i \in DOMAIN log,
           NEW x \in Entities, x \notin Below(log[i].ent)
    PROVE  Replay(s, w, i).row[x] = s.row[x]
<1> DEFINE t == Replay(s, w, i)
           e == log[i].ent
<1>1. /\ e \in Entities \cup Edges /\ EventFits(i) /\ Payload(log[i].fields) /\ s.row \in Rows
      /\ x # e
  BY LogIndices DEF StateFits, RowsFit, Below
<1>2. CASE log[i].op \in {"created", "updated"} /\ t = ReplayWrite(s, w, i)
  <2>1. PICK contested \in SUBSET DOMAIN log[i].fields : Written(s, t, w, i, from, contested)
    BY <1>2, ReplayedWrite
  <2> DEFINE applied == Restrict(log[i].fields, DOMAIN log[i].fields \ contested)
  <2>2. Payload(applied) /\ e \in Entities
    BY <1>1, <1>2 DEF Restrict, Payload, EventFits
  <2>3. \/ Required \subseteq DOMAIN applied /\ t.row = Upsert(s.row, e, applied)
        \/ Live(s.row, e) /\ t.row = Patch(s.row, e, applied)
        \/ t.row = s.row
    BY <2>1 DEF Written
  <2> HIDE DEF applied, t
  <2>4. t.row = s.row \/ \E r \in Contents(Fields) : t.row = [s.row EXCEPT ![e] = r]
    BY <1>1, <2>2, <2>3, PatchWrites, UpsertWrites
  <2>5. ASSUME NEW r \in Contents(Fields), t.row = [s.row EXCEPT ![e] = r]
        PROVE  t.row[x] = s.row[x]
    BY <1>1, <2>5
  <2>6. t.row[x] = s.row[x]
    BY <2>4, <2>5
  <2> QED BY <2>6 DEF t
<1>3. CASE log[i].op = "deleted" /\ t = ReplayDelete(s, w, i)
  BY <1>1, <1>3, ReplayedDelete, RemoveSubtreeFits
<1>4. CASE log[i].op = "added" /\ t = ReplayAdded(s, w, i)
  BY <1>4, ReplayedAdded
<1>5. CASE log[i].op = "removed" /\ t = ReplayRemoved(s, w, i)
  BY <1>5, ReplayedRemoved
<1> HIDE DEF t
<1> QED BY <1>2, <1>3, <1>4, <1>5, ReplayKinds DEF t

\* A column gets the incoming value, which the own branch does not contradict, or stays; if
\* it is not required it may get its default.
LEMMA ColumnWritten ==
    ASSUME LogFits, NEW w \in Worktrees, NEW from \in Nat, from <= Len(log),
           NEW s, StateFits(s, w, from), NEW i \in DOMAIN log,
           log[i].op \in {"created", "updated"},
           NEW t, t.row \in Rows,
           NEW contested \in SUBSET DOMAIN log[i].fields, Written(s, t, w, i, from, contested),
           NEW f \in Fields
    PROVE  LET e == log[i].ent IN
           \/ t.row[e] = s.row[e]
           \/ /\ f \in DOMAIN log[i].fields \ contested
              /\ Live(t.row, e) /\ t.row[e][f] = log[i].fields[f]
           \/ /\ f \notin DOMAIN log[i].fields \ contested
              /\ Live(t.row, e) /\ Live(s.row, e) /\ t.row[e][f] = s.row[e][f]
           \/ f \notin Required /\ f \notin DOMAIN log[i].fields \ contested
<1> DEFINE e == log[i].ent
           applied == Restrict(log[i].fields, DOMAIN log[i].fields \ contested)
<1>1. /\ EventFits(i) /\ Payload(log[i].fields) /\ s.row \in Rows
  BY LogIndices DEF StateFits, RowsFit
<1>2. /\ Payload(applied) /\ e \in Entities
      /\ DOMAIN applied = DOMAIN log[i].fields \ contested
      /\ \A g \in DOMAIN applied : applied[g] = log[i].fields[g]
  BY <1>1 DEF Restrict, Payload, EventFits
<1>3. \/ Required \subseteq DOMAIN applied /\ t.row = Upsert(s.row, e, applied)
      \/ Live(s.row, e) /\ t.row = Patch(s.row, e, applied)
      \/ t.row = s.row
  BY DEF Written
<1> HIDE DEF applied
<1>4. CASE Required \subseteq DOMAIN applied /\ t.row = Upsert(s.row, e, applied)
  <2> DEFINE after == Upsert(s.row, e, applied)
  <2>1. PICK r \in Contents(Fields) :
           /\ after = [s.row EXCEPT ![e] = r]
           /\ Upserted(r, applied)
    BY <1>1, <1>2, <1>4, UpsertWrites
  <2> HIDE DEF after
  <2>9. t.row = [s.row EXCEPT ![e] = r]
    BY <1>4, <2>1 DEF after
  <2>2. t.row[e] = r /\ Live(t.row, e)
    BY <1>1, <1>2, <2>9, RowWritten
  <2> QED BY <1>2, <1>4, <2>1, <2>2 DEF Upserted
<1>5. CASE Live(s.row, e) /\ t.row = Patch(s.row, e, applied)
  <2> DEFINE after == Patch(s.row, e, applied)
  <2>1. PICK r \in Contents(Fields) :
           /\ after = [s.row EXCEPT ![e] = r]
           /\ Patched(r, s.row[e], applied)
    BY <1>1, <1>2, <1>5, PatchWrites
  <2> HIDE DEF after
  <2>9. t.row = [s.row EXCEPT ![e] = r]
    BY <1>5, <2>1 DEF after
  <2>2. t.row[e] = r /\ Live(t.row, e)
    BY <1>1, <1>2, <2>9, RowWritten
  <2> QED BY <1>2, <1>5, <2>1, <2>2 DEF Patched
<1> QED BY <1>3, <1>4, <1>5

\* Once a branch has written a column, it has a last word on it.
LEMMA OwnWriteIsSaid ==
    ASSUME LogFits, NEW w, NEW e, NEW f, NEW from \in Nat, OwnWrites(w, e, f, from) # {},
           NEW n \in from .. Len(log)
    PROVE  OwnSay(w, e, f, n) # NotFound
<1> DEFINE W == OwnWrites(w, e, f, n)
<1>1. Len(log) \in Nat /\ DOMAIN log = 1 .. Len(log)
  BY LogIndices
<1>2. n \in Nat /\ W \subseteq 1 .. n /\ 1 .. n \subseteq DOMAIN log
  BY <1>1 DEF OwnWrites, OwnEvents
<1>3. W # {}
  BY <1>1 DEF OwnWrites, OwnEvents
<1>4. Max(W) \in W
  <2> HIDE DEF W
  <2> QED BY <1>2, <1>3, MaxOfBounded
<1>5. Max(W) \in DOMAIN log /\ f \in DOMAIN log[Max(W)].fields
  BY <1>2, <1>4 DEF OwnWrites
<1> HIDE DEF W
<1>6. log[Max(W)].fields[f] \in ColumnValues(f)
  BY <1>5, LogIndices DEF Payload
<1>7. log[Max(W)].fields[f] # NotFound
  BY <1>6, ColumnHasValue, ColumnsAssumption
<1> QED BY <1>3, <1>7 DEF OwnSay, W

LEMMA BatchKeepsOwn ==
    ASSUME TablesFit, NEW p \in Pullers, PullBatch(p)
    PROVE  KeepsOwn(p, Required)
<1> SUFFICES ASSUME NEW x \in Entities, NEW f \in Required, Live(row, x), Live(row', x),
                    row'[x][f] # row[x][f], OwnWrites(In[p], x, f, pull[p].start) # {}
             PROVE  row'[x][f] \in Says(In[p], x, f, pull[p].start)
  BY DEF KeepsOwn
<1> DEFINE R == Replaying(p)
           n == Len(log)
           w == In[p]
           from == pull[p].start
           Fine(v) == v = row[x][f] \/ v \in Says(w, x, f, from)
           T == {i \in 0 .. n : Live(R[i].row, x) => Fine(R[i].row[x][f])}
<1>1. /\ LogFits /\ n \in Nat /\ DOMAIN log = 1 .. n /\ w \in Worktrees
      /\ from \in Nat /\ from <= n
      /\ R[0].row = row /\ row' = R[n].row
      /\ \A i \in 1 .. n : R[i] = IF i \in pull[p].batch THEN Replay(R[i - 1], w, i) ELSE R[i - 1]
      /\ \A i \in 0 .. n : StateFits(R[i], w, from)
  BY BatchSteps
<1> HIDE DEF R
<1>2. ASSUME NEW i \in 1 .. n, i - 1 \in T, i \notin T PROVE FALSE
  <2> DEFINE s == R[i - 1]
             t == Replay(s, w, i)
             e == log[i].ent
  <2>1. /\ R[i] = t /\ i \in DOMAIN log
        /\ Live(s.row, x) => Fine(s.row[x][f])
        /\ Live(t.row, x) /\ ~Fine(t.row[x][f])
    BY <1>1, <1>2
  <2>2. StateFits(s, w, from) /\ StateFits(t, w, from) /\ t.row \in Rows /\ s.row \in Rows
    BY <1>1, <2>1 DEF StateFits, RowsFit
  <2>3. t.row[x] # s.row[x]
    BY <2>1 DEF Live
  <2> HIDE DEF s
  <2>4. x \in Below(e)
    BY <1>1, <2>1, <2>2, <2>3, RowKept
  <2>5. log[i].op \in {"created", "updated"} /\ t = ReplayWrite(s, w, i)
    <3>1. CASE log[i].op = "deleted" /\ t = ReplayDelete(s, w, i)
      <4>1. t.row = RemoveSubtree(s.row, e)
        BY <1>1, <2>1, <2>2, <2>3, <3>1, ReplayedDelete
      <4> QED BY <2>1, <2>2, <2>4, <4>1, RemoveSubtreeFits, LogIndices, <1>1
    <3>2. CASE log[i].op = "added" /\ t = ReplayAdded(s, w, i)
      BY <1>1, <2>1, <2>2, <2>3, <3>2, ReplayedAdded
    <3>3. CASE log[i].op = "removed" /\ t = ReplayRemoved(s, w, i)
      BY <1>1, <2>1, <2>2, <2>3, <3>3, ReplayedRemoved
    <3>4. CASE log[i].op = "resolve_conflict" /\ t = s
      BY <2>3, <3>4
    <3> HIDE DEF t
    <3> QED BY <1>1, <2>1, <3>1, <3>2, <3>3, <3>4, ReplayKinds DEF t
  <2>6. PICK contested \in SUBSET DOMAIN log[i].fields : Written(s, t, w, i, from, contested)
    BY <1>1, <2>1, <2>2, <2>5, ReplayedWrite
  <2> HIDE DEF t
  <2>7. x = e
    <3>1. /\ e \in Entities /\ Payload(log[i].fields)
      BY <1>1, <2>1, <2>5, LogIndices DEF EventFits
    <3> DEFINE applied == Restrict(log[i].fields, DOMAIN log[i].fields \ contested)
    <3>2. Payload(applied)
      BY <3>1 DEF Restrict, Payload
    <3>3. \/ Required \subseteq DOMAIN applied /\ t.row = Upsert(s.row, e, applied)
          \/ Live(s.row, e) /\ t.row = Patch(s.row, e, applied)
      BY <2>3, <2>6 DEF Written
    <3> HIDE DEF applied
    <3>4. \E r \in Contents(Fields) : t.row = [s.row EXCEPT ![e] = r]
      BY <2>2, <3>1, <3>2, <3>3, PatchWrites, UpsertWrites
    <3> QED BY <2>2, <2>3, <3>1, <3>4, RowWritten
  <2>8. \/ f \in DOMAIN log[i].fields \ contested /\ t.row[x][f] = log[i].fields[f]
        \/ Live(s.row, x) /\ t.row[x][f] = s.row[x][f]
    BY <1>1, <2>1, <2>2, <2>3, <2>5, <2>6, <2>7, ColumnWritten DEF Fields
  <2>9. ASSUME f \in DOMAIN log[i].fields \ contested, t.row[x][f] = log[i].fields[f]
        PROVE  Fine(t.row[x][f])
    <3>1. \/ Live(s.row, x) /\ s.row[x][f] = log[i].fields[f]
          \/ \E m \in from .. n : OwnSay(w, x, f, m) \in {NotFound, log[i].fields[f]}
      BY <2>6, <2>7, <2>9 DEF Written
    <3>2. ASSUME NEW m \in from .. n, OwnSay(w, x, f, m) \in {NotFound, log[i].fields[f]}
          PROVE  Fine(t.row[x][f])
      <4>1. OwnSay(w, x, f, m) # NotFound
        BY <1>1, OwnWriteIsSaid
      <4> QED BY <2>9, <3>2, <4>1 DEF Says
    <3> QED BY <2>1, <2>9, <3>1, <3>2
  <2> QED BY <2>1, <2>8, <2>9
<1>3. n \in T
  <2>1. \A i \in 1 .. n : i - 1 \in T => i \in T
    BY <1>2
  <2>2. 0 \in T
    BY <1>1
  <2> HIDE DEF T, n
  <2>3. \A i \in 0 .. n : i \in T
    BY <1>1, <2>1, <2>2, UpTo
  <2> QED BY <1>1, <2>3
<1> QED BY <1>1, <1>3

\* Where an incoming value can be found when the events of a batch up to some index are
\* replayed: in its row, or in the conflicts.
Found(s, w, i, f) ==
    LET e == log[i].ent IN
    \/ Live(s.row, e) /\ s.row[e][f] = log[i].fields[f]
    \/ \E c \in s.conflicts : c.event = i /\ c.scope = w /\ c.field \in {f, "__apply__"}

LEMMA ReplayedIsFound ==
    ASSUME LogFits, NEW w \in Worktrees, NEW from \in Nat, from <= Len(log),
           NEW s, StateFits(s, w, from), NEW i \in DOMAIN log, NEW f \in DOMAIN log[i].fields
    PROVE  Found(Replay(s, w, i), w, i, f)
<1> DEFINE t == Replay(s, w, i)
           e == log[i].ent
<1>1. /\ EventFits(i) /\ Payload(log[i].fields) /\ f \in Fields
  BY LogIndices DEF Payload
<1>2. log[i].op \in {"created", "updated"} /\ t = ReplayWrite(s, w, i)
  <2>1. log[i].op \in {"created", "updated"}
    BY <1>1 DEF EventFits
  <2> QED BY <2>1, ReplayKinds
<1>3. PICK contested \in SUBSET DOMAIN log[i].fields : Written(s, t, w, i, from, contested)
  BY <1>2, ReplayedWrite
<1>4. StateFits(t, w, from) /\ ConflictsFit(s.conflicts) /\ t.row \in Rows /\ s.row \in Rows
  BY ReplayFits DEF StateFits, RowsFit
<1> DEFINE applied == Restrict(log[i].fields, DOMAIN log[i].fields \ contested)
           noted == CreateConflicts(s.conflicts, w, i, contested, "pending")
<1>5. \/ Required \subseteq DOMAIN applied /\ t.row = Upsert(s.row, e, applied) /\ t.conflicts = noted
      \/ Live(s.row, e) /\ t.row = Patch(s.row, e, applied) /\ t.conflicts = noted
      \/ t.conflicts = CreateConflicts(noted, w, i, {"__apply__"}, "invalid")
  BY <1>3 DEF Written
<1>6. /\ ConflictsFit(noted)
      /\ \A g \in contested : \E c \in noted : c.event = i /\ c.scope = w /\ c.field = g
  <2>1. contested \subseteq Fields /\ "__delete__" \notin contested /\ "__apply__" \notin contested
    BY <1>1, ColumnsAssumption DEF Payload
  <2> QED BY <1>4, <2>1, ConflictsNoted
<1>7. /\ Payload(applied) /\ e \in Entities
      /\ DOMAIN applied = DOMAIN log[i].fields \ contested
      /\ \A g \in DOMAIN applied : applied[g] = log[i].fields[g]
  BY <1>1, <1>2 DEF Restrict, Payload, EventFits
<1> HIDE DEF t, applied, noted
<1>8. CASE t.conflicts = CreateConflicts(noted, w, i, {"__apply__"}, "invalid")
  <2>1. \E c \in t.conflicts : c.event = i /\ c.scope = w /\ c.field = "__apply__"
    BY <1>6, <1>8, ConflictsNoted, ColumnsAssumption
  <2> QED BY <2>1 DEF Found, t
<1>9. CASE t.conflicts = noted /\ f \in contested
  BY <1>6, <1>9 DEF Found, t
<1>10. CASE /\ f \notin contested
            /\ \/ Required \subseteq DOMAIN applied /\ t.row = Upsert(s.row, e, applied)
               \/ Live(s.row, e) /\ t.row = Patch(s.row, e, applied)
  <2>1. f \in DOMAIN applied /\ applied[f] = log[i].fields[f]
    BY <1>7, <1>10
  <2>2. PICK r \in Contents(Fields) :
           /\ t.row = [s.row EXCEPT ![e] = r]
           /\ Upserted(r, applied) \/ Patched(r, s.row[e], applied)
    BY <1>4, <1>7, <1>10, PatchWrites, UpsertWrites
  <2>3. r[f] = applied[f]
    BY <1>1, <2>1, <2>2 DEF Upserted, Patched
  <2>4. t.row[e] = r /\ Live(t.row, e)
    BY <1>4, <1>7, <2>2, RowWritten
  <2>5. Live(t.row, e) /\ t.row[e][f] = log[i].fields[f]
    BY <2>1, <2>3, <2>4
  <2> QED BY <2>5 DEF Found, t
<1> QED BY <1>5, <1>8, <1>9, <1>10

LEMMA FoundStays ==
    ASSUME LogFits, NEW w \in Worktrees, NEW from \in Nat, from <= Len(log),
           NEW s, StateFits(s, w, from), NEW k \in DOMAIN log,
           NEW i \in DOMAIN log, NEW f, Found(s, w, i, f),
           log[i].ent \in Entities, log[i].ent \notin Below(log[k].ent)
    PROVE  Found(Replay(s, w, k), w, i, f)
<1> DEFINE t == Replay(s, w, k)
           e == log[i].ent
<1>1. t.row[e] = s.row[e]
  BY RowKept
<1>2. ASSUME NEW c \in s.conflicts, c.event = i, c \notin t.conflicts PROVE FALSE
  <2>1. e \in Forgotten(s.row, log[k].ent)
    BY <1>2, ConflictDropped
  <2> QED BY <2>1 DEF Forgotten, LiveChildren, Below
<1> HIDE DEF t
<1> QED BY <1>1, <1>2 DEF Found, Live, t

LEMMA BatchAccounts ==
    ASSUME TablesFit, NEW p \in Pullers, PullBatch(p),
           NEW i \in pull[p].batch, NEW f \in DOMAIN log[i].fields
    PROVE  AccountedFor(p, i, f)
<1> DEFINE R == Replaying(p)
           n == Len(log)
           w == In[p]
           e == log[i].ent
           T == {k \in 0 .. n : k >= i => Found(R[k], w, i, f)}
<1> SUFFICES ASSUME \A j \in pull[p].batch : j > i => e \notin Below(log[j].ent)
             PROVE  AccountedFor(p, i, f)
  BY DEF AccountedFor
<1>1. /\ LogFits /\ n \in Nat /\ DOMAIN log = 1 .. n /\ w \in Worktrees
      /\ pull[p].start \in Nat /\ pull[p].start <= n /\ pull[p].batch \subseteq 1 .. n
      /\ row' = R[n].row /\ conflicts' = R[n].conflicts
      /\ \A k \in 1 .. n : R[k] = IF k \in pull[p].batch THEN Replay(R[k - 1], w, k) ELSE R[k - 1]
      /\ \A k \in 0 .. n : StateFits(R[k], w, pull[p].start)
  BY BatchSteps
<1>2. i \in 1 .. n /\ e \in Entities
  <2>1. i \in DOMAIN log /\ EventFits(i)
    BY <1>1, LogIndices
  <2> QED BY <1>1, <2>1 DEF EventFits
<1> HIDE DEF R, n
<1>3. ASSUME NEW k \in 1 .. n, k - 1 \in T PROVE k \in T
  <2>1. StateFits(R[k - 1], w, pull[p].start) /\ k \in DOMAIN log
    BY <1>1
  <2>2. CASE k = i
    <3>1. Found(Replay(R[k - 1], w, k), w, i, f)
      BY <1>1, <2>1, <2>2, ReplayedIsFound DEF n
    <3> QED BY <1>1, <2>2, <3>1
  <2>3. CASE k > i
    <3>1. Found(R[k - 1], w, i, f)
      BY <1>2, <1>3, <2>3
    <3>2. CASE k \in pull[p].batch
      <4>1. Found(Replay(R[k - 1], w, k), w, i, f)
        BY <1>1, <1>2, <2>1, <2>3, <3>1, <3>2, FoundStays DEF n
      <4> QED BY <1>1, <3>2, <4>1
    <3>3. CASE k \notin pull[p].batch
      BY <1>1, <3>1, <3>3
    <3> QED BY <3>2, <3>3
  <2> QED BY <1>2, <2>2, <2>3
<1>4. n \in T
  <2>1. \A k \in 1 .. n : k - 1 \in T => k \in T
    BY <1>3
  <2>2. 0 \in T
    BY <1>1, <1>2
  <2> HIDE DEF T
  <2>3. \A k \in 0 .. n : k \in T
    BY <1>1, <2>1, <2>2, UpTo
  <2> QED BY <1>1, <2>3
<1>5. Found(R[n], w, i, f)
  BY <1>1, <1>2, <1>4
<1> QED BY <1>1, <1>5 DEF Found, AccountedFor

\* Whatever batches and pulls came before: a pull (applyEntityEvent, findLastLocalValue)
\* overwrites no required column against the last word of its own branch, and an incoming
\* value that does not reach its row leaves a conflict behind.
THEOREM NothingIsLost == Spec => NothingLostUnnoticed
<1>1. TablesFit /\ [Next]_vars =>
        [\A p \in Pullers : PullBatch(p) =>
            /\ KeepsOwn(p, Required)
            /\ \A i \in pull[p].batch :
                  \A f \in DOMAIN log[i].fields : AccountedFor(p, i, f)]_vars
  BY BatchKeepsOwn, BatchAccounts
<1> QED BY <1>1, InitFits, NextKeepsFits, PTL DEF Spec, NothingLostUnnoticed
=============================================================================
