-------------------------- MODULE BoardStreamProofs --------------------------
(***************************************************************************)
(* Proofs about the snapshot streams of module BoardStream, for any rows,  *)
(* any tabs and any log:                                                   *)
(*   - every variable has its type, and the frames on their way to a tab   *)
(*     bring no older state of a row after a newer one (Base);             *)
(*   - a tab that shows a row wrong is told of it: by the log behind the   *)
(*     cursor, by the baseline, by what the watcher has read, or by a      *)
(*     reconcile that is due (Told), and so the tabs converge.             *)
(***************************************************************************)
EXTENDS BoardStream, FiniteSetTheorems, WellFoundedInduction, TLAPS

-----------------------------------------------------------------------------
(* Frames *)

\* A frame has rows only, with versions up to the bound.
LEMMA FrameFacts ==
    ASSUME NEW f \in Frames
    PROVE  /\ DOMAIN f \subseteq Item
           /\ \A i \in DOMAIN f : f[i] \in 0..MaxStamp
<1>1. PICK S \in SUBSET Item : f \in [S -> 0..MaxStamp]
  BY DEF Frames
<1> QED BY <1>1

LEMMA FrameIntro ==
    ASSUME NEW S \in SUBSET Item, NEW f \in [S -> 0..MaxStamp]
    PROVE  f \in Frames
  BY DEF Frames

LEMMA RestrictFacts ==
    ASSUME NEW f, NEW S
    PROVE  /\ DOMAIN Restrict(f, S) = S
           /\ \A i \in S : Restrict(f, S)[i] = f[i]
  BY DEF Restrict

LEMMA RestrictFits ==
    ASSUME NEW f, NEW S \in SUBSET Item, \A i \in S : f[i] \in 0..MaxStamp
    PROVE  Restrict(f, S) \in Frames
<1>1. Restrict(f, S) \in [S -> 0..MaxStamp]
  BY DEF Restrict
<1> QED BY <1>1, FrameIntro

\* The empty frame is a frame.
LEMMA NoFrameFacts == NoFrame \in Frames /\ DOMAIN NoFrame = {}
<1>1. NoFrame \in [{} -> 0..MaxStamp] /\ {} \in SUBSET Item
  BY DEF NoFrame
<1> QED BY <1>1, FrameIntro

\* A snapshot of the board is a frame with every row in it.
LEMMA BoardFacts ==
    ASSUME stamp \in [Item -> 0..MaxStamp]
    PROVE  /\ Board \in [Item -> 0..MaxStamp] /\ Board \in Frames /\ DOMAIN Board = Item
           /\ \A i \in Item : Board[i] = IF i \in alive THEN stamp[i] ELSE 0
<1>1. Board \in [Item -> 0..MaxStamp] /\ \A i \in Item : Board[i] = IF i \in alive THEN stamp[i] ELSE 0
  BY BoundsAssumption DEF Board, Nothing
<1>2. Board \in Frames
  BY <1>1, FrameIntro
<1> QED BY <1>1, <1>2

\* buildBoardSnapshotDelta: the rows of the delta that are there as they are, and the deleted ones.
LEMMA DeltaFacts ==
    ASSUME stamp \in [Item -> 0..MaxStamp], NEW U \in SUBSET Item, NEW D \in SUBSET Item
    PROVE  /\ DeltaOf(U, D) \in Frames
           /\ DOMAIN DeltaOf(U, D) = (U \cap alive) \cup D
           /\ \A i \in DOMAIN DeltaOf(U, D) :
                 DeltaOf(U, D)[i] = IF i \in U \cap alive THEN stamp[i] ELSE 0
<1>1. DeltaOf(U, D) \in [(U \cap alive) \cup D -> 0..MaxStamp]
  BY BoundsAssumption DEF DeltaOf, Nothing
<1>2. DeltaOf(U, D) \in Frames
  BY <1>1, FrameIntro
<1> QED BY <1>1, <1>2 DEF DeltaOf, Nothing

\* diffById: the rows that differ, as they are in the newer snapshot.
LEMMA DiffFacts ==
    ASSUME NEW old \in [Item -> 0..MaxStamp], NEW new \in [Item -> 0..MaxStamp]
    PROVE  /\ Diff(old, new) \in Frames
           /\ \A i \in Item : i \in DOMAIN Diff(old, new) <=> old[i] # new[i]
           /\ \A i \in DOMAIN Diff(old, new) : i \in Item /\ Diff(old, new)[i] = new[i]
<1> DEFINE S == {i \in Item : old[i] # new[i]}
<1>1. Diff(old, new) = Restrict(new, S)
  BY DEF Diff
<1>2. Restrict(new, S) \in Frames
  BY RestrictFits
<1>3. DOMAIN Restrict(new, S) = S /\ \A i \in S : Restrict(new, S)[i] = new[i]
  BY RestrictFacts
<1> QED BY <1>1, <1>2, <1>3

\* suppressAlreadyPublishedDiff leaves out what was published already.
LEMMA UnpublishedFacts ==
    ASSUME NEW f \in Frames
    PROVE  /\ Unpublished(f) \in Frames
           /\ DOMAIN Unpublished(f) \subseteq DOMAIN f
           /\ \A i \in DOMAIN Unpublished(f) : Unpublished(f)[i] = f[i]
           /\ \A i \in DOMAIN f \ DOMAIN Unpublished(f) :
                 recent /\ i \in DOMAIN published /\ published[i] = f[i]
<1>1. DOMAIN f \subseteq Item /\ \A i \in DOMAIN f : f[i] \in 0..MaxStamp
  BY FrameFacts
<1> DEFINE S == {i \in DOMAIN f : i \notin DOMAIN published \/ published[i] # f[i]}
<1>2. CASE recent
  <2>1. Unpublished(f) = Restrict(f, S)
    BY <1>2 DEF Unpublished
  <2>2. Restrict(f, S) \in Frames
    BY <1>1, RestrictFits
  <2>3. DOMAIN Restrict(f, S) = S /\ \A i \in S : Restrict(f, S)[i] = f[i]
    BY RestrictFacts
  <2> QED BY <1>2, <2>1, <2>2, <2>3
<1>3. CASE ~recent
  BY <1>3 DEF Unpublished
<1> QED BY <1>2, <1>3

-----------------------------------------------------------------------------
(* What a tab ends up with, and the order of its frames *)

\* A set of positive numbers up to n that is not empty has a largest one, which is Max.
LEMMA MaxOfBounded ==
    ASSUME NEW n \in Nat, NEW S, S \subseteq 1 .. n, S # {}
    PROVE  Max(S) \in S /\ \A y \in S : y <= Max(S)
<1> DEFINE T == {k \in Nat : \E x \in S : k = n - x}
           Less == OpToRel(<, Nat)
<1>1. T \subseteq Nat /\ T # {}
  <2>1. PICK x \in S : TRUE
    OBVIOUS
  <2>2. n - x \in Nat
    BY <2>1
  <2> QED BY <2>1, <2>2
<1>2. PICK k \in T : \A y \in T : ~(<<y, k>> \in Less)
  <2> HIDE DEF T, Less
  <2>1. IsWellFoundedOn(Less, Nat)
    BY NatLessThanWellFounded DEF Less
  <2> QED BY <1>1, <2>1, WFMin
<1>3. \A y \in T : ~(y < k)
  BY <1>2 DEF OpToRel
<1>4. PICK m \in S : k = n - m
  BY <1>2
<1>5. \A y \in S : m >= y
  <2> SUFFICES ASSUME NEW y \in S PROVE m >= y
    OBVIOUS
  <2>1. n - y \in T
    OBVIOUS
  <2> QED BY <2>1, <1>3, <1>4
<1>6. Max(S) \in S /\ \A y \in S : Max(S) >= y
  BY <1>4, <1>5 DEF Max
<1> QED BY <1>6

\* Of the frames with a row there is none, or a last one, and what it says is the end.
LEMMA EndingFacts ==
    ASSUME NEW q \in Seq(Frames), NEW w, NEW i \in Item
    PROVE  /\ \A n \in DOMAIN q : /\ i \in DOMAIN q[n]
                                  /\ \A k \in DOMAIN q : k > n => i \notin DOMAIN q[k]
                                  => Ending(q, w)[i] = q[n][i]
           /\ (\A n \in DOMAIN q : i \notin DOMAIN q[n]) => Ending(q, w)[i] = w[i]
           /\ \/ \A n \in DOMAIN q : i \notin DOMAIN q[n]
              \/ \E n \in DOMAIN q : /\ i \in DOMAIN q[n]
                                     /\ \A k \in DOMAIN q : k > n => i \notin DOMAIN q[k]
<1> DEFINE C == Carriers(q, i)
<1>1. Len(q) \in Nat /\ DOMAIN q = 1 .. Len(q) /\ C \subseteq 1 .. Len(q)
  BY DEF Carriers
<1>2. \A n : n \in C <=> n \in DOMAIN q /\ i \in DOMAIN q[n]
  BY DEF Carriers
<1>3. Ending(q, w)[i] = IF C = {} THEN w[i] ELSE q[Max(C)][i]
  BY DEF Ending
<1> HIDE DEF C
<1>4. C # {} => Max(C) \in C /\ \A y \in C : y <= Max(C)
  BY <1>1, MaxOfBounded
<1>5. ASSUME NEW n \in DOMAIN q, i \in DOMAIN q[n], \A k \in DOMAIN q : k > n => i \notin DOMAIN q[k]
      PROVE  Ending(q, w)[i] = q[n][i]
  <2>1. n \in C /\ Max(C) \in C /\ n <= Max(C)
    BY <1>2, <1>4, <1>5
  <2>2. ~(Max(C) > n) /\ Max(C) \in Int /\ n \in Int
    BY <1>1, <1>2, <1>5, <2>1
  <2>3. Max(C) = n
    BY <2>1, <2>2
  <2> QED BY <1>3, <2>1, <2>3
<1>6. (\A n \in DOMAIN q : i \notin DOMAIN q[n]) => C = {}
  BY <1>2
<1>7. C # {} => \E n \in DOMAIN q : /\ i \in DOMAIN q[n]
                                    /\ \A k \in DOMAIN q : k > n => i \notin DOMAIN q[k]
  <2> SUFFICES ASSUME C # {} PROVE /\ Max(C) \in DOMAIN q /\ i \in DOMAIN q[Max(C)]
                                   /\ \A k \in DOMAIN q : k > Max(C) => i \notin DOMAIN q[k]
    OBVIOUS
  <2>1. Max(C) \in C /\ \A y \in C : y <= Max(C)
    BY <1>4
  <2>2. \A y \in C : y \in Int
    BY <1>1
  <2> QED BY <1>1, <1>2, <2>1, <2>2
<1> QED BY <1>2, <1>3, <1>5, <1>6, <1>7

\* A frame at the end decides for its rows.
LEMMA EndingAppend ==
    ASSUME NEW q \in Seq(Frames), NEW f \in Frames, NEW w, NEW i \in Item
    PROVE  Ending(Append(q, f), w)[i] = IF i \in DOMAIN f THEN f[i] ELSE Ending(q, w)[i]
<1> DEFINE p == Append(q, f)
           z == Len(q) + 1
<1>1. /\ p \in Seq(Frames) /\ z \in Nat /\ p[z] = f
      /\ DOMAIN p = DOMAIN q \cup {z}
      /\ \A n \in DOMAIN q : p[n] = q[n] /\ n \in Nat /\ z > n /\ ~(n > z) /\ n # z
      /\ ~(z > z)
  OBVIOUS
<1> HIDE DEF p, z
<1>2. CASE i \in DOMAIN f
  <2>1. z \in DOMAIN p /\ i \in DOMAIN p[z] /\ \A k \in DOMAIN p : k > z => i \notin DOMAIN p[k]
    BY <1>1, <1>2
  <2>2. Ending(p, w)[i] = p[z][i]
    BY <1>1, <2>1, EndingFacts
  <2> QED BY <1>1, <1>2, <2>2 DEF p
<1>3. CASE i \notin DOMAIN f /\ \A n \in DOMAIN q : i \notin DOMAIN q[n]
  <2>1. \A n \in DOMAIN p : i \notin DOMAIN p[n]
    BY <1>1, <1>3
  <2>2. Ending(p, w)[i] = w[i] /\ Ending(q, w)[i] = w[i]
    BY <1>1, <1>3, <2>1, EndingFacts
  <2> QED BY <1>3, <2>2 DEF p
<1>4. ASSUME i \notin DOMAIN f, NEW n \in DOMAIN q, i \in DOMAIN q[n],
             \A k \in DOMAIN q : k > n => i \notin DOMAIN q[k]
      PROVE  Ending(p, w)[i] = Ending(q, w)[i]
  <2>1. n \in DOMAIN p /\ i \in DOMAIN p[n] /\ \A k \in DOMAIN p : k > n => i \notin DOMAIN p[k]
    BY <1>1, <1>4
  <2>2. Ending(p, w)[i] = p[n][i]
    BY <1>1, <2>1, EndingFacts
  <2>3. Ending(q, w)[i] = q[n][i]
    BY <1>4, EndingFacts
  <2> QED BY <1>1, <2>2, <2>3
<1> QED BY <1>2, <1>3, <1>4, EndingFacts DEF p

LEMMA MergedFacts ==
    ASSUME NEW w \in [Item -> 0..MaxStamp], NEW f \in Frames
    PROVE  /\ Merged(f, w) \in [Item -> 0..MaxStamp]
           /\ \A i \in Item : Merged(f, w)[i] = IF i \in DOMAIN f THEN f[i] ELSE w[i]
  BY FrameFacts DEF Merged

LEMMA TailFacts ==
    ASSUME NEW q \in Seq(Frames), q # <<>>
    PROVE  /\ Head(q) \in Frames /\ Head(q) = q[1] /\ 1 \in DOMAIN q
           /\ Tail(q) \in Seq(Frames) /\ Len(Tail(q)) = Len(q) - 1
           /\ \A n \in DOMAIN Tail(q) : n \in Nat /\ n + 1 \in DOMAIN q /\ Tail(q)[n] = q[n + 1]
           /\ \A n \in DOMAIN q : n \in Nat /\ (n = 1 \/ (n > 1 /\ n - 1 \in DOMAIN Tail(q) /\ Tail(q)[n - 1] = q[n]))
  OBVIOUS

\* To read a frame changes nothing of what a tab ends up with.
LEMMA EndingTail ==
    ASSUME NEW q \in Seq(Frames), q # <<>>, NEW w \in [Item -> 0..MaxStamp], NEW i \in Item
    PROVE  Ending(Tail(q), Merged(Head(q), w))[i] = Ending(q, w)[i]
<1> DEFINE t == Tail(q)
           h == Head(q)
           m == Merged(h, w)
<1>1. /\ h \in Frames /\ h = q[1] /\ 1 \in DOMAIN q /\ t \in Seq(Frames)
      /\ \A n \in DOMAIN t : n \in Nat /\ n + 1 \in DOMAIN q /\ t[n] = q[n + 1]
      /\ \A n \in DOMAIN q : n \in Nat /\ (n = 1 \/ (n > 1 /\ n - 1 \in DOMAIN t /\ t[n - 1] = q[n]))
  BY TailFacts
<1>2. m[i] = IF i \in DOMAIN h THEN h[i] ELSE w[i]
  BY <1>1, MergedFacts
<1> HIDE DEF t, h, m
<1>3. CASE \A n \in DOMAIN t : i \notin DOMAIN t[n]
  <2>1. Ending(t, m)[i] = m[i]
    BY <1>1, <1>3, EndingFacts
  <2>2. CASE i \in DOMAIN h
    <3>1. 1 \in DOMAIN q /\ i \in DOMAIN q[1] /\ \A k \in DOMAIN q : k > 1 => i \notin DOMAIN q[k]
      <4>1. \A k \in DOMAIN q : k > 1 => k - 1 \in DOMAIN t /\ t[k - 1] = q[k]
        BY <1>1
      <4> QED BY <1>1, <1>3, <2>2, <4>1
    <3> QED BY <1>1, <1>2, <2>1, <2>2, <3>1, EndingFacts DEF t, h, m
  <2>3. CASE i \notin DOMAIN h
    <3>1. \A n \in DOMAIN q : i \notin DOMAIN q[n]
      BY <1>1, <1>3, <2>3
    <3> QED BY <1>2, <2>1, <2>3, <3>1, EndingFacts DEF t, h, m
  <2> QED BY <2>2, <2>3
<1>4. ASSUME NEW n \in DOMAIN t, i \in DOMAIN t[n], \A k \in DOMAIN t : k > n => i \notin DOMAIN t[k]
      PROVE  Ending(t, m)[i] = Ending(q, w)[i]
  <2>1. Ending(t, m)[i] = t[n][i]
    BY <1>1, <1>4, EndingFacts
  <2>2. n + 1 \in DOMAIN q /\ i \in DOMAIN q[n + 1] /\ t[n] = q[n + 1]
    BY <1>1, <1>4
  <2>3. ASSUME NEW k \in DOMAIN q, k > n + 1 PROVE i \notin DOMAIN q[k]
    <3>1. n \in Nat /\ k \in Nat /\ k > 1 /\ k - 1 > n
      BY <1>1, <2>3
    <3>2. k - 1 \in DOMAIN t /\ t[k - 1] = q[k]
      BY <1>1, <3>1
    <3> QED BY <1>4, <3>1, <3>2
  <2>4. Ending(q, w)[i] = q[n + 1][i]
    BY <2>2, <2>3, EndingFacts
  <2> QED BY <2>1, <2>2, <2>4
<1> QED BY <1>1, <1>3, <1>4, EndingFacts DEF t, h, m


\* What the tab shows, and every frame on its way, has at most v for the row.
Below(q, w, i, v) == w[i] <= v /\ \A n \in DOMAIN q : i \in DOMAIN q[n] => q[n][i] <= v

\* No frame brings an older state of a row after a newer one.
Climbs(q, w) ==
    \A i \in Item : \A b \in DOMAIN q :
        i \in DOMAIN q[b] /\ q[b][i] # Nothing =>
            /\ w[i] <= q[b][i]
            /\ \A a \in DOMAIN q : a < b /\ i \in DOMAIN q[a] => q[a][i] <= q[b][i]

LEMMA EndingBelow ==
    ASSUME NEW q \in Seq(Frames), NEW w, NEW i \in Item, NEW v, Below(q, w, i, v)
    PROVE  Ending(q, w)[i] <= v
  BY EndingFacts DEF Below

\* A frame that is at least all there is of its rows may go to the end.
LEMMA AppendOrder ==
    ASSUME NEW q \in Seq(Frames), NEW f \in Frames, NEW w
    PROVE  /\ Climbs(q, w) /\ (\A i \in DOMAIN f : f[i] # Nothing => Below(q, w, i, f[i]))
                  => Climbs(Append(q, f), w)
           /\ \A i \in Item : \A v : Below(q, w, i, v) /\ (i \in DOMAIN f => f[i] <= v)
                  => Below(Append(q, f), w, i, v)
<1> DEFINE p == Append(q, f)
           z == Len(q) + 1
<1>1. /\ z \in Nat /\ p[z] = f /\ DOMAIN p = DOMAIN q \cup {z}
      /\ \A n \in DOMAIN q : p[n] = q[n] /\ n \in Nat /\ n < z /\ ~(z < n) /\ n # z
      /\ ~(z < z)
  OBVIOUS
<1> HIDE DEF p, z
<1>2. ASSUME Climbs(q, w), \A i \in DOMAIN f : f[i] # Nothing => Below(q, w, i, f[i])
      PROVE  Climbs(p, w)
  BY <1>1, <1>2 DEF Climbs, Below
<1>3. ASSUME NEW i \in Item, NEW v, Below(q, w, i, v), i \in DOMAIN f => f[i] <= v
      PROVE  Below(p, w, i, v)
  BY <1>1, <1>3 DEF Below
<1> QED BY <1>2, <1>3 DEF p

\* Reading a frame keeps the order.
LEMMA TailOrder ==
    ASSUME NEW q \in Seq(Frames), q # <<>>, NEW w \in [Item -> 0..MaxStamp]
    PROVE  /\ Climbs(q, w) => Climbs(Tail(q), Merged(Head(q), w))
           /\ \A i \in Item : \A v : Below(q, w, i, v) => Below(Tail(q), Merged(Head(q), w), i, v)
<1> DEFINE t == Tail(q)
           h == Head(q)
           m == Merged(h, w)
<1>1. /\ h \in Frames /\ h = q[1] /\ 1 \in DOMAIN q /\ t \in Seq(Frames)
      /\ \A n \in DOMAIN t : n \in Nat /\ n + 1 \in DOMAIN q /\ t[n] = q[n + 1]
  BY TailFacts
<1>2. \A i \in Item : m[i] = IF i \in DOMAIN h THEN h[i] ELSE w[i]
  BY <1>1, MergedFacts
<1> HIDE DEF t, h, m
<1>3. ASSUME Climbs(q, w) PROVE Climbs(t, m)
  <2> SUFFICES ASSUME NEW i \in Item, NEW b \in DOMAIN t, i \in DOMAIN t[b], t[b][i] # Nothing
               PROVE  /\ m[i] <= t[b][i]
                      /\ \A a \in DOMAIN t : a < b /\ i \in DOMAIN t[a] => t[a][i] <= t[b][i]
    BY DEF Climbs
  <2>1. b + 1 \in DOMAIN q /\ t[b] = q[b + 1] /\ b \in Nat /\ i \in DOMAIN q[b + 1] /\ q[b + 1][i] # Nothing
    BY <1>1
  <2>2. /\ w[i] <= q[b + 1][i]
        /\ \A a \in DOMAIN q : a < b + 1 /\ i \in DOMAIN q[a] => q[a][i] <= q[b + 1][i]
    BY <1>3, <2>1 DEF Climbs
  <2>3. m[i] <= t[b][i]
    <3>1. b # 0
      BY DEF t
    <3>2. 1 < b + 1
      BY <2>1, <3>1
    <3> QED BY <1>1, <1>2, <2>1, <2>2, <3>2
  <2>4. ASSUME NEW a \in DOMAIN t, a < b, i \in DOMAIN t[a] PROVE t[a][i] <= t[b][i]
    <3>1. a + 1 \in DOMAIN q /\ t[a] = q[a + 1] /\ a \in Nat /\ a + 1 < b + 1
      BY <1>1, <2>1, <2>4
    <3> QED BY <2>1, <2>2, <2>4, <3>1
  <2> QED BY <2>3, <2>4
<1>4. ASSUME NEW i \in Item, NEW v, Below(q, w, i, v) PROVE Below(t, m, i, v)
  BY <1>1, <1>2, <1>4 DEF Below
<1> QED BY <1>3, <1>4 DEF t, h, m

-----------------------------------------------------------------------------
(* Streams and publications *)

StreamsFit ==
    /\ open \subseteq Stream
    /\ queue \in [Stream -> Seq(Frames)]
    /\ \A s \in Stream : Len(queue[s]) <= HighWater + 1
    /\ pending \in [Stream -> Frames]
    /\ view \in [Stream -> [Item -> 0..MaxStamp]]
    /\ \A s \in Stream \ open : queue[s] = <<>> /\ pending[s] = NoFrame

LEMMA FlushedFacts ==
    ASSUME StreamsFit, NEW s \in Stream
    PROVE  /\ queue[s] \in Seq(Frames) /\ pending[s] \in Frames /\ view[s] \in [Item -> 0..MaxStamp]
           /\ Len(queue[s]) \in Nat /\ Len(queue[s]) <= 2
           /\ Flushed(s) \in Seq(Frames) /\ Len(Flushed(s)) <= Len(queue[s]) + 1
           /\ Flushed(s) = queue[s] \/ Flushed(s) = Append(queue[s], pending[s])
<1>1. queue[s] \in Seq(Frames) /\ pending[s] \in Frames /\ view[s] \in [Item -> 0..MaxStamp]
  BY DEF StreamsFit
<1>2. Len(queue[s]) \in Nat /\ Len(queue[s]) <= 2
  BY <1>1 DEF StreamsFit, HighWater
<1>3. Append(queue[s], pending[s]) \in Seq(Frames) /\ Len(Append(queue[s], pending[s])) = Len(queue[s]) + 1
  BY <1>1
<1> QED BY <1>1, <1>2, <1>3 DEF Flushed

\* The order of the frames on their way and the bound of their versions.
InOrder(s) == /\ Climbs(Flushed(s), view[s])
              /\ \A i \in Item : Below(Flushed(s), view[s], i, stamp[i])

\* What holds of all frames holds without the last, and the last is the highest.
LEMMA PrefixOrder ==
    ASSUME NEW q \in Seq(Frames), NEW f \in Frames, NEW w
    PROVE  /\ Climbs(Append(q, f), w) => Climbs(q, w)
           /\ \A i \in Item : \A v : Below(Append(q, f), w, i, v) =>
                  Below(q, w, i, v) /\ (i \in DOMAIN f => f[i] <= v)
           /\ Climbs(Append(q, f), w) => \A i \in DOMAIN f : f[i] # Nothing => Below(q, w, i, f[i])
<1> DEFINE p == Append(q, f)
           z == Len(q) + 1
<1>1. /\ DOMAIN p = DOMAIN q \cup {z} /\ p[z] = f
      /\ \A n \in DOMAIN q : p[n] = q[n] /\ n < z
  OBVIOUS
<1>2. DOMAIN f \subseteq Item
  BY FrameFacts
<1> HIDE DEF p, z
<1>3. Climbs(p, w) => Climbs(q, w)
  BY <1>1 DEF Climbs
<1>4. \A i \in Item : \A v : Below(p, w, i, v) => Below(q, w, i, v) /\ (i \in DOMAIN f => f[i] <= v)
  BY <1>1 DEF Below
<1>5. ASSUME Climbs(p, w), NEW i \in DOMAIN f, f[i] # Nothing PROVE Below(q, w, i, f[i])
  BY <1>1, <1>2, <1>5 DEF Below, Climbs
<1> QED BY <1>3, <1>4, <1>5 DEF p

\* A delta goes behind what is on its way; or a whole snapshot does, to the place of what
\* was pending or behind it.
LEMMA AfterDeltaFacts ==
    ASSUME StreamsFit, stamp \in [Item -> 0..MaxStamp], NEW s \in open, NEW f \in Frames,
           Publish(f)
    PROVE  /\ queue'[s] \in Seq(Frames) /\ Len(queue'[s]) <= 2 /\ pending'[s] \in Frames
           /\ \/ Flushed(s)' = Append(Flushed(s), f)
              \/ Flushed(s)' = Append(Flushed(s), Board)
              \/ Flushed(s)' = Append(queue[s], Board)
<1>1. /\ s \in Stream
      /\ queue'[s] = AfterDelta(s, f).queue /\ pending'[s] = AfterDelta(s, f).pending
  BY DEF Publish, StreamsFit
<1>2. /\ queue[s] \in Seq(Frames) /\ Len(queue[s]) \in Nat /\ Len(queue[s]) <= 2
      /\ Flushed(s) \in Seq(Frames) /\ Len(Flushed(s)) <= Len(queue[s]) + 1
  BY <1>1, FlushedFacts
<1>3. Len(Flushed(s)) \in Nat
  BY <1>2
<1>4. Board \in Frames /\ Board # NoFrame
  BY BoardFacts, NoFrameFacts, ItemAssumption
<1>5. CASE Backpressured(queue[s])
  <2>1. queue'[s] = queue[s] /\ pending'[s] = Board
    BY <1>1, <1>5 DEF AfterDelta
  <2> QED BY <1>2, <1>4, <2>1 DEF Flushed
<1>6. CASE ~Backpressured(queue[s]) /\ Backpressured(Flushed(s))
  <2>1. queue'[s] = Flushed(s) /\ pending'[s] = Board
    BY <1>1, <1>6 DEF AfterDelta
  <2>2. Len(Flushed(s)) <= 2
    BY <1>2, <1>3, <1>6 DEF Backpressured, HighWater
  <2>3. Flushed(s)' = Append(queue'[s], pending'[s])
    BY <1>4, <2>1 DEF Flushed
  <2> QED BY <1>2, <1>4, <2>1, <2>2, <2>3
<1>7. CASE ~Backpressured(queue[s]) /\ ~Backpressured(Flushed(s))
  <2>1. queue'[s] = Append(Flushed(s), f) /\ pending'[s] = NoFrame
    BY <1>1, <1>7 DEF AfterDelta
  <2>2. Len(Append(Flushed(s), f)) = Len(Flushed(s)) + 1 /\ Append(Flushed(s), f) \in Seq(Frames)
    BY <1>2
  <2>3. Len(Append(Flushed(s), f)) <= 2
    BY <1>3, <1>7, <2>2 DEF Backpressured, HighWater
  <2>4. Flushed(s)' = queue'[s]
    BY <2>1 DEF Flushed
  <2> QED BY <2>1, <2>2, <2>3, <2>4, NoFrameFacts
<1> QED BY <1>5, <1>6, <1>7

\* What a publication does to every stream.
LEMMA PublishDoes ==
    ASSUME StreamsFit, stamp \in [Item -> 0..MaxStamp], UNCHANGED <<stamp, alive>>,
           \A s \in Stream : InOrder(s),
           NEW f \in Frames, Publish(f),
           \A i \in DOMAIN f : /\ f[i] <= stamp[i]
                               /\ f[i] # Nothing => \A s \in Stream : Below(Flushed(s), view[s], i, f[i])
    PROVE  /\ StreamsFit' /\ UNCHANGED <<open, view>>
           /\ \A s \in Stream : InOrder(s)'
           /\ \A s \in open, i \in Item : \/ Final(s)'[i] = Board[i]
                                          \/ Final(s)'[i] = IF i \in DOMAIN f THEN f[i] ELSE Final(s)[i]
<1>1. /\ UNCHANGED <<open, view>>
      /\ queue' = [s \in Stream |-> IF s \in open THEN AfterDelta(s, f).queue ELSE queue[s]]
      /\ pending' = [s \in Stream |-> IF s \in open THEN AfterDelta(s, f).pending ELSE pending[s]]
  BY DEF Publish
<1>2. \A s \in Stream \ open : queue'[s] = queue[s] /\ pending'[s] = pending[s]
  BY <1>1
<1>3. \A s \in open : queue'[s] \in Seq(Frames) /\ Len(queue'[s]) <= 2 /\ pending'[s] \in Frames
  BY AfterDeltaFacts
<1>4. StreamsFit'
  <2>1. \A s \in Stream : queue'[s] \in Seq(Frames) /\ Len(queue'[s]) <= HighWater + 1 /\ pending'[s] \in Frames
    BY <1>2, <1>3 DEF StreamsFit, HighWater
  <2>2. queue' \in [Stream -> Seq(Frames)] /\ pending' \in [Stream -> Frames]
    <3>1. queue' = [s \in Stream |-> queue'[s]] /\ pending' = [s \in Stream |-> pending'[s]]
      BY <1>1
    <3> QED BY <2>1, <3>1
  <2> QED BY <1>1, <1>2, <2>1, <2>2 DEF StreamsFit
<1>5. \A i \in Item : Board[i] = (IF i \in alive THEN stamp[i] ELSE 0) /\ stamp[i] \in 0..MaxStamp
  BY BoardFacts
<1>6. \A i \in DOMAIN f : i \in Item
  BY FrameFacts
<1>7. \A g \in {f, Board} : /\ g \in Frames
                            /\ \A i \in DOMAIN g : i \in Item /\ g[i] <= stamp[i]
                            /\ \A i \in DOMAIN g : g[i] # Nothing =>
                                  \A s \in Stream : Below(Flushed(s), view[s], i, g[i])
  <2>1. \A i \in DOMAIN Board : i \in Item /\ Board[i] <= stamp[i]
    BY <1>5, BoardFacts
  <2>2. ASSUME NEW i \in DOMAIN Board, Board[i] # Nothing, NEW s \in Stream
        PROVE  Below(Flushed(s), view[s], i, Board[i])
    <3>1. i \in Item /\ Board[i] = stamp[i]
      BY <1>5, <2>1, <2>2 DEF Nothing
    <3> QED BY <3>1 DEF InOrder
  <2> QED BY <1>6, <2>1, <2>2, BoardFacts
<1>8. ASSUME NEW s \in open
      PROVE  /\ InOrder(s)'
             /\ \A i \in Item : \/ Final(s)'[i] = Board[i]
                              \/ Final(s)'[i] = IF i \in DOMAIN f THEN f[i] ELSE Final(s)[i]
  <2>1. s \in Stream
    BY <1>8 DEF StreamsFit
  <2>2. /\ queue[s] \in Seq(Frames) /\ pending[s] \in Frames /\ Flushed(s) \in Seq(Frames)
        /\ Flushed(s) = queue[s] \/ Flushed(s) = Append(queue[s], pending[s])
    BY <2>1, FlushedFacts
  <2>3. PICK q \in {Flushed(s), queue[s]}, g \in {f, Board} :
          Flushed(s)' = Append(q, g) /\ (g = f => q = Flushed(s) \/ g = Board)
    BY <1>8, AfterDeltaFacts
  <2>4. /\ q \in Seq(Frames)
        /\ Climbs(q, view[s])
        /\ \A i \in Item : \A v : Below(Flushed(s), view[s], i, v) => Below(q, view[s], i, v)
    BY <2>1, <2>2, PrefixOrder DEF InOrder
  <2>5. g \in Frames /\ \A i \in DOMAIN g : i \in Item /\ g[i] <= stamp[i]
    BY <1>7
  <2>6. \A i \in DOMAIN g : g[i] # Nothing => Below(q, view[s], i, g[i])
    BY <1>7, <2>1, <2>4, <2>5
  <2>7. Climbs(Append(q, g), view[s])
    BY <2>4, <2>5, <2>6, AppendOrder
  <2>8. \A i \in Item : Below(Append(q, g), view[s], i, stamp[i])
    BY <2>1, <2>4, <2>5, AppendOrder DEF InOrder
  <2>9. InOrder(s)'
    BY <1>1, <2>3, <2>7, <2>8 DEF InOrder
  <2>10. ASSUME NEW i \in Item
         PROVE  \/ Final(s)'[i] = Board[i]
                \/ Final(s)'[i] = IF i \in DOMAIN f THEN f[i] ELSE Final(s)[i]
    <3>1. Final(s)' = Ending(Append(q, g), view[s])
      BY <1>1, <2>3 DEF Final
    <3>2. Ending(Append(q, g), view[s])[i] = IF i \in DOMAIN g THEN g[i] ELSE Ending(q, view[s])[i]
      BY <2>4, <2>5, EndingAppend
    <3>3. CASE g = Board
      BY <3>1, <3>2, <3>3, BoardFacts
    <3>4. CASE g = f /\ q = Flushed(s)
      BY <3>1, <3>2, <3>4 DEF Final
    <3> QED BY <2>3, <3>3, <3>4
  <2> QED BY <2>9, <2>10
<1>9. ASSUME NEW s \in Stream \ open PROVE InOrder(s)'
  BY <1>1, <1>2 DEF InOrder, Flushed
<1> QED BY <1>1, <1>4, <1>8, <1>9

-----------------------------------------------------------------------------
(* Heartbeats and reads *)

\* A stream of which nothing is on its way.
LEMMA EmptyOrder ==
    ASSUME NEW w
    PROVE  /\ Climbs(<<>>, w)
           /\ \A i \in Item : \A v : Below(<<>>, w, i, v) <=> w[i] <= v
  BY DEF Climbs, Below

\* A frame with no row in it changes nothing of what is on its way.
LEMMA HollowFrame ==
    ASSUME NEW q \in Seq(Frames), NEW f \in Frames, DOMAIN f = {}, NEW w
    PROVE  /\ Climbs(q, w) => Climbs(Append(q, f), w)
           /\ \A i \in Item : \A v : Below(q, w, i, v) => Below(Append(q, f), w, i, v)
           /\ \A i \in Item : Ending(Append(q, f), w)[i] = Ending(q, w)[i]
<1> DEFINE p == Append(q, f)
<1>1. Climbs(q, w) /\ (\A i \in DOMAIN f : f[i] # Nothing => Below(q, w, i, f[i])) => Climbs(p, w)
  BY AppendOrder
<1>2. \A i \in Item : \A v : Below(q, w, i, v) /\ (i \in DOMAIN f => f[i] <= v) => Below(p, w, i, v)
  BY AppendOrder
<1>3. \A i \in Item : Ending(p, w)[i] = IF i \in DOMAIN f THEN f[i] ELSE Ending(q, w)[i]
  BY EndingAppend
<1> HIDE DEF p
<1>4. Climbs(q, w) => Climbs(p, w)
  BY <1>1
<1>5. \A i \in Item : \A v : Below(q, w, i, v) => Below(p, w, i, v)
  BY <1>2
<1>6. \A i \in Item : Ending(p, w)[i] = Ending(q, w)[i]
  BY <1>3
<1> QED BY <1>4, <1>5, <1>6 DEF p

\* Heartbeat: an empty frame goes between the queue and what is pending.
LEMMA HeartbeatDoes ==
    ASSUME StreamsFit, stamp \in [Item -> 0..MaxStamp], \A s \in Stream : InOrder(s),
           UNCHANGED <<stamp, alive>>, NEW s \in Stream, Heartbeat(s)
    PROVE  /\ queue'[s] \in Seq(Frames) /\ Len(queue'[s]) <= 2
           /\ InOrder(s)' /\ \A i \in Item : Final(s)'[i] = Final(s)[i]
<1>1. /\ queue[s] \in Seq(Frames) /\ pending[s] \in Frames /\ Len(queue[s]) \in Nat
      /\ Flushed(s) = IF pending[s] = NoFrame THEN queue[s] ELSE Append(queue[s], pending[s])
  BY FlushedFacts DEF Flushed
<1> DEFINE q == queue[s]
           p == Append(q, NoFrame)
           w == view[s]
           f == pending[s]
<1>2. queue'[s] = p /\ pending'[s] = f /\ view'[s] = w /\ ~Backpressured(q)
  BY DEF Heartbeat, StreamsFit
<1>3. p \in Seq(Frames) /\ Len(p) <= 2
  BY <1>1, <1>2, NoFrameFacts DEF Backpressured, HighWater
<1>4. Flushed(s)' = IF f = NoFrame THEN p ELSE Append(p, f)
  BY <1>2 DEF Flushed
<1>5. /\ Climbs(Flushed(s), w)
      /\ \A i \in Item : Below(Flushed(s), w, i, stamp[i])
  BY DEF InOrder
<1> HIDE DEF q, p, w, f
<1>6. q \in Seq(Frames) /\ f \in Frames /\ NoFrame \in Frames /\ DOMAIN NoFrame = {}
  BY <1>1, NoFrameFacts DEF q, f
<1>7. /\ Climbs(q, w) => Climbs(p, w)
      /\ \A i \in Item : \A v : Below(q, w, i, v) => Below(p, w, i, v)
      /\ \A i \in Item : Ending(p, w)[i] = Ending(q, w)[i]
  BY <1>6, HollowFrame DEF p
<1>8. CASE f = NoFrame
  BY <1>1, <1>2, <1>3, <1>4, <1>5, <1>7, <1>8 DEF q, f, w, InOrder, Final
<1>9. CASE f # NoFrame
  <2>1. Flushed(s) = Append(q, f)
    BY <1>1, <1>9 DEF q, f
  <2>2. /\ Climbs(q, w)
        /\ \A i \in Item : Below(q, w, i, stamp[i]) /\ (i \in DOMAIN f => f[i] <= stamp[i])
        /\ \A i \in DOMAIN f : f[i] # Nothing => Below(q, w, i, f[i])
    BY <1>5, <1>6, <2>1, PrefixOrder
  <2>3. \A i \in DOMAIN f : i \in Item
    BY <1>6, FrameFacts
  <2>4. Climbs(Append(p, f), w) /\ \A i \in Item : Below(Append(p, f), w, i, stamp[i])
    BY <1>3, <1>6, <1>7, <2>2, <2>3, AppendOrder
  <2>5. \A i \in Item : Ending(Append(p, f), w)[i] = Ending(Append(q, f), w)[i]
    BY <1>3, <1>6, <1>7, EndingAppend
  <2>6. Flushed(s)' = Append(p, f)
    BY <1>4, <1>9
  <2> QED BY <1>2, <1>3, <2>1, <2>4, <2>5, <2>6 DEF InOrder, Final, w
<1> QED BY <1>8, <1>9

LEMMA SeqEqual ==
    ASSUME NEW S, NEW p \in Seq(S), NEW q \in Seq(S), Len(p) = Len(q),
           \A n \in 1..Len(q) : p[n] = q[n]
    PROVE  p = q
  OBVIOUS

LEMMA AppendEmpty ==
    ASSUME NEW f \in Frames
    PROVE  Append(<<>>, f) = <<f>> /\ <<f>> \in Seq(Frames) /\ Len(<<f>>) = 1
<1>1. <<>> \in Seq(Frames)
  OBVIOUS
<1>2. Append(<<>>, f) \in Seq(Frames) /\ Len(Append(<<>>, f)) = 1 /\ Append(<<>>, f)[1] = f
  BY <1>1
<1>3. <<f>> \in Seq(Frames) /\ Len(<<f>>) = 1 /\ <<f>>[1] = f
  OBVIOUS
<1>4. \A n \in 1..1 : n = 1
  OBVIOUS
<1> QED BY <1>2, <1>3, <1>4, SeqEqual

LEMMA TailAppend ==
    ASSUME NEW q \in Seq(Frames), q # <<>>, NEW f \in Frames
    PROVE  /\ Append(q, f) \in Seq(Frames) /\ Append(q, f) # <<>>
           /\ Head(Append(q, f)) = Head(q)
           /\ Tail(Append(q, f)) = Append(Tail(q), f)
           /\ Tail(q) = <<>> => Append(Tail(q), f) = <<f>>
<1>1. Append(q, f) \in Seq(Frames) /\ Append(q, f) # <<>> /\ Head(Append(q, f)) = Head(q)
  OBVIOUS
<1>2. Tail(Append(q, f)) = Append(Tail(q), f)
  <2>1. /\ Tail(Append(q, f)) \in Seq(Frames) /\ Append(Tail(q), f) \in Seq(Frames)
        /\ Len(Tail(Append(q, f))) = Len(q) /\ Len(Append(Tail(q), f)) = Len(q)
    OBVIOUS
  <2>2. ASSUME NEW n \in 1..Len(q) PROVE Tail(Append(q, f))[n] = Append(Tail(q), f)[n]
    OBVIOUS
  <2> QED BY <2>1, <2>2, SeqEqual
<1>3. Append(<<>>, f) = <<f>>
  BY AppendEmpty
<1> QED BY <1>1, <1>2, <1>3

\* Read: the tab takes the first frame, and never an older state of a row than it shows.
LEMMA ReadDoes ==
    ASSUME StreamsFit, stamp \in [Item -> 0..MaxStamp], \A s \in Stream : InOrder(s),
           UNCHANGED <<stamp, alive>>, NEW s \in Stream, Read(s)
    PROVE  /\ queue'[s] \in Seq(Frames) /\ Len(queue'[s]) <= 2 /\ pending'[s] \in {pending[s], NoFrame}
           /\ view'[s] \in [Item -> 0..MaxStamp] /\ view'[s] = Merged(Head(queue[s]), view[s])
           /\ InOrder(s)' /\ \A i \in Item : Final(s)'[i] = Final(s)[i]
           /\ \A i \in Item : \A v : Below(Flushed(s), view[s], i, v) => Below(Flushed(s)', view'[s], i, v)
           /\ \A i \in Item : view'[s][i] # Nothing => view'[s][i] >= view[s][i]
<1>1. /\ queue[s] \in Seq(Frames) /\ queue[s] # <<>> /\ pending[s] \in Frames
      /\ view[s] \in [Item -> 0..MaxStamp]
      /\ Len(queue[s]) \in Nat /\ Len(queue[s]) <= 2
  BY FlushedFacts DEF Read
<1>2. view'[s] = Merged(Head(queue[s]), view[s])
  BY DEF Read, StreamsFit
<1>3. Head(queue[s]) \in Frames /\ Tail(queue[s]) \in Seq(Frames) /\ Len(Tail(queue[s])) = Len(queue[s]) - 1
  BY <1>1, TailFacts
<1>4. /\ queue'[s] \in Seq(Frames) /\ Len(queue'[s]) <= 2 /\ pending'[s] \in {pending[s], NoFrame}
      /\ Flushed(s) # <<>> /\ Head(Flushed(s)) = Head(queue[s]) /\ Flushed(s)' = Tail(Flushed(s))
  <2>1. CASE Tail(queue[s]) = <<>> /\ pending[s] # NoFrame
    <3>1. queue'[s] = <<pending[s]>> /\ pending'[s] = NoFrame
      BY <2>1 DEF Read, StreamsFit
    <3>2. /\ Flushed(s)' = <<pending[s]>>
          /\ Flushed(s) = Append(queue[s], pending[s])
      BY <2>1, <3>1 DEF Flushed
    <3>3. queue'[s] \in Seq(Frames) /\ Len(queue'[s]) <= 2
      BY <1>1, <3>1
    <3> QED BY <1>1, <2>1, <3>1, <3>2, <3>3, TailAppend
  <2>2. CASE ~(Tail(queue[s]) = <<>> /\ pending[s] # NoFrame)
    <3>1. queue'[s] = Tail(queue[s]) /\ pending'[s] = pending[s]
      BY <2>2 DEF Read, StreamsFit
    <3>2. /\ Flushed(s)' = IF pending[s] = NoFrame THEN Tail(queue[s]) ELSE Append(Tail(queue[s]), pending[s])
          /\ Flushed(s) = IF pending[s] = NoFrame THEN queue[s] ELSE Append(queue[s], pending[s])
      BY <3>1 DEF Flushed
    <3>3. queue'[s] \in Seq(Frames) /\ Len(queue'[s]) <= 2
      BY <1>1, <1>3, <3>1
    <3> QED BY <1>1, <3>1, <3>2, <3>3, TailAppend
  <2> QED BY <2>1, <2>2
<1> DEFINE q == Flushed(s)
           t == Tail(q)
           w == view[s]
           h == Head(q)
           m == Merged(h, w)
<1>5. q \in Seq(Frames) /\ q # <<>> /\ Climbs(q, w) /\ \A i \in Item : Below(q, w, i, stamp[i])
  BY <1>4, FlushedFacts DEF InOrder
<1>6. /\ Climbs(q, w) => Climbs(t, m)
      /\ \A i \in Item : \A v : Below(q, w, i, v) => Below(t, m, i, v)
      /\ \A i \in Item : Ending(t, m)[i] = Ending(q, w)[i]
  BY <1>1, <1>5, TailOrder, EndingTail
<1>7. m \in [Item -> 0..MaxStamp] /\ view'[s] = m /\ Flushed(s)' = t
  BY <1>1, <1>2, <1>3, <1>4, MergedFacts
<1>8. Climbs(Flushed(s)', view'[s]) /\ \A i \in Item : Below(Flushed(s)', view'[s], i, stamp[i])
  <2> HIDE DEF q, t, w, m
  <2> QED BY <1>5, <1>6, <1>7
<1>9. \A i \in Item : Ending(Flushed(s)', view'[s])[i] = Ending(q, w)[i]
  <2> HIDE DEF q, t, w, m
  <2> QED BY <1>6, <1>7
<1>10. InOrder(s)'
  BY <1>8 DEF InOrder
<1>11. \A i \in Item : Final(s)'[i] = Final(s)[i]
  BY <1>9 DEF Final
<1>12. \A i \in Item : \A v : Below(Flushed(s), view[s], i, v) => Below(Flushed(s)', view'[s], i, v)
  <2> HIDE DEF t, w, m
  <2> QED BY <1>6, <1>7 DEF w
<1>13. \A i \in Item : view'[s][i] # Nothing => view'[s][i] >= view[s][i]
  <2>1. h \in Frames /\ h = q[1] /\ 1 \in DOMAIN q
    BY <1>5, TailFacts
  <2>2. \A i \in Item : m[i] = IF i \in DOMAIN h THEN h[i] ELSE w[i]
    <3>1. w \in [Item -> 0..MaxStamp]
      BY <1>1
    <3> HIDE DEF q, h, w
    <3> QED BY <2>1, <3>1, MergedFacts
  <2>3. \A i \in DOMAIN h : h[i] \in Nat
    BY <2>1, FrameFacts, BoundsAssumption
  <2>4. \A i \in Item : w[i] \in Nat
    BY <1>1, BoundsAssumption
  <2>5. Climbs(q, w) /\ view'[s] = m
    BY <1>5, <1>7
  <2> HIDE DEF q, h, m, w
  <2>6. \A i \in Item : i \in DOMAIN h /\ h[i] # Nothing => w[i] <= h[i]
    BY <2>1, <2>5 DEF Climbs
  <2>7. \A i \in Item : m[i] # Nothing => m[i] >= w[i]
    BY <2>2, <2>3, <2>4, <2>6
  <2> QED BY <2>5, <2>7 DEF w
<1> QED BY <1>2, <1>4, <1>7, <1>10, <1>11, <1>12, <1>13

-----------------------------------------------------------------------------
(* Steps of tabs *)

\* Connect: the board is all that is on its way.
LEMMA ConnectDoes ==
    ASSUME StreamsFit, stamp \in [Item -> 0..MaxStamp], \A s \in Stream : InOrder(s),
           UNCHANGED <<stamp, alive>>, NEW s \in Stream, Connect(s)
    PROVE  /\ queue'[s] \in Seq(Frames) /\ Len(queue'[s]) <= 2
           /\ InOrder(s)' /\ \A i \in Item : Final(s)'[i] = Board[i]
<1>1. queue'[s] = <<Board>> /\ pending'[s] = NoFrame /\ view'[s] = view[s]
  BY DEF Connect, StreamsFit
<1>2. Flushed(s)' = <<Board>>
  BY <1>1 DEF Flushed
<1>3. /\ Board \in Frames /\ DOMAIN Board = Item
      /\ \A i \in Item : Board[i] = (IF i \in alive THEN stamp[i] ELSE 0) /\ stamp[i] \in 0..MaxStamp
  BY BoardFacts
<1>4. \A i \in Item : Board[i] <= stamp[i] /\ (Board[i] # Nothing => Board[i] = stamp[i])
  BY <1>3, BoundsAssumption DEF Nothing
<1> DEFINE w == view[s]
           b == Board
           p == <<b>>
<1>5. \A i \in Item : w[i] <= stamp[i]
  BY DEF InOrder, Below
<1>6. p = Append(<<>>, b) /\ p \in Seq(Frames) /\ Len(p) = 1 /\ <<>> \in Seq(Frames)
  BY <1>3, AppendEmpty
<1>7. /\ \A i \in DOMAIN b : i \in Item
      /\ \A i \in Item : b[i] <= stamp[i] /\ (b[i] # Nothing => b[i] = stamp[i])
      /\ b \in Frames /\ DOMAIN b = Item
  BY <1>3, <1>4
<1> HIDE DEF w, b, p
<1>8. /\ Climbs(<<>>, w)
      /\ \A i \in Item : \A v : Below(<<>>, w, i, v) <=> w[i] <= v
  BY EmptyOrder
<1>9. \A i \in DOMAIN b : b[i] # Nothing => Below(<<>>, w, i, b[i])
  BY <1>5, <1>7, <1>8
<1>10. Climbs(Append(<<>>, b), w)
  BY <1>6, <1>7, <1>8, <1>9, AppendOrder
<1>11. \A i \in Item : Below(Append(<<>>, b), w, i, stamp[i])
  BY <1>5, <1>6, <1>7, <1>8, AppendOrder
<1>12. \A i \in Item : Ending(Append(<<>>, b), w)[i] = b[i]
  BY <1>6, <1>7, EndingAppend
<1>13. Flushed(s)' = p /\ view'[s] = w /\ UNCHANGED stamp
  BY <1>1, <1>2 DEF w, b, p
<1>14. InOrder(s)'
  BY <1>6, <1>10, <1>11, <1>13 DEF InOrder
<1>15. \A i \in Item : Final(s)'[i] = b[i]
  BY <1>6, <1>12, <1>13 DEF Final
<1> QED BY <1>1, <1>6, <1>14, <1>15 DEF p, b

\* Disconnect and Stall: nothing is on its way.
LEMMA DisconnectDoes ==
    ASSUME StreamsFit, stamp \in [Item -> 0..MaxStamp], \A s \in Stream : InOrder(s),
           UNCHANGED <<stamp, view>>, NEW s \in Stream, Disconnected(s)
    PROVE  /\ queue'[s] = <<>> /\ pending'[s] = NoFrame
           /\ InOrder(s)'
           /\ \A i \in Item : \A v : Below(Flushed(s), view[s], i, v) => Below(Flushed(s)', view'[s], i, v)
<1>1. queue'[s] = <<>> /\ pending'[s] = NoFrame
  BY DEF Disconnected, StreamsFit
<1>2. Flushed(s)' = <<>>
  BY <1>1 DEF Flushed
<1>3. /\ Climbs(<<>>, view[s])
      /\ \A i \in Item : \A v : Below(<<>>, view[s], i, v) <=> view[s][i] <= v
  BY EmptyOrder
<1>4. \A i \in Item : \A v : Below(Flushed(s), view[s], i, v) => view[s][i] <= v
  BY DEF Below
<1>5. \A i \in Item : view[s][i] <= stamp[i]
  BY <1>4 DEF InOrder
<1> QED BY <1>1, <1>2, <1>3, <1>4, <1>5 DEF InOrder

\* A step of a tab shows a stream nothing new, except that a new one gets the board.
LEMMA TabDoes ==
    ASSUME StreamsFit, stamp \in [Item -> 0..MaxStamp], \A s \in Stream : InOrder(s),
           NEW s \in Stream, Tab(s)
    PROVE  /\ UNCHANGED <<database, watcher, thread, due, unsent>>
           /\ StreamsFit'
           /\ \A t \in Stream : InOrder(t)'
           /\ \A t \in open', i \in Item : \/ t \in open /\ Final(t)'[i] = Final(t)[i]
                                           \/ t \notin open /\ thread = Idle /\ Final(t)'[i] = Board[i]
           /\ thread = Idle \/ \A t \in Stream, i \in Item : \A v :
                 Below(Flushed(t), view[t], i, v) => Below(Flushed(t)', view'[t], i, v)
           /\ \A t \in Stream, i \in Item : view'[t][i] # Nothing => view'[t][i] >= view[t][i]
<1>1. /\ UNCHANGED <<database, watcher, thread, due, unsent>>
      /\ UNCHANGED <<stamp, alive>>
  BY DEF Tab, Connect, Heartbeat, Read, Disconnect, Stall, database
<1>2. \A t \in Stream \ {s} : /\ queue'[t] = queue[t] /\ pending'[t] = pending[t] /\ view'[t] = view[t]
                              /\ (t \in open' <=> t \in open)
  BY DEF Tab, Connect, Heartbeat, Read, Disconnect, Stall, Disconnected, StreamsFit
<1>3. \A t \in Stream \ {s} : Flushed(t)' = Flushed(t)
  BY <1>2 DEF Flushed
<1>4. \A t \in Stream \ {s} : InOrder(t)' /\ Final(t)' = Final(t)
  BY <1>1, <1>2, <1>3 DEF InOrder, Final
<1>5. /\ queue' = [queue EXCEPT ![s] = queue'[s]]
      /\ pending' = [pending EXCEPT ![s] = pending'[s]]
      /\ view' = [view EXCEPT ![s] = view'[s]]
      /\ open' \subseteq Stream
  BY DEF Tab, Connect, Heartbeat, Read, Disconnect, Stall, Disconnected, StreamsFit
<1>6. ASSUME queue'[s] \in Seq(Frames), Len(queue'[s]) <= 2, pending'[s] \in Frames,
             view'[s] \in [Item -> 0..MaxStamp],
             s \notin open' => queue'[s] = <<>> /\ pending'[s] = NoFrame
      PROVE  StreamsFit'
  <2>1. queue' \in [Stream -> Seq(Frames)] /\ pending' \in [Stream -> Frames]
        /\ view' \in [Stream -> [Item -> 0..MaxStamp]]
    BY <1>5, <1>6 DEF StreamsFit
  <2>2. \A t \in Stream : Len(queue'[t]) <= HighWater + 1
    <3>1. \A t \in Stream : Len(queue[t]) <= 2
      BY DEF StreamsFit, HighWater
    <3>2. \A t \in Stream : Len(queue'[t]) <= 2
      BY <1>2, <1>6, <3>1
    <3> QED BY <3>2 DEF HighWater
  <2>3. \A t \in Stream \ open' : queue'[t] = <<>> /\ pending'[t] = NoFrame
    BY <1>2, <1>6 DEF StreamsFit
  <2> QED BY <1>5, <2>1, <2>2, <2>3 DEF StreamsFit
<1>7. queue[s] \in Seq(Frames) /\ pending[s] \in Frames /\ view[s] \in [Item -> 0..MaxStamp] /\ Len(queue[s]) <= 2
  BY DEF StreamsFit, HighWater
<1>8. NoFrame \in Frames /\ <<>> \in Seq(Frames) /\ Len(<<>>) = 0
  BY NoFrameFacts
<1>9. s \notin open => queue[s] = <<>> /\ pending[s] = NoFrame
  BY DEF StreamsFit
<1>14. view' = view => \A t \in Stream, i \in Item : view'[t][i] >= view[t][i]
  BY BoundsAssumption DEF StreamsFit
<1>15. \A t \in Stream \ {s}, i \in Item : view'[t][i] >= view[t][i]
  <2>1. \A t \in Stream, i \in Item : view[t][i] >= view[t][i]
    BY BoundsAssumption DEF StreamsFit
  <2> QED BY <1>2, <2>1
<1>10. CASE Connect(s)
  <2>1. pending' = pending /\ view' = view /\ s \in open' /\ s \notin open /\ thread = Idle
    BY <1>10 DEF Connect
  <2>2. /\ queue'[s] \in Seq(Frames) /\ Len(queue'[s]) <= 2
        /\ InOrder(s)' /\ \A i \in Item : Final(s)'[i] = Board[i]
    BY <1>1, <1>10, ConnectDoes
  <2>3. StreamsFit'
    BY <1>6, <1>7, <2>1, <2>2
  <2> QED BY <1>1, <1>2, <1>4, <1>5, <1>14, <2>1, <2>2, <2>3
<1>11. CASE Heartbeat(s)
  <2>1. pending' = pending /\ view' = view /\ open' = open /\ s \in open /\ thread = Idle
    BY <1>11 DEF Heartbeat
  <2>2. /\ queue'[s] \in Seq(Frames) /\ Len(queue'[s]) <= 2
        /\ InOrder(s)' /\ \A i \in Item : Final(s)'[i] = Final(s)[i]
    BY <1>1, <1>11, HeartbeatDoes
  <2>3. StreamsFit'
    BY <1>6, <1>7, <2>1, <2>2
  <2> QED BY <1>1, <1>2, <1>4, <1>5, <1>14, <2>1, <2>2, <2>3
<1>12. CASE Read(s)
  <2>1. open' = open /\ s \in open
    BY <1>9, <1>12 DEF Read
  <2>2. /\ queue'[s] \in Seq(Frames) /\ Len(queue'[s]) <= 2 /\ pending'[s] \in {pending[s], NoFrame}
        /\ view'[s] \in [Item -> 0..MaxStamp]
        /\ InOrder(s)' /\ \A i \in Item : Final(s)'[i] = Final(s)[i]
        /\ \A i \in Item : \A v : Below(Flushed(s), view[s], i, v) => Below(Flushed(s)', view'[s], i, v)
        /\ \A i \in Item : view'[s][i] # Nothing => view'[s][i] >= view[s][i]
    BY <1>1, <1>12, ReadDoes
  <2>3. StreamsFit'
    BY <1>6, <1>7, <1>8, <2>1, <2>2
  <2>4. \A t \in Stream, i \in Item : \A v : Below(Flushed(t), view[t], i, v) => Below(Flushed(t)', view'[t], i, v)
    BY <1>2, <1>3, <2>2
  <2> QED BY <1>1, <1>2, <1>4, <1>5, <1>15, <2>1, <2>2, <2>3, <2>4
<1>13. CASE Disconnect(s) \/ Stall(s)
  <2>1. Disconnected(s) /\ view' = view /\ s \notin open'
    BY <1>13 DEF Disconnect, Stall, Disconnected
  <2>2. /\ queue'[s] = <<>> /\ pending'[s] = NoFrame
        /\ InOrder(s)'
        /\ \A i \in Item : \A v : Below(Flushed(s), view[s], i, v) => Below(Flushed(s)', view'[s], i, v)
    BY <1>1, <2>1, DisconnectDoes
  <2>3. StreamsFit'
    BY <1>6, <1>7, <1>8, <2>1, <2>2
  <2>4. \A t \in Stream, i \in Item : \A v : Below(Flushed(t), view[t], i, v) => Below(Flushed(t)', view'[t], i, v)
    BY <1>2, <1>3, <2>2
  <2> QED BY <1>1, <1>2, <1>4, <1>5, <1>14, <2>1, <2>2, <2>3, <2>4
<1> QED BY <1>10, <1>11, <1>12, <1>13 DEF Tab

-----------------------------------------------------------------------------
(* Commits and their types *)

Events == [item : Item, op : {"upsert", "delete", "resolve_conflict"}]
DataFit == /\ alive \subseteq Item /\ unsent \subseteq Item
           /\ stamp \in [Item -> 0..MaxStamp]
           /\ log \in Seq(Events) /\ Len(log) <= MaxEvents
           /\ pruned \in 0..Len(log) /\ cursor \in 0..Len(log)
           /\ baseline \in [Item -> 0..MaxStamp]
           /\ published \in Frames /\ recent \in BOOLEAN
           /\ due \in {"no", "yes", "failed"}

PublishThread == [step : {"publish"}, frame : Frames, reread : BOOLEAN]
DeltaThread == [step : {"delta"}, upto : Positions, upserted : SUBSET Item, deleted : SUBSET Item]
DiffThread == [step : {"diff"}, upto : Positions, fresh : [Item -> 0..MaxStamp]]
ThreadFit == thread \in {Idle} \cup PublishThread \cup DeltaThread \cup DiffThread

\* The step of the thread says which record it is.
LEMMA ThreadFacts ==
    ASSUME ThreadFit
    PROVE  /\ thread.step = "idle" <=> thread = Idle
           /\ thread.step = "publish" <=> thread \in PublishThread
           /\ thread.step = "delta" <=> thread \in DeltaThread
           /\ thread.step = "diff" <=> thread \in DiffThread
           /\ thread = Idle \/ thread.step = "publish" \/ thread.step = "delta" \/ thread.step = "diff"
  BY DEF ThreadFit, PublishThread, DeltaThread, DiffThread, Idle

LastOp(i) == IF i \in alive THEN "upsert" ELSE "delete"

\* The log with one more event.
LEMMA LogGrows ==
    ASSUME log \in Seq(Events), NEW e \in Events, log' = Append(log, e), Len(log) < MaxEvents
    PROVE  /\ log' \in Seq(Events) /\ Len(log') = Len(log) + 1 /\ Len(log') <= MaxEvents
           /\ Len(log) \in Nat
           /\ DOMAIN log' = DOMAIN log \cup {Len(log) + 1}
           /\ log'[Len(log) + 1] = e
           /\ \A n \in DOMAIN log : log'[n] = log[n] /\ n \in Nat /\ n <= Len(log)
<1>1. MaxEvents \in Nat /\ Len(log) \in Nat
  BY BoundsAssumption
<1> QED BY <1>1

LEMMA EventFacts ==
    ASSUME NEW i \in Item, NEW op \in {"upsert", "delete", "resolve_conflict"}
    PROVE  Event(i, op) \in Events /\ Event(i, op).item = i /\ Event(i, op).op = op
  BY DEF Event, Events

\* What a commit of a row may do to the row and the log.
Wrote(i) == /\ log' = Append(log, Event(i, LastOp(i)')) /\ Len(log) < MaxEvents
            /\ unsent' = unsent
            /\ \/ i \in alive' /\ stamp'[i] > stamp[i] /\ (i \in alive \/ stamp[i] = 0)
               \/ i \notin alive' /\ i \in alive /\ stamp'[i] = stamp[i]
Pulled(i) == /\ log' = log /\ unsent' = unsent \cup {i}
             /\ stamp'[i] > stamp[i]
Resolved(i) == /\ log' = Append(log, Event(i, "resolve_conflict")) /\ Len(log) < MaxEvents
               /\ unsent' = unsent
               /\ \/ (i \in alive' <=> i \in alive) /\ stamp'[i] = stamp[i]
                  \/ i \in alive' /\ i \in alive /\ stamp'[i] > stamp[i]
                  \/ i \notin alive' /\ i \in alive /\ stamp'[i] = stamp[i]

LEMMA WriteFacts ==
    ASSUME DataFit, NEW i \in Item
    PROVE  /\ Create(i) =>
                 /\ stamp[i] = 0 /\ stamp' = [stamp EXCEPT ![i] = 1] /\ stamp'[i] = 1
                 /\ alive' = alive \cup {i} /\ LastOp(i)' = "upsert" /\ Logged(i, "upsert")
           /\ Update(i) =>
                 /\ stamp[i] \in Nat /\ stamp[i] + 1 <= MaxStamp
                 /\ stamp' = [stamp EXCEPT ![i] = stamp[i] + 1] /\ stamp'[i] = stamp[i] + 1
                 /\ i \in alive /\ alive' = alive /\ LastOp(i)' = "upsert" /\ Logged(i, "upsert")
           /\ Delete(i) =>
                 /\ stamp' = stamp
                 /\ i \in alive /\ alive' = alive \ {i} /\ LastOp(i)' = "delete" /\ Logged(i, "delete")
<1>1. stamp \in [Item -> 0..MaxStamp] /\ stamp[i] \in Nat /\ MaxStamp \in Nat
  BY BoundsAssumption DEF DataFit
<1> QED BY <1>1 DEF Create, Update, Delete, LastOp

\* A command and a mutation of a tab write their row.
LEMMA WritesWrite ==
    ASSUME DataFit, NEW i \in Item, Create(i) \/ Update(i) \/ Delete(i), unsent' = unsent
    PROVE  /\ Wrote(i)
           /\ stamp' \in [Item -> 0..MaxStamp] /\ alive' \subseteq Item
           /\ \A j \in Item \ {i} : stamp'[j] = stamp[j] /\ (j \in alive' <=> j \in alive)
<1>1. stamp \in [Item -> 0..MaxStamp] /\ alive \subseteq Item /\ stamp[i] \in Nat
      /\ MaxStamp \in Nat /\ 1 <= MaxStamp
  BY BoundsAssumption DEF DataFit
<1>2. CASE Create(i)
  BY <1>1, <1>2, WriteFacts DEF Wrote, Logged
<1>3. CASE Update(i)
  BY <1>1, <1>3, WriteFacts DEF Wrote, Logged
<1>4. CASE Delete(i)
  BY <1>1, <1>4, WriteFacts DEF Wrote, Logged
<1> QED BY <1>2, <1>3, <1>4

\* A commit moves one row and the end of the log, and asks for a reconcile.
LEMMA CommitFacts ==
    ASSUME DataFit, NEW i \in Item, Commit(i)
    PROVE  /\ UNCHANGED <<pruned, watcher, streams>> /\ due' = "yes"
           /\ stamp' \in [Item -> 0..MaxStamp] /\ alive' \subseteq Item
           /\ \A j \in Item \ {i} : stamp'[j] = stamp[j] /\ (j \in alive' <=> j \in alive)
           /\ Wrote(i) \/ Pulled(i) \/ Resolved(i)
           /\ thread' = thread \/ BoardWrite(i)
<1>1. stamp \in [Item -> 0..MaxStamp] /\ alive \subseteq Item /\ stamp[i] \in Nat /\ MaxStamp \in Nat
  BY BoundsAssumption DEF DataFit
<1>2. CASE CliWrite(i)
  <2>1. (Create(i) \/ Update(i) \/ Delete(i)) /\ UNCHANGED <<pruned, watcher, streams, thread, unsent>> /\ due' = "yes"
    BY <1>2 DEF CliWrite, Committed
  <2> QED BY <2>1, WritesWrite
<1>3. CASE Pull(i)
  <2>1. UNCHANGED <<pruned, watcher, streams, thread>> /\ due' = "yes"
    BY <1>3 DEF Pull, Committed
  <2>2. /\ stamp[i] < MaxStamp /\ stamp' = [stamp EXCEPT ![i] = stamp[i] + 1]
        /\ alive' = alive \cup {i} \/ alive' = alive \ {i}
        /\ unsent' = unsent \cup {i} /\ log' = log
    BY <1>3 DEF Pull
  <2> QED BY <1>1, <2>1, <2>2 DEF Pulled
<1>4. CASE Resolve(i)
  <2>1. UNCHANGED <<pruned, watcher, streams, thread, unsent>> /\ due' = "yes" /\ Logged(i, "resolve_conflict")
    BY <1>4 DEF Resolve, Committed
  <2>2. \/ UNCHANGED <<alive, stamp>>
        \/ i \in alive /\ stamp[i] < MaxStamp /\ stamp' = [stamp EXCEPT ![i] = stamp[i] + 1] /\ alive' = alive
        \/ i \in alive /\ alive' = alive \ {i} /\ stamp' = stamp
    BY <1>4 DEF Resolve
  <2> QED BY <1>1, <2>1, <2>2 DEF Resolved, Logged
<1>5. CASE BoardWrite(i)
  <2>1. (Create(i) \/ Update(i) \/ Delete(i)) /\ UNCHANGED <<pruned, watcher, streams, unsent>> /\ due' = "yes"
    BY <1>5 DEF BoardWrite, Committed
  <2> QED BY <1>5, <2>1, WritesWrite
<1> QED BY <1>2, <1>3, <1>4, <1>5 DEF Commit

-----------------------------------------------------------------------------
(* Versions and the order of frames *)

\* A row that is or was there has a version, and the watcher knows no later one.
Born == /\ \A i \in alive : stamp[i] > 0
        /\ \A n \in DOMAIN log : log[n].op = "delete" => stamp[log[n].item] > 0
        /\ \A i \in Item : baseline[i] <= stamp[i]

\* What the server is about to publish may be sent behind all that is on its way.
Sendable(f) == \A i \in DOMAIN f : /\ f[i] <= stamp[i]
                                   /\ f[i] # Nothing => \A s \in Stream : Below(Flushed(s), view[s], i, f[i])
Ordered == /\ \A s \in Stream : InOrder(s)
           /\ thread.step = "publish" => Sendable(thread.frame)
           /\ thread.step = "diff" => Sendable(thread.fresh)

\* The watcher read no event that is not in the log.
Reached == thread.step \in {"delta", "diff"} => thread.upto <= Len(log)

Base == DataFit /\ ThreadFit /\ Reached /\ StreamsFit /\ Born /\ Ordered

LEMMA LogFacts ==
    ASSUME DataFit
    PROVE  \A n \in DOMAIN log : /\ n \in Nat /\ n <= Len(log) /\ n >= 1
                                 /\ log[n].item \in Item
                                 /\ log[n].op \in {"upsert", "delete", "resolve_conflict"}
                                 /\ log[n] = Event(log[n].item, log[n].op)
<1>1. log \in Seq(Events) /\ Len(log) \in Nat
  BY DEF DataFit
<1>2. \A n \in DOMAIN log : n \in Nat /\ n <= Len(log) /\ n >= 1 /\ log[n] \in Events
  BY <1>1
<1>3. \A e \in Events : /\ e.item \in Item /\ e.op \in {"upsert", "delete", "resolve_conflict"}
                        /\ e = Event(e.item, e.op)
  BY DEF Events, Event
<1> QED BY <1>2, <1>3

\* The delta of a mutation of a tab: what the row is now, or that it is gone.
Sends(i, v, r) == /\ thread' = [step |-> "publish", frame |-> [j \in {i} |-> v], reread |-> r]
                  /\ v <= stamp'[i] /\ stamp'[i] > 0
                  /\ v = 0 \/ v = stamp'[i]
                  /\ v = 0 => i \notin alive'
                  /\ r => v # 0

\* The delta of a mutation has its row, as it was committed.
LEMMA BoardWriteFacts ==
    ASSUME DataFit, Born, NEW i \in Item, BoardWrite(i)
    PROVE  /\ thread = Idle /\ thread' \in PublishThread
           /\ DOMAIN thread'.frame = {i}
           /\ thread'.frame[i] <= stamp'[i] /\ stamp'[i] > 0
           /\ thread'.frame[i] = Nothing \/ thread'.frame[i] = stamp'[i]
           /\ thread'.frame[i] = Nothing => i \notin alive'
           /\ thread'.reread => thread'.frame[i] # Nothing
<1>1. /\ stamp \in [Item -> 0..MaxStamp] /\ alive \subseteq Item /\ stamp[i] \in Nat /\ MaxStamp \in Nat
      /\ 1 \in 0..MaxStamp /\ 0 \in 0..MaxStamp
  BY BoundsAssumption DEF DataFit
<1>2. PICK v \in 0..MaxStamp, r \in BOOLEAN : Sends(i, v, r)
  <2>1. CASE Create(i) /\ thread' = [step |-> "publish", frame |-> [j \in {i} |-> 1], reread |-> FALSE]
    <3>1. stamp'[i] = 1
      BY <2>1, WriteFacts
    <3>2. Sends(i, 1, FALSE)
      BY <2>1, <3>1 DEF Sends
    <3> QED BY <1>1, <3>2
  <2>2. CASE Update(i) /\ thread' = [step |-> "publish", frame |-> [j \in {i} |-> stamp'[i]], reread |-> TRUE]
    <3>1. stamp'[i] = stamp[i] + 1 /\ stamp[i] + 1 <= MaxStamp
      BY <2>2, WriteFacts
    <3>2. stamp'[i] \in 0..MaxStamp /\ stamp'[i] > 0 /\ stamp'[i] <= stamp'[i] /\ stamp'[i] # 0
      BY <1>1, <3>1
    <3>3. Sends(i, stamp'[i], TRUE)
      BY <2>2, <3>2 DEF Sends
    <3> QED BY <3>2, <3>3
  <2>3. CASE Delete(i) /\ thread' = [step |-> "publish", frame |-> [j \in {i} |-> Nothing], reread |-> FALSE]
    <3>1. stamp' = stamp /\ i \in alive /\ i \notin alive'
      BY <2>3, WriteFacts
    <3>2. stamp'[i] \in Nat /\ stamp'[i] > 0
      BY <1>1, <3>1 DEF Born
    <3>3. Sends(i, 0, FALSE)
      BY <2>3, <3>1, <3>2 DEF Sends, Nothing
    <3> QED BY <1>1, <3>3
  <2> QED BY <2>1, <2>2, <2>3 DEF BoardWrite
<1> DEFINE f == [j \in {i} |-> v]
<1>3. f \in [{i} -> 0..MaxStamp] /\ {i} \in SUBSET Item
  OBVIOUS
<1>4. f \in Frames
  BY <1>3, FrameIntro
<1>5. thread' \in PublishThread
  BY <1>2, <1>4 DEF PublishThread, Sends
<1>6. thread'.frame = f /\ thread'.reread = r
  BY <1>2 DEF Sends
<1>7. DOMAIN f = {i} /\ f[i] = v
  OBVIOUS
<1> QED BY <1>2, <1>5, <1>6, <1>7 DEF BoardWrite, Nothing, Sends

\* A commit keeps the types of the rows and the log, and only raises versions.
LEMMA CommitKeepsData ==
    ASSUME DataFit, Born, NEW i \in Item, Commit(i)
    PROVE  /\ DataFit' /\ Born'
           /\ \A j \in Item : stamp[j] <= stamp'[j]
           /\ Len(log) <= Len(log')
<1>1. /\ UNCHANGED <<pruned, watcher, streams>> /\ due' = "yes"
      /\ stamp' \in [Item -> 0..MaxStamp] /\ alive' \subseteq Item
      /\ \A j \in Item \ {i} : stamp'[j] = stamp[j] /\ (j \in alive' <=> j \in alive)
      /\ Wrote(i) \/ Pulled(i) \/ Resolved(i)
  BY CommitFacts
<1>2. /\ \A j \in Item : stamp[j] \in Nat /\ stamp'[j] \in Nat
      /\ Len(log) \in Nat /\ alive \subseteq Item
      /\ stamp[i] <= stamp'[i]
  BY <1>1 DEF DataFit, Wrote, Pulled, Resolved
<1>3. \A j \in Item : stamp[j] <= stamp'[j]
  BY <1>1, <1>2
<1>4. \A j \in alive' : stamp'[j] > 0
  <2>1. i \in alive' => stamp'[i] > 0
    BY <1>1, <1>2 DEF Wrote, Pulled, Resolved, Born
  <2>2. \A j \in alive' \ {i} : stamp'[j] > 0
    BY <1>1, <1>2, <1>3 DEF Born
  <2> QED BY <2>1, <2>2
<1>5. \A j \in Item : baseline'[j] <= stamp'[j]
  <2>1. \A j \in Item : baseline[j] \in Nat /\ baseline[j] <= stamp[j]
    BY DEF DataFit, Born
  <2> QED BY <1>1, <1>2, <1>3, <2>1 DEF watcher
<1>11. Len(log) <= Len(log')
  <2>1. \A op \in {"upsert", "delete", "resolve_conflict"} :
           log' = Append(log, Event(i, op)) => Len(log') = Len(log) + 1
    BY EventFacts DEF DataFit
  <2>2. LastOp(i)' \in {"upsert", "delete", "resolve_conflict"}
    BY DEF LastOp
  <2> QED BY <1>1, <1>2, <2>1, <2>2 DEF Wrote, Pulled, Resolved
<1>6. CASE log' = log /\ unsent' = unsent \cup {i}
  <2>1. DataFit'
    BY <1>1, <1>6 DEF DataFit, watcher
  <2>2. \A n \in DOMAIN log : log[n].item \in Item
    BY LogFacts
  <2>3. \A n \in DOMAIN log' : log'[n].op = "delete" => stamp'[log'[n].item] > 0
    BY <1>2, <1>3, <1>6, <2>2 DEF Born
  <2> QED BY <1>3, <1>4, <1>5, <1>11, <2>1, <2>3 DEF Born
<1>7. ASSUME NEW op \in {"upsert", "delete", "resolve_conflict"},
             log' = Append(log, Event(i, op)), Len(log) < MaxEvents, unsent' = unsent,
             op = "delete" => stamp'[i] > 0
      PROVE  DataFit' /\ Born'
  <2> DEFINE e == Event(i, op)
  <2>1. e \in Events /\ e.item = i /\ e.op = op
    BY EventFacts
  <2>2. /\ log' \in Seq(Events) /\ Len(log') = Len(log) + 1 /\ Len(log') <= MaxEvents
        /\ DOMAIN log' = DOMAIN log \cup {Len(log) + 1} /\ log'[Len(log) + 1] = e
        /\ \A n \in DOMAIN log : log'[n] = log[n]
    BY <1>7, <2>1, LogGrows DEF DataFit
  <2>3. pruned' \in 0..Len(log') /\ cursor' \in 0..Len(log')
    BY <1>1, <1>2, <2>2 DEF DataFit, watcher
  <2>4. DataFit'
    BY <1>1, <1>7, <2>2, <2>3 DEF DataFit, watcher
  <2>5. \A n \in DOMAIN log : log[n].item \in Item
    BY LogFacts
  <2> HIDE DEF e
  <2>6. \A n \in DOMAIN log' : log'[n].op = "delete" => stamp'[log'[n].item] > 0
    BY <1>2, <1>3, <1>7, <2>1, <2>2, <2>5 DEF Born
  <2> QED BY <1>3, <1>4, <1>5, <2>4, <2>6 DEF Born
<1>8. CASE Wrote(i)
  <2>1. LastOp(i)' = "delete" => i \notin alive'
    BY DEF LastOp
  <2>2. LastOp(i)' = "delete" => stamp'[i] > 0
    BY <1>2, <1>8, <2>1 DEF Wrote, Born
  <2>3. LastOp(i)' \in {"upsert", "delete", "resolve_conflict"}
    BY DEF LastOp
  <2> QED BY <1>3, <1>7, <1>8, <1>11, <2>2, <2>3 DEF Wrote
<1>9. CASE Pulled(i)
  BY <1>3, <1>6, <1>9, <1>11 DEF Pulled
<1>10. CASE Resolved(i)
  BY <1>3, <1>7, <1>10, <1>11 DEF Resolved
<1> QED BY <1>1, <1>8, <1>9, <1>10, <1>11

LEMMA CommitKeepsBase ==
    ASSUME Base, NEW i \in Item, Commit(i)
    PROVE  Base'
<1>1. /\ UNCHANGED <<pruned, watcher, streams>> /\ due' = "yes"
      /\ thread' = thread \/ BoardWrite(i)
  BY CommitFacts DEF Base
<1>2. /\ DataFit' /\ Born'
      /\ \A j \in Item : stamp[j] <= stamp'[j]
      /\ Len(log) <= Len(log')
  BY CommitKeepsData DEF Base
<1>3. StreamsFit'
  BY <1>1 DEF Base, StreamsFit, streams
<1>4. \A s \in Stream : Flushed(s)' = Flushed(s) /\ view' = view
  BY <1>1 DEF Flushed, streams
<1>5. \A j \in Item : stamp[j] \in Nat /\ stamp'[j] \in Nat
  BY <1>2 DEF Base, DataFit
<1>6. ASSUME NEW s \in Stream PROVE InOrder(s)'
  <2>1. Flushed(s) \in Seq(Frames) /\ view[s] \in [Item -> 0..MaxStamp]
    BY FlushedFacts DEF Base
  <2>2. \A n \in DOMAIN Flushed(s) : Flushed(s)[n] \in Frames
    BY <2>1
  <2>3. \A n \in DOMAIN Flushed(s) : \A j \in DOMAIN Flushed(s)[n] : Flushed(s)[n][j] \in Nat
    BY <2>2, FrameFacts
  <2>4. \A j \in Item : Below(Flushed(s), view[s], j, stamp[j])
    BY DEF Base, Ordered, InOrder
  <2>5. \A j \in Item : Below(Flushed(s), view[s], j, stamp'[j])
    BY <1>2, <1>5, <2>1, <2>3, <2>4 DEF Below
  <2>6. Climbs(Flushed(s), view[s])
    BY DEF Base, Ordered, InOrder
  <2> QED BY <1>4, <2>5, <2>6 DEF InOrder
<1>7. ASSUME NEW f, \A j \in DOMAIN f : j \in Item /\ f[j] \in Nat, Sendable(f)
      PROVE  \A j \in DOMAIN f : /\ f[j] <= stamp'[j]
                                 /\ f[j] # Nothing => \A s \in Stream : Below(Flushed(s)', view'[s], j, f[j])
  BY <1>2, <1>4, <1>5, <1>7 DEF Sendable
<1>8. CASE thread' = thread
  <2>1. ThreadFit' /\ Reached'
    <3>1. thread.step \in {"delta", "diff"} => thread.upto \in Nat
      BY ThreadFacts DEF Base, DeltaThread, DiffThread, Positions
    <3>2. Len(log) \in Nat /\ Len(log') \in Nat
      BY <1>2 DEF Base, DataFit
    <3> QED BY <1>2, <1>8, <3>1, <3>2 DEF Base, ThreadFit, Reached
  <2>2. thread.step = "publish" => \A j \in DOMAIN thread.frame : j \in Item /\ thread.frame[j] \in Nat
    <3>1. thread.step = "publish" => thread.frame \in Frames
      BY ThreadFacts DEF Base, PublishThread
    <3> QED BY <3>1, FrameFacts
  <2>3. thread.step = "diff" => \A j \in DOMAIN thread.fresh : j \in Item /\ thread.fresh[j] \in Nat
    <3>1. thread.step = "diff" => thread.fresh \in [Item -> 0..MaxStamp]
      BY ThreadFacts DEF Base, DiffThread
    <3> QED BY <3>1
  <2>4. Ordered'
    BY <1>6, <1>7, <1>8, <2>2, <2>3 DEF Base, Ordered, Sendable
  <2> QED BY <1>2, <1>3, <2>1, <2>4 DEF Base
<1>9. CASE BoardWrite(i)
  <2>1. /\ thread' \in PublishThread /\ DOMAIN thread'.frame = {i}
        /\ thread'.frame[i] <= stamp'[i]
        /\ thread'.frame[i] = Nothing \/ thread'.frame[i] = stamp'[i]
    BY <1>9, BoardWriteFacts DEF Base
  <2>2. ThreadFit' /\ thread'.step = "publish" /\ Reached'
    BY <2>1 DEF ThreadFit, PublishThread, Reached
  <2>3. \A s \in Stream : Below(Flushed(s), view[s], i, stamp[i])'
    BY <1>6 DEF InOrder
  <2>4. Sendable(thread.frame)'
    BY <2>1, <2>3 DEF Sendable
  <2>5. Ordered'
    BY <1>6, <2>2, <2>4 DEF Ordered
  <2> QED BY <1>2, <1>3, <2>2, <2>5 DEF Base
<1> QED BY <1>1, <1>8, <1>9

-----------------------------------------------------------------------------
(* Types and order are kept *)

LEMMA TouchedFacts ==
    ASSUME DataFit, NEW P \in SUBSET DOMAIN log, NEW op
    PROVE  /\ Touched(P, {op}) \subseteq Item
           /\ \A i : i \in Touched(P, {op}) <=> \E n \in P : log[n].op = op /\ log[n].item = i
  BY LogFacts DEF Touched

\* A frame of rows as they are, or gone, can go behind everything.
LEMMA SendableNow ==
    ASSUME DataFit, \A s \in Stream : InOrder(s), NEW f \in Frames,
           \A i \in DOMAIN f : f[i] = 0 \/ f[i] = stamp[i]
    PROVE  Sendable(f)
<1>1. \A i \in Item : stamp[i] \in Nat
  BY BoundsAssumption DEF DataFit
<1>2. DOMAIN f \subseteq Item
  BY FrameFacts
<1>3. \A s \in Stream, i \in Item : Below(Flushed(s), view[s], i, stamp[i])
  BY DEF InOrder
<1> QED BY <1>1, <1>2, <1>3 DEF Sendable, Nothing

\* What a publication, or the lack of one, does to every stream.
LEMMA ChangesDo ==
    ASSUME Base, NEW f \in Frames, Sendable(f), PublishChanges(f) \/ Publish(f), UNCHANGED database
    PROVE  /\ StreamsFit' /\ UNCHANGED <<open, view>>
           /\ \A s \in Stream : InOrder(s)'
           /\ \A s \in open, i \in Item : \/ Final(s)'[i] = Board[i]
                                          \/ Final(s)'[i] = IF i \in DOMAIN f THEN f[i] ELSE Final(s)[i]
<1>1. /\ StreamsFit /\ stamp \in [Item -> 0..MaxStamp] /\ UNCHANGED <<stamp, alive>>
      /\ \A s \in Stream : InOrder(s)
  BY DEF Base, DataFit, Ordered, database
<1>2. CASE Publish(f)
  BY <1>1, <1>2, PublishDoes DEF Sendable
<1>3. CASE f = NoFrame /\ UNCHANGED streams
  <2>1. DOMAIN f = {}
    BY <1>3, NoFrameFacts
  <2>2. \A s \in Stream : Flushed(s)' = Flushed(s)
    BY <1>3 DEF Flushed, streams
  <2>3. \A s \in Stream : InOrder(s)' /\ Final(s)' = Final(s)
    BY <1>1, <1>3, <2>2 DEF InOrder, Final, streams
  <2> QED BY <1>1, <1>3, <2>1, <2>3 DEF StreamsFit, streams
<1> QED BY <1>2, <1>3 DEF PublishChanges

\* The frame of publishSnapshotDeltaIfPresent.
OwnFrame == IF thread.reread THEN DeltaOf(DOMAIN thread.frame, {}) ELSE thread.frame

\* What a mutation publishes: its row, if PATCH read it again only when it is there.
LEMMA OwnFrameFacts ==
    ASSUME Base, thread.step = "publish"
    PROVE  /\ OwnFrame \in Frames /\ Sendable(OwnFrame)
           /\ DOMAIN OwnFrame \subseteq DOMAIN thread.frame
           /\ thread.reread => /\ DOMAIN OwnFrame = DOMAIN thread.frame \cap alive
                               /\ \A i \in DOMAIN OwnFrame : OwnFrame[i] = stamp[i]
           /\ ~thread.reread => OwnFrame = thread.frame
<1>1. thread.frame \in Frames /\ thread.reread \in BOOLEAN
  BY ThreadFacts DEF Base, PublishThread
<1>2. DOMAIN thread.frame \in SUBSET Item
  BY <1>1, FrameFacts
<1>3. /\ DeltaOf(DOMAIN thread.frame, {}) \in Frames
      /\ DOMAIN DeltaOf(DOMAIN thread.frame, {}) = DOMAIN thread.frame \cap alive
      /\ \A i \in DOMAIN DeltaOf(DOMAIN thread.frame, {}) : DeltaOf(DOMAIN thread.frame, {})[i] = stamp[i]
  <2> DEFINE U == DOMAIN thread.frame
             D == {}
             d == DeltaOf(U, D)
  <2>1. U \in SUBSET Item /\ D \in SUBSET Item /\ stamp \in [Item -> 0..MaxStamp]
    BY <1>2 DEF Base, DataFit
  <2>2. D = {}
    OBVIOUS
  <2> HIDE DEF U, D
  <2>3. /\ d \in Frames /\ DOMAIN d = (U \cap alive) \cup D
        /\ \A i \in DOMAIN d : d[i] = IF i \in U \cap alive THEN stamp[i] ELSE 0
    BY <2>1, DeltaFacts
  <2> HIDE DEF d
  <2>4. DOMAIN d = U \cap alive /\ \A i \in DOMAIN d : d[i] = stamp[i]
    BY <2>2, <2>3
  <2> QED BY <2>3, <2>4 DEF U, D, d
<1>4. CASE thread.reread
  <2>1. OwnFrame = DeltaOf(DOMAIN thread.frame, {})
    BY <1>4 DEF OwnFrame
  <2>2. Sendable(DeltaOf(DOMAIN thread.frame, {}))
    BY <1>3, SendableNow DEF Base, Ordered
  <2> QED BY <1>3, <1>4, <2>1, <2>2
<1>5. CASE ~thread.reread
  BY <1>1, <1>5 DEF OwnFrame, Base, Ordered
<1> QED BY <1>1, <1>4, <1>5

\* The frame of runEventCursorReconcile, before suppression.
EventFrame == DeltaOf(thread.upserted, thread.deleted)

\* What the events publish: the rows as they are, and the deleted ones.
LEMMA EventFrameFacts ==
    ASSUME Base, thread.step = "delta"
    PROVE  /\ EventFrame \in Frames
           /\ DOMAIN EventFrame = (thread.upserted \cap alive) \cup thread.deleted
           /\ \A i \in DOMAIN EventFrame :
                 EventFrame[i] = IF i \in thread.upserted \cap alive THEN stamp[i] ELSE 0
           /\ Unpublished(EventFrame) \in Frames /\ Sendable(Unpublished(EventFrame))
<1>1. thread.upserted \in SUBSET Item /\ thread.deleted \in SUBSET Item
  BY ThreadFacts DEF Base, DeltaThread
<1>2. /\ EventFrame \in Frames
      /\ DOMAIN EventFrame = (thread.upserted \cap alive) \cup thread.deleted
      /\ \A i \in DOMAIN EventFrame :
            EventFrame[i] = IF i \in thread.upserted \cap alive THEN stamp[i] ELSE 0
  BY <1>1, DeltaFacts DEF Base, DataFit, EventFrame
<1>3. /\ Unpublished(EventFrame) \in Frames
      /\ \A i \in DOMAIN Unpublished(EventFrame) :
            i \in DOMAIN EventFrame /\ Unpublished(EventFrame)[i] = EventFrame[i]
  BY <1>2, UnpublishedFacts
<1>4. \A i \in DOMAIN Unpublished(EventFrame) :
         Unpublished(EventFrame)[i] = 0 \/ Unpublished(EventFrame)[i] = stamp[i]
  BY <1>2, <1>3
<1>5. Sendable(Unpublished(EventFrame))
  BY <1>3, <1>4, SendableNow DEF Base, Ordered
<1> QED BY <1>2, <1>3, <1>5

\* The frame of runFullSnapshotReconcile, before suppression.
DiffFrame == Diff(baseline, thread.fresh)

\* What a diff publishes: the rows that differ from the baseline.
LEMMA DiffFrameFacts ==
    ASSUME Base, thread.step = "diff"
    PROVE  /\ DiffFrame \in Frames
           /\ \A i \in Item : i \in DOMAIN DiffFrame <=> baseline[i] # thread.fresh[i]
           /\ \A i \in DOMAIN DiffFrame : i \in Item /\ DiffFrame[i] = thread.fresh[i]
           /\ Unpublished(DiffFrame) \in Frames /\ Sendable(Unpublished(DiffFrame))
<1>1. thread.fresh \in [Item -> 0..MaxStamp] /\ baseline \in [Item -> 0..MaxStamp]
  BY ThreadFacts DEF Base, DataFit, DiffThread
<1>2. /\ DiffFrame \in Frames
      /\ \A i \in Item : i \in DOMAIN DiffFrame <=> baseline[i] # thread.fresh[i]
      /\ \A i \in DOMAIN DiffFrame : i \in Item /\ DiffFrame[i] = thread.fresh[i]
  BY <1>1, DiffFacts DEF DiffFrame
<1>3. /\ Unpublished(DiffFrame) \in Frames
      /\ \A i \in DOMAIN Unpublished(DiffFrame) :
            i \in Item /\ Unpublished(DiffFrame)[i] = thread.fresh[i]
  BY <1>2, UnpublishedFacts
<1>4. Sendable(thread.fresh) /\ DOMAIN thread.fresh = Item
  BY <1>1 DEF Base, Ordered
<1>5. Sendable(Unpublished(DiffFrame))
  BY <1>3, <1>4 DEF Sendable
<1> QED BY <1>2, <1>3, <1>5

\* The steps of the server, the watcher and the tabs keep types and order.
LEMMA PublishOwnKeepsBase ==
    ASSUME Base, PublishOwn
    PROVE  Base'
<1>1. /\ Publish(OwnFrame) /\ published' = OwnFrame
      /\ thread.step = "publish" /\ recent' = TRUE /\ thread' = Idle
      /\ unsent' \subseteq unsent
      /\ UNCHANGED <<database, baseline, cursor, due>>
  BY DEF PublishOwn, OwnFrame
<1>2. OwnFrame \in Frames /\ Sendable(OwnFrame)
  BY <1>1, OwnFrameFacts
<1>3. StreamsFit' /\ \A s \in Stream : InOrder(s)'
  BY <1>1, <1>2, ChangesDo
<1>4. DataFit' /\ Born'
  BY <1>1, <1>2 DEF Base, DataFit, Born, database
<1> QED BY <1>1, <1>3, <1>4 DEF Base, ThreadFit, Ordered, Reached, Idle

LEMMA ReadEventsKeepsBase ==
    ASSUME Base, ReadEvents
    PROVE  Base'
<1>1. /\ UNCHANGED <<database, watcher, streams, unsent>> /\ due' = "no"
      /\ thread' = [step |-> "delta", upto |-> Len(log),
                    upserted |-> Touched(Unread, {"upsert"}), deleted |-> Touched(Unread, {"delete"})]
  BY DEF ReadEvents
<1>2. DataFit' /\ Born' /\ StreamsFit'
  BY <1>1 DEF Base, DataFit, Born, StreamsFit, database, watcher, streams
<1>3. Unread \in SUBSET DOMAIN log
  BY DEF Unread
<1>4. Touched(Unread, {"upsert"}) \in SUBSET Item /\ Touched(Unread, {"delete"}) \in SUBSET Item
  BY <1>3, TouchedFacts DEF Base
<1>5. Len(log) \in Positions
  BY BoundsAssumption DEF Base, DataFit, Positions
<1>6. thread' \in DeltaThread
  BY <1>1, <1>4, <1>5 DEF DeltaThread
<1>7. \A s \in Stream : InOrder(s)'
  BY <1>1 DEF Base, Ordered, InOrder, Flushed, database, streams
<1>8. Reached' /\ ThreadFit'
  BY <1>1, <1>5, <1>6 DEF ThreadFit, Reached, database, Positions
<1>9. Ordered'
  BY <1>1, <1>7 DEF Ordered
<1> QED BY <1>2, <1>8, <1>9 DEF Base

LEMMA ReadBoardKeepsBase ==
    ASSUME Base, ReadBoard
    PROVE  Base'
<1>1. /\ UNCHANGED <<database, watcher, streams>> /\ due' = "no"
      /\ thread' = [step |-> "diff", upto |-> Len(log), fresh |-> Board]
      /\ unsent' \subseteq unsent \cup Item
  BY DEF ReadBoard
<1>2. DataFit' /\ Born' /\ StreamsFit'
  BY <1>1 DEF Base, DataFit, Born, StreamsFit, database, watcher, streams
<1>3. /\ Board \in [Item -> 0..MaxStamp] /\ Board \in Frames /\ DOMAIN Board = Item
      /\ \A i \in Item : Board[i] = IF i \in alive THEN stamp[i] ELSE 0
  BY BoardFacts DEF Base, DataFit
<1>4. Len(log) \in Positions
  BY BoundsAssumption DEF Base, DataFit, Positions
<1>5. thread' \in DiffThread
  BY <1>1, <1>3, <1>4 DEF DiffThread
<1>6. \A s \in Stream : InOrder(s)' /\ Flushed(s)' = Flushed(s)
  BY <1>1 DEF Base, Ordered, InOrder, Flushed, database, streams
<1>7. Sendable(Board)
  BY <1>3, SendableNow DEF Base, Ordered
<1>8. Sendable(thread.fresh)'
  BY <1>1, <1>6, <1>7 DEF Sendable, database, streams
<1>9. Reached' /\ ThreadFit'
  BY <1>1, <1>4, <1>5 DEF ThreadFit, Reached, database, Positions
<1>10. Ordered'
  BY <1>1, <1>6, <1>8 DEF Ordered
<1> QED BY <1>2, <1>9, <1>10 DEF Base

LEMMA PublishEventsKeepsBase ==
    ASSUME Base, PublishEvents
    PROVE  Base'
<1>1. /\ PublishChanges(Unpublished(EventFrame))
      /\ thread.step = "delta" /\ recent' = FALSE /\ thread' = Idle /\ cursor' = thread.upto
      /\ unsent' \subseteq unsent
      /\ UNCHANGED <<database, baseline, published, due>>
  BY DEF PublishEvents, EventFrame
<1>2. Unpublished(EventFrame) \in Frames /\ Sendable(Unpublished(EventFrame))
  BY <1>1, EventFrameFacts
<1>3. StreamsFit' /\ \A s \in Stream : InOrder(s)'
  BY <1>1, <1>2, ChangesDo
<1>4. thread.upto \in 0..Len(log)
  BY <1>1, ThreadFacts DEF Base, Reached, DeltaThread, Positions, DataFit
<1>5. DataFit' /\ Born'
  BY <1>1, <1>4 DEF Base, DataFit, Born, database
<1> QED BY <1>1, <1>3, <1>5 DEF Base, ThreadFit, Ordered, Reached, Idle

LEMMA PublishDiffKeepsBase ==
    ASSUME Base, PublishDiff
    PROVE  Base'
<1>1. /\ PublishChanges(Unpublished(DiffFrame))
      /\ thread.step = "diff" /\ recent' = FALSE /\ thread' = Idle
      /\ baseline' = thread.fresh /\ cursor' = LatestCursor
      /\ unsent' \subseteq unsent \cup {log[n].item : n \in (thread.upto + 1)..Len(log)}
      /\ UNCHANGED <<database, published, due>>
  BY DEF PublishDiff, DiffFrame
<1>2. Unpublished(DiffFrame) \in Frames /\ Sendable(Unpublished(DiffFrame))
  BY <1>1, DiffFrameFacts
<1>3. StreamsFit' /\ \A s \in Stream : InOrder(s)'
  BY <1>1, <1>2, ChangesDo
<1>4. thread.upto \in Nat /\ Len(log) \in Nat /\ thread.fresh \in [Item -> 0..MaxStamp]
  BY <1>1, ThreadFacts DEF Base, DiffThread, Positions, DataFit
<1>5. {log[n].item : n \in (thread.upto + 1)..Len(log)} \subseteq Item
  <2>1. \A n \in (thread.upto + 1)..Len(log) : n \in DOMAIN log
    BY <1>4 DEF Base, DataFit
  <2> QED BY <2>1, LogFacts DEF Base
<1>6. LatestCursor \in 0..Len(log)
  BY <1>4 DEF LatestCursor
<1>7. \A i \in Item : thread.fresh[i] <= stamp[i]
  BY <1>1, <1>4 DEF Base, Ordered, Sendable
<1>8. DataFit'
  BY <1>1, <1>4, <1>5, <1>6 DEF Base, DataFit, database
<1>9. Born'
  BY <1>1, <1>7 DEF Base, Born, database
<1> QED BY <1>1, <1>3, <1>8, <1>9 DEF Base, ThreadFit, Ordered, Reached, Idle

\* Steps that leave the rows, the log and the streams alone.
LEMMA RestKeepsBase ==
    ASSUME Base, Prune \/ TickFails \/ SuppressionExpires
    PROVE  Base'
<1>1. /\ UNCHANGED <<alive, stamp, log, baseline, cursor, published, streams, unsent>>
      /\ pruned' \in 0..Len(log) /\ recent' \in BOOLEAN /\ due' \in {"no", "yes", "failed"}
      /\ thread' = thread \/ thread' = Idle
  <2>1. DataFit
    BY DEF Base
  <2>2. CASE Prune
    BY <2>1, <2>2 DEF Prune, DataFit, watcher
  <2>3. CASE TickFails
    BY <2>1, <2>3 DEF TickFails, DataFit, watcher, database
  <2>4. CASE SuppressionExpires
    BY <2>1, <2>4 DEF SuppressionExpires, DataFit, database
  <2> QED BY <2>2, <2>3, <2>4
<1>2. DataFit' /\ Born' /\ StreamsFit'
  BY <1>1 DEF Base, DataFit, Born, StreamsFit, streams
<1>3. \A s \in Stream : InOrder(s)' /\ Flushed(s)' = Flushed(s)
  BY <1>1 DEF Base, Ordered, InOrder, Flushed, streams
<1>4. CASE thread' = thread
  BY <1>1, <1>2, <1>3, <1>4 DEF Base, ThreadFit, Reached, Ordered, Sendable, streams
<1>5. CASE thread' = Idle
  BY <1>2, <1>3, <1>5 DEF Base, ThreadFit, Reached, Ordered, Idle
<1> QED BY <1>1, <1>4, <1>5

LEMMA TabKeepsBase ==
    ASSUME Base, NEW s \in Stream, Tab(s)
    PROVE  Base'
<1>1. /\ UNCHANGED <<database, watcher, thread, due, unsent>>
      /\ StreamsFit'
      /\ \A t \in Stream : InOrder(t)'
      /\ thread = Idle \/ \A t \in Stream, i \in Item : \A v :
            Below(Flushed(t), view[t], i, v) => Below(Flushed(t)', view'[t], i, v)
  BY TabDoes DEF Base, DataFit, Ordered
<1>2. DataFit' /\ Born' /\ ThreadFit' /\ Reached'
  BY <1>1 DEF Base, DataFit, Born, ThreadFit, Reached, database, watcher
<1>3. CASE thread = Idle
  BY <1>1, <1>2, <1>3 DEF Base, Ordered, Idle
<1>4. CASE thread # Idle
  <2>1. thread.step = "publish" => DOMAIN thread.frame \subseteq Item
    BY ThreadFacts, FrameFacts DEF Base, PublishThread
  <2>2. thread.step = "diff" => DOMAIN thread.fresh \subseteq Item
    BY ThreadFacts DEF Base, DiffThread
  <2>3. \A f : DOMAIN f \subseteq Item /\ Sendable(f) =>
            \A i \in DOMAIN f : /\ f[i] <= stamp'[i]
                                /\ f[i] # Nothing => \A t \in Stream : Below(Flushed(t)', view'[t], i, f[i])
    BY <1>1, <1>4 DEF Sendable, database
  <2> QED BY <1>1, <1>2, <2>1, <2>2, <2>3 DEF Base, Ordered, Sendable
<1> QED BY <1>3, <1>4

LEMMA StutterKeepsBase ==
    ASSUME Base, UNCHANGED vars
    PROVE  Base'
<1>1. UNCHANGED <<alive, stamp, log, pruned, baseline, cursor, published, recent, thread, due,
                  open, queue, pending, view, unsent>>
  BY DEF vars, database, watcher, streams
<1>2. \A s \in Stream : InOrder(s)' /\ Flushed(s)' = Flushed(s)
  BY <1>1 DEF Base, Ordered, InOrder, Flushed
<1> QED BY <1>1, <1>2 DEF Base, DataFit, ThreadFit, Reached, Born, StreamsFit, Ordered, Sendable

LEMMA NextKeepsBase == Base /\ [Next]_vars => Base'
<1> SUFFICES ASSUME Base, [Next]_vars PROVE Base'
  OBVIOUS
<1>1. ASSUME NEW i \in Item, Commit(i) PROVE Base'
  BY <1>1, CommitKeepsBase
<1>2. CASE Server
  BY <1>2, PublishOwnKeepsBase, ReadEventsKeepsBase, PublishEventsKeepsBase, ReadBoardKeepsBase,
     PublishDiffKeepsBase DEF Server
<1>3. CASE Prune \/ TickFails \/ SuppressionExpires
  BY <1>3, RestKeepsBase
<1>4. ASSUME NEW s \in Stream, Tab(s) PROVE Base'
  BY <1>4, TabKeepsBase
<1>5. CASE UNCHANGED vars
  BY <1>5, StutterKeepsBase
<1> QED BY <1>1, <1>2, <1>3, <1>4, <1>5 DEF Next

-----------------------------------------------------------------------------
(* What follows of types and order *)

\* SetToSeq lists every element once.
LEMMA ListsTheSet ==
    ASSUME NEW S, IsFiniteSet(S)
    PROVE  /\ SetToSeq(S) \in Seq(S)
           /\ Cardinality(S) \in Nat /\ Len(SetToSeq(S)) = Cardinality(S)
<1>1. Cardinality(S) \in Nat /\ ExistsBijection(1..Cardinality(S), S)
  BY FS_CardinalityType
<1>2. PICK b \in Bijection(1..Cardinality(S), S) : TRUE
  BY <1>1 DEF ExistsBijection
<1>3. b \in [1..Cardinality(S) -> S] /\ IsInjective(b)
  BY <1>2 DEF Bijection, Injection
<1>4. SetToSeq(S) \in [1..Cardinality(S) -> S]
  BY <1>3 DEF SetToSeq
<1> DEFINE q == SetToSeq(S)
           k == Cardinality(S)
<1>5. q \in [1..k -> S] /\ k \in Nat
  BY <1>1, <1>4
<1> HIDE DEF q, k
<1>6. q \in Seq(S) /\ Len(q) = k
  BY <1>5
<1> QED BY <1>5, <1>6 DEF q, k

\* A server that starts has a log with an event for each row, and no stream.
LEMMA InitBase == Init => Base
<1> SUFFICES ASSUME Init PROVE Base
  OBVIOUS
<1> DEFINE E == {Event(i, "upsert") : i \in alive}
<1>1. alive \subseteq Item /\ log = SetToSeq(E)
  BY DEF Init
<1>2. IsFiniteSet(alive) /\ Cardinality(alive) <= Cardinality(Item) /\ Cardinality(Item) \in Nat
  BY <1>1, ItemAssumption, FS_Subset, FS_CardinalityType
<1>3. IsFiniteSet(E) /\ Cardinality(E) \in Nat /\ Cardinality(E) <= MaxEvents
  <2>1. [i \in alive |-> Event(i, "upsert")] \in Surjection(alive, E)
    BY DEF Surjection
  <2>2. IsFiniteSet(E) /\ Cardinality(E) <= Cardinality(alive)
    BY <1>2, <2>1, FS_Surjection
  <2>3. Cardinality(alive) \in Nat /\ Cardinality(E) \in Nat
    BY <1>2, <2>2, FS_CardinalityType
  <2> QED BY <1>2, <2>2, <2>3, ItemAssumption, BoundsAssumption
<1>4. E \subseteq Events /\ \A e \in E : e.op = "upsert"
  BY <1>1, EventFacts
<1>5. log \in Seq(E) /\ Len(log) = Cardinality(E)
  BY <1>1, <1>3, ListsTheSet
<1> HIDE DEF E
<1>6. log \in Seq(Events) /\ \A n \in DOMAIN log : log[n].op = "upsert"
  BY <1>4, <1>5
<1>7. /\ stamp \in [Item -> 0..MaxStamp] /\ \A i \in Item : stamp[i] = IF i \in alive THEN 1 ELSE 0
  BY BoundsAssumption DEF Init
<1>8. Board \in [Item -> 0..MaxStamp] /\ \A i \in Item : Board[i] = IF i \in alive THEN stamp[i] ELSE 0
  BY <1>7, BoardFacts
<1>9. pruned \in 0..Len(log) /\ cursor \in 0..Len(log)
  BY <1>3, <1>5 DEF Init, LatestCursor
<1>10. NoFrame \in Frames
  BY NoFrameFacts
<1>11. DataFit
  BY <1>1, <1>3, <1>5, <1>6, <1>7, <1>8, <1>9, <1>10 DEF Init, DataFit
<1>12. Born
  <2>1. \A i \in alive : stamp[i] > 0
    BY <1>1, <1>7
  <2>2. \A i \in Item : baseline[i] <= stamp[i]
    <3>1. baseline = Board /\ \A i \in Item : stamp[i] \in Nat
      BY <1>7, BoundsAssumption DEF Init
    <3>2. \A i \in Item : Board[i] <= stamp[i]
      BY <1>8, <3>1
    <3> QED BY <3>1, <3>2
  <2>3. \A n \in DOMAIN log : log[n].op # "delete"
    BY <1>6
  <2> QED BY <2>1, <2>2, <2>3 DEF Born
<1>13. StreamsFit
  <2>1. <<>> \in Seq(Frames) /\ Len(<<>>) = 0
    OBVIOUS
  <2>2. [i \in Item |-> Nothing] \in [Item -> 0..MaxStamp]
    BY BoundsAssumption DEF Nothing
  <2>3. queue = [s \in Stream |-> <<>>] /\ pending = [s \in Stream |-> NoFrame]
        /\ view = [s \in Stream |-> [i \in Item |-> Nothing]] /\ open = {}
    BY DEF Init
  <2>4. queue \in [Stream -> Seq(Frames)] /\ pending \in [Stream -> Frames]
        /\ view \in [Stream -> [Item -> 0..MaxStamp]]
    BY <1>10, <2>1, <2>2, <2>3
  <2>5. \A s \in Stream : Len(queue[s]) <= HighWater + 1
    BY <2>1, <2>3 DEF HighWater
  <2> QED BY <2>3, <2>4, <2>5 DEF StreamsFit
<1>14. ASSUME NEW s \in Stream PROVE InOrder(s)
  <2>1. Flushed(s) = <<>> /\ \A i \in Item : view[s][i] = 0
    BY DEF Init, Flushed, Nothing
  <2>2. \A i \in Item : 0 <= stamp[i]
    BY <1>7
  <2> QED BY <2>1, <2>2, EmptyOrder DEF InOrder
<1>15. ThreadFit /\ Reached /\ Ordered
  BY <1>14 DEF Init, ThreadFit, Reached, Ordered, Idle
<1> QED BY <1>11, <1>12, <1>13, <1>15 DEF Base

LEMMA BaseIsTyped == Base => TypeOK
  BY DEF Base, DataFit, ThreadFit, StreamsFit, TypeOK, Events, PublishThread, DeltaThread, DiffThread

\* Every variable has its type: in particular a tab that never reads holds a bounded number
\* of frames (handleSnapshotDelta), and the server is in the middle of one of its four steps.
THEOREM TypeCorrect == Spec => []TypeOK
  BY InitBase, NextKeepsBase, BaseIsTyped, PTL DEF Spec

\* Only a read changes what a tab shows, and never back.
LEMMA NextClimbs == Base /\ [Next]_vars =>
    [\A s \in Stream, i \in Item : view'[s][i] # Nothing => view'[s][i] >= view[s][i]]_vars
<1> SUFFICES ASSUME Base, Next
             PROVE  \A s \in Stream, i \in Item : view'[s][i] # Nothing => view'[s][i] >= view[s][i]
  OBVIOUS
<1>1. ASSUME NEW s \in Stream, Tab(s)
      PROVE  \A t \in Stream, i \in Item : view'[t][i] # Nothing => view'[t][i] >= view[t][i]
  BY <1>1, TabDoes DEF Base, DataFit, Ordered
<1>2. ASSUME ~\E s \in Stream : Tab(s) PROVE view' = view
  <2>1. \A i \in Item : Commit(i) => view' = view
    BY CommitFacts DEF Base, streams
  <2>2. Prune \/ TickFails \/ SuppressionExpires \/ ReadEvents \/ ReadBoard => view' = view
    BY DEF Prune, TickFails, SuppressionExpires, ReadEvents, ReadBoard, streams
  <2>3. PublishOwn \/ PublishEvents \/ PublishDiff => view' = view
    BY DEF PublishOwn, PublishEvents, PublishDiff, PublishChanges, Publish, streams
  <2> QED BY <1>2, <2>1, <2>2, <2>3 DEF Next, Server
<1>3. \A s \in Stream, i \in Item : view[s][i] >= view[s][i]
  BY BoundsAssumption DEF Base, StreamsFit
<1> QED BY <1>1, <1>2, <1>3

\* A tab never shows an older state of a row after a newer one: a pending snapshot is never
\* overtaken by a delta (handleSnapshotDelta, pull), over any number of reconnects.
THEOREM ViewsClimb == Spec => NeverBack
  BY InitBase, NextKeepsBase, NextClimbs, PTL DEF Spec, NeverBack

-----------------------------------------------------------------------------
(* What the log, the board and the thread tell of a stale tab *)

\* Some tab will not show the row as it is.
Wrong(i) == \E s \in open : Final(s)[i] # Board[i]
OnTheWay(i) == thread.step = "publish" /\ i \in DOMAIN thread.frame

NoResolve(after) == \A n \in DOMAIN log : n > after => log[n].op # "resolve_conflict"
EventAfter(i, op, after) == \E n \in DOMAIN log : n > after /\ log[n] = Event(i, op)
EventWithin(i, op, after, upto) == \E n \in DOMAIN log : n > after /\ n <= upto /\ log[n] = Event(i, op)
Untouched(i, after) == \A n \in DOMAIN log : n > after => log[n].item # i

\* The log behind the cursor says what last happened to a row that a tab shows wrong.
LogTells == \A i \in Item \ unsent :
    (Wrong(i) \/ OnTheWay(i)) /\ NoResolve(cursor) => EventAfter(i, LastOp(i), cursor)

\* So does the old board, unless the row is gone.
BaselineTells == \A i \in Item \ unsent :
    Wrong(i) \/ OnTheWay(i) => baseline[i] # Board[i] \/ Board[i] = 0

\* What the log deletes behind the cursor stays deleted.
NoRevival == cursor # 0 => \A i \in alive \ unsent : ~EventAfter(i, "delete", cursor)

\* What the watcher read of the log.
EventsRead == thread.step = "delta" =>
    /\ cursor # 0 /\ cursor <= thread.upto
    /\ \A n \in DOMAIN log : n > cursor /\ n <= thread.upto => log[n].op # "resolve_conflict"
    /\ \A i \in Item : i \in thread.upserted <=> EventWithin(i, "upsert", cursor, thread.upto)
    /\ \A i \in Item : i \in thread.deleted <=> EventWithin(i, "delete", cursor, thread.upto)

\* What it read of the board.
BoardRead == thread.step = "diff" => \A i \in Item \ unsent :
    /\ Untouched(i, thread.upto) => thread.fresh[i] = Board[i]
    /\ Wrong(i) => thread.fresh[i] # Board[i] \/ baseline[i] # Board[i]
    /\ thread.fresh[i] = 0 /\ baseline[i] = 0 => \A s \in open : Final(s)[i] = 0

\* A frame that says a row is gone, says so of a row that is, or was pulled since.
Gone(i) == i \notin alive \/ i \in unsent
OwnRead == thread.step = "publish" =>
    /\ due = "yes"
    /\ \A i \in DOMAIN thread.frame : /\ stamp[i] > 0
                                      /\ thread.frame[i] = 0 => Gone(i)
                                      /\ thread.reread => thread.frame[i] # 0

\* A tab shows a row wrong and no reconcile is due: the one that runs has the row.
DueTells == due = "no" => \A i \in Item \ unsent : Wrong(i) =>
    \/ thread.step = "delta" /\ i \in (IF i \in alive THEN thread.upserted ELSE thread.deleted)
    \/ thread.step = "diff" /\ thread.fresh[i] = Board[i] /\ baseline[i] # Board[i]

\* What the server published last is on its way to every tab, or the row moved since.
Older(i) == IF published[i] = 0 THEN i \in unsent ELSE stamp[i] > published[i] \/ i \notin alive
RecentSound == recent => \A i \in DOMAIN published :
    /\ published[i] <= stamp[i] /\ stamp[i] > 0
    /\ published[i] = 0 => Gone(i)
    /\ \A s \in open : Final(s)[i] = published[i] \/ Older(i)

Told == /\ LogTells /\ BaselineTells /\ NoRevival /\ EventsRead /\ BoardRead
        /\ OwnRead /\ DueTells /\ RecentSound

\* A tab ends up with no later version than the row has.
LEMMA FinalFits ==
    ASSUME Base, NEW s \in Stream, NEW i \in Item
    PROVE  Final(s)[i] \in 0..MaxStamp /\ Final(s)[i] <= stamp[i]
<1> DEFINE q == Flushed(s)
           w == view[s]
<1>1. q \in Seq(Frames) /\ w \in [Item -> 0..MaxStamp]
  BY FlushedFacts DEF Base
<1>2. \A n \in DOMAIN q : q[n] \in Frames
  BY <1>1
<1>3. \A n \in DOMAIN q : i \in DOMAIN q[n] => q[n][i] \in 0..MaxStamp
  BY <1>2, FrameFacts
<1>4. Below(q, w, i, stamp[i])
  BY DEF Base, Ordered, InOrder
<1> HIDE DEF q, w
<1>5. Ending(q, w)[i] <= stamp[i]
  BY <1>1, <1>4, EndingBelow
<1>6. Ending(q, w)[i] \in 0..MaxStamp
  BY <1>1, <1>3, EndingFacts
<1> QED BY <1>5, <1>6 DEF Final, q, w

LEMMA BoardIs ==
    ASSUME Base
    PROVE  \A i \in Item : /\ Board[i] = (IF i \in alive THEN stamp[i] ELSE 0)
                           /\ stamp[i] \in Nat /\ baseline[i] \in Nat /\ baseline[i] <= stamp[i]
                           /\ (i \in alive <=> Board[i] # 0)
<1>1. \A i \in Item : /\ Board[i] = (IF i \in alive THEN stamp[i] ELSE 0)
                      /\ stamp[i] \in Nat /\ baseline[i] \in Nat /\ baseline[i] <= stamp[i]
  BY BoardFacts, BoundsAssumption DEF Base, DataFit, Born
<1>2. \A i \in alive : stamp[i] > 0
  BY DEF Base, Born
<1> QED BY <1>1, <1>2

\* What a commit adds to the log is about its row and behind everything that was read.
LEMMA LogCommit ==
    ASSUME DataFit, NEW i \in Item, Commit(i)
    PROVE  /\ \A n \in DOMAIN log : n \in DOMAIN log' /\ log'[n] = log[n]
           /\ \A n \in DOMAIN log' : n \in DOMAIN log \/ (n \in Nat /\ n > Len(log) /\ log'[n].item = i)
           /\ Wrote(i) => /\ \E n \in DOMAIN log' : n > Len(log) /\ log'[n] = Event(i, LastOp(i)')
                          /\ \A n \in DOMAIN log' : n \in DOMAIN log \/ log'[n] = Event(i, LastOp(i)')
           /\ Resolved(i) => /\ \E n \in DOMAIN log' : n > Len(log) /\ log'[n].op = "resolve_conflict"
                             /\ \A n \in DOMAIN log' : n \in DOMAIN log \/ log'[n].op = "resolve_conflict"
<1>1. Wrote(i) \/ Pulled(i) \/ Resolved(i)
  BY CommitFacts
<1>2. ASSUME NEW op \in {"upsert", "delete", "resolve_conflict"},
             log' = Append(log, Event(i, op)), Len(log) < MaxEvents
      PROVE  /\ Len(log) + 1 \in DOMAIN log' /\ Len(log) + 1 > Len(log) /\ Len(log) + 1 \in Nat
             /\ log'[Len(log) + 1] = Event(i, op)
             /\ Event(i, op).item = i /\ Event(i, op).op = op
             /\ \A n \in DOMAIN log : n \in DOMAIN log' /\ log'[n] = log[n]
             /\ \A n \in DOMAIN log' : n \in DOMAIN log \/ n = Len(log) + 1
  <2> DEFINE e == Event(i, op)
  <2>1. e \in Events /\ e.item = i /\ e.op = op
    BY EventFacts
  <2> HIDE DEF e
  <2>2. log' = Append(log, e)
    BY <1>2 DEF e
  <2> QED BY <1>2, <2>1, <2>2, LogGrows DEF DataFit, e
<1>3. LastOp(i)' \in {"upsert", "delete", "resolve_conflict"}
  BY DEF LastOp
<1>4. CASE Wrote(i)
  <2> DEFINE op == LastOp(i)'
  <2>1. log' = Append(log, Event(i, op)) /\ Len(log) < MaxEvents /\ op \in {"upsert", "delete", "resolve_conflict"}
    BY <1>3, <1>4 DEF Wrote
  <2>3. op # "resolve_conflict"
    BY DEF LastOp
  <2> HIDE DEF op
  <2>2. /\ Len(log) + 1 \in DOMAIN log' /\ Len(log) + 1 > Len(log) /\ Len(log) + 1 \in Nat
        /\ log'[Len(log) + 1] = Event(i, op)
        /\ Event(i, op).item = i /\ Event(i, op).op = op
        /\ \A n \in DOMAIN log : n \in DOMAIN log' /\ log'[n] = log[n]
        /\ \A n \in DOMAIN log' : n \in DOMAIN log \/ n = Len(log) + 1
    BY <1>2, <2>1
  <2>4. ~Resolved(i)
    <3>1. Event(i, "resolve_conflict").op = "resolve_conflict" /\ Event(i, "resolve_conflict") \in Events
      BY EventFacts
    <3>2. log' = Append(log, Event(i, "resolve_conflict")) =>
             log'[Len(log) + 1] = Event(i, "resolve_conflict")
      BY <3>1 DEF DataFit
    <3> QED BY <2>2, <2>3, <3>1, <3>2 DEF Resolved
  <2> QED BY <2>2, <2>4 DEF op
<1>5. CASE Resolved(i) /\ ~Wrote(i)
  <2> DEFINE op == "resolve_conflict"
  <2>1. log' = Append(log, Event(i, op)) /\ Len(log) < MaxEvents
    BY <1>5 DEF Resolved
  <2>2. /\ Len(log) + 1 \in DOMAIN log' /\ Len(log) + 1 > Len(log) /\ Len(log) + 1 \in Nat
        /\ log'[Len(log) + 1] = Event(i, op)
        /\ Event(i, op).item = i /\ Event(i, op).op = op
        /\ \A n \in DOMAIN log : n \in DOMAIN log' /\ log'[n] = log[n]
        /\ \A n \in DOMAIN log' : n \in DOMAIN log \/ n = Len(log) + 1
    BY <1>2, <2>1
  <2> QED BY <1>5, <2>2
<1>6. CASE Pulled(i) /\ ~Wrote(i) /\ ~Resolved(i)
  BY <1>6 DEF Pulled
<1> QED BY <1>1, <1>4, <1>5, <1>6

\* What a commit leaves of the other rows, and does to its own.
LEMMA RowCommit ==
    ASSUME Base, NEW i \in Item, Commit(i)
    PROVE  /\ open' = open /\ \A s \in Stream : Final(s)' = Final(s)
           /\ unsent \subseteq unsent' /\ \A j \in Item \ {i} : j \in unsent' <=> j \in unsent
           /\ UNCHANGED <<baseline, cursor, published, recent>> /\ due' = "yes"
           /\ \A j \in Item \ {i} : /\ stamp'[j] = stamp[j] /\ (j \in alive' <=> j \in alive)
                                    /\ Board'[j] = Board[j] /\ LastOp(j)' = LastOp(j)
                                    /\ Wrong(j)' = Wrong(j) /\ (OnTheWay(j)' => OnTheWay(j))
           /\ i \in unsent' \/ Wrote(i) \/ Resolved(i)
           /\ i \in unsent' <=> (i \in unsent \/ Pulled(i))
           /\ thread' = thread \/ (thread = Idle /\ BoardWrite(i))
<1>1. /\ UNCHANGED <<pruned, watcher, streams>> /\ due' = "yes"
      /\ stamp' \in [Item -> 0..MaxStamp] /\ alive' \subseteq Item
      /\ \A j \in Item \ {i} : stamp'[j] = stamp[j] /\ (j \in alive' <=> j \in alive)
      /\ Wrote(i) \/ Pulled(i) \/ Resolved(i)
      /\ thread' = thread \/ BoardWrite(i)
  BY CommitFacts DEF Base
<1>2. open' = open /\ \A s \in Stream : Final(s)' = Final(s)
  BY <1>1 DEF streams, Final, Flushed
<1>3. \A j \in Item \ {i} : Board'[j] = Board[j]
  BY <1>1 DEF Board
<1>4. \A j \in Item \ {i} : Wrong(j)' = Wrong(j)
  BY <1>2, <1>3 DEF Wrong, Base, StreamsFit
<1>5. \A j \in Item \ {i} : LastOp(j)' = LastOp(j)
  BY <1>1 DEF LastOp
<1>6. ASSUME BoardWrite(i) PROVE thread = Idle /\ DOMAIN thread'.frame = {i}
  BY <1>6, BoardWriteFacts DEF Base
<1>7. \A j \in Item \ {i} : OnTheWay(j)' => OnTheWay(j)
  BY <1>1, <1>6 DEF OnTheWay
<1>8. /\ unsent \subseteq unsent' /\ \A j \in Item \ {i} : j \in unsent' <=> j \in unsent
      /\ i \in unsent' \/ Wrote(i) \/ Resolved(i)
      /\ i \in unsent' => i \in unsent \/ Pulled(i)
      /\ Pulled(i) => i \in unsent'
  BY <1>1 DEF Wrote, Pulled, Resolved
<1> QED BY <1>1, <1>2, <1>3, <1>4, <1>5, <1>6, <1>7, <1>8 DEF watcher

-----------------------------------------------------------------------------
(* Commits and the log *)

\* How the row of a commit stands after it.
LEMMA OwnRow ==
    ASSUME Base, NEW i \in Item, Commit(i)
    PROVE  /\ stamp'[i] \in Nat /\ stamp[i] <= stamp'[i]
           /\ Board'[i] = IF i \in alive' THEN stamp'[i] ELSE 0
           /\ i \notin unsent' => \/ i \in alive' /\ stamp'[i] > stamp[i] /\ (i \in alive \/ stamp[i] = 0)
                                  \/ i \notin alive' /\ i \in alive /\ stamp'[i] = stamp[i]
                                  \/ /\ (i \in alive' <=> i \in alive) /\ stamp'[i] = stamp[i]
                                     /\ Board'[i] = Board[i] /\ Resolved(i)
           /\ i \notin unsent' => \E n \in DOMAIN log' : n > Len(log) /\ log'[n].item = i
           /\ i \in unsent' /\ i \notin unsent => stamp'[i] > stamp[i]
           /\ \/ stamp'[i] > stamp[i]
              \/ i \notin alive'
              \/ (i \in alive' <=> i \in alive) /\ stamp'[i] = stamp[i]
<1>1. /\ stamp' \in [Item -> 0..MaxStamp] /\ Base'
      /\ \A j \in Item : stamp[j] <= stamp'[j]
  BY CommitFacts, CommitKeepsBase, CommitKeepsData DEF Base
<1>2. stamp'[i] \in Nat /\ Board'[i] = IF i \in alive' THEN stamp'[i] ELSE 0
  BY <1>1 DEF Board, Nothing
<1>3. Board[i] = IF i \in alive THEN stamp[i] ELSE 0
  BY BoardIs
<1>4. i \in unsent' \/ Wrote(i) \/ Resolved(i)
  BY RowCommit
<1>5. i \notin unsent' => \E n \in DOMAIN log' : n > Len(log) /\ log'[n].item = i
  <2>1. Wrote(i) \/ Resolved(i) => \E n \in DOMAIN log' : n > Len(log) /\ log'[n].item = i
    <3>1. LastOp(i)' \in {"upsert", "delete", "resolve_conflict"}
      BY DEF LastOp
    <3>2. Event(i, LastOp(i)').item = i
      BY <3>1, EventFacts
    <3>3. \A n \in DOMAIN log : n <= Len(log) /\ n \in Nat /\ Len(log) \in Nat
      BY LogFacts DEF Base, DataFit
    <3>4. Wrote(i) => \E n \in DOMAIN log' : n > Len(log) /\ log'[n] = Event(i, LastOp(i)')
      BY LogCommit DEF Base
    <3>5. Resolved(i) => \E n \in DOMAIN log' : n > Len(log) /\ log'[n].op = "resolve_conflict"
      BY LogCommit DEF Base
    <3>6. \A n \in DOMAIN log' : n \in DOMAIN log \/ (n \in Nat /\ n > Len(log) /\ log'[n].item = i)
      BY LogCommit DEF Base
    <3> QED BY <3>2, <3>3, <3>4, <3>5, <3>6
  <2> QED BY <1>4, <2>1
<1>6. \/ stamp'[i] > stamp[i]
      \/ i \notin alive'
      \/ (i \in alive' <=> i \in alive) /\ stamp'[i] = stamp[i]
  BY CommitFacts DEF Base, Wrote, Resolved, Pulled
<1> QED BY <1>1, <1>2, <1>3, <1>4, <1>5, <1>6, RowCommit DEF Wrote, Resolved, Pulled

\* After a command the log tells of its row; after sync resolve no cursor is used.
LEMMA CommitTellsLog ==
    ASSUME Base, LogTells, NEW i \in Item, Commit(i)
    PROVE  LogTells'
<1> SUFFICES ASSUME NEW j \in Item \ unsent', Wrong(j)' \/ OnTheWay(j)', NoResolve(cursor)'
             PROVE  EventAfter(j, LastOp(j), cursor)'
  BY DEF LogTells
<1>1. cursor' = cursor /\ cursor \in Nat /\ cursor <= Len(log) /\ Len(log) \in Nat
  BY RowCommit DEF Base, DataFit
<1>2. \A n \in DOMAIN log : n \in DOMAIN log' /\ log'[n] = log[n]
  BY LogCommit DEF Base
<1>3. CASE j # i
  <2>1. j \in Item \ unsent /\ (Wrong(j) \/ OnTheWay(j)) /\ LastOp(j)' = LastOp(j)
    BY <1>3, RowCommit
  <2>2. NoResolve(cursor)
    BY <1>1, <1>2 DEF NoResolve
  <2>3. EventAfter(j, LastOp(j), cursor)
    BY <2>1, <2>2 DEF LogTells
  <2> QED BY <1>1, <1>2, <2>1, <2>3 DEF EventAfter, Event
<1>4. CASE j = i
  <2>1. \A n \in DOMAIN log' : n \in DOMAIN log \/ (n \in Nat /\ n > Len(log))
    BY LogCommit DEF Base
  <2>2. \A n \in DOMAIN log' : n > Len(log) => n > cursor
    <3>1. \A n \in DOMAIN log : n \in Nat
      BY LogFacts DEF Base
    <3> QED BY <1>1, <2>1, <3>1
  <2>3. CASE Resolved(i)
    <3>1. PICK n \in DOMAIN log' : n > Len(log) /\ log'[n].op = "resolve_conflict"
      BY <2>3, LogCommit DEF Base
    <3> QED BY <1>1, <2>2, <3>1 DEF NoResolve
  <2>4. CASE Wrote(i)
    <3>1. PICK n \in DOMAIN log' : n > Len(log) /\ log'[n] = Event(i, LastOp(i)')
      BY <2>4, LogCommit DEF Base
    <3> QED BY <1>1, <1>4, <2>2, <3>1 DEF EventAfter, Event
  <2> QED BY <1>4, <2>3, <2>4, RowCommit
<1> QED BY <1>3, <1>4

\* After a commit the row differs from the baseline, or is gone.
LEMMA CommitTellsBaseline ==
    ASSUME Base, BaselineTells, OwnRead, NEW i \in Item, Commit(i)
    PROVE  BaselineTells'
<1> SUFFICES ASSUME NEW j \in Item \ unsent', Wrong(j)' \/ OnTheWay(j)'
             PROVE  baseline'[j] # Board'[j] \/ Board'[j] = 0
  BY DEF BaselineTells
<1>1. baseline' = baseline
  BY RowCommit
<1>2. CASE j # i
  BY <1>1, <1>2, RowCommit DEF BaselineTells
<1>3. CASE j = i
  <2>1. baseline[i] \in Nat /\ baseline[i] <= stamp[i] /\ stamp[i] \in Nat
    BY BoardIs
  <2>2. CASE (i \in alive' /\ stamp'[i] > stamp[i]) \/ i \notin alive'
    BY <1>1, <1>3, <2>1, <2>2, OwnRow
  <2>3. CASE Board'[i] = Board[i] /\ Resolved(i) /\ ~((i \in alive' /\ stamp'[i] > stamp[i]) \/ i \notin alive')
    <3>1. thread' = thread \/ (thread = Idle /\ BoardWrite(i))
      BY RowCommit
    <3>2. i \notin unsent
      BY <1>3, RowCommit
    <3>3. ~BoardWrite(i)
      <4>1. BoardWrite(i) => unsent' = unsent /\ (Create(i) \/ Update(i) \/ Delete(i))
        BY DEF BoardWrite
      <4>2. BoardWrite(i) => Wrote(i)
        BY <4>1, WritesWrite DEF Base
      <4> QED BY <2>1, <2>3, <4>2, OwnRow DEF Wrote
    <3>4. OnTheWay(i)' => OnTheWay(i)
      BY <3>1, <3>3 DEF OnTheWay
    <3>5. Wrong(i)' => Wrong(i)
      BY <2>3, RowCommit DEF Wrong, Base, StreamsFit
    <3> QED BY <1>1, <1>3, <2>3, <3>2, <3>4, <3>5 DEF BaselineTells
  <2> QED BY <1>3, <2>2, <2>3, OwnRow
<1> QED BY <1>2, <1>3

\* A deleted row comes back only by sync pull.
LEMMA CommitSparesDeleted ==
    ASSUME Base, NoRevival, NEW i \in Item, Commit(i)
    PROVE  NoRevival'
<1> SUFFICES ASSUME cursor' # 0, NEW j \in alive' \ unsent', NEW n \in DOMAIN log', n > cursor',
                    log'[n] = Event(j, "delete")
             PROVE  FALSE
  BY DEF NoRevival, EventAfter, Event
<1>1. cursor' = cursor /\ j \in Item
  BY RowCommit, CommitFacts DEF Base
<1>2. \A m \in DOMAIN log : log'[m] = log[m]
  BY LogCommit DEF Base
<1>3. Event(j, "delete").item = j /\ Event(j, "delete").op = "delete"
  BY <1>1, EventFacts
<1>4. CASE n \in DOMAIN log
  <2>1. EventAfter(j, "delete", cursor)
    BY <1>1, <1>2, <1>4 DEF EventAfter
  <2>2. j \notin alive
    BY <1>1, <2>1, RowCommit DEF NoRevival
  <2>3. stamp[j] > 0
    BY <1>2, <1>3, <1>4 DEF Base, Born
  <2>4. j = i
    BY <1>1, <2>2, RowCommit
  <2> QED BY <2>2, <2>3, <2>4, OwnRow, BoardIs
<1>5. CASE n \notin DOMAIN log
  <2>1. log'[n].item = i
    BY <1>5, LogCommit DEF Base
  <2>2. j = i
    BY <1>3, <2>1
  <2>3. Wrote(i) \/ Resolved(i)
    BY <2>2, RowCommit
  <2>4. Resolved(i) => log'[n].op = "resolve_conflict"
    BY <1>5, LogCommit DEF Base
  <2>5. Wrote(i) => log'[n] = Event(i, "upsert")
    <3>1. LastOp(i)' = "upsert"
      BY <2>2 DEF LastOp
    <3> QED BY <1>5, <3>1, LogCommit DEF Base
  <2>6. Event(i, "upsert").op = "upsert"
    BY EventFacts
  <2> QED BY <1>3, <2>3, <2>4, <2>5, <2>6
<1> QED BY <1>4, <1>5

-----------------------------------------------------------------------------
(* Commits and what was read *)

\* What was read of the log stays true of it.
LEMMA CommitSparesEventsRead ==
    ASSUME Base, EventsRead, NEW i \in Item, Commit(i)
    PROVE  EventsRead'
<1> SUFFICES ASSUME thread'.step = "delta" PROVE EventsRead'
  BY DEF EventsRead
<1>1. thread' = thread
  <2>1. BoardWrite(i) => thread'.step = "publish"
    BY BoardWriteFacts DEF Base, PublishThread
  <2> QED BY <2>1, RowCommit
<1>2. thread.upto <= Len(log) /\ thread.upto \in Nat /\ cursor \in Nat /\ Len(log) \in Nat /\ cursor' = cursor
  BY <1>1, ThreadFacts, RowCommit DEF Base, Reached, DeltaThread, Positions, DataFit
<1>3. \A n \in DOMAIN log : n \in DOMAIN log' /\ log'[n] = log[n]
  BY LogCommit DEF Base
<1>4. \A n \in DOMAIN log' : n <= thread.upto => n \in DOMAIN log
  <2>1. \A n \in DOMAIN log' : n \in DOMAIN log \/ (n \in Nat /\ n > Len(log))
    BY LogCommit DEF Base
  <2> QED BY <1>2, <2>1
<1>5. \A j, op : EventWithin(j, op, cursor, thread.upto)' <=> EventWithin(j, op, cursor, thread.upto)
  BY <1>1, <1>2, <1>3, <1>4 DEF EventWithin, Event
<1> QED BY <1>1, <1>2, <1>3, <1>4, <1>5 DEF EventsRead

\* A row committed after the board was read has an event behind the read.
LEMMA CommitSparesBoardRead ==
    ASSUME Base, BoardRead, NEW i \in Item, Commit(i)
    PROVE  BoardRead'
<1> SUFFICES ASSUME thread'.step = "diff", NEW j \in Item \ unsent'
             PROVE  /\ Untouched(j, thread.upto)' => thread'.fresh[j] = Board'[j]
                    /\ Wrong(j)' => thread'.fresh[j] # Board'[j] \/ baseline'[j] # Board'[j]
                    /\ thread'.fresh[j] = 0 /\ baseline'[j] = 0 => \A s \in open' : Final(s)'[j] = 0
  BY DEF BoardRead
<1>1. thread' = thread
  <2>1. BoardWrite(i) => thread'.step = "publish"
    BY BoardWriteFacts DEF Base, PublishThread
  <2> QED BY <2>1, RowCommit
<1>2. thread.upto <= Len(log) /\ thread.upto \in Nat /\ Len(log) \in Nat
  BY <1>1, ThreadFacts DEF Base, Reached, DiffThread, Positions, DataFit
<1>3. \A n \in DOMAIN log : n \in DOMAIN log' /\ log'[n] = log[n]
  BY LogCommit DEF Base
<1>4. /\ j \in Item \ unsent /\ baseline' = baseline /\ open' = open
      /\ \A s \in Stream : Final(s)' = Final(s)
  BY RowCommit
<1>5. open \subseteq Stream
  BY DEF Base, StreamsFit
<1>6. thread.fresh[j] = 0 /\ baseline[j] = 0 => \A s \in open : Final(s)'[j] = 0
  BY <1>1, <1>4, <1>5 DEF BoardRead
<1>7. CASE j # i
  <2>1. Board'[j] = Board[j] /\ Wrong(j)' = Wrong(j)
    BY <1>7, RowCommit
  <2>2. Untouched(j, thread.upto)' => Untouched(j, thread.upto)
    BY <1>1, <1>3 DEF Untouched
  <2> QED BY <1>1, <1>4, <1>6, <2>1, <2>2 DEF BoardRead
<1>8. CASE j = i
  <2>1. ~Untouched(i, thread.upto)'
    <3>1. PICK n \in DOMAIN log' : n > Len(log) /\ log'[n].item = i
      BY <1>8, OwnRow
    <3>2. n > thread.upto
      <4>1. n \in Nat
        BY <3>1, LogCommit, LogFacts DEF Base
      <4> QED BY <1>2, <3>1, <4>1
    <3> QED BY <1>1, <3>1, <3>2 DEF Untouched
  <2>2. Wrong(i)' => thread.fresh[i] # Board'[i] \/ baseline[i] # Board'[i]
    <3>1. baseline[i] \in Nat /\ baseline[i] <= stamp[i] /\ stamp[i] \in Nat
      BY BoardIs
    <3>2. CASE i \in alive' /\ stamp'[i] > stamp[i]
      BY <3>1, <3>2, OwnRow
    <3>3. CASE i \notin alive'
      <4>1. Board'[i] = 0
        BY <3>3, OwnRow
      <4>2. Wrong(i)' => \E s \in open : Final(s)'[i] # 0
        BY <1>4, <1>5, <4>1 DEF Wrong
      <4> QED BY <1>6, <1>8, <4>1, <4>2
    <3>4. CASE Board'[i] = Board[i]
      <4>1. Wrong(i)' => Wrong(i)
        BY <1>4, <1>5, <3>4 DEF Wrong
      <4> QED BY <1>1, <1>4, <1>8, <3>4, <4>1 DEF BoardRead
    <3> QED BY <1>8, <3>2, <3>3, <3>4, OwnRow
  <2> QED BY <1>1, <1>4, <1>6, <1>8, <2>1, <2>2
<1> QED BY <1>7, <1>8

\* A commit between a mutation and its publication does not falsify the frame.
LEMMA CommitSparesOwnRead ==
    ASSUME Base, OwnRead, NEW i \in Item, Commit(i)
    PROVE  OwnRead'
<1>1. due' = "yes" /\ unsent \subseteq unsent'
  BY RowCommit
<1>2. CASE BoardWrite(i)
  <2>1. /\ DOMAIN thread'.frame = {i} /\ stamp'[i] > 0
        /\ thread'.frame[i] = Nothing => i \notin alive'
        /\ thread'.reread => thread'.frame[i] # Nothing
    BY <1>2, BoardWriteFacts DEF Base
  <2> QED BY <1>1, <2>1 DEF OwnRead, Gone, Nothing
<1>3. CASE thread' = thread
  <2> SUFFICES ASSUME thread.step = "publish", NEW j \in DOMAIN thread.frame
               PROVE  /\ stamp'[j] > 0
                      /\ thread.frame[j] = 0 => Gone(j)'
                      /\ thread.reread => thread.frame[j] # 0
    BY <1>1, <1>3 DEF OwnRead
  <2>1. j \in Item
    BY ThreadFacts, FrameFacts DEF Base, PublishThread
  <2>2. stamp[j] > 0 /\ (thread.frame[j] = 0 => Gone(j)) /\ (thread.reread => thread.frame[j] # 0)
    BY DEF OwnRead
  <2>3. CASE j # i
    BY <1>1, <2>1, <2>2, <2>3, RowCommit DEF Gone
  <2>4. CASE j = i
    <3>1. stamp'[i] > 0
      BY <2>2, <2>4, OwnRow, BoardIs
    <3>2. Gone(i) => Gone(i)'
      BY <1>1, <2>2, <2>4, OwnRow, BoardIs DEF Gone
    <3> QED BY <2>2, <2>4, <3>1, <3>2
  <2> QED BY <2>3, <2>4
<1> QED BY <1>2, <1>3, RowCommit

\* Nor what was published last.
LEMMA CommitSparesRecent ==
    ASSUME Base, RecentSound, NEW i \in Item, Commit(i)
    PROVE  RecentSound'
<1>1. /\ published' = published /\ recent' = recent /\ unsent \subseteq unsent' /\ open' = open
      /\ \A s \in Stream : Final(s)' = Final(s)
  BY RowCommit
<1> SUFFICES ASSUME recent, NEW j \in DOMAIN published
             PROVE  /\ published[j] <= stamp'[j] /\ stamp'[j] > 0
                    /\ published[j] = 0 => Gone(j)'
                    /\ \A s \in open : Final(s)'[j] = published[j] \/ Older(j)'
  BY <1>1 DEF RecentSound
<1>2. j \in Item /\ published[j] \in Nat
  BY FrameFacts, BoundsAssumption DEF Base, DataFit
<1>3. /\ published[j] <= stamp[j] /\ stamp[j] > 0
      /\ published[j] = 0 => Gone(j)
      /\ \A s \in open : Final(s)[j] = published[j] \/ Older(j)
  BY DEF RecentSound
<1>4. \A s \in open : Final(s)' = Final(s)
  BY <1>1 DEF Base, StreamsFit
<1>5. CASE j # i
  <2>1. stamp'[j] = stamp[j] /\ (j \in alive' <=> j \in alive) /\ (j \in unsent' <=> j \in unsent)
    BY <1>2, <1>5, RowCommit
  <2> QED BY <1>1, <1>3, <1>4, <2>1 DEF Gone, Older
<1>6. CASE j = i
  <2>1. /\ stamp[i] \in Nat /\ stamp'[i] \in Nat /\ stamp[i] <= stamp'[i]
    BY OwnRow, BoardIs
  <2>2. published[i] <= stamp'[i] /\ stamp'[i] > 0
    BY <1>2, <1>3, <1>6, <2>1
  <2>3. published[i] = 0 => Gone(i)'
    BY <1>1, <1>3, <1>6, OwnRow DEF Gone
  <2>4. Older(i) => Older(i)'
    BY <1>1, <1>2, <1>3, <1>6, <2>1, OwnRow DEF Older
  <2>5. \/ \A s \in open : Final(s)'[i] = Final(s)[i]
        \/ Older(i)'
    BY <1>4
  <2> QED BY <1>1, <1>3, <1>4, <1>6, <2>2, <2>3, <2>4 DEF Older
<1> QED BY <1>5, <1>6

LEMMA CommitKeepsTold ==
    ASSUME Base, Told, NEW i \in Item, Commit(i)
    PROVE  Told'
<1>1. DueTells'
  BY RowCommit DEF DueTells
<1> QED BY <1>1, CommitTellsLog, CommitTellsBaseline, CommitSparesDeleted, CommitSparesEventsRead,
     CommitSparesBoardRead, CommitSparesOwnRead, CommitSparesRecent DEF Told

-----------------------------------------------------------------------------
(* A mutation of a tab is published *)

\* A step that leaves the rows and the log alone.
LEMMA DatabaseStays ==
    ASSUME UNCHANGED database
    PROVE  /\ Board' = Board /\ stamp' = stamp /\ alive' = alive /\ log' = log
           /\ \A i : LastOp(i)' = LastOp(i)
           /\ \A after : NoResolve(after)' = NoResolve(after)
           /\ \A i, op, after : EventAfter(i, op, after)' = EventAfter(i, op, after)
<1>1. stamp' = stamp /\ alive' = alive /\ log' = log
  BY DEF database
<1> QED BY <1>1 DEF Board, LastOp, NoResolve, EventAfter, Event

LEMMA SentFacts ==
    ASSUME Base, NEW f \in Frames, NEW at, NEW i \in SentBy(f, at)
    PROVE  /\ i \in DOMAIN f /\ f[i] = Board[i]
           /\ i \in alive => ~EventAfter(i, "delete", at)
<1>1. i \in DOMAIN f /\ f[i] = Board[i]
  BY DEF SentBy
<1>2. ASSUME i \in alive, EventAfter(i, "delete", at) PROVE FALSE
  <2> DEFINE P == {n \in DOMAIN log : n > at}
  <2>1. PICK n \in DOMAIN log : n > at /\ log[n] = Event(i, "delete")
    BY <1>2 DEF EventAfter
  <2>2. i \in Item
    BY <1>1, FrameFacts
  <2>3. n \in P /\ log[n].item = i /\ log[n].op = "delete" /\ P \in SUBSET DOMAIN log
    BY <2>1, <2>2, EventFacts
  <2> HIDE DEF P
  <2>4. i \in Touched(P, {"delete"})
    BY <2>3, TouchedFacts DEF Base
  <2> QED BY <1>2, <2>4 DEF SentBy, P
<1> QED BY <1>1, <1>2

LEMMA OwnDoes ==
    ASSUME Base, PublishOwn
    PROVE  /\ UNCHANGED <<database, baseline, cursor, due, open>>
           /\ thread.step = "publish" /\ thread' = Idle
           /\ published' = OwnFrame /\ recent' = TRUE
           /\ unsent' = unsent \ SentBy(OwnFrame, cursor)
           /\ \A s \in open, i \in Item :
                 \/ Final(s)'[i] = Board[i]
                 \/ Final(s)'[i] = IF i \in DOMAIN OwnFrame THEN OwnFrame[i] ELSE Final(s)[i]
<1>1. /\ Publish(OwnFrame) /\ published' = OwnFrame
      /\ thread.step = "publish" /\ recent' = TRUE /\ thread' = Idle
      /\ unsent' = unsent \ SentBy(OwnFrame, cursor)
      /\ UNCHANGED <<database, baseline, cursor, due>>
  BY DEF PublishOwn, OwnFrame
<1>2. OwnFrame \in Frames /\ Sendable(OwnFrame)
  BY <1>1, OwnFrameFacts
<1> QED BY <1>1, <1>2, ChangesDo

\* After the server published its own delta, no tab is wrong that was not before.
LEMMA OwnWrong ==
    ASSUME Base, PublishOwn, NEW i \in Item \ unsent', Wrong(i)'
    PROVE  i \in Item \ unsent /\ (Wrong(i) \/ OnTheWay(i))
<1>1. PICK s \in open : Final(s)'[i] # Board[i]
  BY OwnDoes, DatabaseStays DEF Wrong
<1>2. Final(s)'[i] = IF i \in DOMAIN OwnFrame THEN OwnFrame[i] ELSE Final(s)[i]
  BY <1>1, OwnDoes
<1>3. DOMAIN OwnFrame \subseteq DOMAIN thread.frame /\ OwnFrame \in Frames
  BY OwnDoes, OwnFrameFacts
<1>4. i \notin SentBy(OwnFrame, cursor)
  BY <1>1, <1>2, <1>3, SentFacts
<1> QED BY <1>1, <1>2, <1>3, <1>4, OwnDoes DEF Wrong, OnTheWay

\* A publication of the server's own rows keeps what was deleted deleted.
LEMMA SentSparesDeleted ==
    ASSUME Base, NEW f \in Frames, NEW at, NEW i \in alive,
           i \notin unsent => ~EventAfter(i, "delete", at),
           i \notin unsent \ SentBy(f, at)
    PROVE  ~EventAfter(i, "delete", at)
  BY SentFacts

LEMMA OwnKeepsTold ==
    ASSUME Base, Told, PublishOwn
    PROVE  Told'
<1> USE DEF Told
<1>1. thread'.step = "idle" /\ thread.step = "publish"
  BY OwnDoes DEF Idle
<1>2. LogTells'
  <2>1. ASSUME NEW i \in Item \ unsent', Wrong(i)', NoResolve(cursor)
        PROVE  EventAfter(i, LastOp(i), cursor)
    BY <2>1, OwnWrong DEF LogTells
  <2>2. cursor' = cursor /\ UNCHANGED database
    BY OwnDoes
  <2>3. \A i \in Item \ unsent' : (Wrong(i)' \/ OnTheWay(i)') /\ NoResolve(cursor)' => Wrong(i)' /\ NoResolve(cursor)
    BY <1>1, <2>2, DatabaseStays DEF OnTheWay
  <2> QED BY <2>1, <2>2, <2>3, DatabaseStays DEF LogTells
<1>3. BaselineTells'
  <2>1. ASSUME NEW i \in Item \ unsent', Wrong(i)'
        PROVE  baseline[i] # Board[i] \/ Board[i] = 0
    BY <2>1, OwnWrong DEF BaselineTells
  <2> QED BY <1>1, <2>1, OwnDoes, DatabaseStays DEF BaselineTells, OnTheWay
<1>4. NoRevival'
  <2>1. OwnFrame \in Frames
    BY <1>1, OwnFrameFacts
  <2>2. ASSUME NEW i \in alive \ unsent', cursor # 0 PROVE ~EventAfter(i, "delete", cursor)
    BY <2>1, <2>2, OwnDoes, SentSparesDeleted DEF NoRevival
  <2> QED BY <2>2, OwnDoes, DatabaseStays DEF NoRevival
<1>5. EventsRead' /\ BoardRead' /\ OwnRead'
  BY <1>1 DEF EventsRead, BoardRead, OwnRead
<1>6. DueTells'
  <2>1. due' = "yes"
    BY <1>1, OwnDoes DEF OwnRead
  <2> QED BY <2>1 DEF DueTells
<1>7. RecentSound'
  <2>1. /\ OwnFrame \in Frames
        /\ \A i \in DOMAIN OwnFrame : i \in Item /\ i \in DOMAIN thread.frame /\ OwnFrame[i] <= stamp[i]
        /\ thread.reread => \A i \in DOMAIN OwnFrame : i \in alive /\ OwnFrame[i] = stamp[i]
        /\ ~thread.reread => OwnFrame = thread.frame
    BY <1>1, OwnFrameFacts, FrameFacts DEF Sendable
  <2>2. ASSUME NEW i \in DOMAIN OwnFrame
        PROVE  /\ OwnFrame[i] <= stamp[i] /\ stamp[i] > 0
               /\ OwnFrame[i] = 0 => i \notin alive \/ i \in unsent'
               /\ \A s \in open : \/ Final(s)'[i] = OwnFrame[i]
                                  \/ IF OwnFrame[i] = 0 THEN i \in unsent' ELSE stamp[i] > OwnFrame[i] \/ i \notin alive
    <3>1. stamp[i] > 0 /\ (OwnFrame[i] = 0 => Gone(i))
      BY <1>1, <2>1 DEF OwnRead
    <3>2. /\ Board[i] = (IF i \in alive THEN stamp[i] ELSE 0) /\ stamp[i] \in Nat
          /\ (i \in alive <=> Board[i] # 0) /\ OwnFrame[i] \in Nat
      BY <2>1, BoardIs, FrameFacts, BoundsAssumption
    <3>3. OwnFrame[i] # Board[i] => (i \in unsent => i \in unsent')
      BY <2>1, OwnDoes, SentFacts
    <3>4. OwnFrame[i] = 0 => i \notin alive \/ i \in unsent'
      BY <3>1, <3>2, <3>3 DEF Gone
    <3>5. \A s \in open : Final(s)'[i] = Board[i] \/ Final(s)'[i] = OwnFrame[i]
      BY <2>1, OwnDoes
    <3> QED BY <2>1, <3>1, <3>2, <3>4, <3>5
  <2> QED BY <2>2, OwnDoes, DatabaseStays DEF RecentSound, Gone, Older
<1> QED BY <1>2, <1>3, <1>4, <1>5, <1>6, <1>7

-----------------------------------------------------------------------------
(* A reconcile reads *)

\* A tick that reads the log has every row that a tab shows wrong.
LEMMA ReadEventsKeepsTold ==
    ASSUME Base, Told, ReadEvents
    PROVE  Told'
<1> USE DEF Told
<1>1. /\ UNCHANGED <<database, watcher, streams, unsent>> /\ due' = "no" /\ CursorUsable /\ thread = Idle
      /\ thread' = [step |-> "delta", upto |-> Len(log),
                    upserted |-> Touched(Unread, {"upsert"}), deleted |-> Touched(Unread, {"delete"})]
  BY DEF ReadEvents, Tick
<1>2. /\ UNCHANGED <<baseline, cursor, published, recent, open>>
      /\ \A s \in Stream : Final(s)' = Final(s)
  BY <1>1 DEF watcher, streams, Final, Flushed
<1>3. \A i : Wrong(i)' = Wrong(i) /\ ~OnTheWay(i)'
  BY <1>1, <1>2, DatabaseStays DEF Wrong, OnTheWay, Base, StreamsFit
<1>4. /\ cursor \in Nat /\ cursor # 0 /\ Len(log) \in Nat /\ cursor <= Len(log)
      /\ \A n \in DOMAIN log : n \in Nat /\ n <= Len(log)
      /\ \A n : n \in Unread <=> n \in DOMAIN log /\ n > cursor
      /\ \A n \in Unread : log[n].op # "resolve_conflict"
  <2>1. cursor \in Nat /\ pruned \in Nat /\ cursor > pruned /\ cursor # 0 /\ cursor <= Len(log) /\ Len(log) \in Nat
    BY <1>1 DEF CursorUsable, Base, DataFit
  <2>2. \A n \in DOMAIN log : n \in Nat /\ n <= Len(log)
    BY LogFacts DEF Base
  <2>3. \A n : n \in Unread <=> n \in DOMAIN log /\ n > cursor
    BY <2>1, <2>2 DEF Unread
  <2> QED BY <1>1, <2>1, <2>2, <2>3 DEF CursorUsable
<1>5. ASSUME NEW i \in Item, NEW op \in {"upsert", "delete"}
      PROVE  /\ i \in Touched(Unread, {op}) <=> EventAfter(i, op, cursor)
             /\ EventAfter(i, op, cursor) <=> EventWithin(i, op, cursor, Len(log))
  <2>1. i \in Touched(Unread, {op}) <=> \E n \in Unread : log[n].op = op /\ log[n].item = i
    <3>1. Unread \in SUBSET DOMAIN log
      BY DEF Unread
    <3> DEFINE P == Unread
    <3>2. P \in SUBSET DOMAIN log
      BY <3>1
    <3> HIDE DEF P
    <3>3. \A j : j \in Touched(P, {op}) <=> \E n \in P : log[n].op = op /\ log[n].item = j
      BY DEF Touched
    <3> QED BY <3>3 DEF P
  <2>2. \A n \in DOMAIN log : log[n] = Event(i, op) <=> log[n].op = op /\ log[n].item = i
    BY LogFacts, EventFacts DEF Base
  <2>3. i \in Touched(Unread, {op}) <=> EventAfter(i, op, cursor)
    BY <1>4, <2>1, <2>2 DEF EventAfter
  <2>4. EventAfter(i, op, cursor) <=> EventWithin(i, op, cursor, Len(log))
    BY <1>4 DEF EventAfter, EventWithin
  <2> QED BY <2>3, <2>4
<1>6. LogTells' /\ BaselineTells' /\ NoRevival'
  BY <1>1, <1>2, <1>3, DatabaseStays DEF LogTells, BaselineTells, NoRevival
<1>7. EventsRead'
  <2> DEFINE up == Touched(Unread, {"upsert"})
             del == Touched(Unread, {"delete"})
  <2>1. \A i \in Item : /\ i \in up <=> EventWithin(i, "upsert", cursor, Len(log))
                        /\ i \in del <=> EventWithin(i, "delete", cursor, Len(log))
    BY <1>5
  <2> HIDE DEF up, del
  <2>2. thread'.upto = Len(log) /\ thread'.upserted = up /\ thread'.deleted = del
    BY <1>1 DEF up, del
  <2>3. \A i, op : EventWithin(i, op, cursor, thread.upto)' = EventWithin(i, op, cursor, Len(log))
    BY <1>2, <2>2, <1>1, DatabaseStays DEF EventWithin, Event
  <2>4. \A n \in DOMAIN log : n > cursor => log[n].op # "resolve_conflict"
    BY <1>4
  <2> QED BY <1>1, <1>2, <1>4, <2>1, <2>2, <2>3, <2>4, DatabaseStays DEF EventsRead
<1>8. BoardRead' /\ OwnRead'
  BY <1>1 DEF BoardRead, OwnRead
<1>9. DueTells'
  <2>1. NoResolve(cursor)
    BY <1>4 DEF NoResolve
  <2>2. ASSUME NEW i \in Item \ unsent, Wrong(i)
        PROVE  i \in (IF i \in alive THEN Touched(Unread, {"upsert"}) ELSE Touched(Unread, {"delete"}))
    BY <1>5, <2>1, <2>2 DEF LogTells, LastOp
  <2> QED BY <1>1, <1>3, <2>2, DatabaseStays DEF DueTells
<1>10. RecentSound'
  BY <1>1, <1>2, DatabaseStays DEF RecentSound, Gone, Older, Base, StreamsFit
<1> QED BY <1>6, <1>7, <1>8, <1>9, <1>10

\* So has a tick that reads the board, except rows born and gone since the baseline.
LEMMA ReadBoardKeepsTold ==
    ASSUME Base, Told, ReadBoard
    PROVE  Told'
<1> USE DEF Told
<1>1. /\ UNCHANGED <<database, watcher, streams>> /\ due' = "no" /\ thread = Idle
      /\ thread' = [step |-> "diff", upto |-> Len(log), fresh |-> Board]
      /\ unsent' = unsent \cup {i \in Item : baseline[i] = Nothing /\ Board[i] = Nothing /\ stamp[i] > 0}
  BY DEF ReadBoard, Tick
<1>2. /\ UNCHANGED <<baseline, cursor, published, recent, open>>
      /\ \A s \in Stream : Final(s)' = Final(s)
  BY <1>1 DEF watcher, streams, Final, Flushed
<1>3. \A i : Wrong(i)' = Wrong(i) /\ ~OnTheWay(i)'
  BY <1>1, <1>2, DatabaseStays DEF Wrong, OnTheWay, Base, StreamsFit
<1>4. /\ unsent \subseteq unsent'
      /\ \A i \in Item \ unsent' : baseline[i] = 0 /\ Board[i] = 0 => stamp[i] = 0
  <2>1. \A i \in Item : stamp[i] \in Nat
    BY BoardIs
  <2> QED BY <1>1, <2>1 DEF Nothing
<1>5. ASSUME NEW i \in Item \ unsent', baseline[i] = 0, Board[i] = 0
      PROVE  \A s \in open : Final(s)[i] = 0
  <2>1. stamp[i] = 0
    BY <1>4, <1>5
  <2>2. \A s \in open : s \in Stream
    BY DEF Base, StreamsFit
  <2> QED BY <2>1, <2>2, FinalFits, BoundsAssumption
<1>6. ASSUME NEW i \in Item \ unsent', Wrong(i) PROVE baseline[i] # Board[i]
  <2>1. baseline[i] # Board[i] \/ Board[i] = 0
    BY <1>4, <1>6 DEF BaselineTells
  <2>2. ~(baseline[i] = 0 /\ Board[i] = 0)
    BY <1>5, <1>6 DEF Wrong
  <2> QED BY <2>1, <2>2
<1>7. LogTells' /\ BaselineTells' /\ NoRevival'
  BY <1>1, <1>2, <1>3, <1>4, DatabaseStays DEF LogTells, BaselineTells, NoRevival
<1>8. EventsRead' /\ OwnRead'
  BY <1>1 DEF EventsRead, OwnRead
<1>9. BoardRead'
  BY <1>1, <1>2, <1>3, <1>5, <1>6, DatabaseStays DEF BoardRead, Base, StreamsFit
<1>10. DueTells'
  BY <1>1, <1>2, <1>3, <1>6, DatabaseStays DEF DueTells
<1>11. RecentSound'
  BY <1>1, <1>2, <1>4, DatabaseStays DEF RecentSound, Gone, Older, Base, StreamsFit
<1> QED BY <1>7, <1>8, <1>9, <1>10, <1>11

-----------------------------------------------------------------------------
(* A reconcile publishes *)

LEMMA EventsDo ==
    ASSUME Base, PublishEvents
    PROVE  /\ UNCHANGED <<database, baseline, published, due, open>>
           /\ thread.step = "delta" /\ thread' = Idle
           /\ cursor' = thread.upto /\ recent' = FALSE
           /\ unsent' = unsent \ SentBy(Unpublished(EventFrame), thread.upto)
           /\ \A s \in open, i \in Item :
                 \/ Final(s)'[i] = Board[i]
                 \/ Final(s)'[i] = IF i \in DOMAIN Unpublished(EventFrame)
                                   THEN Unpublished(EventFrame)[i] ELSE Final(s)[i]
<1>1. /\ PublishChanges(Unpublished(EventFrame))
      /\ thread.step = "delta" /\ recent' = FALSE /\ thread' = Idle /\ cursor' = thread.upto
      /\ unsent' = unsent \ SentBy(Unpublished(EventFrame), thread.upto)
      /\ UNCHANGED <<database, baseline, published, due>>
  BY DEF PublishEvents, EventFrame
<1>2. Unpublished(EventFrame) \in Frames /\ Sendable(Unpublished(EventFrame))
  BY <1>1, EventFrameFacts
<1> QED BY <1>1, <1>2, ChangesDo

\* What was suppressed is on its way already.
LEMMA SuppressedIsSent ==
    ASSUME Base, RecentSound, NEW f \in Frames, NEW i \in DOMAIN f \ DOMAIN Unpublished(f),
           f[i] = Board[i], i \notin unsent
    PROVE  ~Wrong(i)
<1>1. recent /\ i \in DOMAIN published /\ published[i] = Board[i]
  BY UnpublishedFacts
<1>2. i \in Item
  BY FrameFacts
<1>3. /\ Board[i] = (IF i \in alive THEN stamp[i] ELSE 0) /\ stamp[i] \in Nat
      /\ (i \in alive <=> Board[i] # 0)
  BY <1>2, BoardIs
<1>4. ~Older(i)
  BY <1>1, <1>3 DEF Older
<1> QED BY <1>1, <1>4 DEF RecentSound, Wrong

\* After the delta of the events, a tab shows wrong only rows that they do not touch.
LEMMA EventsWrong ==
    ASSUME Base, Told, PublishEvents, NEW i \in Item \ unsent', Wrong(i)'
    PROVE  /\ i \in Item \ unsent /\ Wrong(i)
           /\ i \notin (IF i \in alive THEN thread.upserted ELSE thread.deleted)
<1> DEFINE f == EventFrame
           u == Unpublished(f)
<1>1. PICK s \in open : Final(s)'[i] # Board[i]
  BY EventsDo, DatabaseStays DEF Wrong
<1>2. Final(s)'[i] = IF i \in DOMAIN u THEN u[i] ELSE Final(s)[i]
  BY <1>1, EventsDo
<1>3. /\ f \in Frames /\ DOMAIN f = (thread.upserted \cap alive) \cup thread.deleted
      /\ \A j \in DOMAIN f : f[j] = IF j \in thread.upserted \cap alive THEN stamp[j] ELSE 0
      /\ u \in Frames
  BY EventsDo, EventFrameFacts
<1>4. /\ DOMAIN u \subseteq DOMAIN f
      /\ \A j \in DOMAIN u : u[j] = f[j]
  BY <1>3, UnpublishedFacts
<1>5. \A j \in SentBy(u, thread.upto) : j \in DOMAIN u /\ u[j] = Board[j]
  BY <1>3, SentFacts
<1>6. unsent' = unsent \ SentBy(u, thread.upto) /\ thread.step = "delta"
  BY EventsDo
<1>7. /\ Board[i] = (IF i \in alive THEN stamp[i] ELSE 0) /\ (i \in alive <=> Board[i] # 0)
  BY BoardIs
<1> HIDE DEF u
<1>8. i \notin SentBy(u, thread.upto)
  BY <1>1, <1>2, <1>5
<1>9. i \in Item \ unsent
  BY <1>6, <1>8
<1>10. i \in DOMAIN f => f[i] = Board[i]
  <2>1. ASSUME i \in thread.deleted, i \in alive PROVE FALSE
    <3>1. cursor # 0 /\ EventWithin(i, "delete", cursor, thread.upto)
      BY <1>6, <2>1 DEF Told, EventsRead
    <3>2. EventAfter(i, "delete", cursor)
      BY <3>1 DEF EventWithin, EventAfter
    <3> QED BY <1>9, <2>1, <3>1, <3>2 DEF Told, NoRevival
  <2> QED BY <1>3, <1>7, <2>1
<1>11. i \notin DOMAIN u
  BY <1>1, <1>2, <1>4, <1>10
<1>12. Wrong(i)
  BY <1>1, <1>2, <1>11 DEF Wrong
<1>13. i \notin DOMAIN f
  BY <1>3, <1>9, <1>10, <1>11, <1>12, SuppressedIsSent DEF u, Told
<1> QED BY <1>3, <1>9, <1>12, <1>13

LEMMA EventsKeepTold ==
    ASSUME Base, Told, PublishEvents
    PROVE  Told'
<1> USE DEF Told
<1>1. thread'.step = "idle" /\ thread.step = "delta" /\ cursor' = thread.upto /\ UNCHANGED database
  BY EventsDo DEF Idle
<1>2. /\ thread.upto \in Nat /\ cursor \in Nat /\ cursor <= thread.upto /\ cursor # 0
      /\ \A n \in DOMAIN log : n \in Nat
  BY <1>1, ThreadFacts, LogFacts DEF Base, DataFit, DeltaThread, Positions, EventsRead
<1>3. LogTells'
  <2>1. ASSUME NEW i \in Item \ unsent', Wrong(i)', NoResolve(thread.upto)
        PROVE  EventAfter(i, LastOp(i), thread.upto)
    <3>1. /\ i \in Item \ unsent /\ Wrong(i)
          /\ i \notin (IF i \in alive THEN thread.upserted ELSE thread.deleted)
      BY <2>1, EventsWrong
    <3>2. NoResolve(cursor)
      BY <1>1, <1>2, <2>1 DEF NoResolve, EventsRead
    <3>3. EventAfter(i, LastOp(i), cursor)
      BY <3>1, <3>2 DEF LogTells
    <3>4. ~EventWithin(i, LastOp(i), cursor, thread.upto)
      BY <1>1, <3>1 DEF EventsRead, LastOp
    <3> QED BY <1>2, <3>3, <3>4 DEF EventAfter, EventWithin
  <2>2. \A i \in Item \ unsent' : (Wrong(i)' \/ OnTheWay(i)') /\ NoResolve(cursor)' =>
            Wrong(i)' /\ NoResolve(thread.upto)
    BY <1>1 DEF OnTheWay, NoResolve, database
  <2>3. \A i : EventAfter(i, LastOp(i), cursor)' <=> EventAfter(i, LastOp(i), thread.upto)
    BY <1>1 DEF EventAfter, Event, LastOp, database
  <2> QED BY <2>1, <2>2, <2>3 DEF LogTells
<1>4. BaselineTells'
  <2>1. ASSUME NEW i \in Item \ unsent', Wrong(i)'
        PROVE  baseline[i] # Board[i] \/ Board[i] = 0
    BY <2>1, EventsWrong DEF BaselineTells
  <2> QED BY <1>1, <2>1, EventsDo, DatabaseStays DEF BaselineTells, OnTheWay
<1>5. NoRevival'
  <2>1. Unpublished(EventFrame) \in Frames
    BY <1>1, EventFrameFacts
  <2>2. ASSUME NEW i \in alive \ unsent' PROVE ~EventAfter(i, "delete", thread.upto)
    <3>1. i \notin unsent => ~EventAfter(i, "delete", thread.upto)
      BY <1>2 DEF NoRevival, EventAfter
    <3> QED BY <2>1, <2>2, <3>1, EventsDo, SentSparesDeleted
  <2>3. \A i : EventAfter(i, "delete", cursor)' <=> EventAfter(i, "delete", thread.upto)
    BY <1>1 DEF EventAfter, Event, database
  <2> QED BY <1>1, <2>2, <2>3, DatabaseStays DEF NoRevival
<1>6. EventsRead' /\ BoardRead' /\ OwnRead'
  BY <1>1 DEF EventsRead, BoardRead, OwnRead
<1>7. DueTells'
  <2>1. ASSUME NEW i \in Item \ unsent', Wrong(i)', due = "no" PROVE FALSE
    BY <1>1, <2>1, EventsWrong DEF DueTells
  <2> QED BY <2>1, EventsDo DEF DueTells
<1>8. RecentSound'
  BY EventsDo DEF RecentSound
<1> QED BY <1>3, <1>4, <1>5, <1>6, <1>7, <1>8

LEMMA DiffDoes ==
    ASSUME Base, PublishDiff
    PROVE  /\ UNCHANGED <<database, published, due, open>>
           /\ thread.step = "diff" /\ thread' = Idle
           /\ baseline' = thread.fresh /\ cursor' = LatestCursor /\ recent' = FALSE
           /\ \A i \in unsent' : i \in unsent \/ ~Untouched(i, thread.upto)
           /\ \A i \in Item : i \in unsent \/ ~Untouched(i, thread.upto) =>
                 i \in unsent' \/ i \in SentBy(Unpublished(DiffFrame), Len(log))
           /\ \A s \in open, i \in Item :
                 \/ Final(s)'[i] = Board[i]
                 \/ Final(s)'[i] = IF i \in DOMAIN Unpublished(DiffFrame)
                                   THEN Unpublished(DiffFrame)[i] ELSE Final(s)[i]
<1> DEFINE skipped == {log[n].item : n \in (thread.upto + 1)..Len(log)}
<1>1. /\ PublishChanges(Unpublished(DiffFrame))
      /\ thread.step = "diff" /\ recent' = FALSE /\ thread' = Idle
      /\ baseline' = thread.fresh /\ cursor' = LatestCursor
      /\ unsent' = (unsent \cup skipped) \ SentBy(Unpublished(DiffFrame), Len(log))
      /\ UNCHANGED <<database, published, due>>
  BY DEF PublishDiff, DiffFrame
<1>2. Unpublished(DiffFrame) \in Frames /\ Sendable(Unpublished(DiffFrame))
  BY <1>1, DiffFrameFacts
<1>3. \A i : i \in skipped <=> ~Untouched(i, thread.upto)
  <2>1. thread.upto \in Nat /\ Len(log) \in Nat /\ DOMAIN log = 1..Len(log)
    BY <1>1, ThreadFacts DEF Base, DataFit, DiffThread, Positions
  <2>2. \A n : n \in (thread.upto + 1)..Len(log) <=> n \in DOMAIN log /\ n > thread.upto
    BY <2>1
  <2> QED BY <2>2 DEF Untouched
<1> HIDE DEF skipped
<1> QED BY <1>1, <1>2, <1>3, ChangesDo

\* After a diff every tab has every row on its way that a tick can see.
LEMMA DiffRights ==
    ASSUME Base, Told, PublishDiff, NEW i \in Item \ unsent'
    PROVE  ~Wrong(i)'
<1> SUFFICES ASSUME Wrong(i)' PROVE FALSE
  OBVIOUS
<1> DEFINE f == DiffFrame
           u == Unpublished(f)
<1>1. PICK s \in open : Final(s)'[i] # Board[i]
  BY DiffDoes, DatabaseStays DEF Wrong
<1>2. Final(s)'[i] = IF i \in DOMAIN u THEN u[i] ELSE Final(s)[i]
  BY <1>1, DiffDoes
<1>3. /\ f \in Frames /\ u \in Frames
      /\ i \in DOMAIN f <=> baseline[i] # thread.fresh[i]
      /\ i \in DOMAIN f => f[i] = thread.fresh[i]
  BY DiffDoes, DiffFrameFacts
<1>4. DOMAIN u \subseteq DOMAIN f /\ \A j \in DOMAIN u : u[j] = f[j]
  BY <1>3, UnpublishedFacts
<1>5. \A j \in SentBy(u, Len(log)) : j \in DOMAIN u /\ u[j] = Board[j]
  BY <1>3, SentFacts
<1>6. i \in unsent \/ ~Untouched(i, thread.upto) => i \in SentBy(u, Len(log))
  BY DiffDoes
<1>7. thread.step = "diff"
  BY DiffDoes
<1> HIDE DEF u
<1>8. i \notin SentBy(u, Len(log))
  BY <1>1, <1>2, <1>5
<1>9. i \in Item \ unsent /\ thread.fresh[i] = Board[i]
  BY <1>6, <1>7, <1>8 DEF Told, BoardRead
<1>10. i \notin DOMAIN u
  BY <1>1, <1>2, <1>3, <1>4, <1>9
<1>11. Wrong(i)
  BY <1>1, <1>2, <1>10 DEF Wrong
<1>12. i \in DOMAIN f
  BY <1>3, <1>7, <1>9, <1>11 DEF Told, BoardRead
<1>13. f[i] = Board[i] /\ i \in DOMAIN f \ DOMAIN u
  BY <1>3, <1>9, <1>10, <1>12
<1> QED BY <1>3, <1>9, <1>11, <1>13, SuppressedIsSent DEF u, Told

LEMMA DiffKeepsTold ==
    ASSUME Base, Told, PublishDiff
    PROVE  Told'
<1>1. thread'.step = "idle" /\ recent' = FALSE /\ UNCHANGED database
  BY DiffDoes DEF Idle
<1>2. \A i \in Item \ unsent' : ~Wrong(i)' /\ ~OnTheWay(i)'
  BY <1>1, DiffRights DEF OnTheWay
<1>3. NoRevival'
  <2>1. cursor' = 0 \/ cursor' = Len(log)
    BY DiffDoes DEF LatestCursor
  <2>2. \A n \in DOMAIN log : ~(n > Len(log))
    BY DEF Base, DataFit
  <2> QED BY <1>1, <2>1, <2>2 DEF NoRevival, EventAfter, database
<1> QED BY <1>1, <1>2, <1>3 DEF Told, LogTells, BaselineTells, EventsRead, BoardRead, OwnRead, DueTells,
           RecentSound

-----------------------------------------------------------------------------
(* The rest, and convergence *)

LEMMA RestKeepsTold ==
    ASSUME Base, Told, Prune \/ TickFails \/ SuppressionExpires
    PROVE  Told'
<1>1. /\ UNCHANGED <<alive, stamp, log, baseline, cursor, published, streams, unsent>>
      /\ recent' \in {recent, FALSE}
      /\ \/ thread' = thread /\ due' \in {due, "yes"}
         \/ thread' = Idle /\ due' # "no" /\ thread.step # "publish"
  <2>1. CASE Prune
    BY <2>1 DEF Prune, watcher
  <2>2. CASE TickFails
    BY <2>2 DEF TickFails, database, watcher
  <2>3. CASE SuppressionExpires
    BY <2>3 DEF SuppressionExpires, database
  <2> QED BY <2>1, <2>2, <2>3
<1>2. /\ open' = open /\ \A s \in Stream : Final(s)' = Final(s)
      /\ Board' = Board
  BY <1>1 DEF streams, Final, Flushed, Board
<1>3. \A i : Wrong(i)' = Wrong(i) /\ (OnTheWay(i)' => OnTheWay(i))
  BY <1>1, <1>2 DEF Wrong, OnTheWay, Base, StreamsFit, Idle
<1>4. LogTells' /\ BaselineTells' /\ NoRevival'
  BY <1>1, <1>2, <1>3 DEF Told, LogTells, BaselineTells, NoRevival, NoResolve, EventAfter, Event, LastOp
<1>5. RecentSound'
  BY <1>1, <1>2 DEF Told, RecentSound, Gone, Older, Base, StreamsFit
<1>6. CASE thread' = Idle /\ due' # "no"
  BY <1>4, <1>5, <1>6 DEF Told, EventsRead, BoardRead, OwnRead, DueTells, Idle
<1>7. CASE thread' = thread /\ due' \in {due, "yes"}
  <2>1. EventsRead'
    BY <1>1, <1>7 DEF Told, EventsRead, EventWithin, Event
  <2>2. BoardRead'
    BY <1>1, <1>2, <1>3, <1>7 DEF Told, BoardRead, Untouched, Base, StreamsFit
  <2>3. OwnRead' /\ DueTells'
    BY <1>1, <1>2, <1>3, <1>7 DEF Told, OwnRead, DueTells, Gone
  <2> QED BY <1>4, <1>5, <2>1, <2>2, <2>3 DEF Told
<1> QED BY <1>1, <1>6, <1>7

LEMMA TabKeepsTold ==
    ASSUME Base, Told, NEW s \in Stream, Tab(s)
    PROVE  Told'
<1>1. /\ UNCHANGED <<database, watcher, thread, due, unsent>>
      /\ \A t \in open', i \in Item : \/ t \in open /\ Final(t)'[i] = Final(t)[i]
                                      \/ t \notin open /\ thread = Idle /\ Final(t)'[i] = Board[i]
  BY TabDoes DEF Base, DataFit, Ordered
<1>2. UNCHANGED <<baseline, cursor, published, recent, alive, stamp, log>>
  BY <1>1 DEF database, watcher
<1>3. \A i \in Item : (Wrong(i)' => Wrong(i)) /\ OnTheWay(i)' = OnTheWay(i)
  BY <1>1, DatabaseStays DEF Wrong, OnTheWay
<1>4. LogTells' /\ BaselineTells' /\ NoRevival'
  BY <1>1, <1>2, <1>3, DatabaseStays DEF Told, LogTells, BaselineTells, NoRevival
<1>5. EventsRead'
  BY <1>1, <1>2 DEF Told, EventsRead, EventWithin, Event
<1>6. OwnRead' /\ DueTells'
  BY <1>1, <1>2, <1>3, DatabaseStays DEF Told, OwnRead, DueTells, Gone
<1>7. BoardRead'
  <2> SUFFICES ASSUME thread.step = "diff", NEW i \in Item \ unsent
               PROVE  /\ Untouched(i, thread.upto) => thread.fresh[i] = Board[i]
                      /\ Wrong(i)' => thread.fresh[i] # Board[i] \/ baseline[i] # Board[i]
                      /\ thread.fresh[i] = 0 /\ baseline[i] = 0 => \A t \in open' : Final(t)'[i] = 0
    BY <1>1, <1>2, DatabaseStays DEF BoardRead, Untouched
  <2>1. /\ Untouched(i, thread.upto) => thread.fresh[i] = Board[i]
        /\ Wrong(i) => thread.fresh[i] # Board[i] \/ baseline[i] # Board[i]
        /\ thread.fresh[i] = 0 /\ baseline[i] = 0 => \A t \in open : Final(t)[i] = 0
    BY DEF Told, BoardRead
  <2>2. thread # Idle
    BY DEF Idle
  <2>3. \A t \in open' : t \in open /\ Final(t)'[i] = Final(t)[i]
    BY <1>1, <2>2
  <2> QED BY <1>3, <2>1, <2>3
<1>8. RecentSound'
  <2> SUFFICES ASSUME recent, NEW i \in DOMAIN published
               PROVE  /\ published[i] <= stamp[i] /\ stamp[i] > 0
                      /\ published[i] = 0 => Gone(i)
                      /\ \A t \in open' : Final(t)'[i] = published[i] \/ Older(i)
    BY <1>1, <1>2 DEF RecentSound, Gone, Older
  <2>1. /\ published[i] <= stamp[i] /\ stamp[i] > 0
        /\ published[i] = 0 => Gone(i)
        /\ \A t \in open : Final(t)[i] = published[i] \/ Older(i)
    BY DEF Told, RecentSound
  <2>2. i \in Item /\ published[i] \in Nat
    BY FrameFacts, BoundsAssumption DEF Base, DataFit
  <2>3. /\ Board[i] = (IF i \in alive THEN stamp[i] ELSE 0) /\ stamp[i] \in Nat
        /\ (i \in alive <=> Board[i] # 0)
    BY <2>2, BoardIs
  <2>4. Board[i] = published[i] \/ Older(i)
    BY <2>1, <2>2, <2>3 DEF Older, Gone
  <2> QED BY <1>1, <2>1, <2>2, <2>4
<1> QED BY <1>4, <1>5, <1>6, <1>7, <1>8 DEF Told

LEMMA InitTold == Init => Told
<1> SUFFICES ASSUME Init PROVE Told
  OBVIOUS
<1>1. open = {} /\ thread.step = "idle" /\ recent = FALSE
  BY DEF Init, Idle
<1>2. \A i : ~Wrong(i) /\ ~OnTheWay(i)
  BY <1>1 DEF Wrong, OnTheWay
<1>3. NoRevival
  <2>1. cursor = 0 \/ cursor = Len(log)
    BY DEF Init, LatestCursor
  <2>2. \A n \in DOMAIN log : ~(n > Len(log))
    BY InitBase DEF Base, DataFit
  <2> QED BY <2>1, <2>2 DEF NoRevival, EventAfter
<1> QED BY <1>1, <1>2, <1>3 DEF Told, LogTells, BaselineTells, EventsRead, BoardRead, OwnRead, DueTells,
           RecentSound

LEMMA StutterKeepsTold ==
    ASSUME Base, Told, UNCHANGED vars
    PROVE  Told'
<1>1. UNCHANGED <<alive, stamp, log, pruned, baseline, cursor, published, recent, thread, due,
                  open, queue, pending, view, unsent>>
  BY DEF vars, database, watcher, streams
<1>2. /\ \A s : Final(s)' = Final(s)
      /\ Board' = Board
  BY <1>1 DEF Final, Flushed, Board
<1>3. \A i : Wrong(i)' = Wrong(i) /\ OnTheWay(i)' = OnTheWay(i)
  BY <1>1, <1>2 DEF Wrong, OnTheWay
<1>4. LogTells' /\ BaselineTells' /\ NoRevival'
  BY <1>1, <1>2, <1>3 DEF Told, LogTells, BaselineTells, NoRevival, NoResolve, EventAfter, Event, LastOp
<1>5. RecentSound' /\ OwnRead' /\ DueTells'
  BY <1>1, <1>2, <1>3 DEF Told, RecentSound, OwnRead, DueTells, Gone, Older
<1>6. EventsRead'
  BY <1>1 DEF Told, EventsRead, EventWithin, Event
<1>7. BoardRead'
  BY <1>1, <1>2, <1>3 DEF Told, BoardRead, Untouched
<1> QED BY <1>4, <1>5, <1>6, <1>7 DEF Told

LEMMA NextKeepsTold == Base /\ Told /\ [Next]_vars => Told'
<1> SUFFICES ASSUME Base, Told, [Next]_vars PROVE Told'
  OBVIOUS
<1>1. ASSUME NEW i \in Item, Commit(i) PROVE Told'
  BY <1>1, CommitKeepsTold
<1>2. CASE Server
  BY <1>2, OwnKeepsTold, ReadEventsKeepsTold, EventsKeepTold, ReadBoardKeepsTold, DiffKeepsTold DEF Server
<1>3. CASE Prune \/ TickFails \/ SuppressionExpires
  BY <1>3, RestKeepsTold
<1>4. ASSUME NEW s \in Stream, Tab(s) PROVE Told'
  BY <1>4, TabKeepsTold
<1>5. CASE UNCHANGED vars
  BY <1>5, StutterKeepsTold
<1> QED BY <1>1, <1>2, <1>3, <1>4, <1>5 DEF Next

LEMMA ToldConverges == Told => Converges
  BY DEF Told, DueTells, Wrong, Converges, Idle

\* When the watcher has nothing to do, every connected tab has on its way whatever it does not
\* show yet, of every row with no change that no tick can see (runEventCursorReconcile,
\* runFullSnapshotReconcile, suppressAlreadyPublishedDiff).
THEOREM TabsConverge == Spec => []Converges
<1>1. Init => Base /\ Told
  BY InitBase, InitTold
<1>2. Base /\ Told /\ [Next]_vars => (Base /\ Told)'
  BY NextKeepsBase, NextKeepsTold
<1>3. Base /\ Told => Converges
  BY ToldConverges
<1> QED BY <1>1, <1>2, <1>3, PTL DEF Spec

=============================================================================
