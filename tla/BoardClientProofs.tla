-------------------------- MODULE BoardClientProofs --------------------------
(***************************************************************************)
(* Proofs about the tab and the routes of module BoardClient, for any      *)
(* mutations, any number of attempts and any loss or delay of requests,    *)
(* answers and frames, in three parts:                                     *)
(*   - they keep the promise of Ledger (IInv);                             *)
(*   - every variable has its type (Fits);                                 *)
(*   - what the screen shows is the rows, or there is news to come of it   *)
(*     (ScreenInv), and a rollback spares the row that was edited.         *)
(***************************************************************************)
EXTENDS BoardClient, TLAPS

\* The completed records are the mutations that ran, and success is shown of no other.
RecordsAgree ==
    /\ record \subseteq Keyed
    /\ runs = [m \in Keyed |-> IF m \in record THEN 1 ELSE 0]
    /\ told \subseteq record

\* What waits, what is being sent and what Retry would send are mutations.
QueueTyped ==
    /\ queue \in Seq(Mutation)
    /\ attempts \in Nat
    /\ notice \in Mutation => failed \in Mutation

\* The request in flight is the one with its number.
CurrentTyped ==
    /\ current # Waiting =>
          /\ current = [step |-> current.step, mutation |-> current.mutation, try |-> current.try,
                        ifMatch |-> current.ifMatch, inverse |-> current.inverse,
                        was |-> current.was]
          /\ current.step \in {"sent", "reading"}
          /\ current.mutation \in Mutation
          /\ current.try \in Nat /\ current.try <= attempts
    /\ \A r \in requests :
          /\ r.mutation \in Mutation
          /\ r.try \in Nat /\ r.try <= attempts
          /\ current # Waiting /\ r.try = current.try => r.mutation = current.mutation

\* An answer of success belongs to the mutation in flight, which has its record.
AnswerTrue ==
    /\ current = Waiting => answer = None
    /\ answer.result = "ok" /\ current.mutation \in Keyed => current.mutation \in record

IInv == RecordsAgree /\ QueueTyped /\ CurrentTyped /\ AnswerTrue

LEMMA InitIInv == Init => IInv
<1> SUFFICES ASSUME Init PROVE IInv
  OBVIOUS
<1>1. RecordsAgree
  BY DEF Init, RecordsAgree
<1>2. QueueTyped
  BY NoticeAssumption DEF Init, QueueTyped
<1>3. CurrentTyped
  BY DEF Init, CurrentTyped
<1>4. AnswerTrue
  BY DEF Init, AnswerTrue, None
<1> QED BY <1>1, <1>2, <1>3, <1>4 DEF IInv

\* The server: requests are served or lost.
LEMMA ServeKeepsIInv ==
    ASSUME IInv, NEW r \in requests, Serve(r)
    PROVE  IInv'
<1> USE DEF IInv
<1>1. UNCHANGED <<queue, current, attempts, notice, failed, told>> /\ requests' = requests \ {r}
  BY DEF Serve
<1>2. r.mutation \in Mutation
  BY DEF CurrentTyped
<1>3. QueueTyped'
  BY <1>1 DEF QueueTyped
<1>4. CurrentTyped'
  BY <1>1 DEF CurrentTyped
<1>5. RecordsAgree' /\ record \subseteq record'
  <2>1. CASE UNCHANGED <<record, runs>>
    BY <1>1, <2>1 DEF RecordsAgree
  <2>2. CASE ServeKeyed(r)
    <3>1. r.mutation \in Keyed \ record
      BY <1>2, <2>2 DEF ServeKeyed, Claim, Create, Delete, Keyed
    <3>2. record' = record \cup {r.mutation} /\ runs' = [runs EXCEPT ![r.mutation] = @ + 1]
      BY <2>2 DEF ServeKeyed, Claim
    <3> QED BY <1>1, <3>1, <3>2 DEF RecordsAgree
  <2> QED
    BY <2>1, <2>2 DEF Serve, ServePatch, ServeCascade, ServeStale, Write, Replay, ServeError, server
<1>6. AnswerTrue'
  <2>1. CASE answer' = answer
    BY <1>1, <1>5, <2>1 DEF AnswerTrue
  <2>2. CASE /\ current # Waiting /\ current.try = r.try
             /\ \E result \in {"error", "precondition_failed"}, delta \in {<<>>} :
                   answer' = [result |-> result, delta |-> delta]
    BY <1>1, <2>2 DEF AnswerTrue
  <2>3. CASE /\ current # Waiting /\ current.try = r.try
             /\ \E items : Respond(r, items)
    <3>1. current.mutation = r.mutation
      BY <2>3 DEF CurrentTyped
    <3>2. r.mutation \in Keyed => r.mutation \in record'
      <4>1. CASE ServePatch(r) \/ ServeCascade(r) \/ ServeStale(r)
        BY <4>1 DEF ServePatch, ServeCascade, ServeStale, Keyed
      <4>2. CASE ServeKeyed(r)
        BY <4>2 DEF ServeKeyed, Claim
      <4>3. CASE Replay(r)
        BY <4>3 DEF Replay, server
      <4>4. CASE ServeError(r)
        BY <4>4, <2>3 DEF ServeError, Refuse, Respond, Answer
      <4> QED BY <4>1, <4>2, <4>3, <4>4 DEF Serve
    <3> QED BY <1>1, <2>3, <3>1, <3>2 DEF AnswerTrue
  <2>4. (\E items : Respond(r, items)) \/ Refuse(r, "error") \/ Refuse(r, "precondition_failed")
    BY DEF Serve, ServePatch, ServeCascade, ServeStale, ServeKeyed, Replay, ServeError
  <2> QED
    <3>1. CASE \E items : Respond(r, items)
      BY <2>1, <2>3, <3>1 DEF Respond, Answer
    <3>2. CASE Refuse(r, "error") \/ Refuse(r, "precondition_failed")
      BY <2>1, <2>2, <3>2 DEF Refuse, Answer
    <3> QED BY <2>4, <3>1, <3>2
<1> QED BY <1>3, <1>4, <1>5, <1>6

\* A new request has a number that no other has.
LEMMA FireKeepsIInv == ASSUME IInv, Fire PROVE IInv'
<1> USE DEF IInv
<1> DEFINE m == Head(queue)
<1>1. m \in Mutation /\ Tail(queue) \in Seq(Mutation)
  BY DEF Fire, QueueTyped
<1>2. PICK ifMatch :
         /\ current' = [step |-> "sent", mutation |-> m, try |-> attempts + 1,
                        ifMatch |-> ifMatch, inverse |-> InverseDelta(m), was |-> optimistic]
         /\ requests' = requests \cup
                {[mutation |-> m, try |-> attempts + 1, ifMatch |-> ifMatch]}
  BY DEF Fire
<1>3. /\ queue' = Tail(queue) /\ attempts' = attempts + 1 /\ notice' = "none"
      /\ UNCHANGED <<record, runs, answer, failed, told>>
      /\ current = Waiting
  BY DEF Fire, server
<1>4. RecordsAgree'
  BY <1>3 DEF RecordsAgree
<1>5. QueueTyped'
  BY <1>1, <1>3, NoticeAssumption DEF QueueTyped
<1>6. CurrentTyped'
  <2>1. attempts \in Nat
    BY DEF QueueTyped
  <2>2. \A r \in requests : r.try \in Nat /\ r.try <= attempts /\ r.mutation \in Mutation
    BY DEF CurrentTyped
  <2> QED BY <1>1, <1>2, <1>3, <2>1, <2>2 DEF CurrentTyped
<1>7. AnswerTrue'
  BY <1>2, <1>3 DEF AnswerTrue, None, Waiting
<1> QED BY <1>4, <1>5, <1>6, <1>7

\* The request in flight ends: with success, which its record backs, or without.
LEMMA SettleKeepsIInv ==
    ASSUME IInv, Body \/ BodyBreaks \/ Timeout
    PROVE  IInv'
<1> USE DEF IInv
<1>1. /\ current # Waiting /\ current' = Waiting /\ answer' = None
      /\ UNCHANGED <<record, runs, requests, queue, attempts>>
  <2>1. Settled /\ current.step \in {"sent", "reading"}
    BY DEF Body, BodyBreaks, Timeout
  <2>2. current # Waiting
    BY <2>1 DEF Waiting
  <2> QED BY <2>1, <2>2 DEF Settled, server
<1>2. current.mutation \in Mutation
  BY <1>1 DEF CurrentTyped
<1>3. RecordsAgree'
  <2>1. CASE answer.result = "ok" /\ told' = told \cup ({current.mutation} \cap Keyed)
    BY <1>1, <2>1 DEF RecordsAgree, AnswerTrue
  <2>2. CASE told' = told
    BY <1>1, <2>2 DEF RecordsAgree
  <2> QED BY <2>1, <2>2 DEF Body, BodyBreaks, Timeout, Succeed, Fail
<1>4. QueueTyped'
  <2>1. notice' \in Mutation => failed' \in Mutation
    BY <1>2, NoticeAssumption DEF Body, BodyBreaks, Timeout, Succeed, Fail, QueueTyped
  <2> QED BY <1>1, <2>1 DEF QueueTyped
<1>5. CurrentTyped'
  BY <1>1 DEF CurrentTyped
<1>6. AnswerTrue'
  BY <1>1 DEF AnswerTrue, None
<1> QED BY <1>3, <1>4, <1>5, <1>6

\* Everything else touches neither records nor answers.
LEMMA RestKeepsIInv ==
    ASSUME IInv,
           \/ \E m \in Mutation : Enqueue(m)
           \/ Retry \/ (\E r \in requests : Lose(r)) \/ LoseAnswer \/ Headers
           \/ TakeFrame \/ StreamError \/ Watch
           \/ \E i \in Item : OthersWrite(i)
    PROVE  IInv'
<1> USE DEF IInv
<1>1. UNCHANGED <<record, runs, told, attempts>> /\ requests' \subseteq requests
  BY DEF Enqueue, Retry, Lose, LoseAnswer, Headers, TakeFrame, StreamError, Watch, OthersWrite, server
<1>2. RecordsAgree'
  BY <1>1 DEF RecordsAgree
<1>3. QueueTyped'
  <2>1. queue' \in Seq(Mutation)
    BY DEF Enqueue, Retry, Lose, LoseAnswer, Headers, TakeFrame, StreamError, Watch, OthersWrite, QueueTyped
  <2>2. notice' \in Mutation => notice' = notice /\ failed' = failed
    BY NoticeAssumption
       DEF Enqueue, Retry, Lose, LoseAnswer, Headers, TakeFrame, StreamError, Watch, OthersWrite
  <2> QED BY <1>1, <2>1, <2>2 DEF QueueTyped
<1>4. CASE Headers
  <2>1. /\ current # Waiting /\ answer' = answer
        /\ current' = [current EXCEPT !.step = "reading"]
    BY <1>4 DEF Headers, Waiting
  <2>2. current' = [step |-> "reading", mutation |-> current.mutation, try |-> current.try,
                    ifMatch |-> current.ifMatch, inverse |-> current.inverse, was |-> current.was]
    BY <2>1 DEF CurrentTyped
  <2>3. current' # Waiting
    BY <2>2 DEF Waiting
  <2>4. CurrentTyped'
    BY <1>1, <2>1, <2>2 DEF CurrentTyped
  <2>5. AnswerTrue'
    BY <1>1, <2>1, <2>2, <2>3 DEF AnswerTrue
  <2> QED BY <1>2, <1>3, <2>4, <2>5
<1>5. CASE ~Headers
  <2>1. current' = current /\ answer' \in {answer, None}
    BY <1>5 DEF Enqueue, Retry, Lose, LoseAnswer, TakeFrame, StreamError, Watch, OthersWrite
  <2>2. CurrentTyped'
    BY <1>1, <2>1 DEF CurrentTyped
  <2>3. AnswerTrue'
    BY <1>1, <2>1 DEF AnswerTrue, None
  <2> QED BY <1>2, <1>3, <2>2, <2>3
<1> QED BY <1>4, <1>5

LEMMA NextKeepsIInv == IInv /\ [Next]_vars => IInv'
<1> SUFFICES ASSUME IInv, [Next]_vars PROVE IInv'
  OBVIOUS
<1>1. CASE UNCHANGED vars
  BY <1>1 DEF vars, server, IInv, RecordsAgree, QueueTyped, CurrentTyped, AnswerTrue
<1>2. CASE Next
  BY <1>2, ServeKeepsIInv, FireKeepsIInv, SettleKeepsIInv, RestKeepsIInv DEF Next, Network, Tab
<1> QED BY <1>1, <1>2

\* The transaction that completes a record is Ledger's Run, a success that is shown its Tell.
LEMMA StepIsLedger == IInv /\ [Next]_vars => [Promise!Next]_<<runs, told>>
<1> SUFFICES ASSUME IInv, [Next]_vars, runs' # runs \/ told' # told
             PROVE  Promise!Next
  OBVIOUS
<1>1. CASE \E r \in requests : ServeKeyed(r) /\ Serve(r)
  <2>1. PICK r \in requests : ServeKeyed(r) /\ Serve(r)
    BY <1>1
  <2>2. r.mutation \in Keyed \ record
    BY <2>1 DEF IInv, CurrentTyped, ServeKeyed, Claim, Create, Delete, Keyed
  <2>3. runs[r.mutation] = 0 /\ runs' = [runs EXCEPT ![r.mutation] = 1] /\ told' = told
    <3>1. runs = [m \in Keyed |-> IF m \in record THEN 1 ELSE 0]
      BY DEF IInv, RecordsAgree
    <3>2. runs[r.mutation] = 0
      BY <2>2, <3>1
    <3>3. runs' = [runs EXCEPT ![r.mutation] = @ + 1] /\ told' = told
      BY <2>1 DEF ServeKeyed, Serve
    <3> QED BY <3>2, <3>3
  <2> QED BY <2>2, <2>3 DEF Promise!Next, Promise!Run
<1>2. CASE Body
  <2>1. runs' = runs /\ told' = told \cup ({current.mutation} \cap Keyed)
    BY <1>2 DEF Body, Settled, Succeed, Fail, server
  <2>2. answer.result = "ok"
    BY <1>2, <2>1 DEF Body, Succeed, Fail
  <2>3. current.mutation \in Keyed /\ runs[current.mutation] = 1
    BY <2>1, <2>2 DEF IInv, AnswerTrue, RecordsAgree
  <2> QED BY <2>1, <2>3 DEF Promise!Next, Promise!Tell
<1>3. ASSUME NEW r \in requests, Serve(r) PROVE ServeKeyed(r)
  BY <1>3 DEF Serve, ServePatch, ServeCascade, ServeStale, Write, Replay, ServeError, server
<1> QED
  BY <1>1, <1>2, <1>3
     DEF Next, Network, Tab, Enqueue, Retry, Lose, LoseAnswer, Fire, Headers, BodyBreaks,
         Timeout, Fail, Settled, TakeFrame, StreamError, Watch, OthersWrite, vars, server

\* A mutation that carries a key runs at most once and its success is shown only after it
\* ran (#completeAtomicIdempotentMutation, processNext), for any number of retries, lost
\* answers and late requests.
THEOREM ClientKeepsPromise == Spec => KeyedOnce
<1>1. Init => Promise!Init
  BY DEF Init, Promise!Init
<1>2. Spec => []IInv
  BY InitIInv, NextKeepsIInv, PTL DEF Spec
<1> QED
  BY <1>1, <1>2, StepIsLedger, PTL DEF Spec, KeyedOnce, Promise!Spec

(***************************************************************************)
(* Types.                                                                  *)
(***************************************************************************)

\* A child is unborn until the one mutation that creates it has its record; from there it
\* goes to 1 and to 2.
Births(s, rec) ==
    /\ \A m \in Mutation : Kind[m] = "create" /\ m \notin rec => s[Target[m]] = 0
    /\ \A i \in Child : s[i] <= 2

\* What waits fits into the attempts that are left.
Counted == Births(stamp, record) /\ attempts + Len(queue) <= MaxAttempts

Fits == TypeOK /\ Counted

\* The parts of an item's type that the proofs use.
LEMMA ItemFacts ==
    ASSUME NEW m \in Mutation
    PROVE  /\ Target[m] \in Item /\ Target[m] \in Selection[m] /\ Selection[m] \subseteq Item
           /\ Kind[m] \in {"patch", "cascade", "create", "delete"}
           /\ Unequal(m) \subseteq Item /\ Painted(m) \subseteq Item
           /\ Painted(m) \subseteq Unequal(m)
           /\ m \notin Keyed => Target[m] \in Row /\ Target[m] \in Unequal(m)
           /\ m \in Keyed => Target[m] \in Child /\ Target[m] \notin Row
           /\ Kind[m] = "create" => m \in Keyed
           /\ Kind[m] = "cascade" => Selection[m] \subseteq Row
<1>1. Target[m] \in Item /\ Target[m] \in Selection[m] /\ Selection[m] \subseteq Item
  BY MutationAssumption
<1>2. /\ Kind[m] \in {"patch", "cascade", "create", "delete"}
      /\ m \in Keyed <=> Kind[m] \in {"create", "delete"}
  BY MutationAssumption DEF Keyed
<1>3. Painted(m) \subseteq Unequal(m) /\ Unequal(m) \subseteq Item
  BY <1>1, <1>2, MutationAssumption DEF Painted, Unequal, Item
<1>4. /\ m \notin Keyed => Target[m] \in Row
      /\ m \in Keyed => Target[m] \in Child /\ Target[m] \notin Row
      /\ Kind[m] = "cascade" => Selection[m] \subseteq Row
  BY <1>1, MutationAssumption DEF Item
<1> QED BY <1>1, <1>2, <1>3, <1>4 DEF Unequal

\* A delta has some of the items, each with a version.
LEMMA FrameFacts ==
    ASSUME NEW f \in Frames
    PROVE  /\ DOMAIN f \subseteq Item
           /\ \A i \in DOMAIN f : f[i] \in 0..MaxStamp
           /\ f = [i \in DOMAIN f |-> f[i]]
<1>1. PICK S \in SUBSET Item : f \in [S -> 0..MaxStamp]
  BY DEF Frames
<1>2. DOMAIN f = S
  BY <1>1
<1> QED BY <1>1, <1>2

LEMMA FrameIntro ==
    ASSUME NEW S \in SUBSET Item, NEW f \in [S -> 0..MaxStamp]
    PROVE  f \in Frames
  BY DEF Frames

\* Restrict takes the items that are asked for, as they are.
LEMMA RestrictFacts ==
    ASSUME NEW f, NEW S
    PROVE  /\ DOMAIN Restrict(f, S) = S
           /\ \A i \in S : Restrict(f, S)[i] = f[i]
  BY DEF Restrict

LEMMA RestrictFits ==
    ASSUME NEW f, NEW S \in SUBSET Item, \A i \in S : f[i] \in 0..MaxStamp
    PROVE  Restrict(f, S) \in Frames
<1>1. Restrict(f, S) \in [S -> 0..MaxStamp]
  BY DEF Restrict
<1> QED BY <1>1, FrameIntro

LEMMA NothingFits == <<>> \in Frames
<1>1. <<>> \in [{} -> 0..MaxStamp]
  OBVIOUS
<1>2. {} \in SUBSET Item
  OBVIOUS
<1> QED BY <1>1, <1>2, FrameIntro

\* A rollback has the values of the inverse delta, of some of its items.
LEMMA StrippedFacts ==
    ASSUME NEW f \in Frames, NEW v
    PROVE  /\ Stripped(f, v) \in Frames
           /\ DOMAIN Stripped(f, v) \subseteq DOMAIN f
           /\ \A i \in DOMAIN Stripped(f, v) : Stripped(f, v)[i] = f[i]
           /\ \A i \in DOMAIN f : i \in DOMAIN Stripped(f, v) \/ ~(view[i] <= v)
           /\ v # NoVersion => \A i \in DOMAIN Stripped(f, v) : view[i] <= v
<1> DEFINE kept == {i \in DOMAIN f : view[i] <= v}
<1>1. DOMAIN f \subseteq Item /\ \A i \in DOMAIN f : f[i] \in 0..MaxStamp
  BY FrameFacts
<1>2. CASE v = NoVersion
  BY <1>2, <1>1 DEF Stripped
<1>3. CASE v # NoVersion
  <2>1. Stripped(f, v) = Restrict(f, kept)
    BY <1>3 DEF Stripped
  <2>2. Restrict(f, kept) \in Frames
    BY <1>1, RestrictFits
  <2>3. DOMAIN Restrict(f, kept) = kept /\ \A i \in kept : Restrict(f, kept)[i] = f[i]
    BY RestrictFacts
  <2> QED BY <2>1, <2>2, <2>3
<1> QED BY <1>2, <1>3

\* mergeRecordsById: what the delta has is replaced.
LEMMA MergedFacts ==
    ASSUME view \in [Item -> 0..MaxStamp], NEW f \in Frames
    PROVE  /\ Merged(f) \in [Item -> 0..MaxStamp]
           /\ \A i \in DOMAIN f : Merged(f)[i] = f[i]
           /\ \A i \in Item \ DOMAIN f : Merged(f)[i] = view[i]
  BY FrameFacts DEF Merged

Steps == {"sent", "reading"}
Results == {"ok", "error", "precondition_failed"}
Requests == [mutation : Mutation, try : 1..MaxAttempts, ifMatch : NoVersion..MaxStamp]
Answers == [result : Results, delta : Frames]
Sending == [step : Steps, mutation : Mutation, try : 1..MaxAttempts,
            ifMatch : NoVersion..MaxStamp, inverse : Frames, was : SUBSET Item]

LEMMA InitFits == Init => Fits
<1> SUFFICES ASSUME Init PROVE Fits
  OBVIOUS
<1>1. stamp \in [Item -> 0..MaxStamp] /\ \A i \in Child : stamp[i] = 0
  BY ClientBoundsAssumption, MutationAssumption DEF Init, Item
<1>2. stamp \in Frames /\ <<stamp>> \in Seq(Frames)
  <2>1. stamp \in Frames
    BY <1>1, FrameIntro
  <2> QED BY <2>1
<1>3. TypeOK
  <2>1. runs \in [Keyed -> Nat]
    BY DEF Init
  <2>2. errors \in 0..ErrorLimit /\ attempts \in 0..MaxAttempts
    BY ClientBoundsAssumption DEF Init
  <2>3. queue \in Seq(Mutation)
    BY DEF Init
  <2> QED BY <1>1, <1>2, <2>1, <2>2, <2>3 DEF Init, TypeOK
<1>4. Counted
  <2>1. \A m \in Mutation : Kind[m] = "create" => Target[m] \in Child
    BY ItemFacts
  <2>2. attempts + Len(queue) <= MaxAttempts
    BY ClientBoundsAssumption DEF Init
  <2> QED BY <1>1, <2>1, <2>2 DEF Counted, Births
<1> QED BY <1>3, <1>4 DEF Fits

\* The parts of a request, of what is being sent and of an answer.
LEMMA RequestFacts ==
    ASSUME TypeOK, NEW r \in requests
    PROVE  r.mutation \in Mutation /\ r.try \in 1..MaxAttempts /\ r.ifMatch \in NoVersion..MaxStamp
<1>1. r \in Requests
  BY DEF TypeOK, Requests
<1> QED BY <1>1 DEF Requests

LEMMA SendingFacts ==
    ASSUME TypeOK, current # Waiting
    PROVE  /\ current \in Sending
           /\ current.step \in Steps /\ current.mutation \in Mutation
           /\ current.ifMatch \in NoVersion..MaxStamp /\ current.inverse \in Frames
           /\ current.was \subseteq Item
<1>1. current \in Sending
  BY DEF TypeOK, Sending, Steps
<1> QED BY <1>1 DEF Sending

LEMMA AnswerFacts ==
    ASSUME TypeOK, answer # None
    PROVE  answer \in Answers /\ answer.result \in Results /\ answer.delta \in Frames
<1>1. answer \in Answers
  BY DEF TypeOK, Answers, Results
<1> QED BY <1>1 DEF Answers

\* Versions only rise, and a request raises only those of rows that its delta has.
StampRises(items) ==
    /\ stamp' \in [Item -> 0..MaxStamp]
    /\ \A i \in Item : stamp[i] <= stamp'[i]
    /\ \A i \in Item \ items : stamp'[i] = stamp[i]

\* A write raises the version of one item by one.
LEMMA OneUp ==
    ASSUME stamp \in [Item -> 0..MaxStamp], NEW i \in Item, stamp[i] < MaxStamp,
           stamp' = [stamp EXCEPT ![i] = @ + 1]
    PROVE  /\ StampRises({i})
           /\ stamp'[i] = stamp[i] + 1
<1>1. MaxStamp \in Nat
  BY ClientBoundsAssumption
<1>2. stamp'[i] = stamp[i] + 1 /\ stamp[i] \in 0..MaxStamp
  OBVIOUS
<1>3. \A j \in Item \ {i} : stamp'[j] = stamp[j]
  OBVIOUS
<1>4. stamp' \in [Item -> 0..MaxStamp]
  <2>1. stamp[i] + 1 \in 0..MaxStamp
    BY <1>1, <1>2
  <2> QED BY <2>1
<1>5. \A j \in Item : stamp[j] <= stamp'[j]
  BY <1>1, <1>2, <1>3
<1> QED BY <1>2, <1>3, <1>4, <1>5 DEF StampRises

\* update..WithIfMatch touches no child, so births are as they were.
LEMMA WriteRises ==
    ASSUME Fits, NEW r \in requests, NEW rows \in SUBSET Row, Write(r, rows)
    PROVE  StampRises(rows) /\ Births(stamp', record') /\ UNCHANGED <<record, runs>>
<1>1. stamp \in [Item -> 0..MaxStamp] /\ Births(stamp, record) /\ MaxStamp \in Nat
  BY ClientBoundsAssumption DEF Fits, TypeOK, Counted, Births
<1>2. /\ \A i \in rows : stamp[i] < MaxStamp
      /\ stamp' = [i \in Item |-> IF i \in rows THEN stamp[i] + 1 ELSE stamp[i]]
      /\ UNCHANGED <<record, runs>>
  BY DEF Write
<1>3. \A i \in Item : /\ stamp'[i] \in 0..MaxStamp /\ stamp[i] <= stamp'[i]
                      /\ i \notin rows => stamp'[i] = stamp[i]
  <2>1. ASSUME NEW i \in Item
        PROVE  /\ stamp'[i] \in 0..MaxStamp /\ stamp[i] <= stamp'[i]
               /\ i \notin rows => stamp'[i] = stamp[i]
    <3>1. stamp[i] \in 0..MaxStamp /\ stamp'[i] = IF i \in rows THEN stamp[i] + 1 ELSE stamp[i]
      BY <1>1, <1>2
    <3> QED BY <1>1, <1>2, <3>1
  <2> QED BY <2>1
<1>4. StampRises(rows)
  BY <1>2, <1>3 DEF StampRises
<1>5. \A i \in Child : stamp'[i] = stamp[i]
  BY <1>3, MutationAssumption DEF Item
<1>6. \A n \in Mutation : Kind[n] = "create" => Target[n] \in Child
  BY ItemFacts
<1> QED BY <1>1, <1>2, <1>4, <1>5, <1>6 DEF Births

\* A creation takes its child from 0 to 1, a deletion from 1 to 2.
LEMMA KeyedRises ==
    ASSUME Fits, NEW r \in requests, ServeKeyed(r)
    PROVE  /\ StampRises(Selection[r.mutation]) /\ Births(stamp', record')
           /\ record' \subseteq Keyed /\ runs' \in [Keyed -> Nat]
<1> DEFINE m == r.mutation
<1>1. stamp \in [Item -> 0..MaxStamp] /\ Births(stamp, record)
  BY DEF Fits, TypeOK, Counted, Births
<1>2. m \in Mutation
  BY RequestFacts DEF Fits
<1>3. m \in Keyed /\ m \notin record /\ record' = record \cup {m}
  BY <1>2 DEF ServeKeyed, Claim, Create, Delete, Keyed
<1>4. Target[m] \in Child /\ Target[m] \in Item /\ Target[m] \in Selection[m]
  BY <1>2, <1>3, ItemFacts
<1>5. stamp[Target[m]] = IF Kind[m] = "create" THEN 0 ELSE 1
  BY <1>1, <1>2, <1>3 DEF ServeKeyed, Create, Delete, Births
<1>6. stamp' = [stamp EXCEPT ![Target[m]] = @ + 1]
  BY DEF ServeKeyed, Create, Delete
<1>7. StampRises({Target[m]}) /\ stamp'[Target[m]] = stamp[Target[m]] + 1
  <2>1. stamp[Target[m]] < MaxStamp
    BY <1>5, ClientBoundsAssumption
  <2> HIDE DEF m
  <2> QED BY <1>1, <1>4, <1>6, <2>1, OneUp
<1>8. Births(stamp', record')
  <2>1. \A i \in Child : stamp'[i] <= 2
    BY <1>1, <1>5, <1>7 DEF StampRises, Births, Item
  <2>2. ASSUME NEW n \in Mutation, Kind[n] = "create", n \notin record'
        PROVE  stamp'[Target[n]] = 0
    <3>1. stamp[Target[n]] = 0 /\ n # m /\ Target[n] \in Item
      BY <2>2, <1>1, <1>3, ItemFacts DEF Births
    <3>2. Target[n] # Target[m]
      BY <3>1, <2>2, <1>2, <1>5, MutationAssumption
    <3> QED BY <3>1, <3>2, <1>7 DEF StampRises
  <2> QED BY <2>1, <2>2 DEF Births
<1>9. record' \subseteq Keyed /\ runs' \in [Keyed -> Nat]
  BY <1>2, <1>3 DEF ServeKeyed, Keyed, Fits, TypeOK
<1> QED BY <1>4, <1>7, <1>8, <1>9 DEF StampRises

(***************************************************************************)
(* Types, action by action.                                                *)
(***************************************************************************)

\* What is published is a frame.
LEMMA PublishedFits ==
    ASSUME TypeOK, stamp' \in [Item -> 0..MaxStamp], NEW items \in SUBSET Item, Published(items)
    PROVE  frames' \in Seq(Frames) /\ Restrict(stamp', items) \in Frames
<1>1. Restrict(stamp', items) \in Frames
  BY RestrictFits
<1>2. frames \in Seq(Frames)
  BY DEF TypeOK
<1> QED BY <1>1, <1>2 DEF Published

\* A commit is published and answered with a delta that has every row it raised.
Commits(r) == \E items \in SUBSET Item : StampRises(items) /\ Respond(r, items)

\* A request is answered by a commit, whose delta is published, or changes nothing.
LEMMA ServeDoes ==
    ASSUME Fits, NEW r \in requests, Serve(r)
    PROVE  /\ StampRises(Item) /\ Births(stamp', record')
           /\ record' \subseteq Keyed /\ runs' \in [Keyed -> Nat]
           /\ \/ Commits(r)
              \/ /\ stamp' = stamp
                 /\ Refuse(r, "error") \/ Refuse(r, "precondition_failed")
<1> DEFINE m == r.mutation
<1>1. /\ stamp \in [Item -> 0..MaxStamp] /\ Births(stamp, record)
      /\ record \subseteq Keyed /\ runs \in [Keyed -> Nat]
  BY DEF Fits, TypeOK, Counted
<1>2. m \in Mutation
  BY RequestFacts DEF Fits
<1>3. /\ Target[m] \in Selection[m] /\ Selection[m] \in SUBSET Item
      /\ Kind[m] = "patch" => Target[m] \in Row
      /\ Kind[m] = "cascade" => Selection[m] \subseteq Row /\ Target[m] \in Item
  BY <1>2, ItemFacts DEF Keyed
<1> HIDE DEF m
<1>4. ASSUME UNCHANGED server
      PROVE  StampRises({})
  BY <1>1, <1>4, ClientBoundsAssumption DEF StampRises, server
<1>5. CASE ServePatch(r)
  <2>1. Kind[m] = "patch" /\ Write(r, {Target[m]}) /\ Respond(r, Selection[m])
    BY <1>5 DEF ServePatch, m
  <2>2. {Target[m]} \in SUBSET Row
    BY <1>3, <2>1
  <2>3. StampRises({Target[m]}) /\ Births(stamp', record') /\ UNCHANGED <<record, runs>>
    BY <2>1, <2>2, WriteRises
  <2>4. StampRises(Selection[m]) /\ StampRises(Item)
    BY <1>3, <2>3 DEF StampRises
  <2> QED BY <1>1, <1>3, <2>1, <2>3, <2>4 DEF Commits
<1>6. CASE ServeCascade(r)
  <2>1. PICK changed \in SUBSET Selection[m] :
           Write(r, changed) /\ Respond(r, changed \cup {Target[m]})
    BY <1>6 DEF ServeCascade, m
  <2>2. changed \in SUBSET Row /\ changed \cup {Target[m]} \in SUBSET Item
    BY <1>3, <1>6, <2>1 DEF ServeCascade, m
  <2>3. StampRises(changed) /\ Births(stamp', record') /\ UNCHANGED <<record, runs>>
    BY <2>1, <2>2, WriteRises
  <2>4. StampRises(changed \cup {Target[m]}) /\ StampRises(Item)
    BY <2>3 DEF StampRises
  <2> QED BY <1>1, <2>1, <2>2, <2>3, <2>4 DEF Commits
<1>7. CASE ServeKeyed(r)
  <2>1. /\ StampRises(Selection[m]) /\ Births(stamp', record')
        /\ record' \subseteq Keyed /\ runs' \in [Keyed -> Nat]
    BY <1>7, KeyedRises DEF m
  <2>2. Respond(r, Selection[m])
    BY <1>7 DEF ServeKeyed, m
  <2>3. StampRises(Item)
    BY <1>3, <2>1 DEF StampRises
  <2> QED BY <1>3, <2>1, <2>2, <2>3 DEF Commits
<1>8. CASE Replay(r)
  <2>1. Respond(r, Replayed(m)) /\ UNCHANGED server
    BY <1>8 DEF Replay, m
  <2>2. Replayed(m) \in SUBSET Item
    BY <1>3 DEF Replayed
  <2>3. StampRises(Replayed(m)) /\ StampRises(Item)
    BY <1>4, <2>1, <2>2 DEF StampRises
  <2> QED BY <1>1, <2>1, <2>2, <2>3 DEF Commits, server
<1>9. CASE ServeStale(r) \/ ServeError(r)
  <2>1. UNCHANGED server /\ (Refuse(r, "error") \/ Refuse(r, "precondition_failed"))
    BY <1>9 DEF ServeStale, ServeError
  <2>2. StampRises(Item)
    BY <1>4, <2>1 DEF StampRises
  <2> QED BY <1>1, <2>1, <2>2 DEF server
<1> QED BY <1>5, <1>6, <1>7, <1>8, <1>9 DEF Serve

LEMMA ServeFits ==
    ASSUME Fits, NEW r \in requests, Serve(r)
    PROVE  Fits'
<1>1. /\ stamp' \in [Item -> 0..MaxStamp] /\ Births(stamp', record')
      /\ record' \subseteq Keyed /\ runs' \in [Keyed -> Nat]
  BY ServeDoes DEF StampRises
<1>2. /\ requests' \subseteq requests
      /\ UNCHANGED <<dirty, errors, entered, queue, current, attempts, view, optimistic, ghosts, stale,
                     skipped, notice, failed, told>>
  BY DEF Serve, screen
<1>3. /\ frames' \in Seq(Frames)
      /\ answer' \in {None} \cup [result : {"ok", "error", "precondition_failed"}, delta : Frames]
  <2>1. answer \in {None} \cup [result : {"ok", "error", "precondition_failed"}, delta : Frames]
    BY DEF Fits, TypeOK
  <2>2. CASE Commits(r)
    <3>1. PICK items \in SUBSET Item : Respond(r, items)
      BY <2>2 DEF Commits
    <3>2. frames' \in Seq(Frames) /\ Restrict(stamp', items) \in Frames
      BY <1>1, <3>1, PublishedFits DEF Respond, Fits
    <3> QED BY <2>1, <3>1, <3>2 DEF Respond, Answer
  <2>3. CASE Refuse(r, "error") \/ Refuse(r, "precondition_failed")
    BY <2>1, <2>3, NothingFits DEF Refuse, Answer, Fits, TypeOK
  <2> QED BY <2>2, <2>3, ServeDoes
<1>4. TypeOK'
  BY <1>1, <1>2, <1>3 DEF Fits, TypeOK
<1>5. Counted'
  BY <1>1, <1>2 DEF Fits, Counted
<1> QED BY <1>4, <1>5 DEF Fits

LEMMA FireFits == ASSUME Fits, Fire PROVE Fits'
<1> DEFINE m == Head(queue)
           v == IF m \in Keyed THEN NoVersion ELSE view[Target[m]]
<1>1. queue \in Seq(Mutation) /\ queue # <<>> /\ view \in [Item -> 0..MaxStamp] /\ attempts \in 0..MaxAttempts
  BY DEF Fire, Fits, TypeOK
<1>2. m \in Mutation /\ Tail(queue) \in Seq(Mutation) /\ Len(queue) = Len(Tail(queue)) + 1
  BY <1>1
<1>3. attempts + 1 \in 1..MaxAttempts /\ attempts + 1 + Len(Tail(queue)) <= MaxAttempts
  <2>1. attempts + Len(queue) <= MaxAttempts /\ MaxAttempts \in Nat
    BY ClientBoundsAssumption DEF Fits, Counted
  <2>2. Len(Tail(queue)) \in Nat
    BY <1>2
  <2> QED BY <1>1, <1>2, <2>1, <2>2
<1>4. Target[m] \in Item /\ Unequal(m) \in SUBSET Item /\ Painted(m) \subseteq Item
  BY <1>2, ItemFacts
<1>5. v \in NoVersion..MaxStamp
  <2>1. view[Target[m]] \in 0..MaxStamp
    BY <1>1, <1>4
  <2> QED BY <2>1, ClientBoundsAssumption DEF NoVersion
<1>6. InverseDelta(m) \in Frames
  BY <1>1, <1>4, RestrictFits DEF InverseDelta
<1>7. /\ current' = [step |-> "sent", mutation |-> m, try |-> attempts + 1,
                     ifMatch |-> v, inverse |-> InverseDelta(m), was |-> optimistic]
      /\ requests' = requests \cup {[mutation |-> m, try |-> attempts + 1, ifMatch |-> v]}
      /\ Preview(m)
      /\ queue' = Tail(queue) /\ attempts' = attempts + 1 /\ notice' = "none"
      /\ UNCHANGED <<stamp, record, runs, answer, frames, dirty, errors, entered, view, stale, skipped,
                     failed, told>>
  BY DEF Fire, server, stream
<1> HIDE DEF m, v
<1>8. /\ current' \in [step : {"sent", "reading"}, mutation : Mutation, try : 1..MaxAttempts,
                       ifMatch : NoVersion..MaxStamp, inverse : Frames, was : SUBSET Item]
      /\ requests' \subseteq [mutation : Mutation, try : 1..MaxAttempts, ifMatch : NoVersion..MaxStamp]
  <2>1. requests \subseteq [mutation : Mutation, try : 1..MaxAttempts, ifMatch : NoVersion..MaxStamp]
    BY DEF Fits, TypeOK
  <2>2. optimistic \in SUBSET Item
    BY DEF Fits, TypeOK
  <2> QED BY <1>2, <1>3, <1>5, <1>6, <1>7, <2>1, <2>2
<1>9. optimistic' \subseteq Item /\ ghosts' \subseteq Mutation
  BY <1>2, <1>4, <1>7 DEF Preview, Fits, TypeOK
<1>10. attempts' \in 0..MaxAttempts
  BY <1>3, <1>7
<1>11. TypeOK'
  BY <1>2, <1>7, <1>8, <1>9, <1>10 DEF Fits, TypeOK
<1>12. Counted'
  <2>1. attempts' + Len(queue') <= MaxAttempts
    BY <1>3, <1>7
  <2> QED BY <1>7, <2>1 DEF Fits, Counted
<1> QED BY <1>11, <1>12 DEF Fits

\* An answer or a rollback: the delta that is merged, and what it takes back.
TakesBack(delta) ==
    /\ delta \in Frames
    /\ view' = Merged(delta)
    /\ stale' = Regressed(delta)
    /\ ghosts' = ghosts \ {current.mutation}

\* What the two leave of the optimistic rows.
Answered == /\ optimistic' = optimistic \ (DOMAIN answer.delta \cup Painted(current.mutation))
            /\ skipped' = skipped
RolledBack(inverse) ==
    /\ optimistic' = (optimistic \ DOMAIN inverse) \cup (current.was \cap DOMAIN inverse)
    /\ skipped' = skipped \cup PassedOver

LEMMA SettleDoes ==
    ASSUME TypeOK, Body \/ BodyBreaks \/ Timeout
    PROVE  /\ current # Waiting /\ Settled
           /\ \/ answer.result = "ok" /\ TakesBack(answer.delta) /\ Answered /\ notice' = "saved"
              \/ /\ TakesBack(Stripped(current.inverse, current.ifMatch))
                 /\ RolledBack(Stripped(current.inverse, current.ifMatch))
           /\ told' \subseteq told \cup ({current.mutation} \cap Keyed)
           /\ notice' \in {"saved", "stale_version", current.mutation}
           /\ failed' \in {failed, current.mutation}
<1>1. Settled /\ current.step \in {"sent", "reading"}
  BY DEF Body, BodyBreaks, Timeout
<1>2. current # Waiting
  BY <1>1 DEF Waiting
<1>3. current.inverse \in Frames
  BY <1>2, SendingFacts
<1>4. Stripped(current.inverse, current.ifMatch) \in Frames
  BY <1>3, StrippedFacts
<1>5. CASE answer.result = "ok" /\ Succeed
  <2>1. answer # None
    BY <1>5 DEF None
  <2>2. answer.delta \in Frames
    BY <2>1, AnswerFacts
  <2> QED BY <1>1, <1>2, <1>5, <2>2 DEF Succeed, TakesBack, Answered
<1>6. CASE Fail(TRUE) \/ Fail(FALSE)
  BY <1>1, <1>2, <1>4, <1>6 DEF Fail, TakesBack, RolledBack
<1> QED BY <1>5, <1>6 DEF Body, BodyBreaks, Timeout, Succeed

LEMMA SettleFits == ASSUME Fits, Body \/ BodyBreaks \/ Timeout PROVE Fits'
<1>1. TypeOK
  BY DEF Fits
<1>2. PICK delta : TakesBack(delta) /\ (Answered \/ RolledBack(delta))
  BY <1>1, SettleDoes
<1>3. current.mutation \in Mutation /\ current.was \subseteq Item
  BY <1>1, SettleDoes, SendingFacts
<1>4. view' \in [Item -> 0..MaxStamp] /\ stale' \subseteq Item /\ ghosts' \subseteq Mutation
  <2>1. delta \in Frames /\ DOMAIN delta \subseteq Item
    BY <1>2, FrameFacts DEF TakesBack
  <2>2. view' = Merged(delta) /\ Merged(delta) \in [Item -> 0..MaxStamp]
    BY <1>1, <1>2, <2>1, MergedFacts DEF TakesBack, TypeOK
  <2> QED BY <1>1, <1>2, <2>1, <2>2 DEF TakesBack, Regressed, TypeOK
<1>5. optimistic' \subseteq Item /\ skipped' \subseteq Item
  <2>1. PassedOver \subseteq Item
    BY <1>3, ItemFacts DEF PassedOver
  <2> QED BY <1>1, <1>2, <1>3, <2>1 DEF Answered, RolledBack, TypeOK
<1>6. current' = Waiting /\ answer' = None
      /\ UNCHANGED <<stamp, record, runs, requests, frames, dirty, errors, entered, queue, attempts>>
  BY <1>1, SettleDoes DEF Settled, server, stream
<1>7. told' \subseteq Keyed
  BY <1>1, SettleDoes DEF TypeOK
<1>8. /\ notice' \in {"none", "saved", "stale_version", "disconnected", "disabled"} \cup Mutation
      /\ failed' \in {"none"} \cup Mutation
  BY <1>1, <1>3, SettleDoes DEF TypeOK
<1>9. TypeOK'
  BY <1>1, <1>4, <1>5, <1>6, <1>7, <1>8 DEF TypeOK
<1>10. Counted'
  BY <1>6 DEF Fits, Counted
<1> QED BY <1>9, <1>10 DEF Fits

\* The user: a mutation more waits.
LEMMA QueueFits ==
    ASSUME Fits, IInv, (\E m \in Mutation : Enqueue(m)) \/ Retry
    PROVE  Fits'
<1>1. PICK m \in Mutation : queue' = Append(queue, m)
  BY DEF Enqueue, Retry, IInv, QueueTyped
<1>2. /\ attempts + Len(queue) < MaxAttempts
      /\ entered' \subseteq entered \cup Mutation
      /\ UNCHANGED <<stamp, record, runs, requests, answer, frames, dirty, errors, current, attempts,
                     view, optimistic, ghosts, stale, skipped, notice, failed, told>>
  BY DEF Enqueue, Retry, server, stream, screen
<1>3. queue \in Seq(Mutation) /\ attempts \in 0..MaxAttempts
  BY DEF Fits, TypeOK
<1>4. queue' \in Seq(Mutation) /\ attempts + Len(queue') <= MaxAttempts
  <2>1. queue' \in Seq(Mutation) /\ Len(queue') = Len(queue) + 1
    BY <1>1, <1>3
  <2> QED BY <2>1, <1>2, <1>3, ClientBoundsAssumption
<1>5. TypeOK'
  BY <1>2, <1>4 DEF Fits, TypeOK
<1>6. Counted'
  BY <1>2, <1>4 DEF Fits, Counted
<1> QED BY <1>5, <1>6 DEF Fits

\* The network loses a request or an answer; the headers of an answer come.
LEMMA NetworkFits ==
    ASSUME Fits, (\E r \in requests : Lose(r)) \/ LoseAnswer \/ Headers
    PROVE  Fits'
<1>1. /\ requests' \subseteq requests /\ answer' \in {answer, None}
      /\ UNCHANGED <<stamp, record, runs, frames, dirty, errors, entered, queue, attempts,
                     view, optimistic, ghosts, stale, skipped, notice, failed, told>>
  BY DEF Lose, LoseAnswer, Headers, server, stream, screen
<1>2. current' = current \/ (current # Waiting /\ current' = [current EXCEPT !.step = "reading"])
  BY DEF Lose, LoseAnswer, Headers, Waiting
<1>3. current' \in {Waiting} \cup Sending
  <2>1. CASE current' = current
    BY <2>1 DEF Fits, TypeOK, Sending, Steps
  <2>2. CASE current # Waiting /\ current' = [current EXCEPT !.step = "reading"]
    <3>1. current \in Sending
      BY <2>2, SendingFacts DEF Fits
    <3> QED BY <2>2, <3>1 DEF Sending, Steps
  <2> QED BY <1>2, <2>1, <2>2
<1>4. TypeOK'
  BY <1>1, <1>3 DEF Fits, TypeOK, Sending, Steps
<1>5. Counted'
  BY <1>1 DEF Fits, Counted
<1> QED BY <1>4, <1>5 DEF Fits

\* The stream: frames come, are taken, or are lost with the connection.
LEMMA StreamFits ==
    ASSUME Fits, TakeFrame \/ StreamError \/ Watch
    PROVE  Fits'
<1>1. /\ stamp \in [Item -> 0..MaxStamp] /\ view \in [Item -> 0..MaxStamp]
      /\ frames \in Seq(Frames) /\ dirty \subseteq Item
      /\ errors \in 0..ErrorLimit /\ ErrorLimit \in Nat \ {0}
  BY ClientBoundsAssumption DEF Fits, TypeOK
<1>2. /\ stale' \subseteq stale /\ dirty' \subseteq dirty
      /\ notice' \in {notice, "none", "disconnected", "disabled"}
      /\ UNCHANGED <<stamp, record, runs, requests, answer, entered, queue, current, attempts, failed, told>>
  BY DEF TakeFrame, StreamError, Watch, server, screen
<1>3. /\ frames' \in Seq(Frames) /\ errors' \in 0..ErrorLimit
      /\ view' \in [Item -> 0..MaxStamp] /\ optimistic' \subseteq optimistic /\ ghosts' \subseteq ghosts
      /\ skipped' = skipped
  <2>1. CASE TakeFrame
    <3>1. Head(frames) \in Frames /\ Tail(frames) \in Seq(Frames)
      BY <1>1, <2>1 DEF TakeFrame
    <3>2. view' \in [Item -> 0..MaxStamp]
      BY <1>1, <2>1, <3>1, MergedFacts DEF TakeFrame, ApplyDelta
    <3>3. 0 \in 0..ErrorLimit
      BY <1>1
    <3> QED BY <2>1, <3>1, <3>2, <3>3 DEF TakeFrame, ApplyDelta
  <2>2. CASE StreamError
    <3>1. stamp \in Frames
      BY <1>1, FrameIntro
    <3>2. errors + 1 \in 0..ErrorLimit
      BY <1>1, <2>2 DEF StreamError, Connected
    <3>3. frames' \in {<<stamp>>, <<>>}
      BY <2>2 DEF StreamError
    <3>4. frames' \in Seq(Frames)
      <4>1. <<stamp>> \in Seq(Frames)
        BY <3>1
      <4>2. <<>> \in Seq(Frames)
        OBVIOUS
      <4> QED BY <3>3, <4>1, <4>2
    <3> QED BY <1>1, <2>2, <3>2, <3>4 DEF StreamError, screen
  <2>3. CASE Watch
    <3>1. DeltaOf(dirty) \in Frames
      BY <1>1, RestrictFits DEF DeltaOf
    <3>2. frames' \in Seq(Frames)
      BY <1>1, <2>3, <3>1 DEF Watch
    <3> QED BY <1>1, <2>3, <3>2 DEF Watch, screen
  <2> QED BY <2>1, <2>2, <2>3
<1>4. TypeOK'
  BY <1>2, <1>3 DEF Fits, TypeOK
<1>5. Counted'
  BY <1>2 DEF Fits, Counted
<1> QED BY <1>4, <1>5 DEF Fits

\* Another tab or a command writes.
LEMMA OthersRise ==
    ASSUME Fits, NEW i \in Item, OthersWrite(i)
    PROVE  StampRises({i}) /\ Births(stamp', record') /\ dirty' = dirty \cup {i}
<1>1. stamp \in [Item -> 0..MaxStamp] /\ Births(stamp, record)
  BY DEF Fits, TypeOK, Counted
<1>2. stamp[i] < MaxStamp /\ (i \notin Row => stamp[i] = 1)
  BY ClientBoundsAssumption DEF OthersWrite
<1>3. stamp' = [stamp EXCEPT ![i] = @ + 1] /\ record' = record /\ dirty' = dirty \cup {i}
  BY DEF OthersWrite
<1>4. StampRises({i}) /\ stamp'[i] = stamp[i] + 1
  BY <1>1, <1>2, <1>3, OneUp
<1>5. \A j \in Child : stamp'[j] <= 2
  <2>1. \A j \in Child : j \in Item /\ j \notin Row
    BY MutationAssumption DEF Item
  <2> QED BY <1>1, <1>2, <1>4, <2>1 DEF StampRises, Births
<1>6. ASSUME NEW m \in Mutation, Kind[m] = "create", m \notin record'
      PROVE  stamp'[Target[m]] = 0
  <2>1. stamp[Target[m]] = 0 /\ Target[m] \in Item /\ Target[m] \notin Row
    BY <1>1, <1>3, <1>6, ItemFacts DEF Births
  <2>2. Target[m] # i
    BY <1>2, <2>1
  <2> QED BY <1>4, <2>1, <2>2 DEF StampRises
<1> QED BY <1>3, <1>4, <1>5, <1>6 DEF Births

LEMMA OthersFits ==
    ASSUME Fits, NEW i \in Item, OthersWrite(i)
    PROVE  Fits'
<1>1. stamp' \in [Item -> 0..MaxStamp] /\ Births(stamp', record') /\ dirty' \subseteq Item
  BY OthersRise DEF StampRises, Fits, TypeOK
<1>2. UNCHANGED <<record, runs, requests, answer, frames, errors, entered, queue, current, attempts,
                  view, optimistic, ghosts, stale, skipped, notice, failed, told>>
  BY DEF OthersWrite, screen
<1>3. TypeOK'
  BY <1>1, <1>2 DEF Fits, TypeOK
<1>4. Counted'
  BY <1>1, <1>2 DEF Fits, Counted
<1> QED BY <1>3, <1>4 DEF Fits

LEMMA NextFits == Fits /\ IInv /\ [Next]_vars => Fits'
<1> SUFFICES ASSUME Fits, IInv, [Next]_vars PROVE Fits'
  OBVIOUS
<1>1. CASE UNCHANGED vars
  BY <1>1 DEF vars, server, stream, screen, Fits, TypeOK, Counted
<1>2. CASE Next
  BY <1>2, ServeFits, FireFits, SettleFits, QueueFits, NetworkFits, StreamFits, OthersFits
     DEF Next, Network, Tab
<1> QED BY <1>1, <1>2

\* Every variable of the tab and of the routes has its type: versions stay within their
\* bound, requests within the attempts, stream errors within their limit (api.js, routes.ts).
THEOREM TypeCorrect == Spec => []TypeOK
<1>1. Fits => TypeOK
  BY DEF Fits
<1> QED BY <1>1, InitIInv, NextKeepsIInv, InitFits, NextFits, PTL DEF Spec

(***************************************************************************)
(* The screen. A delta can be merged late: an answer that frames overtook, or*)
(* a rollback to what the screen showed when the request was sent.         *)
(***************************************************************************)

\* News of the item is on its way, or waits for the watcher.
Pending(i) == \/ i \in dirty
              \/ \E n \in DOMAIN frames : i \in DOMAIN frames[n]

\* A delta that may be merged late is no newer than the rows, and where it is older than
\* they are the tab shows no less already, or has news to come.
Late(delta) == \A i \in DOMAIN delta :
    /\ delta[i] <= stamp[i]
    /\ Connected => \/ delta[i] = stamp[i]
                    \/ Pending(i)
                    \/ delta[i] <= view[i]

\* What the tab shows is the row, or there is news of it to come, or an answer or a
\* rollback took it back.
ViewBehind ==
    \A i \in Item : /\ view[i] <= stamp[i]
                    /\ Connected => i \in stale \/ Pending(i) \/ view[i] = stamp[i]

\* The last frame with an item has it as it is, unless the watcher will read it again.
FramesFresh ==
    /\ ~Connected => frames = <<>>
    /\ \A n \in DOMAIN frames : \A i \in DOMAIN frames[n] :
        /\ frames[n][i] <= stamp[i]
        /\ \/ frames[n][i] = stamp[i]
           \/ i \in dirty
           \/ \E k \in DOMAIN frames : k > n /\ i \in DOMAIN frames[k]

\* The answer on its way and the rollback that may come are late deltas.
LateSound ==
    /\ answer # None => Late(answer.delta)
    /\ current # Waiting => Late(current.inverse)

\* What is optimistic on the screen was left by a rollback that passed it over, or
\* belongs to the mutation in flight, whose rollback knows what was there before.
ScreenOwned ==
    /\ current = Waiting => ghosts = {} /\ optimistic \subseteq skipped
    /\ current # Waiting =>
          /\ ghosts \subseteq {current.mutation}
          /\ current.was \subseteq skipped
          /\ \A i \in optimistic \ skipped : /\ i \in Painted(current.mutation)
                                             /\ view[i] = current.inverse[i]
          /\ Painted(current.mutation) \subseteq DOMAIN current.inverse
          /\ current.mutation \notin Keyed =>
                Target[current.mutation] \in DOMAIN current.inverse
          /\ current.ifMatch = IF current.mutation \in Keyed THEN NoVersion
                               ELSE current.inverse[Target[current.mutation]]

ScreenInv == ViewBehind /\ FramesFresh /\ LateSound /\ ScreenOwned

LEMMA InitScreen == Init => ScreenInv
<1> SUFFICES ASSUME Init PROVE ScreenInv
  OBVIOUS
<1>1. Fits
  BY InitFits
<1>2. stamp \in [Item -> 0..MaxStamp] /\ view = stamp /\ frames = <<stamp>> /\ current = Waiting /\ answer = None
  BY <1>1 DEF Init, Fits, TypeOK
<1>3. ViewBehind
  BY <1>2 DEF ViewBehind
<1>4. FramesFresh
  <2>1. Connected
    BY ClientBoundsAssumption DEF Init, Connected
  <2>2. DOMAIN frames = {1} /\ frames[1] = stamp /\ DOMAIN stamp = Item
    BY <1>2
  <2> QED BY <1>2, <2>1, <2>2 DEF FramesFresh
<1>5. LateSound
  BY <1>2 DEF LateSound
<1>6. ScreenOwned
  BY <1>2 DEF Init, ScreenOwned
<1> QED BY <1>3, <1>4, <1>5, <1>6 DEF ScreenInv

\* A step that merges nothing and announces every row that it changes.
Calm ==
    /\ view' = view /\ stale' = stale
    /\ \A i \in Item : stamp[i] <= stamp'[i]
    /\ Connected' => /\ Connected
                     /\ \A i \in Item : Pending(i) \/ stamp'[i] # stamp[i] => Pending(i)'

\* Such a step leaves the screen as far behind as it was, with news to come of the rest.
LEMMA CalmView ==
    ASSUME Fits, Fits', Calm, ViewBehind
    PROVE  ViewBehind'
<1>1. \A i \in Item : stamp[i] \in Int /\ stamp'[i] \in Int /\ view[i] \in Int
  BY DEF Fits, TypeOK
<1>2. \A i \in Item : view'[i] <= stamp'[i]
  BY <1>1 DEF Calm, ViewBehind
<1>3. ASSUME Connected', NEW i \in Item, i \notin stale', ~Pending(i)'
      PROVE  view'[i] = stamp'[i]
  BY <1>3 DEF Calm, ViewBehind
<1> QED BY <1>2, <1>3 DEF ViewBehind

LEMMA CalmLate ==
    ASSUME Fits, Fits', Calm, NEW delta, delta \in Frames, Late(delta)
    PROVE  Late(delta)'
<1>1. \A i \in Item : stamp[i] \in Int /\ stamp'[i] \in Int /\ view[i] \in Int
  BY DEF Fits, TypeOK
<1>2. \A i \in DOMAIN delta : i \in Item /\ delta[i] \in Int
  BY FrameFacts
<1>3. \A i \in DOMAIN delta : delta[i] <= stamp'[i]
  BY <1>1, <1>2 DEF Calm, Late
<1>4. ASSUME Connected', NEW i \in DOMAIN delta, ~Pending(i)', ~(delta[i] <= view'[i])
      PROVE  delta[i] = stamp'[i]
  BY <1>2, <1>4 DEF Calm, Late
<1> QED BY <1>3, <1>4 DEF Late

\* The queue of frames gets one more, with the rows as they are.
LEMMA AppendFresh ==
    ASSUME Fits, Fits', FramesFresh, NEW f \in Frames,
           frames' = Append(frames, f), errors' = errors, Connected,
           \A i \in Item : stamp[i] <= stamp'[i],
           \A i \in DOMAIN f : f[i] = stamp'[i],
           \A i \in Item \ DOMAIN f : stamp'[i] = stamp[i] /\ (i \in dirty => i \in dirty')
    PROVE  /\ FramesFresh'
           /\ \A i \in Item : Pending(i) \/ stamp'[i] # stamp[i] => Pending(i)'
<1> DEFINE z == Len(frames) + 1
<1>1. frames \in Seq(Frames) /\ z \in Nat
  BY DEF Fits, TypeOK
<1>2. /\ DOMAIN frames' = DOMAIN frames \cup {z} /\ frames'[z] = f
      /\ \A n \in DOMAIN frames : frames'[n] = frames[n] /\ n < z /\ n \in Nat /\ frames[n] \in Frames
  BY <1>1
<1>3. \A n \in DOMAIN frames : \A i \in DOMAIN frames[n] : i \in Item /\ frames[n][i] \in Int
  BY <1>2, FrameFacts
<1>4. \A i \in DOMAIN f : i \in Item /\ stamp'[i] \in Int
  BY FrameFacts DEF Fits, TypeOK
<1>5. \A i \in Item : stamp[i] \in Int /\ stamp'[i] \in Int
  BY DEF Fits, TypeOK
<1> HIDE DEF z
<1>6. Connected'
  BY DEF Connected
<1>7. ASSUME NEW n \in DOMAIN frames', NEW i \in DOMAIN frames'[n]
      PROVE  /\ frames'[n][i] <= stamp'[i]
             /\ \/ frames'[n][i] = stamp'[i]
                \/ i \in dirty'
                \/ \E k \in DOMAIN frames' : k > n /\ i \in DOMAIN frames'[k]
  <2>1. CASE n = z
    BY <1>2, <1>4, <2>1
  <2>2. CASE n \in DOMAIN frames /\ i \in DOMAIN f
    BY <1>1, <1>2, <1>3, <1>5, <2>2 DEF FramesFresh
  <2>3. CASE n \in DOMAIN frames /\ i \notin DOMAIN f
    BY <1>2, <1>3, <1>5, <2>3 DEF FramesFresh
  <2> QED BY <1>2, <2>1, <2>2, <2>3
<1>8. FramesFresh'
  BY <1>6, <1>7 DEF FramesFresh
<1>9. ASSUME NEW i \in Item, Pending(i) \/ stamp'[i] # stamp[i]
      PROVE  Pending(i)'
  <2>1. CASE i \in DOMAIN f
    BY <1>2, <2>1 DEF Pending
  <2>2. CASE i \notin DOMAIN f
    BY <1>2, <1>9, <2>2 DEF Pending
  <2> QED BY <2>1, <2>2
<1> QED BY <1>8, <1>9

(***************************************************************************)
(* The screen, action by action.                                           *)
(***************************************************************************)

\* The queue of frames stays, and what others change is left to the watcher.
LEMMA SameFrames ==
    ASSUME Fits, Fits', FramesFresh, frames' = frames, errors' = errors, dirty \subseteq dirty',
           \A i \in Item : stamp[i] <= stamp'[i],
           \A i \in Item \ dirty' : stamp'[i] = stamp[i]
    PROVE  /\ FramesFresh'
           /\ \A i \in Item : Pending(i) \/ stamp'[i] # stamp[i] => Pending(i)'
<1>1. \A n \in DOMAIN frames : \A i \in DOMAIN frames[n] : i \in Item /\ frames[n][i] \in Int
  <2>1. \A n \in DOMAIN frames : frames[n] \in Frames
    BY DEF Fits, TypeOK
  <2> QED BY <2>1, FrameFacts
<1>2. \A i \in Item : stamp[i] \in Int /\ stamp'[i] \in Int
  BY DEF Fits, TypeOK
<1>3. FramesFresh'
  <2>1. ~Connected' => frames' = <<>>
    BY DEF Connected, FramesFresh
  <2>2. ASSUME NEW n \in DOMAIN frames', NEW i \in DOMAIN frames'[n]
        PROVE  /\ frames'[n][i] <= stamp'[i]
               /\ \/ frames'[n][i] = stamp'[i]
                  \/ i \in dirty'
                  \/ \E k \in DOMAIN frames' : k > n /\ i \in DOMAIN frames'[k]
    BY <1>1, <1>2, <2>2 DEF FramesFresh
  <2> QED BY <2>1, <2>2 DEF FramesFresh
<1>4. \A i \in Item : Pending(i) \/ stamp'[i] # stamp[i] => Pending(i)'
  BY DEF Pending
<1> QED BY <1>3, <1>4

\* A new answer has the rows as they are; a new rollback would have the screen as it is.
NewAnswer == \/ answer' \in {answer, None}
             \/ \A i \in DOMAIN answer'.delta : i \in Item /\ answer'.delta[i] = stamp'[i]
NewRollback == \/ current' = current
               \/ current # Waiting /\ current'.inverse = current.inverse
               \/ \A i \in DOMAIN current'.inverse : i \in Item /\ current'.inverse[i] = view[i]

LEMMA CalmSound ==
    ASSUME Fits, Fits', Calm, ViewBehind, LateSound, NewAnswer, NewRollback
    PROVE  ViewBehind' /\ LateSound'
<1>1. ViewBehind'
  BY CalmView
<1>2. \A i \in Item : stamp'[i] \in Int /\ view'[i] \in Int
  BY DEF Fits, TypeOK
<1>3. ASSUME answer' # None
      PROVE  Late(answer.delta)'
  <2>1. CASE answer' = answer
    <3>1. answer.delta \in Frames /\ Late(answer.delta)
      BY <1>3, <2>1, AnswerFacts DEF Fits, LateSound
    <3>2. \A d : d \in Frames /\ Late(d) => Late(d)'
      BY CalmLate
    <3>3. PICK d : d = answer'.delta
      OBVIOUS
    <3>4. Late(d)'
      BY <2>1, <3>1, <3>2, <3>3
    <3> QED BY <3>3, <3>4 DEF Late
  <2>2. CASE \A i \in DOMAIN answer'.delta : i \in Item /\ answer'.delta[i] = stamp'[i]
    BY <1>2, <2>2 DEF Late
  <2> QED BY <1>3, <2>1, <2>2 DEF NewAnswer
<1>4. ASSUME current' # Waiting
      PROVE  Late(current.inverse)'
  <2>1. CASE current # Waiting /\ current'.inverse = current.inverse
    <3>1. current.inverse \in Frames /\ Late(current.inverse)
      BY <2>1, SendingFacts DEF Fits, LateSound
    <3>2. \A d : d \in Frames /\ Late(d) => Late(d)'
      BY CalmLate
    <3>3. PICK d : d = current'.inverse
      OBVIOUS
    <3>4. Late(d)'
      BY <2>1, <3>1, <3>2, <3>3
    <3> QED BY <3>3, <3>4 DEF Late
  <2>2. CASE \A i \in DOMAIN current'.inverse : i \in Item /\ current'.inverse[i] = view[i]
    BY <1>1, <1>2, <2>2 DEF Late, Calm, ViewBehind
  <2> QED BY <1>4, <2>1, <2>2 DEF NewRollback
<1> QED BY <1>1, <1>3, <1>4 DEF LateSound

\* What is unchanged on the screen is still owned.
LEMMA SameOwner ==
    ASSUME ScreenOwned, UNCHANGED <<view, optimistic, ghosts, skipped>>,
           \/ current' = current
           \/ /\ current # Waiting /\ current' # Waiting
              /\ current'.mutation = current.mutation /\ current'.ifMatch = current.ifMatch
              /\ current'.inverse = current.inverse /\ current'.was = current.was
    PROVE  ScreenOwned'
<1>1. CASE current = Waiting
  <2>1. current' = current
    BY <1>1
  <2> QED BY <1>1, <2>1 DEF ScreenOwned
<1>2. CASE current # Waiting
  <2>1. /\ current' # Waiting
        /\ current'.mutation = current.mutation /\ current'.ifMatch = current.ifMatch
        /\ current'.inverse = current.inverse /\ current'.was = current.was
    BY <1>2
  <2> QED BY <1>2, <2>1 DEF ScreenOwned
<1> QED BY <1>1, <1>2

\* A request is served: its answer and its frame have the rows as they are.
LEMMA ServeScreen ==
    ASSUME Fits, IInv, ScreenInv, Fits', NEW r \in requests, Serve(r)
    PROVE  ScreenInv'
<1> USE DEF ScreenInv
<1>1. UNCHANGED <<dirty, errors, current, view, optimistic, ghosts, stale, skipped>>
  BY DEF Serve, screen
<1>2. stamp' \in [Item -> 0..MaxStamp] /\ \A i \in Item : stamp[i] <= stamp'[i]
  BY ServeDoes DEF StampRises
<1>3. /\ FramesFresh'
      /\ Connected => \A i \in Item : Pending(i) \/ stamp'[i] # stamp[i] => Pending(i)'
      /\ NewAnswer
  <2>1. CASE Commits(r)
    <3>1. PICK items \in SUBSET Item : StampRises(items) /\ Respond(r, items)
      BY <2>1 DEF Commits
    <3> DEFINE f == Restrict(stamp', items)
    <3>2. f \in Frames /\ DOMAIN f = items /\ \A i \in items : f[i] = stamp'[i]
      BY <1>2, RestrictFits, RestrictFacts
    <3>3. IF Connected THEN frames' = Append(frames, f) ELSE frames' = frames
      BY <3>1 DEF Respond, Published
    <3>4. answer' = [result |-> "ok", delta |-> f] \/ answer' = answer
      BY <3>1 DEF Respond, Answer
    <3> HIDE DEF f
    <3>5. \A i \in Item \ DOMAIN f : stamp'[i] = stamp[i] /\ (i \in dirty => i \in dirty')
      BY <1>1, <3>1, <3>2 DEF StampRises
    <3>6. NewAnswer
      <4>1. CASE answer' = [result |-> "ok", delta |-> f]
        <5>1. answer'.delta = f
          BY <4>1
        <5> QED BY <3>2, <5>1 DEF NewAnswer
      <4> QED BY <3>4, <4>1 DEF NewAnswer
    <3>7. CASE Connected
      BY <1>1, <1>2, <3>2, <3>3, <3>5, <3>6, <3>7, AppendFresh
    <3>8. CASE ~Connected
      BY <3>3, <3>6, <3>8 DEF FramesFresh
    <3> QED BY <3>7, <3>8
  <2>2. CASE stamp' = stamp /\ (Refuse(r, "error") \/ Refuse(r, "precondition_failed"))
    <3>1. frames' = frames
      BY <2>2 DEF Refuse
    <3>2. /\ FramesFresh'
          /\ \A i \in Item : Pending(i) \/ stamp'[i] # stamp[i] => Pending(i)'
      BY <1>1, <1>2, <2>2, <3>1, SameFrames
    <3>3. NewAnswer
      <4>1. \/ answer' = answer
            \/ \E x \in {"error", "precondition_failed"} : answer' = [result |-> x, delta |-> <<>>]
        BY <2>2 DEF Refuse, Answer
      <4>2. ASSUME NEW x, answer' = [result |-> x, delta |-> <<>>]
            PROVE  DOMAIN answer'.delta = {}
        BY <4>2
      <4> QED BY <4>1, <4>2 DEF NewAnswer
    <3> QED BY <3>2, <3>3
  <2> QED BY <2>1, <2>2, ServeDoes
<1>4. Calm
  BY <1>1, <1>2, <1>3 DEF Calm, Connected
<1>5. ViewBehind' /\ LateSound'
  BY <1>1, <1>3, <1>4, CalmSound DEF NewRollback
<1>6. ScreenOwned'
  BY <1>1, SameOwner
<1> QED BY <1>3, <1>5, <1>6

\* A request is sent: its rollback would restore what the screen shows now.
LEMMA FireScreen ==
    ASSUME Fits, IInv, ScreenInv, Fits', Fire
    PROVE  ScreenInv'
<1> USE DEF ScreenInv
<1> DEFINE m == Head(queue)
           v == IF m \in Keyed THEN NoVersion ELSE view[Target[m]]
<1>1. /\ current = Waiting /\ answer = None
      /\ stamp \in [Item -> 0..MaxStamp] /\ m \in Mutation
  BY DEF Fire, Fits, TypeOK, IInv, AnswerTrue
<1>2. /\ current' = [step |-> "sent", mutation |-> m, try |-> attempts + 1,
                     ifMatch |-> v, inverse |-> InverseDelta(m), was |-> optimistic]
      /\ Preview(m)
      /\ UNCHANGED <<stamp, answer, frames, dirty, errors, view, stale, skipped>>
  BY DEF Fire, server, stream
<1>3. /\ DOMAIN InverseDelta(m) = Unequal(m) /\ Unequal(m) \subseteq Item
      /\ \A i \in Unequal(m) : InverseDelta(m)[i] = view[i]
  BY <1>1, RestrictFacts, ItemFacts DEF InverseDelta
<1>4. Painted(m) \subseteq Unequal(m) /\ (m \notin Keyed => Target[m] \in Unequal(m))
  BY <1>1, ItemFacts
<1>5. optimistic \subseteq skipped /\ ghosts = {}
  BY <1>1 DEF ScreenOwned
<1> HIDE DEF m, v
<1>6. /\ current' # Waiting
      /\ current'.mutation = m /\ current'.ifMatch = v /\ current'.inverse = InverseDelta(m)
      /\ current'.was = optimistic
  BY <1>2 DEF Waiting
<1>7. FramesFresh' /\ Calm
  <2>1. \A i \in Item : stamp[i] <= stamp'[i]
    BY <1>1, <1>2, ClientBoundsAssumption
  <2>2. FramesFresh' /\ \A i \in Item : Pending(i) \/ stamp'[i] # stamp[i] => Pending(i)'
    BY <1>2, <2>1, SameFrames
  <2> QED BY <1>2, <2>1, <2>2 DEF Calm, Connected
<1>8. ViewBehind' /\ LateSound'
  <2>1. NewAnswer /\ NewRollback
    BY <1>2, <1>3, <1>6 DEF NewAnswer, NewRollback
  <2> QED BY <1>7, <2>1, CalmSound
<1>9. ScreenOwned'
  <2>1. ghosts' \subseteq {m}
    BY <1>2, <1>5 DEF Preview
  <2>2. \A i \in optimistic' \ skipped' : i \in Painted(m) /\ view'[i] = InverseDelta(m)[i]
    BY <1>2, <1>3, <1>4, <1>5 DEF Preview
  <2>3. v = IF m \in Keyed THEN NoVersion ELSE InverseDelta(m)[Target[m]]
    BY <1>3, <1>4 DEF v
  <2> QED BY <1>2, <1>3, <1>4, <1>5, <1>6, <2>1, <2>2, <2>3 DEF ScreenOwned
<1> QED BY <1>7, <1>8, <1>9

\* The user, the network, the watcher and others merge nothing into the screen.
LEMMA RestScreen ==
    ASSUME Fits, IInv, ScreenInv, Fits',
           \/ \E m \in Mutation : Enqueue(m)
           \/ Retry \/ (\E r \in requests : Lose(r)) \/ LoseAnswer \/ Headers
           \/ Watch \/ (\E i \in Item : OthersWrite(i))
    PROVE  ScreenInv'
<1> USE DEF ScreenInv
<1>1. UNCHANGED <<errors, view, optimistic, ghosts, stale, skipped>> /\ answer' \in {answer, None}
  BY DEF Enqueue, Retry, Lose, LoseAnswer, Headers, Watch, OthersWrite, stream, screen
<1>2. \/ current' = current
      \/ /\ current # Waiting /\ current' # Waiting
         /\ current'.mutation = current.mutation /\ current'.ifMatch = current.ifMatch
         /\ current'.inverse = current.inverse /\ current'.was = current.was
  <2>1. CASE Headers
    <3>1. current # Waiting /\ current' = [current EXCEPT !.step = "reading"]
      BY <2>1 DEF Headers, Waiting
    <3>2. current \in Sending
      BY <3>1, SendingFacts DEF Fits
    <3> QED BY <3>1, <3>2 DEF Sending, Waiting
  <2>2. CASE current' = current
    BY <2>2
  <2> QED BY <2>1, <2>2 DEF Enqueue, Retry, Lose, LoseAnswer, Watch, OthersWrite
<1>3. \A i \in Item : stamp[i] \in Int /\ stamp[i] <= stamp[i]
  BY DEF Fits, TypeOK
<1>4. /\ FramesFresh'
      /\ \A i \in Item : stamp[i] <= stamp'[i]
      /\ Connected => \A i \in Item : Pending(i) \/ stamp'[i] # stamp[i] => Pending(i)'
  <2>1. CASE Watch /\ Connected
    <3> DEFINE f == DeltaOf(dirty)
    <3>1. stamp \in [Item -> 0..MaxStamp] /\ dirty \in SUBSET Item
      BY DEF Fits, TypeOK
    <3>2. f \in Frames /\ DOMAIN f = dirty /\ \A i \in dirty : f[i] = stamp[i]
      BY <3>1, RestrictFits, RestrictFacts DEF DeltaOf
    <3>3. frames' = Append(frames, f) /\ stamp' = stamp
      BY <2>1 DEF Watch, server
    <3> HIDE DEF f
    <3> QED BY <1>1, <1>3, <2>1, <3>2, <3>3, AppendFresh
  <2>2. CASE Watch /\ ~Connected
    <3>1. frames' = frames /\ frames = <<>> /\ stamp' = stamp
      BY <2>2 DEF Watch, FramesFresh, server
    <3> QED BY <1>3, <2>2, <3>1 DEF FramesFresh
  <2>3. CASE \E i \in Item : OthersWrite(i)
    <3>1. PICK i \in Item : OthersWrite(i)
      BY <2>3
    <3>2. StampRises({i}) /\ dirty' = dirty \cup {i} /\ frames' = frames
      BY <3>1, OthersRise DEF OthersWrite
    <3> QED BY <1>1, <3>2, SameFrames DEF StampRises
  <2>4. CASE UNCHANGED <<stamp, frames, dirty>>
    BY <1>1, <1>3, <2>4, SameFrames
  <2> QED
    BY <2>1, <2>2, <2>3, <2>4 DEF Enqueue, Retry, Lose, LoseAnswer, Headers, server, stream
<1>5. Calm
  BY <1>1, <1>4 DEF Calm, Connected
<1>6. ViewBehind' /\ LateSound'
  <2>1. NewAnswer /\ NewRollback
    BY <1>1, <1>2 DEF NewAnswer, NewRollback
  <2> QED BY <1>5, <2>1, CalmSound
<1>7. ScreenOwned'
  BY <1>1, <1>2, SameOwner
<1> QED BY <1>4, <1>6, <1>7

\* The connection breaks: the snapshot that comes has news of every item.
LEMMA ErrorScreen ==
    ASSUME Fits, IInv, ScreenInv, Fits', StreamError
    PROVE  ScreenInv'
<1> USE DEF ScreenInv
<1>1. UNCHANGED <<stamp, dirty, view, optimistic, ghosts, stale, skipped, current, answer>>
  BY DEF StreamError, server, screen
<1>2. stamp \in [Item -> 0..MaxStamp] /\ errors \in Int /\ ErrorLimit \in Int
  BY ClientBoundsAssumption DEF Fits, TypeOK
<1>3. IF Connected' THEN frames' = <<stamp>> ELSE frames' = <<>>
  BY <1>2 DEF StreamError, Connected
<1>4. FramesFresh'
  <2>1. CASE Connected'
    <3>1. DOMAIN frames' = {1} /\ frames'[1] = stamp
      BY <1>3, <2>1
    <3> QED BY <1>1, <1>2, <2>1, <3>1 DEF FramesFresh
  <2>2. CASE ~Connected'
    BY <1>3, <2>2 DEF FramesFresh
  <2> QED BY <2>1, <2>2
<1>5. Calm
  <2>1. Connected' => \A i \in Item : Pending(i)'
    <3>1. ASSUME Connected', NEW i \in Item PROVE Pending(i)'
      <4>1. 1 \in DOMAIN frames' /\ i \in DOMAIN frames'[1]
        BY <1>2, <1>3, <3>1
      <4> QED BY <4>1 DEF Pending
    <3> QED BY <3>1
  <2> QED BY <1>1, <1>2, <2>1 DEF Calm, StreamError
<1>6. ViewBehind' /\ LateSound'
  BY <1>1, <1>5, CalmSound DEF NewAnswer, NewRollback
<1>7. ScreenOwned'
  BY <1>1, SameOwner
<1> QED BY <1>4, <1>6, <1>7

\* An answer or a rollback is merged; what it takes back is stale, and the rest was on the
\* screen already, is as the rows are, or has news to come.
LEMMA SettleScreen ==
    ASSUME Fits, IInv, ScreenInv, Fits', Body \/ BodyBreaks \/ Timeout
    PROVE  ScreenInv'
<1> USE DEF ScreenInv
<1> DEFINE m == current.mutation
           back == Stripped(current.inverse, current.ifMatch)
<1>1. /\ current # Waiting /\ m \in Mutation /\ current.inverse \in Frames
      /\ current' = Waiting /\ answer' = None
      /\ UNCHANGED <<stamp, frames, dirty, errors>>
  BY SettleDoes, SendingFacts DEF Settled, server, stream, Fits
<1>2. back \in Frames /\ Late(back)
  <2>1. Late(current.inverse)
    BY <1>1 DEF LateSound
  <2> QED BY <1>1, <2>1, StrippedFacts DEF Late
<1>3. current.was \subseteq skipped /\ ghosts \subseteq {m}
  BY <1>1 DEF ScreenOwned
<1>4. \A i \in optimistic \ DOMAIN back : i \in skipped \cup PassedOver
  <2>1. SUFFICES ASSUME NEW i \in optimistic, i \notin skipped, i \notin DOMAIN back
                 PROVE  i \in PassedOver
    OBVIOUS
  <2>2. /\ i \in Painted(m) /\ i \in DOMAIN current.inverse /\ view[i] = current.inverse[i]
        /\ current.ifMatch = IF m \in Keyed THEN NoVersion ELSE current.inverse[Target[m]]
    BY <1>1, <2>1 DEF ScreenOwned
  <2>3. i \in Item /\ view[i] \in Int
    BY <2>1 DEF Fits, TypeOK
  <2>4. ~(view[i] <= current.ifMatch)
    BY <1>1, <2>1, <2>2, StrippedFacts
  <2>5. m \notin Keyed
    <3>1. back = current.inverse \/ current.ifMatch # NoVersion
      BY DEF Stripped
    <3> QED BY <2>1, <2>2, <3>1
  <2>6. current.ifMatch \in Int /\ i # Target[m]
    <3>1. current.ifMatch \in NoVersion..MaxStamp
      BY <1>1, SendingFacts DEF Fits
    <3> QED BY <2>2, <2>3, <2>4, <2>5, <3>1, ClientBoundsAssumption DEF NoVersion
  <2>7. Kind[m] = "cascade" /\ i \in Selection[m]
    <3>1. Kind[m] \in {"patch", "cascade"}
      BY <1>1, <2>5, ItemFacts DEF Keyed
    <3> QED BY <2>2, <2>6, <3>1 DEF Painted
  <2> QED BY <2>3, <2>4, <2>6, <2>7 DEF PassedOver
<1>5. PICK delta : /\ TakesBack(delta) /\ Late(delta)
                   /\ optimistic' \subseteq skipped'
  <2>1. CASE answer.result = "ok" /\ TakesBack(answer.delta) /\ Answered
    <3>1. answer # None
      BY <2>1 DEF None
    <3>2. optimistic' \subseteq skipped'
      BY <1>1, <2>1 DEF Answered, ScreenOwned
    <3> QED BY <2>1, <3>1, <3>2 DEF LateSound
  <2>2. CASE TakesBack(back) /\ RolledBack(back)
    <3>1. optimistic' \subseteq skipped'
      BY <1>3, <1>4, <2>2 DEF RolledBack
    <3> QED BY <1>2, <2>2, <3>1
  <2> QED BY <2>1, <2>2, SettleDoes DEF Fits
<1>6. /\ delta \in Frames /\ DOMAIN delta \subseteq Item
      /\ \A i \in DOMAIN delta : view'[i] = delta[i] /\ delta[i] \in Int
      /\ \A i \in Item \ DOMAIN delta : view'[i] = view[i]
      /\ stale' = Regressed(delta)
      /\ optimistic' \subseteq skipped' /\ ghosts' = {}
  <2>1. delta \in Frames /\ view' = Merged(delta) /\ view \in [Item -> 0..MaxStamp]
    BY <1>5 DEF TakesBack, Fits, TypeOK
  <2>2. ghosts' = {}
    BY <1>3, <1>5 DEF TakesBack
  <2>3. DOMAIN delta \subseteq Item /\ \A i \in DOMAIN delta : delta[i] \in 0..MaxStamp
    BY <2>1, FrameFacts
  <2> QED BY <1>5, <2>1, <2>2, <2>3, MergedFacts DEF TakesBack
<1> HIDE DEF m, back
<1>7. \A i \in Item : (Pending(i)' <=> Pending(i)) /\ stamp[i] \in Int /\ view[i] \in Int
  BY <1>1 DEF Pending, Fits, TypeOK
<1>8. ViewBehind'
  <2>1. ASSUME NEW i \in Item, i \in DOMAIN delta
        PROVE  /\ view'[i] <= stamp'[i]
               /\ Connected' => i \in stale' \/ Pending(i)' \/ view'[i] = stamp'[i]
    <3>1. /\ view'[i] = delta[i] /\ delta[i] <= stamp[i]
          /\ Connected => delta[i] = stamp[i] \/ Pending(i) \/ delta[i] <= view[i]
      BY <1>5, <1>6, <2>1 DEF Late
    <3>2. CASE delta[i] < view[i]
      <4>1. i \in stale'
        BY <1>6, <2>1, <3>2 DEF Regressed
      <4> QED BY <1>1, <3>1, <4>1
    <3>3. CASE delta[i] > view[i]
      BY <1>1, <1>6, <1>7, <2>1, <3>1, <3>3 DEF Connected
    <3>4. CASE delta[i] = view[i]
      <4>1. i \in stale => i \in stale'
        BY <1>6, <1>7, <2>1, <3>4 DEF Regressed
      <4> QED BY <1>1, <1>7, <3>1, <3>4, <4>1 DEF ViewBehind, Connected
    <3> QED BY <1>6, <1>7, <2>1, <3>2, <3>3, <3>4
  <2>2. ASSUME NEW i \in Item, i \notin DOMAIN delta
        PROVE  /\ view'[i] <= stamp'[i]
               /\ Connected' => i \in stale' \/ Pending(i)' \/ view'[i] = stamp'[i]
    <3>1. view'[i] = view[i] /\ (i \in stale => i \in stale')
      BY <1>6, <2>2 DEF Regressed
    <3> QED BY <1>1, <1>7, <3>1 DEF ViewBehind, Connected
  <2> QED BY <2>1, <2>2 DEF ViewBehind
<1>9. FramesFresh'
  BY <1>1, <1>7, SameFrames
<1>10. LateSound' /\ ScreenOwned'
  BY <1>1, <1>6 DEF LateSound, ScreenOwned
<1> QED BY <1>8, <1>9, <1>10

\* A frame is taken: the rows are shown as they are, or there is more to come.
LEMMA TakeScreen ==
    ASSUME Fits, IInv, ScreenInv, Fits', TakeFrame
    PROVE  ScreenInv'
<1> USE DEF ScreenInv
<1> DEFINE h == Head(frames)
<1>1. /\ frames \in Seq(Frames) /\ frames # <<>>
      /\ stamp \in [Item -> 0..MaxStamp] /\ view \in [Item -> 0..MaxStamp]
      /\ ErrorLimit \in Nat \ {0}
  BY ClientBoundsAssumption DEF TakeFrame, Fits, TypeOK
<1>2. /\ h \in Frames /\ h = frames[1] /\ 1 \in DOMAIN frames
      /\ \A n \in DOMAIN frames' : n \in Nat /\ n + 1 \in DOMAIN frames /\ frames'[n] = frames[n + 1]
      /\ \A n \in DOMAIN frames : n \in Nat /\ (n > 1 => n - 1 \in DOMAIN frames' /\ frames'[n - 1] = frames[n])
      /\ \A n \in DOMAIN frames : n = 1 \/ n > 1
  BY <1>1 DEF TakeFrame
<1>3. /\ UNCHANGED <<stamp, answer, dirty, current>>
      /\ view' = Merged(h) /\ optimistic' = optimistic \ DOMAIN h /\ skipped' = skipped
      /\ ghosts' \subseteq ghosts /\ stale' = stale \ DOMAIN h
      /\ Connected /\ errors' = 0
  BY DEF TakeFrame, ApplyDelta, server
<1>4. DOMAIN h \subseteq Item /\ \A i \in DOMAIN h : h[i] \in 0..MaxStamp
  BY <1>2, FrameFacts
<1>5. /\ \A i \in DOMAIN h : view'[i] = h[i]
      /\ \A i \in Item \ DOMAIN h : view'[i] = view[i]
  BY <1>1, <1>2, <1>3, MergedFacts
<1> HIDE DEF h
<1>6. Connected'
  BY <1>1, <1>3 DEF Connected
<1>7. \A i \in DOMAIN h : h[i] <= stamp[i] /\ (h[i] = stamp[i] \/ Pending(i)')
  <2>1. ASSUME NEW i \in DOMAIN h
        PROVE  /\ h[i] <= stamp[i]
               /\ h[i] = stamp[i] \/ i \in dirty \/ \E k \in DOMAIN frames : k > 1 /\ i \in DOMAIN frames[k]
    BY <1>2, <2>1 DEF FramesFresh
  <2>2. \A k \in DOMAIN frames, i \in Item : k > 1 /\ i \in DOMAIN frames[k] => Pending(i)'
    BY <1>2 DEF Pending
  <2> QED BY <1>3, <1>4, <2>1, <2>2 DEF Pending
<1>8. \A i \in Item \ DOMAIN h : Pending(i) => Pending(i)'
  BY <1>2, <1>3 DEF Pending
<1>9. ViewBehind'
  BY <1>3, <1>5, <1>7, <1>8 DEF ViewBehind
<1>10. FramesFresh'
  <2>1. ASSUME NEW n \in DOMAIN frames', NEW i \in DOMAIN frames'[n]
        PROVE  /\ frames'[n][i] <= stamp'[i]
               /\ \/ frames'[n][i] = stamp'[i]
                  \/ i \in dirty'
                  \/ \E k \in DOMAIN frames' : k > n /\ i \in DOMAIN frames'[k]
    <3>1. n + 1 \in DOMAIN frames /\ frames'[n] = frames[n + 1] /\ n \in Nat
      BY <1>2
    <3>2. /\ frames[n + 1][i] <= stamp[i]
          /\ \/ frames[n + 1][i] = stamp[i]
             \/ i \in dirty
             \/ \E k \in DOMAIN frames : k > n + 1 /\ i \in DOMAIN frames[k]
      BY <2>1, <3>1 DEF FramesFresh
    <3>3. ASSUME NEW k \in DOMAIN frames, k > n + 1, i \in DOMAIN frames[k]
          PROVE  \E j \in DOMAIN frames' : j > n /\ i \in DOMAIN frames'[j]
      <4>1. k \in Nat /\ k > 1 /\ k - 1 > n
        BY <1>2, <3>1, <3>3
      <4>2. k - 1 \in DOMAIN frames' /\ frames'[k - 1] = frames[k]
        BY <1>2, <4>1
      <4> QED BY <3>3, <4>1, <4>2
    <3> QED BY <1>3, <3>1, <3>2, <3>3
  <2> QED BY <1>6, <2>1 DEF FramesFresh
<1>11. \A d : d \in Frames /\ Late(d) => Late(d)'
  <2>1. ASSUME NEW d, d \in Frames, Late(d), NEW i \in DOMAIN d
        PROVE  d[i] <= stamp'[i] /\ (d[i] = stamp'[i] \/ Pending(i)' \/ d[i] <= view'[i])
    <3>1. i \in Item /\ d[i] <= stamp[i]
      BY <2>1, FrameFacts DEF Late
    <3> QED BY <1>3, <1>5, <1>7, <1>8, <2>1, <3>1 DEF Late
  <2> QED BY <2>1 DEF Late
<1>12. LateSound'
  <2>1. ASSUME answer' # None
        PROVE  Late(answer.delta)'
    <3>1. answer.delta \in Frames /\ Late(answer.delta)
      BY <1>3, <2>1, AnswerFacts DEF Fits, LateSound
    <3>2. PICK d : d = answer'.delta
      OBVIOUS
    <3>3. Late(d)'
      BY <1>3, <1>11, <3>1, <3>2
    <3> QED BY <3>2, <3>3 DEF Late
  <2>2. ASSUME current' # Waiting
        PROVE  Late(current.inverse)'
    <3>1. current.inverse \in Frames /\ Late(current.inverse)
      BY <1>3, <2>2, SendingFacts DEF Fits, LateSound
    <3>2. PICK d : d = current'.inverse
      OBVIOUS
    <3>3. Late(d)'
      BY <1>3, <1>11, <3>1, <3>2
    <3> QED BY <3>2, <3>3 DEF Late
  <2> QED BY <2>1, <2>2 DEF LateSound
<1>13. ScreenOwned'
  <2>1. \A i \in optimistic' : i \in optimistic /\ view'[i] = view[i]
    BY <1>3, <1>5 DEF Fits, TypeOK
  <2> QED BY <1>3, <2>1 DEF ScreenOwned
<1> QED BY <1>9, <1>10, <1>12, <1>13

Inv == Fits /\ IInv /\ ScreenInv

LEMMA InitInv == Init => Inv
  BY InitFits, InitIInv, InitScreen DEF Inv

LEMMA NextKeepsInv == Inv /\ [Next]_vars => Inv'
<1> SUFFICES ASSUME Inv, [Next]_vars PROVE Inv'
  OBVIOUS
<1>1. Fits' /\ IInv'
  BY NextFits, NextKeepsIInv DEF Inv
<1>2. CASE UNCHANGED vars
  BY <1>1, <1>2 DEF vars, server, stream, screen, Inv, ScreenInv, ViewBehind, FramesFresh, LateSound,
                    ScreenOwned, Late, Pending, Connected
<1>3. CASE Next
  BY <1>1, <1>3, ServeScreen, FireScreen, SettleScreen, TakeScreen, RestScreen, ErrorScreen
     DEF Next, Network, Tab, Inv
<1> QED BY <1>2, <1>3

\* Between two mutations nothing optimistic is left but rows that the rollback of a cascade
\* passed over because their version was above the epic's; and once all is quiet the tab
\* shows the rows, whatever order the answers, the frames, the reconnects and the rollbacks
\* came in, except those and what an answer or a rollback took back (store.js, api.js,
\* utils.js).
THEOREM QuietTabAgrees == Spec => []QuietAgrees
<1>1. Inv => QuietAgrees
  <2> SUFFICES ASSUME Inv PROVE QuietAgrees
    OBVIOUS
  <2>1. current = Waiting => ghosts = {} /\ optimistic \subseteq skipped
    BY DEF Inv, ScreenInv, ScreenOwned
  <2>2. ASSUME Connected, frames = <<>>, dirty = {}, NEW i \in Item \ stale
        PROVE  view[i] = stamp[i]
    <3>1. ~Pending(i)
      BY <2>2 DEF Pending
    <3> QED BY <2>2, <3>1 DEF Inv, ScreenInv, ViewBehind
  <2> QED BY <2>1, <2>2 DEF QuietAgrees
<1> QED BY <1>1, InitInv, NextKeepsInv, PTL DEF Spec

\* A step that ends the request in flight without success is a rollback.
LEMMA OwnRowStep ==
    ASSUME Inv, [Next]_vars, Failing, current.mutation \notin Keyed
    PROVE  view'[Target[current.mutation]] >= view[Target[current.mutation]]
<1> DEFINE i == Target[current.mutation]
           back == Stripped(current.inverse, current.ifMatch)
<1>1. current # Waiting /\ current' = Waiting /\ notice' # "saved" /\ TypeOK
  BY DEF Failing, Inv, Fits
<1>2. Body \/ BodyBreaks \/ Timeout
  <2>1. CASE Headers
    <3>1. current \in Sending /\ current' = [current EXCEPT !.step = "reading"]
      BY <1>1, <2>1, SendingFacts DEF Headers
    <3> QED BY <1>1, <3>1 DEF Sending, Waiting
  <2> QED
    BY <1>1, <2>1 DEF Next, Network, Tab, Enqueue, Retry, Serve, Lose, LoseAnswer, Fire, TakeFrame,
                      StreamError, Watch, OthersWrite, vars
<1>3. TakesBack(back)
  BY <1>1, <1>2, SettleDoes
<1>4. /\ i \in Item /\ view \in [Item -> 0..MaxStamp] /\ current.inverse \in Frames
      /\ i \in DOMAIN current.inverse /\ current.ifMatch = current.inverse[i]
  <2>1. current.mutation \in Mutation /\ current.inverse \in Frames
    BY <1>1, SendingFacts
  <2> QED BY <1>1, <2>1, ItemFacts DEF Inv, ScreenInv, ScreenOwned, TypeOK
<1>5. current.inverse[i] \in 0..MaxStamp /\ current.ifMatch # NoVersion
  BY <1>4, FrameFacts, ClientBoundsAssumption DEF NoVersion
<1>6. i \in DOMAIN back => back[i] = current.inverse[i] /\ view[i] <= current.ifMatch
  BY <1>4, <1>5, StrippedFacts
<1>7. view' = Merged(back) /\ back \in Frames
  BY <1>3 DEF TakesBack
<1>8. view[i] \in 0..MaxStamp
  BY <1>4
<1> HIDE DEF i, back
<1>9. view'[i] >= view[i]
  <2>1. CASE i \in DOMAIN back
    BY <1>4, <1>5, <1>6, <1>7, <1>8, <2>1, MergedFacts
  <2>2. CASE i \notin DOMAIN back
    BY <1>4, <1>7, <1>8, <2>2, MergedFacts
  <2> QED BY <2>1, <2>2
<1> QED BY <1>9 DEF i

\* The rollback of a failed edit or cascade never takes the row whose version was sent, the
\* edited one or the epic, back behind a newer state that the stream brought (computeInverseDelta, stripUpToDateEntitiesFromInverse, processNext).
THEOREM RollbackSparesOwnRow == Spec => OwnRowKept
<1> DEFINE A == (Failing /\ current.mutation \notin Keyed) =>
                    view'[Target[current.mutation]] >= view[Target[current.mutation]]
<1>1. Inv /\ [Next]_vars => [A]_vars
  BY OwnRowStep
<1>2. Spec => [][A]_vars
  BY <1>1, InitInv, NextKeepsInv, PTL DEF Spec
<1> QED BY <1>2 DEF OwnRowKept
=============================================================================
