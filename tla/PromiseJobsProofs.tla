------------------------- MODULE PromiseJobsProofs --------------------------
(***************************************************************************)
(* Theorems about PromiseJobs, for any set of promises and values.          *)
(*                                                                          *)
(* The invariants TLC checks are not inductive on their own: a job that is  *)
(* finished settles or links its derived promise, so the proof has to know  *)
(* which jobs have one (WFJob, WFEntry), and a job made from a settled      *)
(* promise copies its value, so the proof has to know that a settled        *)
(* promise has one (HeapInv).  That no promise is owed twice needs DutyInv: *)
(* what is owed is allocated, so that then() cannot owe it again.           *)
(*                                                                          *)
(* In order: IInv and what follows from it; DutyInv and OneDuty; the        *)
(* refinement of PromiseContract; the fate of a duty.                       *)
(***************************************************************************)
EXTENDS PromiseJobs, SequenceTheorems, TLAPS

\* An entry made by then() has a derived promise and no bound closure, one
\* made by promise_chain has the two closures and its promise is ignored.
WFEntry ==
  {e \in Entry :
     /\ \A side \in Side : e[side].side = side
     /\ IF e.next = Ignored
        THEN /\ e.fulfilled.target \in Promise
             /\ \A side \in Side : /\ e[side].kind = "settle"
                                   /\ e[side].target = e.fulfilled.target
        ELSE \A side \in Side : e[side].kind \in {"nil", "user"}}

WFJob ==
  {j \in Job : IF j.next = Ignored
               THEN j.fn.kind = "settle" /\ j.fn.target \in Promise
               ELSE j.fn.kind \in {"nil", "user"}}

GoodJob == {j \in WFJob : CarriesOutcome(j)}

BornValue == {v \in Value : v \in Promise => Born(v)}

HeapInv ==
  /\ state \in [Promise -> {"unborn", "pending"} \cup Side]
  /\ value \in [Promise -> Value \cup {NoValue}]
  /\ thenList \in [Promise -> Seq(WFEntry)]
  /\ \A p \in Promise : Settled(p) => value[p] \in BornValue
  /\ NoStrandedReaction

IInv ==
  /\ HeapInv
  /\ queue \in Seq(GoodJob)
  /\ phase \in {"main", "jobs", "exited"}
  /\ running \in GoodJob \cup {NoJob}
  /\ running # NoJob => running.fn.kind = "user"

-----------------------------------------------------------------------------
(* A job made for an entry of s, with the outcome s has, is a good one.     *)
LEMMA JobForIsWF ==
  ASSUME NEW e \in WFEntry, NEW s \in Promise, NEW v \in Value, NEW side \in Side
  PROVE  /\ JobFor(e, s, v, side) \in WFJob
         /\ JobFor(e, s, v, side).fn.side = side
         /\ JobFor(e, s, v, side).src = s
         /\ JobFor(e, s, v, side).value = v
         /\ JobFor(e, s, v, side).side = side
<1>1. e \in Entry /\ e[side] \in Handler /\ e.next \in Promise \cup {Ignored}
  BY DEF WFEntry, Entry, Side
<1>2. JobFor(e, s, v, side) \in Job
  BY <1>1 DEF JobFor, Job
<1>3. CASE e.next = Ignored
  <2>1. e[side].kind = "settle" /\ e[side].target \in Promise /\ e[side].side = side
    BY <1>3 DEF WFEntry
  <2>2. QED
    BY <1>2, <1>3, <2>1 DEF JobFor, WFJob
<1>4. CASE e.next # Ignored
  <2>1. e[side].kind \in {"nil", "user"} /\ e[side].side = side
    BY <1>4 DEF WFEntry
  <2>2. QED
    BY <1>2, <1>4, <2>1 DEF JobFor, WFJob
<1>5. QED
  BY <1>3, <1>4

\* Settled promises keep their outcome, so a good job remains good.
Kept == \A p \in Promise :
          Settled(p) => state'[p] = state[p] /\ value'[p] = value[p]

(* A job stays good while settled promises keep their outcome.              *)
LEMMA GoodJobStable ==
  ASSUME Kept
  PROVE  GoodJob \subseteq GoodJob'
BY DEF Kept, GoodJob, WFJob, Job, CarriesOutcome, Settled

(* promise_resolve: the jobs it queues carry the outcome it sets.           *)
LEMMA ResolveStep ==
  ASSUME HeapInv, NEW jobs \in Seq(GoodJob),
         NEW p \in Promise, NEW v \in BornValue, NEW side \in Side,
         PromiseResolve(jobs, p, v, side)
  PROVE  HeapInv' /\ Kept /\ queue' \in Seq(GoodJob')
<1>1. CASE state[p] = "pending"
  <2>1. /\ state' = [state EXCEPT ![p] = side]
        /\ value' = [value EXCEPT ![p] = v]
        /\ thenList' = [thenList EXCEPT ![p] = <<>>]
        /\ queue' = jobs \o [i \in 1..Len(thenList[p]) |->
                               JobFor(thenList[p][i], p, v, side)]
    BY <1>1 DEF PromiseResolve, Reactions
  <2>2. HeapInv'
    BY <2>1 DEF HeapInv, NoStrandedReaction, Settled, Side, BornValue, Born
  <2>3. Kept
    BY <1>1, <2>1 DEF Kept, Settled, Side
  <2>4. jobs \in Seq(GoodJob')
    BY <2>3, GoodJobStable, SeqMonotonic
  <2>5. thenList[p] \in Seq(WFEntry) /\ Len(thenList[p]) \in Nat
    BY LenProperties DEF HeapInv
  <2>6. \A i \in 1..Len(thenList[p]) : JobFor(thenList[p][i], p, v, side) \in GoodJob'
    <3> SUFFICES ASSUME NEW i \in 1..Len(thenList[p])
                 PROVE  JobFor(thenList[p][i], p, v, side) \in GoodJob'
      OBVIOUS
    <3>1. thenList[p][i] \in WFEntry
      BY <2>5, ElementOfSeq
    <3>2. state'[p] = side /\ value'[p] = v
      BY <2>1 DEF HeapInv
    <3>3. v \in Value
      BY DEF BornValue
    <3>4. QED
      BY <3>1, <3>2, <3>3, JobForIsWF DEF GoodJob, CarriesOutcome, WFJob, Job
  <2>7. [i \in 1..Len(thenList[p]) |-> JobFor(thenList[p][i], p, v, side)]
          \in Seq(GoodJob')
    BY <2>5, <2>6, IsASeq
  <2>8. QED
    BY <2>1, <2>2, <2>3, <2>4, <2>7, ConcatProperties
<1>2. CASE state[p] # "pending"
  BY <1>2, GoodJobStable, SeqMonotonic
  DEF PromiseResolve, Reactions, Kept, HeapInv, NoStrandedReaction, Settled, BornValue, Born
<1>3. QED
  BY <1>1, <1>2

(* promise_then on a promise s that exists already.                         *)
LEMMA ThenStep ==
  ASSUME HeapInv, Kept, NEW jobs \in Seq(GoodJob),
         NEW s \in Promise, Born(s), NEW e \in WFEntry,
         PromiseThen(jobs, s, e)
  PROVE  /\ thenList' \in [Promise -> Seq(WFEntry)]
         /\ \A p \in Promise : thenList'[p] # <<>> => state[p] = "pending"
         /\ queue' \in Seq(GoodJob')
<1>1. jobs \in Seq(GoodJob')
  BY GoodJobStable, SeqMonotonic
<1>2. CASE Settled(s)
  <2>1. JobFor(e, s, value[s], state[s]) \in GoodJob'
    BY <1>2, JobForIsWF DEF HeapInv, Kept, Settled, GoodJob, CarriesOutcome, BornValue
  <2>2. thenList' = thenList /\ queue' = Append(jobs, JobFor(e, s, value[s], state[s]))
    BY <1>2 DEF PromiseThen
  <2>3. queue' \in Seq(GoodJob')
    BY <1>1, <2>1, <2>2, AppendProperties
  <2>4. QED
    BY <2>2, <2>3 DEF HeapInv, NoStrandedReaction
<1>3. CASE ~Settled(s)
  <2>1. state[s] = "pending"
    BY <1>3 DEF HeapInv, Settled, Born, Side
  <2>2. <<e>> \o thenList[s] \in Seq(WFEntry)
    BY ConcatProperties DEF HeapInv
  <2>3. QED
    BY <1>1, <1>3, <2>1, <2>2 DEF PromiseThen, HeapInv, NoStrandedReaction
<1>4. QED
  BY <1>2, <1>3

(* The end of a job: its result, plain or a promise, meets its promise.     *)
LEMMA FinishStep ==
  ASSUME HeapInv, NEW jobs \in Seq(GoodJob),
         NEW t \in Promise, NEW v \in BornValue, NEW side \in Side,
         FinishJob(jobs, t, v, side)
  PROVE  HeapInv' /\ Kept /\ queue' \in Seq(GoodJob')
<1>1. CASE v \notin Promise
  BY <1>1, ResolveStep DEF FinishJob
<1>2. CASE v \in Promise /\ v = t
  BY <1>2, GoodJobStable, SeqMonotonic
  DEF FinishJob, PromiseChain, Kept, HeapInv, NoStrandedReaction, Settled, BornValue, Born
<1>3. CASE v \in Promise /\ v # t
  <2> DEFINE link ==
        [fulfilled |-> [kind |-> "settle", side |-> "fulfilled", target |-> t],
         rejected  |-> [kind |-> "settle", side |-> "rejected", target |-> t],
         next      |-> Ignored]
  <2>1. link \in WFEntry
    BY DEF WFEntry, Entry, Handler, Side
  <2>2. UNCHANGED <<state, value>> /\ PromiseThen(jobs, v, link)
    BY <1>3 DEF FinishJob, PromiseChain
  <2>3. Kept
    BY <2>2 DEF Kept
  <2> HIDE DEF link
  <2>4. QED
    BY <1>3, <2>1, <2>2, <2>3, ThenStep
    DEF HeapInv, NoStrandedReaction, Settled, BornValue, Born
<1>4. QED
  BY <1>1, <1>2, <1>3

-----------------------------------------------------------------------------
(* Nothing is allocated or queued at first.                                 *)
LEMMA InitIInv == Init => IInv
<1> SUFFICES ASSUME Init PROVE IInv
  OBVIOUS
<1>1. HeapInv
  BY EmptySeq DEF Init, HeapInv, NoStrandedReaction, Settled, Side, NoValue
<1>2. QED
  BY <1>1, EmptySeq DEF Init, IInv

(* The head of the queue is a good job, and so is every job behind it.      *)
LEMMA HeadIsGood ==
  ASSUME IInv, queue # <<>>
  PROVE  /\ Head(queue) \in GoodJob
         /\ Tail(queue) \in Seq(GoodJob)
         /\ Head(queue).value \in BornValue
         /\ Head(queue).side \in Side
<1>1. Head(queue) \in GoodJob /\ Tail(queue) \in Seq(GoodJob)
  BY HeadTailProperties DEF IInv
<1>2. QED
  BY <1>1 DEF IInv, HeapInv, GoodJob, WFJob, Job, CarriesOutcome, Settled

(***************************************************************************)
(* Every step keeps IInv, and keeps what settled promises were settled to.  *)
(***************************************************************************)
LEMMA StepIInv == IInv /\ [Next]_vars => IInv' /\ Kept
<1> SUFFICES ASSUME IInv, [Next]_vars PROVE IInv' /\ Kept
  OBVIOUS
<1>1. ASSUME NEW p \in Promise, Alloc(p) PROVE IInv' /\ Kept
  <2>1. Kept
    BY <1>1 DEF Alloc, Kept, IInv, HeapInv, Settled, Born, Side
  <2>2. HeapInv'
    BY <1>1 DEF Alloc, IInv, HeapInv, NoStrandedReaction, Settled, Side, BornValue, Born
  <2>3. QED
    BY <1>1, <2>1, <2>2, GoodJobStable, SeqMonotonic DEF Alloc, IInv
<1>2. ASSUME NEW s \in Promise, NEW t \in Promise,
             NEW f \in HandlerChoice, NEW r \in HandlerChoice, Then(s, t, f, r)
      PROVE  IInv' /\ Kept
  <2> DEFINE e ==
        [fulfilled |-> [kind |-> f, side |-> "fulfilled", target |-> Ignored],
         rejected  |-> [kind |-> r, side |-> "rejected", target |-> Ignored],
         next      |-> t]
  <2>1. e \in WFEntry
    BY IgnoredIsNew DEF WFEntry, Entry, Handler, Side, HandlerChoice
  <2>2. /\ Born(s) /\ ~Born(t) /\ state' = [state EXCEPT ![t] = "pending"]
        /\ PromiseThen(queue, s, e) /\ UNCHANGED <<value, phase, running>>
    BY <1>2 DEF Then
  <2> HIDE DEF e
  <2>3. Kept
    BY <2>2 DEF Kept, IInv, HeapInv, Settled, Born, Side
  <2>4. /\ thenList' \in [Promise -> Seq(WFEntry)]
        /\ \A p \in Promise : thenList'[p] # <<>> => state[p] = "pending"
        /\ queue' \in Seq(GoodJob')
    BY <2>1, <2>2, <2>3, ThenStep DEF IInv
  <2>5. HeapInv'
    BY <2>2, <2>4
    DEF IInv, HeapInv, NoStrandedReaction, Settled, Side, BornValue, Born
  <2>6. QED
    BY <2>2, <2>3, <2>4, <2>5, GoodJobStable DEF IInv
<1>3. ASSUME NEW p \in Promise, NEW v \in Passed, NEW side \in Side, Resolve(p, v, side)
      PROVE  IInv' /\ Kept
  <2>1. v \in BornValue
    BY <1>3, PassedAreValues DEF Resolve, BornValue, Value
  <2>2. PromiseResolve(queue, p, v, side) /\ UNCHANGED <<phase, running>>
    BY <1>3 DEF Resolve
  <2>3. HeapInv' /\ Kept /\ queue' \in Seq(GoodJob')
    BY <2>1, <2>2, ResolveStep DEF IInv
  <2>4. QED
    BY <2>2, <2>3, GoodJobStable DEF IInv
<1>4. CASE RunForward
  <2> DEFINE job == Head(queue)
  <2>1. queue # <<>> /\ job.fn.kind = "nil" /\ UNCHANGED <<phase, running>>
    BY <1>4 DEF RunForward, NextJob
  <2>2. FinishJob(Tail(queue), job.next, job.value, job.side)
    BY <1>4 DEF RunForward
  <2>3. /\ job \in GoodJob /\ Tail(queue) \in Seq(GoodJob)
        /\ job.value \in BornValue /\ job.side \in Side
    BY <2>1, HeadIsGood
  <2>4. job.next \in Promise
    BY <2>1, <2>3 DEF GoodJob, WFJob, Job
  <2>5. HeapInv' /\ Kept /\ queue' \in Seq(GoodJob')
    <3> HIDE DEF job
    <3>1. HeapInv
      BY DEF IInv
    <3>2. QED
      BY <2>2, <2>3, <2>4, <3>1, FinishStep
  <2>6. QED
    BY <2>1, <2>5, GoodJobStable DEF IInv
<1>5. CASE RunSettle
  <2> DEFINE job == Head(queue)
  <2>1. queue # <<>> /\ job.fn.kind = "settle" /\ UNCHANGED <<phase, running>>
    BY <1>5 DEF RunSettle, NextJob
  <2>2. PromiseResolve(Tail(queue), job.fn.target, job.value, job.fn.side)
    BY <1>5 DEF RunSettle
  <2>3. /\ job \in GoodJob /\ Tail(queue) \in Seq(GoodJob)
        /\ job.value \in BornValue /\ job.side \in Side
    BY <2>1, HeadIsGood
  <2>4. job.fn.target \in Promise /\ job.fn.side \in Side
    BY <2>1, <2>3 DEF GoodJob, WFJob, Job, CarriesOutcome
  <2>5. HeapInv' /\ Kept /\ queue' \in Seq(GoodJob')
    <3> HIDE DEF job
    <3>1. HeapInv
      BY DEF IInv
    <3>2. QED
      BY <2>2, <2>3, <2>4, <3>1, ResolveStep
  <2>6. QED
    BY <2>1, <2>5, GoodJobStable DEF IInv
<1>6. CASE CallbackStarts
  <2>1. Kept
    BY <1>6 DEF CallbackStarts, Kept
  <2>2. queue # <<>> /\ Head(queue).fn.kind = "user"
    BY <1>6 DEF CallbackStarts, NextJob
  <2>3. Head(queue) \in GoodJob /\ Tail(queue) \in Seq(GoodJob)
    BY <2>2, HeadIsGood
  <2>4. HeapInv'
    BY <1>6 DEF CallbackStarts, IInv, HeapInv, NoStrandedReaction, Settled, BornValue, Born
  <2>5. QED
    BY <1>6, <2>1, <2>2, <2>3, <2>4, GoodJobStable, SeqMonotonic DEF CallbackStarts, IInv
<1>7. ASSUME NEW v \in Value, NEW side \in Side, running # NoJob,
             v \in Promise => Born(v),
             FinishJob(queue, running.next, v, side),
             running' = NoJob, UNCHANGED phase
      PROVE  IInv' /\ Kept
  <2>1. running.next \in Promise
    BY <1>7 DEF IInv, GoodJob, WFJob, Job
  <2>2. HeapInv' /\ Kept /\ queue' \in Seq(GoodJob')
    BY <1>7, <2>1, FinishStep DEF IInv, BornValue
  <2>3. QED
    BY <1>7, <2>2 DEF IInv
<1>8. CASE CallbackEnds
  <2>1. ASSUME NEW v \in Value, CallbackReturns(v) PROVE IInv' /\ Kept
    BY <1>7, <2>1 DEF CallbackReturns, Side
  <2>2. ASSUME NEW v \in Plain, CallbackThrows(v) PROVE IInv' /\ Kept
    BY <1>7, <2>2, PlainIsNotPromise DEF CallbackThrows, Side, Value
  <2>3. QED
    BY <1>8, <2>1, <2>2 DEF CallbackEnds
<1>9. CASE UNCHANGED <<state, value, thenList, queue, running>> /\ phase' \in {"main", "jobs", "exited"}
  <2>1. Kept
    BY <1>9 DEF Kept
  <2>2. HeapInv'
    BY <1>9 DEF IInv, HeapInv, NoStrandedReaction, Settled, BornValue, Born
  <2>3. QED
    BY <1>9, <2>1, <2>2, GoodJobStable, SeqMonotonic DEF IInv
<1>10. CASE MainReturns \/ Exit \/ UNCHANGED vars
  BY <1>9, <1>10 DEF MainReturns, Exit, vars, IInv
<1>11. QED
  BY <1>1, <1>2, <1>3, <1>4, <1>5, <1>6, <1>8, <1>10 DEF Next, RunJob, Exited

-----------------------------------------------------------------------------
(***************************************************************************)
(* The strengthened invariant holds in every reachable state.               *)
(***************************************************************************)
THEOREM Invariance == Spec => []IInv
BY InitIInv, StepIInv, PTL DEF Spec

(***************************************************************************)
(* Type correctness of the heap, the queue and the running job.             *)
(***************************************************************************)
THEOREM TypeCorrect == Spec => []TypeOK
<1>1. IInv => TypeOK
  <2> SUFFICES ASSUME IInv PROVE TypeOK
    OBVIOUS
  <2>1. WFEntry \subseteq Entry /\ GoodJob \subseteq Job
    BY DEF WFEntry, GoodJob, WFJob
  <2>2. queue \in Seq(Job) /\ \A p \in Promise : thenList[p] \in Seq(Entry)
    BY <2>1, SeqMonotonic DEF IInv, HeapInv
  <2>3. thenList \in [Promise -> Seq(Entry)]
    BY <2>2 DEF IInv, HeapInv
  <2>4. QED
    BY <2>1, <2>2, <2>3 DEF IInv, HeapInv, TypeOK
<1>2. QED
  BY <1>1, Invariance, PTL

(***************************************************************************)
(* A then_list is empty once its promise is settled (promise_then and       *)
(* promise_resolve together strand no reaction).                            *)
(***************************************************************************)
THEOREM NoneStranded == Spec => []NoStrandedReaction
<1>1. IInv => NoStrandedReaction
  BY DEF IInv, HeapInv
<1>2. QED
  BY <1>1, Invariance, PTL

(***************************************************************************)
(* Queued and running jobs carry the outcome of the promise they come from  *)
(* and the handler given for that outcome (run_promise_jobs never calls     *)
(* on_rejected for a fulfilled promise, nor with another value).            *)
(***************************************************************************)
THEOREM OutcomeCarried == Spec => []JobsCarryOutcome
<1>1. IInv => JobsCarryOutcome
  <2> SUFFICES ASSUME IInv PROVE JobsCarryOutcome
    OBVIOUS
  <2>1. ASSUME NEW i \in DOMAIN queue PROVE CarriesOutcome(queue[i])
    <3>1. queue[i] \in GoodJob
      BY ElementOfSeq, LenProperties DEF IInv
    <3>2. QED
      BY <3>1 DEF GoodJob
  <2>2. running # NoJob => CarriesOutcome(running)
    BY DEF IInv, GoodJob
  <2>3. QED
    BY <2>1, <2>2 DEF JobsCarryOutcome
<1>2. QED
  BY <1>1, Invariance, PTL

(***************************************************************************)
(* Promises are settled at most once (promise_resolve, by whomever called). *)
(***************************************************************************)
THEOREM SettledOnce == Spec => SettleOnce
<1>1. IInv /\ [Next]_vars =>
        [\A p \in Promise :
           Settled(p) => state'[p] = state[p] /\ value'[p] = value[p]]_vars
  BY StepIInv DEF Kept
<1>2. QED
  BY <1>1, Invariance, PTL DEF Spec, SettleOnce

-----------------------------------------------------------------------------
(***************************************************************************)
(* Who owes what.  OneDuty is proved over the parts of a state instead of   *)
(* its places: the then_lists L, the jobs Q still queued, and the promises  *)
(* R owed by a job that has left the queue (it is running, or being         *)
(* finished).  Each function of promise.c moves duties between the three.   *)
(* B, the promises allocated so far, is there because then() owes a promise *)
(* that was not allocated before, and so was not owed by anybody.           *)
(***************************************************************************)
Apart(L, Q, R) ==
  /\ \A s, u \in Promise : \A i \in 1..Len(L[s]), j \in 1..Len(L[u]) :
       DutyOf(L[s][i]) = DutyOf(L[u][j]) => s = u /\ i = j
  /\ \A i, j \in 1..Len(Q) : DutyOfJob(Q[i]) = DutyOfJob(Q[j]) => i = j
  /\ \A s \in Promise : \A i \in 1..Len(L[s]), j \in 1..Len(Q) :
       DutyOf(L[s][i]) # DutyOfJob(Q[j])
  /\ \A s \in Promise : \A i \in 1..Len(L[s]) : DutyOf(L[s][i]) \notin R
  /\ \A j \in 1..Len(Q) : DutyOfJob(Q[j]) \notin R

OwesOnly(L, Q, R, B) ==
  /\ \A s \in Promise : \A i \in 1..Len(L[s]) : DutyOf(L[s][i]) \in B
  /\ \A j \in 1..Len(Q) : DutyOfJob(Q[j]) \in B
  /\ R \subseteq B

OneEach(L, Q, R, B) == Apart(L, Q, R) /\ OwesOnly(L, Q, R, B)

AllBorn == {p \in Promise : Born(p)}
InHand  == IF running = NoJob THEN {} ELSE {DutyOfJob(running)}

\* The strengthening of OneDuty that every step keeps.
DutyInv == OneEach(thenList, queue, InHand, AllBorn)

Lists == [Promise -> Seq(WFEntry)]

\* The entry of promise_chain, and the one of then().
LinkTo(t) ==
  [fulfilled |-> [kind |-> "settle", side |-> "fulfilled", target |-> t],
   rejected  |-> [kind |-> "settle", side |-> "rejected", target |-> t],
   next      |-> Ignored]

HandlerEntry(f, r, t) ==
  [fulfilled |-> [kind |-> f, side |-> "fulfilled", target |-> Ignored],
   rejected  |-> [kind |-> r, side |-> "rejected", target |-> Ignored],
   next      |-> t]

LEMMA LinkToIsWF ==
  ASSUME NEW t \in Promise
  PROVE  LinkTo(t) \in WFEntry /\ DutyOf(LinkTo(t)) = t
BY DEF LinkTo, DutyOf, WFEntry, Entry, Handler, Side

LEMMA HandlerEntryIsWF ==
  ASSUME NEW t \in Promise, NEW f \in HandlerChoice, NEW r \in HandlerChoice
  PROVE  HandlerEntry(f, r, t) \in WFEntry /\ DutyOf(HandlerEntry(f, r, t)) = t
BY IgnoredIsNew DEF HandlerEntry, HandlerChoice, DutyOf, WFEntry, Entry, Handler, Side

(* A job owes what the entry it was made for owed.                          *)
LEMMA DutyOfJobFor ==
  ASSUME NEW e \in WFEntry, NEW s \in Promise, NEW v \in Value, NEW side \in Side
  PROVE  DutyOfJob(JobFor(e, s, v, side)) = DutyOf(e)
<1>1. JobFor(e, s, v, side).next = e.next /\ JobFor(e, s, v, side).fn = e[side]
  BY DEF JobFor
<1>2. e.next = Ignored => e[side].target = e.fulfilled.target
  BY DEF WFEntry
<1>3. QED
  BY <1>1, <1>2 DEF DutyOf, DutyOfJob

(* A duty that leaves the queue is in hand.                                 *)
LEMMA TakeHead ==
  ASSUME NEW L \in Lists, NEW Q \in Seq(WFJob), NEW B,
         Q # <<>>, OneEach(L, Q, {}, B)
  PROVE  OneEach(L, Tail(Q), {DutyOfJob(Head(Q))}, B)
<1>1. /\ Len(Tail(Q)) = Len(Q) - 1 /\ Len(Q) \in Nat \ {0}
      /\ \A i \in 1..Len(Tail(Q)) : Tail(Q)[i] = Q[i+1]
      /\ Head(Q) = Q[1]
  BY EmptySeq, HeadTailProperties
<1> DEFINE T == Tail(Q)
<1>2. /\ \A i \in 1..Len(T) : i + 1 \in 1..Len(Q) /\ T[i] = Q[i+1] /\ i + 1 # 1
      /\ 1 \in 1..Len(Q) /\ Head(Q) = Q[1]
      /\ Len(T) \in Nat
  BY <1>1
<1> HIDE DEF T
<1>3. Apart(L, T, {DutyOfJob(Head(Q))})
  <2>1. \A i, j \in 1..Len(T) : DutyOfJob(T[i]) = DutyOfJob(T[j]) => i = j
    <3> SUFFICES ASSUME NEW i \in 1..Len(T), NEW j \in 1..Len(T),
                        DutyOfJob(T[i]) = DutyOfJob(T[j])
                 PROVE  i = j
      OBVIOUS
    <3>1. i + 1 = j + 1
      BY <1>2 DEF OneEach, Apart
    <3>2. QED
      BY <3>1, <1>2
  <2>2. \A j \in 1..Len(T) : DutyOfJob(T[j]) # DutyOfJob(Head(Q))
    BY <1>2 DEF OneEach, Apart
  <2>3. QED
    BY <1>2, <2>1, <2>2 DEF OneEach, Apart
<1>4. OwesOnly(L, T, {DutyOfJob(Head(Q))}, B)
  BY <1>2 DEF OneEach, OwesOnly
<1>5. QED
  BY <1>3, <1>4 DEF T, OneEach

(* A new entry takes over a duty d that is in hand.                         *)
LEMMA AddEntry ==
  ASSUME NEW L \in Lists, NEW Q \in Seq(WFJob), NEW R, NEW B,
         NEW s \in Promise, NEW e \in WFEntry, DutyOf(e) \notin R,
         OneEach(L, Q, R \cup {DutyOf(e)}, B)
  PROVE  OneEach([L EXCEPT ![s] = <<e>> \o @], Q, R, B)
<1> DEFINE N == [L EXCEPT ![s] = <<e>> \o @]
<1>1. /\ Len(N[s]) = Len(L[s]) + 1 /\ Len(L[s]) \in Nat
      /\ N[s][1] = e
      /\ \A i \in 1..Len(N[s]) : i # 1 => N[s][i] = L[s][i-1]
  <2>1. <<e>> \in Seq(WFEntry) /\ Len(<<e>>) = 1 /\ <<e>>[1] = e
    OBVIOUS
  <2>2. L[s] \in Seq(WFEntry) /\ Len(L[s]) \in Nat
    BY LenProperties DEF Lists
  <2>3. N[s] = <<e>> \o L[s]
    BY DEF Lists
  <2> HIDE DEF N
  <2>4. /\ Len(<<e>> \o L[s]) = 1 + Len(L[s])
        /\ \A i \in 1..(1 + Len(L[s])) :
             (<<e>> \o L[s])[i] = IF i <= 1 THEN <<e>>[i] ELSE L[s][i-1]
    BY <2>1, <2>2, ConcatProperties
  <2>5. QED
    BY <2>1, <2>2, <2>3, <2>4
<1>2. \A u \in Promise : u # s => N[u] = L[u]
  BY DEF Lists
<1> HIDE DEF N
<1>3. \A i \in 1..Len(N[s]) :
        \/ i = 1 /\ N[s][i] = e
        \/ i - 1 \in 1..Len(L[s]) /\ N[s][i] = L[s][i-1] /\ i \in Nat
  BY <1>1
<1>4. \A u, w \in Promise : \A i \in 1..Len(N[u]), j \in 1..Len(N[w]) :
        DutyOf(N[u][i]) = DutyOf(N[w][j]) => u = w /\ i = j
  <2> SUFFICES ASSUME NEW u \in Promise, NEW w \in Promise,
                      NEW i \in 1..Len(N[u]), NEW j \in 1..Len(N[w]),
                      DutyOf(N[u][i]) = DutyOf(N[w][j])
               PROVE  u = w /\ i = j
    OBVIOUS
  <2>1. CASE u = s /\ w = s
    <3>1. CASE i = 1 \/ j = 1
      BY <1>3, <2>1, <3>1 DEF OneEach, Apart
    <3>2. CASE i # 1 /\ j # 1
      <4>1. /\ i - 1 \in 1..Len(L[s]) /\ j - 1 \in 1..Len(L[s])
            /\ DutyOf(L[s][i-1]) = DutyOf(L[s][j-1])
            /\ i \in Nat /\ j \in Nat
        BY <1>3, <2>1, <3>2
      <4>2. \A k, m \in 1..Len(L[s]) : DutyOf(L[s][k]) = DutyOf(L[s][m]) => k = m
        BY DEF OneEach, Apart
      <4>3. i - 1 = j - 1
        BY <4>1, <4>2
      <4>4. QED
        BY <4>1, <4>3, <2>1
    <3>3. QED
      BY <3>1, <3>2
  <2>a. \A t \in Promise \ {s} : \A k \in 1..Len(L[t]) : DutyOf(L[t][k]) # DutyOf(e)
    BY DEF OneEach, Apart
  <2>b. \A t \in Promise \ {s} : \A k \in 1..Len(L[t]) : \A m \in 1..Len(L[s]) :
            DutyOf(L[t][k]) # DutyOf(L[s][m])
    BY DEF OneEach, Apart
  <2>2. CASE u = s /\ w # s
    <3>1. N[w] = L[w] /\ j \in 1..Len(L[w]) /\ w \in Promise \ {s}
      BY <1>2, <2>2
    <3>2. \/ N[u][i] = e
          \/ \E m \in 1..Len(L[s]) : N[u][i] = L[s][m]
      BY <1>3, <2>2
    <3>. QED
      BY <2>a, <2>b, <3>1, <3>2
  <2>3. CASE u # s /\ w = s
    <3>1. N[u] = L[u] /\ i \in 1..Len(L[u]) /\ u \in Promise \ {s}
      BY <1>2, <2>3
    <3>2. \/ N[w][j] = e
          \/ \E m \in 1..Len(L[s]) : N[w][j] = L[s][m]
      BY <1>3, <2>3
    <3>. QED
      BY <2>a, <2>b, <3>1, <3>2
  <2>4. CASE u # s /\ w # s
    BY <1>2, <2>4 DEF OneEach, Apart
  <2>5. QED
    BY <2>1, <2>2, <2>3, <2>4
<1>5. ASSUME NEW u \in Promise, NEW i \in 1..Len(N[u])
      PROVE  /\ \A j \in 1..Len(Q) : DutyOf(N[u][i]) # DutyOfJob(Q[j])
             /\ DutyOf(N[u][i]) \notin R
             /\ DutyOf(N[u][i]) \in B
  <2>1. CASE u # s
    BY <1>2, <2>1 DEF OneEach, Apart, OwesOnly
  <2>2. CASE u = s /\ i = 1
    BY <1>3, <2>2 DEF OneEach, Apart, OwesOnly
  <2>3. CASE u = s /\ i # 1
    BY <1>3, <2>3 DEF OneEach, Apart, OwesOnly
  <2>4. QED
    BY <2>1, <2>2, <2>3
<1>6. QED
  BY <1>4, <1>5 DEF N, OneEach, Apart, OwesOnly

(* So does a new job.                                                       *)
LEMMA AddJob ==
  ASSUME NEW L \in Lists, NEW Q \in Seq(WFJob), NEW R, NEW B,
         NEW job \in WFJob, DutyOfJob(job) \notin R,
         OneEach(L, Q, R \cup {DutyOfJob(job)}, B)
  PROVE  OneEach(L, Append(Q, job), R, B)
<1> DEFINE N == Append(Q, job)
<1>1. /\ Len(N) = Len(Q) + 1 /\ Len(Q) \in Nat
      /\ N[Len(Q) + 1] = job
      /\ \A i \in 1..Len(Q) : N[i] = Q[i]
  BY AppendProperties, LenProperties
<1> HIDE DEF N
<1>2. \A i \in 1..Len(N) : \/ i \in 1..Len(Q) /\ N[i] = Q[i]
                           \/ i = Len(N) /\ N[i] = job /\ i \notin 1..Len(Q)
  BY <1>1
<1>3. \A i, j \in 1..Len(N) : DutyOfJob(N[i]) = DutyOfJob(N[j]) => i = j
  BY <1>2 DEF OneEach, Apart
<1>4. \A i \in 1..Len(N) : N[i] = job \/ \E k \in 1..Len(Q) : N[i] = Q[k]
  BY <1>2
<1>5. /\ \A u \in Promise : \A k \in 1..Len(L[u]), m \in 1..Len(N) :
            DutyOf(L[u][k]) # DutyOfJob(N[m])
      /\ \A m \in 1..Len(N) : DutyOfJob(N[m]) \notin R
  BY <1>4 DEF OneEach, Apart
<1>6. Apart(L, N, R)
  BY <1>3, <1>5 DEF OneEach, Apart
<1>7. OwesOnly(L, N, R, B)
  <2>1. \A m \in 1..Len(N) : DutyOfJob(N[m]) \in B
    BY <1>4 DEF OneEach, OwesOnly
  <2>. QED
    BY <2>1 DEF OneEach, OwesOnly
<1>. QED
  BY <1>6, <1>7 DEF N, OneEach

(* The reactions of p move from its then_list to the end of the queue.      *)
LEMMA MoveList ==
  ASSUME NEW L \in Lists, NEW Q \in Seq(WFJob), NEW R, NEW B,
         NEW p \in Promise, NEW J \in Seq(WFJob), Len(J) = Len(L[p]),
         \A i \in 1..Len(J) : DutyOfJob(J[i]) = DutyOf(L[p][i]),
         OneEach(L, Q, R, B)
  PROVE  OneEach([L EXCEPT ![p] = <<>>], Q \o J, R, B)
<1> DEFINE N == [L EXCEPT ![p] = <<>>]
           K == Q \o J
<1>1. N[p] = <<>> /\ \A s \in Promise : s # p => N[s] = L[s]
  BY DEF Lists
<1>2. /\ Len(K) = Len(Q) + Len(J) /\ Len(Q) \in Nat /\ Len(J) \in Nat
      /\ \A i \in 1..(Len(Q) + Len(J)) : K[i] = IF i <= Len(Q) THEN Q[i] ELSE J[i - Len(Q)]
  BY ConcatProperties, LenProperties
<1> HIDE DEF N, K
<1>a. \A i \in 1..Len(Q) : i \in 1..Len(K) /\ K[i] = Q[i]
  BY <1>2
<1>3. \A i \in 1..Len(K) :
        \/ i \in 1..Len(Q) /\ K[i] = Q[i]
        \/ \E k \in 1..Len(L[p]) : i = Len(Q) + k /\ DutyOfJob(K[i]) = DutyOf(L[p][k])
  <2> SUFFICES ASSUME NEW i \in 1..Len(K), i \notin 1..Len(Q)
               PROVE  \E k \in 1..Len(L[p]) : i = Len(Q) + k /\ DutyOfJob(K[i]) = DutyOf(L[p][k])
    BY <1>a
  <2>1. /\ i - Len(Q) \in 1..Len(L[p]) /\ i = Len(Q) + (i - Len(Q))
        /\ K[i] = J[i - Len(Q)]
    BY <1>2
  <2>2. QED
    BY <2>1
<1>4. \A s \in Promise : \A i \in 1..Len(N[s]) : s # p /\ i \in 1..Len(L[s]) /\ N[s][i] = L[s][i]
  BY <1>1
<1>5. \A i, j \in 1..Len(K) : DutyOfJob(K[i]) = DutyOfJob(K[j]) => i = j
  <2> SUFFICES ASSUME NEW i \in 1..Len(K), NEW j \in 1..Len(K),
                      DutyOfJob(K[i]) = DutyOfJob(K[j])
               PROVE  i = j
    OBVIOUS
  <2>1. CASE i \in 1..Len(Q) /\ K[i] = Q[i] /\ j \in 1..Len(Q) /\ K[j] = Q[j]
    BY <2>1 DEF OneEach, Apart
  <2>2. CASE \E k \in 1..Len(L[p]) : i = Len(Q) + k /\ DutyOfJob(K[i]) = DutyOf(L[p][k])
    <3>1. PICK k \in 1..Len(L[p]) : i = Len(Q) + k /\ DutyOfJob(K[i]) = DutyOf(L[p][k])
      BY <2>2
    <3>2. ~ (j \in 1..Len(Q) /\ K[j] = Q[j])
      BY <3>1 DEF OneEach, Apart
    <3>3. PICK m \in 1..Len(L[p]) : j = Len(Q) + m /\ DutyOfJob(K[j]) = DutyOf(L[p][m])
      BY <1>3, <3>2
    <3>4. k = m
      BY <3>1, <3>3 DEF OneEach, Apart
    <3>5. QED
      BY <3>1, <3>3, <3>4
  <2>3. CASE /\ i \in 1..Len(Q) /\ K[i] = Q[i]
             /\ \E k \in 1..Len(L[p]) : j = Len(Q) + k /\ DutyOfJob(K[j]) = DutyOf(L[p][k])
    BY <2>3 DEF OneEach, Apart
  <2>4. QED
    BY <1>3, <2>1, <2>2, <2>3
<1>6. \A s \in Promise : \A i \in 1..Len(N[s]), j \in 1..Len(K) :
        DutyOf(N[s][i]) # DutyOfJob(K[j])
  <2> SUFFICES ASSUME NEW s \in Promise, NEW i \in 1..Len(N[s]), NEW j \in 1..Len(K)
               PROVE  DutyOf(N[s][i]) # DutyOfJob(K[j])
    OBVIOUS
  <2>1. s # p /\ i \in 1..Len(L[s]) /\ N[s][i] = L[s][i]
    BY <1>4
  <2>2. QED
    <3>1. CASE j \in 1..Len(Q) /\ K[j] = Q[j]
      BY <2>1, <3>1 DEF OneEach, Apart
    <3>2. CASE \E k \in 1..Len(L[p]) : j = Len(Q) + k /\ DutyOfJob(K[j]) = DutyOf(L[p][k])
      BY <2>1, <3>2 DEF OneEach, Apart
    <3>3. QED
      BY <1>3, <3>1, <3>2
<1>7. \A s, u \in Promise : \A i \in 1..Len(N[s]), j \in 1..Len(N[u]) :
        DutyOf(N[s][i]) = DutyOf(N[u][j]) => s = u /\ i = j
  <2> SUFFICES ASSUME NEW s \in Promise, NEW u \in Promise,
                      NEW i \in 1..Len(N[s]), NEW j \in 1..Len(N[u]),
                      DutyOf(N[s][i]) = DutyOf(N[u][j])
               PROVE  s = u /\ i = j
    OBVIOUS
  <2>1. /\ i \in 1..Len(L[s]) /\ N[s][i] = L[s][i]
        /\ j \in 1..Len(L[u]) /\ N[u][j] = L[u][j]
    BY <1>4
  <2>2. QED
    BY <2>1 DEF OneEach, Apart
<1>8. ASSUME NEW s \in Promise, NEW i \in 1..Len(N[s])
      PROVE  DutyOf(N[s][i]) \notin R /\ DutyOf(N[s][i]) \in B
  <2>1. i \in 1..Len(L[s]) /\ N[s][i] = L[s][i]
    BY <1>4
  <2>2. QED
    BY <2>1 DEF OneEach, Apart, OwesOnly
<1>9. \A j \in 1..Len(K) : DutyOfJob(K[j]) \notin R /\ DutyOfJob(K[j]) \in B
  BY <1>3 DEF OneEach, Apart, OwesOnly
<1>10. QED
  BY <1>5, <1>6, <1>7, <1>8, <1>9 DEF N, K, OneEach, Apart, OwesOnly

(* promise_resolve moves duties, and makes none.                            *)
LEMMA ResolveDuties ==
  ASSUME HeapInv, NEW jobs \in Seq(WFJob), NEW R, NEW B,
         NEW p \in Promise, NEW v \in Value, NEW side \in Side,
         PromiseResolve(jobs, p, v, side),
         OneEach(thenList, jobs, R, B)
  PROVE  OneEach(thenList', queue', R, B)
<1>1. CASE state[p] # "pending"
  BY <1>1 DEF PromiseResolve
<1>2. CASE state[p] = "pending"
  <2> DEFINE J == [i \in 1..Len(thenList[p]) |-> JobFor(thenList[p][i], p, v, side)]
  <2>1. thenList' = [thenList EXCEPT ![p] = <<>>] /\ queue' = jobs \o J
    BY <1>2 DEF PromiseResolve, Reactions
  <2>2. thenList[p] \in Seq(WFEntry) /\ Len(thenList[p]) \in Nat
    BY LenProperties DEF HeapInv
  <2>3. \A i \in 1..Len(thenList[p]) : /\ JobFor(thenList[p][i], p, v, side) \in WFJob
                                       /\ DutyOfJob(JobFor(thenList[p][i], p, v, side))
                                            = DutyOf(thenList[p][i])
    BY <2>2, ElementOfSeq, JobForIsWF, DutyOfJobFor
  <2>4. J \in Seq(WFJob)
    BY <2>2, <2>3, IsASeq
  <2>5. Len(J) = Len(thenList[p]) /\ \A i \in 1..Len(J) : DutyOfJob(J[i]) = DutyOf(thenList[p][i])
    <3>1. Len(J) = Len(thenList[p])
      BY <2>2, <2>4, LenProperties
    <3>2. QED
      BY <2>3, <3>1
  <2> HIDE DEF J
  <2>6. thenList \in Lists
    BY DEF HeapInv, Lists
  <2>7. QED
    BY <2>1, <2>4, <2>5, <2>6, MoveList
<1>3. QED
  BY <1>1, <1>2

(* promise_then gives the duty of its entry a place.                        *)
LEMMA ThenDuties ==
  ASSUME HeapInv, NEW jobs \in Seq(WFJob), NEW R, NEW B,
         NEW s \in Promise, NEW e \in WFEntry,
         PromiseThen(jobs, s, e), DutyOf(e) \notin R,
         OneEach(thenList, jobs, R \cup {DutyOf(e)}, B)
  PROVE  OneEach(thenList', queue', R, B)
<1>1. thenList \in Lists
  BY DEF HeapInv, Lists
<1>2. CASE Settled(s)
  <2> DEFINE job == JobFor(e, s, value[s], state[s])
  <2>1. value[s] \in Value /\ state[s] \in Side
    BY <1>2 DEF HeapInv, Settled, BornValue
  <2>2. job \in WFJob /\ DutyOfJob(job) = DutyOf(e)
    BY <2>1, JobForIsWF, DutyOfJobFor
  <2>3. thenList' = thenList /\ queue' = Append(jobs, job)
    BY <1>2 DEF PromiseThen
  <2> HIDE DEF job
  <2>4. QED
    BY <1>1, <2>2, <2>3, AddJob
<1>3. CASE ~ Settled(s)
  <2>1. thenList' = [thenList EXCEPT ![s] = <<e>> \o @] /\ queue' = jobs
    BY <1>3 DEF PromiseThen
  <2>2. QED
    BY <1>1, <2>1, AddEntry
<1>4. QED
  BY <1>2, <1>3

(* The end of a job settles its promise t, or gives the duty to a link.     *)
LEMMA FinishDuties ==
  ASSUME HeapInv, NEW jobs \in Seq(WFJob), NEW R, NEW B,
         NEW t \in Promise, NEW v \in Value, NEW side \in Side,
         FinishJob(jobs, t, v, side), t \notin R,
         OneEach(thenList, jobs, R \cup {t}, B)
  PROVE  OneEach(thenList', queue', R, B)
<1>1. OneEach(thenList, jobs, R, B)
  BY DEF OneEach, Apart, OwesOnly
<1>2. CASE v \notin Promise
  BY <1>1, <1>2, ResolveDuties DEF FinishJob
<1>3. CASE v = t
  BY <1>1, <1>3 DEF FinishJob, PromiseChain
<1>4. CASE v \in Promise /\ v # t
  <2>1. LinkTo(t) \in WFEntry /\ DutyOf(LinkTo(t)) = t
    BY LinkToIsWF
  <2>2. PromiseThen(jobs, v, LinkTo(t))
    BY <1>4 DEF FinishJob, PromiseChain, LinkTo
  <2>3. QED
    BY <1>4, <2>1, <2>2, ThenDuties
<1>5. QED
  BY <1>2, <1>3, <1>4

(* A set of born promises may grow, and then() finds its promise t owed by  *)
(* nobody.                                                                  *)
LEMMA NewDuty ==
  ASSUME NEW L, NEW Q, NEW R, NEW B, NEW t, t \notin B,
         OneEach(L, Q, R, B)
  PROVE  /\ t \notin R
         /\ OneEach(L, Q, R \cup {t}, B \cup {t})
BY DEF OneEach, Apart, OwesOnly

(***************************************************************************)
(* Every step keeps each promise owed by at most one entry or job.          *)
(***************************************************************************)
LEMMA StepDutyInv == IInv /\ DutyInv /\ [Next]_vars => DutyInv'
<1> SUFFICES ASSUME IInv, DutyInv, [Next]_vars PROVE DutyInv'
  OBVIOUS
<1> DEFINE B == AllBorn
<1>1. OneEach(thenList, queue, InHand, B)
  BY DEF DutyInv
<1>2. queue \in Seq(WFJob) /\ HeapInv
  <2>1. GoodJob \subseteq WFJob
    BY DEF GoodJob
  <2>2. QED
    BY <2>1, SeqMonotonic DEF IInv
<1>3. ASSUME NEW p \in Promise, Alloc(p) PROVE DutyInv'
  <2>1. AllBorn \subseteq AllBorn'
    BY <1>2, <1>3 DEF Alloc, AllBorn, Born, HeapInv
  <2>2. InHand' = InHand /\ thenList' = thenList /\ queue' = queue
    BY <1>3 DEF Alloc, InHand
  <2>3. OneEach(thenList, queue, InHand, AllBorn')
    BY <1>1, <2>1 DEF OneEach, OwesOnly
  <2>4. QED
    BY <2>2, <2>3 DEF DutyInv
<1>4. ASSUME NEW s \in Promise, NEW t \in Promise,
             NEW f \in HandlerChoice, NEW r \in HandlerChoice, Then(s, t, f, r)
      PROVE  DutyInv'
  <2>1. PromiseThen(queue, s, HandlerEntry(f, r, t)) /\ running' = running
    BY <1>4 DEF Then, HandlerEntry
  <2>2. HandlerEntry(f, r, t) \in WFEntry /\ DutyOf(HandlerEntry(f, r, t)) = t
    BY HandlerEntryIsWF
  <2>3. t \notin AllBorn /\ AllBorn' = AllBorn \cup {t}
    BY <1>2, <1>4 DEF Then, AllBorn, Born, HeapInv
  <2>4. t \notin InHand /\ OneEach(thenList, queue, InHand \cup {t}, AllBorn')
    BY <1>1, <2>3, NewDuty
  <2>5. OneEach(thenList', queue', InHand, AllBorn')
    BY <1>2, <2>1, <2>2, <2>4, ThenDuties
  <2>6. QED
    BY <2>1, <2>5 DEF DutyInv, InHand
<1>5. ASSUME NEW p \in Promise, NEW v \in Value, NEW side \in Side, NEW jobs \in Seq(WFJob),
             PromiseResolve(jobs, p, v, side), running' = running,
             OneEach(thenList, jobs, InHand, AllBorn)
      PROVE  DutyInv'
  <2>1. OneEach(thenList', queue', InHand, AllBorn)
    BY <1>2, <1>5, ResolveDuties
  <2>2. AllBorn \subseteq AllBorn'
    BY <1>2, <1>5 DEF PromiseResolve, AllBorn, Born, HeapInv, Side
  <2>3. QED
    BY <1>5, <2>1, <2>2 DEF DutyInv, InHand, OneEach, OwesOnly
<1>6. ASSUME NEW t \in Promise, NEW v \in Value, NEW side \in Side, NEW jobs \in Seq(WFJob),
             FinishJob(jobs, t, v, side), running' = NoJob,
             OneEach(thenList, jobs, {t}, AllBorn)
      PROVE  DutyInv'
  <2>1. OneEach(thenList, jobs, {} \cup {t}, AllBorn) /\ t \notin {}
    BY <1>6
  <2>2. OneEach(thenList', queue', {}, AllBorn)
    BY <1>2, <1>6, <2>1, FinishDuties
  <2>3. AllBorn \subseteq AllBorn'
    BY <1>2, <1>6 DEF FinishJob, PromiseResolve, AllBorn, Born, HeapInv, Side
  <2>4. QED
    BY <1>6, <2>2, <2>3 DEF DutyInv, InHand, OneEach, OwesOnly
<1>7. ASSUME NEW p \in Promise, NEW v \in Passed, NEW side \in Side, Resolve(p, v, side)
      PROVE  DutyInv'
  BY <1>1, <1>2, <1>5, <1>7, PassedAreValues DEF Resolve, Value
<1>8. ASSUME queue # <<>>, running = NoJob
      PROVE  /\ Head(queue) \in WFJob /\ Tail(queue) \in Seq(WFJob)
             /\ Head(queue) \in GoodJob
             /\ Head(queue).value \in Value /\ Head(queue).side \in Side
             /\ OneEach(thenList, Tail(queue), {DutyOfJob(Head(queue))}, AllBorn)
  <2>1. Head(queue) \in WFJob /\ Tail(queue) \in Seq(WFJob)
    BY <1>2, <1>8, HeadTailProperties
  <2>2. thenList \in Lists
    BY <1>2 DEF HeapInv, Lists
  <2>3. OneEach(thenList, queue, {}, AllBorn)
    BY <1>1, <1>8 DEF InHand
  <2>4. OneEach(thenList, Tail(queue), {DutyOfJob(Head(queue))}, AllBorn)
    BY <1>2, <1>8, <2>2, <2>3, TakeHead
  <2>5. QED
    BY <1>8, <2>1, <2>4, HeadIsGood DEF WFJob, Job
<1>9. CASE RunForward
  <2> DEFINE job == Head(queue)
  <2>1. /\ queue # <<>> /\ running = NoJob /\ running' = NoJob /\ job.fn.kind = "nil"
        /\ FinishJob(Tail(queue), job.next, job.value, job.side)
    BY <1>9 DEF RunForward, NextJob
  <2>2. /\ job \in WFJob /\ Tail(queue) \in Seq(WFJob) /\ job.value \in Value /\ job.side \in Side
        /\ OneEach(thenList, Tail(queue), {DutyOfJob(job)}, AllBorn)
    BY <1>8, <2>1
  <2> HIDE DEF job
  <2>3. job.next \in Promise /\ DutyOfJob(job) = job.next
    BY <2>1, <2>2 DEF WFJob, Job, DutyOfJob
  <2>4. QED
    BY <1>6, <2>1, <2>2, <2>3
<1>10. CASE RunSettle
  <2> DEFINE job == Head(queue)
  <2>1. /\ queue # <<>> /\ running = NoJob /\ running' = running /\ job.fn.kind = "settle"
        /\ PromiseResolve(Tail(queue), job.fn.target, job.value, job.fn.side)
    BY <1>10 DEF RunSettle, NextJob
  <2>2. /\ job \in WFJob /\ Tail(queue) \in Seq(WFJob) /\ job.value \in Value
        /\ OneEach(thenList, Tail(queue), {DutyOfJob(job)}, AllBorn)
    BY <1>8, <2>1
  <2>3. job.fn.target \in Promise /\ job.fn.side \in Side
    <3> HIDE DEF job
    <3>1. QED
      BY <2>1, <2>2 DEF WFJob, Job, Handler
  <2>4. OneEach(thenList, Tail(queue), InHand, AllBorn)
    BY <2>1, <2>2 DEF InHand, OneEach, Apart, OwesOnly
  <2>5. QED
    BY <1>5, <2>1, <2>2, <2>3, <2>4
<1>11. CASE CallbackStarts
  <2>1. /\ queue # <<>> /\ running = NoJob /\ running' = Head(queue)
        /\ queue' = Tail(queue) /\ thenList' = thenList /\ state' = state
    BY <1>11 DEF CallbackStarts, NextJob
  <2>2. Head(queue) \in WFJob /\ OneEach(thenList, Tail(queue), {DutyOfJob(Head(queue))}, AllBorn)
    BY <1>8, <2>1
  <2>3. OneEach(thenList, Tail(queue), InHand', AllBorn)
    BY <2>1, <2>2 DEF InHand, OneEach, Apart, OwesOnly
  <2>4. QED
    BY <2>1, <2>3 DEF DutyInv, AllBorn, Born
<1>12. ASSUME running # NoJob
       PROVE  running.next \in Promise /\ OneEach(thenList, queue, {running.next}, AllBorn)
  <2>1. running \in WFJob /\ running.fn.kind = "user"
    BY <1>12 DEF IInv, GoodJob
  <2>2. running.next \in Promise /\ DutyOfJob(running) = running.next
    BY <2>1 DEF WFJob, Job, DutyOfJob
  <2>3. QED
    BY <1>1, <1>12, <2>2 DEF InHand
<1>13. CASE CallbackEnds
  <2>1. ASSUME NEW v \in Value, CallbackReturns(v) PROVE DutyInv'
    BY <1>2, <1>6, <1>12, <2>1 DEF CallbackReturns, Side
  <2>2. ASSUME NEW v \in Plain, CallbackThrows(v) PROVE DutyInv'
    BY <1>2, <1>6, <1>12, <2>2 DEF CallbackThrows, Side, Value
  <2>3. QED
    BY <1>13, <2>1, <2>2 DEF CallbackEnds
<1>14. CASE MainReturns \/ Exit \/ UNCHANGED vars
  BY <1>14 DEF MainReturns, Exit, vars, DutyInv, AllBorn, Born, InHand
<1>15. QED
  BY <1>3, <1>4, <1>7, <1>9, <1>10, <1>11, <1>13, <1>14 DEF Next, RunJob, Exited

LEMMA InitDutyInv == Init => DutyInv
BY DEF Init, DutyInv, OneEach, Apart, OwesOnly, InHand

(***************************************************************************)
(* Both strengthenings hold in every reachable state.                       *)
(***************************************************************************)
THEOREM DutyInvariance == Spec => [](IInv /\ DutyInv)
BY InitIInv, InitDutyInv, StepIInv, StepDutyInv, PTL DEF Spec

(* What a place of Places is, and what it owes.                             *)
InList(a) ==
  \E s \in Promise : \E i \in 1..Len(thenList[s]) :
    a = <<"list", s, i>> /\ OwedAt(a) = DutyOf(thenList[s][i])
InQueue(a) ==
  \E i \in 1..Len(queue) : a = <<"queue", NoJob, i>> /\ OwedAt(a) = DutyOfJob(queue[i])
IsRunning(a) ==
  a = <<"running", NoJob, 1>> /\ running # NoJob /\ OwedAt(a) = DutyOfJob(running)

LEMMA PlaceForms ==
  ASSUME IInv, NEW a \in Places
  PROVE  InList(a) \/ InQueue(a) \/ IsRunning(a)
<1>1. \A s \in Promise : DOMAIN thenList[s] = 1..Len(thenList[s])
  BY LenProperties DEF IInv, HeapInv
<1>2. DOMAIN queue = 1..Len(queue)
  BY LenProperties DEF IInv
<1> DEFINE lists   == UNION {{<<"list", s, i>> : i \in DOMAIN thenList[s]} : s \in Promise}
           queued  == {<<"queue", NoJob, i>> : i \in DOMAIN queue}
           current == {<<"running", NoJob, 1>> : i \in {running} \ {NoJob}}
<1>3. a \in lists \/ a \in queued \/ a \in current
  <2>1. Places = lists \cup queued \cup current
    BY DEF Places
  <2> HIDE DEF lists, queued, current
  <2>2. QED
    BY <2>1
<1>4. CASE a \in lists
  BY <1>1, <1>4 DEF OwedAt, InList
<1>5. CASE a \in queued
  BY <1>2, <1>5 DEF OwedAt, InQueue
<1>6. CASE a \in current
  BY <1>6 DEF OwedAt, IsRunning
<1>7. QED
  BY <1>3, <1>4, <1>5, <1>6

(***************************************************************************)
(* No promise is owed by two entries or jobs: a reaction is never queued    *)
(* twice, nor left in a then_list once queued (promise_resolve,             *)
(* promise_then, promise_chain and run_promise_jobs together).              *)
(***************************************************************************)
THEOREM OwedOnce == Spec => []OneDuty
<1>1. IInv /\ DutyInv => OneDuty
  <2> SUFFICES ASSUME IInv, DutyInv, NEW a \in Places, NEW b \in Places, OwedAt(a) = OwedAt(b)
               PROVE  a = b
    BY DEF OneDuty
  <2>0. OwedAt(a) = OwedAt(b)
    OBVIOUS
  <2>1. OneEach(thenList, queue, InHand, AllBorn)
    BY DEF DutyInv
  <2>2. /\ InList(a) \/ InQueue(a) \/ IsRunning(a)
        /\ InList(b) \/ InQueue(b) \/ IsRunning(b)
    BY PlaceForms
  <2>3. ASSUME InList(a), InList(b) PROVE a = b
    <3>1. PICK s \in Promise : \E i \in 1..Len(thenList[s]) :
            a = <<"list", s, i>> /\ OwedAt(a) = DutyOf(thenList[s][i])
      BY <2>3 DEF InList
    <3>2. PICK i \in 1..Len(thenList[s]) :
            a = <<"list", s, i>> /\ OwedAt(a) = DutyOf(thenList[s][i])
      BY <3>1
    <3>3. PICK u \in Promise : \E j \in 1..Len(thenList[u]) :
            b = <<"list", u, j>> /\ OwedAt(b) = DutyOf(thenList[u][j])
      BY <2>3 DEF InList
    <3>4. PICK j \in 1..Len(thenList[u]) :
            b = <<"list", u, j>> /\ OwedAt(b) = DutyOf(thenList[u][j])
      BY <3>3
    <3>5. DutyOf(thenList[s][i]) = DutyOf(thenList[u][j]) => s = u /\ i = j
      BY <2>1 DEF OneEach, Apart
    <3>6. DutyOf(thenList[s][i]) = DutyOf(thenList[u][j])
      BY <2>0, <3>2, <3>4
    <3>. QED
      BY <3>2, <3>4, <3>5, <3>6
  <2>4. InQueue(a) /\ InQueue(b) => a = b
    BY <2>1 DEF OneEach, Apart, InQueue
  <2>5. IsRunning(a) /\ IsRunning(b) => a = b
    BY DEF IsRunning
  <2>6. ~ (InList(a) /\ InQueue(b)) /\ ~ (InList(b) /\ InQueue(a))
    BY <2>1 DEF OneEach, Apart, InList, InQueue
  <2>7. ~ (InList(a) /\ IsRunning(b)) /\ ~ (InList(b) /\ IsRunning(a))
    BY <2>1 DEF OneEach, Apart, InList, IsRunning, InHand
  <2>8. ~ (InQueue(a) /\ IsRunning(b)) /\ ~ (InQueue(b) /\ IsRunning(a))
    BY <2>1 DEF OneEach, Apart, InQueue, IsRunning, InHand
  <2>9. QED
    BY <2>2, <2>3, <2>4, <2>5, <2>6, <2>7, <2>8
<1>2. QED
  BY <1>1, DutyInvariance, PTL

-----------------------------------------------------------------------------
(***************************************************************************)
(* The contract.  The reactions of PromiseContract are those waiting in the *)
(* then_lists L and the queue Q, and that of the running job.               *)
(***************************************************************************)
EntryReaction(s, e) == <<s, DutyOf(e), KindOf(e.next)>>
JobReaction(j)      == <<j.src, DutyOfJob(j), KindOf(j.next)>>

Waiting(L, Q) ==
  (UNION {{EntryReaction(s, L[s][i]) : i \in 1..Len(L[s])} : s \in Promise})
    \cup {JobReaction(Q[i]) : i \in 1..Len(Q)}

InHandReactions == IF running = NoJob THEN {} ELSE {JobReaction(running)}

\* What the refinement mapping gives the variables of PromiseContract.
Outcomes     == [p \in Promise |-> OutcomeOf(p)]
ReactionsNow == {ReactionAt(place) : place \in Places}

(* Membership, in the form the lemmas below use it.                         *)
LEMMA WaitingDef ==
  ASSUME NEW L, NEW Q, NEW r
  PROVE  r \in Waiting(L, Q) <=>
           \/ \E s \in Promise : \E i \in 1..Len(L[s]) : r = EntryReaction(s, L[s][i])
           \/ \E i \in 1..Len(Q) : r = JobReaction(Q[i])
BY DEF Waiting

ReactionsRight == ReactionsNow = Waiting(thenList, queue) \cup InHandReactions

LEMMA ReactionsForm == IInv => ReactionsRight
<1> SUFFICES ASSUME IInv
             PROVE  ReactionsNow = Waiting(thenList, queue) \cup InHandReactions
  BY DEF ReactionsRight
<1> DEFINE lists   == UNION {{<<"list", s, i>> : i \in DOMAIN thenList[s]} : s \in Promise}
           queued  == {<<"queue", NoJob, i>> : i \in DOMAIN queue}
           current == {<<"running", NoJob, 1>> : i \in {running} \ {NoJob}}
           X       == Waiting(thenList, queue) \cup InHandReactions
<1>1. Places = lists \cup queued \cup current
  BY DEF Places
<1>2. \A s \in Promise : DOMAIN thenList[s] = 1..Len(thenList[s])
  BY LenProperties DEF IInv, HeapInv
<1>3. DOMAIN queue = 1..Len(queue)
  BY LenProperties DEF IInv
<1>4. \A s \in Promise : \A i \in 1..Len(thenList[s]) :
        /\ <<"list", s, i>> \in Places
        /\ ReactionAt(<<"list", s, i>>) = EntryReaction(s, thenList[s][i])
  <2>1. \A s \in Promise : \A i \in 1..Len(thenList[s]) : <<"list", s, i>> \in lists
    BY <1>2
  <2> HIDE DEF lists, queued, current
  <2>2. QED
    BY <1>1, <2>1 DEF ReactionAt, EntryReaction
<1>5. \A i \in 1..Len(queue) :
        /\ <<"queue", NoJob, i>> \in Places
        /\ ReactionAt(<<"queue", NoJob, i>>) = JobReaction(queue[i])
  <2>1. \A i \in 1..Len(queue) : <<"queue", NoJob, i>> \in queued
    BY <1>3
  <2> HIDE DEF lists, queued, current
  <2>2. QED
    BY <1>1, <2>1 DEF ReactionAt, JobReaction
<1>6. running # NoJob =>
        /\ <<"running", NoJob, 1>> \in Places
        /\ ReactionAt(<<"running", NoJob, 1>>) = JobReaction(running)
  <2>1. running # NoJob => <<"running", NoJob, 1>> \in current
    OBVIOUS
  <2> HIDE DEF lists, queued, current
  <2>2. QED
    BY <1>1, <2>1 DEF ReactionAt, JobReaction
<1> HIDE DEF lists, queued, current
<1>7. ASSUME NEW a \in Places PROVE ReactionAt(a) \in X
  <2>1. InList(a) \/ InQueue(a) \/ IsRunning(a)
    BY PlaceForms
  <2>2. CASE InList(a)
    BY <1>4, <2>2, WaitingDef DEF InList
  <2>3. CASE InQueue(a)
    BY <1>5, <2>3, WaitingDef DEF InQueue
  <2>4. CASE IsRunning(a)
    BY <1>6, <2>4 DEF IsRunning, InHandReactions
  <2>5. QED
    BY <2>1, <2>2, <2>3, <2>4
<1>8. ASSUME NEW r \in X PROVE r \in ReactionsNow
  <2>1. CASE r \in InHandReactions
    BY <1>6, <2>1 DEF InHandReactions, ReactionsNow
  <2>2. CASE \E s \in Promise : \E i \in 1..Len(thenList[s]) : r = EntryReaction(s, thenList[s][i])
    BY <1>4, <2>2 DEF ReactionsNow
  <2>3. CASE \E i \in 1..Len(queue) : r = JobReaction(queue[i])
    BY <1>5, <2>3 DEF ReactionsNow
  <2>4. QED
    BY <2>1, <2>2, <2>3, WaitingDef
<1>9. QED
  <2>1. \A r \in ReactionsNow : r \in X
    <3> HIDE DEF X
    <3>1. QED
      BY <1>7 DEF ReactionsNow
  <2>2. QED
    BY <1>8, <2>1

(* Taking the head of the queue.                                            *)
LEMMA HeadReaction ==
  ASSUME NEW L, NEW Q \in Seq(WFJob), Q # <<>>
  PROVE  Waiting(L, Q) = Waiting(L, Tail(Q)) \cup {JobReaction(Head(Q))}
<1>1. /\ Len(Tail(Q)) = Len(Q) - 1 /\ Len(Q) \in Nat \ {0}
      /\ \A i \in 1..Len(Tail(Q)) : Tail(Q)[i] = Q[i+1]
      /\ Head(Q) = Q[1]
  BY EmptySeq, HeadTailProperties
<1> DEFINE T == Tail(Q)
<1>2. \A i \in 1..Len(T) : i + 1 \in 1..Len(Q) /\ T[i] = Q[i+1]
  BY <1>1
<1>3. \A i \in 1..Len(Q) : i = 1 \/ \E k \in 1..Len(T) : T[k] = Q[i]
  <2> SUFFICES ASSUME NEW i \in 1..Len(Q), i # 1
               PROVE  \E k \in 1..Len(T) : T[k] = Q[i]
    OBVIOUS
  <2>1. i - 1 \in 1..Len(T) /\ (i - 1) + 1 = i
    BY <1>1
  <2> HIDE DEF T
  <2>2. T[i-1] = Q[i]
    BY <1>2, <2>1
  <2>3. QED
    BY <2>1, <2>2
<1>4. Head(Q) = Q[1] /\ 1 \in 1..Len(Q)
  BY <1>1
<1> HIDE DEF T
<1>5. {JobReaction(Q[i]) : i \in 1..Len(Q)}
        = {JobReaction(T[i]) : i \in 1..Len(T)} \cup {JobReaction(Head(Q))}
  <2>1. \A i \in 1..Len(Q) : \/ JobReaction(Q[i]) = JobReaction(Head(Q))
                             \/ \E k \in 1..Len(T) : JobReaction(T[k]) = JobReaction(Q[i])
    BY <1>3, <1>4
  <2>2. \A i \in 1..Len(T) : \E k \in 1..Len(Q) : JobReaction(T[i]) = JobReaction(Q[k])
    BY <1>2
  <2>3. \E k \in 1..Len(Q) : JobReaction(Q[k]) = JobReaction(Head(Q))
    BY <1>4
  <2>4. ASSUME NEW i \in 1..Len(Q)
        PROVE  JobReaction(Q[i]) \in {JobReaction(T[k]) : k \in 1..Len(T)}
                                        \cup {JobReaction(Head(Q))}
    BY <2>1
  <2>5. ASSUME NEW i \in 1..Len(T)
        PROVE  JobReaction(T[i]) \in {JobReaction(Q[k]) : k \in 1..Len(Q)}
    BY <2>2
  <2>6. JobReaction(Head(Q)) \in {JobReaction(Q[k]) : k \in 1..Len(Q)}
    BY <2>3
  <2>7. QED
    BY <2>4, <2>5, <2>6
<1>6. QED
  BY <1>5 DEF Waiting, T

(* A new entry of s.                                                        *)
WithEntry(L, s, e) == [L EXCEPT ![s] = <<e>> \o @]

LEMMA EntryAdded ==
  ASSUME NEW L \in Lists, NEW Q, NEW s \in Promise, NEW e \in WFEntry
  PROVE  Waiting(WithEntry(L, s, e), Q) = Waiting(L, Q) \cup {EntryReaction(s, e)}
<1> DEFINE N == WithEntry(L, s, e)
<1>1. /\ Len(N[s]) = Len(L[s]) + 1 /\ Len(L[s]) \in Nat
      /\ N[s][1] = e
      /\ \A i \in 1..Len(N[s]) : i # 1 => i - 1 \in 1..Len(L[s]) /\ N[s][i] = L[s][i-1]
      /\ \A k \in 1..Len(L[s]) : k + 1 \in 1..Len(N[s]) /\ N[s][k+1] = L[s][k]
  <2>1. <<e>> \in Seq(WFEntry) /\ Len(<<e>>) = 1 /\ <<e>>[1] = e
    OBVIOUS
  <2>2. L[s] \in Seq(WFEntry) /\ Len(L[s]) \in Nat
    BY LenProperties DEF Lists
  <2>3. N[s] = <<e>> \o L[s]
    BY DEF Lists, WithEntry
  <2> HIDE DEF N
  <2>4. /\ Len(<<e>> \o L[s]) = 1 + Len(L[s])
        /\ \A i \in 1..(1 + Len(L[s])) :
             (<<e>> \o L[s])[i] = IF i <= 1 THEN <<e>>[i] ELSE L[s][i-1]
    BY <2>1, <2>2, ConcatProperties
  <2>5. \A k \in 1..Len(L[s]) : k + 1 \in 1..(1 + Len(L[s])) /\ (k + 1) - 1 = k /\ ~ (k + 1 <= 1)
    BY <2>2
  <2>6. QED
    BY <2>1, <2>2, <2>3, <2>4, <2>5
<1>2. \A u \in Promise : u # s => N[u] = L[u]
  BY DEF Lists, WithEntry
<1> HIDE DEF N
<1>3. ASSUME NEW r, r \in Waiting(N, Q) PROVE r \in Waiting(L, Q) \cup {EntryReaction(s, e)}
  <2>1. CASE \E i \in 1..Len(Q) : r = JobReaction(Q[i])
    <3>1. r \in Waiting(L, Q)
      BY <2>1, WaitingDef
    <3>2. QED
      BY <3>1
  <2>2. CASE \E u \in Promise : \E i \in 1..Len(N[u]) : r = EntryReaction(u, N[u][i])
    <3>1. PICK u \in Promise : \E i \in 1..Len(N[u]) : r = EntryReaction(u, N[u][i])
      BY <2>2
    <3>2. PICK i \in 1..Len(N[u]) : r = EntryReaction(u, N[u][i])
      BY <3>1
    <3>3. CASE u # s
      BY <1>2, <3>2, <3>3, WaitingDef
    <3>4. CASE u = s /\ i = 1
      BY <1>1, <3>2, <3>4
    <3>5. CASE u = s /\ i # 1
      BY <1>1, <3>2, <3>5, WaitingDef
    <3>6. QED
      BY <3>3, <3>4, <3>5
  <2>3. \/ \E u \in Promise : \E i \in 1..Len(N[u]) : r = EntryReaction(u, N[u][i])
        \/ \E i \in 1..Len(Q) : r = JobReaction(Q[i])
    BY <1>3, WaitingDef
  <2>4. QED
    BY <2>1, <2>2, <2>3
<1>4. ASSUME NEW r, r \in Waiting(L, Q) PROVE r \in Waiting(N, Q)
  <2>1. CASE \E i \in 1..Len(Q) : r = JobReaction(Q[i])
    BY <2>1, WaitingDef
  <2>2. CASE \E u \in Promise : \E i \in 1..Len(L[u]) : r = EntryReaction(u, L[u][i])
    <3>1. PICK u \in Promise : \E i \in 1..Len(L[u]) : r = EntryReaction(u, L[u][i])
      BY <2>2
    <3>2. CASE u # s
      BY <1>2, <3>1, <3>2, WaitingDef
    <3>3. CASE u = s
      <4>1. \E k \in 1..Len(N[s]) : r = EntryReaction(s, N[s][k])
        BY <1>1, <3>1, <3>3
      <4>2. QED
        BY <4>1, WaitingDef
    <3>4. QED
      BY <3>2, <3>3
  <2>3. QED
    BY <1>4, <2>1, <2>2, WaitingDef
<1>5. EntryReaction(s, e) \in Waiting(N, Q)
  <2>1. 1 \in 1..Len(N[s]) /\ EntryReaction(s, e) = EntryReaction(s, N[s][1])
    BY <1>1
  <2>2. QED
    BY <2>1, WaitingDef
<1>6. QED
  BY <1>3, <1>4, <1>5 DEF N

(* A new job.                                                               *)
LEMMA JobAdded ==
  ASSUME NEW L, NEW Q \in Seq(WFJob), NEW job \in WFJob
  PROVE  Waiting(L, Append(Q, job)) = Waiting(L, Q) \cup {JobReaction(job)}
<1> DEFINE N == Append(Q, job)
<1>1. /\ Len(N) = Len(Q) + 1 /\ Len(Q) \in Nat
      /\ N[Len(Q) + 1] = job
      /\ \A i \in 1..Len(Q) : N[i] = Q[i]
  BY AppendProperties, LenProperties
<1> HIDE DEF N
<1>2. /\ \A i \in 1..Len(N) : i \in 1..Len(Q) \/ N[i] = job
      /\ \A i \in 1..Len(Q) : i \in 1..Len(N) /\ N[i] = Q[i]
      /\ \E i \in 1..Len(N) : N[i] = job
  BY <1>1
<1>3. {JobReaction(N[i]) : i \in 1..Len(N)}
        = {JobReaction(Q[i]) : i \in 1..Len(Q)} \cup {JobReaction(job)}
  BY <1>2
<1>4. QED
  BY <1>3 DEF N, Waiting

(* The reactions of p, moved to the end of the queue, are the same ones.    *)
LEMMA ListMoved ==
  ASSUME NEW L \in Lists, NEW Q \in Seq(WFJob),
         NEW p \in Promise, NEW J \in Seq(WFJob), Len(J) = Len(L[p]),
         \A i \in 1..Len(J) : JobReaction(J[i]) = EntryReaction(p, L[p][i])
  PROVE  Waiting([L EXCEPT ![p] = <<>>], Q \o J) = Waiting(L, Q)
<1> DEFINE N == [L EXCEPT ![p] = <<>>]
           K == Q \o J
<1>1. N[p] = <<>> /\ \A s \in Promise : s # p => N[s] = L[s]
  BY DEF Lists
<1>2. /\ Len(K) = Len(Q) + Len(J) /\ Len(Q) \in Nat /\ Len(J) \in Nat
      /\ \A i \in 1..(Len(Q) + Len(J)) : K[i] = IF i <= Len(Q) THEN Q[i] ELSE J[i - Len(Q)]
  BY ConcatProperties, LenProperties
<1> HIDE DEF N, K
<1>3. \A i \in 1..Len(K) : \/ i \in 1..Len(Q) /\ K[i] = Q[i]
                           \/ \E k \in 1..Len(J) : K[i] = J[k]
  <2> SUFFICES ASSUME NEW i \in 1..Len(K), i \notin 1..Len(Q)
               PROVE  \E k \in 1..Len(J) : K[i] = J[k]
    BY <1>2
  <2>1. i - Len(Q) \in 1..Len(J) /\ K[i] = J[i - Len(Q)]
    BY <1>2
  <2>2. QED
    BY <2>1
<1>4. /\ \A i \in 1..Len(Q) : i \in 1..Len(K) /\ K[i] = Q[i]
      /\ \A k \in 1..Len(J) : \E i \in 1..Len(K) : K[i] = J[k]
  <2>1. ASSUME NEW k \in 1..Len(J) PROVE \E i \in 1..Len(K) : K[i] = J[k]
    <3>1. Len(Q) + k \in 1..Len(K) /\ ~ (Len(Q) + k <= Len(Q)) /\ (Len(Q) + k) - Len(Q) = k
      BY <1>2
    <3>2. K[Len(Q) + k] = J[k]
      BY <1>2, <3>1
    <3>3. QED
      BY <3>1, <3>2
  <2>2. QED
    BY <1>2, <2>1
<1>5. ASSUME NEW r, r \in Waiting(N, K) PROVE r \in Waiting(L, Q)
  <2>1. CASE \E s \in Promise : \E i \in 1..Len(N[s]) : r = EntryReaction(s, N[s][i])
    BY <1>1, <2>1, WaitingDef
  <2>2. CASE \E i \in 1..Len(K) : r = JobReaction(K[i])
    <3>1. \/ \E i \in 1..Len(Q) : r = JobReaction(Q[i])
          \/ \E k \in 1..Len(J) : r = JobReaction(J[k])
      BY <1>3, <2>2
    <3>2. QED
      BY <3>1, WaitingDef
  <2>3. QED
    BY <1>5, <2>1, <2>2, WaitingDef
<1>6. ASSUME NEW r, r \in Waiting(L, Q) PROVE r \in Waiting(N, K)
  <2>1. CASE \E i \in 1..Len(Q) : r = JobReaction(Q[i])
    BY <1>4, <2>1, WaitingDef
  <2>2. CASE \E s \in Promise : \E i \in 1..Len(L[s]) : r = EntryReaction(s, L[s][i])
    <3>1. PICK s \in Promise : \E i \in 1..Len(L[s]) : r = EntryReaction(s, L[s][i])
      BY <2>2
    <3>2. CASE s # p
      BY <1>1, <3>1, <3>2, WaitingDef
    <3>3. CASE s = p
      <4>1. \E i \in 1..Len(J) : r = JobReaction(J[i])
        BY <3>1, <3>3
      <4>2. \E i \in 1..Len(K) : r = JobReaction(K[i])
        BY <1>4, <4>1
      <4>3. QED
        BY <4>2, WaitingDef
    <3>4. QED
      BY <3>2, <3>3
  <2>3. QED
    BY <1>6, <2>1, <2>2, WaitingDef
<1>7. QED
  BY <1>5, <1>6 DEF N, K

(* A job's reaction is that of the entry it was made for.                   *)
LEMMA ReactionOfJobFor ==
  ASSUME NEW e \in WFEntry, NEW s \in Promise, NEW v \in Value, NEW side \in Side
  PROVE  JobReaction(JobFor(e, s, v, side)) = EntryReaction(s, e)
<1>1. /\ JobFor(e, s, v, side).src = s
      /\ JobFor(e, s, v, side).next = e.next
  BY DEF JobFor
<1>2. QED
  BY <1>1, DutyOfJobFor DEF JobReaction, EntryReaction

(* promise_resolve discharges nothing by itself.                            *)
LEMMA ResolveReactions ==
  ASSUME HeapInv, NEW jobs \in Seq(WFJob),
         NEW p \in Promise, NEW v \in Value, NEW side \in Side,
         PromiseResolve(jobs, p, v, side)
  PROVE  Waiting(thenList', queue') = Waiting(thenList, jobs)
<1>1. CASE state[p] # "pending"
  BY <1>1 DEF PromiseResolve
<1>2. CASE state[p] = "pending"
  <2> DEFINE J == [i \in 1..Len(thenList[p]) |-> JobFor(thenList[p][i], p, v, side)]
  <2>1. thenList' = [thenList EXCEPT ![p] = <<>>] /\ queue' = jobs \o J
    BY <1>2 DEF PromiseResolve, Reactions
  <2>2. thenList[p] \in Seq(WFEntry) /\ Len(thenList[p]) \in Nat
    BY LenProperties DEF HeapInv
  <2>3. \A i \in 1..Len(thenList[p]) : /\ JobFor(thenList[p][i], p, v, side) \in WFJob
                                       /\ JobReaction(JobFor(thenList[p][i], p, v, side))
                                            = EntryReaction(p, thenList[p][i])
    BY <2>2, ElementOfSeq, JobForIsWF, ReactionOfJobFor
  <2>4. J \in Seq(WFJob)
    BY <2>2, <2>3, IsASeq
  <2>5. Len(J) = Len(thenList[p])
    BY <2>2, <2>4, LenProperties
  <2>6. \A i \in 1..Len(J) : JobReaction(J[i]) = EntryReaction(p, thenList[p][i])
    BY <2>3, <2>5
  <2> HIDE DEF J
  <2>7. thenList \in Lists
    BY DEF HeapInv, Lists
  <2>8. QED
    BY <2>1, <2>4, <2>5, <2>6, <2>7, ListMoved
<1>3. QED
  BY <1>1, <1>2

(* promise_then registers one reaction.                                     *)
LEMMA ThenReactions ==
  ASSUME HeapInv, NEW jobs \in Seq(WFJob), NEW s \in Promise, NEW e \in WFEntry,
         PromiseThen(jobs, s, e)
  PROVE  Waiting(thenList', queue') = Waiting(thenList, jobs) \cup {EntryReaction(s, e)}
<1>1. CASE Settled(s)
  <2> DEFINE job == JobFor(e, s, value[s], state[s])
  <2>1. value[s] \in Value /\ state[s] \in Side
    BY <1>1 DEF HeapInv, Settled, BornValue
  <2>2. job \in WFJob /\ JobReaction(job) = EntryReaction(s, e)
    BY <2>1, JobForIsWF, ReactionOfJobFor
  <2>3. thenList' = thenList /\ queue' = Append(jobs, job)
    BY <1>1 DEF PromiseThen
  <2> HIDE DEF job
  <2>4. QED
    BY <2>2, <2>3, JobAdded
<1>2. CASE ~ Settled(s)
  <2>1. thenList' = WithEntry(thenList, s, e) /\ queue' = jobs
    BY <1>2 DEF PromiseThen, WithEntry
  <2>2. thenList \in Lists
    BY DEF HeapInv, Lists
  <2>3. QED
    BY <2>1, <2>2, EntryAdded
<1>3. QED
  BY <1>1, <1>2

(* A reaction in hand is not also waiting, its duty being owed only once.   *)
LEMMA InHandOnly ==
  ASSUME NEW L, NEW Q, NEW B, NEW r,
         OneEach(L, Q, {r[2]}, B)
  PROVE  r \notin Waiting(L, Q)
<1>1. \A s \in Promise : \A i \in 1..Len(L[s]) : DutyOf(L[s][i]) # r[2]
  BY DEF OneEach, Apart
<1>2. \A i \in 1..Len(Q) : DutyOfJob(Q[i]) # r[2]
  BY DEF OneEach, Apart
<1>3. \A s, e : EntryReaction(s, e)[2] = DutyOf(e)
  BY DEF EntryReaction
<1>4. \A j : JobReaction(j)[2] = DutyOfJob(j)
  BY DEF JobReaction
<1>5. QED
  BY <1>1, <1>2, <1>3, <1>4, WaitingDef

(* The outcomes, after each way the heap may change.                        *)
LEMMA OutcomesForm ==
  ASSUME HeapInv, NEW p \in Promise
  PROVE  /\ state[p] = "unborn" => Outcomes[p] = <<"unborn">>
         /\ state[p] = "pending" => Outcomes[p] = <<"pending">>
         /\ Settled(p) => Outcomes[p] = <<state[p], value[p]>>
         /\ Outcomes[p] = <<"pending">> => state[p] = "pending"
BY DEF Outcomes, OutcomeOf, Settled, Side, HeapInv

LEMMA BornOutcome ==
  ASSUME HeapInv, NEW t \in Promise, ~ Born(t),
         state' = [state EXCEPT ![t] = "pending"], value' = value
  PROVE  Outcomes' = [Outcomes EXCEPT ![t] = <<"pending">>]
BY DEF HeapInv, Outcomes, OutcomeOf, Settled, Side, Born

LEMMA ResolvedOutcome ==
  ASSUME HeapInv, NEW jobs, NEW p \in Promise, NEW v, NEW side \in Side,
         PromiseResolve(jobs, p, v, side)
  PROVE  Outcomes' = [Outcomes EXCEPT ![p] = IF @ = <<"pending">> THEN <<side, v>> ELSE @]
<1>1. CASE state[p] # "pending"
  <2>1. state' = state /\ value' = value
    BY <1>1 DEF PromiseResolve
  <2>2. Outcomes[p] # <<"pending">>
    BY <1>1, OutcomesForm
  <2>3. Outcomes' = Outcomes
    BY <2>1 DEF Outcomes, OutcomeOf, Settled
  <2>4. QED
    BY <2>2, <2>3 DEF Outcomes
<1>2. CASE state[p] = "pending"
  <2>1. state' = [state EXCEPT ![p] = side] /\ value' = [value EXCEPT ![p] = v]
    BY <1>2 DEF PromiseResolve
  <2>2. Outcomes[p] = <<"pending">>
    BY <1>2, OutcomesForm
  <2>3. \A q \in Promise : Outcomes'[q] = IF q = p THEN <<side, v>> ELSE Outcomes[q]
    BY <2>1 DEF HeapInv, Outcomes, OutcomeOf, Settled
  <2>4. QED
    BY <2>2, <2>3 DEF Outcomes
<1>3. QED
  BY <1>1, <1>2

LEMMA SameOutcome ==
  ASSUME state' = state, value' = value
  PROVE  Outcomes' = Outcomes
BY DEF Outcomes, OutcomeOf, Settled

-----------------------------------------------------------------------------
(* The actions of the contract, in terms of the mapping.                    *)
LEMMA Mapped ==
  /\ Contract!cvars = <<Outcomes, ReactionsNow>>
  /\ Contract!Unborn = <<"unborn">> /\ Contract!Pending = <<"pending">>
  /\ Contract!Settlement = Side \X Value
BY DEF Outcomes, ReactionsNow, Contract!cvars, Contract!Unborn, Contract!Pending,
       Contract!Settlement, Contract!Side, Side

LEMMA CreateMapped ==
  ASSUME NEW p \in Promise, Outcomes[p] = <<"unborn">>,
         Outcomes' = [Outcomes EXCEPT ![p] = <<"pending">>], ReactionsNow' = ReactionsNow
  PROVE  Contract!Create(p)
BY DEF Contract!Create, Contract!Unborn, Contract!Pending, Outcomes, ReactionsNow

LEMMA RegisterMapped ==
  ASSUME NEW s \in Promise, NEW t \in Promise,
         Outcomes[s] # <<"unborn">>, Outcomes[t] = <<"unborn">>,
         Outcomes' = [Outcomes EXCEPT ![t] = <<"pending">>],
         ReactionsNow' = ReactionsNow \cup {<<s, t, "then">>}
  PROVE  Contract!Register(s, t)
BY DEF Contract!Register, Contract!Unborn, Contract!Pending, Outcomes, ReactionsNow

LEMMA SettleMapped ==
  ASSUME NEW p \in Promise, NEW o, Outcomes[p] = <<"pending">>,
         Outcomes' = [Outcomes EXCEPT ![p] = o], ReactionsNow' = ReactionsNow
  PROVE  Contract!Settle(p, o)
BY DEF Contract!Settle, Contract!Pending, Outcomes, ReactionsNow

LEMMA DischargeMapped ==
  ASSUME NEW r, NEW o, ReactionsNow' = ReactionsNow \ {r},
         Outcomes' = [Outcomes EXCEPT ![r[2]] = IF @ = <<"pending">> THEN o ELSE @]
  PROVE  Contract!Discharge(r, o)
BY DEF Contract!Discharge, Contract!Pending, Outcomes, ReactionsNow

LEMMA RelinkMapped ==
  ASSUME NEW r, NEW q, Outcomes[q] # <<"unborn">>, q # r[2],
         ReactionsNow' = (ReactionsNow \ {r}) \cup {<<q, r[2], "link">>},
         Outcomes' = Outcomes
  PROVE  Contract!Relink(r, q)
BY DEF Contract!Relink, Contract!Unborn, Outcomes, ReactionsNow

LEMMA GiveUpMapped ==
  ASSUME NEW r, ReactionsNow' = ReactionsNow \ {r}, Outcomes' = Outcomes
  PROVE  Contract!GiveUp(r)
BY DEF Contract!GiveUp, Outcomes, ReactionsNow

LEMMA SettledMapped ==
  ASSUME NEW p \in Promise, Outcomes[p] \in Side \X Value
  PROVE  Contract!Settled(p)
BY Mapped DEF Contract!Settled, Outcomes

(* A reaction of a settled source may fire, in one of three ways.           *)
LEMMA FireThenMapped ==
  ASSUME NEW s \in Promise, NEW t \in Promise, Outcomes[s] \in Side \X Value,
         <<s, t, "then">> \in ReactionsNow,
         \/ \E o \in Side \X Value : Contract!Discharge(<<s, t, "then">>, o)
         \/ \E q \in Promise : Contract!Relink(<<s, t, "then">>, q)
         \/ Contract!GiveUp(<<s, t, "then">>)
  PROVE  Contract!FireThen(s, t)
<1>1. Contract!Settled(s)
  BY SettledMapped
<1>2. QED
  BY <1>1, Mapped DEF Contract!FireThen, ReactionsNow

(***************************************************************************)
(* The end of job j, which has left the queue, with the result v: its       *)
(* reaction is discharged, relinked or given up.                            *)
(***************************************************************************)
LEMMA FinishFires ==
  ASSUME HeapInv, NEW jobs \in Seq(WFJob), NEW j \in GoodJob, j.next \in Promise,
         NEW v \in BornValue, NEW side \in Side,
         FinishJob(jobs, j.next, v, side),
         ReactionsNow = Waiting(thenList, jobs) \cup {JobReaction(j)},
         JobReaction(j) \notin Waiting(thenList, jobs),
         ReactionsNow' = Waiting(thenList', queue')
  PROVE  Contract!FireThen(j.src, j.next)
<1> DEFINE t == j.next
           s == j.src
           r == <<s, t, "then">>
<1>1. JobReaction(j) = r /\ r[2] = t /\ s \in Promise
  BY IgnoredIsNew DEF JobReaction, DutyOfJob, KindOf, GoodJob, WFJob, Job
<1>2. Settled(s) /\ Outcomes[s] \in Side \X Value
  <2>1. state[s] \in Side /\ value[s] \in Value
    BY DEF GoodJob, WFJob, Job, CarriesOutcome
  <2>2. Settled(s)
    BY <2>1 DEF Settled
  <2>3. Outcomes[s] = <<state[s], value[s]>>
    BY <1>1, <2>2, OutcomesForm
  <2>4. QED
    BY <2>1, <2>2, <2>3
<1>3. r \in ReactionsNow /\ ReactionsNow \ {r} = Waiting(thenList, jobs)
  BY <1>1
<1> HIDE DEF s, r
<1>4. CASE v \notin Promise
  <2>1. PromiseResolve(jobs, t, v, side)
    BY <1>4 DEF FinishJob
  <2>2. v \in Value
    BY DEF BornValue
  <2>3. ReactionsNow' = ReactionsNow \ {r}
    BY <1>3, <2>1, <2>2, ResolveReactions
  <2>4. Outcomes' = [Outcomes EXCEPT ![t] = IF @ = <<"pending">> THEN <<side, v>> ELSE @]
    BY <2>1, ResolvedOutcome
  <2>5. Contract!Discharge(r, <<side, v>>) /\ <<side, v>> \in Side \X Value
    BY <1>1, <2>2, <2>3, <2>4, DischargeMapped
  <2>6. QED
    BY <1>1, <1>2, <1>3, <2>5, FireThenMapped DEF s, r
<1>5. CASE v = t
  <2>1. ReactionsNow' = ReactionsNow \ {r} /\ Outcomes' = Outcomes
    BY <1>3, <1>5, SameOutcome DEF FinishJob, PromiseChain
  <2>2. Contract!GiveUp(r)
    BY <2>1, GiveUpMapped
  <2>3. QED
    BY <1>1, <1>2, <1>3, <2>2, FireThenMapped DEF s, r
<1>6. CASE v \in Promise /\ v # t
  <2>1. PromiseThen(jobs, v, LinkTo(t)) /\ UNCHANGED <<state, value>>
    BY <1>6 DEF FinishJob, PromiseChain, LinkTo
  <2>2. LinkTo(t) \in WFEntry /\ EntryReaction(v, LinkTo(t)) = <<v, t, "link">>
    <3>1. LinkTo(t) \in WFEntry /\ DutyOf(LinkTo(t)) = t
      BY LinkToIsWF
    <3>2. LinkTo(t).next = Ignored
      BY DEF LinkTo
    <3>3. QED
      BY <3>1, <3>2 DEF EntryReaction, KindOf
  <2>3. ReactionsNow' = (ReactionsNow \ {r}) \cup {<<v, t, "link">>}
    BY <1>3, <1>6, <2>1, <2>2, ThenReactions
  <2>4. Outcomes' = Outcomes
    BY <2>1, SameOutcome
  <2>5. Outcomes[v] # <<"unborn">>
    BY <1>6 DEF BornValue, Born, HeapInv, Outcomes, OutcomeOf, Settled, Side
  <2>6. Contract!Relink(r, v)
    BY <1>1, <1>6, <2>3, <2>4, <2>5, RelinkMapped
  <2>7. QED
    BY <1>1, <1>2, <1>3, <1>6, <2>6, FireThenMapped DEF s, r
<1>7. QED
  BY <1>4, <1>5, <1>6

(* The head of the queue in hand: its reaction, and the others.             *)
LEMMA HeadInHand ==
  ASSUME IInv, DutyInv, queue # <<>>, running = NoJob
  PROVE  /\ Head(queue) \in GoodJob /\ Head(queue) \in WFJob /\ Tail(queue) \in Seq(WFJob)
         /\ Head(queue).value \in BornValue /\ Head(queue).side \in Side
         /\ ReactionsNow = Waiting(thenList, Tail(queue)) \cup {JobReaction(Head(queue))}
         /\ JobReaction(Head(queue)) \notin Waiting(thenList, Tail(queue))
<1>1. queue \in Seq(WFJob)
  <2>1. GoodJob \subseteq WFJob
    BY DEF GoodJob
  <2>2. QED
    BY <2>1, SeqMonotonic DEF IInv
<1>2. Tail(queue) \in Seq(WFJob)
  BY <1>1, HeadTailProperties
<1>3. ReactionsNow = Waiting(thenList, Tail(queue)) \cup {JobReaction(Head(queue))}
  <2>1. ReactionsNow = Waiting(thenList, queue)
    BY ReactionsForm DEF ReactionsRight, InHandReactions
  <2>2. QED
    BY <1>1, <2>1, HeadReaction
<1>4. OneEach(thenList, Tail(queue), {DutyOfJob(Head(queue))}, AllBorn)
  BY <1>1, TakeHead DEF DutyInv, InHand, IInv, HeapInv, Lists
<1>5. JobReaction(Head(queue))[2] = DutyOfJob(Head(queue))
  BY DEF JobReaction
<1>6. JobReaction(Head(queue)) \notin Waiting(thenList, Tail(queue))
  BY <1>4, <1>5, InHandOnly
<1>7. QED
  BY <1>2, <1>3, <1>6, HeadIsGood DEF GoodJob

LEMMA ReactionsFormNext == IInv' => ReactionsRight'
BY ReactionsForm, PTL

(***************************************************************************)
(* Every step is a step of the contract, or changes nothing it speaks of.   *)
(***************************************************************************)
LEMMA StepContract ==
  IInv /\ DutyInv /\ [Next]_vars => [Contract!ContractNext]_(Contract!cvars)
<1> SUFFICES ASSUME IInv, DutyInv, [Next]_vars
             PROVE  [Contract!ContractNext]_(Contract!cvars)
  OBVIOUS
<1>1. HeapInv /\ queue \in Seq(WFJob)
  <2>1. GoodJob \subseteq WFJob
    BY DEF GoodJob
  <2>2. QED
    BY <2>1, SeqMonotonic DEF IInv
<1>2. /\ ReactionsNow = Waiting(thenList, queue) \cup InHandReactions
      /\ ReactionsNow' = Waiting(thenList', queue') \cup InHandReactions'
  BY ReactionsForm, ReactionsFormNext, StepIInv DEF ReactionsRight
<1>3. ASSUME Outcomes' = Outcomes, ReactionsNow' = ReactionsNow
      PROVE  [Contract!ContractNext]_(Contract!cvars)
  <2>1. Contract!cvars = <<Outcomes, ReactionsNow>> /\ Contract!cvars' = <<Outcomes', ReactionsNow'>>
    BY DEF Contract!cvars, Outcomes, ReactionsNow
  <2>2. QED
    BY <1>3, <2>1
<1>4. ASSUME NEW p \in Promise, Alloc(p) PROVE Contract!ContractNext
  <2>1. Outcomes[p] = <<"unborn">> /\ Outcomes' = [Outcomes EXCEPT ![p] = <<"pending">>]
    BY <1>1, <1>4, OutcomesForm, BornOutcome DEF Alloc, Born
  <2>2. ReactionsNow' = ReactionsNow
    BY <1>2, <1>4 DEF Alloc, InHandReactions
  <2>3. Contract!Create(p)
    BY <2>1, <2>2, CreateMapped
  <2>4. QED
    BY <2>3 DEF Contract!ContractNext
<1>5. ASSUME NEW s \in Promise, NEW t \in Promise,
             NEW f \in HandlerChoice, NEW r \in HandlerChoice, Then(s, t, f, r)
      PROVE  Contract!ContractNext
  <2>1. /\ Outcomes[t] = <<"unborn">> /\ Outcomes' = [Outcomes EXCEPT ![t] = <<"pending">>]
        /\ Outcomes[s] # <<"unborn">>
    <3>1. Outcomes[t] = <<"unborn">> /\ Outcomes' = [Outcomes EXCEPT ![t] = <<"pending">>]
      BY <1>1, <1>5, OutcomesForm, BornOutcome DEF Then, Born
    <3>2. Outcomes[s] # <<"unborn">>
      BY <1>1, <1>5 DEF Then, Born, HeapInv, Outcomes, OutcomeOf, Settled, Side
    <3>3. QED
      BY <3>1, <3>2
  <2>2. HandlerEntry(f, r, t) \in WFEntry /\ EntryReaction(s, HandlerEntry(f, r, t)) = <<s, t, "then">>
    <3>1. HandlerEntry(f, r, t).next = t
      BY DEF HandlerEntry
    <3>2. QED
      BY <3>1, HandlerEntryIsWF, IgnoredIsNew DEF EntryReaction, KindOf
  <2>3. PromiseThen(queue, s, HandlerEntry(f, r, t)) /\ running' = running
    BY <1>5 DEF Then, HandlerEntry
  <2>4. Waiting(thenList', queue') = Waiting(thenList, queue) \cup {<<s, t, "then">>}
    BY <1>1, <2>2, <2>3, ThenReactions
  <2>5. ReactionsNow' = ReactionsNow \cup {<<s, t, "then">>}
    BY <1>2, <2>3, <2>4 DEF InHandReactions
  <2>6. Contract!Register(s, t)
    BY <2>1, <2>5, RegisterMapped
  <2>7. QED
    BY <2>6 DEF Contract!ContractNext
<1>6. ASSUME NEW p \in Promise, NEW v \in Passed, NEW side \in Side, Resolve(p, v, side)
      PROVE  [Contract!ContractNext]_(Contract!cvars)
  <2>1. PromiseResolve(queue, p, v, side) /\ running' = running /\ v \in Value
    BY <1>6, PassedAreValues DEF Resolve, Value
  <2>2. ReactionsNow' = ReactionsNow
    BY <1>1, <1>2, <2>1, ResolveReactions DEF InHandReactions
  <2>3. Outcomes' = [Outcomes EXCEPT ![p] = IF @ = <<"pending">> THEN <<side, v>> ELSE @]
    BY <1>1, <2>1, ResolvedOutcome
  <2>4. CASE Outcomes[p] = <<"pending">>
    <3>1. Outcomes' = [Outcomes EXCEPT ![p] = <<side, v>>] /\ <<side, v>> \in Side \X Value
      BY <2>1, <2>3, <2>4
    <3>2. Contract!Settle(p, <<side, v>>)
      BY <2>2, <2>4, <3>1, SettleMapped
    <3>3. QED
      BY <2>1, <3>2, Mapped DEF Contract!ContractNext
  <2>5. CASE Outcomes[p] # <<"pending">>
    <3>1. Outcomes' = Outcomes
      BY <2>3, <2>5 DEF Outcomes
    <3>2. QED
      BY <1>3, <2>2, <3>1
  <2>6. QED
    BY <2>4, <2>5
<1>7. CASE RunForward
  <2> DEFINE job == Head(queue)
  <2>1. /\ queue # <<>> /\ running = NoJob /\ running' = NoJob /\ job.fn.kind = "nil"
        /\ FinishJob(Tail(queue), job.next, job.value, job.side)
    BY <1>7 DEF RunForward, NextJob
  <2>2. /\ job \in GoodJob /\ job \in WFJob /\ Tail(queue) \in Seq(WFJob)
        /\ job.value \in BornValue /\ job.side \in Side
        /\ ReactionsNow = Waiting(thenList, Tail(queue)) \cup {JobReaction(job)}
        /\ JobReaction(job) \notin Waiting(thenList, Tail(queue))
    BY <2>1, HeadInHand
  <2>3. ReactionsNow' = Waiting(thenList', queue')
    BY <1>2, <2>1 DEF InHandReactions
  <2> HIDE DEF job
  <2>4. job.next \in Promise /\ job.src \in Promise
    BY <2>1, <2>2 DEF WFJob, Job
  <2>5. Contract!FireThen(job.src, job.next)
    BY <1>1, <2>1, <2>2, <2>3, <2>4, FinishFires
  <2>6. QED
    BY <2>4, <2>5 DEF Contract!ContractNext, Contract!Fire
<1>8. CASE RunSettle
  <2> DEFINE job == Head(queue)
             t   == job.fn.target
             r   == <<job.src, t, "link">>
  <2>1. /\ queue # <<>> /\ running = NoJob /\ running' = NoJob /\ job.fn.kind = "settle"
        /\ PromiseResolve(Tail(queue), t, job.value, job.fn.side)
    BY <1>8 DEF RunSettle, NextJob
  <2>2. /\ job \in GoodJob /\ job \in WFJob /\ Tail(queue) \in Seq(WFJob)
        /\ job.value \in BornValue
        /\ ReactionsNow = Waiting(thenList, Tail(queue)) \cup {JobReaction(job)}
        /\ JobReaction(job) \notin Waiting(thenList, Tail(queue))
    BY <2>1, HeadInHand
  <2>3. ReactionsNow' = Waiting(thenList', queue')
    BY <1>2, <2>1 DEF InHandReactions
  <2> HIDE DEF job
  <2>4. /\ t \in Promise /\ job.src \in Promise /\ job.fn.side = job.side /\ job.side \in Side
        /\ job.value \in Value /\ job.next = Ignored
        /\ state[job.src] = job.side /\ value[job.src] = job.value
    BY <2>1, <2>2 DEF GoodJob, WFJob, Job, CarriesOutcome
  <2>5. JobReaction(job) = r /\ r[2] = t
    BY <2>4 DEF JobReaction, DutyOfJob, KindOf
  <2>6. Outcomes[job.src] = <<job.side, job.value>>
    BY <1>1, <2>4, OutcomesForm DEF Settled
  <2>7. ReactionsNow' = ReactionsNow \ {r}
    <3>1. Waiting(thenList', queue') = Waiting(thenList, Tail(queue))
      BY <1>1, <2>1, <2>2, <2>4, ResolveReactions
    <3>2. QED
      BY <2>2, <2>3, <2>5, <3>1
  <2>8. Outcomes' = [Outcomes EXCEPT ![t] = IF @ = <<"pending">> THEN <<job.side, job.value>> ELSE @]
    <3>1. job.fn.side \in Side
      BY <2>4
    <3>2. Outcomes' = [Outcomes EXCEPT ![t] = IF @ = <<"pending">> THEN <<job.fn.side, job.value>> ELSE @]
      BY <1>1, <2>1, <2>4, <3>1, ResolvedOutcome
    <3>3. QED
      BY <2>4, <3>2
  <2>9. Contract!Discharge(r, Outcomes[job.src])
    BY <2>5, <2>6, <2>7, <2>8, DischargeMapped
  <2>10. Contract!Settled(job.src) /\ r \in ReactionsNow
    <3>1. Outcomes[job.src] \in Side \X Value
      BY <2>4, <2>6
    <3>2. QED
      BY <2>2, <2>4, <2>5, <3>1, SettledMapped
  <2>11. Contract!FireLink(job.src, t)
    BY <2>9, <2>10 DEF Contract!FireLink, Outcomes, ReactionsNow
  <2>12. QED
    BY <2>4, <2>11 DEF Contract!ContractNext, Contract!Fire
<1>9. CASE CallbackStarts
  <2>1. /\ queue # <<>> /\ running = NoJob /\ running' = Head(queue)
        /\ queue' = Tail(queue) /\ thenList' = thenList /\ state' = state /\ value' = value
    BY <1>9 DEF CallbackStarts, NextJob
  <2>2. ReactionsNow = Waiting(thenList, Tail(queue)) \cup {JobReaction(Head(queue))}
    BY <2>1, HeadInHand
  <2>3. InHandReactions' = {JobReaction(Head(queue))}
    <3>1. Head(queue) \in Job
      BY <2>1, HeadInHand DEF WFJob
    <3>2. running' # NoJob
      BY <2>1, <3>1, NoJobIsNotAJob
    <3>3. QED
      BY <2>1, <3>2 DEF InHandReactions
  <2>4. ReactionsNow' = ReactionsNow
    BY <1>2, <2>1, <2>2, <2>3
  <2>5. QED
    BY <1>3, <2>1, <2>4, SameOutcome
<1>10. ASSUME NEW v \in BornValue, NEW side \in Side, running # NoJob, running' = NoJob,
              FinishJob(queue, running.next, v, side)
       PROVE  Contract!ContractNext
  <2>1. running \in GoodJob /\ running \in WFJob /\ running.fn.kind = "user"
    BY <1>10 DEF IInv, GoodJob
  <2>2. running.next \in Promise /\ running.src \in Promise
    BY <2>1 DEF WFJob, Job
  <2>3. /\ ReactionsNow = Waiting(thenList, queue) \cup {JobReaction(running)}
        /\ ReactionsNow' = Waiting(thenList', queue')
    BY <1>2, <1>10 DEF InHandReactions
  <2>4. JobReaction(running) \notin Waiting(thenList, queue)
    <3>1. JobReaction(running)[2] = DutyOfJob(running)
      BY DEF JobReaction
    <3>2. OneEach(thenList, queue, {DutyOfJob(running)}, AllBorn)
      BY <1>10 DEF DutyInv, InHand
    <3>3. QED
      BY <3>1, <3>2, InHandOnly
  <2>5. Contract!FireThen(running.src, running.next)
    BY <1>1, <1>10, <2>1, <2>2, <2>3, <2>4, FinishFires
  <2>6. QED
    BY <2>2, <2>5 DEF Contract!ContractNext, Contract!Fire
<1>11. CASE CallbackEnds
  <2>1. ASSUME NEW v \in Value, CallbackReturns(v) PROVE Contract!ContractNext
    BY <1>10, <2>1 DEF CallbackReturns, Side, BornValue
  <2>2. ASSUME NEW v \in Plain, CallbackThrows(v) PROVE Contract!ContractNext
    BY <1>10, <2>2, PlainIsNotPromise DEF CallbackThrows, Side, Value, BornValue
  <2>3. QED
    BY <1>11, <2>1, <2>2 DEF CallbackEnds
<1>12. CASE MainReturns \/ Exit \/ UNCHANGED vars
  <2>1. /\ state' = state /\ value' = value /\ thenList' = thenList
        /\ queue' = queue /\ running' = running
    BY <1>12 DEF MainReturns, Exit, vars
  <2>2. ReactionsNow' = ReactionsNow
    BY <1>2, <2>1 DEF InHandReactions
  <2>3. QED
    BY <1>3, <2>1, <2>2, SameOutcome
<1>13. QED
  BY <1>4, <1>5, <1>6, <1>7, <1>8, <1>9, <1>11, <1>12 DEF Next, RunJob, Exited

(* Nothing is owed and nobody is born at first.                             *)
LEMMA InitContract == Init => Contract!ContractInit
<1> SUFFICES ASSUME Init PROVE Contract!ContractInit
  OBVIOUS
<1>1. ReactionsNow = {}
  <2>1. ReactionsNow = Waiting(thenList, queue) \cup InHandReactions
    BY InitIInv, ReactionsForm DEF ReactionsRight
  <2>2. QED
    BY <2>1 DEF Init, Waiting, InHandReactions
<1>2. Outcomes = [p \in Promise |-> <<"unborn">>]
  BY DEF Init, Outcomes, OutcomeOf, Settled, Side
<1>3. QED
  BY <1>1, <1>2 DEF Contract!ContractInit, Contract!Unborn, Outcomes, ReactionsNow

(***************************************************************************)
(* The then_lists and the job queue implement the contract of               *)
(* PromiseContract, fairness aside: for any promises, values and program,   *)
(* what promise.c does is what promises promise.                            *)
(***************************************************************************)
THEOREM ContractKept == Spec => KeepsContract
BY InitContract, StepContract, DutyInvariance, PTL DEF Spec, KeepsContract

-----------------------------------------------------------------------------
(***************************************************************************)
(* When a duty goes.  A promise is owed when a reaction, waiting or in      *)
(* hand, is to settle it.                                                   *)
(***************************************************************************)
OwedIn(X, t) == \E r \in X : r[2] = t

OwedRight == \A t : Owed(t) <=> OwedIn(ReactionsNow, t)

LEMMA OwedForm == IInv => OwedRight
<1> SUFFICES ASSUME IInv, NEW t PROVE Owed(t) <=> OwedIn(ReactionsNow, t)
  BY DEF OwedRight
<1>1. \A a \in Places : ReactionAt(a)[2] = OwedAt(a)
  <2> SUFFICES ASSUME NEW a \in Places PROVE ReactionAt(a)[2] = OwedAt(a)
    OBVIOUS
  <2>1. InList(a) \/ InQueue(a) \/ IsRunning(a)
    BY PlaceForms
  <2>2. CASE InList(a)
    BY <2>2 DEF InList, ReactionAt
  <2>3. CASE InQueue(a)
    BY <2>3 DEF InQueue, ReactionAt
  <2>4. CASE IsRunning(a)
    BY <2>4 DEF IsRunning, ReactionAt
  <2>5. QED
    BY <2>1, <2>2, <2>3, <2>4
<1>2. QED
  BY <1>1 DEF Owed, OwedIn, ReactionsNow

LEMMA OwedFormNext == IInv' => OwedRight'
BY OwedForm, PTL

(* promise_resolve leaves the promise it is called for settled.             *)
LEMMA ResolveSettles ==
  ASSUME HeapInv, NEW jobs, NEW p \in Promise, NEW v, NEW side \in Side, Born(p),
         PromiseResolve(jobs, p, v, side)
  PROVE  Settled(p)'
BY DEF HeapInv, PromiseResolve, Settled, Born, Side

(* The end of job j gives up its duty only when the result is the promise.  *)
LEMMA FinishOwed ==
  ASSUME HeapInv, NEW jobs \in Seq(WFJob), NEW j \in GoodJob, j.next \in Promise, Born(j.next),
         NEW v \in BornValue, NEW side \in Side,
         FinishJob(jobs, j.next, v, side),
         ReactionsNow = Waiting(thenList, jobs) \cup {JobReaction(j)},
         ReactionsNow' = Waiting(thenList', queue'),
         NEW t, OwedIn(ReactionsNow, t), ~ OwedIn(ReactionsNow', t)
  PROVE  (t = j.next /\ Settled(t)') \/ (v = j.next /\ t = j.next)
<1>1. JobReaction(j)[2] = j.next
  BY IgnoredIsNew DEF JobReaction, DutyOfJob
<1>2. Waiting(thenList, jobs) \subseteq Waiting(thenList', queue')
  <2>1. CASE v \notin Promise
    <3>1. Waiting(thenList', queue') = Waiting(thenList, jobs)
      BY <2>1, ResolveReactions DEF FinishJob, BornValue
    <3>2. QED
      BY <3>1
  <2>2. CASE v = j.next
    BY <2>2 DEF FinishJob, PromiseChain
  <2>3. CASE v \in Promise /\ v # j.next
    <3>1. PromiseThen(jobs, v, LinkTo(j.next)) /\ LinkTo(j.next) \in WFEntry
      BY <2>3, LinkToIsWF DEF FinishJob, PromiseChain, LinkTo
    <3>2. Waiting(thenList', queue')
            = Waiting(thenList, jobs) \cup {EntryReaction(v, LinkTo(j.next))}
      BY <2>3, <3>1, ThenReactions
    <3>3. QED
      BY <3>2
  <2>4. QED
    BY <2>1, <2>2, <2>3
<1>3. t = j.next
  BY <1>1, <1>2 DEF OwedIn
<1>4. CASE v \notin Promise
  BY <1>3, <1>4, ResolveSettles DEF FinishJob
<1>5. CASE v \in Promise /\ v # j.next
  <2>1. PromiseThen(jobs, v, LinkTo(j.next)) /\ LinkTo(j.next) \in WFEntry
    BY <1>5, LinkToIsWF DEF FinishJob, PromiseChain, LinkTo
  <2>2. EntryReaction(v, LinkTo(j.next)) \in ReactionsNow'
    <3>1. Waiting(thenList', queue')
            = Waiting(thenList, jobs) \cup {EntryReaction(v, LinkTo(j.next))}
      BY <1>5, <2>1, ThenReactions
    <3>2. QED
      BY <3>1
  <2>3. EntryReaction(v, LinkTo(j.next))[2] = t
    BY <1>3, LinkToIsWF DEF EntryReaction
  <2>4. QED
    BY <2>2, <2>3 DEF OwedIn
<1>6. QED
  BY <1>3, <1>4, <1>5

(* One step.                                                                *)
LEMMA StepGivesUp ==
  ASSUME IInv, DutyInv, [Next]_vars, NEW t \in Promise, Owed(t), ~ Owed(t)'
  PROVE  Settled(t)' \/ SelfLink(t)
<1>1. HeapInv /\ queue \in Seq(WFJob)
  <2>1. GoodJob \subseteq WFJob
    BY DEF GoodJob
  <2>2. QED
    BY <2>1, SeqMonotonic DEF IInv
<1>2. /\ ReactionsNow = Waiting(thenList, queue) \cup InHandReactions
      /\ ReactionsNow' = Waiting(thenList', queue') \cup InHandReactions'
  BY ReactionsForm, ReactionsFormNext, StepIInv DEF ReactionsRight
<1>3. OwedIn(ReactionsNow, t) /\ ~ OwedIn(ReactionsNow', t)
  BY OwedForm, OwedFormNext, StepIInv DEF OwedRight
<1>4. ASSUME ReactionsNow \subseteq ReactionsNow' PROVE FALSE
  BY <1>3, <1>4 DEF OwedIn
<1>5. ASSUME running' = running, Waiting(thenList, queue) \subseteq Waiting(thenList', queue')
      PROVE  FALSE
  <2>1. InHandReactions' = InHandReactions
    BY <1>5 DEF InHandReactions
  <2>2. ReactionsNow \subseteq ReactionsNow'
    BY <1>2, <1>5, <2>1
  <2>3. QED
    BY <1>4, <2>2
<1>6. ASSUME NEW p \in Promise, Alloc(p) PROVE FALSE
  BY <1>5, <1>6 DEF Alloc
<1>7. ASSUME NEW s \in Promise, NEW u \in Promise,
             NEW f \in HandlerChoice, NEW r \in HandlerChoice, Then(s, u, f, r)
      PROVE  FALSE
  <2>1. PromiseThen(queue, s, HandlerEntry(f, r, u)) /\ running' = running
    BY <1>7 DEF Then, HandlerEntry
  <2>2. Waiting(thenList', queue')
          = Waiting(thenList, queue) \cup {EntryReaction(s, HandlerEntry(f, r, u))}
    BY <1>1, <2>1, HandlerEntryIsWF, ThenReactions
  <2>3. QED
    BY <1>5, <2>1, <2>2
<1>8. ASSUME NEW p \in Promise, NEW v \in Passed, NEW side \in Side, Resolve(p, v, side)
      PROVE  FALSE
  <2>1. PromiseResolve(queue, p, v, side) /\ running' = running /\ v \in Value
    BY <1>8, PassedAreValues DEF Resolve, Value
  <2>2. Waiting(thenList', queue') = Waiting(thenList, queue)
    BY <1>1, <2>1, ResolveReactions
  <2>3. QED
    BY <1>5, <2>1, <2>2
<1>9. CASE RunForward
  <2> DEFINE job == Head(queue)
  <2>1. /\ queue # <<>> /\ running = NoJob /\ running' = NoJob /\ job.fn.kind = "nil"
        /\ FinishJob(Tail(queue), job.next, job.value, job.side)
    BY <1>9 DEF RunForward, NextJob
  <2>2. /\ job \in GoodJob /\ job \in WFJob /\ Tail(queue) \in Seq(WFJob)
        /\ job.value \in BornValue /\ job.side \in Side
        /\ ReactionsNow = Waiting(thenList, Tail(queue)) \cup {JobReaction(job)}
    BY <2>1, HeadInHand
  <2>3. ReactionsNow' = Waiting(thenList', queue')
    BY <1>2, <2>1 DEF InHandReactions
  <2>4. DutyOfJob(job) \in AllBorn
    <3>1. queue \in Seq(WFJob) /\ 1 \in 1..Len(queue) /\ job = queue[1]
      BY <1>1, <2>1, EmptySeq, HeadTailProperties
    <3>2. QED
      BY <3>1 DEF DutyInv, OneEach, OwesOnly
  <2>5. SelfLink(job.value)
    BY <1>9 DEF SelfLink
  <2> HIDE DEF job
  <2>6. job.next \in Promise /\ Born(job.next)
    <3>1. job.next \in Promise /\ DutyOfJob(job) = job.next
      BY <2>1, <2>2 DEF WFJob, Job, DutyOfJob
    <3>2. QED
      BY <2>4, <3>1 DEF AllBorn
  <2>7. (t = job.next /\ Settled(t)') \/ (job.value = job.next /\ t = job.next)
    BY <1>1, <1>3, <2>1, <2>2, <2>3, <2>6, FinishOwed
  <2>8. QED
    BY <2>5, <2>7
<1>10. CASE RunSettle
  <2> DEFINE job == Head(queue)
             u   == job.fn.target
  <2>1. /\ queue # <<>> /\ running = NoJob /\ running' = NoJob /\ job.fn.kind = "settle"
        /\ PromiseResolve(Tail(queue), u, job.value, job.fn.side)
    BY <1>10 DEF RunSettle, NextJob
  <2>2. /\ job \in GoodJob /\ job \in WFJob /\ Tail(queue) \in Seq(WFJob)
        /\ job.value \in BornValue
        /\ ReactionsNow = Waiting(thenList, Tail(queue)) \cup {JobReaction(job)}
    BY <2>1, HeadInHand
  <2>3. ReactionsNow' = Waiting(thenList', queue')
    BY <1>2, <2>1 DEF InHandReactions
  <2>4. DutyOfJob(job) \in AllBorn
    <3>1. queue \in Seq(WFJob) /\ 1 \in 1..Len(queue) /\ job = queue[1]
      BY <1>1, <2>1, EmptySeq, HeadTailProperties
    <3>2. QED
      BY <3>1 DEF DutyInv, OneEach, OwesOnly
  <2> HIDE DEF job
  <2>5. u \in Promise /\ job.fn.side \in Side /\ job.value \in Value /\ job.next = Ignored
    BY <2>1, <2>2 DEF GoodJob, WFJob, Job, Handler
  <2>6. DutyOfJob(job) = u
    BY <2>5 DEF DutyOfJob
  <2>7. JobReaction(job)[2] = u
    BY <2>6 DEF JobReaction
  <2>8. Waiting(thenList', queue') = Waiting(thenList, Tail(queue))
    BY <1>1, <2>1, <2>2, <2>5, ResolveReactions
  <2>9. t = u
    BY <1>3, <2>2, <2>3, <2>7, <2>8 DEF OwedIn
  <2>10. PromiseResolve(Tail(queue), t, job.value, job.fn.side) /\ Born(t)
    BY <2>1, <2>4, <2>6, <2>9 DEF AllBorn
  <2>11. QED
    BY <1>1, <2>5, <2>10, ResolveSettles
<1>11. CASE CallbackStarts
  <2>1. /\ queue # <<>> /\ running = NoJob /\ running' = Head(queue)
        /\ queue' = Tail(queue) /\ thenList' = thenList
    BY <1>11 DEF CallbackStarts, NextJob
  <2>2. ReactionsNow = Waiting(thenList, Tail(queue)) \cup {JobReaction(Head(queue))}
    BY <2>1, HeadInHand
  <2>3. Head(queue) # NoJob
    BY <2>1, HeadInHand, NoJobIsNotAJob DEF WFJob
  <2>4. ReactionsNow' = ReactionsNow
    BY <1>2, <2>1, <2>2, <2>3 DEF InHandReactions
  <2>5. QED
    BY <1>4, <2>4
<1>12. ASSUME NEW v \in BornValue, NEW side \in Side, running # NoJob, running' = NoJob,
              FinishJob(queue, running.next, v, side)
       PROVE  Settled(t)' \/ v = t
  <2>1. running \in GoodJob /\ running \in WFJob /\ running.fn.kind = "user"
    BY <1>12 DEF IInv, GoodJob
  <2>2. running.next \in Promise /\ Born(running.next)
    <3>1. running.next \in Promise /\ DutyOfJob(running) = running.next
      BY <2>1 DEF WFJob, Job, DutyOfJob
    <3>2. DutyOfJob(running) \in AllBorn
      BY <1>12 DEF DutyInv, OneEach, OwesOnly, InHand
    <3>3. QED
      BY <3>1, <3>2 DEF AllBorn
  <2>3. /\ ReactionsNow = Waiting(thenList, queue) \cup {JobReaction(running)}
        /\ ReactionsNow' = Waiting(thenList', queue')
    BY <1>2, <1>12 DEF InHandReactions
  <2>4. (t = running.next /\ Settled(t)') \/ (v = running.next /\ t = running.next)
    BY <1>1, <1>3, <1>12, <2>1, <2>2, <2>3, FinishOwed
  <2>5. QED
    BY <2>4
<1>13. CASE CallbackEnds
  <2>1. ASSUME NEW v \in Value, CallbackReturns(v) PROVE Settled(t)' \/ SelfLink(t)
    <3>1. Settled(t)' \/ v = t
      BY <1>12, <2>1 DEF CallbackReturns, Side, BornValue
    <3>2. QED
      BY <2>1, <3>1 DEF SelfLink
  <2>2. ASSUME NEW v \in Plain, CallbackThrows(v) PROVE Settled(t)'
    <3>1. Settled(t)' \/ v = t
      BY <1>12, <2>2, PlainIsNotPromise DEF CallbackThrows, Side, Value, BornValue
    <3>2. QED
      BY <3>1, PlainIsNotPromise
  <2>3. QED
    BY <1>13, <2>1, <2>2 DEF CallbackEnds
<1>14. CASE MainReturns \/ Exit \/ UNCHANGED vars
  <2>1. thenList' = thenList /\ queue' = queue /\ running' = running
    BY <1>14 DEF MainReturns, Exit, vars
  <2>2. QED
    BY <1>5, <2>1
<1>15. QED
  BY <1>6, <1>7, <1>8, <1>9, <1>10, <1>11, <1>13, <1>14 DEF Next, RunJob, Exited

(***************************************************************************)
(* No duty is forgotten: a pending promise that somebody owes stays owed    *)
(* until it is settled, unless the result of its reaction is the promise    *)
(* itself (promise_chain's early return).                                   *)
(***************************************************************************)
THEOREM DutiesKept == Spec => GivesUpOnlySelfLinks
<1>1. IInv /\ DutyInv /\ [Next]_vars =>
        [\A t \in Promise : Owed(t) /\ ~ Owed(t)' => Settled(t)' \/ SelfLink(t)]_vars
  BY StepGivesUp
<1>2. QED
  BY <1>1, DutyInvariance, PTL DEF Spec, GivesUpOnlySelfLinks
=============================================================================
