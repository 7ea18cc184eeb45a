---------------------------- MODULE PromiseJobs -----------------------------
(***************************************************************************)
(* Promises and the job queue of the VM (src/src/promise.c), driven by a    *)
(* program: main() first, then the loop of src/src/main.c that runs the     *)
(* queued jobs until none is left.  Program code - main() or the callback   *)
(* of the running job - allocates promises, calls then(), fulfill() and     *)
(* reject() in any order; a callback returns a plain value, returns a       *)
(* promise, or fails with a native exception.                               *)
(*                                                                          *)
(* Reference counts are left to a module of their own: here a promise once  *)
(* allocated stays.                                                         *)
(***************************************************************************)
EXTENDS Sequences, Naturals

CONSTANTS
  Promise,     \* promise objects; their number bounds what a program allocates
  Plain,       \* values that are not promises
  Passed,      \* the values program code calls fulfill() and reject() with
  Ignored,     \* the `ignore_promise` of promise_chain: nothing else refers to
               \* it, so settling it is no step of the model
  NoJob        \* `running` between two jobs

ASSUME PlainIsNotPromise == Plain \cap Promise = {}
ASSUME IgnoredIsNew      == Ignored \notin Promise \cup Plain
ASSUME PassedAreValues   == Passed \subseteq Plain \cup Promise
NoValue == Ignored   \* the zeroed `value` of a promise that is not settled

Value == Plain \cup Promise
Side  == {"fulfilled", "rejected"}

(***************************************************************************)
(* A handler of then(): absent ("nil"), a function of the program ("user"), *)
(* or promise_chain's closure of Promise.fulfill / Promise.reject bound to  *)
(* its target ("settle").  `side` is the parameter of then() it was passed  *)
(* as, which for "settle" is also what the closure does.                    *)
(***************************************************************************)
Handler == [kind : {"nil", "user", "settle"},
            side : Side,
            target : Promise \cup {Ignored}]

\* vm_promise_then_t: one handler per way to settle, and the derived promise.
Entry == [fulfilled : Handler, rejected : Handler, next : Promise \cup {Ignored}]

\* vm_job_t; src is a history field: the promise whose settling made the job.
Job == [fn : Handler, value : Value, next : Promise \cup {Ignored},
        side : Side, src : Promise]

ASSUME NoJobIsNotAJob == NoJob \notin Job

VARIABLES
  state,       \* Promise.state of each promise, "unborn" before allocation
  value,       \* Promise.value
  thenList,    \* Promise.then_list, first entry first
  queue,       \* the job queue, head first
  phase,       \* "main", then "jobs" (run_promise_jobs), then "exited"
  running      \* the job whose callback is executing, or NoJob

vars == <<state, value, thenList, queue, phase, running>>

Born(p)    == state[p] # "unborn"
Settled(p) == state[p] \in Side

Init ==
  /\ state = [p \in Promise |-> "unborn"]
  /\ value = [p \in Promise |-> NoValue]
  /\ thenList = [p \in Promise |-> <<>>]
  /\ queue = <<>>
  /\ phase = "main"
  /\ running = NoJob

-----------------------------------------------------------------------------
(* The functions of promise.c; `jobs` is the queue they append to.          *)

\* Mutant: the fulfilled handler whatever the outcome.
JobForFulfilled(e, s, v, side) ==
  [fn |-> e.fulfilled, value |-> v, next |-> e.next, side |-> side, src |-> s]

\* The arguments of enqueue_promise_job for entry e of the promise s.
JobFor(e, s, v, side) ==
  [fn |-> e[side], value |-> v, next |-> e.next, side |-> side, src |-> s]

\* Mutant: no look at whether s is settled already.
ThenAlwaysWaits(jobs, s, e) ==
  /\ thenList' = [thenList EXCEPT ![s] = <<e>> \o @]
  /\ queue' = jobs

\* promise_then, the part after the derived promise e.next is allocated.
PromiseThen(jobs, s, e) ==
  IF Settled(s)
  THEN /\ queue' = Append(jobs, JobFor(e, s, value[s], state[s]))
       /\ UNCHANGED thenList
  ELSE /\ thenList' = [thenList EXCEPT ![s] = <<e>> \o @]
       /\ queue' = jobs

Reactions(p, v, side) ==
  [i \in 1..Len(thenList[p]) |-> JobFor(thenList[p][i], p, v, side)]

\* Mutant: a settled promise can be settled again.
ResolveAgain(jobs, p, v, side) ==
  /\ state' = [state EXCEPT ![p] = side]
  /\ value' = [value EXCEPT ![p] = v]
  /\ queue' = jobs \o Reactions(p, v, side)
  /\ thenList' = [thenList EXCEPT ![p] = <<>>]

\* Mutant: the then_list is not emptied.
ResolveKeepsList(jobs, p, v, side) ==
  IF state[p] = "pending"
  THEN /\ state' = [state EXCEPT ![p] = side]
       /\ value' = [value EXCEPT ![p] = v]
       /\ queue' = jobs \o Reactions(p, v, side)
       /\ UNCHANGED thenList
  ELSE /\ queue' = jobs
       /\ UNCHANGED <<state, value, thenList>>

\* promise_resolve: a promise that is not pending ignores the call.
PromiseResolve(jobs, p, v, side) ==
  IF state[p] = "pending"
  THEN /\ state' = [state EXCEPT ![p] = side]
       /\ value' = [value EXCEPT ![p] = v]
       /\ queue' = jobs \o Reactions(p, v, side)
       /\ thenList' = [thenList EXCEPT ![p] = <<>>]
  ELSE /\ queue' = jobs
       /\ UNCHANGED <<state, value, thenList>>

\* Mutant: only a promise that is still pending is followed.
ChainPendingOnly(jobs, s, t) ==
  IF s = t \/ Settled(s)
  THEN queue' = jobs /\ UNCHANGED thenList
  ELSE PromiseThen(jobs, s,
         [fulfilled |-> [kind |-> "settle", side |-> "fulfilled", target |-> t],
          rejected  |-> [kind |-> "settle", side |-> "rejected", target |-> t],
          next      |-> Ignored])

\* promise_chain: t follows s, except that a promise cannot follow itself.
PromiseChain(jobs, s, t) ==
  IF s = t
  THEN queue' = jobs /\ UNCHANGED thenList
  ELSE PromiseThen(jobs, s,
         [fulfilled |-> [kind |-> "settle", side |-> "fulfilled", target |-> t],
          rejected  |-> [kind |-> "settle", side |-> "rejected", target |-> t],
          next      |-> Ignored])

\* The tail of run_promise_jobs: what becomes of the result of a job.
\* A promise is followed, whatever `side` says.
FinishJob(jobs, next, result, side) ==
  IF result \in Promise
  THEN PromiseChain(jobs, result, next) /\ UNCHANGED <<state, value>>
  ELSE PromiseResolve(jobs, next, result, side)

-----------------------------------------------------------------------------
(* Program code: main(), or the callback of the running job.                *)

InProgram == phase = "main" \/ running # NoJob

\* Promise.new()
Alloc(p) ==
  /\ InProgram
  /\ ~Born(p)
  /\ state' = [state EXCEPT ![p] = "pending"]
  /\ UNCHANGED <<value, thenList, queue, phase, running>>

\* t = s.then(...), with a function or nothing for each handler.
Then(s, t, onFulfilled, onRejected) ==
  /\ InProgram
  /\ Born(s)
  /\ ~Born(t)
  /\ state' = [state EXCEPT ![t] = "pending"]
  /\ PromiseThen(queue, s,
       [fulfilled |-> [kind |-> onFulfilled, side |-> "fulfilled", target |-> Ignored],
        rejected  |-> [kind |-> onRejected, side |-> "rejected", target |-> Ignored],
        next      |-> t])
  /\ UNCHANGED <<value, phase, running>>

\* p.fulfill(v) and p.reject(v)
Resolve(p, v, side) ==
  /\ InProgram
  /\ Born(p)
  /\ v \in Promise => Born(v)
  /\ PromiseResolve(queue, p, v, side)
  /\ UNCHANGED <<phase, running>>

MainReturns ==
  /\ phase = "main"
  /\ phase' = "jobs"
  /\ UNCHANGED <<state, value, thenList, queue, running>>

-----------------------------------------------------------------------------
(* run_promise_jobs.                                                        *)

NextJob(kind) ==
  /\ phase = "jobs"
  /\ running = NoJob
  /\ queue # <<>>
  /\ Head(queue).fn.kind = kind

\* Mutant: the value of the source is not passed on.
RunForwardNothing ==
  /\ NextJob("nil")
  /\ LET job == Head(queue)
     IN  FinishJob(Tail(queue), job.next, NoValue, job.side)
  /\ UNCHANGED <<phase, running>>

\* No handler: the outcome of the source is the result of the job.
RunForward ==
  /\ NextJob("nil")
  /\ LET job == Head(queue)
     IN  FinishJob(Tail(queue), job.next, job.value, job.side)
  /\ UNCHANGED <<phase, running>>

\* Mutant: a link always fulfils its target.
RunSettleFulfills ==
  /\ NextJob("settle")
  /\ LET job == Head(queue)
     IN  PromiseResolve(Tail(queue), job.fn.target, job.value, "fulfilled")
  /\ UNCHANGED <<phase, running>>

\* A closure of promise_chain: vm_promise_fulfill or vm_promise_reject.
RunSettle ==
  /\ NextJob("settle")
  /\ LET job == Head(queue)
     IN  PromiseResolve(Tail(queue), job.fn.target, job.value, job.fn.side)
  /\ UNCHANGED <<phase, running>>

\* A function of the program: the call, ...
CallbackStarts ==
  /\ NextJob("user")
  /\ running' = Head(queue)
  /\ queue' = Tail(queue)
  /\ UNCHANGED <<state, value, thenList, phase>>

\* ... and its return, with a value or a native exception.
CallbackReturns(result) ==
  /\ running # NoJob
  /\ result \in Promise => Born(result)
  /\ FinishJob(queue, running.next, result, "fulfilled")
  /\ running' = NoJob
  /\ UNCHANGED phase

CallbackThrows(exception) ==
  /\ running # NoJob
  /\ FinishJob(queue, running.next, exception, "rejected")
  /\ running' = NoJob
  /\ UNCHANGED phase

\* `while (run_promise_jobs(vm, job_queue)) {}` of main.c ends.
Exit ==
  /\ phase = "jobs"
  /\ running = NoJob
  /\ queue = <<>>
  /\ phase' = "exited"
  /\ UNCHANGED <<state, value, thenList, queue, running>>

Exited == phase = "exited" /\ UNCHANGED vars

-----------------------------------------------------------------------------
HandlerChoice == {"nil", "user"}

CallbackEnds ==
  \/ \E v \in Value : CallbackReturns(v)
  \/ \E v \in Plain : CallbackThrows(v)

RunJob == RunForward \/ RunSettle \/ CallbackStarts

Next ==
  \/ \E p \in Promise : Alloc(p)
  \/ \E s, t \in Promise, f, r \in HandlerChoice : Then(s, t, f, r)
  \/ \E p \in Promise, v \in Passed, side \in Side : Resolve(p, v, side)
  \/ MainReturns
  \/ RunJob
  \/ CallbackEnds
  \/ Exit
  \/ Exited

Spec == Init /\ [][Next]_vars

\* run_promise_jobs keeps taking jobs; main() and each callback terminate.
Fairness == WF_vars(RunJob) /\ WF_vars(CallbackEnds) /\ WF_vars(MainReturns)
FairSpec == Spec /\ Fairness

-----------------------------------------------------------------------------
TypeOK ==
  /\ state \in [Promise -> {"unborn", "pending"} \cup Side]
  /\ value \in [Promise -> Value \cup {NoValue}]
  /\ thenList \in [Promise -> Seq(Entry)]
  /\ queue \in Seq(Job)
  /\ phase \in {"main", "jobs", "exited"}
  /\ running \in Job \cup {NoJob}

(***************************************************************************)
(* Duties.  An entry or a job owes the settling of its derived promise, or, *)
(* made by promise_chain, of the promise its closures are bound to.  It     *)
(* waits in a then_list, in the queue, or is running.                       *)
(***************************************************************************)
DutyOf(e)    == IF e.next # Ignored THEN e.next ELSE e.fulfilled.target
DutyOfJob(j) == IF j.next # Ignored THEN j.next ELSE j.fn.target

Places ==
  (UNION {{<<"list", s, i>> : i \in DOMAIN thenList[s]} : s \in Promise})
    \cup {<<"queue", NoJob, i>> : i \in DOMAIN queue}
    \cup {<<"running", NoJob, 1>> : i \in {running} \ {NoJob}}

OwedAt(place) ==
  CASE place[1] = "list"    -> DutyOf(thenList[place[2]][place[3]])
    [] place[1] = "queue"   -> DutyOfJob(queue[place[3]])
    [] place[1] = "running" -> DutyOfJob(running)

Owed(t) == \E place \in Places : OwedAt(place) = t

(***************************************************************************)
(* A settled promise has no waiting reaction: promise_then and              *)
(* promise_resolve leave nothing behind in a then_list that nobody will     *)
(* look at again.                                                           *)
(***************************************************************************)
NoStrandedReaction ==
  \A p \in Promise : thenList[p] # <<>> => state[p] = "pending"

(***************************************************************************)
(* Every job, queued or running, long after it was made still carries the   *)
(* outcome its source has, and the handler given for that outcome.          *)
(***************************************************************************)
CarriesOutcome(job) ==
  /\ state[job.src] = job.side
  /\ value[job.src] = job.value
  /\ job.fn.side = job.side

JobsCarryOutcome ==
  /\ \A i \in DOMAIN queue : CarriesOutcome(queue[i])
  /\ running # NoJob => CarriesOutcome(running)

(***************************************************************************)
(* No promise is owed twice: no reaction is both still in a then_list and   *)
(* queued, queued twice, or queued again while its callback runs.           *)
(***************************************************************************)
OneDuty == \A a, b \in Places : OwedAt(a) = OwedAt(b) => a = b

(***************************************************************************)
(* A promise is settled at most once: program code, derived results and     *)
(* links race to settle it, and later ones change neither state nor value.  *)
(***************************************************************************)
SettleOnce ==
  [][\A p \in Promise :
       Settled(p) => state'[p] = state[p] /\ value'[p] = value[p]]_vars

(***************************************************************************)
(* The duty to settle a pending promise is given up in one case only: the   *)
(* result of its reaction is the promise itself.                            *)
(***************************************************************************)
SelfLink(t) ==
  \/ RunForward /\ Head(queue).value = t
  \/ CallbackReturns(t)

GivesUpOnlySelfLinks ==
  [][\A t \in Promise :
       Owed(t) /\ ~Owed(t)' => Settled(t)' \/ SelfLink(t)]_vars

(***************************************************************************)
(* The lists and the queue implement the contract of PromiseContract: each  *)
(* waiting entry and each job, queued or running, is one reaction.          *)
(***************************************************************************)
KindOf(next) == IF next = Ignored THEN "link" ELSE "then"

ReactionAt(place) ==
  CASE place[1] = "list"    -> LET e == thenList[place[2]][place[3]]
                               IN  <<place[2], DutyOf(e), KindOf(e.next)>>
    [] place[1] = "queue"   -> LET j == queue[place[3]]
                               IN  <<j.src, DutyOfJob(j), KindOf(j.next)>>
    [] place[1] = "running" -> <<running.src, DutyOfJob(running), KindOf(running.next)>>

OutcomeOf(p) == IF Settled(p) THEN <<state[p], value[p]>> ELSE <<state[p]>>

Contract == INSTANCE PromiseContract WITH
  outcome <- [p \in Promise |-> OutcomeOf(p)],
  reactions <- {ReactionAt(place) : place \in Places}

ImplementsContract == Contract!ContractSpec

(***************************************************************************)
(* The same without fairness: promise_then, promise_resolve, promise_chain  *)
(* and run_promise_jobs only ever register, discharge or pass on duties as  *)
(* the contract allows, whatever the program calls.                         *)
(***************************************************************************)
KeepsContract ==
  Contract!ContractInit /\ [][Contract!ContractNext]_(Contract!cvars)
=============================================================================
