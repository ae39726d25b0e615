---------------------------- MODULE GenerationJobs ----------------------------
(***************************************************************************)
(* The Codex generation queue of the first workflow: one job is chosen     *)
(* over all, leased with a random token, written by the provider outside   *)
(* any transaction and settled by class of failure (pipeline.py), under a  *)
(* pause of the whole provider and a hold of one job that operators and    *)
(* the workers themselves set (cli.py, migrations/005).                    *)
(*                                                                         *)
(* A lease's token is known by the number of the attempt it opened.        *)
(***************************************************************************)
EXTENDS Naturals, Sequences, FiniteSets

CONSTANTS
  Jobs,
  Workers,
  HoldLimits,  \* consecutive failures at which the codes that can be retried
               \* hold a job: 2 for a bad draft, 5 or 10 for the others
  MaxFaults,   \* a bound on failures, crashes and outlasted leases
  MaxActs,     \* a bound on an operator's pauses, holds and revisions found
  NoJob

ASSUME QueueBounds == /\ HoldLimits \subseteq Nat \ {0} /\ HoldLimits # {}
                      /\ {MaxFaults, MaxActs} \subseteq Nat
ASSUME NoSuchJob == NoJob \notin Jobs

VARIABLES
  status,    \* generation_jobs.status; "lapsed" is running past its lease
  retry,     \* retry_at: "none" is NULL, "later" is in the future
  attempt,   \* terminal_outcome of generation_provider_attempts, "open" if NULL
  bound,     \* generation_job_provider_bindings
  \* generation_job_retry_state
  tracked, failures, held, blocked,
  control,   \* generation_provider_controls; pause_reason_code is by its author
  worker,
  drafts,    \* generations of a job
  freed,     \* history: jobs released while the provider was paused
  faults, acts

jobs == <<status, retry, attempt, bound, drafts>>
retries == <<tracked, failures, held, blocked>>
vars == <<jobs, retries, control, worker, freed, faults, acts>>

Idle == [pc |-> "idle", job |-> NoJob, n |-> 0]

Init ==
  /\ status = [j \in Jobs |-> "queued"]
  /\ retry = [j \in Jobs |-> "none"]
  /\ attempt = [j \in Jobs |-> << >>]
  /\ bound = {}
  /\ tracked = {}
  /\ failures = [j \in Jobs |-> 0]
  /\ held = {}
  /\ blocked = [j \in Jobs |-> 0]
  /\ control = [paused |-> FALSE, by |-> "nobody", version |-> 1]
  /\ worker = [w \in Workers |-> Idle]
  /\ drafts = [j \in Jobs |-> 0]
  /\ freed = {}
  /\ faults = 0 /\ acts = 0

-----------------------------------------------------------------------------
(* Choosing a job *)

\* Mutant: a lease that lapsed is never taken over.
RankUnlapsed(j) ==
  CASE status[j] = "failed" /\ retry[j] = "due" -> 2
    [] status[j] = "queued" /\ j \in bound -> 3
    [] status[j] = "queued" /\ j \notin bound -> 4
    [] OTHER -> 5
Rank(j) ==
  CASE status[j] = "lapsed" -> 1
    [] status[j] = "failed" /\ retry[j] = "due" -> 2
    [] status[j] = "queued" /\ j \in bound -> 3
    [] status[j] = "queued" /\ j \notin bound -> 4
    [] OTHER -> 5
Admissible(j) == j \notin held /\ blocked[j] = 0 /\ Rank(j) < 5

(* Ties go by a time that is not kept here.                                *)
First(j) == Admissible(j) /\ \A k \in Jobs : Admissible(k) => Rank(j) <= Rank(k)

SelectJob(w) ==
  /\ worker[w].pc = "idle" /\ ~control.paused
  /\ \E j \in Jobs : /\ First(j)
                     /\ bound' = bound \cup {j}
                     /\ worker' = [worker EXCEPT ![w] =
                          [pc |-> "selected", job |-> j, n |-> 0]]
  /\ UNCHANGED <<status, retry, attempt, drafts, retries, control, freed, faults, acts>>

Ended(s, outcome) == [i \in DOMAIN s |-> IF s[i] = "open" THEN outcome ELSE s[i]]

(* The choice is made again before the job is leased; a different one ends *)
(* the worker's run.  Taking over a lapsed lease closes its attempt.       *)
LeaseJob(w) ==
  LET j == worker[w].job
  IN  /\ worker[w].pc = "selected" /\ ~control.paused /\ First(j)
      /\ status' = [status EXCEPT ![j] = "running"]
      /\ retry' = [retry EXCEPT ![j] = "none"]
      /\ attempt' = [attempt EXCEPT ![j] = Append(Ended(@, "abandoned"), "open")]
      /\ worker' = [worker EXCEPT ![w] =
           [pc |-> "writing", job |-> j, n |-> Len(attempt[j]) + 1]]
      /\ UNCHANGED <<bound, drafts, retries, control, freed, faults, acts>>

PassJob(w) ==
  /\ worker[w].pc = "selected"
  /\ control.paused \/ ~First(worker[w].job)
  /\ worker' = [worker EXCEPT ![w] = Idle]
  /\ UNCHANGED <<jobs, retries, control, freed, faults, acts>>

-----------------------------------------------------------------------------
(* Settling an attempt *)

Leased(j) == status[j] \in {"running", "lapsed"}

\* Mutant: any running lease will do.
HoldsAny(w) == worker[w].pc = "writing" /\ Leased(worker[w].job)
Holds(w) ==
  /\ worker[w].pc = "writing" /\ Leased(worker[w].job)
  /\ Len(attempt[worker[w].job]) = worker[w].n

Finish(w, outcome) ==
  /\ attempt' = [attempt EXCEPT ![worker[w].job][worker[w].n] =
                   IF @ = "open" THEN outcome ELSE @]
  /\ worker' = [worker EXCEPT ![w] = Idle]

(* A success also lifts what was held against the job meanwhile.           *)
Succeed(w) ==
  LET j == worker[w].job
  IN  /\ Holds(w) /\ Finish(w, "succeeded")
      /\ status' = [status EXCEPT ![j] = "succeeded"]
      /\ drafts' = [drafts EXCEPT ![j] = @ + 1]
      /\ failures' = [failures EXCEPT ![j] = 0]
      /\ held' = held \ {j}
      /\ UNCHANGED <<retry, bound, tracked, blocked, control, freed, faults, acts>>

Fault == faults < MaxFaults /\ faults' = faults + 1

(* A code that says nothing of the job pauses the provider and blocks the  *)
(* job by the version of that pause.                                       *)
\* Mutant: the version read before the pause.
FailByProviderOld(w) ==
  LET j == worker[w].job
  IN  /\ Fault /\ Holds(w) /\ Finish(w, "failed")
      /\ ~control.paused /\ j \notin held
      /\ control' = [paused |-> TRUE, by |-> "worker", version |-> control.version + 1]
      /\ blocked' = [blocked EXCEPT ![j] = control.version]
      /\ failures' = [failures EXCEPT ![j] = @ + 1]
      /\ tracked' = tracked \cup {j}
      /\ status' = [status EXCEPT ![j] = "failed"]
      /\ UNCHANGED <<retry, bound, drafts, held, freed, acts>>

FailByProvider(w) ==
  LET j == worker[w].job
  IN  /\ Fault /\ Holds(w) /\ Finish(w, "failed")
      /\ ~control.paused /\ j \notin held
      /\ control' = [paused |-> TRUE, by |-> "worker", version |-> control.version + 1]
      /\ blocked' = [blocked EXCEPT ![j] = control'.version]
      /\ failures' = [failures EXCEPT ![j] = @ + 1]
      /\ tracked' = tracked \cup {j}
      /\ status' = [status EXCEPT ![j] = "failed"]
      /\ UNCHANGED <<retry, bound, drafts, held, freed, acts>>

(* When another has paused it, or the job is held, nothing of the failure  *)
(* is kept: the transaction fails and the job stays leased.                *)
FailUnsettled(w) ==
  /\ Fault /\ Holds(w)
  /\ control.paused \/ worker[w].job \in held
  /\ worker' = [worker EXCEPT ![w] = Idle]
  /\ UNCHANGED <<jobs, retries, control, freed, acts>>

(* Other codes schedule a retry, or hold the job at the code's limit.      *)
FailByJob(w) ==
  LET j == worker[w].job
  IN  /\ Fault /\ Holds(w) /\ Finish(w, "failed")
      /\ failures' = [failures EXCEPT ![j] = @ + 1]
      /\ tracked' = tracked \cup {j}
      /\ status' = [status EXCEPT ![j] = "failed"]
      /\ \E limit \in HoldLimits :
           IF failures[j] + 1 >= limit
           THEN held' = held \cup {j} /\ UNCHANGED retry
           ELSE retry' = [retry EXCEPT ![j] = "later"] /\ UNCHANGED held
      /\ UNCHANGED <<bound, drafts, blocked, control, freed, acts>>

(* Whatever a worker without a lease brings, nothing is written.           *)
Discard(w) ==
  /\ worker[w].pc = "writing" /\ ~Holds(w)
  /\ worker' = [worker EXCEPT ![w] = Idle]
  /\ UNCHANGED <<jobs, retries, control, freed, faults, acts>>

Crash(w) ==
  /\ worker[w].pc # "idle" /\ Fault
  /\ worker' = [worker EXCEPT ![w] = Idle]
  /\ UNCHANGED <<jobs, retries, control, freed, acts>>

-----------------------------------------------------------------------------
(* Time *)

(* Five minutes; a worker that still writes may settle a lapsed lease.     *)
LeaseLapses(j) ==
  /\ status[j] = "running"
  /\ IF \E w \in Workers : worker[w].job = j /\ Holds(w) THEN Fault ELSE UNCHANGED faults
  /\ status' = [status EXCEPT ![j] = "lapsed"]
  /\ UNCHANGED <<retry, attempt, bound, drafts, retries, control, worker, freed, acts>>

RetryComesDue(j) ==
  /\ retry[j] = "later"
  /\ retry' = [retry EXCEPT ![j] = "due"]
  /\ UNCHANGED <<status, attempt, bound, drafts, retries, control, worker,
                 freed, faults, acts>>

-----------------------------------------------------------------------------
(* Operators, and the approval workflow that supersedes a job              *)

Act == acts < MaxActs /\ acts' = acts + 1

Pause ==
  /\ Act /\ ~control.paused
  /\ control' = [paused |-> TRUE, by |-> "operator", version |-> control.version + 1]
  /\ UNCHANGED <<jobs, retries, worker, freed, faults>>

Released(j) == status[j] = "failed" /\ retry[j] = "none" /\ blocked[j] = control.version

\* Mutant: a blocked job's retry is left to the operator.
ResumeOnly ==
  /\ control.paused
  /\ control' = [paused |-> FALSE, by |-> "nobody", version |-> control.version + 1]
  /\ blocked' = [j \in Jobs |-> IF Released(j) THEN 0 ELSE blocked[j]]
  /\ UNCHANGED <<jobs, tracked, failures, held, worker, freed, faults, acts>>

(* Only with the reason that answers the pause's.                          *)
Resume ==
  /\ control.paused
  /\ control' = [paused |-> FALSE, by |-> "nobody", version |-> control.version + 1]
  /\ blocked' = [j \in Jobs |-> IF Released(j) THEN 0 ELSE blocked[j]]
  /\ retry' = [j \in Jobs |-> IF Released(j) THEN "due" ELSE retry[j]]
  /\ UNCHANGED <<status, attempt, bound, drafts, tracked, failures, held, worker,
                 freed, faults, acts>>

Settled == {"succeeded", "superseded"}

HoldJob(j) ==
  /\ Act /\ j \in tracked \ held /\ blocked[j] = 0 /\ status[j] \notin Settled
  /\ held' = held \cup {j}
  /\ UNCHANGED <<jobs, tracked, failures, blocked, control, worker, freed, faults>>

ReleaseJob(j) ==
  /\ j \in held /\ status[j] \notin Settled
  /\ held' = held \ {j}
  /\ failures' = [failures EXCEPT ![j] = 0]
  /\ retry' = [retry EXCEPT ![j] =
       IF status[j] = "failed" /\ ~control.paused THEN "due" ELSE @]
  /\ freed' = IF status[j] = "failed" /\ retry'[j] = "none"
              THEN freed \cup {j} ELSE freed \ {j}
  /\ UNCHANGED <<status, attempt, bound, drafts, tracked, blocked, control,
                 worker, faults, acts>>

Supersede(j) ==
  /\ Act /\ status[j] \notin Settled
  /\ status' = [status EXCEPT ![j] = "superseded"]
  /\ UNCHANGED <<retry, attempt, bound, drafts, retries, control, worker,
                 freed, faults>>

-----------------------------------------------------------------------------
Step(w) == SelectJob(w) \/ LeaseJob(w) \/ PassJob(w) \/ Succeed(w) \/ Discard(w)

Next ==
  \/ \E w \in Workers :
       \/ SelectJob(w) \/ LeaseJob(w) \/ PassJob(w)
       \/ Succeed(w) \/ FailByProvider(w) \/ FailByJob(w) \/ FailUnsettled(w)
       \/ Discard(w) \/ Crash(w)
  \/ \E j \in Jobs : LeaseLapses(j) \/ RetryComesDue(j)
  \/ Pause \/ Resume
  \/ \E j \in Jobs : HoldJob(j) \/ ReleaseJob(j) \/ Supersede(j)

Spec == Init /\ [][Next]_vars

(* The timer starts workers again and again, a provider's run is bounded   *)
(* by its supervisor, time passes, and an operator ends a pause.           *)
Fairness ==
  /\ \A w \in Workers : WF_vars(Step(w))
  /\ \A j \in Jobs : WF_vars(LeaseLapses(j)) /\ WF_vars(RetryComesDue(j))
  /\ WF_vars(Resume)

FairSpec == Spec /\ Fairness

-----------------------------------------------------------------------------
(* Properties *)

(* Each attempt that was paid for has one end, written under its own lease:*)
(* none is open but the last of a leased or superseded job, and a job has  *)
(* one draft, of its last attempt, just when it succeeded.                 *)
AttemptsAreAccounted ==
  \A j \in Jobs :
    LET s == attempt[j]
        last == IF s = << >> THEN "none" ELSE s[Len(s)]
    IN  /\ \A i \in 1..Len(s) : s[i] = "open" =>
             i = Len(s) /\ status[j] \in {"running", "lapsed", "superseded"}
        /\ Leased(j) => last = "open"
        /\ status[j] = "failed" => last = "failed"
        /\ \A i \in 1..Len(s) : s[i] = "succeeded" => i = Len(s) /\ status[j] = "succeeded"
        /\ drafts[j] = IF status[j] = "succeeded" THEN 1 ELSE 0

(* A job that waits for a resume is blocked by the very pause in force, so *)
(* that the next resume releases it: none is left behind by a pause that   *)
(* was lifted or overtaken.                                                *)
BlockedIsReleasable ==
  \A j \in Jobs : status[j] = "failed" /\ blocked[j] # 0 =>
    /\ control.paused /\ control.by = "worker" /\ Released(j)

(* A failed job has a retry, a hold or a pause to wait for, unless an      *)
(* operator released it during a pause: such a job is never due again.     *)
OnlyReleaseStrands ==
  \A j \in Jobs :
    status[j] = "failed" /\ retry[j] = "none" /\ j \notin held /\ blocked[j] = 0
      => j \in freed

(* Whatever workers die, fail or are overtaken, a job ends, is held, or    *)
(* was released during a pause.                                            *)
JobsSettle ==
  \A j \in Jobs : []<>(status[j] \in Settled \/ j \in held \cup freed)

JobsTypeOK ==
  /\ status \in [Jobs -> {"queued", "running", "lapsed", "failed"} \cup Settled]
  /\ retry \in [Jobs -> {"none", "later", "due"}]
  /\ attempt \in [Jobs -> Seq({"open", "failed", "abandoned", "succeeded"})]
  /\ bound \subseteq Jobs /\ tracked \subseteq Jobs
  /\ held \subseteq Jobs /\ freed \subseteq Jobs
  /\ failures \in [Jobs -> Nat] /\ blocked \in [Jobs -> Nat]
  /\ control \in [paused : BOOLEAN, by : {"nobody", "worker", "operator"},
                  version : Nat \ {0}]
  /\ worker \in [Workers -> [pc : {"idle", "selected", "writing"},
                             job : Jobs \cup {NoJob}, n : Nat]]
  /\ drafts \in [Jobs -> Nat]
  /\ faults \in Nat /\ acts \in Nat
=============================================================================
