------------------------- MODULE FirstWorkflowProofs -------------------------
(***************************************************************************)
(* Theorems about the two queues of the first workflow: GenerationJobs,    *)
(* for any jobs, workers, limits and faults, and ChannelCollection, for    *)
(* any channel, page size, overlap and number of killed runs.              *)
(***************************************************************************)
EXTENDS GenerationJobs, ChannelCollection, FiniteSetTheorems, WellFoundedInduction, TLAPS

-----------------------------------------------------------------------------
(* The generation queue *)

(* A leased job waits for nothing: it has no retry and no block.           *)
LeasedIsClear ==
  \A j \in Jobs : Leased(j) => retry[j] = "none" /\ blocked[j] = 0

(* What a worker holds is an attempt that was opened.                      *)
WorkersHoldJobs ==
  \A w \in Workers : worker[w].pc # "idle" => worker[w].job \in Jobs

QueueInv == /\ JobsTypeOK /\ WorkersHoldJobs /\ LeasedIsClear
            /\ AttemptsAreAccounted /\ BlockedIsReleasable /\ OnlyReleaseStrands

USE QueueBounds, NoSuchJob
USE DEF jobs, retries, Settled

Outcomes == {"open", "failed", "abandoned", "succeeded"}
JobStates == {"queued", "running", "lapsed", "failed"} \cup Settled

(* The attempts of one job, in order, under its status.                    *)
Accounted(s, st, n) ==
  /\ \A i \in 1..Len(s) : s[i] = "open" =>
       i = Len(s) /\ st \in {"running", "lapsed", "superseded"}
  /\ st \in {"running", "lapsed"} => s # << >> /\ s[Len(s)] = "open"
  /\ st = "failed" => s # << >> /\ s[Len(s)] = "failed"
  /\ \A i \in 1..Len(s) : s[i] = "succeeded" => i = Len(s) /\ st = "succeeded"
  /\ n = IF st = "succeeded" THEN 1 ELSE 0

LEMMA AccountedByJob ==
  AttemptsAreAccounted <=> \A j \in Jobs : Accounted(attempt[j], status[j], drafts[j])
BY DEF AttemptsAreAccounted, Accounted, Leased

LEMMA AccountedAfter ==
  ASSUME \A j \in Jobs : Accounted(attempt'[j], status'[j], drafts'[j])
  PROVE  AttemptsAreAccounted'
BY DEF AttemptsAreAccounted, Accounted, Leased

LEMMA QueueStarts == Init => QueueInv
<1> SUFFICES ASSUME Init PROVE QueueInv
  OBVIOUS
<1> USE DEF Init
<1>1. JobsTypeOK /\ WorkersHoldJobs
  BY DEF JobsTypeOK, WorkersHoldJobs, Idle
<1>2. LeasedIsClear /\ BlockedIsReleasable /\ OnlyReleaseStrands
  BY DEF LeasedIsClear, BlockedIsReleasable, OnlyReleaseStrands, Leased
<1>3. AttemptsAreAccounted
  BY DEF AttemptsAreAccounted, Leased
<1> QED
  BY <1>1, <1>2, <1>3 DEF QueueInv

(* A new attempt is appended and the one it takes over is closed.          *)
LEMMA NewAttempt ==
  ASSUME NEW s \in Seq(Outcomes), NEW st \in JobStates, NEW n \in Nat,
         Accounted(s, st, n), st \notin Settled
  PROVE  /\ Append(Ended(s, "abandoned"), "open") \in Seq(Outcomes)
         /\ Accounted(Append(Ended(s, "abandoned"), "open"), "running", n)
<1> DEFINE e == Ended(s, "abandoned")
           t == Append(e, "open")
<1>1. e \in Seq(Outcomes) /\ Len(e) = Len(s)
      /\ \A i \in 1..Len(s) : e[i] = IF s[i] = "open" THEN "abandoned" ELSE s[i]
  BY DEF Ended, Outcomes
<1> HIDE DEF e
<1>2. /\ t \in Seq(Outcomes) /\ Len(t) = Len(s) + 1 /\ t[Len(t)] = "open" /\ t # << >>
      /\ \A i \in 1..Len(s) : t[i] = e[i]
  <2>1. t \in Seq(Outcomes)
    BY <1>1 DEF Outcomes
  <2>2. Len(t) = Len(e) + 1 /\ t[Len(e) + 1] = "open"
    BY <1>1
  <2>3. \A i \in 1..Len(e) : t[i] = e[i]
    BY <1>1
  <2> QED
    BY <1>1, <2>1, <2>2, <2>3
<1> HIDE DEF t
<1>3. \A i \in 1..Len(t) : i = Len(t) \/ i \in 1..Len(s)
  BY <1>2
<1>4. \A i \in 1..Len(s) : t[i] # "open" /\ t[i] # "succeeded"
  BY <1>1, <1>2 DEF Accounted
<1>5. Accounted(t, "running", n)
  BY <1>2, <1>3, <1>4 DEF Accounted
<1> QED BY <1>2, <1>5 DEF t, e

(* The last attempt gets its outcome, together with the job.               *)
LEMMA LastAttempt ==
  ASSUME NEW s \in Seq(Outcomes), NEW st \in {"running", "lapsed"}, NEW n \in Nat,
         Accounted(s, st, n), NEW outcome \in {"failed", "succeeded"}
  PROVE  LET t == [s EXCEPT ![Len(s)] = IF @ = "open" THEN outcome ELSE @]
         IN  /\ t \in Seq(Outcomes)
             /\ Accounted(t, outcome, IF outcome = "succeeded" THEN n + 1 ELSE n)
<1> DEFINE t == [s EXCEPT ![Len(s)] = IF @ = "open" THEN outcome ELSE @]
<1>1. Len(s) \in 1..Len(s) /\ s[Len(s)] = "open" /\ n = 0
  BY DEF Accounted
<1>2. /\ t \in Seq(Outcomes) /\ Len(t) = Len(s) /\ t[Len(t)] = outcome /\ t # << >>
      /\ \A i \in 1..Len(s) : i # Len(s) => t[i] = s[i]
  BY <1>1 DEF Outcomes
<1> HIDE DEF t
<1>3. Accounted(t, outcome, IF outcome = "succeeded" THEN n + 1 ELSE n)
  BY <1>1, <1>2 DEF Accounted
<1> QED BY <1>2, <1>3 DEF t

(* Steps that only move a worker. *)
RowsInv == /\ LeasedIsClear /\ AttemptsAreAccounted
           /\ BlockedIsReleasable /\ OnlyReleaseStrands

LEMMA RowsRest ==
  ASSUME RowsInv, UNCHANGED <<status, retry, attempt, drafts, held, blocked, control, freed>>
  PROVE  RowsInv'
BY DEF RowsInv, LeasedIsClear, AttemptsAreAccounted, BlockedIsReleasable,
   OnlyReleaseStrands, Leased, Released

LEMMA WorkerMoves ==
  ASSUME QueueInv, NEW w \in Workers,
         NEW me \in [pc : {"idle", "selected", "writing"}, job : Jobs \cup {NoJob}, n : Nat],
         me.pc # "idle" => me.job \in Jobs,
         worker' = [worker EXCEPT ![w] = me], bound' \subseteq Jobs, faults' \in Nat,
         UNCHANGED <<status, retry, attempt, drafts, retries, control, freed, acts>>
  PROVE  QueueInv'
<1>1. RowsInv'
  BY RowsRest DEF QueueInv, RowsInv
<1>2. (JobsTypeOK /\ WorkersHoldJobs)'
  BY DEF QueueInv, JobsTypeOK, WorkersHoldJobs
<1> QED
  BY <1>1, <1>2 DEF QueueInv, RowsInv

LEMMA IdleIsTyped ==
  /\ Idle \in [pc : {"idle", "selected", "writing"}, job : Jobs \cup {NoJob}, n : Nat]
  /\ Idle.pc = "idle"
BY DEF Idle

LEMMA FaultCounts == JobsTypeOK /\ Fault => faults' \in Nat
BY DEF JobsTypeOK, Fault

LEMMA WorkersMove ==
  ASSUME QueueInv, NEW w \in Workers,
         SelectJob(w) \/ PassJob(w) \/ Discard(w) \/ Crash(w) \/ FailUnsettled(w)
  PROVE  QueueInv'
<1>1. CASE SelectJob(w)
  <2>1. PICK j \in Jobs : /\ bound' = bound \cup {j}
                          /\ worker' = [worker EXCEPT ![w] =
                               [pc |-> "selected", job |-> j, n |-> 0]]
    BY <1>1 DEF SelectJob
  <2>2. bound' \subseteq Jobs /\ faults' \in Nat
    BY <1>1, <2>1 DEF SelectJob, QueueInv, JobsTypeOK
  <2> QED BY <1>1, <2>1, <2>2, WorkerMoves DEF SelectJob
<1>2. CASE PassJob(w) \/ Discard(w) \/ Crash(w) \/ FailUnsettled(w)
  <2>1. bound' \subseteq Jobs /\ faults' \in Nat
    BY <1>2, FaultCounts DEF PassJob, Discard, Crash, FailUnsettled, QueueInv, JobsTypeOK
  <2> QED
    BY <1>2, <2>1, IdleIsTyped, WorkerMoves DEF PassJob, Discard, Crash, FailUnsettled
<1> QED BY <1>1, <1>2

LEMMA LeaseJobKeeps == ASSUME QueueInv, NEW w \in Workers, LeaseJob(w) PROVE QueueInv'
<1> DEFINE j == worker[w].job
<1>1. /\ j \in Jobs /\ j \notin held /\ blocked[j] = 0 /\ ~control.paused
      /\ status[j] \notin Settled
  BY DEF LeaseJob, QueueInv, WorkersHoldJobs, First, Admissible, Rank, JobsTypeOK
<1>2. /\ attempt[j] \in Seq(Outcomes) /\ status[j] \in JobStates /\ drafts[j] \in Nat
      /\ Accounted(attempt[j], status[j], drafts[j])
  BY <1>1, AccountedByJob DEF QueueInv, JobsTypeOK, Outcomes, JobStates
<1>3. /\ attempt' = [attempt EXCEPT ![j] = Append(Ended(@, "abandoned"), "open")]
      /\ status' = [status EXCEPT ![j] = "running"]
      /\ retry' = [retry EXCEPT ![j] = "none"]
      /\ worker' = [worker EXCEPT ![w] =
           [pc |-> "writing", job |-> j, n |-> Len(attempt[j]) + 1]]
      /\ UNCHANGED <<bound, drafts, tracked, failures, held, blocked, control,
                     freed, faults, acts>>
  BY DEF LeaseJob
<1>4. /\ Append(Ended(attempt[j], "abandoned"), "open") \in Seq(Outcomes)
      /\ Accounted(Append(Ended(attempt[j], "abandoned"), "open"), "running", drafts[j])
  BY <1>1, <1>2, NewAttempt
<1>5. attempt' \in [Jobs -> Seq(Outcomes)]
  BY <1>1, <1>3, <1>4 DEF QueueInv, JobsTypeOK, Outcomes
<1>6. (JobsTypeOK /\ WorkersHoldJobs)'
  BY <1>1, <1>2, <1>3, <1>5, SMTT(30) DEF QueueInv, JobsTypeOK, WorkersHoldJobs, Outcomes
<1>7. AttemptsAreAccounted'
  <2>1. \A k \in Jobs : Accounted(attempt[k], status[k], drafts[k])
    BY AccountedByJob DEF QueueInv
  <2>2. \A k \in Jobs :
          /\ attempt'[k] = IF k = j THEN Append(Ended(attempt[j], "abandoned"), "open")
                           ELSE attempt[k]
          /\ status'[k] = IF k = j THEN "running" ELSE status[k]
          /\ drafts'[k] = drafts[k]
    BY <1>1, <1>3 DEF QueueInv, JobsTypeOK
  <2>3. \A k \in Jobs : Accounted(attempt'[k], status'[k], drafts'[k])
    BY <1>1, <1>4, <2>1, <2>2
  <2> QED BY <2>3, AccountedAfter
<1>8. (LeasedIsClear /\ BlockedIsReleasable /\ OnlyReleaseStrands)'
  BY <1>1, <1>3, SMTT(30) DEF QueueInv, JobsTypeOK, LeasedIsClear, BlockedIsReleasable,
     OnlyReleaseStrands, Leased, Released
<1> QED BY <1>6, <1>7, <1>8 DEF QueueInv

(* What holds of a worker that may settle its attempt: it is the last of   *)
(* its leased job.                                                         *)
LEMMA HoldsLast ==
  ASSUME QueueInv, NEW w \in Workers, Holds(w)
  PROVE  LET j == worker[w].job
         IN  /\ j \in Jobs /\ status[j] \in {"running", "lapsed"}
             /\ retry[j] = "none" /\ blocked[j] = 0
             /\ attempt[j] \in Seq(Outcomes) /\ drafts[j] = 0
             /\ worker[w].n = Len(attempt[j])
             /\ Accounted(attempt[j], status[j], drafts[j])
<1> DEFINE j == worker[w].job
<1>1. j \in Jobs /\ status[j] \in {"running", "lapsed"} /\ worker[w].n = Len(attempt[j])
  BY DEF Holds, Leased, QueueInv, WorkersHoldJobs, JobsTypeOK
<1>2. retry[j] = "none" /\ blocked[j] = 0
  BY <1>1 DEF QueueInv, LeasedIsClear, Leased
<1>3. attempt[j] \in Seq(Outcomes) /\ Accounted(attempt[j], status[j], drafts[j])
  BY <1>1, AccountedByJob DEF QueueInv, JobsTypeOK, Outcomes
<1>4. drafts[j] = 0
  BY <1>1, <1>3 DEF Accounted
<1> QED BY <1>1, <1>2, <1>3, <1>4

(* An attempt and its job end together.                                    *)
LEMMA EndTogether ==
  ASSUME QueueInv, NEW w \in Workers, Holds(w), NEW outcome \in {"failed", "succeeded"},
         Finish(w, outcome), status' = [status EXCEPT ![worker[w].job] = outcome],
         drafts' = IF outcome = "succeeded"
                   THEN [drafts EXCEPT ![worker[w].job] = @ + 1] ELSE drafts
  PROVE  /\ AttemptsAreAccounted' /\ WorkersHoldJobs'
         /\ attempt' \in [Jobs -> Seq(Outcomes)]
         /\ status' \in [Jobs -> JobStates] /\ drafts' \in [Jobs -> Nat]
         /\ worker' \in [Workers -> [pc : {"idle", "selected", "writing"},
                                     job : Jobs \cup {NoJob}, n : Nat]]
<1> DEFINE j == worker[w].job
           t == [attempt[j] EXCEPT ![Len(attempt[j])] = IF @ = "open" THEN outcome ELSE @]
<1>1. /\ j \in Jobs /\ status[j] \in {"running", "lapsed"} /\ drafts[j] = 0
      /\ attempt[j] \in Seq(Outcomes) /\ worker[w].n = Len(attempt[j])
      /\ Accounted(attempt[j], status[j], drafts[j])
  BY HoldsLast
<1>2. /\ t \in Seq(Outcomes)
      /\ Accounted(t, outcome, IF outcome = "succeeded" THEN drafts[j] + 1 ELSE drafts[j])
  <2> DEFINE u == [attempt[j] EXCEPT ![Len(attempt[j])] = IF @ = "open" THEN outcome ELSE @]
  <2>1. status[j] \in {"running", "lapsed"} /\ drafts[j] \in Nat
    BY <1>1
  <2>2. /\ u \in Seq(Outcomes)
        /\ Accounted(u, outcome, IF outcome = "succeeded" THEN drafts[j] + 1 ELSE drafts[j])
    BY <1>1, <2>1, LastAttempt
  <2> QED BY <2>2
<1>3. attempt' = [attempt EXCEPT ![j] = t]
  BY <1>1 DEF Finish
<1> HIDE DEF t
<1>4. \A k \in Jobs : Accounted(attempt[k], status[k], drafts[k])
  BY AccountedByJob DEF QueueInv
<1>5. \A k \in Jobs : attempt'[k] = IF k = j THEN t ELSE attempt[k]
  BY <1>3 DEF QueueInv, JobsTypeOK
<1>6. \A k \in Jobs : status'[k] = IF k = j THEN outcome ELSE status[k]
  BY DEF QueueInv, JobsTypeOK
<1>7. \A k \in Jobs : drafts'[k] = IF k = j /\ outcome = "succeeded" THEN drafts[k] + 1
                                   ELSE drafts[k]
  BY DEF QueueInv, JobsTypeOK
<1>8. \A k \in Jobs : Accounted(attempt'[k], status'[k], drafts'[k])
  BY <1>2, <1>4, <1>5, <1>6, <1>7
<1>9. AttemptsAreAccounted'
  BY <1>8, AccountedAfter
<1>10. attempt' \in [Jobs -> Seq(Outcomes)]
  BY <1>1, <1>2, <1>3 DEF QueueInv, JobsTypeOK, Outcomes
<1>11. WorkersHoldJobs' /\ worker' \in [Workers -> [pc : {"idle", "selected", "writing"},
                                     job : Jobs \cup {NoJob}, n : Nat]]
  BY IdleIsTyped DEF Finish, QueueInv, WorkersHoldJobs, JobsTypeOK
<1>12. outcome \in JobStates
  BY DEF JobStates
<1>13. status' \in [Jobs -> JobStates]
  BY <1>1, <1>12 DEF QueueInv, JobsTypeOK, JobStates
<1>14. drafts' \in [Jobs -> Nat]
  BY <1>1 DEF QueueInv, JobsTypeOK
<1> QED BY <1>9, <1>10, <1>11, <1>13, <1>14

LEMMA SucceedKeeps == ASSUME QueueInv, NEW w \in Workers, Succeed(w) PROVE QueueInv'
<1> DEFINE j == worker[w].job
<1>1. /\ Holds(w) /\ Finish(w, "succeeded")
      /\ status' = [status EXCEPT ![j] = "succeeded"]
      /\ drafts' = [drafts EXCEPT ![j] = @ + 1]
      /\ failures' = [failures EXCEPT ![j] = 0] /\ held' = held \ {j}
      /\ UNCHANGED <<retry, bound, tracked, blocked, control, freed, faults, acts>>
  BY DEF Succeed
<1>2. j \in Jobs /\ status[j] # "failed"
  BY <1>1, HoldsLast
<1>3. /\ AttemptsAreAccounted' /\ WorkersHoldJobs'
      /\ attempt' \in [Jobs -> Seq(Outcomes)]
      /\ status' \in [Jobs -> JobStates] /\ drafts' \in [Jobs -> Nat]
      /\ worker' \in [Workers -> [pc : {"idle", "selected", "writing"},
                                  job : Jobs \cup {NoJob}, n : Nat]]
  BY <1>1, EndTogether
<1>4. JobsTypeOK'
  BY <1>1, <1>3 DEF QueueInv, JobsTypeOK, Outcomes, JobStates
<1>5. (LeasedIsClear /\ BlockedIsReleasable /\ OnlyReleaseStrands)'
  BY <1>1, <1>2 DEF QueueInv, JobsTypeOK, LeasedIsClear, BlockedIsReleasable,
     OnlyReleaseStrands, Leased, Released
<1> QED BY <1>3, <1>4, <1>5 DEF QueueInv

LEMMA FailByProviderKeeps ==
  ASSUME QueueInv, NEW w \in Workers, FailByProvider(w) PROVE QueueInv'
<1> DEFINE j == worker[w].job
           v == control.version + 1
<1>1. /\ Holds(w) /\ Finish(w, "failed") /\ ~control.paused /\ faults' \in Nat
      /\ control' = [paused |-> TRUE, by |-> "worker", version |-> v]
      /\ blocked' = [blocked EXCEPT ![j] = v]
      /\ failures' = [failures EXCEPT ![j] = @ + 1] /\ tracked' = tracked \cup {j}
      /\ status' = [status EXCEPT ![j] = "failed"]
      /\ UNCHANGED <<retry, bound, drafts, held, freed, acts>>
  BY FaultCounts DEF FailByProvider, QueueInv
<1>2. /\ j \in Jobs /\ retry[j] = "none" /\ v \in Nat \ {0}
  BY <1>1, HoldsLast DEF QueueInv, JobsTypeOK
<1>3. /\ AttemptsAreAccounted' /\ WorkersHoldJobs'
      /\ attempt' \in [Jobs -> Seq(Outcomes)]
      /\ status' \in [Jobs -> JobStates] /\ drafts' \in [Jobs -> Nat]
      /\ worker' \in [Workers -> [pc : {"idle", "selected", "writing"},
                                  job : Jobs \cup {NoJob}, n : Nat]]
  BY <1>1, EndTogether
<1>4. JobsTypeOK'
  <2>1. failures' \in [Jobs -> Nat] /\ tracked' \subseteq Jobs /\ blocked' \in [Jobs -> Nat]
    BY <1>1, <1>2 DEF QueueInv, JobsTypeOK
  <2>2. held' \subseteq Jobs /\ retry' \in [Jobs -> {"none", "later", "due"}]
    BY <1>1, <1>2 DEF QueueInv, JobsTypeOK
  <2>3. control' \in [paused : BOOLEAN, by : {"nobody", "worker", "operator"},
                      version : Nat \ {0}]
    BY <1>1, <1>2 DEF QueueInv, JobsTypeOK
  <2>4. /\ status' \in [Jobs -> {"queued", "running", "lapsed", "failed"} \cup Settled]
        /\ attempt' \in [Jobs -> Seq({"open", "failed", "abandoned", "succeeded"})]
    BY <1>3 DEF Outcomes, JobStates
  <2>5. bound' \subseteq Jobs /\ freed' \subseteq Jobs /\ acts' \in Nat
    BY <1>1 DEF QueueInv, JobsTypeOK
  <2> QED BY <1>1, <1>3, <2>1, <2>2, <2>3, <2>4, <2>5 DEF JobsTypeOK
<1>5. LeasedIsClear' /\ OnlyReleaseStrands'
  BY <1>1, <1>2 DEF QueueInv, JobsTypeOK, LeasedIsClear, OnlyReleaseStrands, Leased
<1>6. \A k \in Jobs : k # j /\ status[k] = "failed" => blocked[k] = 0
  BY <1>1 DEF QueueInv, BlockedIsReleasable
<1>7. BlockedIsReleasable'
  BY <1>1, <1>2, <1>6 DEF QueueInv, JobsTypeOK, BlockedIsReleasable, Released
<1> QED BY <1>3, <1>4, <1>5, <1>7 DEF QueueInv

LEMMA FailByJobKeeps == ASSUME QueueInv, NEW w \in Workers, FailByJob(w) PROVE QueueInv'
<1> DEFINE j == worker[w].job
<1>1. /\ Holds(w) /\ Finish(w, "failed") /\ faults' \in Nat
      /\ failures' = [failures EXCEPT ![j] = @ + 1] /\ tracked' = tracked \cup {j}
      /\ status' = [status EXCEPT ![j] = "failed"]
      /\ \/ held' = held \cup {j} /\ retry' = retry
         \/ retry' = [retry EXCEPT ![j] = "later"] /\ held' = held
      /\ UNCHANGED <<bound, drafts, blocked, control, freed, acts>>
  BY FaultCounts DEF FailByJob, QueueInv
<1>2. j \in Jobs /\ blocked[j] = 0
  BY <1>1, HoldsLast
<1>3. /\ AttemptsAreAccounted' /\ WorkersHoldJobs'
      /\ attempt' \in [Jobs -> Seq(Outcomes)]
      /\ status' \in [Jobs -> JobStates] /\ drafts' \in [Jobs -> Nat]
      /\ worker' \in [Workers -> [pc : {"idle", "selected", "writing"},
                                  job : Jobs \cup {NoJob}, n : Nat]]
  BY <1>1, EndTogether
<1>4. JobsTypeOK'
  <2>1. failures' \in [Jobs -> Nat] /\ tracked' \subseteq Jobs /\ blocked' \in [Jobs -> Nat]
    BY <1>1, <1>2 DEF QueueInv, JobsTypeOK
  <2>2. held' \subseteq Jobs /\ retry' \in [Jobs -> {"none", "later", "due"}]
    BY <1>1, <1>2 DEF QueueInv, JobsTypeOK
  <2>3. control' \in [paused : BOOLEAN, by : {"nobody", "worker", "operator"},
                      version : Nat \ {0}]
    BY <1>1, <1>2 DEF QueueInv, JobsTypeOK
  <2>4. /\ status' \in [Jobs -> {"queued", "running", "lapsed", "failed"} \cup Settled]
        /\ attempt' \in [Jobs -> Seq({"open", "failed", "abandoned", "succeeded"})]
    BY <1>3 DEF Outcomes, JobStates
  <2>5. bound' \subseteq Jobs /\ freed' \subseteq Jobs /\ acts' \in Nat
    BY <1>1 DEF QueueInv, JobsTypeOK
  <2> QED BY <1>1, <1>3, <2>1, <2>2, <2>3, <2>4, <2>5 DEF JobsTypeOK
<1>5. (LeasedIsClear /\ BlockedIsReleasable /\ OnlyReleaseStrands)'
  BY <1>1, <1>2 DEF QueueInv, JobsTypeOK, LeasedIsClear, BlockedIsReleasable,
     OnlyReleaseStrands, Leased, Released
<1> QED BY <1>3, <1>4, <1>5 DEF QueueInv

(* A step that leaves the attempts and drafts alone, and changes the state *)
(* of one job at most, to one that the same attempts allow.                *)
AllowedMove(old, new) == \/ new = old
                         \/ old = "running" /\ new = "lapsed"
                         \/ old \notin Settled /\ new = "superseded"

LEMMA RestAccounted ==
  ASSUME AttemptsAreAccounted, attempt' = attempt, drafts' = drafts,
         \A j \in Jobs : AllowedMove(status[j], status'[j])
  PROVE  AttemptsAreAccounted'
<1>1. \A j \in Jobs : Accounted(attempt[j], status[j], drafts[j])
  BY AccountedByJob
<1>2. \A j \in Jobs : Accounted(attempt[j], status'[j], drafts[j])
  BY <1>1 DEF Accounted, AllowedMove
<1>3. \A j \in Jobs : Accounted(attempt'[j], status'[j], drafts'[j])
  BY <1>2
<1> QED BY <1>3, AccountedAfter

LEMMA LeaseLapsesKeeps ==
  ASSUME QueueInv, NEW j \in Jobs, LeaseLapses(j) PROVE QueueInv'
<1>1. /\ status[j] = "running" /\ status' = [status EXCEPT ![j] = "lapsed"]
      /\ UNCHANGED <<retry, attempt, bound, drafts, tracked, failures, held, blocked,
                     control, worker, freed, acts>>
      /\ faults' \in Nat
  BY FaultCounts DEF LeaseLapses, QueueInv, JobsTypeOK
<1>2. (JobsTypeOK /\ WorkersHoldJobs)'
  BY <1>1 DEF QueueInv, JobsTypeOK, WorkersHoldJobs
<1>3. AttemptsAreAccounted'
  <2>1. \A k \in Jobs : AllowedMove(status[k], status'[k])
    BY <1>1 DEF QueueInv, JobsTypeOK, AllowedMove
  <2>2. AttemptsAreAccounted /\ attempt' = attempt /\ drafts' = drafts
    BY <1>1 DEF QueueInv
  <2> QED BY <2>1, <2>2, RestAccounted
<1>4. (LeasedIsClear /\ BlockedIsReleasable /\ OnlyReleaseStrands)'
  BY <1>1 DEF QueueInv, JobsTypeOK, LeasedIsClear, BlockedIsReleasable,
     OnlyReleaseStrands, Leased, Released
<1> QED BY <1>2, <1>3, <1>4 DEF QueueInv

LEMMA RetryComesDueKeeps ==
  ASSUME QueueInv, NEW j \in Jobs, RetryComesDue(j) PROVE QueueInv'
<1>1. (JobsTypeOK /\ WorkersHoldJobs)'
  BY DEF RetryComesDue, QueueInv, JobsTypeOK, WorkersHoldJobs
<1>2. AttemptsAreAccounted'
  <2>1. AttemptsAreAccounted /\ attempt' = attempt /\ drafts' = drafts /\ status' = status
    BY DEF RetryComesDue, QueueInv
  <2>2. \A k \in Jobs : AllowedMove(status[k], status'[k])
    BY <2>1 DEF AllowedMove
  <2> QED BY <2>1, <2>2, RestAccounted
<1>3. (LeasedIsClear /\ BlockedIsReleasable /\ OnlyReleaseStrands)'
  BY DEF RetryComesDue, QueueInv, JobsTypeOK, LeasedIsClear, BlockedIsReleasable,
     OnlyReleaseStrands, Leased, Released
<1> QED BY <1>1, <1>2, <1>3 DEF QueueInv

LEMMA PauseKeeps == ASSUME QueueInv, Pause PROVE QueueInv'
<1>1. (JobsTypeOK /\ WorkersHoldJobs)'
  BY DEF Pause, Act, QueueInv, JobsTypeOK, WorkersHoldJobs
<1>2. AttemptsAreAccounted'
  <2>1. AttemptsAreAccounted /\ attempt' = attempt /\ drafts' = drafts /\ status' = status
    BY DEF Pause, QueueInv
  <2>2. \A k \in Jobs : AllowedMove(status[k], status'[k])
    BY <2>1 DEF AllowedMove
  <2> QED BY <2>1, <2>2, RestAccounted
<1>3. (LeasedIsClear /\ BlockedIsReleasable /\ OnlyReleaseStrands)'
  BY DEF Pause, QueueInv, JobsTypeOK, LeasedIsClear, BlockedIsReleasable,
     OnlyReleaseStrands, Leased, Released
<1> QED BY <1>1, <1>2, <1>3 DEF QueueInv

(* A resume releases every failed job that is blocked, so that none is     *)
(* blocked after it.                                                       *)
LEMMA ResumeKeeps == ASSUME QueueInv, Resume PROVE QueueInv'
<1>1. /\ control' = [paused |-> FALSE, by |-> "nobody", version |-> control.version + 1]
      /\ blocked' = [j \in Jobs |-> IF Released(j) THEN 0 ELSE blocked[j]]
      /\ retry' = [j \in Jobs |-> IF Released(j) THEN "due" ELSE retry[j]]
      /\ UNCHANGED <<status, attempt, bound, drafts, tracked, failures, held, worker,
                     freed, faults, acts>>
  BY DEF Resume
<1>2. \A j \in Jobs : status[j] = "failed" /\ blocked[j] # 0 => Released(j)
  BY DEF QueueInv, BlockedIsReleasable
<1>3. \A j \in Jobs : Released(j) => status[j] = "failed"
  BY DEF Released
<1>4. (JobsTypeOK /\ WorkersHoldJobs)'
  BY <1>1 DEF QueueInv, JobsTypeOK, WorkersHoldJobs
<1>5. AttemptsAreAccounted'
  <2>1. AttemptsAreAccounted /\ attempt' = attempt /\ drafts' = drafts /\ status' = status
    BY <1>1 DEF QueueInv
  <2>2. \A k \in Jobs : AllowedMove(status[k], status'[k])
    BY <2>1 DEF AllowedMove
  <2> QED BY <2>1, <2>2, RestAccounted
<1>6. \A j \in Jobs : /\ status[j] = "failed" => blocked'[j] = 0
                      /\ ~Released(j) => retry'[j] = retry[j] /\ blocked'[j] = blocked[j]
                      /\ Released(j) => retry'[j] = "due"
  BY <1>1, <1>2
<1>7. LeasedIsClear'
  BY <1>1, <1>3, <1>6 DEF QueueInv, LeasedIsClear, Leased
<1>8. BlockedIsReleasable'
  BY <1>1, <1>6 DEF BlockedIsReleasable
<1>9. OnlyReleaseStrands'
  BY <1>1, <1>6 DEF QueueInv, OnlyReleaseStrands
<1> QED BY <1>4, <1>5, <1>7, <1>8, <1>9 DEF QueueInv

LEMMA HoldJobKeeps == ASSUME QueueInv, NEW j \in Jobs, HoldJob(j) PROVE QueueInv'
<1>1. (JobsTypeOK /\ WorkersHoldJobs)'
  BY DEF HoldJob, Act, QueueInv, JobsTypeOK, WorkersHoldJobs
<1>2. AttemptsAreAccounted'
  <2>1. AttemptsAreAccounted /\ attempt' = attempt /\ drafts' = drafts /\ status' = status
    BY DEF HoldJob, QueueInv
  <2>2. \A k \in Jobs : AllowedMove(status[k], status'[k])
    BY <2>1 DEF AllowedMove
  <2> QED BY <2>1, <2>2, RestAccounted
<1>3. (LeasedIsClear /\ BlockedIsReleasable /\ OnlyReleaseStrands)'
  BY DEF HoldJob, QueueInv, JobsTypeOK, LeasedIsClear, BlockedIsReleasable,
     OnlyReleaseStrands, Leased, Released
<1> QED BY <1>1, <1>2, <1>3 DEF QueueInv

(* A release makes a failed job due, or writes down that it freed it       *)
(* during a pause.                                                         *)
LEMMA ReleaseJobKeeps == ASSUME QueueInv, NEW j \in Jobs, ReleaseJob(j) PROVE QueueInv'
<1>1. /\ held' = held \ {j}
      /\ failures' = [failures EXCEPT ![j] = 0]
      /\ retry' = [retry EXCEPT ![j] =
           IF status[j] = "failed" /\ ~control.paused THEN "due" ELSE @]
      /\ freed' = IF status[j] = "failed" /\ retry'[j] = "none"
                  THEN freed \cup {j} ELSE freed \ {j}
      /\ UNCHANGED <<status, attempt, bound, drafts, tracked, blocked, control,
                     worker, faults, acts>>
  BY DEF ReleaseJob
<1>2. \A k \in Jobs : retry'[k] = IF k = j /\ status[j] = "failed" /\ ~control.paused
                                  THEN "due" ELSE retry[k]
  BY <1>1 DEF QueueInv, JobsTypeOK
<1>3. JobsTypeOK'
  <2>1. retry' \in [Jobs -> {"none", "later", "due"}]
    BY <1>1 DEF QueueInv, JobsTypeOK
  <2>2. held' \subseteq Jobs /\ freed' \subseteq Jobs /\ failures' \in [Jobs -> Nat]
    BY <1>1 DEF QueueInv, JobsTypeOK
  <2> QED BY <1>1, <2>1, <2>2 DEF QueueInv, JobsTypeOK
<1>4. WorkersHoldJobs'
  BY <1>1 DEF QueueInv, WorkersHoldJobs
<1>5. AttemptsAreAccounted'
  <2>1. AttemptsAreAccounted /\ attempt' = attempt /\ drafts' = drafts /\ status' = status
    BY <1>1 DEF QueueInv
  <2>2. \A k \in Jobs : AllowedMove(status[k], status'[k])
    BY <2>1 DEF AllowedMove
  <2> QED BY <2>1, <2>2, RestAccounted
<1>6. LeasedIsClear'
  BY <1>1, <1>2 DEF QueueInv, LeasedIsClear, Leased
<1>7. BlockedIsReleasable'
  BY <1>1, <1>2 DEF QueueInv, BlockedIsReleasable, Released
<1>8. OnlyReleaseStrands'
  <2> SUFFICES ASSUME NEW k \in Jobs, status'[k] = "failed", retry'[k] = "none",
                      k \notin held', blocked'[k] = 0
               PROVE  k \in freed'
    BY DEF OnlyReleaseStrands
  <2>1. CASE k = j
    BY <1>1, <2>1
  <2>2. CASE k # j
    BY <1>1, <1>2, <2>2 DEF QueueInv, OnlyReleaseStrands
  <2> QED BY <2>1, <2>2
<1> QED BY <1>3, <1>4, <1>5, <1>6, <1>7, <1>8 DEF QueueInv

LEMMA SupersedeKeeps == ASSUME QueueInv, NEW j \in Jobs, Supersede(j) PROVE QueueInv'
<1>1. /\ status[j] \notin Settled /\ status' = [status EXCEPT ![j] = "superseded"]
      /\ UNCHANGED <<retry, attempt, bound, drafts, tracked, failures, held, blocked,
                     control, worker, freed, faults>>
      /\ acts' \in Nat
  BY DEF Supersede, Act, QueueInv, JobsTypeOK
<1>2. (JobsTypeOK /\ WorkersHoldJobs)'
  BY <1>1 DEF QueueInv, JobsTypeOK, WorkersHoldJobs
<1>3. AttemptsAreAccounted'
  <2>1. \A k \in Jobs : AllowedMove(status[k], status'[k])
    BY <1>1 DEF QueueInv, JobsTypeOK, AllowedMove
  <2>2. AttemptsAreAccounted /\ attempt' = attempt /\ drafts' = drafts
    BY <1>1 DEF QueueInv
  <2> QED BY <2>1, <2>2, RestAccounted
<1>4. (LeasedIsClear /\ BlockedIsReleasable /\ OnlyReleaseStrands)'
  BY <1>1 DEF QueueInv, JobsTypeOK, LeasedIsClear, BlockedIsReleasable,
     OnlyReleaseStrands, Leased, Released
<1> QED BY <1>2, <1>3, <1>4 DEF QueueInv

LEMMA QueueRests == ASSUME QueueInv, UNCHANGED vars PROVE QueueInv'
<1> USE DEF vars
<1>1. RowsInv'
  BY RowsRest DEF QueueInv, RowsInv
<1>2. (JobsTypeOK /\ WorkersHoldJobs)'
  BY DEF QueueInv, JobsTypeOK, WorkersHoldJobs
<1> QED BY <1>1, <1>2 DEF QueueInv, RowsInv

LEMMA QueueKeeps == QueueInv /\ [Next]_vars => QueueInv'
<1> SUFFICES ASSUME QueueInv, [Next]_vars PROVE QueueInv'
  OBVIOUS
<1>1. ASSUME NEW w \in Workers,
             \/ SelectJob(w) \/ LeaseJob(w) \/ PassJob(w)
             \/ Succeed(w) \/ FailByProvider(w) \/ FailByJob(w) \/ FailUnsettled(w)
             \/ Discard(w) \/ Crash(w)
      PROVE  QueueInv'
  BY <1>1, WorkersMove, LeaseJobKeeps, SucceedKeeps, FailByProviderKeeps, FailByJobKeeps
<1>2. ASSUME NEW j \in Jobs, \/ LeaseLapses(j) \/ RetryComesDue(j)
                             \/ HoldJob(j) \/ ReleaseJob(j) \/ Supersede(j)
      PROVE  QueueInv'
  BY <1>2, LeaseLapsesKeeps, RetryComesDueKeeps, HoldJobKeeps, ReleaseJobKeeps,
     SupersedeKeeps
<1>3. CASE Pause \/ Resume
  BY <1>3, PauseKeeps, ResumeKeeps
<1>4. CASE UNCHANGED vars
  BY <1>4, QueueRests
<1> QED BY <1>1, <1>2, <1>3, <1>4 DEF Next

(* Workers hold the jobs whose leases they have, an unleased job keeps no  *)
(* trace of one, and attempts, blocks and holds account for each other.    *)
THEOREM QueueIsInductive == Spec => []QueueInv
<1>1. Init => QueueInv
  BY QueueStarts
<1>2. QueueInv /\ [Next]_vars => QueueInv'
  BY QueueKeeps
<1> QED BY <1>1, <1>2, PTL DEF Spec

(* The rows of the generation queue have their types whatever workers and  *)
(* operators do.                                                           *)
THEOREM JobsTypeCorrect == Spec => []JobsTypeOK
BY QueueIsInductive, PTL DEF QueueInv

(* Every attempt that was paid for has one end, and a job one draft, of    *)
(* its last attempt: a lease that is taken over closes the attempt of the  *)
(* worker that lost it, and that worker can write nothing any more.        *)
THEOREM AttemptsAccounted == Spec => []AttemptsAreAccounted
BY QueueIsInductive, PTL DEF QueueInv

(* A failed job that is blocked is blocked by the pause in force, whose    *)
(* resume releases it: a pause lifted or made by an operator strands none. *)
THEOREM ResumeReleases == Spec => []BlockedIsReleasable
BY QueueIsInductive, PTL DEF QueueInv

(* A failed job waits for a retry, a hold or a resume, but for those an    *)
(* operator released during a pause.                                       *)
THEOREM StrandedByReleaseOnly == Spec => []OnlyReleaseStrands
BY QueueIsInductive, PTL DEF QueueInv

-----------------------------------------------------------------------------
(* The collection of a channel *)

Primary == {"primary page", "primary kept"}
Second == {"overlap page", "overlap kept"}
Pcs == Primary \cup Second \cup {"idle", "primary", "overlap", "rank"}
Pages == UNION {[S -> Versions \ {0}] : S \in SUBSET Ids}
Memory == [pc : Pcs, rows : Pages, more : BOOLEAN, pages : Nat]

MemoryTypeOK ==
  /\ CollectionTypeOK /\ atStart \in [Ids -> Versions]
  /\ run \in Memory
  /\ run.pc \in Second \cup {"overlap"} => run.pages > 0

(* A message that is there was posted, and is no older than it was when    *)
(* the interval was opened.                                                *)
MessagesGrow ==
  \A m \in Ids : /\ version[m] <= changes + 1
                 /\ version[m] > 0 => m <= top /\ atStart[m] <= version[m]
                 /\ m > top => atStart[m] = 0

(* No frontier is above the channel, and an interval looks no higher in    *)
(* its past than the first scan did.                                       *)
FrontiersAreOrdered ==
  /\ cursor.id <= top
  /\ ~cursor.known => cursor.id = 0
  /\ interval.open => /\ interval.next <= interval.upper /\ interval.upper <= top
                      /\ interval.base <= top /\ interval.floor <= first
  /\ run.pc \in Primary \cup {"primary"} => interval.open /\ ~interval.complete
  /\ run.pc \in Second \cup {"overlap"} => interval.open /\ interval.complete

(* A page in memory holds all there is above a frontier, up to its last    *)
(* row, or up to the end when no page follows.                             *)
Covers(S, rows, more, after, upper, floor) ==
  /\ \A m \in DOMAIN rows : after < m /\ m <= upper
  /\ more => DOMAIN rows # {}
  /\ \A m \in S : /\ after < m /\ floor <= m
                  /\ m <= IF more THEN Max(DOMAIN rows) ELSE upper
                  => m \in DOMAIN rows

PagesCover ==
  /\ run.pc \in Primary =>
       Covers(There, run.rows, run.more, interval.next, interval.upper, interval.floor)
  /\ run.pc \in Second =>
       Covers(There, run.rows, run.more, OverlapStart, interval.base, OverlapFloor)
  /\ run.pc \in Primary \cup Second => \A m \in DOMAIN run.rows : run.rows[m] >= atStart[m]
  /\ run.pc \in {"primary kept", "overlap kept"} =>
       \A m \in DOMAIN run.rows : recorded[m] = run.rows[m]

(* What the second look has behind it was recorded as edited when the      *)
(* interval was opened.                                                    *)
SeenAgain(m) == recorded[m] >= atStart[m]
OverlapIsSeen ==
  interval.open => \A m \in There :
    /\ m + Overlap > interval.base /\ m <= interval.base
    /\ m >= OverlapFloor /\ m <= OverlapStart
    => SeenAgain(m)

CollectionInv == /\ MemoryTypeOK /\ MessagesGrow /\ FrontiersAreOrdered /\ PagesCover
                 /\ NothingIsSkipped /\ OverlapIsSeen

LEMMA Limits == /\ MaxId \in Nat /\ MaxChanges \in Nat /\ MaxStops \in Nat /\ Overlap \in Nat
                /\ PageSize \in Nat \ {0} /\ MaxPages \in Nat \ {0} /\ Ids \subseteq Nat \ {0}
<1>1. MaxId \in Nat /\ MaxChanges \in Nat /\ MaxStops \in Nat /\ Overlap \in Nat
  BY CollectionBounds, Zenon DEF CollectionBounds
<1>2. PageSize \in Nat \ {0} /\ MaxPages \in Nat \ {0}
  BY PageLimits, Zenon DEF PageLimits
<1> QED BY <1>1, <1>2 DEF Ids

(* A set of ids has a least and a greatest element.                        *)
LEMMA LeastOf ==
  ASSUME NEW S, S \subseteq Nat, S # {}
  PROVE  \E x \in S : \A y \in S : x <= y
<1>1. IsWellFoundedOn(OpToRel(<, Nat), Nat)
  BY NatLessThanWellFounded
<1>2. PICK x \in S : \A y \in S : <<y, x>> \notin OpToRel(<, Nat)
  BY <1>1, WFMin
<1>3. \A y \in S : y \in Nat /\ x \in Nat => ~(y < x)
  BY <1>2, Zenon DEF OpToRel
<1> QED BY <1>3

LEMMA GreatestOf ==
  ASSUME NEW S \in SUBSET Ids, S # {}
  PROVE  Max(S) \in S /\ \A y \in S : y <= Max(S)
<1> USE Limits
<1> DEFINE D == {MaxId - x : x \in S}
<1>1. \A x \in S : x \in Nat /\ x <= MaxId
  BY DEF Ids
<1>2. D \subseteq Nat /\ D # {}
  <2>1. \A x \in S : MaxId - x \in Nat
    BY <1>1
  <2>2. PICK x \in S : TRUE
    OBVIOUS
  <2>3. MaxId - x \in D
    OBVIOUS
  <2> QED BY <2>1, <2>3
<1>3. PICK d \in D : \A e \in D : d <= e
  BY <1>2, LeastOf
<1>4. PICK x \in S : d = MaxId - x
  OBVIOUS
<1>5. \A y \in S : x >= y
  <2> TAKE y \in S
  <2>1. MaxId - y \in D
    OBVIOUS
  <2>2. MaxId - x <= MaxId - y
    BY <1>3, <1>4, <2>1
  <2>3. x \in Nat /\ y \in Nat /\ MaxId \in Nat
    BY <1>1
  <2> HIDE DEF D
  <2> QED BY <2>2, <2>3
<1>6. Max(S) \in S /\ \A y \in S : Max(S) >= y
  BY <1>5 DEF Max
<1> QED BY <1>1, <1>6

LEMMA FiniteIds == \A S \in SUBSET Ids : IsFiniteSet(S) /\ Cardinality(S) \in Nat
<1>1. IsFiniteSet(Ids)
  BY Limits, FS_Interval DEF Ids
<1> QED BY <1>1, FS_Subset, FS_CardinalityType

(* A page is all of a set that fits it, or holds every element up to its   *)
(* last.                                                                   *)
LEMMA PageOf ==
  ASSUME NEW S \in SUBSET Ids, NEW n \in Nat \ {0}
  PROVE  /\ Smallest(S, n) \subseteq S
         /\ Cardinality(S) <= n => Smallest(S, n) = S
         /\ Cardinality(S) > n =>
              /\ Smallest(S, n) # {}
              /\ \A m \in S : m <= Max(Smallest(S, n)) => m \in Smallest(S, n)
<1> DEFINE P == Smallest(S, n)
           UpTo(m) == {k \in S : k <= m}
<1>1. /\ P \subseteq S /\ S \subseteq Nat
      /\ \A m \in S : m \in P <=> Cardinality(UpTo(m)) <= n
  BY Limits DEF Smallest
<1>2. \A m, k \in S : m <= k => Cardinality(UpTo(m)) <= Cardinality(UpTo(k))
  <2> SUFFICES ASSUME NEW m \in S, NEW k \in S, m <= k
               PROVE  Cardinality(UpTo(m)) <= Cardinality(UpTo(k))
    OBVIOUS
  <2>1. ASSUME NEW i \in S, i <= m PROVE i <= k
    <3>1. i \in Nat /\ m \in Nat /\ k \in Nat
      BY <1>1
    <3> QED BY <2>1, <3>1
  <2>2. IsFiniteSet(UpTo(k))
    BY FiniteIds
  <2>3. UpTo(m) \subseteq UpTo(k)
    BY <2>1
  <2> QED BY <2>2, <2>3, FS_Subset
<1>3. \A m \in S : Cardinality(UpTo(m)) \in Nat /\ Cardinality(UpTo(m)) <= Cardinality(S)
  <2> TAKE m \in S
  <2>1. UpTo(m) \subseteq S
    OBVIOUS
  <2>2. IsFiniteSet(S)
    BY FiniteIds
  <2>3. Cardinality(UpTo(m)) \in Nat
    BY FiniteIds
  <2> QED BY <2>1, <2>2, <2>3, FS_Subset
<1>4. Cardinality(S) \in Nat
  BY FiniteIds
<1>5. ASSUME Cardinality(S) <= n PROVE P = S
  <2>1. \A m \in S : Cardinality(UpTo(m)) <= n
    BY <1>3, <1>4, <1>5
  <2> QED BY <1>1, <2>1
<1>6. ASSUME Cardinality(S) > n
      PROVE  P # {} /\ \A m \in S : m <= Max(P) => m \in P
  <2>1. S # {}
    BY <1>4, <1>6, FS_EmptySet
  <2>2. PICK x \in S : \A y \in S : x <= y
    BY <1>1, <2>1, LeastOf
  <2>3. UpTo(x) = {x}
    <3>1. ASSUME NEW i \in S, i <= x PROVE i = x
      <4>1. i \in Nat /\ x \in Nat /\ x <= i
        BY <1>1, <2>2
      <4> QED BY <3>1, <4>1
    <3>2. x <= x
      BY <1>1
    <3> QED BY <3>1, <3>2
  <2>4. Cardinality(UpTo(x)) = 1
    BY <2>3, FS_Singleton
  <2>5. x \in P
    BY <1>1, <2>4
  <2>6. Max(P) \in P
    BY <1>1, <2>5, GreatestOf
  <2>7. ASSUME NEW m \in S, m <= Max(P) PROVE m \in P
    <3>1. /\ Cardinality(UpTo(m)) <= Cardinality(UpTo(Max(P)))
          /\ Cardinality(UpTo(Max(P))) <= n
      BY <1>1, <1>2, <2>6, <2>7
    <3>2. Cardinality(UpTo(m)) \in Nat /\ Cardinality(UpTo(Max(P))) \in Nat
      BY <1>1, <1>3, <2>6
    <3>3. Cardinality(UpTo(m)) <= n
      BY <3>1, <3>2
    <3> QED BY <1>1, <3>3
  <2> QED BY <2>5, <2>7
<1> QED BY <1>1, <1>5, <1>6

(* What one read brings covers the channel above the frontier it started   *)
(* from.                                                                   *)
Alive(v) == {m \in Ids : v[m] > 0}
Window(S, after, upper, floor) == {m \in S : after < m /\ m <= upper /\ floor <= m}
PageRows(v, R) == [m \in Smallest(R, PageSize) |-> v[m]]

LEMMA ReadCovers ==
  ASSUME NEW v \in [Ids -> Versions],
         NEW after \in Nat, NEW upper \in Nat, NEW floor \in Nat
  PROVE  LET R == Window(Alive(v), after, upper, floor)
         IN  /\ PageRows(v, R) \in Pages
             /\ DOMAIN PageRows(v, R) \subseteq Alive(v)
             /\ \A m \in DOMAIN PageRows(v, R) : PageRows(v, R)[m] = v[m]
             /\ Covers(Alive(v), PageRows(v, R), Cardinality(R) > PageSize,
                       after, upper, floor)
<1> DEFINE S == Alive(v)
           R == Window(S, after, upper, floor)
           rows == PageRows(v, R)
           more == Cardinality(R) > PageSize
<1> USE DEF Alive, Window, PageRows
<1> DEFINE P == Smallest(R, PageSize)
<1>1. R \in SUBSET Ids /\ PageSize \in Nat \ {0} /\ Cardinality(R) \in Nat
  BY Limits, FiniteIds
<1>2. /\ P \subseteq R
      /\ ~more => P = R
      /\ more => P # {} /\ \A m \in R : m <= Max(P) => m \in P
  <2>1. ~more => Cardinality(R) <= PageSize
    BY <1>1
  <2>2. more => Cardinality(R) > PageSize
    OBVIOUS
  <2> QED BY <1>1, <2>1, <2>2, PageOf
<1> HIDE DEF P
<1>3. DOMAIN rows = P /\ \A m \in P : rows[m] = v[m]
  BY DEF P
<1>4. P \in SUBSET Ids /\ P \subseteq S
  BY <1>1, <1>2
<1>5. rows \in [P -> Versions \ {0}]
  <2>1. \A m \in P : v[m] \in Versions \ {0}
    BY <1>4 DEF Versions
  <2> QED BY <2>1 DEF P
<1>6. rows \in Pages
  BY <1>4, <1>5 DEF Pages
<1>7. more => Max(P) <= upper
  <2> SUFFICES ASSUME more PROVE Max(P) <= upper
    OBVIOUS
  <2>1. Max(P) \in P
    BY <1>2, <1>4, GreatestOf
  <2> QED BY <1>2, <2>1
<1>8. more => Max(P) \in Nat
  BY <1>2, <1>4, GreatestOf, Limits
<1>9. \A m \in S : after < m /\ floor <= m /\ m <= (IF more THEN Max(P) ELSE upper)
                    => m \in P
  <2> SUFFICES ASSUME NEW m \in S, after < m, floor <= m,
                      m <= IF more THEN Max(P) ELSE upper
               PROVE  m \in P
    OBVIOUS
  <2>1. m \in Nat
    BY Limits
  <2>2. m <= upper
    BY <1>7, <1>8, <2>1
  <2> QED BY <1>2, <2>2
<1>10. Covers(S, rows, more, after, upper, floor)
  BY <1>2, <1>3, <1>9 DEF Covers
<1> QED BY <1>3, <1>4, <1>6, <1>10

-----------------------------------------------------------------------------
(* The steps of the channel and of a run *)

Quiet == Pcs \ (Primary \cup Second)

LEMMA RestingIs ==
  ASSUME NEW pc \in Pcs, NEW n \in Nat
  PROVE  /\ Resting \in Memory /\ Resting.pc = "idle"
         /\ [Resting EXCEPT !.pc = pc] \in Memory
         /\ [Resting EXCEPT !.pc = pc].pc = pc
         /\ [Resting EXCEPT !.pc = pc, !.pages = n] \in Memory
         /\ [Resting EXCEPT !.pc = pc, !.pages = n].pc = pc
         /\ [Resting EXCEPT !.pc = pc, !.pages = n].pages = n
<1>1. NoRows \in [{} -> Versions \ {0}]
  BY DEF NoRows
<1>2. {} \in SUBSET Ids
  OBVIOUS
<1>3. NoRows \in Pages
  BY <1>1, <1>2 DEF Pages
<1>4. "idle" \in Pcs
  BY DEF Pcs
<1>5. Resting \in Memory /\ Resting.pc = "idle"
  BY <1>3, <1>4 DEF Resting, Memory
<1> QED BY <1>5 DEF Memory

LEMMA NoPage ==
  ASSUME run'.pc \notin Primary \cup Second
  PROVE  PagesCover'
BY DEF PagesCover, Primary, Second

LEMMA NewestIs ==
  ASSUME MemoryTypeOK, MessagesGrow, FrontiersAreOrdered
  PROVE  /\ Newest \in 0..MaxId /\ Newest <= top
         /\ There \in SUBSET Ids
<1> USE Limits
<1>1. cursor.id \in 0..MaxId /\ cursor.id <= top
  BY DEF MemoryTypeOK, CollectionTypeOK, FrontiersAreOrdered
<1>2. There \in SUBSET Ids /\ \A m \in There : m <= top
  BY DEF There, MessagesGrow
<1>3. CASE There = {}
  BY <1>1, <1>2, <1>3 DEF Newest
<1>4. CASE There # {}
  <2>1. Max(There) \in There
    BY <1>2, <1>4, GreatestOf
  <2>2. Max(There) \in 0..MaxId
    <3>1. Max(There) \in Ids
      BY <1>2, <2>1
    <3> QED BY <3>1 DEF Ids
  <2> QED BY <1>2, <1>4, <2>1, <2>2 DEF Newest
<1> QED BY <1>3, <1>4

LEMMA CollectionStarts == CollectionInit => CollectionInv
<1> SUFFICES ASSUME CollectionInit PROVE CollectionInv
  OBVIOUS
<1> USE Limits DEF CollectionInit
<1>1. /\ run \in Memory /\ run.pc = "idle" /\ ~interval.open
      /\ "idle" \notin Primary \cup Second \cup {"primary", "overlap"}
  <2>1. "idle" \in Pcs /\ 0 \in Nat
    BY DEF Pcs
  <2> QED BY <2>1, RestingIs DEF Closed, Primary, Second
<1>2. CollectionTypeOK
  BY DEF CollectionTypeOK, Closed, Versions, Ids
<1>3. MemoryTypeOK
  BY <1>1, <1>2 DEF MemoryTypeOK, Memory, Versions
<1>4. MessagesGrow
  BY DEF MessagesGrow
<1>5. FrontiersAreOrdered
  BY <1>1 DEF FrontiersAreOrdered
<1>6. PagesCover
  BY <1>1 DEF PagesCover, Primary
<1>7. NothingIsSkipped
  BY DEF NothingIsSkipped, There
<1>8. OverlapIsSeen
  BY <1>1 DEF OverlapIsSeen
<1> QED BY <1>3, <1>4, <1>5, <1>6, <1>7, <1>8 DEF CollectionInv

(* Whatever the channel does above every frontier, or takes away, undoes   *)
(* nothing.                                                                *)
LEMMA ChannelMoves ==
  ASSUME CollectionInv, UNCHANGED <<recorded, cursor, interval, run, history>>,
         \A m \in There' : m \in There \/ (m \in Nat /\ m > top)
  PROVE  (PagesCover /\ NothingIsSkipped /\ OverlapIsSeen)'
<1> USE Limits
<1>1. /\ recorded' = recorded /\ cursor' = cursor /\ interval' = interval /\ run' = run
      /\ first' = first /\ atStart' = atStart
  BY DEF history
<1>2. /\ cursor.id \in Nat /\ cursor.id <= top /\ top \in Nat
      /\ interval.upper \in Nat /\ interval.next \in Nat /\ interval.base \in Nat
      /\ interval.open => /\ interval.upper <= top /\ interval.base <= top
                          /\ interval.next <= interval.upper
      /\ run.pc \in Primary \cup Second => interval.open
      /\ DOMAIN run.rows # {} => Max(DOMAIN run.rows) \in DOMAIN run.rows
      /\ DOMAIN run.rows \subseteq Nat
  <2>1. DOMAIN run.rows \in SUBSET Ids
    BY DEF CollectionInv, MemoryTypeOK, Memory, Pages
  <2>2. DOMAIN run.rows # {} => Max(DOMAIN run.rows) \in DOMAIN run.rows
    BY <2>1, GreatestOf
  <2>3. /\ cursor.id \in Nat /\ top \in Nat
        /\ interval.upper \in Nat /\ interval.next \in Nat /\ interval.base \in Nat
    BY DEF CollectionInv, MemoryTypeOK, CollectionTypeOK
  <2>4. /\ cursor.id <= top
        /\ interval.open => /\ interval.upper <= top /\ interval.base <= top
                            /\ interval.next <= interval.upper
        /\ run.pc \in Primary \cup Second => interval.open
    BY DEF CollectionInv, FrontiersAreOrdered
  <2>5. DOMAIN run.rows \subseteq Nat
    BY <2>1
  <2> QED BY <2>2, <2>3, <2>4, <2>5
<1>3. Frontier \in Nat /\ Frontier <= top /\ Frontier' = Frontier
  BY <1>1, <1>2 DEF Frontier
<1>4. NothingIsSkipped'
  <2> SUFFICES ASSUME NEW m \in There', first <= m, m <= Frontier PROVE recorded[m] > 0
    BY <1>1, <1>3 DEF NothingIsSkipped
  <2>1. m \in There
    BY <1>2, <1>3
  <2> QED BY <2>1 DEF CollectionInv, NothingIsSkipped
<1>5. OverlapStart' = OverlapStart /\ OverlapFloor' = OverlapFloor
  BY <1>1 DEF OverlapStart, OverlapFloor
<1>6. OverlapIsSeen'
  <2> SUFFICES ASSUME interval.open, NEW m \in There',
                      m + Overlap > interval.base, m <= interval.base,
                      m >= OverlapFloor, m <= OverlapStart
               PROVE  SeenAgain(m)
    BY <1>1, <1>5 DEF OverlapIsSeen, SeenAgain
  <2>1. m \in There
    BY <1>2
  <2> QED BY <2>1 DEF CollectionInv, OverlapIsSeen
<1>7. ASSUME NEW after, NEW upper \in Nat, NEW floor, upper <= top,
             Covers(There, run.rows, run.more, after, upper, floor)
      PROVE  Covers(There', run.rows, run.more, after, upper, floor)
  <2>1. /\ \A m \in DOMAIN run.rows : m <= upper
        /\ run.more => DOMAIN run.rows # {}
    BY <1>7 DEF Covers
  <2>2. run.more => Max(DOMAIN run.rows) \in Nat /\ Max(DOMAIN run.rows) <= upper
    BY <1>2, <2>1
  <2>3. ASSUME NEW m \in There', m <= IF run.more THEN Max(DOMAIN run.rows) ELSE upper
        PROVE  m \in There
    BY <1>2, <1>7, <2>2, <2>3
  <2> QED BY <1>7, <2>3 DEF Covers
<1>8. PagesCover'
  <2>1. run.pc \in Primary =>
          Covers(There', run.rows, run.more, interval.next, interval.upper, interval.floor)
    BY <1>2, <1>7 DEF CollectionInv, PagesCover
  <2>2. run.pc \in Second =>
          Covers(There', run.rows, run.more, OverlapStart, interval.base, OverlapFloor)
    BY <1>2, <1>7 DEF CollectionInv, PagesCover
  <2> QED BY <1>1, <1>5, <2>1, <2>2 DEF CollectionInv, PagesCover
<1> QED BY <1>4, <1>6, <1>8

LEMMA ChannelKeeps ==
  ASSUME CollectionInv, Post \/ (\E m \in Ids : Change(m)) \/ Age
  PROVE  CollectionInv'
<1> USE Limits
<1>1. UNCHANGED <<recorded, ranked, cursor, interval, run, first, atStart, stops>>
  BY DEF Post, Change, Age, history
<1>2. /\ top \in Nat /\ top <= MaxId /\ version \in [Ids -> Versions]
      /\ changes \in Nat /\ changes <= MaxChanges /\ recent \in 1..(MaxId + 1)
      /\ \A m \in Ids : version[m] \in Nat
  BY DEF CollectionInv, MemoryTypeOK, CollectionTypeOK, Versions
<1>3. /\ top' \in 0..MaxId /\ top' >= top
      /\ version' \in [Ids -> Versions] /\ changes' \in 0..MaxChanges
      /\ recent' \in 1..(MaxId + 1)
      /\ MessagesGrow'
      /\ \A m \in There' : m \in There \/ (m \in Nat /\ m > top)
  <2>1. CASE Post
    <3>1. /\ top' = top + 1 /\ version' = [version EXCEPT ![top + 1] = 1] /\ top + 1 \in Ids
          /\ changes' = changes /\ recent' = recent
      BY <1>2, <2>1 DEF Post, Ids
    <3>2. \A m \in Ids : version'[m] = IF m = top + 1 THEN 1 ELSE version[m]
      BY <1>2, <3>1
    <3>3. MessagesGrow'
      <4> SUFFICES ASSUME NEW m \in Ids
                   PROVE  /\ version'[m] <= changes + 1
                          /\ version'[m] > 0 => m <= top + 1 /\ atStart[m] <= version'[m]
                          /\ m > top + 1 => atStart[m] = 0
        BY <1>1, <3>1 DEF MessagesGrow
      <4>1. /\ version[m] <= changes + 1
            /\ version[m] > 0 => m <= top /\ atStart[m] <= version[m]
            /\ m > top => atStart[m] = 0
        BY DEF CollectionInv, MessagesGrow
      <4>2. m \in Nat
        OBVIOUS
      <4> QED BY <1>2, <3>2, <4>1, <4>2
    <3>4. \A m \in There' : m \in There \/ (m \in Nat /\ m > top)
      BY <1>2, <3>1, <3>2 DEF There
    <3>5. 1 \in Versions
      BY DEF Versions
    <3> QED BY <1>2, <2>1, <3>1, <3>3, <3>4, <3>5 DEF Post
  <2>2. CASE \E k \in Ids : Change(k)
    <3>1. PICK k \in Ids : Change(k)
      BY <2>2
    <3>2. /\ version[k] > 0 /\ changes < MaxChanges /\ changes' = changes + 1
          /\ top' = top /\ recent' = recent
          /\ \A m \in Ids : version'[m] = IF m = k THEN version'[k] ELSE version[m]
          /\ version'[k] \in {version[k] + 1, 0}
          /\ version' = [version EXCEPT ![k] = version'[k]]
      BY <1>2, <3>1 DEF Change
    <3>3. \A m \in Ids : /\ version[m] <= changes + 1
                         /\ version[m] > 0 => m <= top /\ atStart[m] <= version[m]
                         /\ m > top => atStart[m] = 0
      BY DEF CollectionInv, MessagesGrow
    <3>4. atStart[k] \in Nat
      BY DEF CollectionInv, MemoryTypeOK, Versions
    <3>5. MessagesGrow'
      <4> SUFFICES ASSUME NEW m \in Ids
                   PROVE  /\ version'[m] <= changes + 1 + 1
                          /\ version'[m] > 0 => m <= top /\ atStart[m] <= version'[m]
                          /\ m > top => atStart[m] = 0
        BY <1>1, <3>2 DEF MessagesGrow
      <4> QED BY <1>2, <3>2, <3>3, <3>4
    <3>6. version' \in [Ids -> Versions]
      <4>1. version[k] <= changes + 1 /\ version[k] \in Nat
        BY <1>2, <3>3
      <4>2. version'[k] \in Versions
        BY <1>2, <3>2, <4>1 DEF Versions
      <4> QED BY <1>2, <3>2, <4>2
    <3>7. \A m \in There' : m \in There
      BY <3>2 DEF There
    <3> QED BY <1>2, <3>2, <3>5, <3>6, <3>7
  <2>3. CASE Age
    <3>1. top' = top /\ version' = version /\ changes' = changes /\ recent' = recent + 1
          /\ recent <= top
      BY <2>3 DEF Age
    <3>2. There' = There
      BY <3>1 DEF There
    <3>3. MessagesGrow'
      BY <1>1, <3>1 DEF CollectionInv, MessagesGrow
    <3> QED BY <1>2, <3>1, <3>2, <3>3
  <2> QED BY <2>1, <2>2, <2>3
<1>4. MemoryTypeOK'
  BY <1>1, <1>3 DEF CollectionInv, MemoryTypeOK, CollectionTypeOK
<1>5. FrontiersAreOrdered'
  <2>1. cursor.id \in Nat /\ interval.upper \in Nat /\ interval.base \in Nat /\ top' \in Nat
    BY <1>3 DEF CollectionInv, MemoryTypeOK, CollectionTypeOK
  <2> QED BY <1>1, <1>2, <1>3, <2>1 DEF CollectionInv, FrontiersAreOrdered
<1>6. (PagesCover /\ NothingIsSkipped /\ OverlapIsSeen)'
  BY <1>1, <1>3, ChannelMoves DEF history
<1> QED BY <1>3, <1>4, <1>5, <1>6 DEF CollectionInv

(* Steps that leave the channel and every durable row alone.               *)
LEMMA RunMoves ==
  ASSUME CollectionInv, UNCHANGED <<channel, recorded, cursor, interval, history>>,
         run' \in Memory, run'.pc \notin Primary \cup Second,
         run'.pc = "primary" => interval.open /\ ~interval.complete,
         run'.pc = "overlap" => interval.open /\ interval.complete /\ run'.pages > 0,
         ranked' \subseteq Ids, stops' \in 0..MaxStops
  PROVE  CollectionInv'
<1>1. /\ UNCHANGED <<top, version, changes, recent, recorded, cursor, interval,
                     first, atStart>>
      /\ There' = There
  BY DEF channel, history, There
<1>2. MemoryTypeOK'
  <2>1. CollectionTypeOK'
    BY <1>1 DEF CollectionInv, MemoryTypeOK, CollectionTypeOK
  <2> QED BY <1>1, <2>1 DEF CollectionInv, MemoryTypeOK
<1>3. MessagesGrow'
  BY <1>1 DEF CollectionInv, MessagesGrow
<1>4. FrontiersAreOrdered'
  BY <1>1 DEF CollectionInv, FrontiersAreOrdered
<1>5. PagesCover'
  BY NoPage
<1>6. NothingIsSkipped'
  BY <1>1 DEF CollectionInv, NothingIsSkipped, Frontier
<1>7. OverlapIsSeen'
  BY <1>1 DEF CollectionInv, OverlapIsSeen, SeenAgain, OverlapFloor, OverlapStart
<1> QED BY <1>2, <1>3, <1>4, <1>5, <1>6, <1>7 DEF CollectionInv

LEMMA PcsAre ==
  /\ {"idle", "primary", "overlap", "rank"} \subseteq Pcs
  /\ \A pc \in {"idle", "primary", "overlap", "rank"} : pc \notin Primary \cup Second
BY DEF Pcs, Primary, Second

LEMMA RunKeeps ==
  ASSUME CollectionInv, ResumeInterval \/ RankAll \/ Stop
  PROVE  CollectionInv'
<1> USE Limits, PcsAre
<1>1. CASE ResumeInterval
  <2>1. /\ interval.open /\ UNCHANGED <<channel, recorded, ranked, cursor, interval,
                                       history, stops>>
        /\ run' = [Resting EXCEPT !.pc = IF interval.complete THEN "overlap" ELSE "primary",
                                  !.pages = MaxPages]
    BY <1>1 DEF ResumeInterval
  <2> DEFINE pc == IF interval.complete THEN "overlap" ELSE "primary"
  <2>2. pc \in Pcs /\ MaxPages \in Nat /\ pc \in {"primary", "overlap"}
    OBVIOUS
  <2>3. /\ pc = "primary" => ~interval.complete
        /\ pc = "overlap" => interval.complete
    OBVIOUS
  <2> HIDE DEF pc
  <2>4. run' = [Resting EXCEPT !.pc = pc, !.pages = MaxPages]
    BY <2>1 DEF pc
  <2>5. run' \in Memory /\ run'.pc = pc /\ run'.pages > 0
    <3>1. /\ [Resting EXCEPT !.pc = pc, !.pages = MaxPages] \in Memory
          /\ [Resting EXCEPT !.pc = pc, !.pages = MaxPages].pc = pc
          /\ [Resting EXCEPT !.pc = pc, !.pages = MaxPages].pages = MaxPages
      BY <2>2, RestingIs
    <3> QED BY <2>4, <3>1
  <2>6. ranked' \subseteq Ids /\ stops' \in 0..MaxStops
    BY <2>1 DEF CollectionInv, MemoryTypeOK, CollectionTypeOK
  <2> QED BY <2>1, <2>2, <2>3, <2>5, <2>6, RunMoves
<1>2. CASE RankAll \/ Stop
  <2>1. /\ run' = Resting /\ ranked' \subseteq Ids /\ stops' \in 0..MaxStops
        /\ UNCHANGED <<channel, recorded, cursor, interval, history>>
    <3>1. ranked \subseteq Ids /\ stops \in 0..MaxStops
      BY DEF CollectionInv, MemoryTypeOK, CollectionTypeOK
    <3>2. CASE RankAll
      BY <3>1, <3>2 DEF RankAll
    <3>3. CASE Stop
      BY <3>1, <3>3 DEF Stop
    <3> QED BY <1>2, <3>2, <3>3
  <2>2. run' \in Memory /\ run'.pc = "idle"
    BY <2>1, RestingIs
  <2> QED BY <2>1, <2>2, RunMoves
<1> QED BY <1>1, <1>2

(* A new interval starts from the cursor, and nothing of it is behind it.  *)
LEMMA OpenKeeps == ASSUME CollectionInv, OpenInterval PROVE CollectionInv'
<1> USE Limits, PcsAre
<1>1. PICK floor \in IF cursor.known THEN {0} ELSE recent..(top + 1) :
        /\ interval' = [open |-> TRUE, base |-> cursor.id, upper |-> Newest,
                        next |-> cursor.id, complete |-> FALSE, floor |-> floor,
                        recent |-> recent, overlap |-> 0]
        /\ first' = IF cursor.known THEN first ELSE floor
  BY DEF OpenInterval
<1>2. /\ ~interval.open /\ Newest >= cursor.id /\ atStart' = version
      /\ run' = [Resting EXCEPT !.pc = "primary"]
      /\ UNCHANGED <<top, version, changes, recent, recorded, ranked, cursor, stops>>
      /\ There' = There
  BY DEF OpenInterval, channel, There
<1>3. /\ cursor.id \in 0..MaxId /\ top \in 0..MaxId /\ recent \in 1..(MaxId + 1)
      /\ version \in [Ids -> Versions] /\ first \in 0..(MaxId + 1)
  BY DEF CollectionInv, MemoryTypeOK, CollectionTypeOK
<1>4. cursor.id <= top
  BY DEF CollectionInv, FrontiersAreOrdered
<1>5. Newest \in 0..MaxId /\ Newest <= top
  BY NewestIs DEF CollectionInv
<1>6. floor \in 0..(MaxId + 1) /\ first' \in 0..(MaxId + 1) /\ floor <= first'
  BY <1>1, <1>3
<1>7. /\ interval'.open /\ ~interval'.complete /\ interval'.base = cursor.id
      /\ interval'.upper = Newest /\ interval'.next = cursor.id
      /\ interval'.floor = floor /\ interval'.overlap = 0
  BY <1>1
<1>8. run' \in Memory /\ run'.pc = "primary"
  BY <1>2, RestingIs
<1>9. MemoryTypeOK'
  <2>1. interval' \in [open : BOOLEAN, base : 0..MaxId, upper : 0..MaxId,
          next : 0..MaxId, complete : BOOLEAN, floor : 0..(MaxId + 1),
          recent : 0..(MaxId + 1), overlap : 0..MaxId]
    BY <1>1, <1>3, <1>5, <1>6
  <2>2. CollectionTypeOK'
    BY <1>2, <1>6, <2>1 DEF CollectionInv, MemoryTypeOK, CollectionTypeOK
  <2> QED BY <1>2, <1>3, <1>8, <2>2 DEF MemoryTypeOK
<1>10. MessagesGrow'
  <2> SUFFICES ASSUME NEW m \in Ids
               PROVE  /\ version[m] <= changes + 1
                      /\ version[m] > 0 => m <= top /\ version[m] <= version[m]
                      /\ m > top => version[m] = 0
    BY <1>2 DEF MessagesGrow
  <2>1. version[m] \in Nat /\ m \in Nat /\ top \in Nat
    BY <1>3 DEF Versions
  <2>2. version[m] <= changes + 1 /\ (version[m] > 0 => m <= top)
    BY DEF CollectionInv, MessagesGrow
  <2> QED BY <2>1, <2>2
<1>11. FrontiersAreOrdered'
  <2>1. cursor'.id <= top' /\ (~cursor'.known => cursor'.id = 0)
    BY <1>2 DEF CollectionInv, FrontiersAreOrdered
  <2> QED BY <1>2, <1>3, <1>4, <1>5, <1>6, <1>7, <1>8, <2>1 DEF FrontiersAreOrdered, Second
<1>12. PagesCover'
  BY <1>8, NoPage
<1>13. NothingIsSkipped'
  <2> SUFFICES ASSUME NEW m \in There, first' <= m, m <= cursor.id PROVE recorded[m] > 0
    BY <1>2, <1>7 DEF NothingIsSkipped, Frontier
  <2>1. m \in Nat \ {0}
    BY DEF There
  <2>2. cursor.known
    <3>1. ~cursor.known => cursor.id = 0
      BY DEF CollectionInv, FrontiersAreOrdered
    <3> QED BY <2>1, <3>1
  <2>3. first <= m /\ m <= Frontier
    BY <1>1, <1>2, <2>2 DEF Frontier
  <2> QED BY <2>3 DEF CollectionInv, NothingIsSkipped
<1>14. OverlapIsSeen'
  <2> SUFFICES ASSUME NEW m \in There', m + Overlap > interval'.base, m <= OverlapStart'
               PROVE  FALSE
    BY DEF OverlapIsSeen
  <2>1. m \in Nat \ {0}
    BY <1>2 DEF There
  <2>2. OverlapStart' = IF cursor.id > Overlap THEN cursor.id - Overlap ELSE 0
    BY <1>7 DEF OverlapStart
  <2> QED BY <1>3, <1>7, <2>1, <2>2
<1> QED BY <1>9, <1>10, <1>11, <1>12, <1>13, <1>14 DEF CollectionInv

(* The numbers of the frontiers. *)
LEMMA FrontierTypes ==
  ASSUME MemoryTypeOK
  PROVE  /\ top \in Nat /\ cursor.id \in 0..MaxId /\ first \in Nat
         /\ version \in [Ids -> Versions] /\ atStart \in [Ids -> Versions]
         /\ recorded \in [Ids -> Versions] /\ There \in SUBSET Ids
         /\ \A m \in Ids : version[m] \in Nat /\ atStart[m] \in Nat /\ recorded[m] \in Nat
         /\ interval.base \in 0..MaxId /\ interval.upper \in 0..MaxId
         /\ interval.next \in 0..MaxId /\ interval.floor \in Nat /\ interval.recent \in Nat
         /\ interval.overlap \in 0..MaxId
         /\ OverlapFloor \in Nat /\ OverlapStart \in Nat
<1> USE Limits
<1>1. /\ top \in Nat /\ cursor.id \in 0..MaxId /\ first \in Nat
      /\ version \in [Ids -> Versions] /\ atStart \in [Ids -> Versions]
      /\ recorded \in [Ids -> Versions]
  BY DEF MemoryTypeOK, CollectionTypeOK
<1>2. \A m \in Ids : version[m] \in Nat /\ atStart[m] \in Nat /\ recorded[m] \in Nat
  BY <1>1 DEF Versions
<1>3. /\ interval.base \in 0..MaxId /\ interval.upper \in 0..MaxId
      /\ interval.next \in 0..MaxId /\ interval.floor \in Nat /\ interval.recent \in Nat
      /\ interval.overlap \in 0..MaxId
  BY DEF MemoryTypeOK, CollectionTypeOK
<1>4. OverlapFloor \in Nat /\ OverlapStart \in Nat
  BY <1>3 DEF OverlapFloor, OverlapStart
<1> QED BY <1>1, <1>2, <1>3, <1>4 DEF There

(* A read puts in memory a page that covers the channel as it is.          *)
LEMMA ReadKeeps == ASSUME CollectionInv, ReadPrimary \/ ReadOverlap PROVE CollectionInv'
<1> USE Limits
<1> DEFINE after == IF ReadPrimary THEN interval.next ELSE OverlapStart
           upper == IF ReadPrimary THEN interval.upper ELSE interval.base
           floor == IF ReadPrimary THEN interval.floor ELSE OverlapFloor
           pc == IF ReadPrimary THEN "primary page" ELSE "overlap page"
<1>1. /\ Read(pc, Rows(after, upper, floor))
      /\ run.pc = (IF pc = "primary page" THEN "primary" ELSE "overlap")
      /\ pc \in {"primary page", "overlap page"}
      /\ pc = "primary page" =>
           after = interval.next /\ upper = interval.upper /\ floor = interval.floor
      /\ pc = "overlap page" =>
           after = OverlapStart /\ upper = interval.base /\ floor = OverlapFloor
      /\ UNCHANGED <<channel, recorded, ranked, cursor, interval, history, stops>>
  BY DEF ReadPrimary, ReadOverlap
<1>2. after \in Nat /\ upper \in Nat /\ floor \in Nat
  BY FrontierTypes DEF CollectionInv
<1> HIDE DEF after, upper, floor, pc
<1> DEFINE R == Rows(after, upper, floor)
           rows == PageRows(version, R)
           more == Cardinality(R) > PageSize
<1>3. run' = [run EXCEPT !.pc = pc, !.more = more, !.rows = rows]
  BY <1>1 DEF Read, PageRows
<1>4. /\ rows \in Pages /\ more \in BOOLEAN
      /\ DOMAIN rows \subseteq There /\ \A m \in DOMAIN rows : rows[m] = version[m]
      /\ Covers(There, rows, more, after, upper, floor)
  <2>1. R = Window(Alive(version), after, upper, floor) /\ There = Alive(version)
    BY DEF Rows, Window, Alive, There
  <2>2. version \in [Ids -> Versions]
    BY FrontierTypes DEF CollectionInv
  <2>3. LET Q == Window(Alive(version), after, upper, floor)
        IN  /\ PageRows(version, Q) \in Pages
            /\ DOMAIN PageRows(version, Q) \subseteq Alive(version)
            /\ \A m \in DOMAIN PageRows(version, Q) : PageRows(version, Q)[m] = version[m]
            /\ Covers(Alive(version), PageRows(version, Q), Cardinality(Q) > PageSize,
                      after, upper, floor)
    BY <1>2, <2>2, ReadCovers
  <2> QED BY <2>1, <2>3
<1> HIDE DEF R, rows, more
<1>5. run \in Memory
  BY DEF CollectionInv, MemoryTypeOK
<1>6. pc \in Pcs
  BY <1>1 DEF Pcs, Primary, Second
<1>7. /\ run' \in Memory /\ run'.pc = pc /\ run'.more = more /\ run'.rows = rows
      /\ run'.pages = run.pages
  BY <1>3, <1>4, <1>5, <1>6 DEF Memory
<1>8. /\ UNCHANGED <<top, version, changes, recent, recorded, ranked, cursor, interval,
                     first, atStart, stops>>
      /\ There' = There
  BY <1>1 DEF channel, history, There
<1>9. MemoryTypeOK'
  <2>1. CollectionTypeOK'
    BY <1>8 DEF CollectionInv, MemoryTypeOK, CollectionTypeOK
  <2>2. pc \in Second => run.pages > 0
    BY <1>1 DEF Second, CollectionInv, MemoryTypeOK
  <2>3. pc # "overlap"
    BY <1>1
  <2> QED BY <1>7, <1>8, <2>1, <2>2, <2>3 DEF CollectionInv, MemoryTypeOK
<1>10. MessagesGrow'
  BY <1>8 DEF CollectionInv, MessagesGrow
<1>11. FrontiersAreOrdered'
  <2>1. pc \in Primary \cup {"primary"} => interval.open /\ ~interval.complete
    BY <1>1 DEF Primary, CollectionInv, FrontiersAreOrdered
  <2>2. pc \in Second \cup {"overlap"} => interval.open /\ interval.complete
    BY <1>1 DEF Second, CollectionInv, FrontiersAreOrdered
  <2> QED BY <1>7, <1>8, <2>1, <2>2 DEF CollectionInv, FrontiersAreOrdered
<1>12. PagesCover'
  <2>1. \A m \in DOMAIN rows : rows[m] >= atStart[m]
    <3> SUFFICES ASSUME NEW m \in DOMAIN rows PROVE rows[m] >= atStart[m]
      OBVIOUS
    <3>1. m \in Ids /\ version[m] > 0 /\ rows[m] = version[m]
      BY <1>4 DEF There
    <3>2. version[m] \in Nat /\ atStart[m] \in Nat
      BY <3>1, FrontierTypes DEF CollectionInv
    <3> QED BY <3>1, <3>2 DEF CollectionInv, MessagesGrow
  <2>2. OverlapStart' = OverlapStart /\ OverlapFloor' = OverlapFloor
    BY <1>8 DEF OverlapStart, OverlapFloor
  <2>3. pc \in Primary =>
          Covers(There, rows, more, interval.next, interval.upper, interval.floor)
    BY <1>1, <1>4 DEF Primary
  <2>4. pc \in Second =>
          Covers(There, rows, more, OverlapStart, interval.base, OverlapFloor)
    BY <1>1, <1>4 DEF Second
  <2>5. pc \notin {"primary kept", "overlap kept"}
    BY <1>1
  <2> QED BY <1>7, <1>8, <2>1, <2>2, <2>3, <2>4, <2>5 DEF PagesCover
<1>13. NothingIsSkipped'
  BY <1>8 DEF CollectionInv, NothingIsSkipped, Frontier
<1>14. OverlapIsSeen'
  BY <1>8 DEF CollectionInv, OverlapIsSeen, SeenAgain, OverlapFloor, OverlapStart
<1> QED BY <1>9, <1>10, <1>11, <1>12, <1>13, <1>14 DEF CollectionInv

(* What is recorded is never older than what it replaces was found at the  *)
(* interval's start.                                                       *)
LEMMA RecordsKeep ==
  ASSUME CollectionInv, NEW K \in SUBSET Ids, NEW v, \A m \in K : v[m] \in Versions \ {0},
         \A m \in K : interval.open => v[m] >= atStart[m],
         recorded' = [m \in Ids |-> IF m \in K THEN v[m] ELSE recorded[m]],
         UNCHANGED <<channel, ranked, cursor, interval, history>>
  PROVE  /\ recorded' \in [Ids -> Versions]
         /\ NothingIsSkipped' /\ OverlapIsSeen'
<1>1. recorded \in [Ids -> Versions]
  BY FrontierTypes DEF CollectionInv
<1>2. recorded' \in [Ids -> Versions]
  BY <1>1
<1>3. There' = There /\ There \subseteq Ids /\ Frontier' = Frontier /\ first' = first
      /\ interval' = interval /\ atStart' = atStart
  BY DEF There, channel, history, Frontier
<1>4. NothingIsSkipped'
  <2> SUFFICES ASSUME NEW m \in There, first <= m, m <= Frontier PROVE recorded'[m] > 0
    BY <1>3 DEF NothingIsSkipped
  <2>1. recorded[m] > 0
    BY DEF CollectionInv, NothingIsSkipped
  <2>2. m \in K => v[m] > 0
    BY Limits DEF Versions
  <2> QED BY <1>3, <2>1, <2>2
<1>5. OverlapIsSeen'
  <2> SUFFICES ASSUME interval.open, NEW m \in There,
                      m + Overlap > interval.base, m <= interval.base,
                      m >= OverlapFloor, m <= OverlapStart
               PROVE  recorded'[m] >= atStart[m]
    BY <1>3 DEF OverlapIsSeen, SeenAgain, OverlapFloor, OverlapStart
  <2>1. recorded[m] >= atStart[m]
    BY DEF CollectionInv, OverlapIsSeen, SeenAgain
  <2> QED BY <1>3, <2>1
<1> QED BY <1>2, <1>4, <1>5

LEMMA PersistKeeps == ASSUME CollectionInv, PersistPage PROVE CollectionInv'
<1> USE Limits
<1> DEFINE kept == IF run.pc = "primary page" THEN "primary kept" ELSE "overlap kept"
<1>1. /\ run.pc \in {"primary page", "overlap page"} /\ run' = [run EXCEPT !.pc = kept]
      /\ recorded' = [m \in Ids |-> IF m \in DOMAIN run.rows THEN run.rows[m]
                                    ELSE recorded[m]]
      /\ UNCHANGED <<channel, ranked, cursor, interval, history, stops>>
  BY DEF PersistPage
<1>2. /\ kept \in {"primary kept", "overlap kept"} /\ kept \in Pcs
      /\ run.pc = "primary page" => kept = "primary kept"
      /\ run.pc = "overlap page" => kept = "overlap kept"
  BY DEF Pcs, Primary, Second
<1> HIDE DEF kept
<1>3. run \in Memory
  BY DEF CollectionInv, MemoryTypeOK
<1>4. /\ run' \in Memory /\ run'.pc = kept /\ run'.rows = run.rows /\ run'.more = run.more
      /\ run'.pages = run.pages
  BY <1>1, <1>2, <1>3 DEF Memory
<1>5. /\ DOMAIN run.rows \in SUBSET Ids
      /\ \A m \in DOMAIN run.rows : run.rows[m] \in Versions \ {0}
  <2>1. run.rows \in Pages
    BY <1>3 DEF Memory
  <2>2. PICK S \in SUBSET Ids : run.rows \in [S -> Versions \ {0}]
    BY <2>1 DEF Pages
  <2> QED BY <2>2
<1>6. \A m \in DOMAIN run.rows : run.rows[m] >= atStart[m]
  BY <1>1 DEF Primary, Second, CollectionInv, PagesCover
<1>7. recorded' \in [Ids -> Versions] /\ NothingIsSkipped' /\ OverlapIsSeen'
  <2> DEFINE K == DOMAIN run.rows
             v == run.rows
  <2>1. /\ K \in SUBSET Ids /\ \A m \in K : v[m] \in Versions \ {0}
        /\ \A m \in K : interval.open => v[m] >= atStart[m]
    BY <1>5, <1>6
  <2>2. /\ recorded' = [m \in Ids |-> IF m \in K THEN v[m] ELSE recorded[m]]
        /\ UNCHANGED <<channel, ranked, cursor, interval, history>>
    BY <1>1
  <2> HIDE DEF K, v
  <2> QED BY <2>1, <2>2, RecordsKeep
<1>8. /\ UNCHANGED <<top, version, changes, recent, ranked, cursor, interval,
                     first, atStart, stops>>
      /\ There' = There
  BY <1>1 DEF channel, history, There
<1>9. MemoryTypeOK'
  <2>1. CollectionTypeOK'
    BY <1>7, <1>8 DEF CollectionInv, MemoryTypeOK, CollectionTypeOK
  <2>2. kept \in Second \cup {"overlap"} => run.pages > 0
    BY <1>1, <1>2 DEF Second, CollectionInv, MemoryTypeOK
  <2> QED BY <1>4, <1>8, <2>1, <2>2 DEF CollectionInv, MemoryTypeOK
<1>10. MessagesGrow'
  BY <1>8 DEF CollectionInv, MessagesGrow
<1>11. FrontiersAreOrdered'
  <2>1. kept \in Primary \cup {"primary"} => interval.open /\ ~interval.complete
    BY <1>1, <1>2 DEF Primary, CollectionInv, FrontiersAreOrdered
  <2>2. kept \in Second \cup {"overlap"} => interval.open /\ interval.complete
    BY <1>1, <1>2 DEF Second, CollectionInv, FrontiersAreOrdered
  <2> QED BY <1>4, <1>8, <2>1, <2>2 DEF CollectionInv, FrontiersAreOrdered
<1>12. PagesCover'
  <2>1. OverlapStart' = OverlapStart /\ OverlapFloor' = OverlapFloor
    BY <1>8 DEF OverlapStart, OverlapFloor
  <2>2. kept \in Primary =>
          Covers(There, run.rows, run.more, interval.next, interval.upper, interval.floor)
    BY <1>1, <1>2 DEF Primary, CollectionInv, PagesCover
  <2>3. kept \in Second =>
          Covers(There, run.rows, run.more, OverlapStart, interval.base, OverlapFloor)
    BY <1>1, <1>2 DEF Second, CollectionInv, PagesCover
  <2>4. \A m \in DOMAIN run.rows : recorded'[m] = run.rows[m]
    BY <1>1, <1>5
  <2> QED BY <1>4, <1>6, <1>8, <2>1, <2>2, <2>3, <2>4 DEF PagesCover
<1> QED BY <1>7, <1>9, <1>10, <1>11, <1>12 DEF CollectionInv

(* What the page in memory holds and the frontier behind it reach together.*)
LEMMA LastRowIs ==
  ASSUME CollectionInv, run.pc \in Primary \cup Second, run.more
  PROVE  LastRow \in DOMAIN run.rows /\ LastRow \in Ids
<1>1. run.rows \in Pages
  BY DEF CollectionInv, MemoryTypeOK, Memory
<1>2. DOMAIN run.rows \in SUBSET Ids
  BY <1>1 DEF Pages
<1>3. DOMAIN run.rows # {}
  BY DEF CollectionInv, PagesCover, Covers
<1> QED BY <1>2, <1>3, GreatestOf DEF LastRow

LEMMA AdvancePrimaryKeeps == ASSUME CollectionInv, AdvancePrimary PROVE CollectionInv'
<1> USE Limits, PcsAre
<1> DEFINE reached == IF run.more THEN LastRow ELSE interval.upper
<1>1. /\ run.pc = "primary kept" /\ interval.open /\ ~interval.complete
      /\ Covers(There, run.rows, run.more, interval.next, interval.upper, interval.floor)
      /\ \A m \in DOMAIN run.rows : recorded[m] = run.rows[m]
  BY DEF AdvancePrimary, Primary, CollectionInv, FrontiersAreOrdered, PagesCover
<1>2. /\ interval' = IF run.more THEN [interval EXCEPT !.next = LastRow]
                     ELSE [interval EXCEPT !.complete = TRUE]
      /\ run' = IF run.more THEN [Resting EXCEPT !.pc = "rank"]
                ELSE [Resting EXCEPT !.pc = "overlap", !.pages = MaxPages]
      /\ UNCHANGED <<top, version, changes, recent, recorded, ranked, cursor,
                     first, atStart, stops>>
      /\ There' = There
  BY DEF AdvancePrimary, channel, history, There
<1>3. /\ run.more => LastRow \in Ids /\ LastRow \in DOMAIN run.rows
                     /\ LastRow = Max(DOMAIN run.rows)
  BY <1>1, LastRowIs DEF Primary, LastRow
<1>4. /\ interval.upper \in 0..MaxId /\ interval.next \in 0..MaxId /\ top \in Nat
      /\ interval.upper <= top /\ interval.base <= top /\ interval.floor <= first
      /\ interval.next <= interval.upper /\ interval.floor \in Nat /\ first \in Nat
  BY <1>1, FrontierTypes DEF CollectionInv, FrontiersAreOrdered
<1>5. reached \in 0..MaxId /\ reached <= interval.upper
  <2>1. CASE run.more
    <3>1. LastRow <= interval.upper
      BY <1>1, <1>3, <2>1 DEF Covers
    <3>2. LastRow \in 1..MaxId
      BY <1>3, <2>1 DEF Ids
    <3> QED BY <2>1, <3>1, <3>2
  <2>2. CASE ~run.more
    BY <1>4, <2>2
  <2> QED BY <2>1, <2>2
<1>6. \A m \in There : interval.next < m /\ interval.floor <= m /\ m <= reached
                         => m \in DOMAIN run.rows
  BY <1>1, <1>3 DEF Covers
<1> HIDE DEF reached
<1>7. /\ run' \in Memory /\ run'.pc = (IF run.more THEN "rank" ELSE "overlap")
      /\ run'.pc = "overlap" => run'.pages > 0
  <2>1. /\ [Resting EXCEPT !.pc = "rank"] \in Memory
        /\ [Resting EXCEPT !.pc = "rank"].pc = "rank"
    <3>1. 0 \in Nat
      OBVIOUS
    <3> QED BY <3>1, RestingIs
  <2>2. /\ [Resting EXCEPT !.pc = "overlap", !.pages = MaxPages] \in Memory
        /\ [Resting EXCEPT !.pc = "overlap", !.pages = MaxPages].pc = "overlap"
        /\ [Resting EXCEPT !.pc = "overlap", !.pages = MaxPages].pages = MaxPages
    BY RestingIs
  <2>3. CASE run.more
    BY <1>2, <2>1, <2>3
  <2>4. CASE ~run.more
    BY <1>2, <2>2, <2>4
  <2> QED BY <2>3, <2>4
<1>8. /\ interval' \in [open : BOOLEAN, base : 0..MaxId, upper : 0..MaxId,
           next : 0..MaxId, complete : BOOLEAN, floor : 0..(MaxId + 1),
           recent : 0..(MaxId + 1), overlap : 0..MaxId]
      /\ interval'.open /\ interval'.base = interval.base /\ interval'.upper = interval.upper
      /\ interval'.floor = interval.floor /\ interval'.recent = interval.recent
      /\ interval'.overlap = interval.overlap
      /\ run.more => ~interval'.complete /\ interval'.next = reached
      /\ ~run.more => interval'.complete /\ interval'.next = interval.next
                      /\ reached = interval.upper
  <2>0. /\ interval \in [open : BOOLEAN, base : 0..MaxId, upper : 0..MaxId,
             next : 0..MaxId, complete : BOOLEAN, floor : 0..(MaxId + 1),
             recent : 0..(MaxId + 1), overlap : 0..MaxId]
        /\ run.more => reached = LastRow
        /\ ~run.more => reached = interval.upper
    BY DEF reached, CollectionInv, MemoryTypeOK, CollectionTypeOK
  <2>1. CASE run.more
    BY <1>1, <1>2, <1>5, <2>0, <2>1
  <2>2. CASE ~run.more
    BY <1>1, <1>2, <2>0, <2>2
  <2> QED BY <2>1, <2>2
<1>9. MemoryTypeOK'
  <2>1. CollectionTypeOK'
    BY <1>2, <1>8 DEF CollectionInv, MemoryTypeOK, CollectionTypeOK
  <2>2. run'.pc \notin Second
    BY <1>7
  <2> QED BY <1>2, <1>7, <2>1, <2>2 DEF CollectionInv, MemoryTypeOK
<1>10. MessagesGrow'
  BY <1>2 DEF CollectionInv, MessagesGrow
<1>11. FrontiersAreOrdered'
  <2>1. interval'.next <= interval'.upper
    BY <1>4, <1>5, <1>8
  <2>2. run'.pc # "primary" /\ run'.pc \notin Primary \cup Second
    BY <1>7
  <2>3. run'.pc = "overlap" => interval'.complete
    BY <1>7, <1>8
  <2> QED BY <1>2, <1>4, <1>8, <2>1, <2>2, <2>3 DEF CollectionInv, FrontiersAreOrdered
<1>12. PagesCover'
  <2>1. run'.pc \notin Primary \cup Second
    BY <1>7
  <2> QED BY <2>1, NoPage
<1>13. NothingIsSkipped'
  <2>1. Frontier = interval.next /\ Frontier' = reached
    BY <1>1, <1>8 DEF Frontier
  <2> SUFFICES ASSUME NEW m \in There, first <= m, m <= reached PROVE recorded[m] > 0
    BY <1>2, <2>1 DEF NothingIsSkipped
  <2>2. m \in Nat
    BY DEF There
  <2>3. CASE m <= interval.next
    BY <2>1, <2>3 DEF CollectionInv, NothingIsSkipped
  <2>4. CASE interval.next < m
    <3>1. interval.floor <= m
      BY <1>4, <2>2
    <3>2. m \in DOMAIN run.rows
      BY <1>6, <2>4, <3>1
    <3>3. run.rows \in Pages
      BY DEF CollectionInv, MemoryTypeOK, Memory
    <3>4. PICK S \in SUBSET Ids : run.rows \in [S -> Versions \ {0}]
      BY <3>3 DEF Pages
    <3>5. run.rows[m] \in Versions \ {0}
      BY <3>2, <3>4
    <3>6. run.rows[m] > 0
      BY <3>5 DEF Versions
    <3> QED BY <1>1, <3>2, <3>6
  <2> QED BY <1>4, <2>2, <2>3, <2>4
<1>14. OverlapIsSeen'
  BY <1>1, <1>2, <1>8 DEF CollectionInv, OverlapIsSeen, SeenAgain, OverlapFloor, OverlapStart
<1> QED BY <1>9, <1>10, <1>11, <1>12, <1>13, <1>14 DEF CollectionInv

LEMMA NatOrder == \A i, k \in Nat : i <= k \/ k < i
OBVIOUS

(* What a page of the overlap and those before it saw.                     *)
LEMMA OverlapReaches ==
  ASSUME CollectionInv, run.pc = "overlap kept"
  PROVE  /\ interval.open /\ interval.complete
         /\ \A m \in There : /\ m + Overlap > interval.base /\ m <= interval.base
                             /\ m >= OverlapFloor
                             /\ m <= IF run.more THEN LastRow ELSE interval.base
                             => recorded[m] >= atStart[m]
<1> USE Limits
<1>1. /\ interval.open /\ interval.complete
      /\ Covers(There, run.rows, run.more, OverlapStart, interval.base, OverlapFloor)
      /\ \A m \in DOMAIN run.rows : recorded[m] = run.rows[m] /\ run.rows[m] >= atStart[m]
  BY DEF Second, CollectionInv, FrontiersAreOrdered, PagesCover
<1>2. OverlapStart \in Nat /\ OverlapFloor \in Nat /\ There \subseteq Nat
  BY FrontierTypes DEF CollectionInv
<1> DEFINE reached == IF run.more THEN LastRow ELSE interval.base
<1>3. \A m \in There : OverlapStart < m /\ OverlapFloor <= m /\ m <= reached
                         => m \in DOMAIN run.rows
  BY <1>1 DEF Covers, LastRow
<1> HIDE DEF reached
<1>4. ASSUME NEW m \in There, m + Overlap > interval.base, m <= interval.base,
             m >= OverlapFloor, m <= reached
      PROVE  recorded[m] >= atStart[m]
  <2>1. m \in Nat
    BY <1>2
  <2>2. CASE m <= OverlapStart
    BY <1>1, <1>4, <2>2 DEF CollectionInv, OverlapIsSeen, SeenAgain
  <2>3. CASE OverlapStart < m
    <3>1. m \in DOMAIN run.rows
      BY <1>2, <1>3, <1>4, <2>1, <2>3
    <3> QED BY <1>1, <3>1
  <2>4. m <= OverlapStart \/ OverlapStart < m
    BY <1>2, <2>1, NatOrder, Zenon
  <2> QED BY <2>2, <2>3, <2>4
<1> QED BY <1>1, <1>4 DEF reached

LEMMA AdvanceOverlapKeeps == ASSUME CollectionInv, AdvanceOverlap PROVE CollectionInv'
<1> USE Limits, PcsAre
<1>1. /\ run.pc = "overlap kept" /\ run.more
      /\ interval' = [interval EXCEPT !.overlap = LastRow]
      /\ run' = [Resting EXCEPT !.pc = IF run.pages > 1 THEN "overlap" ELSE "rank",
                                !.pages = run.pages - 1]
      /\ UNCHANGED <<top, version, changes, recent, recorded, ranked, cursor,
                     first, atStart, stops>>
      /\ There' = There
  BY DEF AdvanceOverlap, channel, history, There
<1>2. interval.open /\ interval.complete
  BY <1>1, OverlapReaches
<1>3. LastRow \in 1..MaxId
  BY <1>1, LastRowIs DEF Second, Ids
<1>4. /\ interval' \in [open : BOOLEAN, base : 0..MaxId, upper : 0..MaxId,
           next : 0..MaxId, complete : BOOLEAN, floor : 0..(MaxId + 1),
           recent : 0..(MaxId + 1), overlap : 0..MaxId]
      /\ interval'.open /\ interval'.complete
      /\ interval'.base = interval.base /\ interval'.upper = interval.upper
      /\ interval'.next = interval.next /\ interval'.floor = interval.floor
      /\ interval'.recent = interval.recent /\ interval'.overlap = LastRow
  <2>1. interval \in [open : BOOLEAN, base : 0..MaxId, upper : 0..MaxId,
           next : 0..MaxId, complete : BOOLEAN, floor : 0..(MaxId + 1),
           recent : 0..(MaxId + 1), overlap : 0..MaxId]
    BY DEF CollectionInv, MemoryTypeOK, CollectionTypeOK
  <2>2. LastRow \in 0..MaxId
    BY <1>3
  <2> HIDE DEF LastRow
  <2> QED BY <1>1, <1>2, <2>1, <2>2
<1>5. /\ run' \in Memory /\ run'.pc \in {"overlap", "rank"}
      /\ run'.pc = "overlap" => run'.pages > 0
  <2> DEFINE pc == IF run.pages > 1 THEN "overlap" ELSE "rank"
             n == run.pages - 1
  <2>1. run.pages \in Nat /\ run.pages > 0
    BY <1>1 DEF Second, CollectionInv, MemoryTypeOK, Memory
  <2>2. /\ pc \in {"overlap", "rank"} /\ pc \in Pcs /\ n \in Nat
        /\ pc = "overlap" => n > 0
    BY <2>1
  <2>3. run' = [Resting EXCEPT !.pc = pc, !.pages = n]
    BY <1>1
  <2> HIDE DEF pc, n
  <2>4. /\ [Resting EXCEPT !.pc = pc, !.pages = n] \in Memory
        /\ [Resting EXCEPT !.pc = pc, !.pages = n].pc = pc
        /\ [Resting EXCEPT !.pc = pc, !.pages = n].pages = n
    BY <2>2, RestingIs
  <2> QED BY <2>2, <2>3, <2>4
<1>6. run'.pc \notin Primary \cup Second /\ run'.pc # "primary"
  BY <1>5
<1>7. MemoryTypeOK'
  <2>1. CollectionTypeOK'
    BY <1>1, <1>4 DEF CollectionInv, MemoryTypeOK, CollectionTypeOK
  <2> QED BY <1>1, <1>5, <1>6, <2>1 DEF CollectionInv, MemoryTypeOK
<1>8. MessagesGrow'
  BY <1>1 DEF CollectionInv, MessagesGrow
<1>9. FrontiersAreOrdered'
  BY <1>1, <1>2, <1>4, <1>6 DEF CollectionInv, FrontiersAreOrdered
<1>10. PagesCover'
  BY <1>6, NoPage
<1>11. NothingIsSkipped'
  BY <1>1, <1>2, <1>4 DEF CollectionInv, NothingIsSkipped, Frontier
<1>12. OverlapIsSeen'
  <2>1. OverlapFloor' = OverlapFloor
    BY <1>4 DEF OverlapFloor
  <2>2. OverlapStart' = LastRow
    BY <1>3, <1>4 DEF OverlapStart
  <2> SUFFICES ASSUME NEW m \in There, m + Overlap > interval.base, m <= interval.base,
                      m >= OverlapFloor, m <= LastRow
               PROVE  recorded[m] >= atStart[m]
    BY <1>1, <1>4, <2>1, <2>2 DEF OverlapIsSeen, SeenAgain
  <2> QED BY <1>1, OverlapReaches
<1> QED BY <1>7, <1>8, <1>9, <1>10, <1>11, <1>12 DEF CollectionInv

LEMMA PromoteKeeps == ASSUME CollectionInv, PromoteCursor PROVE CollectionInv'
<1> USE Limits, PcsAre
<1>1. /\ run.pc = "overlap kept" /\ ~run.more
      /\ cursor' = [known |-> TRUE, id |-> interval.upper] /\ interval' = Closed
      /\ atStart' = [m \in Ids |-> 0] /\ run' = [Resting EXCEPT !.pc = "rank"]
      /\ UNCHANGED <<top, version, changes, recent, recorded, ranked, first, stops>>
      /\ There' = There
  BY DEF PromoteCursor, channel, There
<1>2. interval.open /\ interval.complete
  BY <1>1, OverlapReaches
<1>3. /\ interval.upper \in 0..MaxId /\ interval.upper <= top
      /\ \A m \in Ids : version[m] \in Nat
  BY <1>2, FrontierTypes DEF CollectionInv, FrontiersAreOrdered
<1>4. run' \in Memory /\ run'.pc = "rank"
  <2>1. 0 \in Nat
    OBVIOUS
  <2> QED BY <1>1, <2>1, RestingIs
<1>5. MemoryTypeOK'
  <2>1. atStart' \in [Ids -> Versions] /\ ~interval'.open
    <3>1. 0 \in Versions /\ ~Closed.open
      BY DEF Versions, Closed
    <3> QED BY <1>1, <3>1
  <2>2. cursor' \in [known : BOOLEAN, id : 0..MaxId]
    BY <1>1, <1>3
  <2>3. interval' \in [open : BOOLEAN, base : 0..MaxId, upper : 0..MaxId,
          next : 0..MaxId, complete : BOOLEAN, floor : 0..(MaxId + 1),
          recent : 0..(MaxId + 1), overlap : 0..MaxId]
    <3>1. 0 \in 0..MaxId /\ 0 \in 0..(MaxId + 1)
      OBVIOUS
    <3> QED BY <1>1, <3>1 DEF Closed
  <2>4. CollectionTypeOK'
    BY <1>1, <2>2, <2>3 DEF CollectionInv, MemoryTypeOK, CollectionTypeOK
  <2> QED BY <1>1, <1>4, <2>1, <2>4 DEF CollectionInv, MemoryTypeOK
<1>6. MessagesGrow'
  <2> SUFFICES ASSUME NEW m \in Ids
               PROVE  /\ version[m] <= changes + 1
                      /\ version[m] > 0 => m <= top /\ 0 <= version[m]
    BY <1>1 DEF MessagesGrow
  <2> QED BY <1>3 DEF CollectionInv, MessagesGrow
<1>7. FrontiersAreOrdered'
  BY <1>1, <1>3, <1>4 DEF CollectionInv, FrontiersAreOrdered, Closed
<1>8. PagesCover'
  BY <1>4, NoPage
<1>9. NothingIsSkipped'
  BY <1>1, <1>2 DEF CollectionInv, NothingIsSkipped, Frontier, Closed
<1>10. OverlapIsSeen'
  BY <1>1 DEF OverlapIsSeen, Closed
<1> QED BY <1>5, <1>6, <1>7, <1>8, <1>9, <1>10 DEF CollectionInv

(* The deep look of an operator runs between runs, and records what it     *)
(* finds.                                                                  *)
LEMMA ReconcileKeeps == ASSUME CollectionInv, Reconcile PROVE CollectionInv'
<1> USE Limits
<1>1. PICK lower \in Ids, n \in 0..MaxPages :
        recorded' = [m \in Ids |-> IF m \in Smallest(Rows(0, Newest, lower), n * PageSize)
                                   THEN version[m] ELSE recorded[m]]
  BY DEF Reconcile
<1>2. /\ run.pc = "idle" /\ stops < MaxStops /\ stops' = stops + 1
      /\ UNCHANGED <<channel, ranked, cursor, interval, run, history>>
  BY DEF Reconcile
<1> DEFINE K == Smallest(Rows(0, Newest, lower), n * PageSize)
<1>3. K \subseteq There /\ There \subseteq Ids
  BY DEF Smallest, Rows, There
<1>4. \A m \in K : version[m] \in Versions \ {0}
  <2> SUFFICES ASSUME NEW m \in K PROVE version[m] \in Versions \ {0}
    OBVIOUS
  <2>1. m \in Ids /\ version[m] > 0
    BY <1>3 DEF There
  <2>2. version[m] \in Versions
    BY <2>1, FrontierTypes DEF CollectionInv
  <2> QED BY <2>1, <2>2 DEF Versions
<1>5. \A m \in K : version[m] >= atStart[m]
  <2> SUFFICES ASSUME NEW m \in K PROVE version[m] >= atStart[m]
    OBVIOUS
  <2>1. m \in Ids /\ version[m] > 0
    BY <1>3 DEF There
  <2>2. version[m] \in Nat /\ atStart[m] \in Nat
    BY <2>1, FrontierTypes DEF CollectionInv
  <2> QED BY <2>1, <2>2 DEF CollectionInv, MessagesGrow
<1>6. K \in SUBSET Ids
  BY <1>3
<1>7. recorded' = [m \in Ids |-> IF m \in K THEN version[m] ELSE recorded[m]]
  BY <1>1
<1> HIDE DEF K
<1>8. recorded' \in [Ids -> Versions] /\ NothingIsSkipped' /\ OverlapIsSeen'
  BY <1>2, <1>4, <1>5, <1>6, <1>7, RecordsKeep
<1>9. UNCHANGED <<top, version, changes, recent, ranked, cursor, interval, run,
                  first, atStart>>
  BY <1>2 DEF channel, history
<1>10. MemoryTypeOK'
  <2>1. CollectionTypeOK'
    <3>1. stops' \in 0..MaxStops
      BY <1>2 DEF CollectionInv, MemoryTypeOK, CollectionTypeOK
    <3> QED BY <1>8, <1>9, <3>1 DEF CollectionInv, MemoryTypeOK, CollectionTypeOK
  <2> QED BY <1>9, <2>1 DEF CollectionInv, MemoryTypeOK
<1>11. MessagesGrow' /\ FrontiersAreOrdered'
  BY <1>9 DEF CollectionInv, MessagesGrow, FrontiersAreOrdered
<1>12. PagesCover'
  <2>1. run'.pc \notin Primary \cup Second
    BY <1>2, <1>9, PcsAre
  <2> QED BY <2>1, NoPage
<1> QED BY <1>8, <1>10, <1>11, <1>12 DEF CollectionInv

LEMMA CollectionRests ==
  ASSUME CollectionInv, UNCHANGED collectionVars PROVE CollectionInv'
<1>1. /\ UNCHANGED <<top, version, changes, recent, recorded, ranked, cursor, interval, run,
                     first, atStart, stops>>
      /\ There' = There
  BY DEF collectionVars, channel, history, There
<1>2. (MemoryTypeOK /\ MessagesGrow /\ FrontiersAreOrdered)'
  BY <1>1 DEF CollectionInv, MemoryTypeOK, CollectionTypeOK, MessagesGrow,
     FrontiersAreOrdered
<1>3. PagesCover'
  BY <1>1 DEF CollectionInv, PagesCover, OverlapStart, OverlapFloor
<1>4. NothingIsSkipped' /\ OverlapIsSeen'
  BY <1>1 DEF CollectionInv, NothingIsSkipped, Frontier, OverlapIsSeen, SeenAgain,
     OverlapStart, OverlapFloor
<1> QED BY <1>2, <1>3, <1>4 DEF CollectionInv

LEMMA CollectionKeeps == CollectionInv /\ [CollectionNext]_collectionVars => CollectionInv'
<1> SUFFICES ASSUME CollectionInv, [CollectionNext]_collectionVars PROVE CollectionInv'
  OBVIOUS
<1>1. CASE Post \/ (\E m \in Ids : Change(m)) \/ Age
  BY <1>1, ChannelKeeps
<1>2. CASE OpenInterval
  BY <1>2, OpenKeeps
<1>3. CASE ResumeInterval \/ RankAll \/ Stop
  BY <1>3, RunKeeps
<1>4. CASE ReadPrimary \/ ReadOverlap
  BY <1>4, ReadKeeps
<1>5. CASE PersistPage
  BY <1>5, PersistKeeps
<1>6. CASE AdvancePrimary
  BY <1>6, AdvancePrimaryKeeps
<1>7. CASE AdvanceOverlap
  BY <1>7, AdvanceOverlapKeeps
<1>8. CASE PromoteCursor
  BY <1>8, PromoteKeeps
<1>9. CASE Reconcile
  BY <1>9, ReconcileKeeps
<1>10. CASE UNCHANGED collectionVars
  BY <1>10, CollectionRests
<1> QED
  BY <1>1, <1>2, <1>3, <1>4, <1>5, <1>6, <1>7, <1>8, <1>9, <1>10 DEF CollectionNext

(* Channel, interval, both frontiers and the overlap stay in order,        *)
(* whatever run is killed between two transactions.                        *)
THEOREM CollectionIsInductive == CollectionSpec => []CollectionInv
<1>1. CollectionInit => CollectionInv
  BY CollectionStarts
<1>2. CollectionInv /\ [CollectionNext]_collectionVars => CollectionInv'
  BY CollectionKeeps
<1> QED BY <1>1, <1>2, PTL DEF CollectionSpec

(* The rows of a channel's collection have their types.                    *)
THEOREM CollectionTypeCorrect == CollectionSpec => []CollectionTypeOK
BY CollectionIsInductive, PTL DEF CollectionInv, MemoryTypeOK

(* Wherever runs are killed between a page and its frontier, no frontier   *)
(* passes a message that is there and was not recorded, for any page size, *)
(* channel and number of killed runs.                                      *)
THEOREM FrontierSkipsNothing == CollectionSpec => []NothingIsSkipped
BY CollectionIsInductive, PTL DEF CollectionInv

(* An interval is closed by the promotion of its cursor only.              *)
LEMMA OnlyPromotionCloses ==
  ASSUME CollectionTypeOK, [CollectionNext]_collectionVars, interval.open, ~interval'.open
  PROVE  PromoteCursor
<1>1. interval' # interval
  OBVIOUS
<1>2. ~AdvancePrimary /\ ~AdvanceOverlap
  <2>1. interval \in [open : BOOLEAN, base : 0..MaxId, upper : 0..MaxId,
          next : 0..MaxId, complete : BOOLEAN, floor : 0..(MaxId + 1),
          recent : 0..(MaxId + 1), overlap : 0..MaxId]
    BY DEF CollectionTypeOK
  <2> QED BY <2>1 DEF AdvancePrimary, AdvanceOverlap
<1> QED
  BY <1>1, <1>2 DEF CollectionNext, Post, Change, Age, OpenInterval, ResumeInterval,
     ReadPrimary, ReadOverlap, PersistPage, RankAll, Stop, Reconcile, collectionVars

(* When the cursor moves, the second look has seen every message of the    *)
(* overlap at least as it was when the interval was opened, whatever pages *)
(* and restarts lie between.                                               *)
THEOREM OverlapIsSeenWhole == CollectionSpec => OverlapSeesEdits
<1> DEFINE A == interval.open /\ ~interval'.open =>
                  \A m \in There : /\ m + Overlap > interval.base /\ m <= interval.base
                                   /\ m >= OverlapFloor
                                   => recorded[m] >= atStart[m]
<1>1. CollectionInv /\ [CollectionNext]_collectionVars => [A]_collectionVars
  <2> SUFFICES ASSUME CollectionInv, [CollectionNext]_collectionVars,
                      interval.open, ~interval'.open
               PROVE  \A m \in There : /\ m + Overlap > interval.base /\ m <= interval.base
                                       /\ m >= OverlapFloor
                                       => recorded[m] >= atStart[m]
    OBVIOUS
  <2>1. run.pc = "overlap kept" /\ ~run.more
    BY OnlyPromotionCloses DEF PromoteCursor, CollectionInv, MemoryTypeOK
  <2> QED BY <2>1, OverlapReaches
<1> QED BY <1>1, CollectionIsInductive, PTL DEF CollectionSpec, OverlapSeesEdits
=============================================================================
