--------------------------- MODULE CandidateApproval ---------------------------
(***************************************************************************)
(* The candidates of one run, from their digest to an approved draft       *)
(* (candidates.py), with the edits that overtake them and the workers that *)
(* write their drafts (pipeline.py).                                       *)
(*                                                                         *)
(* The notifier and the poll of clicks share the "telegram" lock, so no    *)
(* click comes between the steps of a notification.  Collection has a lock *)
(* of its own and the workers have none: both overlap with everything.     *)
(*                                                                         *)
(* The page and defer buttons are not modelled: no code issues them.  The  *)
(* rules that automation adds to a click are TelegramOutbox's.             *)
(***************************************************************************)
EXTENDS Naturals, FiniteSets

CONSTANTS
  Candidates,
  Workers,
  MaxJobs,      \* a bound on the generation jobs of a candidate
  MaxEdits,     \* a bound on recorded revisions
  MaxFaults,    \* a bound on workers that die, fail or outlast their lease
  NoCandidate, NoWorker

ASSUME ApprovalBounds == {MaxJobs, MaxEdits, MaxFaults} \subseteq Nat /\ MaxJobs > 0
ASSUME NotOne == NoCandidate \notin Candidates /\ NoWorker \notin Workers

VARIABLES
  status,      \* candidates.status, "none" before the row
  newer,       \* candidates whose post's latest version is not the bound one
  digest,      \* digests.status by the set of candidates of their key; the
               \* revision moves with the status only, and a pending
               \* candidate's never moves
  selection,   \* selections: the digest a candidate was made from, or {}
  job,         \* generation_jobs of a candidate, in order
  draft,       \* generations of these jobs, at most one each
  handoff,     \* history: the draft an approval handed over, or 0
  buttons,     \* live callback_tokens on messages that were sent; the three
               \* of a message are one, for a click on any one revokes all
               \* (a refresh changes nothing that is kept here)
  notifier,    \* what the notifier has read and not yet sent
  collected,   \* posts a run recorded and has not yet compared
  worker,      \* the job a worker is writing
  edits, faults

db == <<status, newer, digest, selection, job, draft, handoff>>
vars == <<db, buttons, notifier, collected, worker, edits, faults>>

Digests == (SUBSET Candidates) \ {{}}
Jobs == 1..MaxJobs

NoJob == [status |-> "none", owner |-> NoWorker]
NoMessage == [stage |-> "none", of |-> {}, cand |-> NoCandidate, n |-> 0]
Resting == [cand |-> NoCandidate, n |-> 0]

Init ==
  /\ status = [c \in Candidates |-> "none"]
  /\ newer = {}
  /\ digest = [d \in Digests |-> "none"]
  /\ selection = [c \in Candidates |-> {}]
  /\ job = [c \in Candidates |-> [n \in Jobs |-> NoJob]]
  /\ draft = [c \in Candidates |-> [n \in Jobs |-> "none"]]
  /\ handoff = [c \in Candidates |-> 0]
  /\ buttons = {}
  /\ notifier = NoMessage
  /\ collected = {}
  /\ worker = [w \in Workers |-> Resting]
  /\ edits = 0 /\ faults = 0

-----------------------------------------------------------------------------
(* Collection and ranking *)

(* A ranked story becomes a candidate, rejected if it is no immediate news.*)
PersistCandidate(c) ==
  /\ status[c] = "none" /\ c \notin newer
  /\ \E s \in {"pending_selection", "rejected"} : status' = [status EXCEPT ![c] = s]
  /\ UNCHANGED <<newer, digest, selection, job, draft, handoff,
                 buttons, notifier, collected, worker, edits, faults>>

(* A run records the observations it collected: what it saw of a post is   *)
(* the bound version, again or still, or another.                          *)
PersistSources(seen, changed) ==
  /\ collected = {} /\ edits < MaxEdits
  /\ newer' = (newer \ seen) \cup changed
  /\ collected' = seen
  /\ edits' = edits + 1
  /\ UNCHANGED <<status, digest, selection, job, draft, handoff,
                 buttons, notifier, worker, faults>>

(* ... and is compared with the candidates in a transaction of its own.    *)
Open == {"queued", "running", "lapsed", "failed"}
Superseded(j) == [status |-> IF j.status \in Open THEN "superseded" ELSE j.status,
                  owner |-> NoWorker]
Retired(g) == IF g = "current" THEN "superseded" ELSE g

\* Mutant: an approved candidate is superseded like any other.
OutdatedAll == {c \in collected \cap newer : status[c] \notin {"none", "superseded"}}
Outdated ==
  {c \in collected \cap newer : status[c] \notin {"none", "superseded", "approved"}}

\* Mutant: a digest is superseded though its story was chosen.
ClosedByEditThoughChosen == {"active", "selected"}
ClosedByEdit == {"active"}

\* Mutant: the jobs of a superseded candidate run on.
InvalidateKeepsJobs ==
  /\ status' = [c \in Candidates |->
       IF c \in Outdated THEN "superseded" ELSE status[c]]
  /\ digest' = [d \in Digests |->
       IF Outdated # {} /\ digest[d] \in ClosedByEdit THEN "superseded" ELSE digest[d]]
  /\ draft' = [c \in Candidates |-> [n \in Jobs |->
       IF c \in Outdated THEN Retired(draft[c][n]) ELSE draft[c][n]]]
  /\ collected' = {}
  /\ UNCHANGED <<newer, selection, handoff, job, buttons, notifier, worker,
                 edits, faults>>

Invalidate ==
  /\ status' = [c \in Candidates |->
       IF c \in Outdated THEN "superseded" ELSE status[c]]
  /\ digest' = [d \in Digests |->
       IF Outdated # {} /\ digest[d] \in ClosedByEdit THEN "superseded" ELSE digest[d]]
  /\ job' = [c \in Candidates |-> [n \in Jobs |->
       IF c \in Outdated THEN Superseded(job[c][n]) ELSE job[c][n]]]
  /\ draft' = [c \in Candidates |-> [n \in Jobs |->
       IF c \in Outdated THEN Retired(draft[c][n]) ELSE draft[c][n]]]
  /\ collected' = {}
  /\ UNCHANGED <<newer, selection, handoff, buttons, notifier, worker, edits, faults>>

(* The run may stop between the two; a later one may not see the post.     *)
CrashCollect ==
  /\ collected # {} /\ collected' = {}
  /\ UNCHANGED <<db, buttons, notifier, worker, edits, faults>>

-----------------------------------------------------------------------------
(* Notifications *)

Pending == {c \in Candidates : status[c] = "pending_selection"}

(* Pending candidates that an edit overtook are superseded; the digest of  *)
(* the others is made, or found by its key.                                *)
CreateDigest ==
  /\ notifier = NoMessage /\ Pending # {}
  /\ LET offered == Pending \ newer
     IN  /\ status' = [c \in Candidates |->
              IF c \in Pending \cap newer THEN "superseded" ELSE status[c]]
         /\ digest' = [d \in Digests |->
              IF d = offered /\ digest[d] = "none" THEN "active" ELSE digest[d]]
         /\ notifier' = IF offered = {} THEN NoMessage
                        ELSE [NoMessage EXCEPT !.stage = "selection", !.of = offered]
  /\ UNCHANGED <<newer, selection, job, draft, handoff,
                 buttons, collected, worker, edits, faults>>

CurrentDraft(c, n) == draft[c][n] = "current"

ReviewButtons(c, n) ==
  /\ notifier = NoMessage
  /\ status[c] = "pending_review" /\ CurrentDraft(c, n)
  /\ c \notin newer /\ digest[selection[c]] = "selected"
  /\ notifier' = [stage |-> "review", of |-> selection[c], cand |-> c, n |-> n]
  /\ UNCHANGED <<db, buttons, collected, worker, edits, faults>>

(* The buttons are inserted one by one and the message is sent, ...        *)
SendButtons ==
  /\ notifier # NoMessage
  /\ buttons' = buttons \cup
       (IF notifier.stage = "review" THEN {notifier}
        ELSE {[notifier EXCEPT !.cand = c] : c \in notifier.of})
  /\ notifier' = NoMessage
  /\ UNCHANGED <<db, collected, worker, edits, faults>>

(* ... or the notifier stops: nobody can press a button that was not sent. *)
CrashNotifier ==
  /\ notifier # NoMessage /\ notifier' = NoMessage
  /\ UNCHANGED <<db, buttons, collected, worker, edits, faults>>

-----------------------------------------------------------------------------
(* Clicks.  A stale one changes nothing.                                   *)

Effective(b) ==
  LET c == b.cand
  IN  /\ notifier = NoMessage /\ c \notin newer
      /\ \/ /\ b.stage = "selection"
            /\ status[c] = "pending_selection" /\ digest[b.of] = "active"
         \/ /\ b.stage = "review"
            /\ status[c] = "pending_review" /\ digest[b.of] = "selected"
            /\ CurrentDraft(c, b.n)

Revoke(c) == buttons' = {b \in buttons : b.cand # c}

Reject(b) ==
  /\ Effective(b)
  /\ Revoke(b.cand)
  /\ status' = [status EXCEPT ![b.cand] = "rejected"]
  /\ UNCHANGED <<newer, digest, selection, job, draft, handoff,
                 notifier, collected, worker, edits, faults>>

Queue(j, n) == [j EXCEPT ![n] = [status |-> "queued", owner |-> NoWorker]]

Make(b) ==
  /\ Effective(b) /\ b.stage = "selection"
  /\ \A c \in Candidates : selection[c] # b.of
  /\ Revoke(b.cand)
  /\ selection' = [selection EXCEPT ![b.cand] = b.of]
  /\ job' = [job EXCEPT ![b.cand] = Queue(@, 1)]
  /\ status' = [status EXCEPT ![b.cand] = "selected_generation_pending"]
  /\ digest' = [digest EXCEPT ![b.of] = "selected"]
  /\ UNCHANGED <<newer, draft, handoff, notifier, collected, worker, edits, faults>>

Regenerate(b) ==
  /\ Effective(b) /\ b.stage = "review" /\ b.n < MaxJobs
  /\ Revoke(b.cand)
  /\ draft' = [draft EXCEPT ![b.cand] = [n \in Jobs |-> Retired(@[n])]]
  /\ job' = [job EXCEPT ![b.cand] =
               Queue([n \in Jobs |-> Superseded(@[n])], b.n + 1)]
  /\ status' = [status EXCEPT ![b.cand] = "selected_generation_pending"]
  /\ UNCHANGED <<newer, digest, selection, handoff,
                 notifier, collected, worker, edits, faults>>

ApproveHandoff(b) ==
  /\ Effective(b) /\ b.stage = "review"
  /\ Revoke(b.cand)
  /\ handoff' = [handoff EXCEPT ![b.cand] = b.n]
  /\ status' = [status EXCEPT ![b.cand] = "approved"]
  /\ digest' = [digest EXCEPT ![b.of] = "approved"]
  /\ UNCHANGED <<newer, selection, job, draft, notifier, collected, worker,
                 edits, faults>>

-----------------------------------------------------------------------------
(* Generation *)

Lease(w, c, n) ==
  /\ worker[w] = Resting
  /\ status[c] \in {"selected_generation_pending", "pending_review"}
  /\ job[c][n].status \in {"queued", "failed", "lapsed"}
  /\ job' = [job EXCEPT ![c][n] = [status |-> "running", owner |-> w]]
  /\ status' = [status EXCEPT ![c] = "selected_generation_pending"]
  /\ worker' = [worker EXCEPT ![w] = [cand |-> c, n |-> n]]
  /\ UNCHANGED <<newer, digest, selection, draft, handoff,
                 buttons, notifier, collected, edits, faults>>

(* Five minutes; the worker may still be writing, and may still commit.    *)
Lapse(c, n) ==
  /\ job[c][n].status = "running" /\ faults < MaxFaults
  /\ job' = [job EXCEPT ![c][n].status = "lapsed"]
  /\ faults' = faults + 1
  /\ UNCHANGED <<status, newer, digest, selection, draft, handoff,
                 buttons, notifier, collected, worker, edits>>

Holds(w) ==
  LET j == job[worker[w].cand][worker[w].n]
  IN  j.status \in {"running", "lapsed"} /\ j.owner = w

Commit(w) ==
  LET c == worker[w].cand  n == worker[w].n
  IN  /\ worker[w] # Resting /\ Holds(w)
      /\ draft' = [draft EXCEPT ![c][n] = "current"]
      /\ job' = [job EXCEPT ![c][n] = [status |-> "succeeded", owner |-> NoWorker]]
      /\ status' = [status EXCEPT ![c] = IF @ = "selected_generation_pending"
                                         THEN "pending_review" ELSE @]
      /\ worker' = [worker EXCEPT ![w] = Resting]
      /\ UNCHANGED <<newer, digest, selection, handoff,
                     buttons, notifier, collected, edits, faults>>

(* A worker whose lease was taken writes nothing.                          *)
LeaseLost(w) ==
  /\ worker[w] # Resting /\ ~Holds(w)
  /\ worker' = [worker EXCEPT ![w] = Resting]
  /\ UNCHANGED <<db, buttons, notifier, collected, edits, faults>>

Fail(w) ==
  /\ worker[w] # Resting /\ Holds(w) /\ faults < MaxFaults
  /\ job' = [job EXCEPT ![worker[w].cand][worker[w].n] =
               [status |-> "failed", owner |-> NoWorker]]
  /\ worker' = [worker EXCEPT ![w] = Resting]
  /\ faults' = faults + 1
  /\ UNCHANGED <<status, newer, digest, selection, draft, handoff,
                 buttons, notifier, collected, edits>>

CrashWorker(w) ==
  /\ worker[w] # Resting /\ faults < MaxFaults
  /\ worker' = [worker EXCEPT ![w] = Resting]
  /\ faults' = faults + 1
  /\ UNCHANGED <<db, buttons, notifier, collected, edits>>

-----------------------------------------------------------------------------
Next ==
  \/ \E c \in Candidates : PersistCandidate(c)
  \/ \E seen \in Digests : \E changed \in SUBSET seen : PersistSources(seen, changed)
  \/ (collected # {} /\ Invalidate) \/ CrashCollect
  \/ CreateDigest \/ SendButtons \/ CrashNotifier
  \/ \E c \in Candidates, n \in Jobs :
       ReviewButtons(c, n) \/ Lapse(c, n) \/ \E w \in Workers : Lease(w, c, n)
  \/ \E b \in buttons : Reject(b) \/ Make(b) \/ Regenerate(b) \/ ApproveHandoff(b)
  \/ \E w \in Workers : Commit(w) \/ LeaseLost(w) \/ Fail(w) \/ CrashWorker(w)

Spec == Init /\ [][Next]_vars

-----------------------------------------------------------------------------
(* Properties *)

(* What is handed over stays what was approved: the draft the approver saw *)
(* remains the only current one of its candidate, whatever edit is found   *)
(* and whatever worker commits afterwards.                                 *)
HandoffIsTheCurrentDraft ==
  \A c \in Candidates : handoff[c] # 0 =>
    /\ status[c] = "approved"
    /\ \A n \in Jobs : CurrentDraft(c, n) <=> n = handoff[c]

(* A candidate that awaits its draft has exactly one open job, any other   *)
(* none: the workers neither forget a chosen story nor write for one that  *)
(* was superseded, rejected or approved.                                   *)
WorkMatchesStatus ==
  \A c \in Candidates :
    Cardinality({n \in Jobs : job[c][n].status \in Open})
      = IF status[c] = "selected_generation_pending" THEN 1 ELSE 0

(* Of the candidates of one digest at most one is ever made.               *)
DigestChoosesOnce ==
  \A c, e \in Candidates :
    selection[c] = selection[e] /\ selection[c] # {} => c = e

(* A chosen candidate reaches its reviewer: its digest stays the one that  *)
(* takes the review's click, though an edit of a candidate beside it       *)
(* supersedes open digests and approvals close theirs, and once its draft  *)
(* is due there is a current one to show.                                  *)
ChosenCanBeReviewed ==
  \A c \in Candidates :
    /\ status[c] \in {"selected_generation_pending", "pending_review"} =>
         selection[c] # {} /\ digest[selection[c]] = "selected"
    /\ status[c] = "pending_review" => \E n \in Jobs : CurrentDraft(c, n)

(* A pending candidate whose source is current can be put to a person: the *)
(* digest that would be made of it now is one whose buttons work.          *)
PendingIsDecidable ==
  LET offered == Pending \ newer
  IN  offered # {} => digest[offered] \in {"none", "active"}

ApprovalTypeOK ==
  /\ status \in [Candidates -> {"none", "pending_selection", "rejected",
       "selected_generation_pending", "pending_review", "approved", "superseded"}]
  /\ newer \subseteq Candidates /\ collected \subseteq Candidates
  /\ digest \in [Digests -> {"none", "active", "selected", "approved", "superseded"}]
  /\ selection \in [Candidates -> SUBSET Candidates]
  /\ job \in [Candidates -> [Jobs ->
       [status : Open \cup {"none", "succeeded", "superseded"},
        owner : Workers \cup {NoWorker}]]]
  /\ draft \in [Candidates -> [Jobs -> {"none", "current", "superseded"}]]
  /\ handoff \in [Candidates -> {0} \cup Jobs]
  /\ worker \in [Workers -> [cand : Candidates \cup {NoCandidate}, n : {0} \cup Jobs]]
  /\ edits \in Nat /\ faults \in Nat
=============================================================================
