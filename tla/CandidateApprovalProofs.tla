----------------------- MODULE CandidateApprovalProofs -----------------------
(***************************************************************************)
(* Theorems about CandidateApproval, for any candidates and workers and    *)
(* any number of jobs, edits and faults.                                   *)
(***************************************************************************)
EXTENDS CandidateApproval, FiniteSetTheorems, TLAPS

Statuses == {"none", "pending_selection", "rejected", "selected_generation_pending",
             "pending_review", "approved", "superseded"}
JobStates == {"queued", "running", "lapsed", "failed", "none", "succeeded", "superseded"}
JobTable == [Jobs -> [status : JobStates, owner : Workers \cup {NoWorker}]]
DraftTable == [Jobs -> {"none", "current", "superseded"}]

(* A message is about a digest, or about a candidate and its draft. *)
Message(b) == /\ b \in [stage : {"none", "selection", "review"},
                       of : SUBSET Candidates,
                       cand : Candidates \cup {NoCandidate}, n : {0} \cup Jobs]
              /\ b.stage = "review" => b.cand \in Candidates /\ b.n \in Jobs
Button(b) == Message(b) /\ b.cand \in Candidates

Typed ==
  /\ status \in [Candidates -> Statuses]
  /\ digest \in [Digests -> {"none", "active", "selected", "approved", "superseded"}]
  /\ selection \in [Candidates -> SUBSET Candidates]
  /\ job \in [Candidates -> JobTable]
  /\ draft \in [Candidates -> DraftTable]
  /\ handoff \in [Candidates -> {0} \cup Jobs]
  /\ worker \in [Workers -> [cand : Candidates \cup {NoCandidate}, n : {0} \cup Jobs]]
  /\ \A w \in Workers :
       worker[w] # Resting => worker[w].cand \in Candidates /\ worker[w].n \in Jobs
  /\ Message(notifier) /\ \A b \in buttons : Button(b)
  /\ newer \subseteq Candidates /\ collected \subseteq Candidates
  /\ edits \in Nat /\ faults \in Nat

-----------------------------------------------------------------------------
(* One candidate *)

OpenJob(c, n) == job[c][n].status \in Open

(* A candidate that waits for its draft has the one open job and no draft; *)
(* whatever its status, one draft of it is current at the most.            *)
OneJob(c) ==
  /\ \A m, n \in Jobs : OpenJob(c, m) /\ OpenJob(c, n) => m = n
  /\ (\E n \in Jobs : OpenJob(c, n)) <=> status[c] = "selected_generation_pending"
OneDraft(c) ==
  /\ \A m, n \in Jobs : CurrentDraft(c, m) /\ CurrentDraft(c, n) => m = n
  /\ status[c] \in {"none", "pending_selection", "selected_generation_pending"}
       => \A n \in Jobs : ~CurrentDraft(c, n)
HandoffStands(c) ==
  handoff[c] # 0 => /\ status[c] = "approved"
                    /\ \A n \in Jobs : CurrentDraft(c, n) <=> n = handoff[c]
Sound(c) == OneJob(c) /\ OneDraft(c) /\ HandoffStands(c)

IInv == Typed /\ (\A c \in Candidates : Sound(c)) /\ DigestChoosesOnce

(* What leaves a candidate's rows alone leaves it sound. *)
LEMMA SoundRests ==
  ASSUME NEW c \in Candidates, Sound(c), status'[c] = status[c], job'[c] = job[c],
         draft'[c] = draft[c], handoff'[c] = handoff[c]
  PROVE  Sound(c)'
  BY DEF Sound, OneJob, OneDraft, HandoffStands, OpenJob, CurrentDraft

(* So does a status that says nothing about jobs and drafts. *)
LEMMA SoundMoves ==
  ASSUME NEW c \in Candidates, Sound(c), job'[c] = job[c],
         draft'[c] = draft[c], handoff'[c] = handoff[c],
         status[c] \in {"none", "pending_selection", "pending_review"},
         \/ status'[c] \in {"rejected", "superseded"}
         \/ status'[c] = "pending_selection" /\ status[c] = "none"
  PROVE  Sound(c)'
  BY DEF Sound, OneJob, OneDraft, HandoffStands, OpenJob, CurrentDraft

LEMMA IInvStarts == Init => IInv
<1> SUFFICES ASSUME Init PROVE IInv
  OBVIOUS
<1>1. Typed
  BY DEF Init, Typed, Statuses, Digests, JobTable, JobStates, DraftTable, NoJob, Message,
     NoMessage, Resting, Button
<1>2. ASSUME NEW c \in Candidates PROVE Sound(c)
  BY DEF Init, Sound, OneJob, OneDraft, HandoffStands, OpenJob, CurrentDraft, NoJob, Open
<1>3. DigestChoosesOnce
  BY DEF Init, DigestChoosesOnce
<1> QED
  BY <1>1, <1>2, <1>3 DEF IInv

-----------------------------------------------------------------------------
(* Collection and notification *)

LEMMA PersistCandidateKeeps ==
  ASSUME IInv, NEW c \in Candidates, PersistCandidate(c)
  PROVE  IInv'
<1>1. PICK s \in {"pending_selection", "rejected"} : status' = [status EXCEPT ![c] = s]
  BY DEF PersistCandidate
<1>2. /\ status[c] = "none"
      /\ UNCHANGED <<newer, digest, selection, job, draft, handoff,
                     buttons, notifier, collected, worker, edits, faults>>
  BY DEF PersistCandidate
<1>3. Typed'
  BY <1>1, <1>2 DEF IInv, Typed, Statuses
<1>4. ASSUME NEW d \in Candidates PROVE Sound(d)'
  <2>1. d # c => status'[d] = status[d]
    BY <1>1 DEF IInv, Typed
  <2>2. d = c => status'[d] = s
    BY <1>1 DEF IInv, Typed
  <2> QED
    BY <1>1, <1>2, <2>1, <2>2, SoundRests, SoundMoves DEF IInv
<1> QED
  BY <1>2, <1>3, <1>4 DEF IInv, DigestChoosesOnce

LEMMA PersistSourcesKeeps ==
  ASSUME IInv, NEW seen \in Digests, NEW changed \in SUBSET seen,
         PersistSources(seen, changed)
  PROVE  IInv'
<1>1. /\ newer' = (newer \ seen) \cup changed /\ collected' = seen /\ edits' = edits + 1
      /\ UNCHANGED <<status, digest, selection, job, draft, handoff,
                     buttons, notifier, worker, faults>>
  BY DEF PersistSources
<1>2. Typed'
  BY <1>1 DEF IInv, Typed, Digests
<1>3. \A c \in Candidates : Sound(c)'
  BY <1>1, SoundRests DEF IInv
<1> QED
  BY <1>1, <1>2, <1>3 DEF IInv, DigestChoosesOnce

LEMMA InvalidateKeeps ==
  ASSUME IInv, Invalidate
  PROVE  IInv'
<1>1. /\ status' = [c \in Candidates |->
             IF c \in Outdated THEN "superseded" ELSE status[c]]
      /\ digest' = [d \in Digests |->
             IF Outdated # {} /\ digest[d] \in ClosedByEdit THEN "superseded" ELSE digest[d]]
      /\ job' = [c \in Candidates |-> [n \in Jobs |->
             IF c \in Outdated THEN Superseded(job[c][n]) ELSE job[c][n]]]
      /\ draft' = [c \in Candidates |-> [n \in Jobs |->
             IF c \in Outdated THEN Retired(draft[c][n]) ELSE draft[c][n]]]
      /\ collected' = {}
      /\ UNCHANGED <<newer, selection, handoff, buttons, notifier, worker, edits, faults>>
  BY DEF Invalidate
<1>2. Typed'
  <2>1. \A j \in [status : JobStates, owner : Workers \cup {NoWorker}] :
          Superseded(j) \in [status : JobStates, owner : Workers \cup {NoWorker}]
    BY DEF Superseded, JobStates, Open
  <2>2. job' \in [Candidates -> JobTable]
    BY <1>1, <2>1 DEF IInv, Typed, JobTable
  <2>3. draft' \in [Candidates -> DraftTable]
    BY <1>1 DEF IInv, Typed, DraftTable, Retired
  <2> QED
    BY <1>1, <2>2, <2>3 DEF IInv, Typed, Statuses
<1>3. ASSUME NEW c \in Candidates PROVE Sound(c)'
  <2>1. CASE c \in Outdated
    <3>1. /\ status'[c] = "superseded" /\ handoff'[c] = handoff[c]
          /\ \A n \in Jobs : /\ job'[c][n].status \notin Open
                             /\ draft'[c][n] # "current"
      BY <1>1, <2>1 DEF Superseded, Retired, Open
    <3>2. handoff[c] = 0
      BY <2>1 DEF Outdated, IInv, Sound, HandoffStands
    <3> QED
      BY <3>1, <3>2 DEF Sound, OneJob, OneDraft, HandoffStands, OpenJob, CurrentDraft
  <2>2. CASE c \notin Outdated
    <3>1. status'[c] = status[c] /\ handoff'[c] = handoff[c]
      BY <1>1, <2>2
    <3>2. job'[c] = job[c]
      BY <1>1, <2>2 DEF IInv, Typed, JobTable
    <3>3. draft'[c] = draft[c]
      BY <1>1, <2>2 DEF IInv, Typed, DraftTable
    <3> QED
      BY <3>1, <3>2, <3>3, SoundRests DEF IInv
  <2> QED
    BY <2>1, <2>2
<1> QED
  BY <1>1, <1>2, <1>3 DEF IInv, DigestChoosesOnce

LEMMA CreateDigestKeeps ==
  ASSUME IInv, CreateDigest
  PROVE  IInv'
<1> DEFINE offered == Pending \ newer
<1>1. /\ status' = [c \in Candidates |->
             IF c \in Pending \cap newer THEN "superseded" ELSE status[c]]
      /\ digest' = [d \in Digests |->
             IF d = offered /\ digest[d] = "none" THEN "active" ELSE digest[d]]
      /\ notifier' = IF offered = {} THEN NoMessage
                     ELSE [NoMessage EXCEPT !.stage = "selection", !.of = offered]
      /\ UNCHANGED <<newer, selection, job, draft, handoff,
                     buttons, collected, worker, edits, faults>>
  BY DEF CreateDigest
<1>2. Typed'
  <2>1. Message(notifier')
    BY <1>1 DEF Message, NoMessage, Pending
  <2>2. digest' \in [Digests -> {"none", "active", "selected", "approved", "superseded"}]
    BY <1>1 DEF IInv, Typed
  <2>3. status' \in [Candidates -> Statuses]
    BY <1>1 DEF IInv, Typed, Statuses
  <2>4. Message(notifier)'
    BY <2>1 DEF Message
  <2> QED
    BY <1>1, <2>2, <2>3, <2>4 DEF IInv, Typed
<1>3. ASSUME NEW c \in Candidates PROVE Sound(c)'
  <2>1. \/ status'[c] = status[c]
        \/ status[c] = "pending_selection" /\ status'[c] = "superseded"
    BY <1>1 DEF Pending
  <2> QED
    BY <1>1, <2>1, SoundRests, SoundMoves DEF IInv
<1> QED
  BY <1>1, <1>2, <1>3 DEF IInv, DigestChoosesOnce

(* The notifier and the runs that stop touch no row of a candidate. *)
LEMMA NotifierKeeps ==
  ASSUME IInv,
         \/ CrashCollect \/ SendButtons \/ CrashNotifier
         \/ \E c \in Candidates, n \in Jobs : ReviewButtons(c, n)
  PROVE  IInv'
<1>1. /\ UNCHANGED db
      /\ UNCHANGED <<worker, edits, faults>>
  BY DEF CrashCollect, SendButtons, CrashNotifier, ReviewButtons
<1>2. /\ Message(notifier)' /\ \A b \in buttons' : Button(b)
      /\ collected' \subseteq Candidates
  <2>1. CASE CrashCollect
    BY <2>1 DEF CrashCollect, IInv, Typed, Message
  <2>2. CASE SendButtons
    <3>1. /\ notifier # NoMessage
          /\ buttons' = buttons \cup
               (IF notifier.stage = "review" THEN {notifier}
                ELSE {[notifier EXCEPT !.cand = c] : c \in notifier.of})
          /\ notifier' = NoMessage /\ UNCHANGED collected
      BY <2>2 DEF SendButtons
    <3>2. CASE notifier.stage = "review"
      BY <3>1, <3>2 DEF IInv, Typed, Message, Button, NoMessage
    <3>3. CASE notifier.stage # "review"
      <4>1. ASSUME NEW c \in notifier.of PROVE Button([notifier EXCEPT !.cand = c])
        <5> DEFINE b == [notifier EXCEPT !.cand = c]
        <5>1. b.stage = notifier.stage /\ b.of = notifier.of /\ c \in Candidates
          BY DEF IInv, Typed, Message
        <5>2. b.cand = c /\ b.n = notifier.n
          BY DEF IInv, Typed, Message
        <5> QED
          BY <3>3, <5>1, <5>2 DEF IInv, Typed, Message, Button
      <4> QED
        BY <3>1, <3>3, <4>1 DEF IInv, Typed, Message, NoMessage
    <3> QED
      BY <3>2, <3>3
  <2>3. CASE CrashNotifier
    BY <2>3 DEF CrashNotifier, IInv, Typed, Message, NoMessage
  <2>4. ASSUME NEW c \in Candidates, NEW n \in Jobs, ReviewButtons(c, n)
        PROVE  /\ Message(notifier)' /\ \A b \in buttons' : Button(b)
               /\ collected' \subseteq Candidates
    BY <2>4 DEF ReviewButtons, IInv, Typed, Message
  <2> QED
    BY <2>1, <2>2, <2>3, <2>4
<1>3. Typed'
  BY <1>1, <1>2 DEF IInv, Typed, db, Button, Message
<1>4. \A c \in Candidates : Sound(c)'
  BY <1>1, SoundRests DEF IInv, db
<1> QED
  BY <1>1, <1>3, <1>4 DEF IInv, DigestChoosesOnce, db

-----------------------------------------------------------------------------
(* Clicks *)

LEMMA RejectKeeps ==
  ASSUME IInv, NEW b \in buttons, Reject(b)
  PROVE  IInv'
<1> DEFINE c == b.cand
<1>1. /\ status' = [status EXCEPT ![c] = "rejected"]
      /\ buttons' = {a \in buttons : a.cand # c}
      /\ UNCHANGED <<newer, digest, selection, job, draft, handoff,
                     notifier, collected, worker, edits, faults>>
  BY DEF Reject, Revoke
<1>2. c \in Candidates /\ status[c] \in {"pending_selection", "pending_review"}
  BY DEF Reject, Effective, IInv, Typed, Button
<1>3. Typed'
  BY <1>1, <1>2 DEF IInv, Typed, Statuses, Message, Button
<1>4. ASSUME NEW d \in Candidates PROVE Sound(d)'
  <2>1. /\ d # c => status'[d] = status[d]
        /\ d = c => status'[d] = "rejected"
    BY <1>1 DEF IInv, Typed
  <2> QED
    BY <1>1, <1>2, <2>1, SoundRests, SoundMoves DEF IInv
<1> QED
  BY <1>1, <1>3, <1>4 DEF IInv, DigestChoosesOnce

LEMMA MakeKeeps ==
  ASSUME IInv, NEW b \in buttons, Make(b)
  PROVE  IInv'
<1> DEFINE c == b.cand
<1>1. /\ status' = [status EXCEPT ![c] = "selected_generation_pending"]
      /\ buttons' = {a \in buttons : a.cand # c}
      /\ selection' = [selection EXCEPT ![c] = b.of]
      /\ digest' = [digest EXCEPT ![b.of] = "selected"]
      /\ UNCHANGED <<newer, draft, handoff, notifier, collected, worker, edits, faults>>
  BY DEF Make, Revoke
<1>2. /\ c \in Candidates /\ status[c] = "pending_selection" /\ b.of \in SUBSET Candidates
      /\ 1 \in Jobs
  BY ApprovalBounds DEF Make, Effective, IInv, Typed, Button, Message, Jobs
<1>3. /\ job' \in [Candidates -> JobTable]
      /\ \A d \in Candidates \ {c} : job'[d] = job[d]
      /\ job'[c] = [job[c] EXCEPT ![1] = [status |-> "queued", owner |-> NoWorker]]
  <2>1. job' = [job EXCEPT ![c] =
                  [job[c] EXCEPT ![1] = [status |-> "queued", owner |-> NoWorker]]]
    BY DEF Make, Queue
  <2>2. [job[c] EXCEPT ![1] = [status |-> "queued", owner |-> NoWorker]] \in JobTable
    BY <1>2 DEF IInv, Typed, JobTable, JobStates
  <2> QED
    BY <1>2, <2>1, <2>2 DEF IInv, Typed
<1>4. Typed'
  BY <1>1, <1>2, <1>3 DEF IInv, Typed, Statuses, Message, Button
<1>5. ASSUME NEW d \in Candidates PROVE Sound(d)'
  <2>1. CASE d # c
    <3>1. status'[d] = status[d]
      BY <1>1, <2>1 DEF IInv, Typed
    <3> QED
      BY <1>1, <1>3, <2>1, <3>1, SoundRests DEF IInv
  <2>2. CASE d = c
    <3>1. status'[c] = "selected_generation_pending" /\ handoff'[c] = handoff[c]
          /\ draft'[c] = draft[c]
      BY <1>1, <1>2 DEF IInv, Typed
    <3>2. handoff[c] = 0 /\ (\A n \in Jobs : ~CurrentDraft(c, n) /\ ~OpenJob(c, n))
      BY <1>2 DEF IInv, Sound, OneJob, OneDraft, HandoffStands
    <3>3. \A n \in Jobs : job'[c][n].status \in Open <=> n = 1
      <4>1. \A n \in Jobs : n # 1 => job'[c][n] = job[c][n]
        BY <1>3 DEF IInv, Typed, JobTable
      <4>2. job'[c][1].status = "queued"
        BY <1>2, <1>3 DEF IInv, Typed, JobTable
      <4> QED
        BY <3>2, <4>1, <4>2 DEF OpenJob, Open
    <3> QED
      BY <1>2, <2>2, <3>1, <3>2, <3>3
         DEF Sound, OneJob, OneDraft, HandoffStands, OpenJob, CurrentDraft
  <2> QED
    BY <2>1, <2>2
<1>6. DigestChoosesOnce'
  <2>1. \A d \in Candidates : selection[d] # b.of
    BY DEF Make
  <2>2. \A d \in Candidates : selection'[d] = IF d = c THEN b.of ELSE selection[d]
    BY <1>1, <1>2 DEF IInv, Typed
  <2> QED
    BY <2>1, <2>2 DEF IInv, DigestChoosesOnce
<1> QED
  BY <1>4, <1>5, <1>6 DEF IInv

LEMMA RegenerateKeeps ==
  ASSUME IInv, NEW b \in buttons, Regenerate(b)
  PROVE  IInv'
<1> DEFINE c == b.cand
           new == [status |-> "queued", owner |-> NoWorker]
<1>1. /\ status' = [status EXCEPT ![c] = "selected_generation_pending"]
      /\ buttons' = {a \in buttons : a.cand # c}
      /\ draft' = [draft EXCEPT ![c] = [n \in Jobs |-> Retired(draft[c][n])]]
      /\ job' = [job EXCEPT ![c] =
                   [[n \in Jobs |-> Superseded(job[c][n])] EXCEPT ![b.n + 1] = new]]
      /\ UNCHANGED <<newer, digest, selection, handoff,
                     notifier, collected, worker, edits, faults>>
  BY DEF Regenerate, Revoke, Queue
<1>2. c \in Candidates /\ status[c] = "pending_review" /\ b.n + 1 \in Jobs
  <2>1. Button(b) /\ b.stage = "review" /\ b.n < MaxJobs /\ status[c] = "pending_review"
    BY DEF Regenerate, Effective, IInv, Typed
  <2> QED
    BY <2>1, ApprovalBounds DEF Button, Message, Jobs
<1>3. /\ \A d \in Candidates \ {c} : job'[d] = job[d] /\ draft'[d] = draft[d]
      /\ draft'[c] = [n \in Jobs |-> Retired(draft[c][n])]
      /\ job'[c] = [[n \in Jobs |-> Superseded(job[c][n])] EXCEPT ![b.n + 1] = new]
  BY <1>1, <1>2 DEF IInv, Typed
<1>4. \A n \in Jobs : job'[c][n] = IF n = b.n + 1 THEN new ELSE Superseded(job[c][n])
  BY <1>2, <1>3
<1>5. job'[c] \in JobTable
  <2>1. \A n \in Jobs : job[c][n] \in [status : JobStates, owner : Workers \cup {NoWorker}]
    BY <1>2 DEF IInv, Typed, JobTable
  <2>2. \A j \in [status : JobStates, owner : Workers \cup {NoWorker}] :
          Superseded(j) \in [status : JobStates, owner : Workers \cup {NoWorker}]
    BY DEF Superseded, JobStates, Open
  <2>3. new \in [status : JobStates, owner : Workers \cup {NoWorker}]
    BY DEF JobStates
  <2>4. \A n \in Jobs : job'[c][n] \in [status : JobStates, owner : Workers \cup {NoWorker}]
    BY <1>4, <2>1, <2>2, <2>3
  <2>5. job'[c] = [n \in Jobs |-> job'[c][n]]
    BY <1>3
  <2> QED
    BY <2>4, <2>5 DEF JobTable
<1>6. draft'[c] \in DraftTable
  BY <1>2, <1>3 DEF IInv, Typed, DraftTable, Retired
<1>7. Typed'
  <2>1. job' \in [Candidates -> JobTable] /\ draft' \in [Candidates -> DraftTable]
    <3>1. /\ job' = [job EXCEPT ![c] = job'[c]]
          /\ draft' = [draft EXCEPT ![c] = draft'[c]]
      BY <1>1, <1>3
    <3> QED
      BY <1>2, <1>5, <1>6, <3>1 DEF IInv, Typed
  <2> QED
    BY <1>1, <1>2, <2>1 DEF IInv, Typed, Statuses, Message, Button
<1>8. ASSUME NEW d \in Candidates PROVE Sound(d)'
  <2>1. CASE d # c
    <3>1. status'[d] = status[d]
      BY <1>1, <2>1 DEF IInv, Typed
    <3> QED
      BY <1>1, <1>3, <2>1, <3>1, SoundRests DEF IInv
  <2>2. CASE d = c
    <3>1. status'[c] = "selected_generation_pending" /\ handoff'[c] = handoff[c]
      BY <1>1, <1>2 DEF IInv, Typed
    <3>2. handoff[c] = 0
      BY <1>2 DEF IInv, Sound, HandoffStands
    <3>3. \A n \in Jobs : draft'[c][n] # "current"
      BY <1>3 DEF Retired
    <3>4. ASSUME NEW n \in Jobs PROVE job'[c][n].status \in Open <=> n = b.n + 1
      <4>1. CASE n = b.n + 1
        <5>1. job'[c][n] = new
          BY <1>4, <4>1
        <5> QED
          BY <4>1, <5>1 DEF Open
      <4>2. CASE n # b.n + 1
        <5>1. job'[c][n] = Superseded(job[c][n])
          BY <1>4, <4>2
        <5> QED
          BY <4>2, <5>1 DEF Superseded, Open
      <4> QED
        BY <4>1, <4>2
    <3> QED
      BY <1>2, <2>2, <3>1, <3>2, <3>3, <3>4
         DEF Sound, OneJob, OneDraft, HandoffStands, OpenJob, CurrentDraft
  <2> QED
    BY <2>1, <2>2
<1> QED
  BY <1>1, <1>7, <1>8 DEF IInv, DigestChoosesOnce

LEMMA ApproveKeeps ==
  ASSUME IInv, NEW b \in buttons, ApproveHandoff(b)
  PROVE  IInv'
<1> DEFINE c == b.cand
<1>1. /\ status' = [status EXCEPT ![c] = "approved"]
      /\ buttons' = {a \in buttons : a.cand # c}
      /\ handoff' = [handoff EXCEPT ![c] = b.n]
      /\ digest' = [digest EXCEPT ![b.of] = "approved"]
      /\ UNCHANGED <<newer, selection, job, draft, notifier, collected, worker,
                     edits, faults>>
  BY DEF ApproveHandoff, Revoke
<1>2. /\ c \in Candidates /\ b.n \in Jobs /\ status[c] = "pending_review"
      /\ CurrentDraft(c, b.n)
  BY DEF ApproveHandoff, Effective, IInv, Typed, Button, Message
<1>3. Typed'
  BY <1>1, <1>2 DEF IInv, Typed, Statuses, Message, Button
<1>4. ASSUME NEW d \in Candidates PROVE Sound(d)'
  <2>1. CASE d # c
    <3>1. status'[d] = status[d] /\ handoff'[d] = handoff[d]
      BY <1>1, <2>1 DEF IInv, Typed
    <3> QED
      BY <1>1, <3>1, SoundRests DEF IInv
  <2>2. CASE d = c
    <3>1. status'[c] = "approved" /\ handoff'[c] = b.n
      BY <1>1, <1>2 DEF IInv, Typed
    <3>2. OneJob(c) /\ OneDraft(c)
      BY <1>2 DEF IInv, Sound
    <3>3. \A n \in Jobs : CurrentDraft(c, n) <=> n = b.n
      BY <1>2, <3>2 DEF OneDraft
    <3> QED
      BY <1>1, <1>2, <2>2, <3>1, <3>2, <3>3
         DEF Sound, OneJob, OneDraft, HandoffStands, OpenJob, CurrentDraft
  <2> QED
    BY <2>1, <2>2
<1> QED
  BY <1>1, <1>3, <1>4 DEF IInv, DigestChoosesOnce

-----------------------------------------------------------------------------
(* Generation *)

(* The one open job of a candidate changes hands and stays open. *)
LEMMA JobStaysOpen ==
  ASSUME IInv, NEW c \in Candidates, NEW n \in Jobs, OpenJob(c, n),
         NEW j \in [status : Open, owner : Workers \cup {NoWorker}],
         job' = [job EXCEPT ![c][n] = j],
         UNCHANGED <<status, draft, handoff>>
  PROVE  job' \in [Candidates -> JobTable] /\ \A d \in Candidates : Sound(d)'
<1>1. job' = [job EXCEPT ![c] = [job[c] EXCEPT ![n] = j]]
  OBVIOUS
<1>2. /\ job'[c] = [job[c] EXCEPT ![n] = j]
      /\ \A d \in Candidates \ {c} : job'[d] = job[d]
  BY <1>1 DEF IInv, Typed
<1>3. [job[c] EXCEPT ![n] = j] \in JobTable
  BY DEF IInv, Typed, JobTable, JobStates, Open
<1>4. job' \in [Candidates -> JobTable]
  BY <1>1, <1>3 DEF IInv, Typed
<1>5. ASSUME NEW m \in Jobs PROVE job'[c][m].status \in Open <=> OpenJob(c, m)
  <2>1. CASE m = n
    <3>1. job'[c][m] = j
      BY <1>2, <2>1 DEF IInv, Typed, JobTable
    <3> QED
      BY <2>1, <3>1
  <2>2. CASE m # n
    <3>1. job'[c][m] = job[c][m]
      BY <1>2, <2>2 DEF IInv, Typed, JobTable
    <3> QED
      BY <3>1 DEF OpenJob
  <2> QED
    BY <2>1, <2>2
<1>6. ASSUME NEW d \in Candidates PROVE Sound(d)'
  <2>1. CASE d # c
    BY <1>2, <2>1, SoundRests DEF IInv
  <2>2. CASE d = c
    <3>1. Sound(c)
      BY DEF IInv
    <3> QED
      BY <1>5, <2>2, <3>1 DEF Sound, OneJob, OneDraft, HandoffStands, OpenJob, CurrentDraft
  <2> QED
    BY <2>1, <2>2
<1> QED
  BY <1>4, <1>6

LEMMA LeaseKeeps ==
  ASSUME IInv, NEW w \in Workers, NEW c \in Candidates, NEW n \in Jobs, Lease(w, c, n)
  PROVE  IInv'
<1> DEFINE j == [status |-> "running", owner |-> w]
<1>1. /\ job[c][n].status \in {"queued", "failed", "lapsed"}
      /\ job' = [job EXCEPT ![c][n] = j]
      /\ status' = [status EXCEPT ![c] = "selected_generation_pending"]
      /\ worker' = [worker EXCEPT ![w] = [cand |-> c, n |-> n]]
      /\ UNCHANGED <<newer, digest, selection, draft, handoff,
                     buttons, notifier, collected, edits, faults>>
  BY DEF Lease
<1>2. OpenJob(c, n)
  BY <1>1 DEF OpenJob, Open
<1>3. status' = status
  <2>1. status[c] = "selected_generation_pending"
    BY <1>2 DEF IInv, Sound, OneJob
  <2> QED
    BY <1>1, <2>1 DEF IInv, Typed
<1>4. j \in [status : Open, owner : Workers \cup {NoWorker}]
  BY DEF Open
<1>5. job' \in [Candidates -> JobTable] /\ \A d \in Candidates : Sound(d)'
  BY <1>1, <1>2, <1>3, <1>4, JobStaysOpen
<1>6. /\ worker' \in [Workers -> [cand : Candidates \cup {NoCandidate}, n : {0} \cup Jobs]]
      /\ \A v \in Workers :
           worker'[v] # Resting => worker'[v].cand \in Candidates /\ worker'[v].n \in Jobs
  <2>1. \A v \in Workers :
          worker'[v] = IF v = w THEN [cand |-> c, n |-> n] ELSE worker[v]
    BY <1>1 DEF IInv, Typed
  <2> QED
    BY <1>1, <2>1 DEF IInv, Typed
<1>7. Typed'
  BY <1>1, <1>3, <1>5, <1>6 DEF IInv, Typed, Message, Button
<1> QED
  BY <1>1, <1>5, <1>7 DEF IInv, DigestChoosesOnce

LEMMA LapseKeeps ==
  ASSUME IInv, NEW c \in Candidates, NEW n \in Jobs, Lapse(c, n)
  PROVE  IInv'
<1> DEFINE j == [status |-> "lapsed", owner |-> job[c][n].owner]
<1>1. /\ job[c][n].status = "running" /\ faults' = faults + 1
      /\ job' = [job EXCEPT ![c][n].status = "lapsed"]
      /\ UNCHANGED <<status, newer, digest, selection, draft, handoff,
                     buttons, notifier, collected, worker, edits>>
  BY DEF Lapse
<1>2. job[c][n] \in [status : JobStates, owner : Workers \cup {NoWorker}]
  BY DEF IInv, Typed, JobTable
<1>3. job' = [job EXCEPT ![c][n] = j]
  <2>1. [job[c][n] EXCEPT !.status = "lapsed"] = j
    BY <1>2
  <2>2. job' = [job EXCEPT ![c][n] = [job[c][n] EXCEPT !.status = "lapsed"]]
    BY <1>1
  <2> QED
    BY <2>1, <2>2
<1>4. OpenJob(c, n) /\ j \in [status : Open, owner : Workers \cup {NoWorker}]
  BY <1>1, <1>2 DEF OpenJob, Open
<1> HIDE DEF j
<1>5. job' \in [Candidates -> JobTable] /\ \A d \in Candidates : Sound(d)'
  BY <1>1, <1>3, <1>4, JobStaysOpen
<1>6. Typed'
  BY <1>1, <1>5 DEF IInv, Typed, Message, Button
<1> QED
  BY <1>1, <1>5, <1>6 DEF IInv, DigestChoosesOnce

(* A worker that stops leaves its place empty. *)
LEMMA WorkerRests ==
  ASSUME IInv, NEW w \in Workers, worker' = [worker EXCEPT ![w] = Resting]
  PROVE  /\ worker' \in [Workers -> [cand : Candidates \cup {NoCandidate}, n : {0} \cup Jobs]]
         /\ \A v \in Workers :
              worker'[v] # Resting => worker'[v].cand \in Candidates /\ worker'[v].n \in Jobs
  BY DEF IInv, Typed, Resting

LEMMA CommitKeeps ==
  ASSUME IInv, NEW w \in Workers, Commit(w)
  PROVE  IInv'
<1> DEFINE c == worker[w].cand
           n == worker[w].n
           done == [status |-> "succeeded", owner |-> NoWorker]
<1>1. /\ worker[w] # Resting /\ job[c][n].status \in {"running", "lapsed"}
      /\ draft' = [draft EXCEPT ![c][n] = "current"]
      /\ job' = [job EXCEPT ![c][n] = done]
      /\ status' = [status EXCEPT ![c] = IF status[c] = "selected_generation_pending"
                                         THEN "pending_review" ELSE status[c]]
      /\ worker' = [worker EXCEPT ![w] = Resting]
      /\ UNCHANGED <<newer, digest, selection, handoff,
                     buttons, notifier, collected, edits, faults>>
  BY DEF Commit, Holds
<1>2. c \in Candidates /\ n \in Jobs
  BY <1>1 DEF IInv, Typed
<1>3. OpenJob(c, n) /\ status[c] = "selected_generation_pending"
  <2>1. OpenJob(c, n)
    BY <1>1 DEF OpenJob, Open
  <2> QED
    BY <1>2, <2>1 DEF IInv, Sound, OneJob
<1>4. /\ job' = [job EXCEPT ![c] = [job[c] EXCEPT ![n] = done]]
      /\ draft' = [draft EXCEPT ![c] = [draft[c] EXCEPT ![n] = "current"]]
  BY <1>1
<1>5. /\ [job[c] EXCEPT ![n] = done] \in JobTable
      /\ [draft[c] EXCEPT ![n] = "current"] \in DraftTable
  BY <1>2 DEF IInv, Typed, JobTable, DraftTable, JobStates
<1>6. job' \in [Candidates -> JobTable] /\ draft' \in [Candidates -> DraftTable]
  BY <1>2, <1>4, <1>5 DEF IInv, Typed
<1>7. Typed'
  BY <1>1, <1>2, <1>6, WorkerRests DEF IInv, Typed, Statuses, Message, Button
<1>8. ASSUME NEW d \in Candidates PROVE Sound(d)'
  <2>1. CASE d # c
    <3>1. status'[d] = status[d] /\ job'[d] = job[d] /\ draft'[d] = draft[d]
      BY <1>1, <1>4, <2>1 DEF IInv, Typed
    <3> QED
      BY <1>1, <3>1, SoundRests DEF IInv
  <2>2. CASE d = c
    <3>1. /\ status'[c] = "pending_review" /\ handoff'[c] = handoff[c]
          /\ job'[c] = [job[c] EXCEPT ![n] = done]
          /\ draft'[c] = [draft[c] EXCEPT ![n] = "current"]
      BY <1>1, <1>2, <1>3, <1>4 DEF IInv, Typed
    <3>2. OneJob(c) /\ OneDraft(c) /\ handoff[c] = 0
      BY <1>2, <1>3 DEF IInv, Sound, HandoffStands
    <3>3. ASSUME NEW m \in Jobs PROVE job'[c][m].status \notin Open
      <4>1. CASE m = n
        <5>1. job'[c][m] = done
          BY <1>2, <3>1, <4>1 DEF IInv, Typed, JobTable
        <5> QED
          BY <5>1 DEF Open
      <4>2. CASE m # n
        <5>1. job'[c][m] = job[c][m]
          BY <1>2, <3>1, <4>2 DEF IInv, Typed, JobTable
        <5> QED
          BY <1>2, <1>3, <3>2, <4>2, <5>1 DEF OneJob, OpenJob
      <4> QED
        BY <4>1, <4>2
    <3>4. \A m \in Jobs : draft'[c][m] = "current" <=> m = n
      BY <1>2, <1>3, <3>1, <3>2 DEF IInv, Typed, DraftTable, OneDraft, CurrentDraft
    <3> QED
      BY <1>2, <2>2, <3>1, <3>2, <3>3, <3>4
         DEF Sound, OneJob, OneDraft, HandoffStands, OpenJob, CurrentDraft
  <2> QED
    BY <2>1, <2>2
<1> QED
  BY <1>1, <1>7, <1>8 DEF IInv, DigestChoosesOnce

LEMMA FailKeeps ==
  ASSUME IInv, NEW w \in Workers, Fail(w)
  PROVE  IInv'
<1> DEFINE c == worker[w].cand
           n == worker[w].n
           j == [status |-> "failed", owner |-> NoWorker]
<1>1. /\ worker[w] # Resting /\ job[c][n].status \in {"running", "lapsed"}
      /\ job' = [job EXCEPT ![c][n] = j]
      /\ worker' = [worker EXCEPT ![w] = Resting] /\ faults' = faults + 1
      /\ UNCHANGED <<status, newer, digest, selection, draft, handoff,
                     buttons, notifier, collected, edits>>
  BY DEF Fail, Holds
<1>2. c \in Candidates /\ n \in Jobs
  BY <1>1 DEF IInv, Typed
<1>3. OpenJob(c, n) /\ j \in [status : Open, owner : Workers \cup {NoWorker}]
  BY <1>1 DEF OpenJob, Open
<1>4. job' \in [Candidates -> JobTable] /\ \A d \in Candidates : Sound(d)'
  BY <1>1, <1>2, <1>3, JobStaysOpen
<1>5. Typed'
  <2>1. /\ worker' \in [Workers ->
                         [cand : Candidates \cup {NoCandidate}, n : {0} \cup Jobs]]
        /\ \A v \in Workers :
             worker'[v] # Resting => worker'[v].cand \in Candidates /\ worker'[v].n \in Jobs
    BY <1>1, WorkerRests
  <2>2. faults' \in Nat
    BY <1>1 DEF IInv, Typed
  <2> QED
    BY <1>1, <1>4, <2>1, <2>2 DEF IInv, Typed, Message, Button
<1> QED
  BY <1>1, <1>4, <1>5 DEF IInv, DigestChoosesOnce

LEMMA WorkerStopKeeps ==
  ASSUME IInv, NEW w \in Workers, LeaseLost(w) \/ CrashWorker(w)
  PROVE  IInv'
<1>1. /\ worker' = [worker EXCEPT ![w] = Resting]
      /\ faults' = faults \/ faults' = faults + 1
      /\ UNCHANGED <<db, buttons, notifier, collected, edits>>
  BY DEF LeaseLost, CrashWorker
<1>2. Typed'
  <2>1. /\ worker' \in [Workers ->
                         [cand : Candidates \cup {NoCandidate}, n : {0} \cup Jobs]]
        /\ \A v \in Workers :
             worker'[v] # Resting => worker'[v].cand \in Candidates /\ worker'[v].n \in Jobs
    BY <1>1, WorkerRests
  <2>2. faults' \in Nat
    BY <1>1 DEF IInv, Typed
  <2> QED
    BY <1>1, <2>1, <2>2 DEF IInv, Typed, Message, Button, db
<1>3. \A c \in Candidates : Sound(c)'
  BY <1>1, SoundRests DEF IInv, db
<1> QED
  BY <1>1, <1>2, <1>3 DEF IInv, DigestChoosesOnce, db

-----------------------------------------------------------------------------
(* What was chosen and its review *)

Chosen == {"selected_generation_pending", "pending_review"}
Reviewable(c) ==
  /\ status[c] \in Chosen => selection[c] # {} /\ digest[selection[c]] = "selected"
  /\ status[c] = "pending_review" => \E n \in Jobs : CurrentDraft(c, n)

(* A message asks about a digest; one that asks for a review, about the    *)
(* digest its candidate was chosen from, which never changes again.        *)
Asks(b) ==
  /\ b.stage # "none" => b.of # {}
  /\ b.stage = "review" =>
       /\ b.cand \in Candidates /\ selection[b.cand] = b.of
       /\ status[b.cand] \notin {"none", "pending_selection"}

ReviewInv == /\ \A c \in Candidates : Reviewable(c)
             /\ Asks(notifier) /\ \A b \in buttons : Asks(b)

LEMMA ReviewStarts == Init => ReviewInv
  BY DEF Init, ReviewInv, Reviewable, Chosen, Asks, NoMessage

(* Most steps choose nothing: who is chosen afterwards was so before, and  *)
(* its digest stays open.                                                  *)
Keeps(c) ==
  /\ status'[c] \in {"none", "pending_selection"} =>
       status[c] \in {"none", "pending_selection"}
  /\ status'[c] \in Chosen =>
       status[c] \in Chosen /\ digest'[selection[c]] = "selected"
  /\ status'[c] = "pending_review" => \E n \in Jobs : draft'[c][n] = "current"

LEMMA ReviewKeeps ==
  ASSUME ReviewInv, UNCHANGED selection, \A c \in Candidates : Keeps(c),
         Asks(notifier'), \A b \in buttons' : Asks(b)
  PROVE  ReviewInv'
<1>1. ASSUME NEW c \in Candidates PROVE Reviewable(c)'
  BY <1>1 DEF ReviewInv, Reviewable, Keeps, CurrentDraft
<1>2. ASSUME NEW b, Asks(b) PROVE /\ b.stage # "none" => b.of # {}
                                  /\ b.stage = "review" =>
                                       /\ b.cand \in Candidates /\ selection'[b.cand] = b.of
                                       /\ status'[b.cand] \notin {"none", "pending_selection"}
  BY <1>2 DEF Asks, Keeps
<1>3. Asks(notifier)' /\ \A b \in buttons' : Asks(b)'
  BY <1>2 DEF Asks
<1> QED
  BY <1>1, <1>3 DEF ReviewInv

LEMMA NothingAsks == Asks(NoMessage)
  BY DEF Asks, NoMessage

(* A step that leaves the rows of candidates and digests alone. *)
LEMMA ReviewRests ==
  ASSUME ReviewInv, UNCHANGED <<status, selection, digest, draft>>,
         Asks(notifier'), \A b \in buttons' : Asks(b)
  PROVE  ReviewInv'
<1>1. \A c \in Candidates : Keeps(c)
  BY DEF ReviewInv, Reviewable, Keeps, CurrentDraft
<1> QED
  BY <1>1, ReviewKeeps

(* A step that moves no digest but may end candidates. *)
LEMMA EditsKeepReview ==
  ASSUME IInv, ReviewInv,
         \/ \E c \in Candidates : PersistCandidate(c)
         \/ Invalidate \/ CreateDigest
  PROVE  ReviewInv'
<1>1. \A c \in Candidates : status[c] \in Chosen =>
        selection[c] \in Digests /\ digest[selection[c]] = "selected"
  BY DEF IInv, Typed, ReviewInv, Reviewable, Digests
<1>2. ASSUME NEW c \in Candidates, PersistCandidate(c) PROVE ReviewInv'
  <2>1. PICK s \in {"pending_selection", "rejected"} : status' = [status EXCEPT ![c] = s]
    BY <1>2 DEF PersistCandidate
  <2>2. /\ status[c] = "none"
        /\ UNCHANGED <<digest, selection, draft, buttons, notifier>>
    BY <1>2 DEF PersistCandidate
  <2>3. \A d \in Candidates : status'[d] = IF d = c THEN s ELSE status[d]
    BY <2>1 DEF IInv, Typed
  <2>4. \A d \in Candidates : Keeps(d)
    BY <1>1, <2>2, <2>3 DEF Keeps, Chosen, ReviewInv, Reviewable, CurrentDraft
  <2> QED
    BY <2>2, <2>4, ReviewKeeps DEF ReviewInv
<1>3. CASE Invalidate
  <2>1. /\ status' = [c \in Candidates |->
               IF c \in Outdated THEN "superseded" ELSE status[c]]
        /\ digest' = [d \in Digests |->
               IF Outdated # {} /\ digest[d] \in ClosedByEdit
               THEN "superseded" ELSE digest[d]]
        /\ draft' = [c \in Candidates |-> [n \in Jobs |->
               IF c \in Outdated THEN Retired(draft[c][n]) ELSE draft[c][n]]]
        /\ UNCHANGED <<selection, buttons, notifier>>
    BY <1>3 DEF Invalidate
  <2>2. ASSUME NEW c \in Candidates PROVE Keeps(c)
    <3>1. CASE c \in Outdated
      BY <2>1, <3>1 DEF Keeps, Chosen
    <3>2. CASE c \notin Outdated
      <4>1. status'[c] = status[c] /\ \A n \in Jobs : draft'[c][n] = draft[c][n]
        BY <2>1, <3>2
      <4>2. status[c] \in Chosen => digest'[selection[c]] = "selected"
        BY <1>1, <2>1 DEF ClosedByEdit
      <4> QED
        BY <4>1, <4>2 DEF Keeps, Chosen, ReviewInv, Reviewable, CurrentDraft
    <3> QED
      BY <3>1, <3>2
  <2> QED
    BY <2>1, <2>2, ReviewKeeps DEF ReviewInv
<1>4. CASE CreateDigest
  <2> DEFINE offered == Pending \ newer
  <2>1. /\ status' = [c \in Candidates |->
               IF c \in Pending \cap newer THEN "superseded" ELSE status[c]]
        /\ digest' = [d \in Digests |->
               IF d = offered /\ digest[d] = "none" THEN "active" ELSE digest[d]]
        /\ notifier' = IF offered = {} THEN NoMessage
                       ELSE [NoMessage EXCEPT !.stage = "selection", !.of = offered]
        /\ UNCHANGED <<selection, draft, buttons>>
    BY <1>4 DEF CreateDigest
  <2> HIDE DEF offered
  <2>2. Asks(notifier')
    <3>1. CASE offered = {}
      BY <2>1, <3>1, NothingAsks
    <3>2. CASE offered # {}
      BY <2>1, <3>2 DEF Asks, NoMessage
    <3> QED
      BY <3>1, <3>2
  <2>3. ASSUME NEW c \in Candidates PROVE Keeps(c)
    <3>1. status'[c] = status[c] \/ status'[c] = "superseded"
      BY <2>1
    <3>2. status[c] \in Chosen => digest'[selection[c]] = "selected"
      BY <1>1, <2>1
    <3> QED
      BY <2>1, <3>1, <3>2 DEF Keeps, Chosen, ReviewInv, Reviewable, CurrentDraft
  <2> QED
    BY <2>1, <2>2, <2>3, ReviewKeeps DEF ReviewInv
<1> QED
  BY <1>2, <1>3, <1>4

(* The messages that are prepared and sent. *)
LEMMA MessagesKeepReview ==
  ASSUME IInv, ReviewInv,
         \/ SendButtons \/ CrashNotifier
         \/ \E c \in Candidates, n \in Jobs : ReviewButtons(c, n)
  PROVE  ReviewInv'
<1>1. UNCHANGED <<status, selection, digest, draft>>
  BY DEF SendButtons, CrashNotifier, ReviewButtons, db
<1>2. Asks(notifier') /\ \A b \in buttons' : Asks(b)
  <2>1. CASE SendButtons
    <3>1. /\ buttons' = buttons \cup
               (IF notifier.stage = "review" THEN {notifier}
                ELSE {[notifier EXCEPT !.cand = c] : c \in notifier.of})
          /\ notifier' = NoMessage
      BY <2>1 DEF SendButtons
    <3>2. CASE notifier.stage = "review"
      BY <3>1, <3>2, NothingAsks DEF ReviewInv
    <3>3. CASE notifier.stage # "review"
      <4>1. ASSUME NEW c \in notifier.of PROVE Asks([notifier EXCEPT !.cand = c])
        <5> DEFINE b == [notifier EXCEPT !.cand = c]
        <5>1. b.stage = notifier.stage /\ b.of = notifier.of /\ notifier.of # {}
          BY DEF IInv, Typed, Message
        <5> QED
          BY <3>3, <5>1 DEF Asks
      <4> QED
        BY <3>1, <3>3, <4>1, NothingAsks DEF ReviewInv
    <3> QED
      BY <3>2, <3>3
  <2>2. CASE CrashNotifier
    BY <2>2, NothingAsks DEF CrashNotifier, ReviewInv
  <2>3. ASSUME NEW c \in Candidates, NEW n \in Jobs, ReviewButtons(c, n)
        PROVE  Asks(notifier') /\ \A b \in buttons' : Asks(b)
    <3>1. /\ notifier' = [stage |-> "review", of |-> selection[c], cand |-> c, n |-> n]
          /\ status[c] = "pending_review" /\ UNCHANGED buttons
      BY <2>3 DEF ReviewButtons
    <3>2. selection[c] # {}
      BY <3>1 DEF ReviewInv, Reviewable, Chosen
    <3> QED
      BY <3>1, <3>2 DEF Asks, ReviewInv
  <2> QED
    BY <2>1, <2>2, <2>3
<1> QED
  BY <1>1, <1>2, ReviewRests

(* A rejection and a new draft leave the digests as they are. *)
LEMMA ClicksKeepReview ==
  ASSUME IInv, ReviewInv, NEW b \in buttons, Reject(b) \/ Regenerate(b)
  PROVE  ReviewInv'
<1> DEFINE c == b.cand
<1>1. /\ status' = [status EXCEPT ![c] = IF Reject(b) THEN "rejected"
                                         ELSE "selected_generation_pending"]
      /\ buttons' \subseteq buttons
      /\ UNCHANGED <<digest, selection, notifier>>
  BY DEF Reject, Regenerate, Revoke
<1>2. c \in Candidates /\ (~Reject(b) => status[c] = "pending_review")
  BY DEF Reject, Regenerate, Effective, IInv, Typed, Button
<1>3. \A d \in Candidates \ {c} : draft'[d] = draft[d]
  <2>1. CASE Reject(b)
    BY <2>1 DEF Reject
  <2>2. CASE Regenerate(b)
    BY <2>2 DEF Regenerate, IInv, Typed
  <2> QED
    BY <2>1, <2>2
<1>4. \A d \in Candidates :
        status'[d] = IF d = c THEN (IF Reject(b) THEN "rejected"
                                    ELSE "selected_generation_pending") ELSE status[d]
  BY <1>1 DEF IInv, Typed
<1>5. ASSUME NEW d \in Candidates PROVE Keeps(d)
  BY <1>1, <1>2, <1>3, <1>4 DEF Keeps, Chosen, ReviewInv, Reviewable, CurrentDraft
<1> QED
  BY <1>1, <1>5, ReviewKeeps DEF ReviewInv

(* A choice opens the review of its digest, and of nothing else. *)
LEMMA MakeKeepsReview ==
  ASSUME IInv, ReviewInv, NEW b \in buttons, Make(b)
  PROVE  ReviewInv'
<1> DEFINE c == b.cand
<1>1. /\ status' = [status EXCEPT ![c] = "selected_generation_pending"]
      /\ buttons' \subseteq buttons
      /\ selection' = [selection EXCEPT ![c] = b.of]
      /\ digest' = [digest EXCEPT ![b.of] = "selected"]
      /\ UNCHANGED <<draft, notifier>>
  BY DEF Make, Revoke
<1>2. /\ c \in Candidates /\ status[c] = "pending_selection"
      /\ b.of \in Digests /\ b.of # {}
  BY DEF Make, Effective, IInv, Typed, Button, Message, ReviewInv, Asks, Digests
<1>3. \A d \in Candidates :
        /\ status'[d] = IF d = c THEN "selected_generation_pending" ELSE status[d]
        /\ selection'[d] = IF d = c THEN b.of ELSE selection[d]
  BY <1>1 DEF IInv, Typed
<1>4. \A e \in Digests : digest'[e] = IF e = b.of THEN "selected" ELSE digest[e]
  BY <1>1 DEF IInv, Typed
<1>5. ASSUME NEW d \in Candidates PROVE Reviewable(d)'
  <2>1. CASE d = c
    BY <1>2, <1>3, <1>4, <2>1 DEF Reviewable
  <2>2. CASE d # c
    <3>1. Reviewable(d) /\ selection[d] \in SUBSET Candidates
      BY DEF ReviewInv, IInv, Typed
    <3> QED
      BY <1>1, <1>3, <1>4, <2>2, <3>1 DEF Reviewable, Digests, CurrentDraft
  <2> QED
    BY <2>1, <2>2
<1>6. ASSUME NEW a, Asks(a) PROVE Asks(a)'
  <2>1. a.stage = "review" => a.cand # c
    BY <1>2, <1>6 DEF Asks
  <2> QED
    BY <1>3, <1>6, <2>1 DEF Asks
<1> QED
  BY <1>1, <1>5, <1>6 DEF ReviewInv

(* An approval closes the digest of its candidate, which is nobody else's. *)
LEMMA ApproveKeepsReview ==
  ASSUME IInv, ReviewInv, NEW b \in buttons, ApproveHandoff(b)
  PROVE  ReviewInv'
<1> DEFINE c == b.cand
<1>1. /\ status' = [status EXCEPT ![c] = "approved"]
      /\ buttons' \subseteq buttons
      /\ digest' = [digest EXCEPT ![b.of] = "approved"]
      /\ UNCHANGED <<draft, notifier, selection>>
  BY DEF ApproveHandoff, Revoke
<1>2. /\ c \in Candidates /\ selection[c] = b.of /\ b.of # {}
  BY DEF ApproveHandoff, ReviewInv, Asks
<1>3. \A d \in Candidates : status'[d] = IF d = c THEN "approved" ELSE status[d]
  BY <1>1 DEF IInv, Typed
<1>4. ASSUME NEW d \in Candidates PROVE Keeps(d)
  <2>1. CASE d = c
    BY <1>3, <2>1 DEF Keeps, Chosen
  <2>2. CASE d # c
    <3>1. selection[d] # b.of
      BY <1>2, <2>2 DEF IInv, DigestChoosesOnce
    <3>2. Reviewable(d) /\ selection[d] \in SUBSET Candidates
      BY DEF ReviewInv, IInv, Typed
    <3>3. selection[d] \in Digests => digest'[selection[d]] = digest[selection[d]]
      BY <1>1, <3>1 DEF IInv, Typed
    <3> QED
      BY <1>1, <1>3, <2>2, <3>2, <3>3 DEF Keeps, Chosen, Reviewable, Digests, CurrentDraft
  <2> QED
    BY <2>1, <2>2
<1> QED
  BY <1>1, <1>4, ReviewKeeps DEF ReviewInv

(* A worker that leases a job finds its candidate waiting, and one that    *)
(* commits leaves a current draft.                                         *)
LEMMA LeaseKeepsReview ==
  ASSUME IInv, ReviewInv, NEW w \in Workers, NEW c \in Candidates, NEW n \in Jobs,
         Lease(w, c, n)
  PROVE  ReviewInv'
<1>1. /\ status' = [status EXCEPT ![c] = "selected_generation_pending"]
      /\ status[c] \in Chosen
      /\ UNCHANGED <<digest, selection, draft, notifier, buttons>>
  BY DEF Lease, Chosen
<1>2. \A d \in Candidates :
        status'[d] = IF d = c THEN "selected_generation_pending" ELSE status[d]
  BY <1>1 DEF IInv, Typed
<1>3. \A d \in Candidates : Keeps(d)
  BY <1>1, <1>2 DEF Keeps, Chosen, ReviewInv, Reviewable, CurrentDraft
<1> QED
  BY <1>1, <1>3, ReviewKeeps DEF ReviewInv

LEMMA CommitKeepsReview ==
  ASSUME IInv, ReviewInv, NEW w \in Workers, Commit(w)
  PROVE  ReviewInv'
<1> DEFINE c == worker[w].cand
           n == worker[w].n
<1>1. /\ worker[w] # Resting
      /\ draft' = [draft EXCEPT ![c][n] = "current"]
      /\ status' = [status EXCEPT ![c] = IF status[c] = "selected_generation_pending"
                                         THEN "pending_review" ELSE status[c]]
      /\ UNCHANGED <<digest, selection, notifier, buttons>>
  BY DEF Commit
<1>2. c \in Candidates /\ n \in Jobs
  BY <1>1 DEF IInv, Typed
<1> HIDE DEF c, n
<1>3. /\ \A d \in Candidates \ {c} : status'[d] = status[d] /\ draft'[d] = draft[d]
      /\ status'[c] = IF status[c] = "selected_generation_pending"
                      THEN "pending_review" ELSE status[c]
      /\ draft'[c][n] = "current"
  BY <1>1, <1>2 DEF IInv, Typed, DraftTable
<1>4. ASSUME NEW d \in Candidates PROVE Keeps(d)
  <2>1. Reviewable(d)
    BY DEF ReviewInv
  <2>2. CASE d = c
    BY <1>1, <1>2, <1>3, <2>1, <2>2 DEF Keeps, Chosen, Reviewable
  <2>3. CASE d # c
    BY <1>1, <1>3, <2>1, <2>3 DEF Keeps, Chosen, Reviewable, CurrentDraft
  <2> QED
    BY <2>2, <2>3
<1> QED
  BY <1>1, <1>4, ReviewKeeps DEF ReviewInv

LEMMA ReviewStays == IInv /\ ReviewInv /\ [Next]_vars => ReviewInv'
<1> SUFFICES ASSUME IInv, ReviewInv, [Next]_vars PROVE ReviewInv'
  OBVIOUS
<1>1. CASE \/ UNCHANGED vars \/ CrashCollect
           \/ \E seen \in Digests : \E changed \in SUBSET seen : PersistSources(seen, changed)
           \/ \E c \in Candidates, n \in Jobs : Lapse(c, n)
           \/ \E w \in Workers : LeaseLost(w) \/ Fail(w) \/ CrashWorker(w)
  <2>1. UNCHANGED <<status, selection, digest, draft, notifier, buttons>>
    BY <1>1 DEF vars, db, CrashCollect, PersistSources, Lapse, LeaseLost, Fail, CrashWorker
  <2> QED
    BY <2>1, ReviewRests DEF ReviewInv
<1> QED
  BY <1>1, EditsKeepReview, MessagesKeepReview, ClicksKeepReview, MakeKeepsReview,
     ApproveKeepsReview, LeaseKeepsReview, CommitKeepsReview DEF Next

-----------------------------------------------------------------------------
(* The results *)

LEMMA IInvStays == IInv /\ [Next]_vars => IInv'
<1> SUFFICES ASSUME IInv, [Next]_vars PROVE IInv'
  OBVIOUS
<1>1. CASE UNCHANGED vars
  <2>1. Typed'
    BY <1>1 DEF vars, db, IInv, Typed, Message, Button
  <2>2. \A c \in Candidates : Sound(c)'
    BY <1>1, SoundRests DEF vars, db, IInv
  <2> QED
    BY <1>1, <2>1, <2>2 DEF vars, db, IInv, DigestChoosesOnce
<1> QED
  BY <1>1, PersistCandidateKeeps, PersistSourcesKeeps, InvalidateKeeps, CreateDigestKeeps,
     NotifierKeeps, RejectKeeps, MakeKeeps, RegenerateKeeps, ApproveKeeps, LeaseKeeps,
     LapseKeeps, CommitKeeps, FailKeeps, WorkerStopKeeps DEF Next

LEMMA Invariance == Spec => []IInv
  BY IInvStarts, IInvStays, PTL DEF Spec

(* Every table of the workflow holds what it is meant to.                  *)
THEOREM TypeCorrect == Spec => []ApprovalTypeOK
<1>1. IInv => ApprovalTypeOK
  BY DEF IInv, Typed, ApprovalTypeOK, Statuses, JobTable, JobStates, DraftTable, Open
<1> QED
  BY <1>1, Invariance, PTL

(* What a person approved stays the one current draft of an approved       *)
(* candidate, whatever is edited or written afterwards.                    *)
THEOREM HandoffHolds == Spec => []HandoffIsTheCurrentDraft
<1>1. IInv => HandoffIsTheCurrentDraft
  BY DEF IInv, Sound, HandoffStands, HandoffIsTheCurrentDraft
<1> QED
  BY <1>1, Invariance, PTL

(* A candidate has one open job while it waits for a draft and none else.  *)
THEOREM WorkFollowsStatus == Spec => []WorkMatchesStatus
<1>1. IInv => WorkMatchesStatus
  <2> SUFFICES ASSUME IInv, NEW c \in Candidates
               PROVE  Cardinality({n \in Jobs : OpenJob(c, n)})
                        = IF status[c] = "selected_generation_pending" THEN 1 ELSE 0
    BY DEF WorkMatchesStatus, OpenJob
  <2>1. OneJob(c)
    BY DEF IInv, Sound
  <2>2. CASE status[c] = "selected_generation_pending"
    <3>1. PICK n \in Jobs : OpenJob(c, n)
      BY <2>1, <2>2 DEF OneJob
    <3>2. {m \in Jobs : OpenJob(c, m)} = {n}
      BY <2>1, <3>1 DEF OneJob
    <3> QED
      BY <2>2, <3>2, FS_Singleton
  <2>3. CASE status[c] # "selected_generation_pending"
    <3>1. {m \in Jobs : OpenJob(c, m)} = {}
      BY <2>1, <2>3 DEF OneJob
    <3> QED
      BY <2>3, <3>1, FS_EmptySet
  <2> QED
    BY <2>2, <2>3
<1> QED
  BY <1>1, Invariance, PTL

(* One candidate of a digest is made, however often its buttons are used.  *)
THEOREM DigestsChooseOnce == Spec => []DigestChoosesOnce
<1>1. IInv => DigestChoosesOnce
  BY DEF IInv
<1> QED
  BY <1>1, Invariance, PTL

(* What was chosen stays open to its review, whatever is edited beside it  *)
(* and whatever is approved.                                               *)
THEOREM ChosenReachReview == Spec => []ChosenCanBeReviewed
<1>1. Init => ReviewInv
  BY ReviewStarts
<1>2. IInv /\ ReviewInv /\ [Next]_vars => ReviewInv'
  BY ReviewStays
<1>3. ReviewInv => ChosenCanBeReviewed
  BY DEF ReviewInv, Reviewable, Chosen, ChosenCanBeReviewed
<1> QED
  BY <1>1, <1>2, <1>3, Invariance, PTL DEF Spec
=============================================================================
