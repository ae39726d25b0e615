----------------------------- MODULE V2Enrichment -----------------------------
(***************************************************************************)
(* From a recorded Telegram revision to a claimed candidate: the due-work  *)
(* queue of v2_enrichment_attempts, its 30 second leases, and the one      *)
(* transaction that settles an attempt and converges its story             *)
(* (v2_workflow.py), driven by v2_cli.py's drain loop.                     *)
(*                                                                         *)
(* Workers are processes that drain the queue: newsbot-collect.service,    *)
(* and a person's collect command.  A lease can lapse under a worker that  *)
(* is still fetching, and finalize_enrichment reads its lease before its   *)
(* transaction begins: both reads and writes are steps of their own.       *)
(*                                                                         *)
(* Compaction, which a person runs, erases the payloads of revisions that  *)
(* are past their retention (7 days once superseded, 30 days otherwise)    *)
(* while the queue and its workers go on.                                  *)
(***************************************************************************)
EXTENDS Naturals, FiniteSets

CONSTANTS
  Posts,         \* Telegram messages (identities)
  Keys,          \* digests of canonical urls and article bodies
  Workers,
  MaxGeneration, \* a bound on the revisions of a post
  MaxRevisions,  \* a bound on the revisions of all posts
  MaxFaults,     \* a bound on workers that die or outlast their lease
  NoPost, NoWorker

ASSUME EnrichmentBounds ==
  {MaxGeneration, MaxRevisions, MaxFaults} \subseteq Nat
ASSUME NotThere == NoPost \notin Posts /\ NoWorker \notin Workers

Generations == 1..MaxGeneration
Attempts == Posts \X Generations \X {1, 2}   \* revision and attempt_number

VARIABLES
  head,         \* v2_revision_heads: the generation wanted, 0 before any
  attempt,      \* v2_enrichment_attempts; one that is done has its row of
                \* v2_article_snapshots
  disposition,  \* v2_observation_dispositions: the revision and its outcome
  candidate,    \* v2_candidates, their bindings and claims
  story,        \* v2_stories, each known by the post it was made for
  keyStory,     \* v2_story_keys
  worker,       \* a worker's memory
  old,          \* revisions whose retention is over
  erased,       \* revisions with payload '{}' and a tombstone
  compacted,    \* candidates whose draft and Codex bytes are digests
  fetched,      \* history: dispatches of a revision
  faults

vars == <<head, attempt, disposition, candidate, story, keyStory,
          worker, old, erased, compacted, fetched, faults>>
retention == <<old, erased, compacted>>

(* "flown" is leased with dispatched_at; "retry" is retryable with         *)
(* settled_at, whose 30 seconds are over when it is claimed; "released" is *)
(* retryable without; "done" is succeeded or terminal.                     *)
Statuses == {"none", "leased", "flown", "retry", "released", "interrupted",
             "done"}
NoAttempt == [status |-> "none", owner |-> NoWorker]

(* "unsafe" has a pending or ambiguous effect or a manual review; an "open"*)
(* one has none; a "delivered" one is in the sheet.                        *)
Fates == {"none", "open", "unsafe", "delivered"}
NoCandidate == [fate |-> "none", rev |-> 0, keys |-> {}]

Idle == [pc |-> "idle", post |-> NoPost, gen |-> 0, n |-> 0,
         result |-> "none", keys |-> {}, seen |-> 0]

EnrichmentTypeOK ==
  /\ head \in [Posts -> 0..MaxGeneration]
  /\ attempt \in [Attempts -> [status : Statuses,
                               owner : Workers \cup {NoWorker}]]
  /\ disposition \in [Posts -> [rev : 0..MaxGeneration,
                             outcome : {"none", "non_news", "news"}]]
  /\ candidate \in [Posts -> [fate : Fates, rev : 0..MaxGeneration,
                              keys : SUBSET Keys]]
  /\ story \in [Posts -> {"none", "open", "quarantined"}]
  /\ keyStory \in [Keys -> Posts \cup {NoPost}]
  /\ worker \in [Workers ->
       [pc : {"idle", "leased", "fetching", "settled"},
        post : Posts \cup {NoPost}, gen : 0..MaxGeneration, n : 0..2,
        result : {"none", "transient", "non_news", "news"},
        keys : SUBSET Keys, seen : 0..MaxGeneration]]
  /\ old \subseteq Posts \X Generations
  /\ erased \subseteq old
  /\ compacted \subseteq Posts
  /\ fetched \in [Posts \X Generations -> Nat]
  /\ faults \in Nat

Init ==
  /\ head = [p \in Posts |-> 0]
  /\ attempt = [a \in Attempts |-> NoAttempt]
  /\ disposition = [p \in Posts |-> [rev |-> 0, outcome |-> "none"]]
  /\ candidate = [p \in Posts |-> NoCandidate]
  /\ story = [p \in Posts |-> "none"]
  /\ keyStory = [k \in Keys |-> NoPost]
  /\ worker = [w \in Workers |-> Idle]
  /\ old = {} /\ erased = {} /\ compacted = {}
  /\ fetched = [r \in Posts \X Generations |-> 0]
  /\ faults = 0

-----------------------------------------------------------------------------
(* Collection: a newer revision of a post becomes its head.                *)

Revise(p) ==
  /\ head[p] < MaxGeneration
  /\ Cardinality({r \in Posts \X Generations : r[2] <= head[r[1]]})
       < MaxRevisions
  /\ head' = [head EXCEPT ![p] = @ + 1]
  /\ UNCHANGED <<retention, attempt, disposition, candidate, story, keyStory,
                 worker, fetched, faults>>

-----------------------------------------------------------------------------
(* The queue *)

Status(p, g, n) == attempt[<<p, g, n>>].status
Leased(a) == attempt[a].status \in {"leased", "flown"}
AttemptOf(w) == <<worker[w].post, worker[w].gen, worker[w].n>>
Holds(w) == Leased(AttemptOf(w)) /\ attempt[AttemptOf(w)].owner = w

(* A lease whose 30 seconds are over is given up by the next claim or the  *)
(* next run: one that was not dispatched is released, else it is consumed. *)
\* Mutants: a dispatched attempt is released like any other, and it is left
\* to its worker.
LapseReleases(a) ==
  attempt' = [attempt EXCEPT ![a] = [status |-> "released",
                                     owner |-> NoWorker]]

LapseUndispatched(a) ==
  attempt' = [attempt EXCEPT ![a] =
     IF @.status = "leased" THEN [status |-> "released", owner |-> NoWorker]
                            ELSE @]
Lapse(a) ==
  attempt' = [attempt EXCEPT ![a] =
     [status |-> IF @.status = "leased" THEN "released" ELSE "interrupted",
      owner |-> NoWorker]]

(* The worker may be gone, or slower than its lease.                       *)
Expire(a) ==
  /\ Leased(a) /\ Lapse(a)
  /\ IF \E w \in Workers : AttemptOf(w) = a /\ Holds(w)
     THEN faults < MaxFaults /\ faults' = faults + 1
     ELSE UNCHANGED faults
  /\ UNCHANGED <<retention, head, disposition, candidate, story, keyStory,
                 worker, fetched>>

Claimed(p) == candidate[p].fate # "none"

(* The attempt number a claim of the post's head takes, 0 when not due.    *)
(* Only the latest attempt counts; there is no third.                      *)
NextAttempt(p) ==
  LET g == head[p]
  IN  IF g = 0 THEN 0
      ELSE IF Status(p, g, 2) # "none" THEN 0
      ELSE IF Status(p, g, 1) \in {"none", "released"} THEN 1
      ELSE IF Status(p, g, 1) \in {"retry", "interrupted"} THEN 2
      ELSE 0
Due(p) == NextAttempt(p) # 0 /\ ~Claimed(p)

(* Which of several due posts is first depends on their edits and is left  *)
(* open.                                                                   *)
ClaimWork(w) ==
  /\ worker[w].pc = "idle"
  /\ \E p \in Posts :
       /\ Due(p)
       /\ attempt' = [attempt EXCEPT ![<<p, head[p], NextAttempt(p)>>] =
                        [status |-> "leased", owner |-> w]]
       /\ worker' = [worker EXCEPT ![w] = [Idle EXCEPT !.pc = "leased",
                       !.post = p, !.gen = head[p], !.n = NextAttempt(p)]]
  /\ UNCHANGED <<retention, head, disposition, candidate, story, keyStory,
                 fetched, faults>>

(* A post older than a day is judged by its date alone; one with a         *)
(* revision past its retention is older.                                   *)
Stale(p) == \E g \in Generations : <<p, g>> \in old

(* Before it fetches, the worker marks its lease dispatched; a lease that  *)
(* was lost meanwhile ends the work.                                       *)
Dispatch(w) ==
  LET a == AttemptOf(w)
  IN  /\ worker[w].pc = "leased" /\ ~Stale(worker[w].post)
      /\ IF Holds(w) /\ attempt[a].status = "leased"
         THEN /\ attempt' = [attempt EXCEPT ![a].status = "flown"]
              /\ worker' = [worker EXCEPT ![w].pc = "fetching"]
              /\ fetched' = [fetched EXCEPT ![<<a[1], a[2]>>] = @ + 1]
         ELSE /\ worker' = [worker EXCEPT ![w] = Idle]
              /\ UNCHANGED <<attempt, fetched>>
      /\ UNCHANGED <<retention, head, disposition, candidate, story, keyStory,
                     faults>>

-----------------------------------------------------------------------------
(* Settlement *)

(* What the policy makes of a post.  Without an eligible url, or more than *)
(* a day old, it is settled without the network.  News, an article that    *)
(* stays unavailable included, has at least the key of its url; a transient*)
(* failure settles the first attempt for a retry.                          *)
Judgements(w) ==
  {<<"non_news", {}>>} \cup
  (IF worker[w].pc = "leased" THEN {}
   ELSE {<<"news", ks>> : ks \in (SUBSET Keys) \ {{}}} \cup
        (IF worker[w].n = 1 THEN {<<"transient", {}>>} ELSE {}))

(* The lease and the head are read before the transaction begins.          *)
CheckLease(w) ==
  /\ worker[w].pc \in {"leased", "fetching"}
  /\ IF Holds(w)
     THEN \E j \in Judgements(w) :
            worker' = [worker EXCEPT ![w].pc = "settled", ![w].result = j[1],
                         ![w].keys = j[2], ![w].seen = head[worker[w].post]]
     ELSE worker' = [worker EXCEPT ![w] = Idle]
  /\ UNCHANGED <<retention, head, attempt, disposition, candidate, story,
                 keyStory, fetched, faults>>

SettleTransient(w) ==
  /\ worker[w].pc = "settled" /\ worker[w].result = "transient"
  /\ attempt' = [attempt EXCEPT ![AttemptOf(w)] =
                   [status |-> "retry", owner |-> NoWorker]]
  /\ worker' = [worker EXCEPT ![w] = Idle]
  /\ UNCHANGED <<retention, head, disposition, candidate, story, keyStory,
                 fetched, faults>>

\* Mutant: only the first of the keys is looked up.
MatchFirstKey(ks) == {keyStory[CHOOSE k \in ks : TRUE]} \ {NoPost}

Matches(ks) == {keyStory[k] : k \in ks} \ {NoPost}

(* Several stories, or one that is quarantined or has an effect under way  *)
(* or a review, are a conflict: all of them are quarantined and held.  A   *)
(* story always has its candidate's claim, so two stories are never merged.*)
Conflicting(S) ==
  \/ Cardinality(S) > 1
  \/ \E s \in S : story[s] = "quarantined" \/ candidate[s].fate = "unsafe"

Alias(ks, s) ==
  keyStory' = [k \in Keys |-> IF k \in ks /\ keyStory[k] = NoPost
                              THEN s ELSE keyStory[k]]

\* Mutant: a candidate that exists is bound again.
BindAgain(w) == TRUE
Bindable(w) == ~Claimed(worker[w].post)

(* What finalize_enrichment makes of news on the head it saw.              *)
Converge(w) ==
  LET p == worker[w].post  ks == worker[w].keys  S == Matches(ks)
  IN  \/ /\ S # {} /\ Conflicting(S)
         /\ story' = [q \in Posts |->
                        IF q \in S THEN "quarantined" ELSE story[q]]
         /\ UNCHANGED <<candidate, keyStory>>
      \/ /\ S # {} /\ ~Conflicting(S)
         /\ Alias(ks, CHOOSE s \in S : TRUE)
         /\ UNCHANGED <<story, candidate>>
      \/ /\ S = {} /\ Alias(ks, p)
         /\ story' = [story EXCEPT ![p] = "open"]
         /\ candidate' = [candidate EXCEPT ![p] =
              [fate |-> "open", rev |-> worker[w].gen, keys |-> ks]]

(* The transaction raises, and everything of it is undone, when the        *)
(* attempt has its snapshot or the post's candidate is bound already.      *)
Raises(w) ==
  \/ attempt[AttemptOf(w)].status = "done"
  \/ /\ worker[w].result = "news" /\ worker[w].seen = worker[w].gen
     /\ Matches(worker[w].keys) = {} /\ ~Bindable(w)

Finalize(w) ==
  LET p == worker[w].post  g == worker[w].gen
      current == worker[w].seen = g
  IN  /\ worker[w].pc = "settled" /\ worker[w].result \in {"non_news", "news"}
      /\ ~Raises(w)
      /\ attempt' = [attempt EXCEPT ![AttemptOf(w)] =
                       [status |-> "done", owner |-> NoWorker]]
      /\ disposition' =
           IF current
           THEN [disposition EXCEPT ![p] =
                   [rev |-> g, outcome |-> worker[w].result]]
           ELSE disposition
      /\ IF current /\ worker[w].result = "news" THEN Converge(w)
         ELSE UNCHANGED <<candidate, story, keyStory>>
      /\ worker' = [worker EXCEPT ![w] = Idle]
      /\ UNCHANGED <<retention, head, fetched, faults>>

FinalizeRaises(w) ==
  /\ worker[w].pc = "settled" /\ worker[w].result \in {"non_news", "news"}
  /\ Raises(w)
  /\ worker' = [worker EXCEPT ![w] = Idle]
  /\ UNCHANGED <<retention, head, attempt, disposition, candidate, story,
                 keyStory, fetched, faults>>

Die(w) ==
  /\ worker[w].pc # "idle" /\ faults < MaxFaults
  /\ faults' = faults + 1
  /\ worker' = [worker EXCEPT ![w] = Idle]
  /\ UNCHANGED <<retention, head, attempt, disposition, candidate, story,
                 keyStory, fetched>>

-----------------------------------------------------------------------------
(* Delivery, seen from here: an eligible candidate has an effect under way *)
(* or a review; the effect may be confirmed, the last one in the sheet.    *)

Deliver(p) ==
  /\ \/ /\ candidate[p].fate = "open" /\ story[p] = "open"
        /\ candidate' = [candidate EXCEPT ![p].fate = "unsafe"]
     \/ /\ candidate[p].fate = "unsafe"
        /\ \E f \in {"open", "delivered"} :
             candidate' = [candidate EXCEPT ![p].fate = f]
  /\ UNCHANGED <<retention, head, attempt, disposition, story, keyStory,
                 worker, fetched, faults>>

-----------------------------------------------------------------------------

(* Compaction *)

(* A revision's retention ends.  No worker holds one for that long: a run  *)
(* of the service is stopped after 210 seconds.                            *)
Age(r) ==
  /\ r[2] <= head[r[1]] /\ r \notin old
  /\ \A w \in Workers : worker[w].pc # "idle" => worker[w].post # r[1]
  /\ old' = old \cup {r}
  /\ UNCHANGED <<head, attempt, disposition, candidate, story, keyStory,
                 worker, erased, compacted, fetched, faults>>

Snapshots(r) == {n \in {1, 2} : Status(r[1], r[2], n) = "done"}
BoundTo(r) == Claimed(r[1]) /\ candidate[r[1]].rev = r[2]

(* What the three queries select: the evidence of a delivered candidate, a *)
(* head that is no news, and what is neither a head nor evidence.          *)
Hot == old \ erased
Delivered == {r \in Hot : BoundTo(r) /\ candidate[r[1]].fate = "delivered"}
Terminal ==
  {r \in Hot : /\ r[2] = head[r[1]] /\ ~Claimed(r[1]) /\ Snapshots(r) # {}
               /\ disposition[r[1]] = [rev |-> r[2], outcome |-> "non_news"]}
\* Mutant: a superseded revision is erased though a candidate rests on it.
SupersededThoughBound == {r \in Hot : r[2] # head[r[1]]}
Superseded == {r \in Hot : r[2] # head[r[1]] /\ ~BoundTo(r)}
Erasable == Delivered \cup Terminal \cup Superseded

(* The candidates whose draft, Codex request and buttons may go.           *)
Finished == {p \in Posts \ compacted : /\ candidate[p].fate = "delivered"
                                       /\ <<p, candidate[p].rev>> \in old}

(* The assertions before and after the erasing: whatever is not delivered  *)
(* keeps its evidence and its bytes.                                       *)
Intact(gone, digested) ==
  \A p \in Posts : candidate[p].fate \in {"open", "unsafe"} =>
    <<p, candidate[p].rev>> \notin gone /\ p \notin digested

(* The payload of a revision becomes '{}' beside a tombstone; of its post  *)
(* and its snapshot the identity, the hashes and the dates stay.           *)
Erase(S) == erased \cup S

(* The query lists a terminal revision once for each of its snapshots, and *)
(* its second update changes no row: the whole batch is undone.            *)
ListedOnce(S) == \A r \in S \cap Terminal : Cardinality(Snapshots(r)) = 1

(* One transaction erases a batch, its limit and the two retentions        *)
(* deciding which.  The details of confirmed effects, which become digests *)
(* with it, are left out.                                                  *)
Compact ==
  \E S \in SUBSET Erasable, D \in SUBSET Finished :
    /\ S \cup D # {} /\ ListedOnce(S)
    /\ Intact(erased, compacted)
    /\ erased' = Erase(S)
    /\ compacted' = compacted \cup D
    /\ Intact(erased', compacted')
    /\ UNCHANGED <<head, attempt, disposition, candidate, story, keyStory,
                   worker, old, fetched, faults>>

-----------------------------------------------------------------------------

WorkerStep(w) ==
  \/ ClaimWork(w) \/ Dispatch(w) \/ CheckLease(w)
  \/ SettleTransient(w) \/ Finalize(w) \/ FinalizeRaises(w)

Next ==
  \/ \E p \in Posts : Revise(p) \/ Deliver(p)
  \/ \E a \in Attempts : Expire(a)
  \/ \E r \in Posts \X Generations : Age(r)
  \/ Compact
  \/ \E w \in Workers : WorkerStep(w) \/ Die(w)

Spec == Init /\ [][Next]_vars

(* The timer starts a worker again and again, each step of it ends, and a  *)
(* lease lapses with time alone.                                           *)
FairSpec == /\ Spec
            /\ \A w \in Workers : WF_vars(WorkerStep(w))
            /\ \A a \in Attempts : WF_vars(Expire(a))

-----------------------------------------------------------------------------
(* Properties *)

Eligible(p) == Claimed(p) /\ story[p] = "open"

(* Two candidates that may still go out never rest on a common url or body *)
(* (_converge_stories), whatever workers and edits interleave.             *)
OneCandidatePerStory ==
  \A p, q \in Posts :
    p # q /\ Eligible(p) /\ Eligible(q)
      => candidate[p].keys \cap candidate[q].keys = {}

(* "Edits received after a candidate claim are retained for audit but do   *)
(* not replace, re-evaluate, or resend the approved evidence"              *)
(* (operations.md:57, claim_enrichment, _bind_candidate).                  *)
ClaimedEvidenceIsFixed ==
  [][\A p \in Posts : Claimed(p) =>
       /\ candidate'[p].rev = candidate[p].rev
       /\ candidate'[p].keys = candidate[p].keys
       /\ \A g \in Generations, n \in {1, 2} :
            Status(p, g, n) \in {"none", "released", "retry", "interrupted"}
              => attempt'[<<p, g, n>>].status # "leased"]_vars

(* A revision that a worker, an approval or a delivery may still read      *)
(* keeps its payload, and none enters the plan, whose assertion would then *)
(* refuse every later compaction too (compact,                             *)
(* _assert_compaction_invariants).                                         *)
Needed(r) ==
  \/ BoundTo(r) /\ candidate[r[1]].fate # "delivered"
  \/ r[2] = head[r[1]] /\ Due(r[1])
  \/ \E w \in Workers, n \in {1, 2} :
       r[2] = head[r[1]] /\ AttemptOf(w) = <<r[1], r[2], n>> /\ Holds(w)
RetentionSparesWork == \A r \in erased \cup Erasable : ~Needed(r)

(* A revision is fetched at most twice, however its workers die and lapse  *)
(* (claim_enrichment, mark_enrichment_dispatched).                         *)
FetchedTwiceAtMost == \A r \in Posts \X Generations : fetched[r] <= 2

(* The work on a bounded number of revisions ends: every post is claimed,  *)
(* disposed of or given up, and no attempt is retried without end          *)
(* (_drain_enrichment_queue, reconcile_expired_enrichment_leases).         *)
EnrichmentEnds ==
  <>[](/\ \A p \in Posts : ~Due(p)
       /\ \A a \in Attempts : ~Leased(a))

(* "every untyped failure become manual_review" (operations.md:52-54): a   *)
(* post is not dropped without a disposition of its head.                  *)
NoPostIsForgotten ==
  \A p \in Posts :
    \/ head[p] = 0 \/ Claimed(p) \/ Due(p)
    \/ disposition[p].rev = head[p]
    \/ \E n \in {1, 2} : Status(p, head[p], n) \in {"leased", "flown"}

=============================================================================
