-------------------------- MODULE V2EnrichmentProofs --------------------------
(***************************************************************************)
(* Theorems about V2Enrichment, for any posts, keys and workers and any    *)
(* number of revisions and faults.                                         *)
(***************************************************************************)
EXTENDS V2Enrichment, TLAPS

Active(w) == worker[w].pc # "idle"

(* A worker that is busy has an attempt, which was once leased. *)
WorkerHas(w) ==
  /\ ~Active(w) => worker[w] = Idle
  /\ Active(w) => /\ worker[w].post \in Posts /\ worker[w].gen \in Generations
                  /\ worker[w].n \in {1, 2}
                  /\ attempt[AttemptOf(w)].status # "none"

Typed == /\ EnrichmentTypeOK
         /\ \A w \in Workers : WorkerHas(w)
         /\ \A r \in old : r[2] <= head[r[1]]

(* The keys of a candidate lead to its own story. *)
KeysOwned == \A p \in Posts : Claimed(p) => \A k \in candidate[p].keys : keyStory[k] = p

(* Each fetch of a revision has used up one of its two attempts. *)
UsedUp == {"flown", "retry", "interrupted", "done"}
Used(p, g, n) == IF Status(p, g, n) \in UsedUp THEN 1 ELSE 0
Counted == \A p \in Posts, g \in Generations :
             fetched[<<p, g>>] <= Used(p, g, 1) + Used(p, g, 2)

(* What a worker does with a post that has a revision past its retention:  *)
(* it never fetches, never binds, and is alone with the number of its      *)
(* attempt.                                                                *)
StaleWork(w) ==
  Active(w) /\ Stale(worker[w].post) =>
    LET p == worker[w].post  g == worker[w].gen
    IN  /\ \/ worker[w].pc = "leased"
           \/ worker[w].pc = "settled" /\ worker[w].result = "non_news"
        /\ ~Claimed(p)
        /\ worker[w].n = 2 => Status(p, g, 1) \in {"retry", "interrupted"}
        /\ worker[w].n = 1 => /\ Status(p, g, 2) = "none"
                              /\ Status(p, g, 1) \in {"leased", "released", "done"}

(* What was erased is not evidence that may still be sent, and is no work. *)
Gone(r) == /\ BoundTo(r) => candidate[r[1]].fate = "delivered"
           /\ \/ r[2] < head[r[1]] \/ Claimed(r[1])
              \/ Status(r[1], r[2], 1) = "done" \/ Status(r[1], r[2], 2) = "done"

IInv == /\ Typed /\ KeysOwned /\ Counted
        /\ \A w \in Workers : StaleWork(w)
        /\ \A r \in erased : Gone(r)

-----------------------------------------------------------------------------
(* How a step may change the tables and a worker *)

Settles(w, p, g, n) == /\ worker[w].pc = "settled" /\ worker[w].post = p
                       /\ worker[w].gen = g /\ worker[w].n = n
AttemptMove(p, g, n) ==
  \/ Status(p, g, n)' = Status(p, g, n)
  \/ Status(p, g, n) = "leased" /\ Status(p, g, n)' = "released"
  \/ Status(p, g, n) = "flown" /\ Status(p, g, n)' = "interrupted"
  \/ /\ Status(p, g, n)' = "leased" /\ ~Claimed(p)
     /\ g = head[p] /\ n = NextAttempt(p)
  \/ Status(p, g, n) = "leased" /\ Status(p, g, n)' = "flown" /\ ~Stale(p)
  \/ /\ Status(p, g, n)' = "retry"
     /\ \E w \in Workers : Settles(w, p, g, n) /\ worker[w].result = "transient"
  \/ /\ Status(p, g, n)' = "done"
     /\ \E w \in Workers : Settles(w, p, g, n)
FetchMove(p, g) ==
  \/ fetched'[<<p, g>>] = fetched[<<p, g>>]
  \/ /\ fetched'[<<p, g>>] = fetched[<<p, g>>] + 1
     /\ \E n \in {1, 2} : Status(p, g, n) = "leased" /\ Status(p, g, n)' = "flown"

SamePlace(w) == /\ worker'[w].post = worker[w].post /\ worker'[w].gen = worker[w].gen
                /\ worker'[w].n = worker[w].n
WorkerMove(w) ==
  \/ worker'[w] = worker[w]
  \/ worker'[w] = Idle
  \/ /\ worker'[w].pc = "leased" /\ worker'[w].post \in Posts
     /\ Due(worker'[w].post) /\ worker'[w].gen = head[worker'[w].post]
     /\ worker'[w].n = NextAttempt(worker'[w].post)
     /\ attempt'[<<worker'[w].post, worker'[w].gen, worker'[w].n>>].status = "leased"
  \/ /\ Active(w) /\ SamePlace(w)
     /\ \/ worker'[w].pc = "fetching" /\ ~Stale(worker[w].post)
        \/ /\ worker'[w].pc = "settled"
           /\ worker[w].pc = "leased" => worker'[w].result = "non_news"
           /\ worker[w].pc \in {"leased", "fetching"}

CandidateMove(p) ==
  \/ candidate'[p] = candidate[p]
  \/ /\ candidate[p].fate \in {"open", "unsafe"} /\ candidate'[p].fate # "none"
     /\ candidate'[p].rev = candidate[p].rev /\ candidate'[p].keys = candidate[p].keys
  \/ /\ ~Claimed(p)
     /\ \E w \in Workers :
          /\ worker[w].pc = "settled" /\ worker[w].result = "news" /\ worker[w].post = p
     /\ \A k \in candidate'[p].keys : keyStory'[k] = p
KeyMove(k) == keyStory'[k] = keyStory[k] \/ keyStory[k] = NoPost

(* A revision grows old while no worker has its post, and is erased while  *)
(* nothing else changes.                                                   *)
OldMove == /\ old \subseteq old'
           /\ \A r \in old' \ old :
                /\ r[2] <= head[r[1]] /\ worker' = worker
                /\ \A w \in Workers : Active(w) => worker[w].post # r[1]
ErasedMove == /\ erased \subseteq erased'
              /\ \A r \in erased' \ erased :
                   /\ r \in Erasable
                   /\ UNCHANGED <<head, attempt, candidate>>

Moves == /\ \A p \in Posts, g \in Generations :
              FetchMove(p, g) /\ \A n \in {1, 2} : AttemptMove(p, g, n)
         /\ \A w \in Workers : WorkerMove(w)
         /\ \A p \in Posts : CandidateMove(p) /\ head'[p] >= head[p]
         /\ \A k \in Keys : KeyMove(k)
         /\ OldMove /\ ErasedMove

LEMMA IInvStarts == Init => IInv
<1> SUFFICES ASSUME Init PROVE IInv
  OBVIOUS
<1>1. Typed
  BY EnrichmentBounds DEF Init, Typed, EnrichmentTypeOK, WorkerHas, Active, Idle, NoAttempt,
     NoCandidate, Statuses, Fates
<1>2. KeysOwned
  BY DEF Init, KeysOwned, Claimed, NoCandidate
<1>3. Counted
  BY DEF Init, Counted, Used
<1>4. \A w \in Workers : StaleWork(w)
  BY DEF Init, StaleWork, Active, Idle
<1> QED
  BY <1>1, <1>2, <1>3, <1>4 DEF Init, IInv

-----------------------------------------------------------------------------
(* Such a step keeps the invariant *)

LEMMA KeysStay ==
  ASSUME IInv, EnrichmentTypeOK', Moves
  PROVE  KeysOwned'
<1> SUFFICES ASSUME NEW p \in Posts, Claimed(p)', NEW k \in candidate'[p].keys
             PROVE  keyStory'[k] = p
  BY DEF KeysOwned
<1>1. k \in Keys /\ CandidateMove(p) /\ KeyMove(k)
  BY DEF EnrichmentTypeOK, Moves
<1>2. keyStory[k] = p => keyStory'[k] = p
  BY <1>1, NotThere DEF KeyMove
<1>3. Claimed(p) => \A l \in candidate[p].keys : keyStory[l] = p
  BY DEF IInv, KeysOwned
<1> QED
  BY <1>1, <1>2, <1>3 DEF CandidateMove, Claimed

(* An attempt that is used up stays so. *)
LEMMA UsedStays ==
  ASSUME IInv, Moves, NEW p \in Posts, NEW g \in Generations, NEW n \in {1, 2},
         Status(p, g, n) \in UsedUp
  PROVE  Status(p, g, n)' \in UsedUp
<1>1. AttemptMove(p, g, n)
  BY DEF Moves
<1>2. ~(g = head[p] /\ n = NextAttempt(p))
  BY DEF NextAttempt, UsedUp
<1> QED
  BY <1>1, <1>2 DEF AttemptMove, UsedUp

LEMMA CountStays ==
  ASSUME IInv, EnrichmentTypeOK', Moves
  PROVE  Counted'
<1> SUFFICES ASSUME NEW p \in Posts, NEW g \in Generations
             PROVE  fetched'[<<p, g>>] <= Used(p, g, 1)' + Used(p, g, 2)'
  BY DEF Counted
<1>1. /\ fetched[<<p, g>>] \in Nat /\ fetched'[<<p, g>>] \in Nat
      /\ fetched[<<p, g>>] <= Used(p, g, 1) + Used(p, g, 2)
  BY DEF IInv, Typed, EnrichmentTypeOK, Counted
<1>2. \A n \in {1, 2} : Used(p, g, n) <= Used(p, g, n)'
  <2> SUFFICES ASSUME NEW n \in {1, 2} PROVE Used(p, g, n) <= Used(p, g, n)'
    OBVIOUS
  <2>1. Status(p, g, n) \in UsedUp => Status(p, g, n)' \in UsedUp
    BY UsedStays
  <2> QED
    BY <2>1 DEF Used
<1>3. \A n \in {1, 2} : Used(p, g, n) \in {0, 1} /\ Used(p, g, n)' \in {0, 1}
  BY DEF Used
<1>4. ASSUME NEW n \in {1, 2}, Status(p, g, n) = "leased", Status(p, g, n)' = "flown"
      PROVE  Used(p, g, n) = 0 /\ Used(p, g, n)' = 1
  BY <1>4 DEF Used, UsedUp
<1>5. FetchMove(p, g)
  BY DEF Moves
<1> QED
  BY <1>1, <1>2, <1>3, <1>4, <1>5 DEF FetchMove

LEMMA WorkersStay ==
  ASSUME IInv, Moves, NEW w \in Workers
  PROVE  WorkerHas(w)'
<1>1. WorkerMove(w) /\ WorkerHas(w)
  BY DEF Moves, IInv, Typed
<1>2. ASSUME NEW p \in Posts, NEW g \in Generations, NEW n \in {1, 2},
             Status(p, g, n) # "none"
      PROVE  Status(p, g, n)' # "none"
  BY <1>2 DEF Moves, AttemptMove
<1>3. CASE worker'[w] = worker[w]
  BY <1>1, <1>2, <1>3 DEF WorkerHas, Active, AttemptOf, Status
<1>4. CASE worker'[w] = Idle
  BY <1>4 DEF WorkerHas, Active, Idle
<1>5. CASE /\ worker'[w].pc = "leased" /\ worker'[w].post \in Posts
           /\ Due(worker'[w].post) /\ worker'[w].gen = head[worker'[w].post]
           /\ worker'[w].n = NextAttempt(worker'[w].post)
           /\ attempt'[<<worker'[w].post, worker'[w].gen, worker'[w].n>>].status = "leased"
  <2> DEFINE p == worker'[w].post
  <2>1. head[p] \in 0..MaxGeneration /\ head[p] # 0 /\ NextAttempt(p) \in {1, 2}
    BY <1>5 DEF IInv, Typed, EnrichmentTypeOK, Due, NextAttempt
  <2>2. worker'[w].gen \in Generations
    BY <1>5, <2>1 DEF Generations
  <2> QED
    BY <1>5, <2>1, <2>2 DEF WorkerHas, Active, AttemptOf, Status
<1>6. CASE Active(w) /\ SamePlace(w) /\ worker'[w].pc \in {"fetching", "settled"}
  BY <1>1, <1>2, <1>6 DEF WorkerHas, Active, AttemptOf, Status, SamePlace
<1> QED
  BY <1>1, <1>3, <1>4, <1>5, <1>6 DEF WorkerMove

(* No worker fetches for a stale post, nor settles it as news. *)
LEMMA StaleSettles ==
  ASSUME IInv, NEW w \in Workers, worker[w].pc = "settled", Stale(worker[w].post)
  PROVE  worker[w].result = "non_news"
  BY DEF IInv, StaleWork, Active

(* A stale post is not bound any more. *)
LEMMA StaleIsNotBound ==
  ASSUME IInv, Moves, NEW p \in Posts, Stale(p)
  PROVE  /\ Claimed(p)' <=> Claimed(p)
         /\ Claimed(p) => candidate'[p].rev = candidate[p].rev
<1>1. CandidateMove(p)
  BY DEF Moves
<1>2. \A w \in Workers : worker[w].pc = "settled" /\ worker[w].post = p
                           => worker[w].result = "non_news"
  BY StaleSettles
<1> QED
  BY <1>1, <1>2 DEF CandidateMove, Claimed

(* The attempts of a stale post are claimed, given up and settled only. *)
LEMMA StaleMoves ==
  ASSUME IInv, Moves, NEW p \in Posts, NEW g \in Generations, NEW n \in {1, 2}, Stale(p)
  PROVE  \/ Status(p, g, n)' = Status(p, g, n)
         \/ Status(p, g, n) = "leased" /\ Status(p, g, n)' = "released"
         \/ Status(p, g, n) = "flown" /\ Status(p, g, n)' = "interrupted"
         \/ /\ Status(p, g, n)' = "leased" /\ g = head[p] /\ n = NextAttempt(p)
         \/ /\ Status(p, g, n)' = "done"
            /\ \E w \in Workers : Settles(w, p, g, n)
<1>1. AttemptMove(p, g, n)
  BY DEF Moves
<1>2. \A w \in Workers : Settles(w, p, g, n) => worker[w].result = "non_news"
  BY StaleSettles DEF Settles
<1> QED
  BY <1>1, <1>2 DEF AttemptMove

(* Which attempts the workers of a stale post can be at. *)
LEMMA StalePlaces ==
  ASSUME IInv, NEW w \in Workers, NEW p \in Posts, NEW g \in Generations, NEW n \in {1, 2},
         Stale(p), Settles(w, p, g, n)
  PROVE  /\ n = 1 => /\ Status(p, g, 1) \in {"leased", "released", "done"}
                     /\ Status(p, g, 2) = "none"
         /\ n = 2 => /\ Status(p, g, 1) \in {"retry", "interrupted"}
                     /\ Status(p, g, 2) # "none"
<1>1. Active(w) /\ StaleWork(w) /\ WorkerHas(w)
  BY DEF IInv, Typed, Settles, Active
<1> QED
  BY <1>1 DEF StaleWork, WorkerHas, Settles, AttemptOf, Status

LEMMA StaleStays ==
  ASSUME IInv, Moves, NEW w \in Workers
  PROVE  StaleWork(w)'
<1> DEFINE p == worker'[w].post
           g == worker'[w].gen
           n == worker'[w].n
<1> SUFFICES ASSUME Active(w)', Stale(worker[w].post)'
             PROVE  /\ \/ worker'[w].pc = "leased"
                       \/ worker'[w].pc = "settled" /\ worker'[w].result = "non_news"
                    /\ candidate'[p].fate = "none"
                    /\ n = 2 => attempt'[<<p, g, 1>>].status \in {"retry", "interrupted"}
                    /\ n = 1 => /\ attempt'[<<p, g, 2>>].status = "none"
                                /\ attempt'[<<p, g, 1>>].status
                                     \in {"leased", "released", "done"}
  BY DEF StaleWork, Claimed, Status
<1>1. WorkerHas(w)' /\ WorkerMove(w) /\ WorkerHas(w) /\ StaleWork(w)
  BY WorkersStay DEF Moves, IInv, Typed
<1>2. p \in Posts /\ g \in Generations /\ n \in {1, 2}
  BY <1>1 DEF WorkerHas
<1>3. Stale(p)
  <2>1. PICK h \in Generations : <<p, h>> \in old'
    BY DEF Stale
  <2>2. <<p, h>> \in old
    <3> SUFFICES ASSUME <<p, h>> \in old' \ old PROVE FALSE
      BY <2>1
    <3>1. worker' = worker /\ (Active(w) => worker[w].post # <<p, h>>[1])
      BY DEF Moves, OldMove
    <3> QED
      BY <3>1 DEF Active
  <2> QED
    BY <2>2 DEF Stale
<1>4. candidate'[p].fate = "none" <=> ~Claimed(p)
  <2> SUFFICES ASSUME NEW q \in Posts, Stale(q)
               PROVE  candidate'[q].fate = "none" <=> ~Claimed(q)
    BY <1>2, <1>3
  <2> QED
    BY StaleIsNotBound DEF Claimed
<1>5. \A m \in {1, 2} :
        LET new == attempt'[<<p, g, m>>].status
        IN  \/ new = Status(p, g, m)
            \/ Status(p, g, m) = "leased" /\ new = "released"
            \/ Status(p, g, m) = "flown" /\ new = "interrupted"
            \/ new = "leased" /\ g = head[p] /\ m = NextAttempt(p)
            \/ new = "done" /\ \E v \in Workers : Settles(v, p, g, m)
  <2> SUFFICES ASSUME NEW q \in Posts, NEW f \in Generations, Stale(q), NEW m \in {1, 2}
               PROVE  LET new == attempt'[<<q, f, m>>].status
                      IN  \/ new = Status(q, f, m)
                          \/ Status(q, f, m) = "leased" /\ new = "released"
                          \/ Status(q, f, m) = "flown" /\ new = "interrupted"
                          \/ new = "leased" /\ f = head[q] /\ m = NextAttempt(q)
                          \/ new = "done" /\ \E v \in Workers : Settles(v, q, f, m)
    BY <1>2, <1>3
  <2> QED
    BY StaleMoves DEF Status
<1>6. \A v \in Workers, m \in {1, 2} : Settles(v, p, g, m) =>
        /\ m = 1 => /\ Status(p, g, 1) \in {"leased", "released", "done"}
                    /\ Status(p, g, 2) = "none"
        /\ m = 2 => /\ Status(p, g, 1) \in {"retry", "interrupted"}
                    /\ Status(p, g, 2) # "none"
  BY <1>2, <1>3, StalePlaces
<1>7. g = head[p] => /\ NextAttempt(p) = 1 => /\ Status(p, g, 1) \in {"none", "released"}
                                              /\ Status(p, g, 2) = "none"
                     /\ NextAttempt(p) = 2 => /\ Status(p, g, 1) \in {"retry", "interrupted"}
                                              /\ Status(p, g, 2) = "none"
  BY DEF NextAttempt
<1> HIDE DEF p, g, n
<1>8. ASSUME /\ ~Claimed(p)
             /\ n = 2 => Status(p, g, 1) \in {"retry", "interrupted"}
             /\ n = 1 => /\ Status(p, g, 2) = "none"
                         /\ Status(p, g, 1) \in {"leased", "released", "done"}
      PROVE  /\ n = 2 => attempt'[<<p, g, 1>>].status \in {"retry", "interrupted"}
             /\ n = 1 => /\ attempt'[<<p, g, 2>>].status = "none"
                         /\ attempt'[<<p, g, 1>>].status \in {"leased", "released", "done"}
  <2>1. CASE n = 2
    BY <1>5, <1>6, <1>7, <1>8, <2>1
  <2>2. CASE n = 1
    BY <1>5, <1>6, <1>7, <1>8, <2>2
  <2> QED
    BY <1>2, <2>1, <2>2
<1>9. CASE /\ Active(w) /\ SamePlace(w)
           /\ worker'[w].pc = "settled" /\ (worker[w].pc = "leased" => worker'[w].result = "non_news")
           /\ worker[w].pc \in {"leased", "fetching"}
  <2>1. p = worker[w].post /\ g = worker[w].gen /\ n = worker[w].n
    BY <1>9 DEF SamePlace, p, g, n
  <2>2. worker[w].pc = "leased"
    BY <1>1, <1>3, <1>9, <2>1 DEF StaleWork
  <2> QED
    BY <1>1, <1>3, <1>4, <1>8, <1>9, <2>1, <2>2 DEF StaleWork
<1>10. CASE worker'[w] = worker[w]
  <2>1. p = worker[w].post /\ g = worker[w].gen /\ n = worker[w].n /\ Active(w)
    BY <1>10 DEF Active, p, g, n
  <2> QED
    BY <1>1, <1>3, <1>4, <1>8, <1>10, <2>1 DEF StaleWork
<1>11. CASE /\ worker'[w].pc = "leased" /\ Due(p) /\ g = head[p] /\ n = NextAttempt(p)
            /\ attempt'[<<p, g, n>>].status = "leased"
  <2>1. ~Claimed(p)
    BY <1>11 DEF Due
  <2>2. CASE n = 2
    <3>1. attempt'[<<p, g, 1>>].status \in {"retry", "interrupted"}
      BY <1>5, <1>6, <1>7, <1>11, <2>2
    <3> QED
      BY <1>4, <1>11, <2>1, <2>2, <3>1
  <2>3. CASE n = 1
    <3>1. attempt'[<<p, g, 2>>].status = "none"
      BY <1>5, <1>6, <1>7, <1>11, <2>3
    <3> QED
      BY <1>4, <1>11, <2>1, <2>3, <3>1
  <2> QED
    BY <1>2, <2>2, <2>3
<1>12. worker'[w] # Idle
  BY DEF Active, Idle
<1>13. CASE Active(w) /\ SamePlace(w) /\ worker'[w].pc = "fetching" /\ ~Stale(worker[w].post)
  BY <1>3, <1>13 DEF SamePlace, p
<1> QED
  BY <1>1, <1>9, <1>10, <1>11, <1>12, <1>13 DEF WorkerMove, p, g, n

(* What the plan of a compaction lists, it may list. *)
LEMMA ErasableIsGone ==
  ASSUME IInv, NEW r \in Erasable
  PROVE  Gone(r) /\ r \in old
<1>1. r \in old /\ r \in Posts \X Generations /\ r[2] <= head[r[1]]
  BY DEF Erasable, Delivered, Terminal, Superseded, Hot, IInv, Typed, EnrichmentTypeOK
<1>2. head[r[1]] \in Nat /\ r[2] \in Nat
  <2>1. head[r[1]] \in 0..MaxGeneration /\ r[2] \in Generations
    BY <1>1 DEF IInv, Typed, EnrichmentTypeOK
  <2> QED
    BY <2>1 DEF Generations
<1>3. CASE r \in Delivered
  BY <1>1, <1>3 DEF Delivered, Gone, BoundTo
<1>4. CASE r \in Terminal
  BY <1>1, <1>4 DEF Terminal, Gone, BoundTo, Snapshots
<1>5. CASE r \in Superseded
  BY <1>1, <1>2, <1>5 DEF Superseded, Gone
<1> QED
  BY <1>1, <1>3, <1>4, <1>5 DEF Erasable

LEMMA GoneStays ==
  ASSUME IInv, Typed', Moves, NEW r \in erased'
  PROVE  Gone(r)'
<1>1. /\ r \in Posts \X Generations /\ r[1] \in Posts /\ r[2] \in Generations
      /\ head[r[1]] \in Nat /\ head'[r[1]] \in Nat /\ r[2] \in Nat
  <2>1. r \in Posts \X Generations
    BY DEF Typed, EnrichmentTypeOK
  <2>2. head[r[1]] \in 0..MaxGeneration /\ head'[r[1]] \in 0..MaxGeneration
    BY <2>1 DEF IInv, Typed, EnrichmentTypeOK
  <2> QED
    BY <2>1, <2>2 DEF Generations
<1>2. CASE r \in erased
  <2>1. Gone(r) /\ Stale(r[1])
    <3>1. r \in old
      BY <1>2 DEF IInv, Typed, EnrichmentTypeOK
    <3>2. r = <<r[1], r[2]>>
      BY <1>1
    <3> QED
      BY <1>1, <1>2, <3>1, <3>2 DEF IInv, Stale
  <2>2. /\ Claimed(r[1])' <=> Claimed(r[1])
        /\ Claimed(r[1]) => candidate'[r[1]].rev = candidate[r[1]].rev
    BY <1>1, <2>1, StaleIsNotBound
  <2>3. BoundTo(r)' => candidate'[r[1]].fate = "delivered"
    <3>1. BoundTo(r)' => BoundTo(r)
      BY <2>2 DEF BoundTo
    <3>2. CandidateMove(r[1])
      BY <1>1 DEF Moves
    <3> QED
      BY <2>1, <3>1, <3>2 DEF Gone, CandidateMove, Claimed
  <2>4. r[2] < head[r[1]] => r[2] < head'[r[1]]
    BY <1>1 DEF Moves
  <2>5. \A n \in {1, 2} : Status(r[1], r[2], n) = "done" => Status(r[1], r[2], n)' = "done"
    <3> SUFFICES ASSUME NEW n \in {1, 2}, Status(r[1], r[2], n) = "done"
                 PROVE  Status(r[1], r[2], n)' = "done"
      OBVIOUS
    <3>1. ~(r[2] = head[r[1]] /\ n = NextAttempt(r[1]))
      BY DEF NextAttempt
    <3> QED
      BY <1>1, <2>1, <3>1, StaleMoves
  <2> QED
    BY <2>1, <2>2, <2>3, <2>4, <2>5 DEF Gone
<1>3. CASE r \notin erased
  <2>1. r \in Erasable /\ UNCHANGED <<head, attempt, candidate>>
    BY <1>3 DEF Moves, ErasedMove
  <2>3. Gone(r)
    BY <2>1, ErasableIsGone
  <2> QED
    BY <2>1, <2>3 DEF Gone, BoundTo, Claimed, Status
<1> QED
  BY <1>2, <1>3

-----------------------------------------------------------------------------
(* Every step is such a step *)

AttemptMoves == \A p \in Posts, g \in Generations, n \in {1, 2} : AttemptMove(p, g, n)
FetchMoves == \A p \in Posts, g \in Generations : FetchMove(p, g)

(* What is left alone has moved in no forbidden way. *)
LEMMA AttemptsRest == UNCHANGED attempt => AttemptMoves
  BY DEF AttemptMoves, AttemptMove, Status
LEMMA FetchesRest == UNCHANGED fetched => FetchMoves
  BY DEF FetchMoves, FetchMove
LEMMA CandidatesRest == UNCHANGED candidate => \A p \in Posts : CandidateMove(p)
  BY DEF CandidateMove
LEMMA KeysRest == UNCHANGED keyStory => \A k \in Keys : KeyMove(k)
  BY DEF KeyMove
LEMMA RetentionRests == UNCHANGED retention => OldMove /\ ErasedMove
  BY DEF retention, OldMove, ErasedMove
LEMMA HeadsRest == IInv /\ UNCHANGED head => \A p \in Posts : head'[p] >= head[p]
  BY DEF IInv, Typed, EnrichmentTypeOK

Row == [status : Statuses, owner : Workers \cup {NoWorker}]

(* One worker changes. *)
LEMMA OneWorker ==
  ASSUME IInv, NEW w \in Workers, NEW me, worker' = [worker EXCEPT ![w] = me]
  PROVE  worker'[w] = me /\ \A v \in Workers \ {w} : WorkerMove(v)
  BY DEF IInv, Typed, EnrichmentTypeOK, WorkerMove

LEMMA IdleIsTyped ==
  Idle \in [pc : {"idle", "leased", "fetching", "settled"},
        post : Posts \cup {NoPost}, gen : 0..MaxGeneration, n : 0..2,
        result : {"none", "transient", "non_news", "news"},
        keys : SUBSET Keys, seen : 0..MaxGeneration]
  BY EnrichmentBounds DEF Idle

LEMMA ReviseMoves ==
  ASSUME IInv, NEW p \in Posts, Revise(p)
  PROVE  EnrichmentTypeOK' /\ Moves
<1>1. /\ head[p] < MaxGeneration /\ head' = [head EXCEPT ![p] = head[p] + 1]
      /\ UNCHANGED <<retention, attempt, disposition, candidate, story, keyStory,
                     worker, fetched, faults>>
  BY DEF Revise
<1>2. head[p] \in 0..MaxGeneration /\ head[p] + 1 \in 0..MaxGeneration
  BY <1>1, EnrichmentBounds DEF IInv, Typed, EnrichmentTypeOK
<1>3. EnrichmentTypeOK'
  BY <1>1, <1>2 DEF IInv, Typed, EnrichmentTypeOK, retention
<1>4. \A q \in Posts : head'[q] >= head[q]
  BY <1>1, <1>2, EnrichmentBounds DEF IInv, Typed, EnrichmentTypeOK
<1>5. \A w \in Workers : WorkerMove(w)
  BY <1>1 DEF WorkerMove
<1> QED
  BY <1>1, <1>3, <1>4, <1>5, AttemptsRest, FetchesRest, CandidatesRest, KeysRest,
     RetentionRests DEF Moves, AttemptMoves, FetchMoves

LEMMA DeliverMoves ==
  ASSUME IInv, NEW p \in Posts, Deliver(p)
  PROVE  EnrichmentTypeOK' /\ Moves
<1>1. /\ candidate[p].fate \in {"open", "unsafe"}
      /\ \E f \in {"open", "unsafe", "delivered"} :
           candidate' = [candidate EXCEPT ![p].fate = f]
      /\ UNCHANGED <<retention, head, attempt, disposition, story, keyStory,
                     worker, fetched, faults>>
  BY DEF Deliver
<1>2. PICK f \in {"open", "unsafe", "delivered"} :
        candidate' = [candidate EXCEPT ![p].fate = f]
  BY <1>1
<1>3. candidate \in [Posts -> [fate : Fates, rev : 0..MaxGeneration, keys : SUBSET Keys]]
  BY DEF IInv, Typed, EnrichmentTypeOK
<1>4. candidate' \in [Posts -> [fate : Fates, rev : 0..MaxGeneration, keys : SUBSET Keys]]
  BY <1>2, <1>3 DEF Fates
<1>5. EnrichmentTypeOK'
  BY <1>1, <1>4 DEF IInv, Typed, EnrichmentTypeOK, retention
<1>6. \A q \in Posts : CandidateMove(q)
  BY <1>1, <1>2, <1>3 DEF CandidateMove
<1>7. \A w \in Workers : WorkerMove(w)
  BY <1>1 DEF WorkerMove
<1> QED
  BY <1>1, <1>5, <1>6, <1>7, AttemptsRest, FetchesRest, KeysRest, HeadsRest,
     RetentionRests DEF Moves, AttemptMoves, FetchMoves

LEMMA ExpireMoves ==
  ASSUME IInv, NEW a \in Attempts, Expire(a)
  PROVE  EnrichmentTypeOK' /\ Moves
<1> DEFINE v == [status |-> IF attempt[a].status = "leased" THEN "released"
                                                          ELSE "interrupted",
                 owner |-> NoWorker]
<1>1. /\ attempt[a].status \in {"leased", "flown"}
      /\ attempt' = [attempt EXCEPT ![a] = v]
      /\ faults' = faults \/ faults' = faults + 1
      /\ UNCHANGED <<retention, head, disposition, candidate, story, keyStory,
                     worker, fetched>>
  BY DEF Expire, Leased, Lapse
<1>2. PICK q \in Posts, h \in Generations, m \in {1, 2} : a = <<q, h, m>>
  BY DEF Attempts
<1>3. /\ v \in Row
      /\ v.status = IF attempt[a].status = "leased" THEN "released" ELSE "interrupted"
  BY DEF Statuses, Row
<1> HIDE DEF v
<1>4. /\ attempt' \in [Attempts -> Row]
      /\ attempt'[<<q, h, m>>] = v
      /\ \A p \in Posts, g \in Generations, n \in {1, 2} :
           \/ p = q /\ g = h /\ n = m
           \/ attempt'[<<p, g, n>>] = attempt[<<p, g, n>>]
  <2>1. attempt' = [attempt EXCEPT ![<<q, h, m>>] = v]
    BY <1>1, <1>2
  <2>2. attempt \in [Attempts -> Row]
    BY DEF IInv, Typed, EnrichmentTypeOK, Row
  <2>3. <<q, h, m>> \in Attempts
    BY <1>2 DEF Attempts
  <2>4. ASSUME NEW p \in Posts, NEW g \in Generations, NEW n \in {1, 2},
               <<q, h, m>> # <<p, g, n>>
        PROVE  attempt'[<<p, g, n>>] = attempt[<<p, g, n>>]
    <3>1. <<p, g, n>> \in Attempts
      BY DEF Attempts
    <3> QED
      BY <2>1, <2>2, <2>4, <3>1
  <2> QED
    BY <2>1, <1>3, <2>2, <2>3, <2>4
<1>5. AttemptMoves
  BY <1>1, <1>2, <1>3, <1>4 DEF AttemptMoves, AttemptMove, Status
<1>6. EnrichmentTypeOK'
  BY <1>1, <1>4 DEF IInv, Typed, EnrichmentTypeOK, Row, retention
<1>7. \A w \in Workers : WorkerMove(w)
  BY <1>1 DEF WorkerMove
<1> QED
  BY <1>1, <1>5, <1>6, <1>7, FetchesRest, CandidatesRest, KeysRest, HeadsRest,
     RetentionRests DEF Moves, AttemptMoves, FetchMoves

LEMMA AgeMoves ==
  ASSUME IInv, NEW r \in Posts \X Generations, Age(r)
  PROVE  EnrichmentTypeOK' /\ Moves
<1>1. /\ r[2] <= head[r[1]] /\ old' = old \cup {r}
      /\ \A w \in Workers : worker[w].pc # "idle" => worker[w].post # r[1]
      /\ UNCHANGED <<head, attempt, disposition, candidate, story, keyStory,
                     worker, erased, compacted, fetched, faults>>
  BY DEF Age
<1>2. EnrichmentTypeOK'
  BY <1>1 DEF IInv, Typed, EnrichmentTypeOK
<1>3. OldMove /\ ErasedMove
  BY <1>1 DEF OldMove, ErasedMove, Active
<1>4. \A w \in Workers : WorkerMove(w)
  BY <1>1 DEF WorkerMove
<1> QED
  BY <1>1, <1>2, <1>3, <1>4, AttemptsRest, FetchesRest, CandidatesRest, KeysRest,
     HeadsRest DEF Moves, AttemptMoves, FetchMoves

LEMMA CompactMoves ==
  ASSUME IInv, Compact
  PROVE  EnrichmentTypeOK' /\ Moves
<1>1. PICK S \in SUBSET Erasable, D \in SUBSET Finished :
        /\ erased' = erased \cup S /\ compacted' = compacted \cup D
        /\ UNCHANGED <<head, attempt, disposition, candidate, story, keyStory,
                       worker, old, fetched, faults>>
  BY DEF Compact, Erase
<1>2. Erasable \subseteq old /\ Finished \subseteq Posts
  BY DEF Erasable, Delivered, Terminal, Superseded, Hot, Finished
<1>3. EnrichmentTypeOK'
  BY <1>1, <1>2 DEF IInv, Typed, EnrichmentTypeOK
<1>4. OldMove /\ ErasedMove
  BY <1>1 DEF OldMove, ErasedMove
<1>5. \A w \in Workers : WorkerMove(w)
  BY <1>1 DEF WorkerMove
<1> QED
  BY <1>1, <1>3, <1>4, <1>5, AttemptsRest, FetchesRest, CandidatesRest, KeysRest,
     HeadsRest DEF Moves, AttemptMoves, FetchMoves

WorkerSet == [pc : {"idle", "leased", "fetching", "settled"},
              post : Posts \cup {NoPost}, gen : 0..MaxGeneration, n : 0..2,
              result : {"none", "transient", "non_news", "news"},
              keys : SUBSET Keys, seen : 0..MaxGeneration]

(* A worker goes back to rest. *)
LEMMA RestMoves ==
  ASSUME IInv, NEW w \in Workers, worker' = [worker EXCEPT ![w] = Idle]
  PROVE  worker' \in [Workers -> WorkerSet] /\ \A v \in Workers : WorkerMove(v)
<1>1. worker'[w] = Idle /\ \A v \in Workers \ {w} : WorkerMove(v)
  BY OneWorker
<1>2. worker' \in [Workers -> WorkerSet]
  BY IdleIsTyped DEF IInv, Typed, EnrichmentTypeOK, WorkerSet
<1> QED
  BY <1>1, <1>2 DEF WorkerMove

LEMMA ClaimMoves ==
  ASSUME IInv, NEW w \in Workers, ClaimWork(w)
  PROVE  EnrichmentTypeOK' /\ Moves
<1>1. PICK p \in Posts :
        /\ Due(p)
        /\ attempt' = [attempt EXCEPT ![<<p, head[p], NextAttempt(p)>>] =
                         [status |-> "leased", owner |-> w]]
        /\ worker' = [worker EXCEPT ![w] = [Idle EXCEPT !.pc = "leased",
                        !.post = p, !.gen = head[p], !.n = NextAttempt(p)]]
  BY DEF ClaimWork
<1>2. UNCHANGED <<retention, head, disposition, candidate, story, keyStory, fetched, faults>>
  BY DEF ClaimWork
<1>3. head[p] \in Generations /\ NextAttempt(p) \in {1, 2}
  <2>1. head[p] \in 0..MaxGeneration /\ head[p] # 0 /\ NextAttempt(p) \in {1, 2}
    BY <1>1 DEF IInv, Typed, EnrichmentTypeOK, Due, NextAttempt
  <2> QED
    BY <2>1 DEF Generations
<1> DEFINE v == [status |-> "leased", owner |-> w]
           me == [Idle EXCEPT !.pc = "leased", !.post = p, !.gen = head[p],
                              !.n = NextAttempt(p)]
<1>4. /\ me \in WorkerSet /\ me.pc = "leased" /\ me.post = p /\ me.gen = head[p]
      /\ me.n = NextAttempt(p)
  <2>1. head[p] \in 0..MaxGeneration /\ NextAttempt(p) \in 0..2
    BY <1>3 DEF IInv, Typed, EnrichmentTypeOK
  <2> QED
    BY <2>1, IdleIsTyped DEF WorkerSet
<1>5. v \in Row /\ v.status = "leased"
  BY DEF Statuses, Row
<1>6. worker' = [worker EXCEPT ![w] = me]
  BY <1>1
<1>7. attempt' = [attempt EXCEPT ![<<p, head[p], NextAttempt(p)>>] = v]
  BY <1>1
<1> HIDE DEF v, me
<1>8. /\ attempt' \in [Attempts -> Row]
      /\ attempt'[<<p, head[p], NextAttempt(p)>>] = v
      /\ \A q \in Posts, g \in Generations, n \in {1, 2} :
           \/ q = p /\ g = head[p] /\ n = NextAttempt(p)
           \/ attempt'[<<q, g, n>>] = attempt[<<q, g, n>>]
  <2>1. attempt \in [Attempts -> Row]
    BY DEF IInv, Typed, EnrichmentTypeOK, Row
  <2>2. <<p, head[p], NextAttempt(p)>> \in Attempts
    BY <1>3 DEF Attempts
  <2>3. ASSUME NEW q \in Posts, NEW g \in Generations, NEW n \in {1, 2},
               <<p, head[p], NextAttempt(p)>> # <<q, g, n>>
        PROVE  attempt'[<<q, g, n>>] = attempt[<<q, g, n>>]
    <3>1. <<q, g, n>> \in Attempts
      BY DEF Attempts
    <3> QED
      BY <1>7, <2>1, <2>3, <3>1
  <2> QED
    BY <1>7, <1>5, <2>1, <2>2, <2>3
<1>9. AttemptMoves
  <2> SUFFICES ASSUME NEW q \in Posts, NEW g \in Generations, NEW n \in {1, 2}
               PROVE  AttemptMove(q, g, n)
    BY DEF AttemptMoves
  <2>1. CASE q = p /\ g = head[p] /\ n = NextAttempt(p)
    <3>1. attempt'[<<q, g, n>>].status = "leased"
      BY <1>5, <1>8, <2>1
    <3> QED
      BY <1>1, <2>1, <3>1 DEF AttemptMove, Status, Due
  <2>2. CASE attempt'[<<q, g, n>>] = attempt[<<q, g, n>>]
    BY <2>2 DEF AttemptMove, Status
  <2> QED
    BY <1>8, <2>1, <2>2
<1>10. \A u \in Workers : WorkerMove(u)
  <2>1. worker'[w] = me /\ \A u \in Workers \ {w} : WorkerMove(u)
    BY <1>6, OneWorker
  <2>2. WorkerMove(w)
    BY <1>1, <1>4, <1>5, <1>8, <2>1 DEF WorkerMove
  <2> QED
    BY <2>1, <2>2
<1>11. EnrichmentTypeOK'
  <2>1. worker' \in [Workers -> WorkerSet]
    BY <1>4, <1>6 DEF IInv, Typed, EnrichmentTypeOK, WorkerSet
  <2> QED
    BY <1>2, <1>8, <2>1 DEF IInv, Typed, EnrichmentTypeOK, Row, retention, WorkerSet
<1> QED
  BY <1>2, <1>9, <1>10, <1>11, FetchesRest, CandidatesRest, KeysRest, HeadsRest,
     RetentionRests DEF Moves, AttemptMoves, FetchMoves

LEMMA DispatchMoves ==
  ASSUME IInv, NEW w \in Workers, Dispatch(w)
  PROVE  EnrichmentTypeOK' /\ Moves
<1> DEFINE p == worker[w].post
           g == worker[w].gen
           n == worker[w].n
<1>1. /\ worker[w].pc = "leased" /\ ~Stale(p)
      /\ UNCHANGED <<retention, head, disposition, candidate, story, keyStory, faults>>
  BY DEF Dispatch
<1>2. p \in Posts /\ g \in Generations /\ n \in {1, 2}
  BY <1>1 DEF IInv, Typed, WorkerHas, Active
<1>3. CASE attempt[<<p, g, n>>].status = "leased" /\ Holds(w)
  <2> DEFINE v == [status |-> "flown", owner |-> attempt[<<p, g, n>>].owner]
  <2>1. /\ attempt' = [attempt EXCEPT ![<<p, g, n>>].status = "flown"]
        /\ worker' = [worker EXCEPT ![w].pc = "fetching"]
        /\ fetched' = [fetched EXCEPT ![<<p, g>>] = @ + 1]
    BY <1>1, <1>3 DEF Dispatch, AttemptOf
  <2>2. attempt[<<p, g, n>>] \in [status : Statuses, owner : Workers \cup {NoWorker}]
    BY <1>2 DEF IInv, Typed, EnrichmentTypeOK, Attempts
  <2>3. attempt' = [attempt EXCEPT ![<<p, g, n>>] = v]
    <3>1. [attempt[<<p, g, n>>] EXCEPT !.status = "flown"] = v
      BY <2>2
    <3>2. attempt' = [attempt EXCEPT ![<<p, g, n>>] =
                        [attempt[<<p, g, n>>] EXCEPT !.status = "flown"]]
      BY <2>1
    <3> QED
      BY <3>1, <3>2
  <2>4. v \in Row /\ v.status = "flown"
    BY <2>2 DEF Statuses, Row
  <2> HIDE DEF v
  <2>5. /\ attempt' \in [Attempts -> Row]
        /\ attempt'[<<p, g, n>>] = v
        /\ \A q \in Posts, h \in Generations, m \in {1, 2} :
             \/ q = p /\ h = g /\ m = n
             \/ attempt'[<<q, h, m>>] = attempt[<<q, h, m>>]
    <3>1. attempt \in [Attempts -> Row]
      BY DEF IInv, Typed, EnrichmentTypeOK, Row
    <3>2. <<p, g, n>> \in Attempts
      BY <1>2 DEF Attempts
    <3>3. ASSUME NEW q \in Posts, NEW h \in Generations, NEW m \in {1, 2},
                 <<p, g, n>> # <<q, h, m>>
          PROVE  attempt'[<<q, h, m>>] = attempt[<<q, h, m>>]
      <4>1. <<q, h, m>> \in Attempts
        BY DEF Attempts
      <4> QED
        BY <2>3, <3>1, <3>3, <4>1
    <3> QED
      BY <2>3, <2>4, <3>1, <3>2, <3>3
  <2>6. AttemptMoves
    <3> SUFFICES ASSUME NEW q \in Posts, NEW h \in Generations, NEW m \in {1, 2}
                 PROVE  AttemptMove(q, h, m)
      BY DEF AttemptMoves
    <3>1. CASE q = p /\ h = g /\ m = n
      <4>1. attempt'[<<q, h, m>>].status = "flown" /\ attempt[<<q, h, m>>].status = "leased"
        BY <1>3, <2>4, <2>5, <3>1
      <4> QED
        BY <1>1, <3>1, <4>1 DEF AttemptMove, Status
    <3>2. CASE attempt'[<<q, h, m>>] = attempt[<<q, h, m>>]
      BY <3>2 DEF AttemptMove, Status
    <3> QED
      BY <2>5, <3>1, <3>2
  <2>7. FetchMoves
    <3>1. \A q \in Posts, h \in Generations :
            fetched'[<<q, h>>] = IF q = p /\ h = g THEN fetched[<<q, h>>] + 1
                                                  ELSE fetched[<<q, h>>]
      BY <2>1 DEF IInv, Typed, EnrichmentTypeOK
    <3> QED
      BY <1>2, <1>3, <2>4, <2>5, <3>1 DEF FetchMoves, FetchMove, Status
  <2>8. fetched' \in [Posts \X Generations -> Nat]
    BY <1>2, <2>1 DEF IInv, Typed, EnrichmentTypeOK
  <2>9. worker' \in [Workers -> WorkerSet]
    <3>1. worker \in [Workers -> WorkerSet]
      BY DEF IInv, Typed, EnrichmentTypeOK, WorkerSet
    <3>2. [worker[w] EXCEPT !.pc = "fetching"] \in WorkerSet
      BY <3>1 DEF WorkerSet
    <3>3. worker' = [worker EXCEPT ![w] = [worker[w] EXCEPT !.pc = "fetching"]]
      BY <2>1
    <3> QED
      BY <3>1, <3>2, <3>3
  <2>10. \A u \in Workers : WorkerMove(u)
    <3>1. worker' = [worker EXCEPT ![w] = [worker[w] EXCEPT !.pc = "fetching"]]
      BY <2>1
    <3>2. /\ worker'[w] = [worker[w] EXCEPT !.pc = "fetching"]
          /\ \A u \in Workers \ {w} : WorkerMove(u)
      BY <3>1, OneWorker
    <3>3. worker[w] \in WorkerSet
      BY DEF IInv, Typed, EnrichmentTypeOK, WorkerSet
    <3>4. worker'[w].pc = "fetching" /\ SamePlace(w)
      BY <3>2, <3>3 DEF SamePlace, WorkerSet
    <3>5. WorkerMove(w)
      BY <1>1, <3>4 DEF WorkerMove, Active
    <3> QED
      BY <3>2, <3>5
  <2>11. EnrichmentTypeOK'
    BY <1>1, <2>5, <2>8, <2>9 DEF IInv, Typed, EnrichmentTypeOK, Row, retention, WorkerSet
  <2> QED
    BY <1>1, <2>6, <2>7, <2>10, <2>11, CandidatesRest, KeysRest, HeadsRest,
       RetentionRests DEF Moves, AttemptMoves, FetchMoves
<1>4. CASE ~(attempt[<<p, g, n>>].status = "leased" /\ Holds(w))
  <2>1. worker' = [worker EXCEPT ![w] = Idle] /\ UNCHANGED <<attempt, fetched>>
    BY <1>4 DEF Dispatch, AttemptOf
  <2>2. worker' \in [Workers -> WorkerSet] /\ \A v \in Workers : WorkerMove(v)
    BY <2>1, RestMoves
  <2>3. EnrichmentTypeOK'
    BY <1>1, <2>1, <2>2 DEF IInv, Typed, EnrichmentTypeOK, retention, WorkerSet
  <2> QED
    BY <1>1, <2>1, <2>2, <2>3, AttemptsRest, FetchesRest, CandidatesRest, KeysRest,
       HeadsRest, RetentionRests DEF Moves, AttemptMoves, FetchMoves
<1> QED
  BY <1>3, <1>4

LEMMA CheckMoves ==
  ASSUME IInv, NEW w \in Workers, CheckLease(w)
  PROVE  EnrichmentTypeOK' /\ Moves
<1>1. /\ worker[w].pc \in {"leased", "fetching"}
      /\ UNCHANGED <<retention, head, attempt, disposition, candidate, story,
                     keyStory, fetched, faults>>
  BY DEF CheckLease
<1>2. worker' \in [Workers -> WorkerSet] /\ \A v \in Workers : WorkerMove(v)
  <2>1. CASE worker' = [worker EXCEPT ![w] = Idle]
    BY <2>1, RestMoves
  <2>2. ASSUME NEW j \in Judgements(w),
               worker' = [worker EXCEPT ![w].pc = "settled", ![w].result = j[1],
                            ![w].keys = j[2], ![w].seen = head[worker[w].post]]
        PROVE  worker' \in [Workers -> WorkerSet] /\ \A v \in Workers : WorkerMove(v)
    <3> DEFINE me == [worker[w] EXCEPT !.pc = "settled", !.result = j[1],
                        !.keys = j[2], !.seen = head[worker[w].post]]
    <3>1. worker' = [worker EXCEPT ![w] = me]
      BY <2>2
    <3>2. /\ j[1] \in {"transient", "non_news", "news"} /\ j[2] \in SUBSET Keys
          /\ worker[w].pc = "leased" => j[1] = "non_news"
      BY DEF Judgements
    <3>3. worker[w].post \in Posts /\ head[worker[w].post] \in 0..MaxGeneration
      BY <1>1 DEF IInv, Typed, WorkerHas, Active, EnrichmentTypeOK
    <3>4. worker[w] \in WorkerSet
      BY DEF IInv, Typed, EnrichmentTypeOK, WorkerSet
    <3>5. /\ me \in WorkerSet /\ me.pc = "settled" /\ me.result = j[1]
          /\ me.post = worker[w].post /\ me.gen = worker[w].gen /\ me.n = worker[w].n
      BY <3>2, <3>3, <3>4 DEF WorkerSet
    <3> HIDE DEF me
    <3>6. worker'[w] = me /\ \A v \in Workers \ {w} : WorkerMove(v)
      BY <3>1, OneWorker
    <3>7. WorkerMove(w)
      BY <1>1, <3>2, <3>5, <3>6 DEF WorkerMove, Active, SamePlace
    <3>8. worker' \in [Workers -> WorkerSet]
      BY <3>1, <3>5 DEF IInv, Typed, EnrichmentTypeOK, WorkerSet
    <3> QED
      BY <3>6, <3>7, <3>8
  <2> QED
    BY <2>1, <2>2 DEF CheckLease
<1>3. EnrichmentTypeOK'
  BY <1>1, <1>2 DEF IInv, Typed, EnrichmentTypeOK, retention, WorkerSet
<1> QED
  BY <1>1, <1>2, <1>3, AttemptsRest, FetchesRest, CandidatesRest, KeysRest,
     HeadsRest, RetentionRests DEF Moves, AttemptMoves, FetchMoves

LEMMA StopMoves ==
  ASSUME IInv, NEW w \in Workers, FinalizeRaises(w) \/ Die(w)
  PROVE  EnrichmentTypeOK' /\ Moves
<1>1. /\ worker' = [worker EXCEPT ![w] = Idle]
      /\ faults' = faults \/ faults' = faults + 1
      /\ UNCHANGED <<retention, head, attempt, disposition, candidate, story,
                     keyStory, fetched>>
  BY DEF FinalizeRaises, Die
<1>2. worker' \in [Workers -> WorkerSet] /\ \A v \in Workers : WorkerMove(v)
  BY <1>1, RestMoves
<1>3. EnrichmentTypeOK'
  BY <1>1, <1>2 DEF IInv, Typed, EnrichmentTypeOK, retention, WorkerSet
<1> QED
  BY <1>1, <1>2, <1>3, AttemptsRest, FetchesRest, CandidatesRest, KeysRest,
     HeadsRest, RetentionRests DEF Moves, AttemptMoves, FetchMoves

LEMMA TransientMoves ==
  ASSUME IInv, NEW w \in Workers, SettleTransient(w)
  PROVE  EnrichmentTypeOK' /\ Moves
<1> DEFINE p == worker[w].post
           g == worker[w].gen
           n == worker[w].n
           v == [status |-> "retry", owner |-> NoWorker]
<1>1. /\ worker[w].pc = "settled" /\ worker[w].result = "transient"
      /\ attempt' = [attempt EXCEPT ![<<p, g, n>>] = v]
      /\ worker' = [worker EXCEPT ![w] = Idle]
      /\ UNCHANGED <<retention, head, disposition, candidate, story, keyStory,
                     fetched, faults>>
  BY DEF SettleTransient, AttemptOf
<1>2. p \in Posts /\ g \in Generations /\ n \in {1, 2}
  BY <1>1 DEF IInv, Typed, WorkerHas, Active
<1>3. v \in Row /\ v.status = "retry"
  BY DEF Statuses, Row
<1> HIDE DEF v
<1>4. /\ attempt' \in [Attempts -> Row]
      /\ attempt'[<<p, g, n>>] = v
      /\ \A q \in Posts, h \in Generations, m \in {1, 2} :
           \/ q = p /\ h = g /\ m = n
           \/ attempt'[<<q, h, m>>] = attempt[<<q, h, m>>]
  <2>1. attempt \in [Attempts -> Row]
    BY DEF IInv, Typed, EnrichmentTypeOK, Row
  <2>2. <<p, g, n>> \in Attempts
    BY <1>2 DEF Attempts
  <2>3. ASSUME NEW q \in Posts, NEW h \in Generations, NEW m \in {1, 2},
               <<p, g, n>> # <<q, h, m>>
        PROVE  attempt'[<<q, h, m>>] = attempt[<<q, h, m>>]
    <3>1. <<q, h, m>> \in Attempts
      BY DEF Attempts
    <3> QED
      BY <1>1, <2>1, <2>3, <3>1
  <2> QED
    BY <1>1, <1>3, <2>1, <2>2, <2>3
<1>5. AttemptMoves
  BY <1>1, <1>3, <1>4 DEF AttemptMoves, AttemptMove, Settles, Status
<1>6. worker' \in [Workers -> WorkerSet] /\ \A u \in Workers : WorkerMove(u)
  BY <1>1, RestMoves
<1>7. EnrichmentTypeOK'
  BY <1>1, <1>4, <1>6 DEF IInv, Typed, EnrichmentTypeOK, Row, retention, WorkerSet
<1> QED
  BY <1>1, <1>5, <1>6, <1>7, FetchesRest, CandidatesRest, KeysRest,
     HeadsRest, RetentionRests DEF Moves, AttemptMoves, FetchMoves

Stories == [Posts -> {"none", "open", "quarantined"}]
Candidates == [Posts -> [fate : Fates, rev : 0..MaxGeneration, keys : SUBSET Keys]]

(* Keys without a story get one; it is the post's own when it is bound. *)
LEMMA ConvergeMoves ==
  ASSUME IInv, NEW w \in Workers, worker[w].pc = "settled", worker[w].result = "news",
         Converge(w), Matches(worker[w].keys) = {} => ~Claimed(worker[w].post)
  PROVE  /\ candidate' \in Candidates /\ story' \in Stories
         /\ keyStory' \in [Keys -> Posts \cup {NoPost}]
         /\ \A q \in Posts : CandidateMove(q)
         /\ \A k \in Keys : KeyMove(k)
<1> DEFINE p == worker[w].post
           ks == worker[w].keys
           S == Matches(ks)
<1>1. /\ p \in Posts /\ ks \subseteq Keys /\ worker[w].gen \in 0..MaxGeneration
      /\ candidate \in Candidates /\ story \in Stories
      /\ keyStory \in [Keys -> Posts \cup {NoPost}]
  BY DEF IInv, Typed, WorkerHas, Active, EnrichmentTypeOK, Candidates, Stories
<1>2. S \subseteq Posts
  BY <1>1 DEF Matches
<1>3. ASSUME NEW s \in Posts, Alias(ks, s)
      PROVE  /\ keyStory' \in [Keys -> Posts \cup {NoPost}]
             /\ \A k \in Keys : KeyMove(k)
             /\ \A k \in ks : keyStory[k] = NoPost => keyStory'[k] = s
  BY <1>1, <1>3 DEF Alias, KeyMove
<1>4. CASE /\ story' = [q \in Posts |-> IF q \in S THEN "quarantined" ELSE story[q]]
           /\ UNCHANGED <<candidate, keyStory>>
  <2>1. story' \in Stories
    BY <1>1, <1>4 DEF Stories
  <2> QED
    BY <1>1, <1>4, <2>1, CandidatesRest, KeysRest
<1>5. CASE /\ S # {} /\ Alias(ks, CHOOSE s \in S : TRUE)
           /\ UNCHANGED <<story, candidate>>
  <2>1. (CHOOSE s \in S : TRUE) \in Posts
    BY <1>2, <1>5
  <2> QED
    BY <1>1, <1>3, <1>5, <2>1, CandidatesRest
<1>6. CASE /\ S = {} /\ Alias(ks, p) /\ story' = [story EXCEPT ![p] = "open"]
           /\ candidate' = [candidate EXCEPT ![p] =
                [fate |-> "open", rev |-> worker[w].gen, keys |-> ks]]
  <2>1. \A k \in ks : keyStory[k] = NoPost
    BY <1>6 DEF Matches
  <2>2. candidate' \in Candidates /\ story' \in Stories
    BY <1>1, <1>6 DEF Candidates, Stories, Fates
  <2>3. candidate'[p].keys = ks /\ ~Claimed(p)
    BY <1>1, <1>6 DEF Candidates
  <2>4. \A q \in Posts : CandidateMove(q)
    <3>1. CandidateMove(p)
      BY <1>1, <1>3, <1>6, <2>1, <2>3 DEF CandidateMove
    <3>2. \A q \in Posts \ {p} : candidate'[q] = candidate[q]
      BY <1>6, <1>1 DEF Candidates
    <3> QED
      BY <3>1, <3>2 DEF CandidateMove
  <2> QED
    BY <1>1, <1>3, <1>6, <2>2, <2>4
<1> QED
  BY <1>4, <1>5, <1>6 DEF Converge

LEMMA FinalizeMoves ==
  ASSUME IInv, NEW w \in Workers, Finalize(w)
  PROVE  EnrichmentTypeOK' /\ Moves
<1> DEFINE p == worker[w].post
           g == worker[w].gen
           n == worker[w].n
           v == [status |-> "done", owner |-> NoWorker]
<1>1. /\ worker[w].pc = "settled" /\ worker[w].result \in {"non_news", "news"}
      /\ ~Raises(w)
      /\ attempt' = [attempt EXCEPT ![<<p, g, n>>] = v]
      /\ worker' = [worker EXCEPT ![w] = Idle]
      /\ UNCHANGED <<retention, head, fetched, faults>>
  BY DEF Finalize, AttemptOf
<1>2. p \in Posts /\ g \in Generations /\ n \in {1, 2} /\ g \in 0..MaxGeneration
  BY <1>1 DEF IInv, Typed, WorkerHas, Active, EnrichmentTypeOK
<1>3. v \in Row /\ v.status = "done"
  BY DEF Statuses, Row
<1>4. disposition' \in [Posts -> [rev : 0..MaxGeneration,
                                 outcome : {"none", "non_news", "news"}]]
  <2>1. \/ disposition' = disposition
        \/ disposition' = [disposition EXCEPT ![p] = [rev |-> g, outcome |-> worker[w].result]]
    BY DEF Finalize
  <2>2. [rev |-> g, outcome |-> worker[w].result]
          \in [rev : 0..MaxGeneration, outcome : {"none", "non_news", "news"}]
    BY <1>1, <1>2
  <2> HIDE DEF g
  <2> QED
    BY <2>1, <2>2 DEF IInv, Typed, EnrichmentTypeOK
<1>5. /\ candidate' \in Candidates /\ story' \in Stories
      /\ keyStory' \in [Keys -> Posts \cup {NoPost}]
      /\ \A q \in Posts : CandidateMove(q)
      /\ \A k \in Keys : KeyMove(k)
  <2>1. CASE UNCHANGED <<candidate, story, keyStory>>
    BY <2>1, CandidatesRest, KeysRest DEF IInv, Typed, EnrichmentTypeOK, Candidates, Stories
  <2>2. CASE worker[w].seen = g /\ worker[w].result = "news" /\ Converge(w)
    <3>1. Matches(worker[w].keys) = {} => ~Claimed(worker[w].post)
      BY <1>1, <2>2 DEF Raises, Bindable
    <3> QED
      BY <1>1, <2>2, <3>1, ConvergeMoves
  <2> QED
    BY <2>1, <2>2 DEF Finalize
<1> HIDE DEF v
<1>6. /\ attempt' \in [Attempts -> Row]
      /\ attempt'[<<p, g, n>>] = v
      /\ \A q \in Posts, h \in Generations, m \in {1, 2} :
           \/ q = p /\ h = g /\ m = n
           \/ attempt'[<<q, h, m>>] = attempt[<<q, h, m>>]
  <2>1. attempt \in [Attempts -> Row]
    BY DEF IInv, Typed, EnrichmentTypeOK, Row
  <2>2. <<p, g, n>> \in Attempts
    BY <1>2 DEF Attempts
  <2>3. ASSUME NEW q \in Posts, NEW h \in Generations, NEW m \in {1, 2},
               <<p, g, n>> # <<q, h, m>>
        PROVE  attempt'[<<q, h, m>>] = attempt[<<q, h, m>>]
    <3>1. <<q, h, m>> \in Attempts
      BY DEF Attempts
    <3> QED
      BY <1>1, <2>1, <2>3, <3>1
  <2> QED
    BY <1>1, <1>3, <2>1, <2>2, <2>3
<1>7. AttemptMoves
  <2> SUFFICES ASSUME NEW q \in Posts, NEW h \in Generations, NEW m \in {1, 2}
               PROVE  AttemptMove(q, h, m)
    BY DEF AttemptMoves
  <2>1. CASE q = p /\ h = g /\ m = n
    <3>1. attempt'[<<q, h, m>>].status = "done" /\ Settles(w, q, h, m)
      BY <1>1, <1>3, <1>6, <2>1 DEF Settles
    <3> QED
      BY <3>1 DEF AttemptMove, Status
  <2>2. CASE attempt'[<<q, h, m>>] = attempt[<<q, h, m>>]
    BY <2>2 DEF AttemptMove, Status
  <2> QED
    BY <1>6, <2>1, <2>2
<1>8. worker' \in [Workers -> WorkerSet] /\ \A u \in Workers : WorkerMove(u)
  BY <1>1, RestMoves
<1>9. EnrichmentTypeOK'
  BY <1>1, <1>4, <1>5, <1>6, <1>8 DEF IInv, Typed, EnrichmentTypeOK, Row, retention,
     WorkerSet, Candidates, Stories
<1> QED
  BY <1>1, <1>5, <1>7, <1>8, <1>9, FetchesRest, HeadsRest, RetentionRests
     DEF Moves, AttemptMoves, FetchMoves

LEMMA StepMoves ==
  ASSUME IInv, [Next]_vars
  PROVE  EnrichmentTypeOK' /\ Moves
<1>1. ASSUME NEW p \in Posts, Revise(p) PROVE EnrichmentTypeOK' /\ Moves
  BY <1>1, ReviseMoves
<1>2. ASSUME NEW p \in Posts, Deliver(p) PROVE EnrichmentTypeOK' /\ Moves
  BY <1>2, DeliverMoves
<1>3. ASSUME NEW a \in Attempts, Expire(a) PROVE EnrichmentTypeOK' /\ Moves
  BY <1>3, ExpireMoves
<1>4. ASSUME NEW r \in Posts \X Generations, Age(r) PROVE EnrichmentTypeOK' /\ Moves
  BY <1>4, AgeMoves
<1>5. CASE Compact
  BY <1>5, CompactMoves
<1>6. ASSUME NEW w \in Workers, WorkerStep(w) \/ Die(w) PROVE EnrichmentTypeOK' /\ Moves
  <2>1. CASE ClaimWork(w)
    BY <2>1, ClaimMoves
  <2>2. CASE Dispatch(w)
    BY <2>2, DispatchMoves
  <2>3. CASE CheckLease(w)
    BY <2>3, CheckMoves
  <2>4. CASE SettleTransient(w)
    BY <2>4, TransientMoves
  <2>5. CASE Finalize(w)
    BY <2>5, FinalizeMoves
  <2>6. CASE FinalizeRaises(w) \/ Die(w)
    BY <2>6, StopMoves
  <2> QED
    BY <1>6, <2>1, <2>2, <2>3, <2>4, <2>5, <2>6 DEF WorkerStep
<1>7. CASE UNCHANGED vars
  <2>1. UNCHANGED <<retention, head, attempt, disposition, candidate, story, keyStory,
                    worker, fetched, faults>>
    BY <1>7 DEF vars, retention
  <2>2. EnrichmentTypeOK'
    BY <2>1 DEF IInv, Typed, EnrichmentTypeOK, retention
  <2>3. \A w \in Workers : WorkerMove(w)
    BY <2>1 DEF WorkerMove
  <2> QED
    BY <2>1, <2>2, <2>3, AttemptsRest, FetchesRest, CandidatesRest, KeysRest,
       HeadsRest, RetentionRests DEF Moves, AttemptMoves, FetchMoves
<1> QED
  BY <1>1, <1>2, <1>3, <1>4, <1>5, <1>6, <1>7 DEF Next

LEMMA IInvStays ==
  ASSUME IInv, [Next]_vars
  PROVE  IInv'
<1>1. EnrichmentTypeOK' /\ Moves
  BY StepMoves
<1>2. \A r \in old' : r[2] <= head'[r[1]]
  <2> SUFFICES ASSUME NEW r \in old' PROVE r[2] <= head'[r[1]]
    OBVIOUS
  <2>1. r[1] \in Posts /\ r[2] \in Generations
    BY <1>1 DEF EnrichmentTypeOK
  <2>2. r[2] \in Nat /\ head[r[1]] \in Nat /\ head'[r[1]] \in Nat
    <3>1. head[r[1]] \in 0..MaxGeneration /\ head'[r[1]] \in 0..MaxGeneration
      BY <1>1, <2>1 DEF IInv, Typed, EnrichmentTypeOK
    <3> QED
      BY <2>1, <3>1 DEF Generations
  <2>3. r[2] <= head[r[1]]
    BY <1>1 DEF Moves, OldMove, IInv, Typed
  <2>4. head'[r[1]] >= head[r[1]]
    BY <1>1, <2>1 DEF Moves
  <2> QED
    BY <2>2, <2>3, <2>4
<1>3. \A w \in Workers : WorkerHas(w)'
  BY <1>1, WorkersStay
<1>4. Typed'
  BY <1>1, <1>2, <1>3 DEF Typed
<1>5. KeysOwned' /\ Counted'
  BY <1>1, KeysStay, CountStays
<1>6. \A w \in Workers : StaleWork(w)'
  BY <1>1, StaleStays
<1>7. \A r \in erased' : Gone(r)'
  BY <1>1, <1>4, GoneStays
<1> QED
  BY <1>4, <1>5, <1>6, <1>7 DEF IInv

LEMMA IInvAlways == Spec => []IInv
<1>1. Init => IInv
  BY IInvStarts
<1>2. IInv /\ [Next]_vars => IInv'
  BY IInvStays
<1> QED
  BY <1>1, <1>2, PTL DEF Spec

-----------------------------------------------------------------------------
(* What it means *)

(* Every variable keeps its type, and so every lookup of a row has one.    *)
THEOREM TypeCorrect == Spec => []EnrichmentTypeOK
<1>1. IInv => EnrichmentTypeOK
  BY DEF IInv, Typed
<1> QED
  BY <1>1, IInvAlways, PTL

(* Two candidates that may still go out never rest on a common url or body,*)
(* for the keys of each lead to its own story (_converge_stories).         *)
THEOREM StoriesAreTold == Spec => []OneCandidatePerStory
<1>1. IInv => OneCandidatePerStory
  BY DEF IInv, KeysOwned, OneCandidatePerStory, Eligible
<1> QED
  BY <1>1, IInvAlways, PTL

(* However its workers die and lapse, a revision is fetched twice at most: *)
(* each fetch uses up an attempt (claim_enrichment,                        *)
(* mark_enrichment_dispatched, reconcile_expired_enrichment_leases).       *)
THEOREM FetchesAreBounded == Spec => []FetchedTwiceAtMost
<1>1. IInv => FetchedTwiceAtMost
  <2> SUFFICES ASSUME IInv, NEW p \in Posts, NEW g \in Generations
               PROVE  fetched[<<p, g>>] <= 2
    BY DEF FetchedTwiceAtMost
  <2>1. fetched[<<p, g>>] \in Nat /\ fetched[<<p, g>>] <= Used(p, g, 1) + Used(p, g, 2)
    BY DEF IInv, Typed, EnrichmentTypeOK, Counted
  <2>2. Used(p, g, 1) \in {0, 1} /\ Used(p, g, 2) \in {0, 1}
    BY DEF Used
  <2> QED
    BY <2>1, <2>2
<1> QED
  BY <1>1, IInvAlways, PTL

(* Compaction erases, and plans to erase, no revision that a worker or an  *)
(* approval may still read (compact, _assert_compaction_invariants).       *)
THEOREM ErasedIsDone == Spec => []RetentionSparesWork
<1>1. ASSUME IInv, NEW r \in erased \cup Erasable, Needed(r)
      PROVE  FALSE
  <2>1. Gone(r) /\ r \in old
    BY <1>1, ErasableIsGone DEF IInv, Typed, EnrichmentTypeOK
  <2>2. /\ r = <<r[1], r[2]>> /\ r[1] \in Posts /\ r[2] \in Generations
        /\ head[r[1]] \in Nat /\ Stale(r[1])
    <3>1. r \in Posts \X Generations
      BY <1>1, <2>1 DEF IInv, Typed, EnrichmentTypeOK
    <3>2. head[r[1]] \in 0..MaxGeneration
      BY <1>1, <3>1 DEF IInv, Typed, EnrichmentTypeOK
    <3> QED
      BY <2>1, <3>1, <3>2 DEF Stale
  <2>3. CASE BoundTo(r) /\ candidate[r[1]].fate # "delivered"
    BY <2>1, <2>3 DEF Gone
  <2>4. ASSUME r[2] = head[r[1]], ~Claimed(r[1])
        PROVE  Status(r[1], r[2], 1) = "done" \/ Status(r[1], r[2], 2) = "done"
    BY <2>1, <2>2, <2>4 DEF Gone
  <2>5. CASE r[2] = head[r[1]] /\ Due(r[1])
    BY <2>4, <2>5 DEF Due, NextAttempt
  <2>6. ASSUME NEW w \in Workers, NEW n \in {1, 2}, r[2] = head[r[1]],
               AttemptOf(w) = <<r[1], r[2], n>>, Holds(w)
        PROVE  FALSE
    <3>1. worker[w].post = r[1] /\ worker[w].gen = r[2] /\ worker[w].n = n
      BY <2>6 DEF AttemptOf
    <3>2. Active(w)
      BY <1>1, <2>2, <3>1, NotThere DEF IInv, Typed, WorkerHas, Idle
    <3>3. StaleWork(w)
      BY <1>1 DEF IInv
    <3>4. Status(r[1], r[2], n) \in {"leased", "flown"}
      BY <2>6 DEF Holds, Leased, Status
    <3>5. ~Claimed(r[1])
      BY <2>2, <3>1, <3>2, <3>3 DEF StaleWork
    <3>6. Status(r[1], r[2], 1) = "done" \/ Status(r[1], r[2], 2) = "done"
      BY <2>4, <2>6, <3>5
    <3> QED
      BY <2>2, <3>1, <3>2, <3>3, <3>4, <3>6 DEF StaleWork
  <2> QED
    BY <1>1, <2>3, <2>5, <2>6 DEF Needed
<1>2. IInv => RetentionSparesWork
  BY <1>1 DEF RetentionSparesWork
<1> QED
  BY <1>2, IInvAlways, PTL

(* Once a post's candidate is claimed, its evidence stays and no revision  *)
(* of the post is leased again (claim_enrichment, _bind_candidate).        *)
THEOREM EvidenceStays == Spec => ClaimedEvidenceIsFixed
<1>1. ASSUME IInv, [Next]_vars, NEW p \in Posts, Claimed(p)
      PROVE  /\ candidate'[p].rev = candidate[p].rev
             /\ candidate'[p].keys = candidate[p].keys
             /\ \A g \in Generations, n \in {1, 2} :
                  Status(p, g, n) \in {"none", "released", "retry", "interrupted"}
                    => attempt'[<<p, g, n>>].status # "leased"
  <2>1. Moves
    BY <1>1, StepMoves
  <2>2. CandidateMove(p)
    BY <2>1 DEF Moves
  <2>3. ASSUME NEW g \in Generations, NEW n \in {1, 2},
               Status(p, g, n) \in {"none", "released", "retry", "interrupted"}
        PROVE  attempt'[<<p, g, n>>].status # "leased"
    <3>1. AttemptMove(p, g, n)
      BY <2>1 DEF Moves
    <3> QED
      BY <1>1, <2>3, <3>1 DEF AttemptMove, Status
  <2> QED
    BY <1>1, <2>2, <2>3 DEF CandidateMove
<1>2. IInv /\ [Next]_vars =>
        [\A p \in Posts : Claimed(p) =>
           /\ candidate'[p].rev = candidate[p].rev
           /\ candidate'[p].keys = candidate[p].keys
           /\ \A g \in Generations, n \in {1, 2} :
                Status(p, g, n) \in {"none", "released", "retry", "interrupted"}
                  => attempt'[<<p, g, n>>].status # "leased"]_vars
  BY <1>1
<1> QED
  BY <1>2, IInvAlways, PTL DEF Spec, ClaimedEvidenceIsFixed

=============================================================================
