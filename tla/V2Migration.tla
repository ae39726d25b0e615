------------------------------ MODULE V2Migration ------------------------------
(***************************************************************************)
(* The migration of a baseline V2 database to stories and claims           *)
(* (v2_workflow.py: migrate, _migrate_baseline_receipt_first), the held    *)
(* backlog and its release, and the first posts and effects after it.      *)
(*                                                                         *)
(* A baseline candidate knows at most one key, the digest of its canonical *)
(* url.  What its rows prove about the sheet decides who of several        *)
(* candidates of a story may still go out, if any.  One transaction makes  *)
(* all of it or nothing.                                                   *)
(*                                                                         *)
(* Left out: baseline observations without a candidate (no news since),    *)
(* the assertion on two known candidates of one database, and the schemas  *)
(* 3 to 6, whose migration only holds the backlog (Hold).                  *)
(***************************************************************************)
EXTENDS Naturals, FiniteSets

CONSTANTS
  Legacy,   \* candidates of the baseline database
  Posts,    \* new Telegram posts after the migration
  Keys      \* digests of canonical urls and article bodies

ASSUME NewPosts == Legacy \cap Posts = {}
ASSUME LegacyIsFinite == IsFiniteSet(Legacy)

Candidates == Legacy \cup Posts

VARIABLES
  phase,       \* "baseline", "migrated", or "refused"
  key,         \* the keys of a candidate's snapshot
  fact,        \* its v2_candidates, v2_drafts, v2_remote_effects, v2_callbacks,
               \* v2_codex_requests and v2_manual_reviews
  story,       \* v2_candidate_bindings.story_id; a story is known by the
               \* candidates it was made for, {} is none
  keyStory,    \* v2_story_keys
  claimed,     \* candidates with a row of v2_story_claims
  held,        \* v2_candidate_bindings.held
  delivered,   \* stories with delivered_at; their claims have it too
  quarantined, \* stories with quarantined_at
  released     \* history: candidates a person released

vars == <<phase, key, fact, story, keyStory, claimed, held, delivered,
          quarantined, released>>
stories == <<story, keyStory, claimed, delivered, quarantined>>

(* effect: the notification and what precedes it; "offered" has a callback *)
(* or a Codex request but no effect, "open" is pending or ambiguous.       *)
(* sheet: the sheets_delivery effect; "confirmed" has an empty receipt_id. *)
Facts == [state  : {"pending", "progress", "review", "delivered"},
          draft  : {"none", "open", "review", "delivered"},
          effect : {"none", "offered", "open", "confirmed"},
          sheet  : {"none", "open", "confirmed", "receipted"},
          review : BOOLEAN]

Fresh == [state |-> "pending", draft |-> "none", effect |-> "none",
          sheet |-> "none", review |-> FALSE]

(* What the baseline can hold.  A delivery recorded on only one of the     *)
(* candidate and its draft, and one without a receipt (the column is newer *)
(* than the table), are what the migration looks for.                      *)
Baseline ==
  {f \in Facts :
     /\ f.state = "pending" => f.draft = "none"
     /\ f.draft = "none" => f.sheet = "none" /\ f.state # "delivered"
     /\ f.state \in {"progress", "delivered"} \/ f.draft # "none"
          => f.effect = "confirmed"
     /\ f.state = "review" => /\ f.draft \in {"none", "review"}
                              /\ f.effect \in {"open", "confirmed"}
                              /\ f.sheet \in {"none", "open"}
     /\ f.draft = "review" => f.state = "review"
     /\ "delivered" \in {f.state, f.draft}
          => f.sheet \in {"confirmed", "receipted"}
     /\ f.review <=> f.state = "review"}

MigrationTypeOK ==
  /\ phase \in {"baseline", "migrated", "refused"}
  /\ key \in [Candidates -> SUBSET Keys]
  /\ fact \in [Candidates -> Facts]
  /\ story \in [Candidates -> SUBSET Candidates]
  /\ keyStory \in [Keys -> SUBSET Candidates]
  /\ {claimed, held, released} \subseteq SUBSET Candidates
  /\ delivered \cup quarantined \subseteq SUBSET Candidates

Init ==
  /\ phase = "baseline"
  /\ \E k \in [Legacy -> {{}} \cup {{x} : x \in Keys}] :
       key = [c \in Candidates |-> IF c \in Legacy THEN k[c] ELSE {}]
  /\ \E f \in [Legacy -> Baseline] :
       fact = [c \in Candidates |-> IF c \in Legacy THEN f[c] ELSE Fresh]
  /\ story = [c \in Candidates |-> {}]
  /\ keyStory = [k \in Keys |-> {}]
  /\ claimed = {} /\ held = {} /\ released = {}
  /\ delivered = {} /\ quarantined = {}

-----------------------------------------------------------------------------
(* The truth of a candidate (_migration_candidate_truth) *)

DeliveredTruth(c) ==
  \/ fact[c].sheet = "receipted"
  \/ fact[c].state = "delivered" /\ fact[c].draft = "delivered"

UnclearTruth(c) ==
  \/ fact[c].review \/ "review" \in {fact[c].state, fact[c].draft}
  \/ "open" \in {fact[c].effect, fact[c].sheet}
  \/ (fact[c].state = "delivered") # (fact[c].draft = "delivered")

EffectTruth(c) ==
  fact[c].effect # "none" \/ fact[c].draft # "none" \/ fact[c].state # "pending"

-----------------------------------------------------------------------------
(* Its story *)

Group(c) ==
  {c} \cup {d \in Legacy : key[c] # {} /\ key[d] = key[c]}
Groups == {Group(c) : c \in Legacy}

Conflicting(G) ==
  LET D == {c \in G : DeliveredTruth(c)}
      S == {c \in G : EffectTruth(c)}
  IN  \/ \E c \in G : UnclearTruth(c)
      \/ Cardinality(D) > 1
      \/ D = {} /\ Cardinality(S) > 1

(* Who may win.  Among candidates without evidence the newest one does.    *)
\* Mutant: only a delivery counts, no other effect.
WinnersNewest(G) ==
  LET D == {c \in G : DeliveredTruth(c)}
  IN  IF Conflicting(G) THEN {} ELSE IF D # {} THEN D ELSE G
Winners(G) ==
  LET D == {c \in G : DeliveredTruth(c)}
      S == {c \in G : EffectTruth(c)}
  IN  IF Conflicting(G) THEN {}
      ELSE IF D # {} THEN D ELSE IF S # {} THEN S ELSE G

Choices ==
  {W \in SUBSET Legacy :
     \A G \in Groups : /\ W \cap G \subseteq Winners(G)
                       /\ Winners(G) # {} => Cardinality(W \cap G) = 1}

(* The rows of a loser go to manual review, those of a delivered winner    *)
(* catch up with its receipt.                                              *)
Lost(f) ==
  [f EXCEPT
     !.review = TRUE,
     !.state = IF @ = "delivered" THEN @ ELSE "review",
     !.draft = IF f.state = "delivered" \/ @ \in {"none", "delivered"}
               THEN @ ELSE "review"]

\* Mutant: a winner with a receipt keeps the states it had.
SettledLosers(c, W) == IF c \in W THEN fact[c] ELSE Lost(fact[c])
Settled(c, W) ==
  IF c \notin W THEN Lost(fact[c])
  ELSE IF ~DeliveredTruth(c) THEN fact[c]
  ELSE [fact[c] EXCEPT !.state = "delivered", !.draft = "delivered"]

(* All that a choice of winners makes of the rows.                         *)
Migrated(W) ==
  [fact |-> [c \in Candidates |->
               IF c \in Legacy THEN Settled(c, W) ELSE fact[c]],
   story |-> [c \in Candidates |-> IF c \in Legacy THEN Group(c) ELSE {}],
   claimed |-> W,
   delivered |-> {G \in Groups : \E c \in G : DeliveredTruth(c)},
   quarantined |-> {G \in Groups : Conflicting(G)}]

(* verify_invariants: outside quarantine, the markers of a delivery agree. *)
Sound(m) ==
  \A c \in Legacy : m.story[c] \notin m.quarantined =>
    LET marks == {m.fact[c].state = "delivered", m.fact[c].draft = "delivered",
                  c \in m.claimed /\ m.story[c] \in m.delivered,
                  m.fact[c].sheet = "receipted"}
    IN  Cardinality(marks) = 1

(* Candidates that are clean and first in line, held or not.               *)
Releasable ==
  {c \in claimed :
     /\ fact[c] = Fresh
     /\ story[c] \notin delivered \cup quarantined
     /\ \E k \in Keys : keyStory[k] = story[c]}

\* Mutant: only the losers are held.
HeldAtFirst(W) == Legacy \ W
Holding(W) == Legacy

(* One transaction: it is committed when the invariants hold of what it    *)
(* made, and else rolled back.  A story keeps the keys of its members      *)
(* whatever becomes of them.                                               *)
Migrate ==
  /\ phase = "baseline"
  /\ \E W \in Choices :
       LET m == Migrated(W)
       IN  /\ Sound(m)
           /\ fact' = m.fact /\ story' = m.story /\ claimed' = m.claimed
           /\ delivered' = m.delivered /\ quarantined' = m.quarantined
           /\ keyStory' = [k \in Keys |-> {c \in Legacy : k \in key[c]}]
           /\ held' = Holding(W) \cup Releasable'
  /\ phase' = "migrated"
  /\ UNCHANGED <<key, released>>

Refuse ==
  /\ phase = "baseline"
  /\ \E W \in Choices : ~Sound(Migrated(W))
  /\ phase' = "refused"
  /\ UNCHANGED <<key, fact, stories, held, released>>

-----------------------------------------------------------------------------
(* The backlog, held and released by a person *)

(* Holding again, or migrating schema 3 to 6, holds what is clean.         *)
Hold ==
  /\ phase = "migrated"
  /\ held' = held \cup Releasable
  /\ UNCHANGED <<phase, key, fact, stories, released>>

(* A reviewed manifest; one candidate of it that is no longer releasable   *)
(* refuses all of it.                                                      *)
Release ==
  /\ phase = "migrated"
  /\ \E S \in SUBSET (held \cap Releasable) :
       /\ S # {}
       /\ held' = held \ S
       /\ released' = released \cup S
  /\ UNCHANGED <<phase, key, fact, stories>>

-----------------------------------------------------------------------------
(* After it *)

(* A new post whose keys match no story is a candidate; one that matches   *)
(* several stories, or one that is quarantined, unclear or under review,   *)
(* quarantines them all.                                                   *)
Unsafe(G) ==
  \/ G \in quarantined
  \/ \E c \in Candidates : /\ story[c] = G
                           /\ \/ fact[c].review
                              \/ "open" \in {fact[c].effect, fact[c].sheet}

Arrive(p) ==
  /\ phase = "migrated" /\ key[p] = {}
  /\ \E ks \in (SUBSET Keys) \ {{}} :
       LET matches == {keyStory[k] : k \in ks} \ {{}}
           alias(G) == [k \in Keys |-> IF k \in ks /\ keyStory[k] = {}
                                       THEN G ELSE keyStory[k]]
       IN  /\ key' = [key EXCEPT ![p] = ks]
           /\ \/ /\ matches = {}
                 /\ story' = [story EXCEPT ![p] = {p}]
                 /\ claimed' = claimed \cup {p}
                 /\ keyStory' = alias({p})
                 /\ UNCHANGED <<held, quarantined>>
              \/ /\ Cardinality(matches) > 1 \/ \E G \in matches : Unsafe(G)
                 /\ quarantined' = quarantined \cup matches
                 /\ held' = held \cup {c \in Candidates : story[c] \in matches}
                 /\ UNCHANGED <<story, keyStory, claimed>>
              \/ /\ Cardinality(matches) = 1 /\ \A G \in matches : ~Unsafe(G)
                 /\ \E G \in matches : keyStory' = alias(G)
                 /\ UNCHANGED <<story, claimed, held, quarantined>>
  /\ UNCHANGED <<phase, fact, delivered, released>>

Eligible(c) ==
  /\ c \in claimed /\ c \notin held
  /\ story[c] \notin delivered \cup quarantined
  /\ \E k \in Keys : keyStory[k] = story[c]
  /\ fact[c].state # "delivered" /\ fact[c].draft # "delivered"
  /\ fact[c].sheet # "receipted"

(* A candidate begins with its notification, goes on through approval and  *)
(* generation, and ends with its row in the sheet.                         *)
Advance(c, f) ==
  /\ fact' = [fact EXCEPT ![c] = f]
  /\ UNCHANGED <<phase, key, stories, held, released>>

Notify(c) ==
  /\ Eligible(c) /\ fact[c].effect = "none"
  /\ Advance(c, [fact[c] EXCEPT !.effect = "open"])
Approve(c) ==
  /\ Eligible(c) /\ fact[c].effect = "open"
  /\ Advance(c, [fact[c] EXCEPT !.effect = "confirmed", !.state = "progress",
                                !.draft = "open"])
Write(c) ==
  /\ Eligible(c) /\ fact[c].draft = "open" /\ fact[c].sheet = "none"
  /\ Advance(c, [fact[c] EXCEPT !.sheet = "open"])
Confirm(c) ==
  /\ c \in Posts \cup released /\ fact[c].sheet = "open"
  /\ Advance(c, [fact[c] EXCEPT !.sheet = "receipted"])

Deliver(c) ==
  /\ c \in claimed \ held /\ fact[c].sheet = "receipted"
  /\ fact[c].state = "progress" /\ fact[c].draft = "open"
  /\ story[c] \notin delivered \cup quarantined
  /\ fact' = [fact EXCEPT ![c].state = "delivered", ![c].draft = "delivered"]
  /\ delivered' = delivered \cup {story[c]}
  /\ UNCHANGED <<phase, key, story, keyStory, claimed, quarantined, held,
                 released>>

Next ==
  \/ Migrate \/ Refuse \/ Hold \/ Release
  \/ \E p \in Posts : Arrive(p)
  \/ \E c \in Candidates :
       Notify(c) \/ Approve(c) \/ Write(c) \/ Confirm(c) \/ Deliver(c)

Spec == Init /\ [][Next]_vars

-----------------------------------------------------------------------------
(* Properties *)

Evidence(c) == <<fact[c].effect, fact[c].sheet>>
Begins(c) ==
  /\ Evidence(c)' # Evidence(c)
  /\ \E i \in {1, 2} : Evidence(c)'[i] = "open"

(* No effect begins for a candidate while another one of the same url has  *)
(* an effect of any kind, confirmed or unclear, before the migration or    *)
(* after it: a story is never sent a second time because its evidence was  *)
(* with another candidate (_migrate_baseline_receipt_first,                *)
(* _converge_stories).                                                     *)
OneCandidateGoesOn ==
  [][\A c, d \in Candidates :
       c # d /\ key[c] \cap key[d] # {} /\ Begins(c)
         => Evidence(d) = <<"none", "none">>]_vars

(* "A post-migration backlog is held by default" (operations.md:158): no   *)
(* effect begins for a candidate of the baseline that no person released.  *)
HeldByDefault ==
  [][\A c \in Legacy : Begins(c) => c \in released]_vars

(* The migration refuses a database only over a delivery that has no       *)
(* receipt: whatever else it finds it can put in order                     *)
(* (_validate_migration_before_commit).                                    *)
OnlyUnreceiptedRefuses ==
  phase = "refused" => \E c \in Legacy : /\ DeliveredTruth(c)
                                         /\ fact[c].sheet # "receipted"
=============================================================================
