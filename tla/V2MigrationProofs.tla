--------------------------- MODULE V2MigrationProofs ---------------------------
(***************************************************************************)
(* Theorems about V2Migration, for any baseline of finitely many           *)
(* candidates, any number of posts and any set of keys.                    *)
(***************************************************************************)
EXTENDS V2Migration, FiniteSetTheorems, TLAPS

-----------------------------------------------------------------------------
(* The inductive invariant *)

(* A baseline candidate knows at most one key. *)
OneKey == \A c \in Legacy : \A k, l \in key[c] : k = l

(* Nothing but the baseline is there before the migration. *)
Untouched ==
  phase # "migrated" =>
    /\ claimed = {} /\ released = {} /\ delivered = {} /\ quarantined = {}
    /\ \A c \in Candidates : story[c] = {}
    /\ \A p \in Posts : fact[p] = Fresh /\ key[p] = {}

FromBaseline == phase = "baseline" => \A c \in Legacy : fact[c] \in Baseline

(* The keys of a candidate are its story's. *)
StoryOwnsKeys ==
  \A c \in Candidates : story[c] # {} => \A k \in key[c] : keyStory[k] = story[c]

(* A story has one claim; every candidate that has a story and is not of   *)
(* the baseline claims it and has keys.                                    *)
OneClaim ==
  /\ \A c \in claimed : c \in Candidates /\ c \in story[c]
  /\ \A p \in Posts : story[p] # {} => key[p] # {}
  /\ \A c, d \in claimed : story[c] = story[d] => c = d
  /\ \A c \in Candidates : story[c] # {} => c \in Legacy \cup claimed
  /\ phase = "migrated" => \A c \in Legacy : story[c] # {}

NoEvidence(c) == fact[c].effect = "none" /\ fact[c].sheet = "none"

(* Evidence is with the claim, unless the story is closed. *)
EvidenceIsClaimed ==
  phase = "migrated" =>
    \A c \in Candidates \ claimed :
      story[c] \notin delivered \cup quarantined \/ story[c] = {} => NoEvidence(c)

(* What a person released, and what is new, goes step by step. *)
InSteps ==
  \A c \in Posts \cup released :
    /\ fact[c].sheet # "none" => fact[c].draft # "none"
    /\ fact[c].draft # "none" => fact[c].effect = "confirmed"

HeldUntilReleased == phase = "migrated" => Legacy \subseteq held \cup released

IInv == /\ MigrationTypeOK /\ OneKey /\ Untouched /\ FromBaseline
        /\ StoryOwnsKeys /\ OneClaim /\ EvidenceIsClaimed /\ InSteps
        /\ HeldUntilReleased /\ released \subseteq claimed
        /\ OnlyUnreceiptedRefuses

-----------------------------------------------------------------------------
(* What the choice of winners comes to *)

(* A set of which nothing can be said to be larger than one has no two     *)
(* members.                                                                *)
LEMMA AtMostOne ==
  ASSUME NEW S, IsFiniteSet(S), ~(Cardinality(S) > 1),
         NEW x \in S, NEW y \in S
  PROVE  x = y
<1>1. Cardinality({x}) = 1 /\ IsFiniteSet({x}) /\ {x} \in SUBSET S
  BY FS_Singleton
<1>2. Cardinality(S) \in Nat
  BY FS_CardinalityType
<1>3. Cardinality({x}) <= Cardinality(S)
  BY <1>1, FS_Subset
<1>4. S = {x}
  BY <1>1, <1>2, <1>3, FS_Subset
<1> QED
  BY <1>4

LEMMA GroupsOf ==
  /\ \A c \in Legacy : c \in Group(c) /\ Group(c) \subseteq Legacy
  /\ \A c \in Legacy : \A d \in Group(c) : Group(d) = Group(c)
  BY DEF Group

LEMMA OneWinner ==
  ASSUME NEW W \in Choices, NEW G \in Groups
  PROVE  /\ W \cap G \subseteq Winners(G)
         /\ Winners(G) # {} => \E w : W \cap G = {w}
<1>1. W \cap G \subseteq Winners(G)
      /\ (Winners(G) # {} => Cardinality(W \cap G) = 1) /\ W \in SUBSET Legacy
  BY DEF Choices
<1>2. IsFiniteSet(W \cap G)
  BY <1>1, LegacyIsFinite, FS_Subset
<1> QED
  BY <1>1, <1>2, FS_Singleton

(* In a story without conflict, what is delivered is the only delivery and *)
(* wins, else what has an effect is the only one to have one and wins.     *)
LEMMA Decided ==
  ASSUME NEW W \in Choices, NEW c \in Legacy, ~Conflicting(Group(c)),
         NEW d \in Group(c)
  PROVE  /\ ~UnclearTruth(d)
         /\ DeliveredTruth(d) => W \cap Group(c) = {d}
         /\ EffectTruth(d) /\ (\A e \in Group(c) : ~DeliveredTruth(e))
              => W \cap Group(c) = {d}
<1> DEFINE G == Group(c)
           D == {e \in G : DeliveredTruth(e)}
           S == {e \in G : EffectTruth(e)}
<1>1. G \in Groups /\ G \subseteq Legacy
  BY GroupsOf DEF Groups
<1>2. IsFiniteSet(D) /\ IsFiniteSet(S)
  BY <1>1, LegacyIsFinite, FS_Subset
<1>3. ~UnclearTruth(d) /\ ~(Cardinality(D) > 1)
      /\ (D = {} => ~(Cardinality(S) > 1))
  BY DEF Conflicting
<1>4. ASSUME DeliveredTruth(d) PROVE W \cap G = {d}
  <2>1. D = {d}
    BY <1>2, <1>3, <1>4, AtMostOne
  <2>2. Winners(G) = {d}
    BY <2>1 DEF Winners
  <2> QED
    BY <1>1, <2>2, OneWinner
<1>5. ASSUME EffectTruth(d), \A e \in G : ~DeliveredTruth(e)
      PROVE  W \cap G = {d}
  <2>1. D = {} /\ S = {d}
    BY <1>2, <1>3, <1>5, AtMostOne
  <2>2. ~Conflicting(G) /\ D = {} /\ S # {}
    BY <2>1
  <2>3. Winners(G) = S
    BY <2>2 DEF Winners
  <2> QED
    BY <1>1, <2>1, <2>3, OneWinner
<1> QED
  BY <1>3, <1>4, <1>5

LEMMA SettledFacts ==
  ASSUME MigrationTypeOK, NEW c \in Legacy, NEW W
  PROVE  /\ Settled(c, W) \in Facts
         /\ Settled(c, W).effect = fact[c].effect
         /\ Settled(c, W).sheet = fact[c].sheet
<1>1. fact[c] \in Facts
  BY DEF MigrationTypeOK, Candidates
<1> QED
  BY <1>1, SMTT(30), ZenonT(40) DEF Settled, Lost, Facts

(* With a receipt for every delivery, what the migration makes is sound. *)
LEMMA ReceiptedIsSound ==
  ASSUME MigrationTypeOK, NEW W \in Choices,
         \A c \in Legacy : DeliveredTruth(c) => fact[c].sheet = "receipted"
  PROVE  Sound(Migrated(W))
<1> DEFINE m == Migrated(W)
<1> SUFFICES ASSUME NEW c \in Legacy, m.story[c] \notin m.quarantined
             PROVE  \E b : {m.fact[c].state = "delivered", m.fact[c].draft = "delivered",
                             c \in m.claimed /\ m.story[c] \in m.delivered,
                             m.fact[c].sheet = "receipted"} = {b}
  BY FS_Singleton DEF Sound
<1>1. /\ m.story[c] = Group(c) /\ m.claimed = W
      /\ m.fact[c] = Settled(c, W)
      /\ m.delivered = {G \in Groups : \E d \in G : DeliveredTruth(d)}
      /\ m.quarantined = {G \in Groups : Conflicting(G)}
  BY DEF Migrated, Candidates
<1>2. Group(c) \in Groups /\ c \in Group(c)
  BY GroupsOf DEF Groups
<1>3. ~Conflicting(Group(c))
  BY <1>1, <1>2
<1>4. ~UnclearTruth(c)
      /\ (DeliveredTruth(c) => W \cap Group(c) = {c})
  BY <1>2, <1>3, Decided
<1>5. fact[c] \in Facts
  BY DEF MigrationTypeOK, Candidates
<1>6. CASE DeliveredTruth(c)
  <2>1. c \in W /\ m.story[c] \in m.delivered
    BY <1>1, <1>2, <1>4, <1>6
  <2>2. /\ m.fact[c].state = "delivered" /\ m.fact[c].draft = "delivered"
        /\ m.fact[c].sheet = "receipted"
    BY <1>1, <1>5, <1>6, <2>1 DEF Settled, Facts
  <2> QED
    BY <1>1, <2>1, <2>2
<1>7. CASE ~DeliveredTruth(c)
  <2>1. /\ fact[c].state # "delivered" /\ fact[c].draft # "delivered"
        /\ fact[c].sheet # "receipted"
    BY <1>4, <1>7 DEF UnclearTruth, DeliveredTruth
  <2>2. /\ m.fact[c].state # "delivered" /\ m.fact[c].draft # "delivered"
        /\ m.fact[c].sheet # "receipted"
    BY <1>1, <1>5, <1>7, <2>1 DEF Settled, Lost, Facts
  <2>3. ~(c \in m.claimed /\ m.story[c] \in m.delivered)
    <3> SUFFICES ASSUME c \in W, NEW d \in Group(c), DeliveredTruth(d)
                 PROVE  FALSE
      BY <1>1
    <3>1. W \cap Group(c) = {d}
      BY <1>3, Decided
    <3> QED
      BY <1>2, <1>7, <3>1
  <2> QED
    BY <2>2, <2>3
<1> QED
  BY <1>6, <1>7

-----------------------------------------------------------------------------
(* The invariant *)

USE NewPosts DEF Candidates, stories

LEMMA InitInv == Init => IInv
<1> SUFFICES ASSUME Init PROVE IInv
  OBVIOUS
<1>1. \A c \in Legacy : key[c] \in {{}} \cup {{x} : x \in Keys}
  BY DEF Init
<1>2. \A c \in Legacy : fact[c] \in Baseline
  BY DEF Init
<1>3. Baseline \subseteq Facts /\ Fresh \in Facts
  BY DEF Baseline, Facts, Fresh
<1>4. MigrationTypeOK
  BY <1>1, <1>2, <1>3 DEF Init, MigrationTypeOK
<1>5. OneKey
  BY <1>1 DEF OneKey
<1>6. Untouched /\ StoryOwnsKeys /\ OneClaim /\ EvidenceIsClaimed
      /\ HeldUntilReleased /\ released \subseteq claimed /\ OnlyUnreceiptedRefuses
  BY DEF Init, Untouched, StoryOwnsKeys, OneClaim, EvidenceIsClaimed,
         HeldUntilReleased, OnlyUnreceiptedRefuses
<1>7. FromBaseline /\ InSteps
  BY <1>2 DEF Init, FromBaseline, InSteps, Fresh
<1> QED
  BY <1>4, <1>5, <1>6, <1>7 DEF IInv

LEMMA MigrateInv ==
  ASSUME IInv, Migrate
  PROVE  IInv'
<1> PICK W \in Choices :
      /\ fact' = Migrated(W).fact /\ story' = Migrated(W).story
      /\ claimed' = Migrated(W).claimed /\ delivered' = Migrated(W).delivered
      /\ quarantined' = Migrated(W).quarantined
      /\ keyStory' = [k \in Keys |-> {c \in Legacy : k \in key[c]}]
      /\ held' = Holding(W) \cup Releasable'
  BY DEF Migrate
<1>1. /\ phase = "baseline" /\ phase' = "migrated"
      /\ key' = key /\ released' = released
  BY DEF Migrate
<1>2. /\ fact' = [c \in Candidates |-> IF c \in Legacy THEN Settled(c, W) ELSE fact[c]]
      /\ story' = [c \in Candidates |-> IF c \in Legacy THEN Group(c) ELSE {}]
      /\ claimed' = W /\ W \subseteq Legacy
      /\ delivered' = {G \in Groups : \E c \in G : DeliveredTruth(c)}
      /\ quarantined' = {G \in Groups : Conflicting(G)}
  BY DEF Migrated, Choices
<1>3. Groups \subseteq SUBSET Legacy
  BY GroupsOf DEF Groups
<1>4. MigrationTypeOK'
  <2>1. fact' \in [Candidates -> Facts]
    BY <1>2, SettledFacts DEF IInv, MigrationTypeOK
  <2>2. held' \subseteq Candidates
    BY <1>2 DEF Holding, Releasable
  <2> QED
    BY <1>1, <1>2, <1>3, <2>1, <2>2, GroupsOf DEF IInv, MigrationTypeOK
<1>5. OneKey' /\ Untouched' /\ FromBaseline' /\ HeldUntilReleased'
      /\ OnlyUnreceiptedRefuses' /\ (released \subseteq claimed)'
  BY <1>1, <1>2 DEF IInv, OneKey, Untouched, FromBaseline, HeldUntilReleased,
                    OnlyUnreceiptedRefuses, Holding
<1>6. StoryOwnsKeys'
  <2> SUFFICES ASSUME NEW c \in Legacy, NEW k \in key[c]
               PROVE  keyStory'[k] = Group(c)
    BY <1>1, <1>2, SMTT(30), ZenonT(40) DEF StoryOwnsKeys
  <2>1. k \in Keys
    BY DEF IInv, MigrationTypeOK
  <2>2. \A d \in Legacy : k \in key[d] <=> key[d] = key[c]
    <3>1. \A d \in Legacy : k \in key[d] => key[d] = {k}
      BY DEF IInv, OneKey
    <3> QED
      BY <3>1
  <2> QED
    BY <2>1, <2>2 DEF Group
<1>7. OneClaim'
  <2>1. ASSUME NEW c \in W, NEW d \in W, Group(c) = Group(d) PROVE c = d
    <3>1. {c, d} \subseteq W \cap Group(c) /\ Group(c) \in Groups
      BY <1>2, <2>1, GroupsOf DEF Groups
    <3> QED
      BY <3>1, OneWinner
  <2>2. \A c \in Legacy : story'[c] = Group(c) /\ c \in Group(c)
    BY <1>2, GroupsOf
  <2>3. \A c \in Candidates : story'[c] # {} => c \in Legacy
    BY <1>2
  <2>4. \A c, d \in claimed' : story'[c] = story'[d] => c = d
    BY <1>2, <2>1, <2>2
  <2>5. \A c \in claimed' : c \in Candidates /\ c \in story'[c]
    BY <1>2, <2>2
  <2>6. \A p \in Posts : story'[p] = {}
    BY <2>3
  <2>7. \A c \in Legacy : story'[c] # {}
    BY <2>2
  <2> QED
    BY <2>3, <2>4, <2>5, <2>6, <2>7 DEF OneClaim
<1>8. EvidenceIsClaimed'
  <2> SUFFICES ASSUME NEW c \in Candidates, c \notin W,
                      story'[c] \notin delivered' \cup quarantined' \/ story'[c] = {}
               PROVE  NoEvidence(c)'
    BY <1>1, <1>2 DEF EvidenceIsClaimed
  <2>1. CASE c \in Posts
    BY <1>1, <1>2, <2>1 DEF IInv, Untouched, NoEvidence, Fresh
  <2>2. CASE c \in Legacy
    <3>1. Group(c) \in Groups /\ c \in Group(c)
      BY <2>2, GroupsOf DEF Groups
    <3>2. ~Conflicting(Group(c)) /\ \A d \in Group(c) : ~DeliveredTruth(d)
      BY <1>2, <2>2, <3>1
    <3>3. ~EffectTruth(c)
      BY <2>2, <3>1, <3>2, Decided
    <3>4. fact[c].effect = "none" /\ fact[c].sheet = "none"
      BY <1>1, <2>2, <3>3 DEF EffectTruth, IInv, FromBaseline, Baseline
    <3> QED
      BY <1>2, <2>2, <3>4, SettledFacts DEF NoEvidence, IInv
  <2> QED
    BY <2>1, <2>2
<1>9. InSteps'
  BY <1>1, <1>2 DEF IInv, InSteps, Untouched, Fresh
<1> QED
  BY <1>4, <1>5, <1>6, <1>7, <1>8, <1>9 DEF IInv

LEMMA RefuseInv ==
  ASSUME IInv, Refuse
  PROVE  IInv'
<1>1. /\ phase = "baseline" /\ phase' = "refused"
      /\ UNCHANGED <<key, fact, story, keyStory, claimed, delivered, quarantined,
                     held, released>>
  BY DEF Refuse
<1>2. \E c \in Legacy : DeliveredTruth(c) /\ fact[c].sheet # "receipted"
  BY ReceiptedIsSound DEF Refuse, IInv
<1>3. OnlyUnreceiptedRefuses'
  BY <1>1, <1>2 DEF OnlyUnreceiptedRefuses, DeliveredTruth
<1>4. MigrationTypeOK' /\ OneKey' /\ Untouched' /\ StoryOwnsKeys' /\ InSteps'
  BY <1>1 DEF IInv, MigrationTypeOK, OneKey, Untouched, StoryOwnsKeys, InSteps
<1> QED
  BY <1>1, <1>3, <1>4 DEF IInv, FromBaseline, OneClaim, EvidenceIsClaimed,
                          HeldUntilReleased

(* What is released is fresh. *)
LEMMA HoldReleaseInv ==
  ASSUME IInv, Hold \/ Release
  PROVE  IInv'
<1>1. /\ phase = "migrated"
      /\ UNCHANGED <<phase, key, fact, story, keyStory, claimed, delivered,
                     quarantined>>
  BY DEF Hold, Release
<1>2. /\ held' \subseteq Candidates /\ held \cup released \subseteq held' \cup released'
      /\ released' \subseteq released \cup Releasable
  BY DEF Hold, Release, Releasable, IInv, MigrationTypeOK, OneClaim
<1>3. \A c \in Releasable : c \in claimed /\ fact[c] = Fresh
  BY DEF Releasable
<1>4. MigrationTypeOK' /\ InSteps' /\ (released \subseteq claimed)'
      /\ HeldUntilReleased'
  <2>1. MigrationTypeOK'
    BY <1>1, <1>2, <1>3 DEF IInv, MigrationTypeOK
  <2>2. InSteps'
    BY <1>1, <1>2, <1>3 DEF IInv, InSteps, Fresh
  <2> QED
    BY <1>1, <1>2, <1>3, <2>1, <2>2 DEF IInv, HeldUntilReleased
<1> QED
  BY <1>1, <1>4 DEF IInv, OneKey, Untouched, FromBaseline, StoryOwnsKeys, OneClaim,
                    EvidenceIsClaimed, NoEvidence, OnlyUnreceiptedRefuses

LEMMA ArriveInv ==
  ASSUME IInv, NEW p \in Posts, Arrive(p)
  PROVE  IInv'
<1> DEFINE Matches(ks) == {keyStory[k] : k \in ks} \ {{}}
           Alias(ks, G) == [k \in Keys |-> IF k \in ks /\ keyStory[k] = {}
                                           THEN G ELSE keyStory[k]]
<1> PICK ks \in (SUBSET Keys) \ {{}} :
      /\ key' = [key EXCEPT ![p] = ks]
      /\ \/ /\ Matches(ks) = {}
            /\ story' = [story EXCEPT ![p] = {p}]
            /\ claimed' = claimed \cup {p}
            /\ keyStory' = Alias(ks, {p})
            /\ UNCHANGED <<held, quarantined>>
         \/ /\ quarantined' = quarantined \cup Matches(ks)
            /\ held' = held \cup {c \in Candidates : story[c] \in Matches(ks)}
            /\ UNCHANGED <<story, keyStory, claimed>>
         \/ /\ \E G \in Matches(ks) : keyStory' = Alias(ks, G)
            /\ UNCHANGED <<story, claimed, held, quarantined>>
  BY Zenon DEF Arrive
<1>1. /\ phase = "migrated" /\ key[p] = {}
      /\ UNCHANGED <<phase, fact, delivered, released>>
  BY DEF Arrive
<1>2. /\ story[p] = {} /\ p \notin claimed /\ p \notin Legacy
      /\ \A c \in Candidates : c # p => key'[c] = key[c]
      /\ key'[p] = ks
  BY <1>1 DEF IInv, OneClaim, MigrationTypeOK
<1>3. Matches(ks) \subseteq SUBSET Candidates
  BY DEF IInv, MigrationTypeOK
<1>4. held \subseteq held' /\ held' \subseteq Candidates
      /\ quarantined \subseteq quarantined' /\ quarantined' \subseteq SUBSET Candidates
      /\ claimed \subseteq claimed'
  BY <1>3 DEF IInv, MigrationTypeOK
<1>5. MigrationTypeOK'
  <2>1. key' \in [Candidates -> SUBSET Keys]
    BY DEF IInv, MigrationTypeOK
  <2>2. keyStory' \in [Keys -> SUBSET Candidates]
    BY <1>3 DEF IInv, MigrationTypeOK
  <2>3. story' \in [Candidates -> SUBSET Candidates] /\ claimed' \subseteq Candidates
    BY DEF IInv, MigrationTypeOK
  <2> QED
    BY <1>1, <1>4, <2>1, <2>2, <2>3 DEF IInv, MigrationTypeOK
<1>6. StoryOwnsKeys'
  <2> SUFFICES ASSUME NEW c \in Candidates, story'[c] # {}, NEW k \in key'[c]
               PROVE  keyStory'[k] = story'[c]
    BY DEF StoryOwnsKeys
  <2>1. CASE c = p
    <3>1. /\ Matches(ks) = {} /\ story' = [story EXCEPT ![p] = {p}]
          /\ keyStory' = Alias(ks, {p}) /\ k \in ks
      BY <1>2, <2>1
    <3>2. keyStory[k] = {}
      BY <3>1
    <3> QED
      BY <2>1, <3>1, <3>2 DEF IInv, MigrationTypeOK
  <2>2. CASE c # p
    <3>1. story'[c] = story[c] /\ k \in Keys /\ keyStory[k] = story[c]
      BY <1>2, <2>2 DEF IInv, MigrationTypeOK, StoryOwnsKeys
    <3> QED
      BY <3>1
  <2> QED
    BY <2>1, <2>2
<1>7. OneClaim'
  <2>1. CASE UNCHANGED <<story, claimed>>
    BY <1>1, <1>2, <2>1 DEF IInv, OneClaim
  <2>2. CASE story' = [story EXCEPT ![p] = {p}] /\ claimed' = claimed \cup {p}
    <3>1. \A c \in Candidates : story'[c] = IF c = p THEN {p} ELSE story[c]
      BY <2>2 DEF IInv, MigrationTypeOK
    <3>2. \A c \in claimed' : c \in Candidates /\ c \in story'[c]
      BY <2>2, <3>1 DEF IInv, OneClaim
    <3>3. \A c, d \in claimed' : story'[c] = story'[d] => c = d
      BY <1>2, <2>2, <3>1 DEF IInv, OneClaim
    <3>4. \A q \in Posts : story'[q] # {} => key'[q] # {}
      <4>1. ks # {}
        OBVIOUS
      <4> QED
        BY <1>2, <3>1, <4>1 DEF IInv, OneClaim
    <3>5. /\ \A c \in Candidates : story'[c] # {} => c \in Legacy \cup claimed'
          /\ phase' = "migrated" => \A c \in Legacy : story'[c] # {}
      BY <1>1, <1>2, <2>2, <3>1 DEF IInv, OneClaim
    <3> QED
      BY <3>2, <3>3, <3>4, <3>5 DEF OneClaim
  <2> QED
    BY <2>1, <2>2
<1>8. EvidenceIsClaimed'
  <2>1. \A c \in Candidates \ claimed' : story'[c] = story[c]
    BY DEF IInv, MigrationTypeOK
  <2> QED
    BY <1>1, <1>4, <2>1 DEF IInv, EvidenceIsClaimed, NoEvidence
<1>9. OneKey' /\ Untouched' /\ FromBaseline' /\ InSteps' /\ HeldUntilReleased'
      /\ (released \subseteq claimed)' /\ OnlyUnreceiptedRefuses'
  BY <1>1, <1>2, <1>4 DEF IInv, OneKey, Untouched, FromBaseline, InSteps,
                          HeldUntilReleased, OnlyUnreceiptedRefuses
<1> QED
  BY <1>5, <1>6, <1>7, <1>8, <1>9 DEF IInv

(* A step of a candidate that may go out keeps its story as it is. *)
LEMMA AdvanceInv ==
  ASSUME IInv, NEW c \in claimed, NEW f \in Facts, Advance(c, f),
         c \in Posts \cup released =>
           /\ f.sheet # "none" => f.draft # "none"
           /\ f.draft # "none" => f.effect = "confirmed"
  PROVE  IInv'
<1>1. /\ c \in Candidates /\ phase = "migrated"
      /\ fact' = [fact EXCEPT ![c] = f]
      /\ UNCHANGED <<phase, key, story, keyStory, claimed, delivered, quarantined,
                     held, released>>
  BY DEF Advance, IInv, OneClaim, Untouched
<1>2. MigrationTypeOK' /\ InSteps'
  BY <1>1 DEF IInv, MigrationTypeOK, InSteps
<1>3. OneKey' /\ Untouched' /\ FromBaseline' /\ StoryOwnsKeys' /\ OneClaim'
      /\ HeldUntilReleased' /\ (released \subseteq claimed)' /\ OnlyUnreceiptedRefuses'
  BY <1>1 DEF IInv, OneKey, Untouched, FromBaseline, StoryOwnsKeys, OneClaim,
              HeldUntilReleased, OnlyUnreceiptedRefuses
<1>4. EvidenceIsClaimed'
  BY <1>1 DEF IInv, EvidenceIsClaimed, NoEvidence, MigrationTypeOK
<1> QED
  BY <1>2, <1>3, <1>4 DEF IInv

(* Each step of a candidate is one of what it may still do. *)
LEMMA StepsAdvance ==
  ASSUME IInv, NEW c \in Candidates,
         Notify(c) \/ Approve(c) \/ Write(c) \/ Confirm(c)
  PROVE  IInv'
<1>1. fact[c] \in Facts
  BY DEF IInv, MigrationTypeOK
<1>2. CASE Notify(c) \/ Approve(c) \/ Write(c)
  <2>1. c \in claimed
    BY <1>2 DEF Notify, Approve, Write, Eligible
  <2>2. PICK f \in Facts :
          /\ Advance(c, f)
          /\ c \in Posts \cup released =>
               /\ f.sheet # "none" => f.draft # "none"
               /\ f.draft # "none" => f.effect = "confirmed"
    <3>1. CASE Notify(c)
      BY <1>1, <3>1 DEF Notify, Facts, IInv, InSteps
    <3>2. CASE Approve(c)
      <4> DEFINE f == [fact[c] EXCEPT !.effect = "confirmed", !.state = "progress",
                                      !.draft = "open"]
      <4>1. Advance(c, f)
        BY <3>2 DEF Approve
      <4>2. f \in Facts /\ f.effect = "confirmed" /\ f.draft = "open"
        BY <1>1 DEF Facts
      <4> QED
        BY <4>1, <4>2
    <3>3. CASE Write(c)
      BY <1>1, <3>3 DEF Write, Facts, IInv, InSteps
    <3> QED
      BY <1>2, <3>1, <3>2, <3>3
  <2> QED
    BY <2>1, <2>2, AdvanceInv
<1>3. CASE Confirm(c)
  <2> DEFINE f == [fact[c] EXCEPT !.sheet = "receipted"]
  <2>1. f \in Facts /\ Advance(c, f) /\ c \in Posts \cup released
        /\ fact[c].sheet = "open"
    BY <1>1, <1>3 DEF Confirm, Facts
  <2>2. /\ f.draft # "none" /\ (f.draft # "none" => f.effect = "confirmed")
    BY <1>1, <2>1 DEF IInv, InSteps, Facts
  <2>3. c \in claimed
    <3>1. phase = "migrated"
      BY <2>1 DEF IInv, Untouched, Fresh
    <3>2. c \in Posts => story[c] = {} \/ c \in claimed
      BY DEF IInv, OneClaim
    <3> QED
      BY <2>1, <3>1, <3>2 DEF IInv, EvidenceIsClaimed, NoEvidence
  <2> QED
    BY <2>1, <2>2, <2>3, AdvanceInv
<1> QED
  BY <1>2, <1>3

LEMMA DeliverInv ==
  ASSUME IInv, NEW c \in Candidates, Deliver(c)
  PROVE  IInv'
<1>1. /\ c \in claimed /\ fact[c] \in Facts
      /\ fact[c].draft = "open"
      /\ fact' = [fact EXCEPT ![c].state = "delivered", ![c].draft = "delivered"]
      /\ delivered' = delivered \cup {story[c]}
      /\ UNCHANGED <<phase, key, story, keyStory, claimed, quarantined, held,
                     released>>
  BY DEF Deliver, IInv, MigrationTypeOK
<1>2. phase = "migrated"
  BY <1>1 DEF IInv, Untouched
<1>3. \A d \in Candidates : /\ fact'[d].effect = fact[d].effect
                            /\ fact'[d].sheet = fact[d].sheet
                            /\ fact'[d].draft = "none" <=> fact[d].draft = "none"
                            /\ fact'[d] \in Facts
  BY <1>1 DEF IInv, MigrationTypeOK, Facts
<1>4. MigrationTypeOK'
  <2>1. fact' \in [Candidates -> Facts]
    BY <1>1, <1>3 DEF IInv, MigrationTypeOK
  <2> QED
    BY <1>1, <2>1 DEF IInv, MigrationTypeOK
<1>5. InSteps' /\ EvidenceIsClaimed'
  BY <1>1, <1>2, <1>3 DEF IInv, MigrationTypeOK, InSteps, EvidenceIsClaimed, NoEvidence
<1>6. OneKey' /\ Untouched' /\ FromBaseline' /\ StoryOwnsKeys' /\ OneClaim'
      /\ HeldUntilReleased' /\ (released \subseteq claimed)' /\ OnlyUnreceiptedRefuses'
  BY <1>1, <1>2 DEF IInv, OneKey, Untouched, FromBaseline, StoryOwnsKeys, OneClaim,
                    HeldUntilReleased, OnlyUnreceiptedRefuses
<1> QED
  BY <1>4, <1>5, <1>6 DEF IInv

LEMMA Invariance == Spec => []IInv
<1>1. IInv /\ [Next]_vars => IInv'
  <2> SUFFICES ASSUME IInv, [Next]_vars PROVE IInv'
    OBVIOUS
  <2>1. CASE Migrate
    BY <2>1, MigrateInv
  <2>2. CASE Refuse
    BY <2>2, RefuseInv
  <2>3. CASE Hold \/ Release
    BY <2>3, HoldReleaseInv
  <2>4. CASE \E p \in Posts : Arrive(p)
    BY <2>4, ArriveInv
  <2>5. CASE \E c \in Candidates : Notify(c) \/ Approve(c) \/ Write(c) \/ Confirm(c)
    BY <2>5, StepsAdvance
  <2>6. CASE \E c \in Candidates : Deliver(c)
    BY <2>6, DeliverInv
  <2>7. CASE UNCHANGED vars
    BY <2>7 DEF vars, IInv, MigrationTypeOK, OneKey, Untouched, FromBaseline,
      StoryOwnsKeys, OneClaim, EvidenceIsClaimed, NoEvidence, InSteps,
      HeldUntilReleased, OnlyUnreceiptedRefuses, DeliveredTruth
  <2> QED
    BY <2>1, <2>2, <2>3, <2>4, <2>5, <2>6, <2>7 DEF Next
<1> QED
  BY <1>1, InitInv, PTL DEF Spec

-----------------------------------------------------------------------------
(* The theorems *)

(* Every variable keeps its type. *)
THEOREM TypeCorrect == Spec => []MigrationTypeOK
BY Invariance, PTL DEF IInv

(* A database is refused over an unreceipted delivery and nothing else     *)
(* (_validate_migration_before_commit).                                    *)
THEOREM RefusalHasAReason == Spec => []OnlyUnreceiptedRefuses
BY Invariance, PTL DEF IInv

(* An effect begins only for a candidate that is eligible. *)
LEMMA BeginsEligibly ==
  ASSUME IInv, [Next]_vars, NEW c \in Candidates, Begins(c)
  PROVE  phase = "migrated" /\ Eligible(c)
<1>1. ~UNCHANGED fact
  BY DEF Begins, Evidence
<1>2. CASE Migrate
  <2> SUFFICES fact'[c].effect = fact[c].effect /\ fact'[c].sheet = fact[c].sheet
    BY DEF Begins, Evidence
  <2>1. PICK W \in Choices : fact' = Migrated(W).fact
    BY <1>2 DEF Migrate
  <2> QED
    BY <2>1, SettledFacts DEF Migrated, IInv
<1>3. CASE \E d \in Candidates : Deliver(d)
  <2> SUFFICES fact'[c].effect = fact[c].effect /\ fact'[c].sheet = fact[c].sheet
    BY DEF Begins, Evidence
  <2> QED
    BY <1>3 DEF Deliver, IInv, MigrationTypeOK, Facts
<1>4. CASE \E d \in Candidates : Confirm(d)
  <2> PICK d \in Candidates : Confirm(d)
    BY <1>4
  <2>1. fact[d] \in Facts /\ fact[d].sheet = "open" /\ d \in Posts \cup released
        /\ fact' = [fact EXCEPT ![d] = [fact[d] EXCEPT !.sheet = "receipted"]]
    BY DEF Confirm, Advance, IInv, MigrationTypeOK
  <2>2. fact[d].effect = "confirmed"
    BY <2>1 DEF IInv, InSteps
  <2>3. c = d => fact'[c].effect = "confirmed" /\ fact'[c].sheet = "receipted"
    BY <2>1, <2>2 DEF IInv, MigrationTypeOK, Facts
  <2>4. c # d => fact'[c] = fact[c]
    BY <2>1 DEF IInv, MigrationTypeOK
  <2> QED
    BY <2>3, <2>4 DEF Begins, Evidence
<1>5. CASE \E d \in Candidates : Notify(d) \/ Approve(d) \/ Write(d)
  <2> PICK d \in Candidates : Notify(d) \/ Approve(d) \/ Write(d)
    BY <1>5
  <2>1. Eligible(d) /\ \E f : fact' = [fact EXCEPT ![d] = f]
    BY DEF Notify, Approve, Write, Advance
  <2>2. c = d
    BY <2>1 DEF Begins, Evidence, IInv, MigrationTypeOK
  <2> QED
    BY <2>1, <2>2 DEF Eligible, IInv, Untouched
<1> QED
  BY <1>1, <1>2, <1>3, <1>4, <1>5 DEF Next, vars, Refuse, Hold, Release, Arrive

(* No effect begins for a candidate of the baseline that no person         *)
(* released (_migrate_baseline_receipt_first, release_held_candidates).    *)
THEOREM BacklogIsHeld == Spec => HeldByDefault
<1>1. IInv /\ [Next]_vars => [\A c \in Legacy : Begins(c) => c \in released]_vars
  <2> SUFFICES ASSUME IInv, [Next]_vars, NEW c \in Legacy, Begins(c)
               PROVE  c \in released
    OBVIOUS
  <2>1. phase = "migrated" /\ c \notin held
    BY BeginsEligibly DEF Eligible
  <2> QED
    BY <2>1 DEF IInv, HeldUntilReleased
<1> QED
  BY <1>1, Invariance, PTL DEF Spec, HeldByDefault

(* No effect begins for a candidate while another one of the same url has  *)
(* an effect (_migrate_baseline_receipt_first, _converge_stories).         *)
THEOREM OneGoesOn == Spec => OneCandidateGoesOn
<1>1. IInv /\ [Next]_vars =>
        [\A c, d \in Candidates :
           c # d /\ key[c] \cap key[d] # {} /\ Begins(c)
             => Evidence(d) = <<"none", "none">>]_vars
  <2> SUFFICES ASSUME IInv, [Next]_vars, NEW c \in Candidates, NEW d \in Candidates,
                      c # d, key[c] \cap key[d] # {}, Begins(c)
               PROVE  NoEvidence(d)
    BY DEF Evidence, NoEvidence
  <2>1. /\ phase = "migrated" /\ c \in claimed
        /\ story[c] \notin delivered \cup quarantined
    BY BeginsEligibly DEF Eligible
  <2>2. story[d] = {} \/ story[d] = story[c]
    BY <2>1 DEF IInv, StoryOwnsKeys, OneClaim
  <2>3. d \notin claimed
    BY <2>1, <2>2 DEF IInv, OneClaim
  <2> QED
    BY <2>1, <2>2, <2>3 DEF IInv, EvidenceIsClaimed
<1> QED
  BY <1>1, Invariance, PTL DEF Spec, OneCandidateGoesOn
=============================================================================
