-------------------------- MODULE V2DeliveryProofs --------------------------
(***************************************************************************)
(* Theorems about V2Delivery, for any number of candidates, of senders, of *)
(* clicks and of faults.                                                   *)
(***************************************************************************)
EXTENDS V2Delivery, FiniteSetTheorems, WellFoundedInduction, TLAPS

-----------------------------------------------------------------------------
(* The oldest of some candidates *)

(* A set of candidates has one of the least rank. *)
LEMMA LeastRank ==
  ASSUME NEW rank \in [Candidates -> Nat], NEW S \in SUBSET Candidates, S # {}
  PROVE  \E c \in S : \A d \in S : rank[c] <= rank[d]
<1> DEFINE T == {rank[c] : c \in S}
<1>1. IsWellFoundedOn(OpToRel(<, Nat), Nat)
  BY NatLessThanWellFounded
<1>2. T \subseteq Nat /\ T # {}
  <2>1. PICK c \in S : TRUE
    OBVIOUS
  <2>2. rank[c] \in T
    BY <2>1
  <2>3. \A d \in S : rank[d] \in Nat
    OBVIOUS
  <2> QED
    BY <2>2, <2>3
<1>3. PICK x \in T : \A y \in T : <<y, x>> \notin OpToRel(<, Nat)
  BY <1>1, <1>2, WFMin
<1>4. \A y \in T : y \in Nat /\ x \in Nat => ~(y < x)
  BY <1>3, Zenon DEF OpToRel
<1>5. PICK c \in S : x = rank[c]
  BY <1>3
<1>6. ASSUME NEW d \in S PROVE rank[c] <= rank[d]
  <2>1. rank[d] \in T /\ rank[d] \in Nat /\ rank[c] \in Nat
    OBVIOUS
  <2> QED
    BY <2>1, <1>4, <1>5
<1> QED
  BY <1>6

(* The choices of the tick, the worker and the service are candidates. *)
LEMMA OldestIsOne ==
  ASSUME NEW S \in SUBSET Candidates, S # {}
  PROVE  Oldest(S) \in S
<1>1. [c \in Candidates |-> c] \in [Candidates -> Nat]
  BY DEF Candidates
<1>2. PICK c \in S : \A d \in S : [e \in Candidates |-> e][c] <= [e \in Candidates |-> e][d]
  BY <1>1, LeastRank
<1>3. \A d \in S : c <= d
  BY <1>2
<1> QED
  BY <1>3 DEF Oldest

LEMMA OldestDraftIsOne ==
  ASSUME born \in [Candidates -> Nat], NEW S \in SUBSET Candidates, S # {}
  PROVE  OldestDraft(S) \in S
  BY LeastRank DEF OldestDraft

-----------------------------------------------------------------------------
(* The states of a candidate and of its draft *)

DraftStates == (States \ {"pending_candidate", "candidate_approved"}) \cup {"none"}
StoryTypes == /\ cand \in [Candidates -> States]
              /\ draft \in [Candidates -> DraftStates]
              /\ born \in [Candidates -> Nat]
              /\ story \in [Candidates -> {"open", "held", "quarantined"}]
              /\ storyDone \in [Candidates -> BOOLEAN]
              /\ reviewed \in [Candidates -> BOOLEAN]
NoteTypes == /\ note \in [Gates -> [Candidates ->
                            {"none", "pending", "confirmed", "ambiguous"}]]
             /\ button \in [Gates -> [Candidates ->
                              {"none", "live", "expired", "consumed"}]]
             /\ chat \in [Gates -> [Candidates -> BOOLEAN]]
CodexTypes == /\ request \in [Candidates -> {"none", "prepared", "pending",
                                "succeeded", "retryable_failed",
                                "terminal_failed"}]
              /\ attempts \in [Candidates -> Nat] /\ ran \in [Candidates -> Nat]
              /\ worker \in [pc : {"idle", "preparing", "beginning", "calling",
                                   "committing", "failing"},
                             c : Candidates, clear : BOOLEAN]
SheetTypes == /\ effect \in [Candidates -> Effects]
              /\ sender \in [Senders -> [pc : SenderPCs, c : Candidates,
                               attempt : Nat, phase : Phases, clear : BOOLEAN]]
              /\ sent \in [Candidates -> Nat] /\ inflight \in [Candidates -> Nat]
              /\ rows \in [Candidates -> Nat]
ClickTypes == /\ presses \in Seq(Gates \X Candidates) /\ offset \in Nat
              /\ tick \in [pc : {"idle", "selecting", "claiming", "sending",
                                 "sent", "unclear", "reviewing", "polling",
                                 "handling", "advancing"},
                           gate : Gates, c : Candidates, upto : Nat]
              /\ faults \in Nat

(* The cursor and the batch of a tick are within the clicks there are. *)
Polled == /\ offset <= Len(presses)
          /\ TickAt("handling") => offset <= tick.upto /\ tick.upto <= Len(presses)
          /\ TickAt("advancing") => offset < tick.upto /\ tick.upto <= Len(presses)

Types == /\ StoryTypes /\ NoteTypes /\ CodexTypes /\ SheetTypes /\ ClickTypes
         /\ Polled

LEMMA OneIsACandidate == 1 \in Candidates
  BY CandidatesExist DEF Candidates

LEMMA TypesStart == Init => Types
<1> USE OneIsACandidate DEF Init
<1>1. Init => StoryTypes
  BY DEF StoryTypes, States, DraftStates
<1>2. Init => NoteTypes
  BY DEF NoteTypes
<1>3. Init => CodexTypes
  BY DEF CodexTypes, RestingWorker
<1>4. Init => SheetTypes
  BY DEF SheetTypes, RestingSender, SenderPCs, Phases, Effects, NoEffect
<1>5. Init => ClickTypes
  BY DEF ClickTypes, RestingTick, Gates
<1>6. Init => Polled
  BY DEF Polled, TickAt, RestingTick
<1> QED
  BY <1>1, <1>2, <1>3, <1>4, <1>5, <1>6 DEF Types

(* Moving candidates with their drafts. *)
LEMMA MoveTypes ==
  ASSUME StoryTypes, NEW S \in SUBSET Candidates, NEW state \in States,
         MoveTo(state, S),
         \A c \in S : draft[c] = "none" \/ state \in DraftStates
  PROVE  /\ cand' \in [Candidates -> States] /\ draft' \in [Candidates -> DraftStates]
         /\ \A c \in S : cand'[c] = state
         /\ \A c \in S : draft'[c] = IF draft[c] = "none" THEN "none" ELSE state
         /\ \A c \in Candidates \ S : cand'[c] = cand[c] /\ draft'[c] = draft[c]
  BY DEF MoveTo, StoryTypes

LEMMA ReviewTypes ==
  ASSUME StoryTypes, NEW S \in SUBSET Candidates, ManualReview(S)
  PROVE  /\ StoryTypes'
         /\ \A c \in Candidates :
              \/ cand'[c] = cand[c] /\ draft'[c] = draft[c]
              \/ /\ cand[c] # "sheet_delivered" /\ cand'[c] = "manual_review"
                 /\ draft'[c] = IF draft[c] = "none" THEN "none" ELSE "manual_review"
         /\ born' = born /\ story' = story /\ storyDone' = storyDone
<1> DEFINE R == {c \in S : cand[c] # "sheet_delivered"}
<1>1. MoveTo("manual_review", R) /\ R \in SUBSET Candidates
  BY DEF ManualReview
<1>2. "manual_review" \in States /\ "manual_review" \in DraftStates
  BY DEF States, DraftStates
<1>3. /\ cand' \in [Candidates -> States] /\ draft' \in [Candidates -> DraftStates]
      /\ \A c \in R : cand'[c] = "manual_review"
      /\ \A c \in R : draft'[c] = IF draft[c] = "none" THEN "none" ELSE "manual_review"
      /\ \A c \in Candidates \ R : cand'[c] = cand[c] /\ draft'[c] = draft[c]
  BY <1>1, <1>2, MoveTypes
<1> QED
  BY <1>3 DEF ManualReview, StoryTypes

-----------------------------------------------------------------------------
(* How a step may move a candidate *)

(* A person's click approves a gate that waits, with its live button. *)
ApproveMove(c) ==
  \E g \in Gates :
    /\ AtGate(g, c) /\ button[g][c] = "live" /\ TickAt("handling")
    /\ offset < Len(presses) /\ presses[offset + 1] = <<g, c>>
    /\ cand'[c] = Approved(g)
    /\ draft'[c] = IF draft[c] = "none" THEN "none" ELSE Approved(g)
    /\ button'[g][c] = "consumed"
ReviewMove(c) ==
  /\ cand[c] # "sheet_delivered" /\ cand'[c] = "manual_review"
  /\ draft'[c] = IF draft[c] = "none" THEN "none" ELSE "manual_review"
DraftMove(c) ==
  /\ Eligible(c) /\ cand[c] = "candidate_approved" /\ draft[c] = "none"
  /\ cand'[c] = "draft_pending_approval" /\ draft'[c] = "draft_pending_approval"
DeliverMove(c) ==
  /\ Deliverable(c) /\ storyDone'[c]
  /\ cand'[c] = "sheet_delivered" /\ draft'[c] = "sheet_delivered"

Move(c) == \/ cand'[c] = cand[c] /\ draft'[c] = draft[c]
           \/ ApproveMove(c) \/ ReviewMove(c) \/ DraftMove(c) \/ DeliverMove(c)
DoneMove(c) == \/ storyDone'[c] = storyDone[c] \/ DeliverMove(c)
               \/ storyDone'[c] /\ HasEvidence(c)

StoryStep == StoryTypes' /\ \A c \in Candidates : Move(c) /\ DoneMove(c)

LEMMA StoryRests == StoryTypes /\ UNCHANGED storyVars => StoryStep
  BY DEF storyVars, StoryTypes, StoryStep, Move, DoneMove

LEMMA ReviewStep ==
  ASSUME StoryTypes, NEW S \in SUBSET Candidates, ManualReview(S)
  PROVE  StoryStep
  BY ReviewTypes DEF StoryStep, Move, DoneMove, ReviewMove

(* What a step leaves alone keeps its type. *)
LEMMA NotesRest == NoteTypes /\ UNCHANGED noteVars => NoteTypes'
  BY DEF noteVars, NoteTypes
LEMMA CodexRests == CodexTypes /\ UNCHANGED codexVars => CodexTypes'
  BY DEF codexVars, CodexTypes
LEMMA SheetRests == SheetTypes /\ UNCHANGED sheetVars => SheetTypes'
  BY DEF sheetVars, SheetTypes
LEMMA ClicksRest ==
  ClickTypes /\ Polled /\ UNCHANGED <<clickVars, tick, faults>> => ClickTypes' /\ Polled'
  BY DEF clickVars, ClickTypes, Polled, TickAt
LEMMA FaultsCount == ClickTypes /\ Fault => faults' \in Nat
  BY DEF ClickTypes, Fault

(* The tick moves, and no click of its batch is beyond those there are. *)
TickPCs == {"idle", "selecting", "claiming", "sending", "sent", "unclear",
            "reviewing", "polling", "handling", "advancing"}
LEMMA TickGoes ==
  ASSUME ClickTypes, Polled, NEW pc \in TickPCs \ {"handling", "advancing"},
         TickGoto(pc) \/ TickExit, UNCHANGED clickVars, UNCHANGED faults
  PROVE  ClickTypes' /\ Polled'
  BY OneIsACandidate DEF ClickTypes, Polled, TickAt, TickGoto, TickExit,
     RestingTick, clickVars, TickPCs, Gates

StoryNote == StoryStep /\ NoteTypes' /\ CodexTypes' /\ SheetTypes' /\ ClickTypes' /\ Polled'

LEMMA TickStartTypes == Types /\ TickStart => StoryNote
<1> SUFFICES ASSUME Types, TickStart PROVE StoryNote
  OBVIOUS
<1>1. StoryStep
  BY ReviewStep DEF TickStart, Types
<1>2. ClickTypes' /\ Polled'
  BY TickGoes DEF TickStart, Types, TickPCs
<1> QED
  BY <1>1, <1>2, NotesRest, CodexRests, SheetRests DEF StoryNote, TickStart, Types

LEMMA NextIsWaiting ==
  ASSUME Types, ~ \A g \in Gates : ToNotify(g) = {}
  PROVE  /\ NextToNotify[1] \in Gates /\ NextToNotify[2] \in Candidates
         /\ NextToNotify[2] \in ToNotify(NextToNotify[1])
<1>1. CASE ToNotify("draft") # {}
  BY <1>1, OldestDraftIsOne DEF NextToNotify, ToNotify, Types, StoryTypes, Gates
<1>2. CASE ToNotify("draft") = {}
  <2>1. ToNotify("candidate") # {}
    BY <1>2 DEF Gates
  <2>2. Oldest(ToNotify("candidate")) \in ToNotify("candidate")
    BY <2>1, OldestIsOne DEF ToNotify
  <2> QED
    BY <1>2, <2>2 DEF NextToNotify, ToNotify, Gates
<1> QED
  BY <1>1, <1>2

LEMMA TickSelectTypes == Types /\ TickSelect => StoryNote
<1> SUFFICES ASSUME Types, TickSelect PROVE StoryNote
  OBVIOUS
<1>1. StoryStep /\ ClickTypes' /\ Polled'
  <2>1. CASE \A g \in Gates : ToNotify(g) = {}
    BY <2>1, StoryRests, TickGoes DEF TickSelect, Types, TickPCs
  <2>2. CASE ~ \A g \in Gates : ToNotify(g) = {}
    <3> DEFINE g == NextToNotify[1]
               c == NextToNotify[2]
    <3>1. g \in Gates /\ c \in Candidates
      BY <2>2, NextIsWaiting
    <3>2. CASE note[g][c] = "none"
      <4>1. /\ tick' = [tick EXCEPT !.pc = "claiming", !.gate = g, !.c = c]
            /\ UNCHANGED <<storyVars, clickVars, faults>>
        BY <2>2, <3>2 DEF TickSelect
      <4> HIDE DEF g, c
      <4>2. ClickTypes' /\ Polled'
        BY <3>1, <4>1 DEF Types, ClickTypes, Polled, TickAt, clickVars
      <4> QED
        BY <4>1, <4>2, StoryRests DEF Types
    <3>3. CASE note[g][c] # "none"
      <4>1. ManualReview({c}) /\ TickGoto("polling") /\ UNCHANGED <<clickVars, faults>>
        BY <2>2, <3>3 DEF TickSelect
      <4> HIDE DEF g, c
      <4>2. StoryStep
        BY <3>1, <4>1, ReviewStep DEF Types
      <4> QED
        BY <4>1, <4>2, TickGoes DEF Types, TickPCs
    <3> QED
      BY <3>2, <3>3
  <2> QED
    BY <2>1, <2>2
<1> QED
  BY <1>1, NotesRest, CodexRests, SheetRests DEF StoryNote, TickSelect, Types

LEMMA TickClaimTypes == Types /\ TickClaim => StoryNote
<1> SUFFICES ASSUME Types, TickClaim PROVE StoryNote
  OBVIOUS
<1>1. NoteTypes'
  <2>1. tick.gate \in Gates /\ tick.c \in Candidates /\ UNCHANGED chat
    BY DEF TickClaim, Types, ClickTypes
  <2>2. \/ UNCHANGED <<note, button>>
        \/ /\ note' = [note EXCEPT ![tick.gate][tick.c] = "pending"]
           /\ button' = [button EXCEPT ![tick.gate][tick.c] = "live"]
    BY DEF TickClaim
  <2>3. NoteTypes
    BY DEF Types
  <2>4. CASE UNCHANGED <<note, button>>
    BY <2>1, <2>3, <2>4 DEF NoteTypes
  <2>5. CASE /\ note' = [note EXCEPT ![tick.gate][tick.c] = "pending"]
             /\ button' = [button EXCEPT ![tick.gate][tick.c] = "live"]
    <3>1. note' \in [Gates -> [Candidates ->
                                 {"none", "pending", "confirmed", "ambiguous"}]]
      BY <2>1, <2>3, <2>5 DEF NoteTypes
    <3>2. button' \in [Gates -> [Candidates ->
                                   {"none", "live", "expired", "consumed"}]]
      BY <2>1, <2>3, <2>5 DEF NoteTypes
    <3> QED
      BY <2>1, <2>3, <3>1, <3>2 DEF NoteTypes
  <2> QED
    BY <2>2, <2>4, <2>5
<1>2. ClickTypes' /\ Polled'
  <2>1. TickGoto("sending") \/ TickExit
    BY DEF TickClaim
  <2> QED
    BY <2>1, TickGoes DEF TickClaim, Types, TickPCs
<1> QED
  BY <1>1, <1>2, StoryRests, CodexRests, SheetRests DEF StoryNote, TickClaim, Types

LEMMA TickSendTypes == Types /\ TickSend => StoryNote
<1> SUFFICES ASSUME Types, TickSend PROVE StoryNote
  OBVIOUS
<1>1. NoteTypes'
  BY DEF TickSend, Types, NoteTypes, ClickTypes
<1>2. ClickTypes' /\ Polled'
  <2>1. TickGoto("sent") \/ TickGoto("unclear")
    BY DEF TickSend
  <2> QED
    BY <2>1, TickGoes DEF TickSend, Types, TickPCs
<1> QED
  BY <1>1, <1>2, StoryRests, CodexRests, SheetRests DEF StoryNote, TickSend, Types

LEMMA TickSettleTypes == Types /\ TickSettle => StoryNote
<1> SUFFICES ASSUME Types, TickSettle PROVE StoryNote
  OBVIOUS
<1>1. NoteTypes'
  BY DEF TickSettle, Types, NoteTypes, ClickTypes
<1>2. ClickTypes' /\ Polled'
  <2>1. TickGoto("polling") \/ TickGoto("reviewing")
    BY DEF TickSettle
  <2> QED
    BY <2>1, TickGoes DEF TickSettle, Types, TickPCs
<1> QED
  BY <1>1, <1>2, StoryRests, CodexRests, SheetRests DEF StoryNote, TickSettle, Types

LEMMA TickReviewTypes == Types /\ TickReview => StoryNote
<1> SUFFICES ASSUME Types, TickReview PROVE StoryNote
  OBVIOUS
<1>1. StoryStep
  BY ReviewStep DEF TickReview, Types, ClickTypes
<1>2. ClickTypes' /\ Polled'
  BY TickGoes DEF TickReview, Types, TickPCs
<1> QED
  BY <1>1, <1>2, NotesRest, CodexRests, SheetRests DEF StoryNote, TickReview, Types

LEMMA TickPollTypes ==
  Types /\ (TickPoll \/ TickDone \/ TickAdvance) => StoryNote
<1> SUFFICES ASSUME Types, TickPoll \/ TickDone \/ TickAdvance PROVE StoryNote
  OBVIOUS
<1>1. UNCHANGED <<storyVars, noteVars, codexVars, sheetVars>>
  BY DEF TickPoll, TickDone, TickAdvance
<1>2. ClickTypes' /\ Polled'
  <2>1. CASE TickPoll
    <3>1. Len(presses) \in Nat
      BY DEF Types, ClickTypes
    <3>2. /\ tick' = [tick EXCEPT !.pc = "handling", !.upto = Len(presses)]
          /\ presses' = presses /\ offset' = offset /\ faults' = faults
      BY <2>1 DEF TickPoll, clickVars
    <3>3. ClickTypes'
      BY <3>1, <3>2 DEF Types, ClickTypes
    <3>4. tick'.pc = "handling" /\ tick'.upto = Len(presses)
      BY <3>2 DEF Types, ClickTypes
    <3> QED
      BY <3>1, <3>2, <3>3, <3>4 DEF Types, ClickTypes, Polled, TickAt
  <2>2. CASE TickDone
    BY <2>2, TickGoes DEF TickDone, Types, TickPCs
  <2>3. CASE TickAdvance
    <3>1. Len(presses) \in Nat
      BY DEF Types, ClickTypes
    <3> QED
      BY <2>3, <3>1 DEF TickAdvance, TickGoto, Types, ClickTypes, Polled, TickAt
  <2> QED
    BY <2>1, <2>2, <2>3
<1> QED
  BY <1>1, <1>2, StoryRests, NotesRest, CodexRests, SheetRests DEF StoryNote, Types

(* What a click does. *)
LEMMA TickClickMoves ==
  ASSUME Types, StatesAgree, TickClick
  PROVE  /\ StoryNote
         /\ \E g \in Gates, c \in Candidates :
              /\ presses[offset + 1] = <<g, c>> /\ UNCHANGED clickVars
              /\ \/ /\ AtGate(g, c) /\ button[g][c] = "live"
                    /\ button' = [button EXCEPT ![g][c] = "consumed"]
                    /\ cand'[c] = Approved(g) /\ tick'.pc = "advancing"
                 \/ /\ UNCHANGED <<cand, draft, button>>
                    /\ tick' = RestingTick
                       \/ (tick'.pc = "advancing"
                            /\ (button[g][c] = "live" => ~AtGate(g, c)))
<1> DEFINE g == presses[offset + 1][1]
           c == presses[offset + 1][2]
<1>0. offset < tick.upto /\ tick.upto <= Len(presses) /\ offset < Len(presses)
  BY DEF TickClick, Types, Polled, ClickTypes
<1>1. presses[offset + 1] \in Gates \X Candidates
  BY <1>0 DEF Types, ClickTypes
<1>2. g \in Gates /\ c \in Candidates /\ presses[offset + 1] = <<g, c>>
  BY <1>1
<1> DEFINE live == button[g][c] = "live" /\ (g = "draft" => draft[c] = Waiting(g))
<1>3. /\ \/ /\ live /\ Eligible(c) /\ AtGate(g, c)
            /\ MoveTo(Approved(g), {c})
            /\ button' = [button EXCEPT ![g][c] = "consumed"]
            /\ TickGoto("advancing")
         \/ /\ live /\ ~Eligible(c) /\ TickExit
            /\ UNCHANGED <<cand, draft, button>>
         \/ /\ ~live \/ (Eligible(c) /\ ~AtGate(g, c))
            /\ TickGoto("advancing")
            /\ UNCHANGED <<cand, draft, button>>
      /\ TickAt("handling")
      /\ UNCHANGED <<born, story, storyDone, reviewed, note, chat, codexVars,
                     sheetVars, clickVars, faults>>
  BY DEF TickClick, Raise
<1> HIDE DEF g, c
<1>4. TickGoto("advancing") => ClickTypes' /\ Polled' /\ tick'.pc = "advancing"
  BY <1>0, <1>3 DEF TickGoto, Types, ClickTypes, Polled, TickAt, clickVars
<1>5. TickExit => ClickTypes' /\ Polled' /\ tick' = RestingTick
  <2>1. TickExit => ClickTypes' /\ Polled'
    BY <1>3, TickGoes DEF Types, TickPCs
  <2> QED
    BY <2>1 DEF TickExit
<1>6. CodexTypes' /\ SheetTypes'
  BY <1>3, CodexRests, SheetRests DEF Types
<1>7. CASE /\ live /\ Eligible(c) /\ AtGate(g, c)
           /\ MoveTo(Approved(g), {c})
           /\ button' = [button EXCEPT ![g][c] = "consumed"]
           /\ TickGoto("advancing")
  <2>1. NoteTypes'
    BY <1>2, <1>3, <1>7 DEF Types, NoteTypes
  <2>2. Approved(g) \in States /\ (draft[c] = "none" \/ Approved(g) \in DraftStates)
    BY <1>2, <1>7 DEF Approved, States, DraftStates, AtGate, Waiting, Gates,
       StatesAgree, Types, StoryTypes
  <2>3. /\ cand' \in [Candidates -> States] /\ draft' \in [Candidates -> DraftStates]
        /\ cand'[c] = Approved(g)
        /\ draft'[c] = IF draft[c] = "none" THEN "none" ELSE Approved(g)
        /\ \A d \in Candidates \ {c} : cand'[d] = cand[d] /\ draft'[d] = draft[d]
    <3>1. {c} \in SUBSET Candidates /\ MoveTo(Approved(g), {c}) /\ StoryTypes
          /\ \A d \in {c} : draft[d] = "none" \/ Approved(g) \in DraftStates
      BY <1>2, <1>7, <2>2 DEF Types
    <3> HIDE DEF live
    <3>2. /\ cand' \in [Candidates -> States] /\ draft' \in [Candidates -> DraftStates]
          /\ \A d \in {c} : cand'[d] = Approved(g)
          /\ \A d \in {c} : draft'[d] = IF draft[d] = "none" THEN "none" ELSE Approved(g)
          /\ \A d \in Candidates \ {c} : cand'[d] = cand[d] /\ draft'[d] = draft[d]
      BY <3>1, <2>2, MoveTypes
    <3> QED
      BY <3>2
  <2>4. StoryTypes'
    BY <1>3, <2>3 DEF Types, StoryTypes
  <2>5. button'[g][c] = "consumed"
    BY <1>2, <1>7 DEF Types, NoteTypes
  <2>6. ApproveMove(c)
    BY <1>0, <1>2, <1>3, <1>7, <2>3, <2>5 DEF ApproveMove
  <2>7. StoryStep
    BY <1>3, <2>3, <2>4, <2>6 DEF StoryStep, Move, DoneMove
  <2> QED
    BY <1>2, <1>3, <1>4, <1>6, <1>7, <2>1, <2>3, <2>7 DEF StoryNote
<1>8. CASE UNCHANGED <<cand, draft, button>>
  <2>1. StoryStep /\ NoteTypes'
    BY <1>3, <1>8, StoryRests, NotesRest DEF Types, storyVars, noteVars
  <2>2. ~live => (button[g][c] = "live" => ~AtGate(g, c))
    BY DEF AtGate
  <2>3. (live /\ Eligible(c) /\ AtGate(g, c) /\ button' = [button EXCEPT ![g][c] = "consumed"])
          => FALSE
    BY <1>2, <1>8 DEF Types, NoteTypes
  <2> QED
    BY <1>2, <1>3, <1>4, <1>5, <1>6, <1>8, <2>1, <2>2, <2>3 DEF StoryNote
<1> QED
  BY <1>3, <1>7, <1>8

LEMMA TickTypes == Types /\ StatesAgree /\ TickStep => StoryNote
  BY TickStartTypes, TickSelectTypes, TickClaimTypes, TickSendTypes,
     TickSettleTypes, TickReviewTypes, TickPollTypes, TickClickMoves DEF TickStep

LEMMA TickCrashTypes == Types /\ TickCrash => StoryNote
<1> SUFFICES ASSUME Types, TickCrash PROVE StoryNote
  OBVIOUS
<1>1. ClickTypes' /\ Polled'
  BY OneIsACandidate, FaultsCount DEF Types, ClickTypes, Polled, TickAt, TickCrash,
     TickExit, RestingTick, clickVars, Gates
<1> QED
  BY <1>1, StoryRests, NotesRest, CodexRests, SheetRests DEF StoryNote, TickCrash, Types

Launched(c) == request[c] \notin {"none", "prepared", "retryable_failed"}

(* What the number of provider calls has to do with the request. *)
CodexInv ==
  /\ \A c \in Candidates :
       /\ ran[c] <= 1
       /\ ~Launched(c) => ran[c] = 0
  /\ WorkerAt("calling") => ran[worker.c] = 0 /\ Launched(worker.c)
  /\ WorkerAt("failing") /\ worker.clear => ran[worker.c] = 0

LEMMA CodexInvRests == CodexInv /\ UNCHANGED codexVars => CodexInv'
  BY DEF CodexInv, Launched, codexVars, WorkerAt

StoryCodex == StoryNote /\ CodexInv'

LEMMA WorkerStartTypes ==
  Types /\ StatesAgree /\ CodexInv /\ WorkerStart => StoryCodex
<1> SUFFICES ASSUME Types, StatesAgree, CodexInv, WorkerStart PROVE StoryCodex
  OBVIOUS
<1>1. NoteTypes' /\ SheetTypes' /\ ClickTypes' /\ Polled'
  BY NotesRest, SheetRests, ClicksRest DEF WorkerStart, Types
<1>2. CASE /\ Interrupted # {} /\ ManualReview(Interrupted)
           /\ request' = [c \in Candidates |-> IF c \in Interrupted
                                               THEN "terminal_failed"
                                               ELSE request[c]]
           /\ UNCHANGED worker
  <2>1. StoryStep
    BY <1>2, ReviewStep DEF Types, Interrupted
  <2>2. CodexTypes'
    BY <1>2 DEF WorkerStart, Types, CodexTypes
  <2>3. CodexInv'
    BY <1>2 DEF WorkerStart, CodexInv, Launched, WorkerAt
  <2> QED
    BY <1>1, <2>1, <2>2, <2>3 DEF StoryNote, StoryCodex
<1>3. CASE /\ Interrupted = {} /\ ToGenerate # {}
           /\ worker' = [worker EXCEPT !.pc = "preparing", !.c = Oldest(ToGenerate)]
           /\ UNCHANGED <<storyVars, request>>
  <2>1. StoryStep
    BY <1>3, StoryRests DEF Types
  <2>2. Oldest(ToGenerate) \in Candidates
    BY <1>3, OldestIsOne DEF ToGenerate
  <2>3. CodexTypes' /\ worker'.pc = "preparing"
    BY <1>3, <2>2 DEF WorkerStart, Types, CodexTypes
  <2>4. CodexInv'
    BY <1>3, <2>3 DEF WorkerStart, CodexInv, Launched, WorkerAt
  <2> QED
    BY <1>1, <2>1, <2>3, <2>4 DEF StoryNote, StoryCodex
<1> QED
  BY <1>2, <1>3 DEF WorkerStart

LEMMA WorkerPrepareTypes ==
  Types /\ StatesAgree /\ CodexInv /\ WorkerPrepare => StoryCodex
<1> SUFFICES ASSUME Types, StatesAgree, CodexInv, WorkerPrepare PROVE StoryCodex
  OBVIOUS
<1>0. worker.c \in Candidates
  BY DEF Types, CodexTypes
<1>1. NoteTypes' /\ SheetTypes' /\ ClickTypes' /\ Polled'
  BY NotesRest, SheetRests, ClicksRest DEF WorkerPrepare, Types
<1>2. StoryStep
  <2>1. ManualReview({worker.c}) \/ UNCHANGED storyVars
    BY DEF WorkerPrepare
  <2> QED
    BY <1>0, <2>1, ReviewStep, StoryRests DEF Types
<1>3. /\ WorkerExit \/ WorkerGoto("beginning")
      /\ \/ UNCHANGED request
         \/ request' = [request EXCEPT ![worker.c] =
                          IF @ = "none" THEN "prepared" ELSE @]
      /\ UNCHANGED <<attempts, ran>>
  BY DEF WorkerPrepare
<1>4. CodexTypes' /\ worker'.pc \in {"idle", "beginning"}
  <2>1. request' \in [Candidates -> {"none", "prepared", "pending", "succeeded",
                                     "retryable_failed", "terminal_failed"}]
    BY <1>0, <1>3 DEF Types, CodexTypes
  <2>2. /\ worker' \in [pc : {"idle", "preparing", "beginning", "calling",
                              "committing", "failing"},
                        c : Candidates, clear : BOOLEAN]
        /\ worker'.pc \in {"idle", "beginning"}
    <3>1. CASE WorkerExit
      BY <3>1, OneIsACandidate DEF WorkerExit, RestingWorker
    <3>2. CASE WorkerGoto("beginning")
      BY <3>2 DEF Types, CodexTypes, WorkerGoto
    <3> QED
      BY <1>3, <3>1, <3>2
  <2> QED
    BY <1>3, <2>1, <2>2 DEF Types, CodexTypes
<1>5. CodexInv'
  BY <1>0, <1>3, <1>4 DEF CodexInv, Launched, WorkerAt, Types, CodexTypes
<1> QED
  BY <1>1, <1>2, <1>4, <1>5 DEF StoryNote, StoryCodex

LEMMA WorkerBeginTypes ==
  Types /\ StatesAgree /\ CodexInv /\ WorkerBegin => StoryCodex
<1> SUFFICES ASSUME Types, StatesAgree, CodexInv, WorkerBegin PROVE StoryCodex
  OBVIOUS
<1>0. worker.c \in Candidates
  BY DEF Types, CodexTypes
<1>1. StoryStep /\ NoteTypes' /\ SheetTypes' /\ ClickTypes' /\ Polled'
  BY StoryRests, NotesRest, SheetRests, ClicksRest DEF WorkerBegin, Types
<1>2. CASE MayLaunch(worker.c)
  <2>1. /\ request' = [request EXCEPT ![worker.c] = "pending"]
        /\ attempts' = [attempts EXCEPT ![worker.c] = @ + 1]
        /\ worker' = [worker EXCEPT !.pc = "calling"] /\ ran' = ran
    BY <1>2 DEF WorkerBegin, WorkerGoto
  <2>2. CodexTypes' /\ worker'.pc = "calling" /\ worker'.c = worker.c
    BY <1>0, <2>1 DEF Types, CodexTypes
  <2>3. ran[worker.c] = 0
    BY <1>0, <1>2 DEF CodexInv, Launched, MayLaunch
  <2>4. CodexInv'
    BY <1>0, <2>1, <2>2, <2>3 DEF CodexInv, Launched, WorkerAt, Types, CodexTypes
  <2> QED
    BY <1>1, <2>2, <2>4 DEF StoryNote, StoryCodex
<1>3. CASE ~MayLaunch(worker.c)
  <2>1. worker' = RestingWorker /\ UNCHANGED <<request, attempts, ran>>
    BY <1>3 DEF WorkerBegin, WorkerExit
  <2>2. CodexTypes' /\ CodexInv'
    BY <2>1, OneIsACandidate DEF Types, CodexTypes, CodexInv, Launched, WorkerAt, RestingWorker
  <2> QED
    BY <1>1, <2>2 DEF StoryNote, StoryCodex
<1> QED
  BY <1>2, <1>3

LEMMA WorkerCallTypes ==
  Types /\ StatesAgree /\ CodexInv /\ WorkerCall => StoryCodex
<1> SUFFICES ASSUME Types, StatesAgree, CodexInv, WorkerCall PROVE StoryCodex
  OBVIOUS
<1>0. worker.c \in Candidates /\ ran[worker.c] = 0 /\ WorkerAt("calling")
  BY DEF Types, CodexTypes, CodexInv, Launched, WorkerCall
<1>1. StoryStep /\ NoteTypes' /\ SheetTypes' /\ ClickTypes' /\ Polled'
  BY StoryRests, NotesRest, SheetRests, ClicksRest DEF WorkerCall, Types
<1>3. UNCHANGED <<request, attempts>>
  BY DEF WorkerCall
<1>4. CASE worker' = [worker EXCEPT !.pc = "failing", !.clear = TRUE] /\ UNCHANGED ran
  <2>1. CodexTypes' /\ worker'.pc = "failing" /\ worker'.c = worker.c
    BY <1>3, <1>4 DEF Types, CodexTypes
  <2>2. CodexInv'
    BY <1>0, <1>3, <1>4, <2>1 DEF CodexInv, Launched, WorkerAt
  <2> QED
    BY <1>1, <2>1, <2>2 DEF StoryNote, StoryCodex
<1>5. CASE /\ ran' = [ran EXCEPT ![worker.c] = @ + 1]
           /\ WorkerGoto("committing")
              \/ worker' = [worker EXCEPT !.pc = "failing", !.clear = FALSE]
  <2>1. /\ CodexTypes' /\ ran'[worker.c] = 1
        /\ \A c \in Candidates \ {worker.c} : ran'[c] = ran[c]
        /\ worker'.pc = "committing" \/ (worker'.pc = "failing" /\ ~worker'.clear)
    <3>1. /\ ran' \in [Candidates -> Nat] /\ ran'[worker.c] = 1
          /\ \A c \in Candidates \ {worker.c} : ran'[c] = ran[c]
      BY <1>0, <1>5 DEF Types, CodexTypes
    <3>2. /\ worker' \in [pc : {"idle", "preparing", "beginning", "calling",
                                "committing", "failing"},
                          c : Candidates, clear : BOOLEAN]
          /\ worker'.pc = "committing" \/ (worker'.pc = "failing" /\ ~worker'.clear)
      BY <1>5 DEF Types, CodexTypes, WorkerGoto
    <3> QED
      BY <1>3, <3>1, <3>2 DEF Types, CodexTypes
  <2>2. Launched(worker.c)
    BY <1>0 DEF CodexInv, Launched
  <2>3. CodexInv'
    BY <1>0, <1>3, <2>1, <2>2 DEF CodexInv, Launched, WorkerAt
  <2> QED
    BY <1>1, <2>1, <2>3 DEF StoryNote, StoryCodex
<1> QED
  BY <1>4, <1>5 DEF WorkerCall

LEMMA WorkerFailTypes ==
  Types /\ StatesAgree /\ CodexInv /\ WorkerFail => StoryCodex
<1> SUFFICES ASSUME Types, StatesAgree, CodexInv, WorkerFail PROVE StoryCodex
  OBVIOUS
<1> DEFINE c == worker.c
<1>0. c \in Candidates /\ worker' = RestingWorker /\ UNCHANGED <<attempts, ran>>
  BY DEF Types, CodexTypes, WorkerFail, WorkerExit
<1>1. NoteTypes' /\ SheetTypes' /\ ClickTypes' /\ Polled'
  BY NotesRest, SheetRests, ClicksRest DEF WorkerFail, Types
<1>2. CASE MayRetry(c)
  <2>1. request' = [request EXCEPT ![c] = "retryable_failed"] /\ UNCHANGED storyVars
        /\ ran[c] = 0
    BY <1>2 DEF WorkerFail, CodexInv, MayRetry
  <2>2. StoryStep /\ CodexTypes'
    BY <1>0, <2>1, StoryRests, OneIsACandidate DEF Types, CodexTypes, RestingWorker
  <2>3. CodexInv'
    BY <1>0, <2>1 DEF CodexInv, Launched, WorkerAt, RestingWorker, Types, CodexTypes
  <2> QED
    BY <1>1, <2>2, <2>3 DEF StoryNote, StoryCodex
<1>3. CASE ~MayRetry(c)
  <2>1. /\ request' = [request EXCEPT ![c] = "terminal_failed"]
        /\ reviewed' = [reviewed EXCEPT ![c] = TRUE]
        /\ cand' = [cand EXCEPT ![c] = IF @ = "candidate_approved"
                                       THEN "manual_review" ELSE @]
        /\ UNCHANGED <<draft, born, story, storyDone>>
    BY <1>3 DEF WorkerFail
  <2>2. CodexTypes'
    BY <1>0, <2>1, OneIsACandidate DEF Types, CodexTypes, RestingWorker
  <2>3. CodexInv'
    BY <1>0, <2>1 DEF CodexInv, Launched, WorkerAt, RestingWorker, Types, CodexTypes
  <2>4. StoryTypes'
    BY <1>0, <2>1 DEF Types, StoryTypes, States
  <2>5. \A d \in Candidates : d # c => cand'[d] = cand[d] /\ draft'[d] = draft[d]
    BY <1>0, <2>1 DEF Types, StoryTypes
  <2>6. Move(c)
    <3>1. CASE cand[c] = "candidate_approved"
      <4>1. draft[c] = "none"
        BY <1>0, <3>1 DEF StatesAgree, Types, StoryTypes, DraftStates
      <4>2. cand'[c] = "manual_review" /\ draft'[c] = "none"
        BY <1>0, <2>1, <3>1, <4>1 DEF Types, StoryTypes
      <4> QED
        BY <3>1, <4>1, <4>2 DEF Move, ReviewMove
    <3>2. CASE cand[c] # "candidate_approved"
      BY <1>0, <2>1, <3>2 DEF Types, StoryTypes, Move
    <3> QED
      BY <3>1, <3>2
  <2>7. StoryStep
    BY <2>1, <2>4, <2>5, <2>6 DEF StoryStep, Move, DoneMove
  <2> QED
    BY <1>1, <2>2, <2>3, <2>7 DEF StoryNote, StoryCodex
<1> QED
  BY <1>2, <1>3

LEMMA WorkerCommitTypes ==
  Types /\ StatesAgree /\ CodexInv /\ WorkerCommit => StoryCodex
<1> SUFFICES ASSUME Types, StatesAgree, CodexInv, WorkerCommit PROVE StoryCodex
  OBVIOUS
<1> DEFINE c == worker.c
           takes == /\ request[c] = "pending" /\ Eligible(c)
                    /\ cand[c] = "candidate_approved" /\ draft[c] = "none"
<1>0. /\ c \in Candidates /\ worker' = RestingWorker
      /\ UNCHANGED <<attempts, ran, story, storyDone, reviewed>>
  BY DEF Types, CodexTypes, WorkerCommit, WorkerExit
<1>1. NoteTypes' /\ SheetTypes' /\ ClickTypes' /\ Polled'
  BY NotesRest, SheetRests, ClicksRest DEF WorkerCommit, Types
<1>2. CASE takes
  <2>1. /\ request' = [request EXCEPT ![c] = "succeeded"]
        /\ cand' = [cand EXCEPT ![c] = "draft_pending_approval"]
        /\ draft' = [draft EXCEPT ![c] = "draft_pending_approval"]
        /\ born' = [born EXCEPT ![c] = 1 + Cardinality({d \in Candidates : born[d] > 0})]
    BY <1>2 DEF WorkerCommit, CreateDraft
  <2>2. Cardinality({d \in Candidates : born[d] > 0}) \in Nat
    <3>1. IsFiniteSet(Candidates)
      BY CandidatesExist, FS_Interval DEF Candidates
    <3> QED
      BY <3>1, FS_Subset, FS_CardinalityType
  <2>3. StoryTypes'
    <3>1. cand' \in [Candidates -> States] /\ draft' \in [Candidates -> DraftStates]
      BY <1>0, <2>1 DEF Types, StoryTypes, States, DraftStates
    <3>2. born' \in [Candidates -> Nat]
      BY <1>0, <2>1, <2>2 DEF Types, StoryTypes
    <3> QED
      BY <1>0, <3>1, <3>2 DEF Types, StoryTypes
  <2>4. CodexTypes'
    BY <1>0, <2>1, OneIsACandidate DEF Types, CodexTypes, RestingWorker
  <2>5. CodexInv'
    BY <1>0, <2>1 DEF CodexInv, Launched, WorkerAt, RestingWorker, Types, CodexTypes
  <2>6. \A d \in Candidates : d # c => cand'[d] = cand[d] /\ draft'[d] = draft[d]
    BY <1>0, <2>1 DEF Types, StoryTypes
  <2>7. DraftMove(c)
    BY <1>0, <1>2, <2>1 DEF DraftMove, Types, StoryTypes
  <2>8. StoryStep
    BY <1>0, <2>3, <2>6, <2>7 DEF StoryStep, Move, DoneMove
  <2> QED
    BY <1>1, <2>4, <2>5, <2>8 DEF StoryNote, StoryCodex
<1>3. CASE ~takes
  <2>1. UNCHANGED <<request, cand, draft, born>>
    BY <1>3 DEF WorkerCommit
  <2>2. StoryStep
    BY <1>0, <2>1, StoryRests DEF Types, storyVars
  <2>3. CodexTypes' /\ CodexInv'
    BY <1>0, <2>1, OneIsACandidate DEF Types, CodexTypes, CodexInv, Launched,
       WorkerAt, RestingWorker
  <2> QED
    BY <1>1, <2>2, <2>3 DEF StoryNote, StoryCodex
<1> QED
  BY <1>2, <1>3

LEMMA WorkerCrashTypes == Types /\ CodexInv /\ WorkerCrash => StoryCodex
<1> SUFFICES ASSUME Types, CodexInv, WorkerCrash PROVE StoryCodex
  OBVIOUS
<1>1. StoryStep /\ NoteTypes' /\ SheetTypes'
  BY StoryRests, NotesRest, SheetRests DEF WorkerCrash, Types
<1>2. ClickTypes' /\ Polled'
  BY FaultsCount DEF WorkerCrash, Types, ClickTypes, Polled, TickAt, clickVars
<1>3. CodexTypes' /\ CodexInv'
  BY OneIsACandidate DEF WorkerCrash, WorkerExit, Types, CodexTypes, CodexInv,
     Launched, WorkerAt, RestingWorker
<1> QED
  BY <1>1, <1>2, <1>3 DEF StoryNote, StoryCodex

LEMMA WorkerTypes ==
  Types /\ StatesAgree /\ CodexInv /\ (WorkerStep \/ WorkerCrash) => StoryCodex
  BY WorkerStartTypes, WorkerPrepareTypes, WorkerBeginTypes, WorkerCallTypes,
     WorkerFailTypes, WorkerCommitTypes, WorkerCrashTypes DEF WorkerStep

-----------------------------------------------------------------------------
(* The sheet and its senders *)

(* The request of a draft may have left, or may leave at any moment. *)
Committed(c) == \/ effect[c].status \in {"confirmed", "ambiguous"}
                \/ effect[c].status = "pending" /\ effect[c].phase = "possibly_sent"

SenderInv(s) ==
  LET me == sender[s]
  IN  /\ me.pc = "marked" => me.phase = "bootstrap"
      /\ me.pc = "preparing" => me.phase = "preparing"
      /\ me.pc = "arming" => me.phase = "claimed"
      /\ me.pc = "failing" => me.phase \in {"preparing", "claimed"}
      /\ me.pc = "dispatching" => sent[me.c] = 0 /\ Committed(me.c)
      /\ me.pc = "confirming" => rows[me.c] = 1

RowInv(c) ==
  /\ sent[c] <= 1 /\ rows[c] + inflight[c] <= sent[c]
  /\ sent[c] > 0 => Committed(c)
  /\ effect[c].status = "confirmed" => rows[c] = 1

OneDispatches ==
  \A s, t \in Senders :
    (/\ sender[s].pc = "dispatching" /\ sender[t].pc = "dispatching"
     /\ sender[s].c = sender[t].c) => s = t

SheetInv == /\ \A s \in Senders : SenderInv(s)
            /\ \A c \in Candidates : RowInv(c)
            /\ OneDispatches

(* How a step may change the receipt of a draft. *)
EffectMove(c) ==
  /\ \/ effect'[c].status = effect[c].status
     \/ Claimable(c) /\ Vacant(effect[c]) /\ effect'[c].status = "pending"
     \/ /\ effect[c].status = "pending"
        /\ effect'[c].status \in {"confirmed", "ambiguous", "failed"}
  /\ rows'[c] >= rows[c]

SheetStep == SheetTypes' /\ SheetInv' /\ \A c \in Candidates : EffectMove(c)

LEMMA SheetRest == SheetTypes /\ SheetInv /\ UNCHANGED sheetVars => SheetStep
<1> SUFFICES ASSUME SheetTypes, SheetInv, UNCHANGED sheetVars PROVE SheetStep
  OBVIOUS
<1>1. SheetTypes' /\ OneDispatches'
  BY DEF SheetTypes, SheetInv, OneDispatches, sheetVars
<1>2. \A c \in Candidates : RowInv(c)' /\ EffectMove(c)
  BY DEF SheetTypes, SheetInv, RowInv, Committed, EffectMove, sheetVars
<1>3. \A s \in Senders : SenderInv(s)'
  BY DEF SheetInv, SenderInv, Committed, sheetVars
<1> QED
  BY <1>1, <1>2, <1>3 DEF SheetStep, SheetInv

(* A sender moves by itself, without a dispatch. *)
LEMMA SenderMoves ==
  ASSUME SheetTypes, SheetInv, NEW s \in Senders,
         NEW me \in [pc : SenderPCs \ {"dispatching"}, c : Candidates,
                     attempt : Nat, phase : Phases, clear : BOOLEAN],
         sender' = [sender EXCEPT ![s] = me],
         UNCHANGED <<effect, sent, inflight, rows>>,
         me.pc = "marked" => me.phase = "bootstrap",
         me.pc = "preparing" => me.phase = "preparing",
         me.pc = "arming" => me.phase = "claimed",
         me.pc = "failing" => me.phase \in {"preparing", "claimed"},
         me.pc = "confirming" => rows[me.c] = 1
  PROVE  SheetStep
<1>1. sender'[s] = me /\ \A t \in Senders \ {s} : sender'[t] = sender[t]
  BY DEF SheetTypes
<1>2. SheetTypes'
  BY DEF SheetTypes, SenderPCs
<1>3. \A c \in Candidates : RowInv(c)' /\ EffectMove(c)
  BY DEF SheetTypes, SheetInv, RowInv, Committed, EffectMove
<1>4. \A t \in Senders : SenderInv(t)'
  BY <1>1 DEF SheetInv, SenderInv, Committed
<1>5. OneDispatches'
  BY <1>1 DEF SheetInv, OneDispatches
<1> QED
  BY <1>2, <1>3, <1>4, <1>5 DEF SheetStep, SheetInv

(* A sender moves and writes the receipt of its draft, which has not been  *)
(* committed before, or stays so.                                          *)
LEMMA SenderWrites ==
  ASSUME SheetTypes, SheetInv, NEW s \in Senders, NEW c \in Candidates,
         NEW me \in [pc : SenderPCs, c : {c},
                     attempt : Nat, phase : Phases, clear : BOOLEAN],
         NEW e \in Effects,
         sender' = [sender EXCEPT ![s] = me], effect' = [effect EXCEPT ![c] = e],
         UNCHANGED <<sent, inflight, rows>>,
         me.pc = "marked" => me.phase = "bootstrap",
         me.pc = "preparing" => me.phase = "preparing",
         me.pc = "arming" => me.phase = "claimed",
         me.pc = "failing" => me.phase \in {"preparing", "claimed"},
         me.pc = "confirming" => rows[c] = 1,
         e.status = "confirmed" => rows[c] = 1,
         Committed(c) => \/ e.status \in {"confirmed", "ambiguous"}
                         \/ e.status = "pending" /\ e.phase = "possibly_sent",
         me.pc = "dispatching" =>
           /\ ~Committed(c) /\ e.status = "pending" /\ e.phase = "possibly_sent",
         \/ e.status = effect[c].status
         \/ Claimable(c) /\ Vacant(effect[c]) /\ e.status = "pending"
         \/ /\ effect[c].status = "pending"
            /\ e.status \in {"confirmed", "ambiguous", "failed"}
  PROVE  SheetStep
<1>1. sender'[s] = me /\ \A t \in Senders \ {s} : sender'[t] = sender[t]
  BY DEF SheetTypes
<1>2. effect'[c] = e /\ \A d \in Candidates \ {c} : effect'[d] = effect[d]
  BY DEF SheetTypes
<1>3. SheetTypes'
  BY DEF SheetTypes
<1>4. /\ Committed(c) => Committed(c)'
      /\ \A d \in Candidates \ {c} : Committed(d)' <=> Committed(d)
  BY <1>2 DEF Committed
<1>5. \A d \in Candidates : RowInv(d)' /\ EffectMove(d)
  BY <1>2, <1>4 DEF SheetTypes, SheetInv, RowInv, EffectMove
<1>6. ASSUME NEW t \in Senders PROVE SenderInv(t)'
  <2>1. CASE t = s
    <3>1. me.pc = "dispatching" => sent[c] = 0 /\ Committed(c)'
      BY <1>2 DEF SheetInv, RowInv, Committed, SheetTypes
    <3> QED
      BY <2>1, <3>1, <1>1 DEF SenderInv
  <2>2. CASE t # s
    <3>1. sender[t].c \in Candidates
      BY DEF SheetTypes
    <3> QED
      BY <2>2, <3>1, <1>1, <1>4 DEF SheetInv, SenderInv
  <2> QED
    BY <2>1, <2>2
<1>7. OneDispatches'
  <2> SUFFICES ASSUME NEW t \in Senders, NEW u \in Senders, t # u,
                      sender'[t].pc = "dispatching", sender'[u].pc = "dispatching",
                      sender'[t].c = sender'[u].c
               PROVE  FALSE
    BY DEF OneDispatches
  <2>1. \A v \in Senders \ {s} : sender[v].pc = "dispatching" => Committed(sender[v].c)
    BY DEF SheetInv, SenderInv
  <2>2. t = s \/ u = s
    BY <1>1 DEF SheetInv, OneDispatches
  <2> QED
    BY <2>1, <2>2, <1>1
<1> QED
  BY <1>3, <1>5, <1>6, <1>7 DEF SheetStep, SheetInv

LEMMA SenderTypes ==
  ASSUME SheetTypes, NEW s \in Senders
  PROVE  /\ sender[s] \in [pc : SenderPCs, c : Candidates, attempt : Nat,
                           phase : Phases, clear : BOOLEAN]
         /\ sender[s].c \in Candidates /\ Receipt(s) = effect[sender[s].c]
         /\ Receipt(s) \in Effects /\ effect[sender[s].c] \in Effects
  BY DEF SheetTypes, Receipt

SheetFrame == UNCHANGED <<effect, sent, inflight, rows>>

LEMMA ExitMoves ==
  ASSUME SheetTypes, SheetInv, NEW s \in Senders, SenderExit(s), SheetFrame
  PROVE  SheetStep
<1> DEFINE me == RestingSender
<1>1. me \in [pc : SenderPCs \ {"dispatching"}, c : Candidates, attempt : Nat,
              phase : Phases, clear : BOOLEAN] /\ me.pc = "idle"
  BY OneIsACandidate DEF RestingSender, SenderPCs, Phases
<1>2. sender' = [sender EXCEPT ![s] = me]
  BY DEF SenderExit
<1> HIDE DEF me
<1> QED
  BY <1>1, <1>2, SenderMoves DEF SheetFrame

LEMMA GotoMoves ==
  ASSUME SheetTypes, SheetInv, NEW s \in Senders,
         NEW pc \in SenderPCs \ {"dispatching", "marked", "preparing", "arming",
                                 "failing", "confirming"},
         SenderGoto(s, pc), SheetFrame
  PROVE  SheetStep
<1> DEFINE me == [sender[s] EXCEPT !.pc = pc]
<1>1. me \in [pc : SenderPCs \ {"dispatching"}, c : Candidates, attempt : Nat,
              phase : Phases, clear : BOOLEAN] /\ me.pc = pc
  BY SenderTypes
<1>2. sender' = [sender EXCEPT ![s] = me]
  BY DEF SenderGoto
<1> HIDE DEF me
<1> QED
  BY <1>1, <1>2, SenderMoves DEF SheetFrame

(* Recovering from a receipt only chooses where to go on. *)
LEMMA RecoverMoves ==
  ASSUME SheetTypes, SheetInv, NEW s \in Senders, Recover(s), SheetFrame
  PROVE  SheetStep
<1>1. CASE SenderGoto(s, "delivering") \/ SenderGoto(s, "reviewing")
  BY <1>1, GotoMoves DEF SenderPCs
<1>2. CASE SenderExit(s)
  BY <1>2, ExitMoves
<1>3. CASE sender' = [sender EXCEPT ![s].pc = "expiring",
                        ![s].attempt = Receipt(s).attempts,
                        ![s].phase = Receipt(s).phase]
  <2> DEFINE me == [sender[s] EXCEPT !.pc = "expiring",
                      !.attempt = Receipt(s).attempts, !.phase = Receipt(s).phase]
  <2>1. me \in [pc : SenderPCs \ {"dispatching"}, c : Candidates, attempt : Nat,
                phase : Phases, clear : BOOLEAN] /\ me.pc = "expiring"
    BY SenderTypes DEF SenderPCs, Effects
  <2>2. sender' = [sender EXCEPT ![s] = me]
    BY <1>3
  <2> HIDE DEF me
  <2> QED
    BY <2>1, <2>2, SenderMoves DEF SheetFrame
<1> QED
  BY <1>1, <1>2, <1>3 DEF Recover

(* A claim is new: its receipt was vacant. *)
LEMMA ClaimWrites ==
  ASSUME SheetTypes, SheetInv, NEW s \in Senders, NEW phase \in Phases,
         NEW pc \in SenderPCs, <<phase, pc>> \in {<<"preparing", "preparing">>,
                                                  <<"bootstrap", "marked">>},
         Claimable(sender[s].c), Vacant(Receipt(s)), Claim(s, phase, pc),
         UNCHANGED <<sent, inflight, rows>>
  PROVE  SheetStep
<1> DEFINE c == sender[s].c
           me == [sender[s] EXCEPT !.pc = pc, !.phase = phase,
                    !.attempt = effect[c].attempts + 1]
           e == [status |-> "pending", phase |-> phase,
                 attempts |-> effect[c].attempts + 1, clear |-> FALSE,
                 lapsed |-> FALSE]
<1>1. c \in Candidates /\ effect[c].attempts + 1 \in Nat
  BY SenderTypes DEF Effects
<1>2. /\ me \in [pc : SenderPCs, c : {c}, attempt : Nat, phase : Phases,
                 clear : BOOLEAN]
      /\ me.pc = pc /\ me.phase = phase
  BY <1>1, SenderTypes
<1>3. e \in Effects /\ e.status = "pending" /\ e.phase = phase
  BY <1>1 DEF Effects
<1>4. sender' = [sender EXCEPT ![s] = me] /\ effect' = [effect EXCEPT ![c] = e]
  BY DEF Claim
<1>5. ~Committed(c) /\ Vacant(effect[c])
  BY DEF Committed, Vacant, Retryable, Receipt
<1> HIDE DEF me, e
<1> QED
  BY <1>1, <1>2, <1>3, <1>4, <1>5, SenderWrites

(* The owner of a claim settles it and goes on. *)
LEMMA SettleWrites ==
  ASSUME SheetTypes, SheetInv, NEW s \in Senders, Owns(s),
         NEW status \in {"confirmed", "ambiguous", "failed"}, NEW clear \in BOOLEAN,
         NEW pc \in {"delivering", "reviewing", "rechecking"},
         Settle(s, status, clear), SenderGoto(s, pc),
         status = "confirmed" => rows[sender[s].c] = 1,
         status = "failed" => sender[s].phase # "possibly_sent",
         UNCHANGED <<sent, inflight, rows>>
  PROVE  SheetStep
<1> DEFINE c == sender[s].c
           me == [sender[s] EXCEPT !.pc = pc]
           e == [status |-> status, phase |-> "none",
                 attempts |-> effect[c].attempts, clear |-> clear, lapsed |-> FALSE]
<1>1. c \in Candidates /\ effect[c].attempts \in Nat
  BY SenderTypes DEF Effects
<1>2. /\ me \in [pc : SenderPCs, c : {c}, attempt : Nat, phase : Phases,
                 clear : BOOLEAN]
      /\ me.pc = pc
  BY SenderTypes DEF SenderPCs
<1>3. e \in Effects /\ e.status = status
  BY <1>1 DEF Effects, Phases
<1>4. sender' = [sender EXCEPT ![s] = me] /\ effect' = [effect EXCEPT ![c] = e]
  BY DEF Settle, SenderGoto
<1>5. effect[c].status = "pending" /\ effect[c].phase = sender[s].phase
  BY DEF Owns, Receipt
<1>6. status = "failed" => ~Committed(c)
  BY <1>5 DEF Committed
<1> HIDE DEF me, e
<1> QED
  BY <1>1, <1>2, <1>3, <1>4, <1>5, <1>6, SenderWrites

(* The owner of a claim advances it, or who lost it asks for a review. *)
LEMMA ForwardWrites ==
  ASSUME SheetTypes, SheetInv, NEW s \in Senders,
         NEW phase \in Phases, NEW pc \in {"confirming", "arming", "unclear", "dispatching"},
         Forward(s, phase, pc),
         sender[s].phase \in {"preparing", "claimed"},
         pc = "confirming" => rows[sender[s].c] = 1,
         pc = "arming" => phase = "claimed",
         pc = "dispatching" => phase = "possibly_sent",
         UNCHANGED <<sent, inflight, rows>>
  PROVE  SheetStep
<1> DEFINE c == sender[s].c
           me == [sender[s] EXCEPT !.pc = pc, !.phase = phase]
           e == [effect[c] EXCEPT !.phase = phase]
<1>1. CASE ~Owns(s)
  BY <1>1, GotoMoves DEF Forward, SheetFrame, SenderPCs
<1>2. CASE Owns(s)
  <2>1. c \in Candidates /\ effect[c] \in Effects
    BY SenderTypes
  <2>2. /\ me \in [pc : SenderPCs, c : {c}, attempt : Nat, phase : Phases,
                   clear : BOOLEAN]
        /\ me.pc = pc /\ me.phase = phase
    BY SenderTypes DEF SenderPCs
  <2>3. effect[c].status = "pending" /\ effect[c].phase = sender[s].phase
    BY <1>2 DEF Owns, Receipt
  <2>4. e \in Effects /\ e.status = "pending" /\ e.phase = phase
    BY <2>1, <2>3 DEF Effects
  <2>5. sender' = [sender EXCEPT ![s] = me] /\ effect' = [effect EXCEPT ![c] = e]
    BY <1>2 DEF Forward, Advance
  <2>6. ~Committed(c)
    BY <2>3 DEF Committed
  <2> HIDE DEF me, e
  <2> QED
    BY <2>1, <2>2, <2>3, <2>4, <2>5, <2>6, SenderWrites
<1> QED
  BY <1>1, <1>2

LEMMA FailMoves ==
  ASSUME SheetTypes, SheetInv, NEW s \in Senders, FailsClearlyOrNot(s),
         sender[s].phase \in {"preparing", "claimed"}, SheetFrame
  PROVE  SheetStep
<1>1. PICK proven \in BOOLEAN :
        sender' = [sender EXCEPT ![s].pc = "failing", ![s].clear = proven]
  BY DEF FailsClearlyOrNot
<1> DEFINE me == [sender[s] EXCEPT !.pc = "failing", !.clear = proven]
<1>2. /\ me \in [pc : SenderPCs \ {"dispatching"}, c : Candidates, attempt : Nat,
                 phase : Phases, clear : BOOLEAN]
      /\ me.pc = "failing" /\ me.phase = sender[s].phase
  BY SenderTypes DEF SenderPCs
<1>3. sender' = [sender EXCEPT ![s] = me]
  BY <1>1
<1> HIDE DEF me
<1> QED
  BY <1>2, <1>3, SenderMoves DEF SheetFrame

(* Every step of a sender that changes nothing but receipts. *)
CalmStep(s) ==
  \/ SenderRead(s) \/ SenderBootstrap(s) \/ SenderClaimFailure(s)
  \/ SenderMarkFailure(s) \/ SenderClaim(s) \/ SenderPrepare(s)
  \/ SenderArm(s) \/ SenderAnswer(s) \/ SenderConfirm(s)
  \/ SenderUnclear(s) \/ SenderExpire(s) \/ SenderFail(s) \/ SenderRecheck(s)

LEMMA CalmSteps ==
  ASSUME SheetTypes, SheetInv, NEW s \in Senders, CalmStep(s)
  PROVE  SheetStep /\ Calm(s)
<1> USE DEF Calm, SheetFrame
<1>1. CASE SenderRead(s)
  BY <1>1, RecoverMoves, GotoMoves DEF SenderRead, SenderPCs
<1>2. CASE SenderBootstrap(s)
  BY <1>2, GotoMoves DEF SenderBootstrap, SenderPCs
<1>3. CASE SenderClaimFailure(s)
  BY <1>3, ClaimWrites, GotoMoves, ExitMoves DEF SenderClaimFailure, SenderPCs, Phases
<1>4. CASE SenderMarkFailure(s)
  <2>1. sender[s].phase = "bootstrap"
    BY <1>4 DEF SenderMarkFailure, SenderAt, SheetInv, SenderInv
  <2> QED
    BY <1>4, <2>1, SettleWrites, ExitMoves DEF SenderMarkFailure
<1>5. CASE SenderClaim(s)
  BY <1>5, ClaimWrites, RecoverMoves, GotoMoves, ExitMoves DEF SenderClaim, SenderPCs,
     Phases
<1>6. CASE SenderPrepare(s)
  <2>1. sender[s].phase = "preparing"
    BY <1>6 DEF SenderPrepare, SenderAt, SheetInv, SenderInv
  <2>2. CASE FailsClearlyOrNot(s)
    BY <1>6, <2>1, <2>2, FailMoves DEF SenderPrepare, FailsClearlyOrNot
  <2>3. CASE Forward(s, "claimed", IF rows[sender[s].c] = 1 THEN "confirming"
                                                            ELSE "arming")
    <3>1. CASE rows[sender[s].c] = 1
      <4>1. Forward(s, "claimed", "confirming")
        BY <2>3, <3>1
      <4> QED
        BY <1>6, <2>1, <3>1, <4>1, ForwardWrites DEF SenderPrepare, Phases
    <3>2. CASE rows[sender[s].c] # 1
      <4>1. Forward(s, "claimed", "arming")
        BY <2>3, <3>2
      <4> QED
        BY <1>6, <2>1, <4>1, ForwardWrites DEF SenderPrepare, Phases
    <3> QED
      BY <3>1, <3>2
  <2>4. CASE Forward(s, "claimed", "unclear")
    BY <1>6, <2>1, <2>4, ForwardWrites DEF SenderPrepare, Phases
  <2> QED
    BY <1>6, <2>2, <2>3, <2>4 DEF SenderPrepare
<1>7. CASE SenderArm(s)
  <2>1. sender[s].phase = "claimed"
    BY <1>7 DEF SenderArm, SenderAt, SheetInv, SenderInv
  <2>2. CASE FailsClearlyOrNot(s)
    BY <1>7, <2>1, <2>2, FailMoves DEF SenderArm, FailsClearlyOrNot
  <2>3. CASE Forward(s, "possibly_sent", "dispatching")
    BY <1>7, <2>1, <2>3, ForwardWrites DEF SenderArm, Phases
  <2> QED
    BY <1>7, <2>2, <2>3 DEF SenderArm
<1>8. CASE SenderAnswer(s)
  <2>1. CASE SenderGoto(s, "unclear")
    BY <1>8, <2>1, GotoMoves DEF SenderAnswer, SenderPCs
  <2>2. CASE rows[sender[s].c] = 1 /\ SenderGoto(s, "confirming")
    <3> DEFINE me == [sender[s] EXCEPT !.pc = "confirming"]
    <3>1. /\ me \in [pc : SenderPCs \ {"dispatching"}, c : Candidates, attempt : Nat,
                     phase : Phases, clear : BOOLEAN]
          /\ me.pc = "confirming" /\ me.c = sender[s].c
      BY SenderTypes DEF SenderPCs
    <3>2. sender' = [sender EXCEPT ![s] = me]
      BY <2>2 DEF SenderGoto
    <3> HIDE DEF me
    <3> QED
      BY <1>8, <2>2, <3>1, <3>2, SenderMoves DEF SenderAnswer
  <2> QED
    BY <1>8, <2>1, <2>2 DEF SenderAnswer
<1>9. CASE SenderConfirm(s)
  <2>1. rows[sender[s].c] = 1
    BY <1>9 DEF SenderConfirm, SenderAt, SheetInv, SenderInv
  <2> QED
    BY <1>9, <2>1, SettleWrites, GotoMoves, ExitMoves DEF SenderConfirm, SenderPCs
<1>10. CASE SenderUnclear(s) \/ SenderExpire(s)
  BY <1>10, SettleWrites, ExitMoves DEF SenderUnclear, SenderExpire
<1>11. CASE SenderFail(s)
  <2>1. sender[s].phase # "possibly_sent" /\ sender[s].clear \in BOOLEAN
    BY <1>11, SenderTypes DEF SenderFail, SenderAt, SheetInv, SenderInv
  <2> QED
    BY <1>11, <2>1, SettleWrites, GotoMoves DEF SenderFail, SenderPCs
<1>12. CASE SenderRecheck(s)
  BY <1>12, GotoMoves, ExitMoves DEF SenderRecheck, SenderPCs
<1> QED
  BY <1>1, <1>2, <1>3, <1>4, <1>5, <1>6, <1>7, <1>8, <1>9, <1>10, <1>11, <1>12
     DEF CalmStep

(* The request leaves once: nobody else may dispatch the draft. *)
LEMMA DispatchStep ==
  ASSUME SheetTypes, SheetInv, NEW s \in Senders, SenderDispatch(s)
  PROVE  SheetStep
<1> DEFINE c == sender[s].c
           me == [sender[s] EXCEPT !.pc = "awaiting"]
<1>1. /\ sender' = [sender EXCEPT ![s] = me] /\ UNCHANGED <<effect, rows>>
      /\ sent' = [sent EXCEPT ![c] = @ + 1]
      /\ inflight' = [inflight EXCEPT ![c] = @ + 1]
      /\ sender[s].pc = "dispatching"
  BY DEF SenderDispatch, SenderAt, SenderGoto
<1>2. /\ me \in [pc : SenderPCs, c : Candidates, attempt : Nat,
                 phase : Phases, clear : BOOLEAN]
      /\ me.pc = "awaiting" /\ c \in Candidates
  BY SenderTypes DEF SenderPCs
<1>3. sent[c] = 0 /\ Committed(c) /\ RowInv(c)
  BY <1>1, <1>2 DEF SheetInv, SenderInv
<1> HIDE DEF me
<1>4. sender'[s] = me /\ \A t \in Senders \ {s} : sender'[t] = sender[t]
  BY <1>1 DEF SheetTypes
<1> HIDE DEF c
<1>5. /\ sent'[c] = 1 /\ rows'[c] + inflight'[c] <= 1
      /\ \A d \in Candidates \ {c} : sent'[d] = sent[d] /\ inflight'[d] = inflight[d]
  BY <1>1, <1>2, <1>3 DEF SheetTypes, RowInv
<1>6. SheetTypes'
  BY <1>1, <1>2 DEF SheetTypes
<1>7. \A d \in Candidates : RowInv(d)' /\ EffectMove(d)
  BY <1>1, <1>3, <1>5 DEF SheetTypes, SheetInv, RowInv, Committed, EffectMove
<1>8. ASSUME NEW t \in Senders PROVE SenderInv(t)'
  <2>1. CASE t = s
    BY <1>2, <1>4, <2>1 DEF SenderInv
  <2>2. CASE t # s
    <3>1. sender[t].pc = "dispatching" => sender[t].c # c
      BY <2>2, <1>1 DEF SheetInv, OneDispatches, c
    <3>2. sender[t].c \in Candidates
      BY DEF SheetTypes
    <3> QED
      BY <2>2, <3>1, <3>2, <1>1, <1>4, <1>5 DEF SheetInv, SenderInv, Committed
  <2> QED
    BY <2>1, <2>2
<1>9. OneDispatches'
  BY <1>2, <1>4 DEF SheetInv, OneDispatches
<1> QED
  BY <1>6, <1>7, <1>8, <1>9 DEF SheetStep, SheetInv

(* The world: a lease lapses, the sheet decides. *)
LEMMA WorldStep ==
  ASSUME SheetTypes, SheetInv, NEW c \in Candidates,
         LeaseLapses(c) \/ SheetDecides(c)
  PROVE  SheetStep
<1>1. CASE LeaseLapses(c)
  <2>1. /\ effect' = [effect EXCEPT ![c].lapsed = TRUE]
        /\ UNCHANGED <<sent, inflight, rows, sender>>
    BY <1>1 DEF LeaseLapses
  <2>2. /\ effect' \in [Candidates -> Effects]
        /\ \A d \in Candidates : /\ effect'[d].status = effect[d].status
                                 /\ effect'[d].phase = effect[d].phase
    <3> DEFINE e == [effect[c] EXCEPT !.lapsed = TRUE]
    <3>1. /\ e \in Effects
          /\ e.status = effect[c].status /\ e.phase = effect[c].phase
      <4>1. effect[c] \in Effects
        BY DEF SheetTypes
      <4> QED
        BY <4>1 DEF Effects
    <3>2. effect' = [effect EXCEPT ![c] = e]
      BY <2>1
    <3> HIDE DEF e
    <3> QED
      BY <3>1, <3>2 DEF SheetTypes
  <2>3. SheetTypes'
    BY <2>1, <2>2 DEF SheetTypes
  <2>4. \A d \in Candidates : (Committed(d)' <=> Committed(d)) /\ RowInv(d)' /\ EffectMove(d)
    BY <2>1, <2>2 DEF SheetTypes, SheetInv, RowInv, Committed, EffectMove
  <2>5. \A t \in Senders : SenderInv(t)'
    BY <2>1, <2>4 DEF SheetTypes, SheetInv, SenderInv
  <2>6. OneDispatches'
    BY <2>1 DEF SheetInv, OneDispatches
  <2> QED
    BY <2>3, <2>4, <2>5, <2>6 DEF SheetStep, SheetInv
<1>2. CASE SheetDecides(c)
  <2>1. /\ inflight' = [inflight EXCEPT ![c] = @ - 1] /\ inflight[c] > 0
        /\ rows' = [rows EXCEPT ![c] = @ + 1] \/ UNCHANGED rows
        /\ UNCHANGED <<sent, effect, sender>>
    BY <1>2 DEF SheetDecides
  <2>2. RowInv(c) /\ inflight[c] \in Nat /\ rows[c] \in Nat /\ sent[c] \in Nat
    BY DEF SheetInv, SheetTypes
  <2>3. /\ SheetTypes'
        /\ \A d \in Candidates \ {c} : rows'[d] = rows[d] /\ inflight'[d] = inflight[d]
        /\ rows'[c] \in {rows[c], rows[c] + 1} /\ inflight'[c] = inflight[c] - 1
    BY <2>1, <2>2 DEF SheetTypes
  <2>4. inflight[c] = 1 /\ rows[c] = 0
    BY <2>1, <2>2 DEF RowInv
  <2>5. \A d \in Candidates : RowInv(d)' /\ EffectMove(d)
    BY <2>1, <2>2, <2>3, <2>4 DEF SheetTypes, SheetInv, RowInv, Committed, EffectMove
  <2>6. \A t \in Senders : SenderInv(t)'
    BY <2>1, <2>3, <2>4 DEF SheetTypes, SheetInv, SenderInv, Committed
  <2>7. OneDispatches'
    BY <2>1 DEF SheetInv, OneDispatches
  <2> QED
    BY <2>3, <2>5, <2>6, <2>7 DEF SheetStep, SheetInv
<1> QED
  BY <1>1, <1>2

(* A sender starts, a sender dies. *)
LEMMA BeginMoves ==
  ASSUME SheetTypes, SheetInv, NEW s \in Senders, NEW c \in Candidates,
         Begin(s, c), SheetFrame
  PROVE  SheetStep
<1> DEFINE me == [sender[s] EXCEPT !.pc = "reading", !.c = c]
<1>1. me \in [pc : SenderPCs \ {"dispatching"}, c : Candidates, attempt : Nat,
              phase : Phases, clear : BOOLEAN] /\ me.pc = "reading"
  BY SenderTypes DEF SenderPCs
<1>2. sender' = [sender EXCEPT ![s] = me]
  BY DEF Begin
<1> HIDE DEF me
<1> QED
  BY <1>1, <1>2, SenderMoves DEF SheetFrame

-----------------------------------------------------------------------------
(* Every step *)

Base == Types /\ StatesAgree /\ CodexInv /\ SheetInv
Step == StoryNote /\ CodexInv' /\ SheetStep

LEMMA TickSteps == Base /\ (TickStep \/ TickCrash) => Step
<1> SUFFICES ASSUME Base, TickStep \/ TickCrash PROVE Step
  OBVIOUS
<1>1. StoryNote
  BY TickTypes, TickCrashTypes DEF Base
<1>2. UNCHANGED <<codexVars, sheetVars>>
  BY DEF TickStep, TickCrash, TickStart, TickSelect, TickClaim, TickSend, TickSettle,
     TickReview, TickPoll, TickDone, TickClick, TickAdvance
<1> QED
  BY <1>1, <1>2, CodexInvRests, SheetRest DEF Step, Base, Types

LEMMA WorkerSteps == Base /\ (WorkerStep \/ WorkerCrash) => Step
<1> SUFFICES ASSUME Base, WorkerStep \/ WorkerCrash PROVE Step
  OBVIOUS
<1>1. StoryCodex
  BY WorkerTypes DEF Base
<1>2. UNCHANGED sheetVars
  BY DEF WorkerStep, WorkerCrash, WorkerStart, WorkerPrepare, WorkerBegin, WorkerCall,
     WorkerFail, WorkerCommit
<1> QED
  BY <1>1, <1>2, SheetRest DEF Step, StoryCodex, Base, Types

LEMMA FrameRests ==
  Base /\ SenderFrame => /\ NoteTypes' /\ CodexTypes' /\ ClickTypes' /\ Polled'
                         /\ CodexInv'
  BY NotesRest, CodexRests, ClicksRest, CodexInvRests DEF SenderFrame, Base, Types

LEMMA SenderSteps ==
  ASSUME Base, NEW s \in Senders, SenderRuns(s)
  PROVE  Step
<1>0. SheetTypes /\ SheetInv /\ StoryTypes /\ sender[s].c \in Candidates
  BY SenderTypes DEF Base, Types
<1>1. CASE CalmStep(s)
  <2>1. SheetStep /\ Calm(s)
    BY <1>0, <1>1, CalmSteps
  <2> QED
    BY <1>0, <2>1, FrameRests, StoryRests DEF Step, StoryNote, SheetStep, Calm
<1>2. CASE SenderDispatch(s)
  <2>1. SheetStep
    BY <1>0, <1>2, DispatchStep
  <2> QED
    BY <1>0, <1>2, <2>1, FrameRests, StoryRests DEF Step, StoryNote, SheetStep,
       SenderDispatch
<1>3. CASE SenderReview(s)
  <2>1. SheetStep
    BY <1>0, <1>3, ExitMoves DEF SenderReview, SheetFrame
  <2>2. StoryStep
    BY <1>0, <1>3, ReviewStep DEF SenderReview
  <2> QED
    BY <1>3, <2>1, <2>2, FrameRests DEF Step, StoryNote, SheetStep, SenderReview
<1>4. CASE SenderDeliver(s)
  <2> DEFINE c == sender[s].c
  <2>1. SheetStep
    BY <1>0, <1>4, ExitMoves DEF SenderDeliver, SheetFrame
  <2>2. StoryStep
    <3>1. CASE Deliverable(c)
      <4>1. /\ MoveTo("sheet_delivered", {c})
            /\ storyDone' = [storyDone EXCEPT ![c] = TRUE]
            /\ UNCHANGED <<born, story, reviewed>>
        BY <1>4, <3>1 DEF SenderDeliver, MarkDelivered
      <4>2. {c} \in SUBSET Candidates /\ "sheet_delivered" \in States
            /\ "sheet_delivered" \in DraftStates
        BY <1>0 DEF States, DraftStates
      <4>3. /\ cand' \in [Candidates -> States] /\ draft' \in [Candidates -> DraftStates]
            /\ \A d \in {c} : cand'[d] = "sheet_delivered"
            /\ \A d \in {c} : draft'[d] = IF draft[d] = "none" THEN "none"
                                                          ELSE "sheet_delivered"
            /\ \A d \in Candidates \ {c} : cand'[d] = cand[d] /\ draft'[d] = draft[d]
        BY <1>0, <4>1, <4>2, MoveTypes
      <4>4. StoryTypes' /\ \A d \in Candidates \ {c} : storyDone'[d] = storyDone[d]
        BY <1>0, <4>1, <4>3 DEF StoryTypes
      <4>5. DeliverMove(c)
        BY <1>0, <3>1, <4>1, <4>3 DEF DeliverMove, Deliverable, StoryTypes
      <4> QED
        BY <4>3, <4>4, <4>5 DEF StoryStep, Move, DoneMove
    <3>2. CASE ~Deliverable(c)
      BY <1>0, <1>4, <3>2, StoryRests DEF SenderDeliver, storyVars
    <3> QED
      BY <3>1, <3>2
  <2> QED
    BY <1>4, <2>1, <2>2, FrameRests DEF Step, StoryNote, SheetStep, SenderDeliver
<1> QED
  BY <1>1, <1>2, <1>3, <1>4 DEF SenderRuns, CalmStep

LEMMA SenderBounds ==
  ASSUME Base, NEW s \in Senders,
         \/ SenderCrash(s)
         \/ s = Service /\ ServiceStart
         \/ \E c \in Candidates : ManualStart(s, c)
  PROVE  Step
<1>0. SheetTypes /\ SheetInv /\ StoryTypes
  BY DEF Base, Types
<1>1. CASE SenderCrash(s)
  <2>1. SheetStep
    BY <1>0, <1>1, ExitMoves DEF SenderCrash, SheetFrame
  <2>2. StoryStep /\ NoteTypes' /\ CodexTypes' /\ CodexInv'
    BY <1>0, <1>1, StoryRests, NotesRest, CodexRests, CodexInvRests DEF SenderCrash,
       Base, Types
  <2>3. ClickTypes' /\ Polled'
    BY <1>1, FaultsCount DEF SenderCrash, Base, Types, ClickTypes, Polled, TickAt,
       clickVars
  <2> QED
    BY <2>1, <2>2, <2>3 DEF Step, StoryNote, SheetStep
<1>2. CASE s = Service /\ ServiceStart
  <2>1. OldestDraft(Selectable) \in Candidates
    BY <1>0, <1>2, OldestDraftIsOne DEF ServiceStart, StoryTypes, Selectable
  <2>2. SheetStep
    BY <1>0, <1>2, <2>1, BeginMoves DEF ServiceStart, SheetFrame, Calm
  <2> QED
    BY <1>0, <1>2, <2>2, FrameRests, StoryRests DEF Step, StoryNote, SheetStep,
       ServiceStart, Calm
<1>3. CASE \E c \in Candidates : ManualStart(s, c)
  <2>1. SheetStep /\ SenderFrame /\ UNCHANGED storyVars
    BY <1>0, <1>3, BeginMoves DEF ManualStart, SheetFrame, Calm
  <2> QED
    BY <1>0, <2>1, FrameRests, StoryRests DEF Step, StoryNote, SheetStep
<1> QED
  BY <1>1, <1>2, <1>3

LEMMA WorldSteps ==
  ASSUME Base,
         \/ \E g \in Gates, c \in Candidates : Press(g, c) \/ ButtonExpires(g, c)
         \/ \E c \in Candidates : LeaseLapses(c) \/ SheetDecides(c)
         \/ UNCHANGED vars
  PROVE  Step
<1>0. StoryTypes /\ NoteTypes /\ SheetTypes /\ SheetInv /\ ClickTypes /\ Polled
  BY DEF Base, Types
<1>1. CASE \E g \in Gates, c \in Candidates : Press(g, c)
  <2>1. PICK g \in Gates, c \in Candidates : Press(g, c)
    BY <1>1
  <2>2. /\ presses' = Append(presses, <<g, c>>)
        /\ UNCHANGED <<storyVars, noteVars, codexVars, sheetVars, offset, tick, faults>>
    BY <2>1 DEF Press
  <2>3. Len(presses') = Len(presses) + 1 /\ Len(presses) \in Nat
        /\ presses' \in Seq(Gates \X Candidates)
    BY <1>0, <2>2 DEF ClickTypes
  <2>4. ClickTypes' /\ Polled'
    BY <1>0, <2>2, <2>3 DEF ClickTypes, Polled, TickAt
  <2> QED
    BY <2>2, <2>4, StoryRests, NotesRest, CodexRests, CodexInvRests, SheetRest
       DEF Step, StoryNote, SheetStep, Base, Types
<1>2. CASE \E g \in Gates, c \in Candidates : ButtonExpires(g, c)
  <2>1. PICK g \in Gates, c \in Candidates : ButtonExpires(g, c)
    BY <1>2
  <2>2. /\ button' = [button EXCEPT ![g][c] = "expired"] /\ UNCHANGED <<note, chat>>
        /\ UNCHANGED <<storyVars, codexVars, sheetVars, clickVars, tick, faults>>
    BY <2>1 DEF ButtonExpires
  <2>3. NoteTypes'
    BY <1>0, <2>2 DEF NoteTypes
  <2> QED
    BY <2>2, <2>3, StoryRests, CodexRests, CodexInvRests, SheetRest, ClicksRest
       DEF Step, StoryNote, SheetStep, Base, Types
<1>3. CASE \E c \in Candidates : LeaseLapses(c) \/ SheetDecides(c)
  <2>1. SheetStep
    BY <1>0, <1>3, WorldStep
  <2>2. UNCHANGED <<storyVars, noteVars, codexVars, clickVars, tick, faults>>
    BY <1>3 DEF LeaseLapses, SheetDecides
  <2> QED
    BY <2>1, <2>2, StoryRests, NotesRest, CodexRests, CodexInvRests, ClicksRest
       DEF Step, StoryNote, SheetStep, Base, Types
<1>4. CASE UNCHANGED vars
  BY <1>4, StoryRests, NotesRest, CodexRests, CodexInvRests, SheetRest, ClicksRest
     DEF Step, StoryNote, SheetStep, Base, Types, vars
<1> QED
  BY <1>1, <1>2, <1>3, <1>4

LEMMA StorySteps ==
  ASSUME Base,
         \/ Hold
         \/ \E S \in SUBSET Candidates :
              Release(S) \/ \E another \in BOOLEAN : Converge(S, another)
  PROVE  Step
<1>0. StoryTypes
  BY DEF Base, Types
<1>1. UNCHANGED <<cand, draft, born, reviewed, noteVars, codexVars, sheetVars,
                  clickVars, tick>>
  BY DEF Hold, Release, Converge
<1>2. ClickTypes' /\ Polled'
  <2>1. faults' = faults \/ Fault
    BY DEF Hold, Release, Converge
  <2> QED
    BY <1>1, <2>1, FaultsCount DEF Base, Types, ClickTypes, Polled, TickAt, clickVars
<1>3. /\ story' \in [Candidates -> {"open", "held", "quarantined"}]
      /\ storyDone' \in [Candidates -> BOOLEAN]
      /\ \A c \in Candidates : DoneMove(c)
  <2>1. CASE Hold
    BY <1>0, <2>1 DEF Hold, StoryTypes, DoneMove
  <2>2. CASE \E S \in SUBSET Candidates : Release(S)
    BY <1>0, <2>2 DEF Release, StoryTypes, DoneMove
  <2>3. ASSUME NEW S \in SUBSET Candidates, NEW another \in BOOLEAN, Converge(S, another)
        PROVE  /\ story' \in [Candidates -> {"open", "held", "quarantined"}]
               /\ storyDone' \in [Candidates -> BOOLEAN]
               /\ \A c \in Candidates : DoneMove(c)
    <3>1. CASE /\ story' = [c \in Candidates |->
                              IF c \in S THEN "quarantined" ELSE story[c]]
               /\ UNCHANGED storyDone
      BY <1>0, <3>1 DEF StoryTypes, DoneMove
    <3>2. CASE /\ storyDone' = [c \in Candidates |->
                                  storyDone[c] \/ (c \in S /\ HasEvidence(c))]
               /\ UNCHANGED story
      <4>1. storyDone' \in [Candidates -> BOOLEAN]
        BY <1>0, <3>2 DEF StoryTypes
      <4>2. \A c \in Candidates :
              storyDone'[c] = (storyDone[c] \/ (c \in S /\ HasEvidence(c)))
        BY <3>2
      <4>3. ASSUME NEW c \in Candidates PROVE DoneMove(c)
        <5>1. storyDone[c] \in BOOLEAN
          BY <1>0 DEF StoryTypes
        <5>2. CASE c \in S /\ HasEvidence(c)
          BY <4>2, <5>2 DEF DoneMove
        <5>3. CASE ~(c \in S /\ HasEvidence(c))
          <6>1. storyDone[c] = TRUE => storyDone'[c] = TRUE
            BY <4>2, Zenon
          <6>2. storyDone[c] = FALSE => storyDone'[c] = FALSE
            BY <4>2, <5>3, Zenon
          <6>3. storyDone[c] = TRUE \/ storyDone[c] = FALSE
            BY <5>1
          <6>4. storyDone'[c] = storyDone[c]
            BY <6>1, <6>2, <6>3, Zenon
          <6> QED
            BY <6>4, Zenon DEF DoneMove
        <5> QED
          BY <5>2, <5>3
      <4> QED
        BY <1>0, <3>2, <4>1, <4>3 DEF StoryTypes
    <3> QED
      BY <2>3, <3>1, <3>2 DEF Converge
  <2> QED
    BY <2>1, <2>2, <2>3
<1>4. StoryStep
  BY <1>0, <1>1, <1>3 DEF StoryStep, StoryTypes, Move
<1> QED
  BY <1>1, <1>2, <1>4, NotesRest, CodexRests, CodexInvRests, SheetRest
     DEF Step, StoryNote, SheetStep, Base, Types

LEMMA AllSteps == Base /\ [Next]_vars => Step
<1> SUFFICES ASSUME Base, [Next]_vars PROVE Step
  OBVIOUS
<1> QED
  BY TickSteps, WorkerSteps, SenderSteps, SenderBounds, WorldSteps, StorySteps,
     ServiceIsASender DEF Next

(* Every move takes the draft with its candidate. *)
LEMMA AgreeStays == Base /\ Step => StatesAgree'
<1> SUFFICES ASSUME Base, Step, NEW c \in Candidates
             PROVE  draft'[c] \in {"none", cand'[c]}
  BY DEF StatesAgree
<1>1. Move(c)
  BY DEF Step, StoryNote, StoryStep
<1> QED
  BY <1>1 DEF Move, ApproveMove, ReviewMove, DraftMove, DeliverMove, Base, StatesAgree

LEMMA BaseStays == Base /\ [Next]_vars => Base' /\ Step
<1> SUFFICES ASSUME Base, [Next]_vars PROVE Base' /\ Step
  OBVIOUS
<1>1. Step
  BY AllSteps
<1> QED
  BY <1>1, AgreeStays DEF Step, StoryNote, StoryStep, SheetStep, Base, Types

LEMMA BaseStarts == Init => Base
<1> SUFFICES ASSUME Init PROVE Base
  OBVIOUS
<1>1. Types
  BY TypesStart
<1>2. StatesAgree /\ CodexInv
  BY OneIsACandidate DEF Init, StatesAgree, CodexInv, Launched, WorkerAt, RestingWorker
<1>3. SheetInv
  BY OneIsACandidate DEF Init, SheetInv, SenderInv, RowInv, OneDispatches, RestingSender,
     NoEffect
<1> QED
  BY <1>1, <1>2, <1>3 DEF Base

-----------------------------------------------------------------------------
(* What is delivered *)

DeliveryInv == DeliveredIsWhole /\ ReceiptMeansRow

LEMMA DeliveryStays == Base /\ Base' /\ DeliveryInv /\ Step => DeliveryInv'
<1> SUFFICES ASSUME Base, Base', DeliveryInv, Step PROVE DeliveryInv'
  OBVIOUS
<1>1. ASSUME NEW c \in Candidates
      PROVE  /\ cand'[c] = "sheet_delivered" \/ draft'[c] = "sheet_delivered" =>
                  /\ cand'[c] = draft'[c] /\ storyDone'[c]
                  /\ effect'[c].status = "confirmed" /\ rows'[c] = 1
             /\ effect'[c].status = "confirmed" \/ storyDone'[c] => rows'[c] = 1
  <2>1. Move(c) /\ DoneMove(c) /\ EffectMove(c)
    BY <1>1 DEF Step, StoryNote, StoryStep, SheetStep
  <2>2. /\ effect'[c].status = "confirmed" => rows'[c] = 1
        /\ rows'[c] <= 1 /\ rows'[c] \in Nat /\ rows[c] \in Nat
    BY DEF Base, Types, SheetTypes, SheetInv, RowInv
  <2>3. rows[c] = 1 => rows'[c] = 1
    BY <2>1, <2>2 DEF EffectMove
  <2>4. effect[c].status = "confirmed" => effect'[c].status = "confirmed"
    BY <2>1 DEF EffectMove, Claimable, Eligible
  <2>5. storyDone[c] => storyDone'[c]
    BY <2>1 DEF DoneMove, DeliverMove
  <2>6. storyDone'[c] => rows'[c] = 1
    <3>1. CASE storyDone'[c] = storyDone[c]
      BY <3>1, <2>3 DEF DeliveryInv, ReceiptMeansRow
    <3>2. CASE DeliverMove(c)
      BY <3>2, <2>3 DEF DeliverMove, Deliverable, DeliveryInv, ReceiptMeansRow
    <3>3. CASE HasEvidence(c)
      BY <3>3, <2>3 DEF HasEvidence, DeliveryInv, ReceiptMeansRow, DeliveredIsWhole
    <3> QED
      BY <2>1, <3>1, <3>2, <3>3 DEF DoneMove
  <2>7. ASSUME cand'[c] = "sheet_delivered" \/ draft'[c] = "sheet_delivered"
        PROVE  /\ cand'[c] = draft'[c] /\ storyDone'[c]
               /\ effect'[c].status = "confirmed" /\ rows'[c] = 1
    <3>1. CASE cand'[c] = cand[c] /\ draft'[c] = draft[c]
      BY <2>3, <2>4, <2>5, <2>7, <3>1 DEF DeliveryInv, DeliveredIsWhole
    <3>2. CASE DeliverMove(c)
      BY <2>4, <2>6, <3>2 DEF DeliverMove, Deliverable
    <3>3. ~ApproveMove(c) /\ ~ReviewMove(c) /\ ~DraftMove(c)
      BY <2>7 DEF ApproveMove, ReviewMove, DraftMove, Approved
    <3> QED
      BY <2>1, <3>1, <3>2, <3>3 DEF Move
  <2> QED
    BY <2>2, <2>6, <2>7
<1> QED
  BY <1>1 DEF DeliveryInv, DeliveredIsWhole, ReceiptMeansRow

-----------------------------------------------------------------------------
(* What becomes of a click *)

(* A click that was passed over has no live button at a gate that waits. *)
Spent(g, c) == button[g][c] = "live" => ~AtGate(g, c)

ClickInv ==
  /\ \A g \in Gates, c \in Candidates :
       chat[g][c] \/ button[g][c] # "none" => note[g][c] # "none"
  /\ \A c \in Candidates : draft[c] = "none" => note["draft"][c] = "none"
  /\ \A i \in 1..Len(presses) : note[presses[i][1]][presses[i][2]] # "none"
  /\ TickAt("claiming") => note[tick.gate][tick.c] = "none"
  /\ tick.pc \in {"sending", "sent", "unclear"} => note[tick.gate][tick.c] # "none"
  /\ TickAt("advancing") => Spent(presses[offset + 1][1], presses[offset + 1][2])
  /\ \A i \in 1..offset : Spent(presses[i][1], presses[i][2])

(* How a step may change notifications, buttons and clicks. *)
NoteMove(g, c) ==
  /\ note[g][c] # "none" => /\ note'[g][c] # "none"
                            /\ button'[g][c] = "live" => button[g][c] = "live"
  /\ note[g][c] = "none" /\ note'[g][c] # "none" => AtGate(g, c)
  /\ (chat'[g][c] \/ button'[g][c] # "none")
       => (note'[g][c] # "none" \/ chat[g][c] \/ button[g][c] # "none")
NoteMoves == \A g \in Gates, c \in Candidates : NoteMove(g, c)
ClickMoves ==
  \/ presses' = presses
  \/ \E g \in Gates, c \in Candidates :
       /\ chat[g][c] /\ presses' = Append(presses, <<g, c>>)
       /\ UNCHANGED <<storyVars, noteVars, offset, tick>>

(* A click that was spent stays spent. *)
LEMMA SpentStays ==
  ASSUME Base, ClickInv, Step, NoteMoves,
         NEW g \in Gates, NEW c \in Candidates, note[g][c] # "none", Spent(g, c)
  PROVE  Spent(g, c)'
<1>1. button'[g][c] = "live" => button[g][c] = "live"
  BY DEF NoteMoves, NoteMove
<1>2. Move(c)
  BY DEF Step, StoryNote, StoryStep
<1>3. AtGate(g, c)' => AtGate(g, c)
  <2>1. g = "draft" => draft[c] # "none"
    BY DEF ClickInv
  <2> QED
    BY <1>2, <2>1 DEF Move, ApproveMove, ReviewMove, DraftMove, DeliverMove, AtGate,
       Waiting, Approved, Gates
<1> QED
  BY <1>1, <1>3 DEF Spent

(* What is left for the tick to show: what it does with its own place. *)
TickMove ==
  /\ tick'.pc = "claiming" => note'[tick'.gate][tick'.c] = "none"
  /\ tick'.pc \in {"sending", "sent", "unclear"} =>
       note'[tick'.gate][tick'.c] # "none"
  /\ tick'.pc = "advancing" =>
       Spent(presses[offset + 1][1], presses[offset + 1][2])'
  /\ \/ offset' = offset
     \/ offset' = offset + 1 /\ TickAt("advancing") /\ presses' = presses

LEMMA ClicksStay ==
  ASSUME Base, Base', ClickInv, Step, NoteMoves, ClickMoves, TickMove
  PROVE  ClickInv'
<1>0. /\ presses \in Seq(Gates \X Candidates) /\ presses' \in Seq(Gates \X Candidates)
      /\ offset \in Nat /\ offset <= Len(presses) /\ Len(presses) \in Nat
      /\ \A i \in 1..Len(presses) : presses[i][1] \in Gates /\ presses[i][2] \in Candidates
  BY DEF Base, Types, ClickTypes, Polled
<1>1. \A g \in Gates, c \in Candidates :
        chat'[g][c] \/ button'[g][c] # "none" => note'[g][c] # "none"
  BY DEF ClickInv, NoteMoves, NoteMove
<1>2. \A c \in Candidates : draft'[c] = "none" => note'["draft"][c] = "none"
  <2> SUFFICES ASSUME NEW c \in Candidates, draft'[c] = "none", note'["draft"][c] # "none"
               PROVE  FALSE
    OBVIOUS
  <2>1. Move(c) /\ NoteMove("draft", c)
    BY DEF Step, StoryNote, StoryStep, NoteMoves, Gates
  <2>2. draft[c] = "none"
    BY <2>1 DEF Move, ApproveMove, ReviewMove, DraftMove, DeliverMove, Approved
  <2>3. note["draft"][c] = "none"
    BY <2>2 DEF ClickInv
  <2> QED
    BY <2>1, <2>2, <2>3 DEF NoteMove, AtGate, Waiting
<1>3. \A i \in 1..Len(presses) :
        /\ i \in 1..Len(presses') /\ presses'[i] = presses[i]
        /\ note'[presses[i][1]][presses[i][2]] # "none"
  <2>1. \A i \in 1..Len(presses) : i \in 1..Len(presses') /\ presses'[i] = presses[i]
    BY <1>0 DEF ClickMoves
  <2> QED
    BY <1>0, <2>1 DEF ClickInv, NoteMoves, NoteMove
<1>4. \A i \in 1..Len(presses') : note'[presses'[i][1]][presses'[i][2]] # "none"
  <2>1. CASE presses' = presses
    BY <1>3, <2>1
  <2>2. ASSUME NEW g \in Gates, NEW c \in Candidates,
               chat[g][c], presses' = Append(presses, <<g, c>>), note' = note
        PROVE  \A i \in 1..Len(presses') : note'[presses'[i][1]][presses'[i][2]] # "none"
    <3>1. note[g][c] # "none"
      BY <2>2 DEF ClickInv
    <3>2. Len(presses') = Len(presses) + 1 /\ presses'[Len(presses) + 1] = <<g, c>>
      BY <1>0, <2>2
    <3> QED
      BY <1>0, <1>3, <2>2, <3>1, <3>2
  <2> QED
    BY <2>1, <2>2 DEF ClickMoves, noteVars
<1>5. \A i \in 1..offset : Spent(presses[i][1], presses[i][2])'
  <2> SUFFICES ASSUME NEW i \in 1..offset
               PROVE  Spent(presses[i][1], presses[i][2])'
    OBVIOUS
  <2>1. /\ i \in 1..Len(presses) /\ presses'[i] = presses[i]
        /\ note[presses[i][1]][presses[i][2]] # "none"
        /\ presses[i][1] \in Gates /\ presses[i][2] \in Candidates
        /\ Spent(presses[i][1], presses[i][2])
    BY <1>0, <1>3 DEF ClickInv
  <2>2. PICK g \in Gates, c \in Candidates : g = presses[i][1] /\ c = presses[i][2]
    BY <2>1
  <2>3. Spent(g, c)'
    BY <2>1, <2>2, SpentStays
  <2>4. g = presses'[i][1] /\ c = presses'[i][2]
    BY <2>1, <2>2
  <2> QED
    BY <2>3, <2>4 DEF Spent, AtGate
<1>6. ASSUME offset' = offset + 1, TickAt("advancing"), presses' = presses
      PROVE  \A i \in {offset + 1} : Spent(presses[i][1], presses[i][2])'
  <2>1. /\ offset + 1 \in 1..Len(presses)
        /\ Spent(presses[offset + 1][1], presses[offset + 1][2])
    BY <1>0, <1>6 DEF ClickInv, Base, Types, Polled, ClickTypes
  <2>2. PICK g \in Gates, c \in Candidates :
          g = presses[offset + 1][1] /\ c = presses[offset + 1][2]
    BY <1>0, <2>1
  <2>3. Spent(g, c) /\ note[g][c] # "none"
    BY <2>1, <2>2 DEF ClickInv
  <2>4. Spent(g, c)'
    BY <2>3, SpentStays
  <2> QED
    BY <1>6, <2>2, <2>4 DEF Spent, AtGate
<1>7. \A i \in 1..offset' : Spent(presses[i][1], presses[i][2])'
  <2>1. CASE offset' = offset
    BY <1>5, <2>1
  <2>2. CASE offset' = offset + 1 /\ TickAt("advancing") /\ presses' = presses
    <3>1. \A i \in 1..offset' : i \in 1..offset \/ i = offset + 1
      BY <1>0, <2>2
    <3> QED
      BY <1>5, <1>6, <2>2, <3>1
  <2> QED
    BY <2>1, <2>2 DEF TickMove
<1> QED
  BY <1>1, <1>2, <1>4, <1>7 DEF ClickInv, TickMove, TickAt

Moves == NoteMoves /\ ClickMoves /\ TickMove

(* The click the tick is at has a notification. *)
LEMMA AdvancingStays ==
  ASSUME Base, ClickInv, Step, NoteMoves, TickAt("advancing"), offset' = offset,
         presses'[offset + 1] = presses[offset + 1]
  PROVE  Spent(presses[offset + 1][1], presses[offset + 1][2])'
<1>1. /\ offset + 1 \in 1..Len(presses)
      /\ presses[offset + 1][1] \in Gates /\ presses[offset + 1][2] \in Candidates
  <2>1. offset + 1 \in 1..Len(presses) /\ presses \in Seq(Gates \X Candidates)
    BY DEF Base, Types, Polled, ClickTypes
  <2> QED
    BY <2>1
<1>2. PICK g \in Gates, c \in Candidates :
        g = presses[offset + 1][1] /\ c = presses[offset + 1][2]
  BY <1>1
<1>3. Spent(g, c) /\ note[g][c] # "none"
  BY <1>1, <1>2 DEF ClickInv
<1>4. Spent(g, c)'
  BY <1>3, SpentStays
<1> QED
  BY <1>2, <1>4 DEF Spent, AtGate

(* Steps of the others leave the tick, the clicks and the notes alone. *)
LEMMA OthersMove ==
  ASSUME Base, ClickInv, Step, UNCHANGED <<note, chat, clickVars, tick>>,
         \/ UNCHANGED button
         \/ \E g \in Gates, c \in Candidates : ButtonExpires(g, c)
  PROVE  Moves
<1>1. NoteMoves
  <2>1. CASE UNCHANGED button
    BY <2>1 DEF NoteMoves, NoteMove
  <2>2. CASE \E g \in Gates, c \in Candidates : ButtonExpires(g, c)
    <3>1. PICK g \in Gates, c \in Candidates : ButtonExpires(g, c)
      BY <2>2
    <3>2. \A h \in Gates, d \in Candidates :
            button'[h][d] = button[h][d]
            \/ (button'[h][d] = "expired" /\ button[h][d] = "live")
      BY <3>1 DEF ButtonExpires, Base, Types, NoteTypes
    <3> QED
      BY <3>2 DEF NoteMoves, NoteMove
  <2> QED
    BY <2>1, <2>2
<1>2. ClickMoves
  BY DEF ClickMoves, clickVars
<1>3. TickMove
  BY <1>1, AdvancingStays DEF TickMove, ClickInv, TickAt, clickVars
<1> QED
  BY <1>1, <1>2, <1>3 DEF Moves

LEMMA PressMoves ==
  ASSUME Base, ClickInv, Step, NEW g \in Gates, NEW c \in Candidates, Press(g, c)
  PROVE  Moves
<1>1. /\ chat[g][c] /\ presses' = Append(presses, <<g, c>>)
      /\ UNCHANGED <<storyVars, noteVars, codexVars, sheetVars, offset, tick, faults>>
  BY DEF Press
<1>2. NoteMoves /\ ClickMoves
  BY <1>1 DEF NoteMoves, NoteMove, ClickMoves, noteVars
<1>3. TickAt("advancing") => presses'[offset + 1] = presses[offset + 1]
  BY <1>1 DEF Base, Types, Polled, ClickTypes, TickAt
<1>4. TickMove
  BY <1>1, <1>2, <1>3, AdvancingStays DEF TickMove, ClickInv, TickAt, noteVars
<1> QED
  BY <1>2, <1>4 DEF Moves

(* Steps of the tick that are not about a click. *)
LEMMA TickMoves ==
  ASSUME Base, ClickInv, Step, TickStep \/ TickCrash, ~TickClick, ~TickAdvance
  PROVE  Moves
<1>0. /\ tick.gate \in Gates /\ tick.c \in Candidates
      /\ note \in [Gates -> [Candidates -> {"none", "pending", "confirmed", "ambiguous"}]]
      /\ button \in [Gates -> [Candidates -> {"none", "live", "expired", "consumed"}]]
      /\ chat \in [Gates -> [Candidates -> BOOLEAN]]
      /\ tick \in [pc : TickPCs, gate : Gates, c : Candidates, upto : Nat]
  BY DEF Base, Types, ClickTypes, NoteTypes, TickPCs
<1>1. UNCHANGED clickVars
  BY DEF TickStep, TickCrash, TickStart, TickSelect, TickClaim, TickSend, TickSettle,
     TickReview, TickPoll, TickDone
<1>2. ClickMoves
  BY <1>1 DEF ClickMoves, clickVars
<1>3. CASE TickClaim
  <2> DEFINE g == tick.gate
             c == tick.c
  <2>1. note[g][c] = "none"
    BY <1>3 DEF TickClaim, ClickInv
  <2>2. CASE Eligible(c) /\ AtGate(g, c)
    <3>1. /\ note' = [note EXCEPT ![g][c] = "pending"]
          /\ button' = [button EXCEPT ![g][c] = "live"]
          /\ tick' = [tick EXCEPT !.pc = "sending"] /\ UNCHANGED chat
      BY <1>3, <2>2 DEF TickClaim, TickGoto
    <3>2. /\ tick'.pc = "sending" /\ tick'.gate = g /\ tick'.c = c
          /\ note'[g][c] = "pending"
      BY <1>0, <3>1
    <3>3. \A h \in Gates, d \in Candidates :
            \/ h = g /\ d = c
            \/ note'[h][d] = note[h][d] /\ button'[h][d] = button[h][d]
      BY <1>0, <3>1
    <3>4. NoteMoves
      BY <2>1, <2>2, <3>1, <3>2, <3>3 DEF NoteMoves, NoteMove
    <3>5. TickMove
      BY <1>1, <3>2 DEF TickMove, clickVars
    <3> QED
      BY <1>2, <3>4, <3>5 DEF Moves
  <2>3. CASE ~(Eligible(c) /\ AtGate(g, c))
    <3>1. tick' = RestingTick /\ UNCHANGED <<note, button, chat>>
      BY <1>3, <2>3 DEF TickClaim, TickExit
    <3> QED
      BY <1>1, <1>2, <3>1 DEF Moves, NoteMoves, NoteMove, TickMove, RestingTick, clickVars
  <2> QED
    BY <2>2, <2>3
<1>4. CASE TickSend
  <2>1. /\ UNCHANGED <<note, button>> /\ tick'.pc \in {"sent", "unclear"}
        /\ tick'.gate = tick.gate /\ tick'.c = tick.c
        /\ note[tick.gate][tick.c] # "none"
        /\ \A h \in Gates, d \in Candidates :
             chat'[h][d] => chat[h][d] \/ (h = tick.gate /\ d = tick.c)
    BY <1>0, <1>4 DEF TickSend, TickGoto, ClickInv, TickAt
  <2> QED
    BY <1>1, <1>2, <2>1 DEF Moves, NoteMoves, NoteMove, TickMove, clickVars
<1>5. CASE TickSettle
  <2>1. /\ UNCHANGED <<chat, button>> /\ tick'.pc \in {"polling", "reviewing"}
        /\ \A h \in Gates, d \in Candidates :
             \/ note'[h][d] = note[h][d]
             \/ /\ h = tick.gate /\ d = tick.c
                /\ note'[h][d] \in {"confirmed", "ambiguous"}
    BY <1>0, <1>5 DEF TickSettle, TickGoto
  <2>2. note[tick.gate][tick.c] # "none"
    BY <1>5 DEF TickSettle, ClickInv, TickAt
  <2> QED
    BY <1>1, <1>2, <2>1, <2>2 DEF Moves, NoteMoves, NoteMove, TickMove, clickVars
<1>6. CASE TickSelect
  <2>1. UNCHANGED noteVars
    BY <1>6 DEF TickSelect
  <2>2. \/ tick'.pc = "polling"
        \/ /\ tick'.pc = "claiming" /\ note[tick'.gate][tick'.c] = "none"
    <3>1. \/ tick' = [tick EXCEPT !.pc = "polling"]
          \/ /\ note[NextToNotify[1]][NextToNotify[2]] = "none"
             /\ tick' = [tick EXCEPT !.pc = "claiming", !.gate = NextToNotify[1],
                           !.c = NextToNotify[2]]
      BY <1>6 DEF TickSelect, TickGoto
    <3> QED
      BY <1>0, <3>1
  <2> QED
    BY <1>1, <1>2, <2>1, <2>2 DEF Moves, NoteMoves, NoteMove, TickMove, clickVars, noteVars
<1>7. CASE TickStart \/ TickReview \/ TickPoll \/ TickDone \/ TickCrash
  <2>1. UNCHANGED noteVars
    BY <1>7 DEF TickStart, TickReview, TickPoll, TickDone, TickCrash
  <2>2. tick'.pc \in {"selecting", "polling", "handling", "idle"}
    <3>1. \/ tick' = [tick EXCEPT !.pc = "selecting"]
          \/ tick' = [tick EXCEPT !.pc = "polling"]
          \/ tick' = [tick EXCEPT !.pc = "handling", !.upto = Len(presses)]
          \/ tick' = RestingTick
      BY <1>7 DEF TickStart, TickReview, TickPoll, TickDone, TickCrash, TickGoto, TickExit
    <3>2. CASE tick' = RestingTick
      BY <3>2 DEF RestingTick
    <3>3. CASE tick' = [tick EXCEPT !.pc = "handling", !.upto = Len(presses)]
      <4>1. tick'.pc = "handling"
        BY <1>0, <3>3
      <4> QED
        BY <4>1
    <3>4. CASE \/ tick' = [tick EXCEPT !.pc = "selecting"]
               \/ tick' = [tick EXCEPT !.pc = "polling"]
      BY <1>0, <3>4
    <3> QED
      BY <3>1, <3>2, <3>3, <3>4
  <2> QED
    BY <1>1, <1>2, <2>1, <2>2 DEF Moves, NoteMoves, NoteMove, TickMove, clickVars, noteVars
<1> QED
  BY <1>3, <1>4, <1>5, <1>6, <1>7 DEF TickStep

LEMMA AdvanceMoves ==
  ASSUME Base, ClickInv, Step, TickAdvance
  PROVE  Moves
<1>1. /\ UNCHANGED noteVars /\ presses' = presses /\ offset' = offset + 1
      /\ TickAt("advancing") /\ tick'.pc = "handling"
  BY DEF TickAdvance, TickGoto, Base, Types, ClickTypes
<1> QED
  BY <1>1 DEF Moves, NoteMoves, NoteMove, ClickMoves, TickMove, noteVars

LEMMA ClickStepMoves ==
  ASSUME Base, ClickInv, Step, TickClick
  PROVE  Moves
<1>1. PICK g \in Gates, c \in Candidates :
        /\ presses[offset + 1] = <<g, c>> /\ UNCHANGED clickVars
        /\ \/ /\ AtGate(g, c) /\ button[g][c] = "live"
              /\ button' = [button EXCEPT ![g][c] = "consumed"]
              /\ cand'[c] = Approved(g) /\ tick'.pc = "advancing"
           \/ /\ UNCHANGED <<cand, draft, button>>
              /\ tick' = RestingTick
                 \/ (tick'.pc = "advancing"
                      /\ (button[g][c] = "live" => ~AtGate(g, c)))
  BY TickClickMoves DEF Base
<1>2. UNCHANGED <<note, chat>> /\ ClickMoves
  BY <1>1 DEF TickClick, ClickMoves, clickVars
<1>3. \A h \in Gates, d \in Candidates :
        button'[h][d] = button[h][d]
        \/ (h = g /\ d = c /\ button'[h][d] = "consumed" /\ button[h][d] = "live")
  BY <1>1 DEF Base, Types, NoteTypes
<1>4. NoteMoves
  BY <1>2, <1>3 DEF NoteMoves, NoteMove
<1>5. tick'.pc = "advancing" => Spent(g, c)'
  <2>1. CASE button' = [button EXCEPT ![g][c] = "consumed"]
    <3>1. button'[g][c] = "consumed"
      BY <2>1 DEF Base, Types, NoteTypes
    <3> QED
      BY <3>1 DEF Spent
  <2>2. CASE UNCHANGED <<cand, draft, button>>
    BY <1>1, <2>2 DEF Spent, AtGate, RestingTick, Approved, Waiting
  <2> QED
    BY <1>1, <2>1, <2>2
<1>6. g = presses'[offset' + 1][1] /\ c = presses'[offset' + 1][2] /\ offset' = offset
      /\ presses' = presses
  BY <1>1 DEF clickVars
<1>7. tick'.pc \in {"idle", "advancing"}
  BY <1>1 DEF RestingTick
<1>8. TickMove
  BY <1>5, <1>6, <1>7 DEF TickMove, Spent, AtGate
<1> QED
  BY <1>2, <1>4, <1>8 DEF Moves

LEMMA AllMove == Base /\ ClickInv /\ [Next]_vars /\ Step => Moves
<1> SUFFICES ASSUME Base, ClickInv, [Next]_vars, Step PROVE Moves
  OBVIOUS
<1>1. CASE TickStep \/ TickCrash
  BY <1>1, TickMoves, AdvanceMoves, ClickStepMoves
<1>2. CASE \E g \in Gates, c \in Candidates : Press(g, c)
  BY <1>2, PressMoves
<1>3. CASE \E g \in Gates, c \in Candidates : ButtonExpires(g, c)
  <2>1. UNCHANGED <<note, chat, clickVars, tick>>
    BY <1>3 DEF ButtonExpires
  <2> QED
    BY <1>3, <2>1, OthersMove
<1>4. ASSUME UNCHANGED <<noteVars, clickVars, tick>>
      PROVE  Moves
  BY <1>4, OthersMove DEF noteVars
<1>5. CASE WorkerStep \/ WorkerCrash
  <2>1. UNCHANGED <<noteVars, clickVars, tick>>
    BY <1>5 DEF WorkerStep, WorkerCrash, WorkerStart, WorkerPrepare, WorkerBegin,
       WorkerCall, WorkerFail, WorkerCommit
  <2> QED
    BY <1>4, <2>1
<1>6. CASE ServiceStart \/ \E s \in Senders : \/ SenderRuns(s) \/ SenderCrash(s)
                                             \/ \E c \in Candidates : ManualStart(s, c)
  <2>1. ASSUME NEW s \in Senders, SenderRuns(s)
        PROVE  UNCHANGED <<noteVars, clickVars, tick>>
    BY <2>1 DEF SenderRuns, SenderRead, SenderBootstrap, SenderClaimFailure,
       SenderMarkFailure, SenderClaim, SenderPrepare, SenderArm, SenderDispatch,
       SenderAnswer, SenderConfirm, SenderUnclear, SenderExpire, SenderFail,
       SenderRecheck, SenderReview, SenderDeliver, SenderFrame, Calm
  <2>2. ASSUME NEW s \in Senders, SenderCrash(s)
        PROVE  UNCHANGED <<noteVars, clickVars, tick>>
    BY <2>2 DEF SenderCrash
  <2>3. ASSUME NEW s \in Senders, NEW c \in Candidates, ManualStart(s, c)
        PROVE  UNCHANGED <<noteVars, clickVars, tick>>
    BY <2>3 DEF ManualStart, Calm, SenderFrame
  <2>4. ServiceStart => UNCHANGED <<noteVars, clickVars, tick>>
    BY DEF ServiceStart, Calm, SenderFrame
  <2>5. UNCHANGED <<noteVars, clickVars, tick>>
    BY <1>6, <2>1, <2>2, <2>3, <2>4
  <2> QED
    BY <1>4, <2>5
<1>7. CASE \/ \E c \in Candidates : LeaseLapses(c) \/ SheetDecides(c)
           \/ Hold
           \/ \E S \in SUBSET Candidates :
                Release(S) \/ \E another \in BOOLEAN : Converge(S, another)
  <2>1. UNCHANGED <<noteVars, clickVars, tick>>
    BY <1>7 DEF LeaseLapses, SheetDecides, Hold, Release, Converge
  <2> QED
    BY <1>4, <2>1
<1>8. CASE UNCHANGED vars
  BY <1>4, <1>8 DEF vars
<1> QED
  BY <1>1, <1>2, <1>3, <1>5, <1>6, <1>7, <1>8 DEF Next

-----------------------------------------------------------------------------
(* What a person has approved *)

Pressed(g, c) == \E i \in 1..Len(presses) : presses[i] = <<g, c>>

(* Nothing passes a gate whose button nobody pressed, and a draft's button *)
(* does not exist before its candidate has passed.                         *)
ApprovalInv ==
  /\ \A j \in 1..Len(presses), c \in Candidates :
       presses[j] = <<"draft", c>> =>
         \E i \in 1..Len(presses) : i < j /\ presses[i] = <<"candidate", c>>
  /\ \A c \in Candidates :
       /\ draft[c] # "none" \/ cand[c] = "candidate_approved"
            => Pressed("candidate", c)
       /\ draft[c] \in {"draft_approved", "sheet_delivered"} => Pressed("draft", c)
       /\ effect[c].status # "none" => Pressed("draft", c)

(* Clicks are only added. *)
LEMMA ClicksGrow ==
  ASSUME Base, ClickMoves
  PROVE  /\ \A i \in 1..Len(presses) : i \in 1..Len(presses') /\ presses'[i] = presses[i]
         /\ \A g \in Gates, c \in Candidates : Pressed(g, c) => Pressed(g, c)'
<1>1. presses \in Seq(Gates \X Candidates)
  BY DEF Base, Types, ClickTypes
<1>2. \A i \in 1..Len(presses) : i \in 1..Len(presses') /\ presses'[i] = presses[i]
  BY <1>1 DEF ClickMoves
<1> QED
  BY <1>2 DEF Pressed

LEMMA ApprovalStays ==
  ASSUME Base, ClickInv, ApprovalInv, Step, ClickMoves
  PROVE  ApprovalInv'
<1>0. presses \in Seq(Gates \X Candidates) /\ Len(presses) \in Nat
  BY DEF Base, Types, ClickTypes
<1>1. ASSUME NEW j \in 1..Len(presses'), NEW c \in Candidates,
             presses'[j] = <<"draft", c>>
      PROVE  \E i \in 1..Len(presses') : i < j /\ presses'[i] = <<"candidate", c>>
  <2>1. CASE j \in 1..Len(presses)
    <3>1. presses[j] = <<"draft", c>>
      BY <1>1, <2>1, ClicksGrow
    <3>2. PICK i \in 1..Len(presses) : i < j /\ presses[i] = <<"candidate", c>>
      BY <2>1, <3>1 DEF ApprovalInv
    <3> QED
      BY <3>2, ClicksGrow
  <2>2. CASE j \notin 1..Len(presses)
    <3>1. PICK g \in Gates, d \in Candidates :
            chat[g][d] /\ presses' = Append(presses, <<g, d>>)
      BY <1>1, <2>2 DEF ClickMoves
    <3>2. j = Len(presses) + 1 /\ presses'[j] = <<g, d>>
      BY <1>0, <2>2, <3>1
    <3>3. g = "draft" /\ d = c
      BY <1>1, <3>2
    <3>4. draft[c] # "none"
      BY <3>1, <3>3 DEF ClickInv
    <3>5. PICK i \in 1..Len(presses) : presses[i] = <<"candidate", c>>
      BY <3>4 DEF ApprovalInv, Pressed
    <3>6. i < j /\ i \in 1..Len(presses') /\ presses'[i] = presses[i]
      BY <1>0, <3>2, ClicksGrow
    <3> QED
      BY <3>5, <3>6
  <2> QED
    BY <2>1, <2>2
<1>2. ASSUME NEW c \in Candidates
      PROVE  /\ draft'[c] # "none" \/ cand'[c] = "candidate_approved"
                  => Pressed("candidate", c)
             /\ draft'[c] \in {"draft_approved", "sheet_delivered"} => Pressed("draft", c)
             /\ effect'[c].status # "none" => Pressed("draft", c)
  <2>1. Move(c) /\ EffectMove(c)
    BY DEF Step, StoryNote, StoryStep, SheetStep
  <2>2. /\ draft[c] # "none" \/ cand[c] = "candidate_approved" => Pressed("candidate", c)
        /\ draft[c] \in {"draft_approved", "sheet_delivered"} => Pressed("draft", c)
        /\ effect[c].status # "none" => Pressed("draft", c)
    BY DEF ApprovalInv
  <2>3. effect'[c].status # "none" => Pressed("draft", c)
    BY <2>1, <2>2 DEF EffectMove, Claimable
  <2>4. CASE ApproveMove(c)
    <3>1. PICK g \in Gates :
            /\ AtGate(g, c) /\ offset < Len(presses) /\ presses[offset + 1] = <<g, c>>
            /\ cand'[c] = Approved(g)
            /\ draft'[c] = IF draft[c] = "none" THEN "none" ELSE Approved(g)
      BY <2>4 DEF ApproveMove
    <3>2. Pressed(g, c)
      <4>1. offset + 1 \in 1..Len(presses)
        BY <1>0, <3>1 DEF Base, Types, ClickTypes
      <4> QED
        BY <3>1, <4>1 DEF Pressed
    <3>3. CASE g = "candidate"
      <4>1. cand[c] = "pending_candidate" /\ draft[c] \in {"none", cand[c]}
        BY <3>1, <3>3 DEF AtGate, Waiting, Base, StatesAgree
      <4>2. draft'[c] \in {"none", "candidate_approved"}
        BY <3>1, <3>3 DEF Approved
      <4> QED
        BY <2>3, <3>2, <3>3, <4>2
    <3>4. CASE g = "draft"
      <4>1. draft[c] # "none"
        BY <3>1, <3>4 DEF AtGate, Waiting
      <4> QED
        BY <2>2, <2>3, <3>2, <3>4, <4>1
    <3> QED
      BY <3>3, <3>4 DEF Gates
  <2>5. CASE ~ApproveMove(c)
    BY <2>1, <2>2, <2>3, <2>5 DEF Move, ReviewMove, DraftMove, DeliverMove, Deliverable
  <2> QED
    BY <2>4, <2>5
<1>3. ASSUME NEW c \in Candidates
      PROVE  /\ draft'[c] # "none" \/ cand'[c] = "candidate_approved"
                  => Pressed("candidate", c)'
             /\ draft'[c] \in {"draft_approved", "sheet_delivered"} => Pressed("draft", c)'
             /\ effect'[c].status # "none" => Pressed("draft", c)'
  BY <1>2, ClicksGrow DEF Gates
<1> QED
  BY <1>1, <1>3 DEF ApprovalInv

-----------------------------------------------------------------------------
(* What the operator holds *)

(* A held story has no draft: it is held before there is one, and none is  *)
(* written until it is released.                                           *)
HeldInv == \A c \in Candidates : story[c] = "held" => draft[c] = "none"

LEMMA StoryHolds ==
  ASSUME StoryTypes, [Next]_vars, NEW c \in Candidates, story'[c] = "held"
  PROVE  story[c] = "held" \/ (draft[c] = "none" /\ draft'[c] = draft[c])
<1>1. CASE UNCHANGED story
  BY <1>1
<1>2. CASE Hold
  BY <1>2 DEF Hold, Releasable
<1>3. ASSUME NEW S \in SUBSET Candidates, Release(S) PROVE story[c] = "held"
  BY <1>3 DEF Release
<1>4. ASSUME NEW S \in SUBSET Candidates, NEW another \in BOOLEAN, Converge(S, another)
      PROVE  story[c] = "held"
  BY <1>4 DEF Converge
<1>5. \/ UNCHANGED story \/ Hold
      \/ \E S \in SUBSET Candidates : Release(S) \/ \E another \in BOOLEAN : Converge(S, another)
  <2>1. CASE TickStep \/ TickCrash
    BY <2>1 DEF TickStep, TickCrash, TickStart, TickSelect, TickClaim, TickSend, TickSettle,
       TickReview, TickPoll, TickDone, TickClick, TickAdvance, ManualReview, storyVars
  <2>2. CASE WorkerStep \/ WorkerCrash
    BY <2>2 DEF WorkerStep, WorkerCrash, WorkerStart, WorkerPrepare, WorkerBegin,
       WorkerCall, WorkerFail, WorkerCommit, ManualReview, storyVars
  <2>3. CASE ServiceStart \/ \E s \in Senders : \/ SenderCrash(s)
                                                 \/ \E d \in Candidates : ManualStart(s, d)
    BY <2>3 DEF ServiceStart, SenderCrash, ManualStart, Calm, storyVars
  <2>4. ASSUME NEW s \in Senders, SenderRuns(s) PROVE UNCHANGED story
    <3>1. CASE SenderReview(s) \/ SenderDeliver(s) \/ SenderDispatch(s)
      BY <3>1 DEF SenderReview, SenderDeliver, SenderDispatch, ManualReview, storyVars
    <3>2. CASE CalmStep(s)
      BY <3>2 DEF CalmStep, Calm, SenderRead, SenderBootstrap, SenderClaimFailure,
         SenderMarkFailure, SenderClaim, SenderPrepare, SenderArm, SenderAnswer,
         SenderConfirm, SenderUnclear, SenderExpire, SenderFail, SenderRecheck, storyVars
    <3> QED
      BY <2>4, <3>1, <3>2 DEF SenderRuns, CalmStep
  <2>5. CASE \/ \E g \in Gates, d \in Candidates : Press(g, d) \/ ButtonExpires(g, d)
             \/ \E d \in Candidates : LeaseLapses(d) \/ SheetDecides(d)
             \/ UNCHANGED vars
    BY <2>5 DEF Press, ButtonExpires, LeaseLapses, SheetDecides, vars, storyVars
  <2> QED
    BY <2>1, <2>2, <2>3, <2>4, <2>5 DEF Next
<1> QED
  BY <1>1, <1>2, <1>3, <1>4, <1>5

LEMMA HeldStays == Base /\ HeldInv /\ Step /\ [Next]_vars => HeldInv'
<1> SUFFICES ASSUME Base, HeldInv, Step, [Next]_vars,
                    NEW c \in Candidates, story'[c] = "held"
             PROVE  draft'[c] = "none"
  BY DEF HeldInv
<1>1. StoryTypes /\ Move(c)
  BY DEF Base, Types, Step, StoryNote, StoryStep
<1>2. CASE story[c] = "held"
  <2>1. draft[c] = "none"
    BY <1>2 DEF HeldInv
  <2>2. ~DraftMove(c) /\ ~DeliverMove(c)
    BY <1>2 DEF DraftMove, DeliverMove, Deliverable, Eligible, EligibleWithReceipt
  <2> QED
    BY <1>1, <2>1, <2>2 DEF Move, ApproveMove, ReviewMove
<1> QED
  BY <1>1, <1>2, StoryHolds

-----------------------------------------------------------------------------
(* The invariant *)

IInv == Base /\ DeliveryInv /\ ClickInv /\ ApprovalInv /\ HeldInv

LEMMA IInvStarts == Init => IInv
<1> SUFFICES ASSUME Init PROVE IInv
  OBVIOUS
<1>1. Base
  BY BaseStarts
<1>2. DeliveryInv
  BY DEF Init, DeliveryInv, DeliveredIsWhole, ReceiptMeansRow, NoEffect
<1>3. ClickInv
  BY DEF Init, ClickInv, TickAt, RestingTick, Gates
<1>4. ApprovalInv
  BY DEF Init, ApprovalInv, NoEffect
<1>5. HeldInv
  BY DEF Init, HeldInv
<1> QED
  BY <1>1, <1>2, <1>3, <1>4, <1>5 DEF IInv

LEMMA IInvStays == IInv /\ [Next]_vars => IInv' /\ Step
<1> SUFFICES ASSUME IInv, [Next]_vars PROVE IInv' /\ Step
  OBVIOUS
<1>1. Base' /\ Step
  BY BaseStays DEF IInv
<1>2. Moves
  BY <1>1, AllMove DEF IInv
<1>3. DeliveryInv'
  BY <1>1, DeliveryStays DEF IInv
<1>4. ClickInv' /\ ApprovalInv'
  BY <1>1, <1>2, ClicksStay, ApprovalStays DEF IInv, Moves
<1>5. HeldInv'
  BY <1>1, HeldStays DEF IInv
<1> QED
  BY <1>1, <1>3, <1>4, <1>5 DEF IInv

LEMMA Invariance == Spec => []IInv
  BY IInvStarts, IInvStays, PTL DEF Spec

-----------------------------------------------------------------------------
(* The results *)

(* Every table, every process and the sheet hold what they are meant to.   *)
THEOREM TypeCorrect == Spec => []TypeOK
<1>1. IInv => TypeOK
  BY DEF IInv, Base, Types, StoryTypes, NoteTypes, CodexTypes, SheetTypes, ClickTypes,
     DraftStates, TypeOK
<1> QED
  BY <1>1, Invariance, PTL

(* However many senders, crashes, lapsed leases and retries there are, a   *)
(* draft is requested once and has at most one row.                        *)
THEOREM SendersAppendOnce == Spec => []OneRequestPerDraft
<1>1. IInv => OneRequestPerDraft
  <2> SUFFICES ASSUME IInv, NEW c \in Candidates PROVE sent[c] <= 1 /\ rows[c] <= 1
    BY DEF OneRequestPerDraft
  <2>1. /\ sent[c] <= 1 /\ rows[c] + inflight[c] <= sent[c]
        /\ sent[c] \in Nat /\ rows[c] \in Nat /\ inflight[c] \in Nat
    BY DEF IInv, Base, SheetInv, RowInv, Types, SheetTypes
  <2> QED
    BY <2>1
<1> QED
  BY <1>1, Invariance, PTL

(* The provider is reached once for a candidate at the most, whatever      *)
(* interrupts the worker.                                                  *)
THEOREM WorkerGeneratesOnce == Spec => []OneGeneration
<1>1. IInv => OneGeneration
  BY DEF IInv, Base, CodexInv, OneGeneration
<1> QED
  BY <1>1, Invariance, PTL

(* Nothing is sent to the sheet before a person pressed both buttons in    *)
(* their order.                                                            *)
THEOREM PeopleApproveTwice == Spec => []TwoApprovals
<1>1. IInv => TwoApprovals
  <2> SUFFICES ASSUME IInv, NEW c \in Candidates, sent[c] > 0
               PROVE  \E i, j \in DOMAIN presses :
                        /\ i < j /\ presses[i] = <<"candidate", c>>
                        /\ presses[j] = <<"draft", c>>
    BY DEF TwoApprovals
  <2>1. effect[c].status # "none"
    BY DEF IInv, Base, SheetInv, RowInv, Committed
  <2>2. PICK j \in 1..Len(presses) : presses[j] = <<"draft", c>>
    BY <2>1 DEF IInv, ApprovalInv, Pressed
  <2>3. PICK i \in 1..Len(presses) : i < j /\ presses[i] = <<"candidate", c>>
    BY <2>2 DEF IInv, ApprovalInv
  <2>4. DOMAIN presses = 1..Len(presses)
    BY DEF IInv, Base, Types, ClickTypes
  <2> QED
    BY <2>2, <2>3, <2>4
<1> QED
  BY <1>1, Invariance, PTL

(* Every transaction that moves a candidate moves its draft.               *)
THEOREM DraftFollowsCandidate == Spec => []StatesAgree
<1>1. IInv => StatesAgree
  BY DEF IInv, Base
<1> QED
  BY <1>1, Invariance, PTL

(* What is delivered is delivered in every table, with its row.            *)
THEOREM DeliveryIsWhole == Spec => []DeliveredIsWhole
<1>1. IInv => DeliveredIsWhole
  BY DEF IInv, DeliveryInv
<1> QED
  BY <1>1, Invariance, PTL

(* A confirmed receipt and a delivered story both prove the row.           *)
THEOREM ReceiptProvesRow == Spec => []ReceiptMeansRow
<1>1. IInv => ReceiptMeansRow
  BY DEF IInv, DeliveryInv
<1> QED
  BY <1>1, Invariance, PTL

(* The cursor passes no click whose button could still be used.            *)
THEOREM ClicksAreKept == Spec => []NoClickIsLost
<1>1. IInv => NoClickIsLost
  BY DEF IInv, ClickInv, Spent, NoClickIsLost
<1> QED
  BY <1>1, Invariance, PTL

(* Only convergence can keep a confirmed receipt from being finished.      *)
THEOREM ReceiptsCanFinish == Spec => []OnlyConvergenceStrands
<1>1. IInv => OnlyConvergenceStrands
  <2> SUFFICES ASSUME IInv, NEW c \in Candidates, effect[c].status = "confirmed",
                      draft[c] = "draft_approved", story[c] # "quarantined", ~storyDone[c]
               PROVE  Deliverable(c)
    BY DEF OnlyConvergenceStrands
  <2>1. story[c] = "open"
    BY DEF IInv, HeldInv, Base, Types, StoryTypes
  <2>2. cand[c] = "draft_approved"
    BY DEF IInv, Base, StatesAgree
  <2> QED
    BY <2>1, <2>2 DEF Deliverable, EligibleWithReceipt
<1> QED
  BY <1>1, Invariance, PTL

(* No process takes a candidate out of manual review, not even one that    *)
(* was under way when it was put there.                                    *)
THEOREM ReviewEndsAutomation == Spec => ReviewIsFinal
<1>1. ASSUME IInv, [Next]_vars
      PROVE  \A c \in Candidates : cand[c] = "manual_review" =>
               cand'[c] = "manual_review"
  <2> SUFFICES ASSUME NEW c \in Candidates, cand[c] = "manual_review"
               PROVE  cand'[c] = "manual_review"
    OBVIOUS
  <2>1. Move(c)
    BY <1>1, IInvStays DEF Step, StoryNote, StoryStep
  <2> QED
    BY <2>1 DEF Move, ApproveMove, ReviewMove, DraftMove, DeliverMove, Deliverable,
       AtGate, Waiting
<1> QED
  BY <1>1, Invariance, PTL DEF Spec, ReviewIsFinal
-----------------------------------------------------------------------------
(* The delivery implements AppendOnce *)

Verdict(c) == CASE effect[c].status = "confirmed" -> "delivered"
                [] effect[c].status = "ambiguous" -> "blocked"
                [] OTHER -> "open"
Verdicts    == [c \in Candidates |-> Verdict(c)]
Outstanding == [c \in Candidates |-> 1..inflight[c]]

LEMMA AbstractRests ==
  ASSUME Verdicts' = Verdicts, UNCHANGED <<inflight, rows>>
  PROVE  UNCHANGED Abstract!vars
BY DEF Abstract!vars, Verdicts, Verdict

LEMMA SheetUnchanged ==
  ASSUME UNCHANGED <<effect, inflight, rows>> PROVE UNCHANGED Abstract!vars
BY DEF Abstract!vars

(* The three verdicts of a receipt. *)
LEMMA VerdictIs ==
  ASSUME NEW c
  PROVE  /\ effect[c].status = "confirmed" => Verdict(c) = "delivered"
         /\ effect[c].status = "ambiguous" => Verdict(c) = "blocked"
         /\ effect[c].status \notin {"confirmed", "ambiguous"} => Verdict(c) = "open"
BY DEF Verdict

LEMMA VerdictBecomes ==
  ASSUME NEW c
  PROVE  /\ effect'[c].status = "confirmed" => Verdict(c)' = "delivered"
         /\ effect'[c].status = "ambiguous" => Verdict(c)' = "blocked"
         /\ effect'[c].status \notin {"confirmed", "ambiguous"} => Verdict(c)' = "open"
BY DEF Verdict

(* Writing one receipt delivers or blocks its draft, or decides nothing. *)
LEMMA WriteRefines ==
  ASSUME SheetTypes, SheetInv, SheetStep, NEW c \in Candidates,
         \A d \in Candidates \ {c} : effect'[d] = effect[d],
         UNCHANGED <<inflight, rows>>
  PROVE  [Abstract!Next]_(Abstract!vars)
<1>1. \A d \in Candidates \ {c} : Verdict(d)' = Verdict(d)
  BY DEF Verdict
<1>2. EffectMove(c) /\ (effect'[c].status = "confirmed" => rows[c] = 1)
  BY DEF SheetStep, SheetInv, RowInv
<1>3. ASSUME NEW v, Verdict(c)' = v
      PROVE  Verdicts' = [Verdicts EXCEPT ![c] = v]
  BY <1>1, <1>3 DEF Verdicts
<1>4. CASE Verdict(c)' = Verdict(c)
  <2>1. \A d \in Candidates : Verdict(d)' = Verdict(d)
    BY <1>1, <1>4
  <2>2. Verdicts' = Verdicts
    BY <2>1 DEF Verdicts
  <2> QED
    BY <2>2, AbstractRests
<1>5. CASE Verdict(c)' # Verdict(c)
  <2>1. /\ effect[c].status = "pending" /\ Verdict(c) = "open"
        /\ effect'[c].status \in {"confirmed", "ambiguous"}
    <3>1. effect[c].status # effect'[c].status
      BY <1>5 DEF Verdict
    <3>2. CASE Vacant(effect[c]) /\ effect'[c].status = "pending"
      <4>1. effect[c].status \in {"none", "failed"}
        BY <3>2 DEF Vacant, Retryable
      <4> QED
        BY <1>5, <3>2, <4>1, VerdictIs, VerdictBecomes
    <3>3. CASE /\ effect[c].status = "pending"
               /\ effect'[c].status \in {"confirmed", "ambiguous", "failed"}
      <4>1. Verdict(c) = "open"
        BY <3>3, VerdictIs
      <4>2. effect'[c].status # "failed"
        BY <1>5, <4>1, VerdictBecomes
      <4> QED
        BY <3>3, <4>1, <4>2
    <3> QED
      BY <1>2, <3>1, <3>2, <3>3 DEF EffectMove
  <2>2. Verdicts[c] = "open"
    BY <2>1 DEF Verdicts
  <2>3. CASE effect'[c].status = "confirmed"
    <3>1. Verdicts' = [Verdicts EXCEPT ![c] = "delivered"]
      BY <1>3, <2>3, VerdictBecomes
    <3>2. rows[c] > 0
      BY <1>2, <2>3
    <3>3. Abstract!Deliver(c)
      BY <2>2, <3>1, <3>2 DEF Abstract!Deliver, Verdicts, Verdict
    <3> QED
      BY <3>3 DEF Abstract!Next
  <2>4. CASE effect'[c].status = "ambiguous"
    <3>1. Verdicts' = [Verdicts EXCEPT ![c] = "blocked"]
      BY <1>3, <2>4, VerdictBecomes
    <3>2. Abstract!Block(c)
      BY <2>2, <3>1 DEF Abstract!Block, Verdicts, Verdict
    <3> QED
      BY <3>2 DEF Abstract!Next
  <2> QED
    BY <2>1, <2>3, <2>4
<1> QED
  BY <1>4, <1>5

(* A step that only changes receipts changes the one of its sender. *)
LEMMA CalmWrites ==
  ASSUME SheetTypes, NEW s \in Senders, CalmStep(s)
  PROVE  /\ \A d \in Candidates \ {sender[s].c} : effect'[d] = effect[d]
         /\ UNCHANGED <<inflight, rows>>
<1> DEFINE Mine == \A d \in Candidates \ {sender[s].c} : effect'[d] = effect[d]
<1>1. UNCHANGED effect => Mine
  OBVIOUS
<1>2. ASSUME NEW e, effect' = [effect EXCEPT ![sender[s].c] = e] PROVE Mine
  BY <1>2 DEF SheetTypes
<1>3. ASSUME NEW phase, NEW pc, Claim(s, phase, pc) PROVE Mine
  BY <1>3, <1>2 DEF Claim
<1>4. ASSUME NEW phase, NEW pc, Forward(s, phase, pc) PROVE Mine
  BY <1>4, <1>1, <1>2 DEF Forward, Advance, SheetTypes
<1>5. ASSUME NEW status, NEW clear, Settle(s, status, clear) PROVE Mine
  BY <1>5, <1>2 DEF Settle
<1> HIDE DEF Mine
<1>6. Mine
  <2>1. CASE SenderRead(s) \/ SenderBootstrap(s) \/ SenderAnswer(s) \/ SenderRecheck(s)
    BY <2>1, <1>1 DEF SenderRead, SenderBootstrap, SenderAnswer, SenderRecheck
  <2>2. CASE SenderClaimFailure(s) \/ SenderClaim(s)
    BY <2>2, <1>1, <1>3 DEF SenderClaimFailure, SenderClaim
  <2>3. CASE SenderPrepare(s) \/ SenderArm(s)
    BY <2>3, <1>1, <1>4 DEF SenderPrepare, SenderArm, FailsClearlyOrNot
  <2>4. CASE SenderMarkFailure(s) \/ SenderFail(s)
    BY <2>4, <1>1, <1>5 DEF SenderMarkFailure, SenderFail
  <2>5. CASE SenderConfirm(s) \/ SenderUnclear(s) \/ SenderExpire(s)
    BY <2>5, <1>1, <1>5 DEF SenderConfirm, SenderUnclear, SenderExpire
  <2> QED
    BY <2>1, <2>2, <2>3, <2>4, <2>5 DEF CalmStep
<1>7. UNCHANGED <<inflight, rows>>
  BY DEF CalmStep, Calm, SenderRead, SenderBootstrap, SenderClaimFailure,
     SenderMarkFailure, SenderClaim, SenderPrepare, SenderArm, SenderAnswer,
     SenderConfirm, SenderUnclear, SenderExpire, SenderFail, SenderRecheck
<1> QED
  BY <1>6, <1>7 DEF Mine

(* The one request of a draft leaves. *)
LEMMA DispatchRefines ==
  ASSUME SheetTypes, SheetInv, NEW s \in Senders, SenderDispatch(s)
  PROVE  [Abstract!Next]_(Abstract!vars)
<1> DEFINE c == sender[s].c
<1>1. /\ inflight' = [inflight EXCEPT ![c] = @ + 1] /\ UNCHANGED <<effect, rows>>
      /\ sender[s].pc = "dispatching" /\ c \in Candidates
  BY SenderTypes DEF SenderDispatch, SenderAt
<1>2. rows[c] = 0 /\ inflight[c] = 0
  <2>1. /\ sent[c] = 0 /\ rows[c] + inflight[c] <= sent[c]
        /\ rows[c] \in Nat /\ inflight[c] \in Nat
    BY <1>1 DEF SheetInv, SenderInv, RowInv, SheetTypes
  <2> QED
    BY <2>1
<1> HIDE DEF c
<1>3. /\ inflight'[c] = 1
      /\ \A d \in Candidates \ {c} : inflight'[d] = inflight[d]
  BY <1>1, <1>2 DEF SheetTypes
<1>4. Outstanding[c] = {} /\ Outstanding' = [Outstanding EXCEPT ![c] = {1}]
  <2>1. 1..inflight[c] = {} /\ 1..inflight'[c] = {1}
    BY <1>2, <1>3
  <2> QED
    BY <1>1, <1>3, <2>1 DEF Outstanding
<1>5. Abstract!Request(c, 1)
  BY <1>1, <1>2, <1>4 DEF Abstract!Request, Outstanding
<1> QED
  BY <1>1, <1>5 DEF Abstract!Next

(* The sheet applies it or refuses it. *)
LEMMA DecisionRefines ==
  ASSUME SheetTypes, SheetInv, NEW c \in Candidates, SheetDecides(c)
  PROVE  [Abstract!Next]_(Abstract!vars)
<1>1. /\ inflight' = [inflight EXCEPT ![c] = @ - 1] /\ inflight[c] > 0
      /\ rows' = [rows EXCEPT ![c] = @ + 1] \/ UNCHANGED rows
      /\ UNCHANGED effect
  BY DEF SheetDecides
<1>2. inflight[c] = 1
  <2>1. /\ rows[c] + inflight[c] <= sent[c] /\ sent[c] <= 1
        /\ rows[c] \in Nat /\ inflight[c] \in Nat /\ sent[c] \in Nat
    BY DEF SheetInv, RowInv, SheetTypes
  <2> QED
    BY <1>1, <2>1
<1>3. /\ inflight'[c] = 0
      /\ \A d \in Candidates \ {c} : inflight'[d] = inflight[d]
  BY <1>1, <1>2 DEF SheetTypes
<1>4. 1 \in Outstanding[c] /\ Outstanding' = [Outstanding EXCEPT ![c] = @ \ {1}]
  <2>1. 1..inflight[c] = {1} /\ 1..inflight'[c] = {}
    BY <1>2, <1>3
  <2>2. {1} \ {1} = {}
    OBVIOUS
  <2> QED
    BY <1>3, <2>1, <2>2 DEF Outstanding
<1>5. Abstract!Land(c, 1) \/ Abstract!Refuse(c, 1)
  BY <1>1, <1>4 DEF Abstract!Land, Abstract!Refuse, Outstanding
<1> QED
  BY <1>5 DEF Abstract!Next

(* Every step of the delivery is a step of AppendOnce, draft by draft, or  *)
(* changes nothing of it: a request leaves only when nothing landed and    *)
(* nothing is undecided, and only what has its row is called delivered.    *)
THEOREM Refinement == Spec => ImplementsAppendOnce
<1>1. Init => Abstract!Init
  <2> SUFFICES ASSUME Init PROVE Abstract!Init
    OBVIOUS
  <2>1. \A c \in Candidates : /\ effect[c].status = "none" /\ inflight[c] = 0
                              /\ rows = [d \in Candidates |-> 0]
    BY DEF Init, NoEffect
  <2>2. Verdicts = [c \in Candidates |-> "open"]
    BY <2>1, VerdictIs DEF Verdicts
  <2>3. Outstanding = [c \in Candidates |-> {}]
    BY <2>1 DEF Outstanding
  <2>4. rows = [c \in Candidates |-> 0]
    BY DEF Init
  <2> QED
    BY <2>2, <2>3, <2>4 DEF Abstract!Init, Verdicts, Verdict, Outstanding
<1>2. IInv /\ [Next]_vars => [Abstract!Next]_(Abstract!vars)
  <2> SUFFICES ASSUME IInv, [Next]_vars PROVE [Abstract!Next]_(Abstract!vars)
    OBVIOUS
  <2>1. SheetTypes /\ SheetInv /\ SheetStep
    BY IInvStays DEF IInv, Base, Types, Step
  <2>2. CASE UNCHANGED <<effect, inflight, rows>>
    BY <2>2, SheetUnchanged
  <2>3. ASSUME NEW s \in Senders, SenderRuns(s) PROVE [Abstract!Next]_(Abstract!vars)
    <3>1. CASE CalmStep(s)
      BY <2>1, <3>1, CalmWrites, WriteRefines, SenderTypes
    <3>2. CASE SenderDispatch(s)
      BY <2>1, <3>2, DispatchRefines
    <3>3. CASE SenderReview(s) \/ SenderDeliver(s)
      BY <2>2, <3>3 DEF SenderReview, SenderDeliver
    <3> QED
      BY <2>3, <3>1, <3>2, <3>3 DEF SenderRuns, CalmStep
  <2>4. ASSUME NEW c \in Candidates, LeaseLapses(c) PROVE [Abstract!Next]_(Abstract!vars)
    <3>1. /\ \A d \in Candidates \ {c} : effect'[d] = effect[d]
          /\ UNCHANGED <<inflight, rows>>
      BY <2>4 DEF LeaseLapses, SheetTypes
    <3> QED
      BY <2>1, <3>1, WriteRefines
  <2>5. ASSUME NEW c \in Candidates, SheetDecides(c) PROVE [Abstract!Next]_(Abstract!vars)
    BY <2>1, <2>5, DecisionRefines
  <2>6. CASE TickStep \/ TickCrash
    <3>1. UNCHANGED sheetVars
      BY <2>6 DEF TickStep, TickCrash, TickStart, TickSelect, TickClaim, TickSend,
         TickSettle, TickReview, TickPoll, TickDone, TickClick, TickAdvance
    <3> QED
      BY <2>2, <3>1 DEF sheetVars
  <2>7. CASE WorkerStep \/ WorkerCrash
    <3>1. UNCHANGED sheetVars
      BY <2>7 DEF WorkerStep, WorkerCrash, WorkerStart, WorkerPrepare, WorkerBegin,
         WorkerCall, WorkerFail, WorkerCommit
    <3> QED
      BY <2>2, <3>1 DEF sheetVars
  <2>8. CASE \/ ServiceStart
             \/ \E s \in Senders : SenderCrash(s) \/ \E c \in Candidates : ManualStart(s, c)
    BY <2>2, <2>8 DEF ServiceStart, SenderCrash, ManualStart, Calm
  <2>9. CASE \/ \E g \in Gates, c \in Candidates : Press(g, c) \/ ButtonExpires(g, c)
             \/ Hold
             \/ \E S \in SUBSET Candidates :
                  Release(S) \/ \E another \in BOOLEAN : Converge(S, another)
             \/ UNCHANGED vars
    <3>1. UNCHANGED sheetVars
      BY <2>9 DEF Press, ButtonExpires, Hold, Release, Converge, vars
    <3> QED
      BY <2>2, <3>1 DEF sheetVars
  <2> QED
    BY <2>3, <2>4, <2>5, <2>6, <2>7, <2>8, <2>9 DEF Next
<1> QED
  BY <1>1, <1>2, Invariance, PTL DEF Spec, ImplementsAppendOnce, Abstract!Spec
=============================================================================
