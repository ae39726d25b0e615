----------------------------- MODULE V2Delivery -----------------------------
(***************************************************************************)
(* The V2 workflow (src/newsbot/v2_workflow.py) from a candidate to its    *)
(* row in the sheet, as the installed units drive it: the Telegram tick    *)
(* and the senders (v2_cli.py, v2_live.py), the Codex worker (v2_codex.py) *)
(* and what collection and an operator do to a story meanwhile.            *)
(*                                                                         *)
(* Nothing but SQLite transactions keeps the processes apart: there is one *)
(* tick at a time and one Codex worker, each started by its unit's timer,  *)
(* and a draft may be sent by the sheets service and by a person who runs  *)
(* v2-deliver-google-sheets at the same time.  Each may die anywhere.      *)
(***************************************************************************)
EXTENDS Naturals, Sequences, FiniteSets

CONSTANTS
  N,           \* candidates are 1..N in the order of created_at, each with
               \* the story it has claimed
  Senders,     \* processes that deliver drafts to the sheet
  Service,     \* the one of them that newsbot-sheets.timer starts
  MaxPresses,  \* a bound on the clicks
  MaxFaults    \* a bound on crashes, failed polls and operator holds

ASSUME CandidatesExist == N \in Nat \ {0}
ASSUME ServiceIsASender == Service \in Senders
ASSUME BoundsAreNat == MaxPresses \in Nat /\ MaxFaults \in Nat

Candidates == 1..N
Gates      == {"candidate", "draft"}

VARIABLES
  \* v2_candidates, v2_drafts, v2_stories, v2_candidate_bindings
  cand,       \* the candidate's state
  draft,      \* the state of its draft, "none" before the row exists
  born,       \* the rank of the draft by created_at, 0 before
  story,      \* "open", "held" (the binding's flag) or "quarantined" (and held)
  storyDone,  \* the story's delivered_at is set
  reviewed,   \* v2_manual_reviews has a row of the candidate or its draft
  \* v2_remote_effects and v2_callbacks
  note,       \* per gate: the status of the notification, "none" without row
  button,     \* per gate: the callback capability
  effect,     \* the sheets_delivery receipt
  \* v2_codex_requests and v2_codex_attempts
  request,    \* the status of the request
  attempts,   \* how many attempts were recorded
  \* the processes' memory
  tick, worker, sender,
  \* the world
  chat,       \* per gate: the message with the button has been delivered
  presses,    \* the clicks, in the order Telegram hands them out
  offset,     \* clicks the cursor has passed
  ran,        \* provider calls that reached the provider
  sent,       \* append requests sent to the sheet
  inflight,   \* those whose effect is still undecided
  rows,       \* rows of the draft in the sheet
  faults

storyVars  == <<cand, draft, born, story, storyDone, reviewed>>
noteVars   == <<note, button, chat>>
codexVars  == <<request, attempts, ran, worker>>
sheetVars  == <<effect, sent, inflight, rows, sender>>
clickVars  == <<presses, offset>>
vars == <<storyVars, noteVars, codexVars, sheetVars, clickVars, tick, faults>>

-----------------------------------------------------------------------------

States == {"pending_candidate", "candidate_approved",
           "draft_pending_approval", "draft_approved", "sheet_delivered",
           "manual_review"}
Phases == {"none", "bootstrap", "preparing", "claimed", "possibly_sent"}
Effects == [status : {"none", "pending", "confirmed", "ambiguous", "failed"},
            phase : Phases, attempts : Nat, clear : BOOLEAN, lapsed : BOOLEAN]
NoEffect == [status |-> "none", phase |-> "none", attempts |-> 0,
             clear |-> FALSE, lapsed |-> FALSE]
SenderPCs == {"idle", "reading", "bootstrapping", "claiming", "marking",
              "marked", "preparing", "arming", "dispatching", "awaiting",
              "confirming", "unclear", "failing", "rechecking", "expiring",
              "reviewing", "delivering"}

TypeOK ==
  /\ cand \in [Candidates -> States]
  /\ draft \in [Candidates -> (States \ {"pending_candidate",
                                         "candidate_approved"}) \cup {"none"}]
  /\ born \in [Candidates -> Nat]
  /\ story \in [Candidates -> {"open", "held", "quarantined"}]
  /\ storyDone \in [Candidates -> BOOLEAN]
  /\ reviewed \in [Candidates -> BOOLEAN]
  /\ note \in [Gates -> [Candidates ->
                           {"none", "pending", "confirmed", "ambiguous"}]]
  /\ button \in [Gates -> [Candidates ->
                             {"none", "live", "expired", "consumed"}]]
  /\ effect \in [Candidates -> Effects]
  /\ request \in [Candidates -> {"none", "prepared", "pending", "succeeded",
                                 "retryable_failed", "terminal_failed"}]
  /\ attempts \in [Candidates -> Nat]
  /\ tick \in [pc : {"idle", "selecting", "claiming", "sending", "sent",
                     "unclear", "reviewing", "polling", "handling",
                     "advancing"},
               gate : Gates, c : Candidates, upto : Nat]
  /\ worker \in [pc : {"idle", "preparing", "beginning", "calling",
                       "committing", "failing"},
                 c : Candidates, clear : BOOLEAN]
  /\ sender \in [Senders -> [pc : SenderPCs, c : Candidates, attempt : Nat,
                             phase : Phases, clear : BOOLEAN]]
  /\ chat \in [Gates -> [Candidates -> BOOLEAN]]
  /\ presses \in Seq(Gates \X Candidates)
  /\ offset \in Nat
  /\ ran \in [Candidates -> Nat]
  /\ sent \in [Candidates -> Nat]
  /\ inflight \in [Candidates -> Nat]
  /\ rows \in [Candidates -> Nat]
  /\ faults \in Nat

RestingTick   == [pc |-> "idle", gate |-> "candidate", c |-> 1, upto |-> 0]
RestingWorker == [pc |-> "idle", c |-> 1, clear |-> FALSE]
RestingSender == [pc |-> "idle", c |-> 1, attempt |-> 0, phase |-> "none",
                  clear |-> FALSE]

Init ==
  /\ cand = [c \in Candidates |-> "pending_candidate"]
  /\ draft = [c \in Candidates |-> "none"]
  /\ born = [c \in Candidates |-> 0]
  /\ story = [c \in Candidates |-> "open"]
  /\ storyDone = [c \in Candidates |-> FALSE]
  /\ reviewed = [c \in Candidates |-> FALSE]
  /\ note = [g \in Gates |-> [c \in Candidates |-> "none"]]
  /\ button = [g \in Gates |-> [c \in Candidates |-> "none"]]
  /\ effect = [c \in Candidates |-> NoEffect]
  /\ request = [c \in Candidates |-> "none"]
  /\ attempts = [c \in Candidates |-> 0]
  /\ tick = RestingTick /\ worker = RestingWorker
  /\ sender = [s \in Senders |-> RestingSender]
  /\ chat = [g \in Gates |-> [c \in Candidates |-> FALSE]]
  /\ presses = << >> /\ offset = 0
  /\ ran = [c \in Candidates |-> 0]
  /\ sent = [c \in Candidates |-> 0]
  /\ inflight = [c \in Candidates |-> 0]
  /\ rows = [c \in Candidates |-> 0]
  /\ faults = 0

-----------------------------------------------------------------------------
(* Shared conditions and effects *)

Fault == faults < MaxFaults /\ faults' = faults + 1

(* The candidate may still go on: its story is neither delivered,          *)
(* quarantined nor held.  The claim's delivered_at is written with the     *)
(* candidate's last state and needs no variable of its own.                *)
EligibleWithReceipt(c) ==
  /\ story[c] = "open" /\ ~storyDone[c]
  /\ cand[c] # "sheet_delivered" /\ draft[c] # "sheet_delivered"
Eligible(c) == EligibleWithReceipt(c) /\ effect[c].status # "confirmed"

(* The state in which a gate waits for its click, and the one after it.    *)
Waiting(g)  == IF g = "candidate" THEN "pending_candidate"
                                  ELSE "draft_pending_approval"
Approved(g) == IF g = "candidate" THEN "candidate_approved"
                                  ELSE "draft_approved"
AtGate(g, c) == /\ cand[c] = Waiting(g)
                /\ g = "draft" => draft[c] = Waiting(g)

Oldest(S)      == CHOOSE c \in S : \A d \in S : c <= d
OldestDraft(S) == CHOOSE c \in S : \A d \in S : born[c] <= born[d]

MoveTo(state, S) ==
  /\ cand' = [c \in Candidates |-> IF c \in S THEN state ELSE cand[c]]
  /\ draft' = [c \in Candidates |->
                 IF c \in S /\ draft[c] # "none" THEN state ELSE draft[c]]

(* Manual review takes the candidate and its draft from any state but      *)
(* sheet_delivered; the note of it is kept in any case.                    *)
ManualReview(S) ==
  /\ MoveTo("manual_review", {c \in S : cand[c] # "sheet_delivered"})
  /\ reviewed' = [c \in Candidates |-> reviewed[c] \/ c \in S]
  /\ UNCHANGED <<born, story, storyDone>>

-----------------------------------------------------------------------------
(* The Telegram tick *)

TickAt(pc) == tick.pc = pc
TickGoto(pc) == tick' = [tick EXCEPT !.pc = pc]
TickExit == tick' = RestingTick

(* A tick first gives up the gates whose capability expired.               *)
TickStart ==
  LET expired == {c \in Candidates :
        \E g \in Gates : button[g][c] = "expired" /\ AtGate(g, c)}
  IN  /\ TickAt("idle") /\ TickGoto("selecting")
      /\ ManualReview(expired)
      /\ UNCHANGED <<noteVars, codexVars, sheetVars, clickVars, faults>>

\* Mutant: an entity whose story left is still chosen.
ToNotifyAnyStory(g) == {c \in Candidates :
                          AtGate(g, c) /\ note[g][c] # "confirmed"}
ToNotify(g) == {c \in Candidates : /\ AtGate(g, c) /\ Eligible(c)
                                   /\ note[g][c] # "confirmed"}
NextToNotify == IF ToNotify("draft") # {}
                THEN <<"draft", OldestDraft(ToNotify("draft"))>>
                ELSE <<"candidate", Oldest(ToNotify("candidate"))>>

(* The tick takes one entity, the oldest draft before any candidate.  If   *)
(* an earlier tick left its notification behind, it is reviewed instead.   *)
TickSelect ==
  /\ TickAt("selecting")
  /\ IF \A g \in Gates : ToNotify(g) = {}
     THEN TickGoto("polling") /\ UNCHANGED storyVars
     ELSE LET g == NextToNotify[1]  c == NextToNotify[2]
          IN  IF note[g][c] = "none"
              THEN /\ tick' = [tick EXCEPT !.pc = "claiming", !.gate = g, !.c = c]
                   /\ UNCHANGED storyVars
              ELSE TickGoto("polling") /\ ManualReview({c})
  /\ UNCHANGED <<noteVars, codexVars, sheetVars, clickVars, faults>>

(* One transaction binds the notification to its button.  A story that     *)
(* left meanwhile raises, and the tick dies before it polls.               *)
TickClaim ==
  LET g == tick.gate  c == tick.c
  IN  /\ TickAt("claiming")
      /\ IF Eligible(c) /\ AtGate(g, c)
         THEN /\ note' = [note EXCEPT ![g][c] = "pending"]
              /\ button' = [button EXCEPT ![g][c] = "live"]
              /\ TickGoto("sending")
         ELSE TickExit /\ UNCHANGED <<note, button>>
      /\ UNCHANGED <<storyVars, chat, codexVars, sheetVars, clickVars, faults>>

(* The message is sent once; without an acknowledgement it may or may not  *)
(* have arrived.                                                           *)
TickSend ==
  /\ TickAt("sending")
  /\ \E arrives, answered \in BOOLEAN :
       /\ answered => arrives
       /\ chat' = [chat EXCEPT ![tick.gate][tick.c] = arrives]
       /\ TickGoto(IF answered THEN "sent" ELSE "unclear")
  /\ UNCHANGED <<storyVars, note, button, codexVars, sheetVars, clickVars,
                 faults>>

TickSettle ==
  /\ tick.pc \in {"sent", "unclear"}
  /\ note' = [note EXCEPT ![tick.gate][tick.c] =
                IF TickAt("sent") THEN "confirmed" ELSE "ambiguous"]
  /\ TickGoto(IF TickAt("sent") THEN "polling" ELSE "reviewing")
  /\ UNCHANGED <<storyVars, button, chat, codexVars, sheetVars, clickVars,
                 faults>>

TickReview ==
  /\ TickAt("reviewing") /\ TickGoto("polling")
  /\ ManualReview({tick.c})
  /\ UNCHANGED <<noteVars, codexVars, sheetVars, clickVars, faults>>

TickPoll ==
  /\ TickAt("polling")
  /\ tick' = [tick EXCEPT !.pc = "handling", !.upto = Len(presses)]
  /\ UNCHANGED <<storyVars, noteVars, codexVars, sheetVars, clickVars, faults>>

TickDone ==
  /\ TickAt("handling") /\ offset = tick.upto /\ TickExit
  /\ UNCHANGED <<storyVars, noteVars, codexVars, sheetVars, clickVars, faults>>

\* Mutant: a click on a story that left is passed over.
RaiseQuietly == TickGoto("advancing")
Raise == TickExit

(* A click settles when its capability is live and the entity still waits  *)
(* at the gate.  A story that is not eligible raises: the tick dies and    *)
(* the update comes back with the next poll.                               *)
TickClick ==
  /\ TickAt("handling") /\ offset < tick.upto
  /\ LET g == presses[offset + 1][1]  c == presses[offset + 1][2]
         live == /\ button[g][c] = "live"
                 /\ g = "draft" => draft[c] = Waiting(g)
     IN  \/ /\ live /\ Eligible(c) /\ AtGate(g, c)
            /\ MoveTo(Approved(g), {c})
            /\ button' = [button EXCEPT ![g][c] = "consumed"]
            /\ TickGoto("advancing")
         \/ /\ live /\ ~Eligible(c) /\ Raise
            /\ UNCHANGED <<cand, draft, button>>
         \/ /\ ~live \/ (Eligible(c) /\ ~AtGate(g, c))
            /\ TickGoto("advancing")
            /\ UNCHANGED <<cand, draft, button>>
  /\ UNCHANGED <<born, story, storyDone, reviewed, note, chat, codexVars,
                 sheetVars, clickVars, faults>>

TickAdvance ==
  /\ TickAt("advancing") /\ TickGoto("handling") /\ offset' = offset + 1
  /\ UNCHANGED <<storyVars, noteVars, codexVars, sheetVars, presses, faults>>

TickStep == \/ TickStart \/ TickSelect \/ TickClaim \/ TickSend \/ TickSettle
            \/ TickReview \/ TickPoll \/ TickDone \/ TickClick \/ TickAdvance

(* The process dies, or getUpdates fails.                                  *)
TickCrash ==
  /\ ~TickAt("idle") /\ Fault /\ TickExit
  /\ UNCHANGED <<storyVars, noteVars, codexVars, sheetVars, clickVars>>

-----------------------------------------------------------------------------
(* The Codex worker *)

WorkerAt(pc) == worker.pc = pc
WorkerGoto(pc) == worker' = [worker EXCEPT !.pc = pc]
WorkerExit == worker' = RestingWorker

\* Mutant: a pending attempt is left to whoever began it.
InterruptedNever == {}
Interrupted == {c \in Candidates : /\ request[c] = "pending"
                                   /\ cand[c] = "candidate_approved"}
ToGenerate == {c \in Candidates :
                 /\ cand[c] = "candidate_approved" /\ Eligible(c)
                 /\ request[c] \in {"none", "prepared", "retryable_failed"}}

(* An attempt an earlier activation left pending is never restarted; only  *)
(* when there is none does the worker take a candidate.                    *)
WorkerStart ==
  /\ WorkerAt("idle")
  /\ \/ /\ Interrupted # {} /\ ManualReview(Interrupted)
        /\ request' = [c \in Candidates |-> IF c \in Interrupted
                                            THEN "terminal_failed"
                                            ELSE request[c]]
        /\ UNCHANGED worker
     \/ /\ Interrupted = {} /\ ToGenerate # {}
        /\ worker' = [worker EXCEPT !.pc = "preparing", !.c = Oldest(ToGenerate)]
        /\ UNCHANGED <<storyVars, request>>
  /\ UNCHANGED <<noteVars, attempts, ran, sheetVars, clickVars, tick, faults>>

(* The exact bytes are bound to the candidate before any launch.  They may *)
(* fail to build; a story that left raises.                                *)
WorkerPrepare ==
  LET c == worker.c
      open == /\ Eligible(c) /\ cand[c] = "candidate_approved"
              /\ draft[c] = "none"
  IN  /\ WorkerAt("preparing")
      /\ \/ ManualReview({c}) /\ WorkerExit /\ UNCHANGED request
         \/ /\ request[c] # "none" \/ open
            /\ request' = [request EXCEPT ![c] =
                             IF @ = "none" THEN "prepared" ELSE @]
            /\ WorkerGoto("beginning") /\ UNCHANGED storyVars
         \/ /\ request[c] = "none" /\ ~open
            /\ WorkerExit /\ UNCHANGED <<storyVars, request>>
      /\ UNCHANGED <<noteVars, attempts, ran, sheetVars, clickVars, tick,
                     faults>>

MayLaunch(c) == /\ request[c] \in {"prepared", "retryable_failed"}
                /\ cand[c] = "candidate_approved" /\ Eligible(c)
                /\ draft[c] = "none" /\ attempts[c] < 2

(* The receipt of the attempt precedes the launch.                         *)
WorkerBegin ==
  LET c == worker.c
  IN  /\ WorkerAt("beginning")
      /\ IF MayLaunch(c)
         THEN /\ request' = [request EXCEPT ![c] = "pending"]
              /\ attempts' = [attempts EXCEPT ![c] = @ + 1]
              /\ WorkerGoto("calling")
         ELSE WorkerExit /\ UNCHANGED <<request, attempts>>
      /\ UNCHANGED <<storyVars, noteVars, ran, sheetVars, clickVars, tick,
                     faults>>

(* The provider runs, to an answer or to an error, or proves that its      *)
(* network failed before anything was dispatched: the error class is there *)
(* and handled, though no provider of the tree raises it yet.              *)
WorkerCall ==
  /\ WorkerAt("calling")
  /\ \/ /\ ran' = [ran EXCEPT ![worker.c] = @ + 1]
        /\ \/ WorkerGoto("committing")
           \/ worker' = [worker EXCEPT !.pc = "failing", !.clear = FALSE]
     \/ /\ worker' = [worker EXCEPT !.pc = "failing", !.clear = TRUE]
        /\ UNCHANGED ran
  /\ UNCHANGED <<storyVars, noteVars, request, attempts, sheetVars, clickVars,
                 tick, faults>>

\* Mutant: any first failure is retried.
MayRetryAnyFailure(c) == attempts[c] < 2
MayRetry(c) == worker.clear /\ attempts[c] < 2

WorkerFail ==
  LET c == worker.c
  IN  /\ WorkerAt("failing") /\ WorkerExit
      /\ IF MayRetry(c)
         THEN /\ request' = [request EXCEPT ![c] = "retryable_failed"]
              /\ UNCHANGED storyVars
         ELSE /\ request' = [request EXCEPT ![c] = "terminal_failed"]
              /\ reviewed' = [reviewed EXCEPT ![c] = TRUE]
              /\ cand' = [cand EXCEPT ![c] = IF @ = "candidate_approved"
                                             THEN "manual_review" ELSE @]
              /\ UNCHANGED <<draft, born, story, storyDone>>
      /\ UNCHANGED <<noteVars, attempts, ran, sheetVars, clickVars, tick,
                     faults>>

CreateDraft(c) ==
  /\ cand' = [cand EXCEPT ![c] = "draft_pending_approval"]
  /\ draft' = [draft EXCEPT ![c] = "draft_pending_approval"]
  /\ born' = [born EXCEPT ![c] = 1 + Cardinality({d \in Candidates : born[d] > 0})]

(* The output, the only draft and the candidate's next state are one       *)
(* transaction.  A story that left raises and leaves the attempt pending.  *)
WorkerCommit ==
  LET c == worker.c
  IN  /\ WorkerAt("committing") /\ WorkerExit
      /\ IF /\ request[c] = "pending" /\ Eligible(c)
            /\ cand[c] = "candidate_approved" /\ draft[c] = "none"
         THEN /\ request' = [request EXCEPT ![c] = "succeeded"]
              /\ CreateDraft(c)
         ELSE UNCHANGED <<request, cand, draft, born>>
      /\ UNCHANGED <<story, storyDone, reviewed, noteVars, attempts, ran,
                     sheetVars, clickVars, tick, faults>>

WorkerStep == \/ WorkerStart \/ WorkerPrepare \/ WorkerBegin \/ WorkerCall
              \/ WorkerFail \/ WorkerCommit

WorkerCrash ==
  /\ ~WorkerAt("idle") /\ Fault /\ WorkerExit
  /\ UNCHANGED <<storyVars, noteVars, request, attempts, ran, sheetVars,
                 clickVars, tick>>

-----------------------------------------------------------------------------
(* Delivering a draft to the sheet *)

SenderAt(s, pc) == sender[s].pc = pc
SenderGoto(s, pc) == sender' = [sender EXCEPT ![s].pc = pc]
SenderExit(s) == sender' = [sender EXCEPT ![s] = RestingSender]

(* The receipt as the database holds it, and the claim of a sender: the    *)
(* detail it wrote, unique by the number of the attempt and the phase.     *)
Receipt(s) == effect[sender[s].c]
Owns(s) == /\ Receipt(s).status = "pending"
           /\ Receipt(s).attempts = sender[s].attempt
           /\ Receipt(s).phase = sender[s].phase
Retryable(e) == e.status = "failed" /\ e.clear /\ e.attempts < 2
\* Mutant: a claim whose lease lapsed is taken over and sent.
VacantOrLapsed(e) == e.status = "none" \/ Retryable(e)
                     \/ (e.status = "pending" /\ e.lapsed)
Vacant(e) == e.status = "none" \/ Retryable(e)

(* A new claim needs an eligible story and an approved draft.              *)
Claimable(c) == /\ Eligible(c) /\ cand[c] = "draft_approved"
                /\ draft[c] = "draft_approved"

Claim(s, phase, pc) ==
  LET c == sender[s].c
  IN  /\ effect' = [effect EXCEPT ![c] =
                      [status |-> "pending", phase |-> phase,
                       attempts |-> @.attempts + 1, clear |-> FALSE,
                       lapsed |-> FALSE]]
      /\ sender' = [sender EXCEPT ![s].pc = pc, ![s].phase = phase,
                      ![s].attempt = effect[c].attempts + 1]

Advance(s, phase, pc) ==
  /\ effect' = [effect EXCEPT ![sender[s].c].phase = phase]
  /\ sender' = [sender EXCEPT ![s].pc = pc, ![s].phase = phase]

Settle(s, status, clear) ==
  effect' = [effect EXCEPT ![sender[s].c] =
               [status |-> status, phase |-> "none", attempts |-> @.attempts,
                clear |-> clear, lapsed |-> FALSE]]

(* What a step of a sender never touches.                                  *)
SenderFrame == UNCHANGED <<noteVars, codexVars, clickVars, tick, faults>>
Calm(s) == SenderFrame /\ UNCHANGED <<storyVars, sent, inflight, rows>>

Selectable == {c \in Candidates : /\ draft[c] = "draft_approved"
                                  /\ EligibleWithReceipt(c)}

Begin(s, c) == sender' = [sender EXCEPT ![s].pc = "reading", ![s].c = c]

(* The service takes the oldest draft; a person names any approved one.    *)
ServiceStart ==
  /\ SenderAt(Service, "idle") /\ Selectable # {}
  /\ Begin(Service, OldestDraft(Selectable))
  /\ Calm(Service) /\ UNCHANGED effect

ManualStart(s, c) ==
  /\ s # Service /\ SenderAt(s, "idle") /\ draft[c] = "draft_approved"
  /\ Begin(s, c) /\ Calm(s) /\ UNCHANGED effect

(* A receipt an earlier sender left is never sent again: it is finished,   *)
(* reviewed, or, while its lease runs, left alone.  The receipt of a       *)
(* failed bootstrap has no lease, and reading it raises.                   *)
Recover(s) ==
  LET e == Receipt(s)
  IN  \/ e.status = "confirmed" /\ SenderGoto(s, "delivering")
      \/ e.status = "ambiguous" /\ SenderGoto(s, "reviewing")
      \/ /\ e.status = "pending" /\ ~e.lapsed /\ SenderExit(s)
      \/ /\ e.status = "pending" /\ e.lapsed
         /\ sender' = [sender EXCEPT ![s].pc = "expiring",
                         ![s].attempt = e.attempts, ![s].phase = e.phase]

SenderRead(s) ==
  /\ SenderAt(s, "reading") /\ UNCHANGED effect /\ Calm(s)
  /\ \/ Receipt(s).status \notin {"none", "failed"} /\ Recover(s)
     \/ Vacant(Receipt(s)) /\ SenderGoto(s, "bootstrapping")
     \/ /\ Receipt(s).status = "failed" /\ ~Retryable(Receipt(s))
        /\ SenderGoto(s, "reviewing")

(* Credentials, values and adapter; a failure is recorded as an attempt.   *)
SenderBootstrap(s) ==
  /\ SenderAt(s, "bootstrapping") /\ UNCHANGED effect /\ Calm(s)
  /\ SenderGoto(s, "claiming") \/ SenderGoto(s, "marking")

SenderClaimFailure(s) ==
  LET c == sender[s].c  e == Receipt(s)
  IN  /\ SenderAt(s, "marking") /\ Calm(s)
      /\ \/ Claimable(c) /\ Vacant(e) /\ Claim(s, "bootstrap", "marked")
         \/ /\ Claimable(c) /\ ~Vacant(e) /\ UNCHANGED effect
            /\ IF e.status \in {"ambiguous", "failed"}
               THEN SenderGoto(s, "reviewing") ELSE SenderExit(s)
         \/ ~Claimable(c) /\ SenderExit(s) /\ UNCHANGED effect

SenderMarkFailure(s) ==
  /\ SenderAt(s, "marked") /\ Calm(s)
  /\ IF Owns(s) THEN Settle(s, "failed", FALSE) /\ SenderGoto(s, "reviewing")
                ELSE SenderExit(s) /\ UNCHANGED effect

(* The receipt is read once more, then claimed under the write lock.       *)
SenderClaim(s) ==
  LET c == sender[s].c  e == Receipt(s)
  IN  /\ SenderAt(s, "claiming") /\ Calm(s)
      /\ \/ Claimable(c) /\ Vacant(e) /\ Claim(s, "preparing", "preparing")
         \/ /\ Claimable(c) /\ e.status = "failed" /\ ~Retryable(e)
            /\ SenderGoto(s, "reviewing") /\ UNCHANGED effect
         \/ e.status \notin {"none", "failed"} /\ Recover(s) /\ UNCHANGED effect
         \/ ~Claimable(c) /\ SenderExit(s) /\ UNCHANGED effect

(* The claim advances by compare-and-set on its detail; a sender that lost *)
(* it gives the draft to a person.                                         *)
Forward(s, phase, pc) ==
  IF Owns(s) THEN Advance(s, phase, pc)
             ELSE SenderGoto(s, "reviewing") /\ UNCHANGED effect

(* A failure before the dispatch, which may be proven to be a network      *)
(* failure (no adapter of the tree raises that proof yet).                 *)
FailsClearlyOrNot(s) ==
  \E proven \in BOOLEAN :
    /\ sender' = [sender EXCEPT ![s].pc = "failing", ![s].clear = proven]
    /\ UNCHANGED effect

(* The sheet is read: a row that is there is confirmed, one that conflicts *)
(* is unclear, and its absence is the way on.                              *)
SenderPrepare(s) ==
  /\ SenderAt(s, "preparing") /\ Calm(s)
  /\ \/ FailsClearlyOrNot(s)
     \/ Forward(s, "claimed", IF rows[sender[s].c] = 1 THEN "confirming"
                                                       ELSE "arming")
     \/ Forward(s, "claimed", "unclear")

SenderArm(s) ==
  /\ SenderAt(s, "arming") /\ Calm(s)
  /\ FailsClearlyOrNot(s) \/ Forward(s, "possibly_sent", "dispatching")

SenderDispatch(s) ==
  /\ SenderAt(s, "dispatching") /\ SenderGoto(s, "awaiting")
  /\ sent' = [sent EXCEPT ![sender[s].c] = @ + 1]
  /\ inflight' = [inflight EXCEPT ![sender[s].c] = @ + 1]
  /\ SenderFrame /\ UNCHANGED <<storyVars, effect, rows>>

(* Only a read-back that finds exactly the row counts as applied; every    *)
(* refusal, error, timeout and other read-back is unclear.                 *)
SenderAnswer(s) ==
  /\ SenderAt(s, "awaiting") /\ UNCHANGED effect /\ Calm(s)
  /\ \/ rows[sender[s].c] = 1 /\ SenderGoto(s, "confirming")
     \/ SenderGoto(s, "unclear")

(* A confirmation that lost its claim raises after a dispatch and asks for *)
(* a review before one.                                                    *)
SenderConfirm(s) ==
  /\ SenderAt(s, "confirming") /\ Calm(s)
  /\ IF Owns(s) THEN Settle(s, "confirmed", FALSE) /\ SenderGoto(s, "delivering")
     ELSE /\ UNCHANGED effect
          /\ IF sender[s].phase = "claimed" THEN SenderGoto(s, "reviewing")
                                            ELSE SenderExit(s)

SenderUnclear(s) ==
  /\ SenderAt(s, "unclear") /\ Calm(s)
  /\ IF Owns(s) THEN Settle(s, "ambiguous", FALSE) /\ SenderGoto(s, "reviewing")
                ELSE SenderExit(s) /\ UNCHANGED effect

SenderExpire(s) ==
  /\ SenderAt(s, "expiring") /\ Calm(s)
  /\ IF Owns(s) THEN Settle(s, "ambiguous", FALSE) /\ SenderGoto(s, "reviewing")
                ELSE SenderExit(s) /\ UNCHANGED effect

SenderFail(s) ==
  /\ SenderAt(s, "failing") /\ Calm(s)
  /\ IF Owns(s) THEN /\ Settle(s, "failed", sender[s].clear)
                     /\ SenderGoto(s, "rechecking")
                ELSE SenderGoto(s, "reviewing") /\ UNCHANGED effect

(* The attempts are read again after the settlement.                       *)
SenderRecheck(s) ==
  /\ SenderAt(s, "rechecking") /\ UNCHANGED effect /\ Calm(s)
  /\ IF sender[s].clear /\ Receipt(s).attempts < 2
     THEN SenderExit(s) ELSE SenderGoto(s, "reviewing")

SenderReview(s) ==
  /\ SenderAt(s, "reviewing") /\ SenderExit(s)
  /\ ManualReview({sender[s].c})
  /\ SenderFrame /\ UNCHANGED <<effect, sent, inflight, rows>>

\* Mutants: the receipt alone decides, and the story keeps no marker.
DeliverableByReceipt(c) == /\ EligibleWithReceipt(c)
                           /\ effect[c].status = "confirmed"
MarkAllButStory(c) == MoveTo("sheet_delivered", {c}) /\ UNCHANGED storyDone
Deliverable(c) == /\ EligibleWithReceipt(c) /\ cand[c] = "draft_approved"
                  /\ draft[c] = "draft_approved"
                  /\ effect[c].status = "confirmed"

MarkDelivered(c) == /\ MoveTo("sheet_delivered", {c})
                    /\ storyDone' = [storyDone EXCEPT ![c] = TRUE]

(* Draft, candidate, story and claim are delivered together or not at all. *)
SenderDeliver(s) ==
  LET c == sender[s].c
  IN  /\ SenderAt(s, "delivering") /\ SenderExit(s)
      /\ IF Deliverable(c) THEN MarkDelivered(c)
         ELSE UNCHANGED <<cand, draft, storyDone>>
      /\ SenderFrame
      /\ UNCHANGED <<born, story, reviewed, effect, sent, inflight, rows>>

SenderRuns(s) ==
  \/ SenderRead(s) \/ SenderBootstrap(s) \/ SenderClaimFailure(s)
  \/ SenderMarkFailure(s) \/ SenderClaim(s) \/ SenderPrepare(s)
  \/ SenderArm(s) \/ SenderDispatch(s) \/ SenderAnswer(s) \/ SenderConfirm(s)
  \/ SenderUnclear(s) \/ SenderExpire(s) \/ SenderFail(s) \/ SenderRecheck(s)
  \/ SenderReview(s) \/ SenderDeliver(s)

SenderCrash(s) ==
  /\ ~SenderAt(s, "idle") /\ Fault /\ SenderExit(s)
  /\ UNCHANGED <<storyVars, noteVars, codexVars, effect, sent, inflight, rows,
                 clickVars, tick>>

-----------------------------------------------------------------------------
(* The world *)

(* A person presses a button that has arrived, as often as they like.      *)
Press(g, c) ==
  /\ chat[g][c] /\ Len(presses) < MaxPresses
  /\ presses' = Append(presses, <<g, c>>)
  /\ UNCHANGED <<storyVars, noteVars, codexVars, sheetVars, offset, tick,
                 faults>>

(* A capability outlives its 24 hours.                                     *)
ButtonExpires(g, c) ==
  /\ button[g][c] = "live"
  /\ button' = [button EXCEPT ![g][c] = "expired"]
  /\ UNCHANGED <<storyVars, note, chat, codexVars, sheetVars, clickVars, tick,
                 faults>>

(* The lease of a claim runs out, over a dead sender or a slow one.        *)
LeaseLapses(c) ==
  /\ effect[c].status = "pending" /\ effect[c].phase # "bootstrap"
  /\ ~effect[c].lapsed
  /\ effect' = [effect EXCEPT ![c].lapsed = TRUE]
  /\ UNCHANGED <<storyVars, noteVars, codexVars, sent, inflight, rows, sender,
                 clickVars, tick, faults>>

(* The sheet applies a request or refuses it, perhaps after its sender has *)
(* stopped waiting.                                                        *)
SheetDecides(c) ==
  /\ inflight[c] > 0 /\ inflight' = [inflight EXCEPT ![c] = @ - 1]
  /\ \/ rows' = [rows EXCEPT ![c] = @ + 1]
     \/ UNCHANGED rows
  /\ UNCHANGED <<storyVars, noteVars, codexVars, effect, sent, sender,
                 clickVars, tick, faults>>

(* A newly collected item matches the keys of these stories, and perhaps   *)
(* of a claimed story that is not among the candidates.  Each story has a  *)
(* claim of its own, so two of them, or one with an unsettled effect or a  *)
(* review, are quarantined; one with delivery evidence is now delivered.   *)
Unsafe(c) == \/ story[c] = "quarantined" \/ reviewed[c]
             \/ \E g \in Gates : note[g][c] \in {"pending", "ambiguous"}
             \/ effect[c].status \in {"pending", "ambiguous"}
HasEvidence(c) == effect[c].status = "confirmed" \/ cand[c] = "sheet_delivered"

Converge(S, another) ==
  /\ S # {}
  /\ IF another \/ Cardinality(S) > 1 \/ \E c \in S : Unsafe(c)
     THEN /\ story' = [c \in Candidates |->
                         IF c \in S THEN "quarantined" ELSE story[c]]
          /\ UNCHANGED storyDone
     ELSE /\ storyDone' = [c \in Candidates |->
                             storyDone[c] \/ (c \in S /\ HasEvidence(c))]
          /\ UNCHANGED story
  /\ UNCHANGED <<cand, draft, born, reviewed, noteVars, codexVars, sheetVars,
                 clickVars, tick, faults>>

(* The operator holds what nothing has been done about yet, all of it, and *)
(* releases a chosen part.                                                 *)
\* Mutant: whatever is not delivered is held.
ReleasableUntilDelivered(c) == ~storyDone[c]
Releasable(c) ==
  /\ cand[c] = "pending_candidate" /\ draft[c] = "none" /\ ~storyDone[c]
  /\ request[c] = "none" /\ ~reviewed[c]
  /\ note["candidate"][c] = "none" /\ button["candidate"][c] = "none"

Hold ==
  LET S == {c \in Candidates : story[c] = "open" /\ Releasable(c)}
  IN  /\ S # {} /\ Fault
      /\ story' = [c \in Candidates |-> IF c \in S THEN "held" ELSE story[c]]
      /\ UNCHANGED <<cand, draft, born, storyDone, reviewed, noteVars,
                     codexVars, sheetVars, clickVars, tick>>

Release(S) ==
  /\ S # {} /\ \A c \in S : story[c] = "held" /\ Releasable(c)
  /\ story' = [c \in Candidates |-> IF c \in S THEN "open" ELSE story[c]]
  /\ UNCHANGED <<cand, draft, born, storyDone, reviewed, noteVars, codexVars,
                 sheetVars, clickVars, tick, faults>>

-----------------------------------------------------------------------------

Next ==
  \/ TickStep \/ TickCrash \/ WorkerStep \/ WorkerCrash
  \/ ServiceStart
  \/ \E s \in Senders : \/ SenderRuns(s) \/ SenderCrash(s)
                        \/ \E c \in Candidates : ManualStart(s, c)
  \/ \E g \in Gates, c \in Candidates : Press(g, c) \/ ButtonExpires(g, c)
  \/ \E c \in Candidates : LeaseLapses(c) \/ SheetDecides(c)
  \/ Hold
  \/ \E S \in SUBSET Candidates :
       Release(S) \/ \E another \in BOOLEAN : Converge(S, another)

Spec == Init /\ [][Next]_vars

(* The timers of the three units keep starting them, a started process     *)
(* runs to its end (faults are bounded), and time passes.  People,         *)
(* collection and operators owe nothing.                                   *)
FairSpec ==
  /\ Spec
  /\ WF_vars(TickStep) /\ WF_vars(WorkerStep) /\ WF_vars(ServiceStart)
  /\ \A s \in Senders : WF_vars(SenderRuns(s))
  /\ \A c \in Candidates : WF_vars(LeaseLapses(c))
  /\ \A g \in Gates, c \in Candidates : WF_vars(ButtonExpires(g, c))

-----------------------------------------------------------------------------
(* Safety *)

(* A draft is appended to the sheet once: two senders, crashes, lapsed     *)
(* leases and the one permitted retry never send a second request.         *)
OneRequestPerDraft == \A c \in Candidates : sent[c] <= 1 /\ rows[c] <= 1

(* The provider is never launched again for a candidate once a launch may  *)
(* have reached it, whatever interrupts the worker.                        *)
OneGeneration == \A c \in Candidates : ran[c] <= 1

(* Nothing is sent to the sheet unless a person pressed both buttons, the  *)
(* one of the candidate before the one of the draft.                       *)
TwoApprovals ==
  \A c \in Candidates : sent[c] > 0 =>
    \E i, j \in DOMAIN presses :
      i < j /\ presses[i] = <<"candidate", c>> /\ presses[j] = <<"draft", c>>

(* A candidate and its draft never disagree: every transaction that moves  *)
(* one moves the other.                                                    *)
StatesAgree == \A c \in Candidates : draft[c] \in {"none", cand[c]}

(* Delivery is all or nothing: a delivered candidate has a delivered draft *)
(* and story, a confirmed receipt and its one row.                         *)
DeliveredIsWhole ==
  \A c \in Candidates : cand[c] = "sheet_delivered" \/ draft[c] = "sheet_delivered"
    => /\ cand[c] = draft[c] /\ storyDone[c]
       /\ effect[c].status = "confirmed" /\ rows[c] = 1

(* A confirmed receipt proves the row, and no story is called delivered    *)
(* without one.                                                            *)
ReceiptMeansRow ==
  \A c \in Candidates : effect[c].status = "confirmed" \/ storyDone[c] =>
                          rows[c] = 1

(* A click the cursor has passed was not lost: its button was used or has  *)
(* expired, or the entity had left the gate.                               *)
NoClickIsLost ==
  \A i \in 1..offset :
    LET g == presses[i][1]  c == presses[i][2]
    IN  button[g][c] = "live" => ~AtGate(g, c)

(* A confirmed receipt of an approved draft can be finished unless another *)
(* item converged with its story: no operator's hold, and nothing else,    *)
(* catches a draft on its way.                                             *)
OnlyConvergenceStrands ==
  \A c \in Candidates :
    effect[c].status = "confirmed" /\ draft[c] = "draft_approved" =>
      Deliverable(c) \/ story[c] = "quarantined" \/ storyDone[c]

(* Manual review is the end of the automation: no process takes an entity  *)
(* out of it, not even one that was under way.                             *)
ReviewIsFinal ==
  [][\A c \in Candidates : cand[c] = "manual_review" =>
       cand'[c] = "manual_review"]_vars

-----------------------------------------------------------------------------
(* Progress *)

(* A receipt whose bootstrap never got to its failure has no lease; no     *)
(* sender can settle it.                                                   *)
Stuck(c) == /\ effect[c].status = "pending" /\ effect[c].phase = "bootstrap"
            /\ \A s \in Senders : ~(SenderAt(s, "marked") /\ sender[s].c = c)

Left(c) == story[c] # "open" \/ storyDone[c]

(* Every candidate is delivered or reviewed in the end, unless its story   *)
(* leaves the queue or a stuck receipt of an older draft is in the way.    *)
EveryCandidateEnds ==
  \A c \in Candidates :
    <>(\/ cand[c] \in {"sheet_delivered", "manual_review"} \/ Left(c)
       \/ \E d \in Candidates : Stuck(d) /\ born[d] <= born[c])

(* The cursor catches up with the clicks again and again, though a click   *)
(* on a story that left keeps killing the tick until its button expires.   *)
EveryClickPasses == []<>(offset = Len(presses))

-----------------------------------------------------------------------------
(* What the code's own words promise *)

(* "Select work that can settle locally or make its single permitted       *)
(* retry." (v2_workflow.py:1523)                                           *)
SelectedCanSettle == \A c \in Selectable : ~Stuck(c)

(* "test_confirmed_sheets_receipt_finishes_local_transition_after_reopen"  *)
(* (tests/unit/test_v2_live.py:706): a confirmed receipt of an approved    *)
(* draft can be finished, unless the story is quarantined.                 *)
ConfirmedCanFinish ==
  \A c \in Candidates :
    (/\ effect[c].status = "confirmed" /\ draft[c] = "draft_approved"
     /\ story[c] # "quarantined") => Deliverable(c)

(* "An unclear Telegram or Sheets effect ... become manual_review"         *)
(* (docs/operations.md:50): a gate whose notification was left unclear is  *)
(* not passed by a click.                                                  *)
UnclearIsReviewed ==
  \A g \in Gates, c \in Candidates :
    button[g][c] = "consumed" => note[g][c] = "confirmed"

-----------------------------------------------------------------------------
(* The delivery implements AppendOnce, draft by draft *)

Abstract == INSTANCE AppendOnce WITH
  Items <- Candidates, Requests <- 1..2,
  verdict <- [c \in Candidates |->
                CASE effect[c].status = "confirmed" -> "delivered"
                  [] effect[c].status = "ambiguous" -> "blocked"
                  [] OTHER -> "open"],
  outstanding <- [c \in Candidates |-> 1..inflight[c]],
  landed <- rows

(* Every step is a step of AppendOnce or changes nothing it can see.       *)
ImplementsAppendOnce == Abstract!Spec
=============================================================================
