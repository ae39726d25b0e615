--------------------------- MODULE TelegramOutbox ---------------------------
(***************************************************************************)
(* The Telegram notification outbox (src/newsbot/automation.py) and the    *)
(* one worker that drives it, `telegram tick' (cli.py): it seals the noon  *)
(* window, handles the clicks on the messages already sent, and then sends *)
(* at most one chunk of the oldest unfinished notification.                *)
(*                                                                         *)
(* One tick runs at a time, under the `telegram' flock, but it may die     *)
(* between any two of its transactions, its leases may lapse under it, and *)
(* collectors, people who click and an operator act at any moment.         *)
(***************************************************************************)
EXTENDS Naturals, Sequences, FiniteSets

CONSTANTS
  N,           \* notifications are 1..N, in the order of their ids
  MaxChunks,   \* a notification is split in at most so many messages
  Attempts,    \* ids of telegram_chunk_attempts; finite: a bound for TLC
  NoAttempt,   \* "no attempt"
  MaxUpdates,  \* a bound on the clicks
  MaxFaults    \* a bound on crashes, early lapses, failures and refusals
               \* that make a worker start again

ASSUME SizesArePositive == N \in Nat \ {0} /\ MaxChunks \in Nat \ {0}
ASSUME BoundsAreNat == MaxUpdates \in Nat /\ MaxFaults \in Nat
ASSUME AttemptsAreIds == Attempts \subseteq Nat /\ NoAttempt \notin Attempts

Notifications == 1..N
Indices       == 1..MaxChunks

VARIABLES
  \* telegram_notification_outbox and telegram_notification_chunks
  outbox,    \* state, "none" before the row exists
  noon,      \* the kind is noon_digest: frozen titles without buttons
  chunks,    \* how many chunks were persisted, 0 before
  subject,   \* what the notification is about: "drifted", its message can no
             \* longer be composed as persisted; "gone", it was decided or
             \* superseded
  \* telegram_chunk_attempts and their callback_tokens
  attempt,   \* state, "unused" before the row exists
  of, part,  \* the notification and the index of the attempt's chunk
  bound,     \* owner_hash and fence are those of the dispatch lease's row
  token,     \* the buttons linked to the attempt
  \* automation_stream_leases: none, active, or lapsed (expired but there)
  dispatch,  \* the row of telegram_dispatch
  poll,      \* the row of approval_poll
  \* the tick's memory
  pc, cur, try, fetched,  \* position, notification, attempt, updates read
  \* the world
  wire,      \* the request of each attempt
  updates,   \* the clicks: attempts whose message carries the button
  offset,    \* next_offset: updates that will not be delivered again
  decided,   \* decisions recorded for each notification
  faults

outboxVars  == <<outbox, noon, chunks, subject>>
attemptVars == <<attempt, of, part, bound, token>>
leaseVars   == <<dispatch, poll>>
tickVars    == <<pc, cur, try, fetched>>
clickVars   == <<updates, offset, decided>>
vars == <<outboxVars, attemptVars, leaseVars, tickVars, wire, clickVars, faults>>

-----------------------------------------------------------------------------

OutboxStates == {"none", "pending", "claimed", "sending", "sent", "canceled",
                 "ambiguous", "partial_manual_required", "resolved_delivered",
                 "resolved_abandoned"}
AttemptStates == {"unused", "prepared", "possibly_sent", "accepted",
                  "trusted_rejected", "ambiguous", "abandoned_pre_marker"}
Answers == {"accepted", "rate_limited", "transport_rejected", "unknown"}
PCs == {"idle", "sealing", "sealed", "polling", "fetching", "handling",
        "advancing", "polled", "resuming", "claiming", "claimed", "composed",
        "linking", "ready", "marked", "sent", "closing", "failing"} \cup Answers

TypeOK ==
  /\ outbox \in [Notifications -> OutboxStates]
  /\ noon \in [Notifications -> BOOLEAN]
  /\ chunks \in [Notifications -> 0..MaxChunks]
  /\ subject \in [Notifications -> {"eligible", "drifted", "gone"}]
  /\ attempt \in [Attempts -> AttemptStates]
  /\ of \in [Attempts -> Notifications]
  /\ part \in [Attempts -> Indices]
  /\ bound \in [Attempts -> BOOLEAN]
  /\ token \in [Attempts -> {"none", "linked", "revoked", "consumed"}]
  /\ dispatch \in {"none", "active", "lapsed"}
  /\ poll \in {"none", "active", "lapsed"}
  /\ pc \in PCs
  /\ cur \in Notifications
  /\ try \in Attempts \cup {NoAttempt}
  /\ fetched \in Nat
  /\ wire \in [Attempts -> {"none", "inflight", "delivered", "refused"}]
  /\ updates \in Seq(Attempts)
  /\ offset \in Nat
  /\ decided \in [Notifications -> Nat]
  /\ faults \in Nat

Init ==
  /\ outbox = [n \in Notifications |-> "none"]
  /\ noon = [n \in Notifications |-> FALSE]
  /\ chunks = [n \in Notifications |-> 0]
  /\ subject = [n \in Notifications |-> "eligible"]
  /\ attempt = [a \in Attempts |-> "unused"]
  /\ of = [a \in Attempts |-> 1]
  /\ part = [a \in Attempts |-> 1]
  /\ bound = [a \in Attempts |-> FALSE]
  /\ token = [a \in Attempts |-> "none"]
  /\ dispatch = "none" /\ poll = "none"
  /\ pc = "idle" /\ cur = 1 /\ try = NoAttempt /\ fetched = 0
  /\ wire = [a \in Attempts |-> "none"]
  /\ updates = << >> /\ offset = 0
  /\ decided = [n \in Notifications |-> 0]
  /\ faults = 0

-----------------------------------------------------------------------------
(* Shared conditions and effects *)

Queued   == {"pending", "claimed", "sending"}
Admitted == {"sent", "ambiguous", "resolved_delivered"}

Goto(where) == pc' = where /\ UNCHANGED <<cur, try, fetched>>

(* The memory of a tick ends with it. *)
Exit == pc' = "idle" /\ cur' = 1 /\ try' = NoAttempt /\ fetched' = 0

Fault == faults < MaxFaults /\ faults' = faults + 1

HasAccepted(n) == \E a \in Attempts : of[a] = n /\ attempt[a] = "accepted"

(* Only the last chunk of a message with buttons carries them. *)
HasButtons(n, i) == ~noon[n] /\ i = chunks[n]
Buttoned(a) == HasButtons(of[a], part[a])

(* Unconsumed buttons of these attempts stop working. *)
Revoked(S) == [a \in Attempts |-> IF a \in S /\ token[a] = "linked"
                                  THEN "revoked" ELSE token[a]]

(* Attempts that never crossed the send marker are given up, whether by    *)
(* settle_attempt or by a recovery.                                        *)
Abandon(S) ==
  /\ attempt' = [a \in Attempts |-> IF a \in S THEN "abandoned_pre_marker"
                                               ELSE attempt[a]]
  /\ token' = Revoked(S)
  /\ outbox' = [n \in Notifications |->
       IF ~\E a \in S : of[a] = n THEN outbox[n]
       ELSE IF HasAccepted(n) THEN "partial_manual_required" ELSE "pending"]
  /\ UNCHANGED <<of, part, wire>>

(* _recover_expired_prepared_attempts, for the lease row's owner and fence. *)
Orphans == {a \in Attempts : /\ bound[a] /\ attempt[a] = "prepared"
                             /\ outbox[of[a]] = "sending"}

(* acquire_lease: the fence of the new row was never used before, so it is *)
(* that of no attempt.                                                     *)
AcquireDispatch(where) ==
  /\ dispatch # "active"
  /\ Abandon(IF dispatch = "lapsed" THEN Orphans ELSE {})
  /\ bound' = [a \in Attempts |-> FALSE]
  /\ dispatch' = "active"
  /\ Goto(where)
  /\ UNCHANGED <<noon, chunks, subject, poll, clickVars, faults>>

(* release_lease deletes the row only if it has not expired. *)
Released(row) == IF row = "active" THEN "none" ELSE row

-----------------------------------------------------------------------------
(* The tick: sealing the noon window *)

Begin == pc = "idle" /\ AcquireDispatch("sealing")

Insert(n, isNoon) ==
  /\ outbox[n] = "none" /\ \A m \in 1..(n - 1) : outbox[m] # "none"
  /\ outbox' = [outbox EXCEPT ![n] = "pending"]
  /\ noon' = [noon EXCEPT ![n] = isNoon]
  /\ UNCHANGED <<chunks, subject>>

(* seal_noon_window: inside the window a day's titles become one intent. *)
SealNoonWindow ==
  /\ pc = "sealing"
  /\ UNCHANGED outboxVars \/ \E n \in Notifications : Insert(n, TRUE)
  /\ Goto("sealed")
  /\ UNCHANGED <<attemptVars, leaseVars, wire, clickVars, faults>>

(* The window's transaction fails: its row is released and the tick ends. *)
SealFails ==
  /\ pc = "sealing"
  /\ Fault
  /\ dispatch' = Released(dispatch)
  /\ Exit
  /\ UNCHANGED <<outboxVars, attemptVars, poll, wire, clickVars>>

ReleaseAdmission ==
  /\ pc = "sealed"
  /\ dispatch' = Released(dispatch)
  /\ Goto("polling")
  /\ UNCHANGED <<outboxVars, attemptVars, poll, wire, clickVars, faults>>

-----------------------------------------------------------------------------
(* The tick: handling clicks *)

(* Another tick's row that has not expired ends this one. *)
AcquirePoll ==
  /\ pc = "polling"
  /\ IF poll = "active" THEN Exit /\ UNCHANGED poll
                        ELSE Goto("fetching") /\ poll' = "active"
  /\ UNCHANGED <<outboxVars, attemptVars, dispatch, wire, clickVars, faults>>

(* getUpdates answers every update from the offset on, or fails. *)
GetUpdates ==
  /\ pc = "fetching"
  /\ fetched' = Len(updates)
  /\ pc' = "handling"
  /\ UNCHANGED <<cur, try, outboxVars, attemptVars, leaseVars, wire, clickVars,
                 faults>>

(* No answer, or an exception while a click is handled or remembered. *)
PollFails ==
  /\ pc \in {"fetching", "handling", "advancing"}
  /\ Fault
  /\ poll' = Released(poll)
  /\ Exit
  /\ UNCHANGED <<outboxVars, attemptVars, dispatch, wire, clickVars>>

(* A slip: neither the use of the button nor the subject is looked at. *)
LiveUnconsumed(a) == /\ token[a] \in {"linked", "consumed"}
                     /\ outbox[of[a]] \in Admitted

(* apply() accepts a click on a live button of an admitted notification    *)
(* whose subject still waits for it, under the poll lease.                 *)
Live(a) == /\ token[a] = "linked"
           /\ outbox[of[a]] \in Admitted
           /\ subject[of[a]] # "gone"
           /\ poll = "active"

(* The decision consumes its button, revokes the others of the subject and *)
(* moves the subject on.                                                   *)
Apply(a) ==
  /\ decided' = [decided EXCEPT ![of[a]] = @ + 1]
  /\ token' = [Revoked({b \in Attempts : of[b] = of[a]})
                 EXCEPT ![a] = "consumed"]
  /\ subject' = [subject EXCEPT ![of[a]] = "gone"]

(* A click that decides is applied.  A click on a dead button is answered  *)
(* and forgotten, and so are one on `refresh', which uses up no button but *)
(* its own, and one whose digest was changed by a neighbour's decision.    *)
HandleUpdate ==
  /\ pc = "handling" /\ offset < fetched
  /\ LET a == updates[offset + 1] IN
       \/ Live(a) /\ Apply(a)
       \/ UNCHANGED <<decided, token, subject>>
  /\ Goto("advancing")
  /\ UNCHANGED <<outbox, noon, chunks, attempt, of, part, bound, leaseVars,
                 wire, updates, offset, faults>>

AdvanceOffset ==
  /\ pc = "advancing"
  /\ offset' = offset + 1
  /\ Goto("handling")
  /\ UNCHANGED <<outboxVars, attemptVars, leaseVars, wire, updates, decided,
                 faults>>

ReleasePoll ==
  /\ pc = "handling" /\ offset = fetched
  /\ poll' = Released(poll)
  /\ Goto("polled")
  /\ UNCHANGED <<outboxVars, attemptVars, dispatch, wire, clickVars, faults>>

-----------------------------------------------------------------------------
(* The tick: dispatching one chunk *)

StartDispatch == pc = "polled" /\ AcquireDispatch("resuming")

(* resume_due_and_enqueue: a deferred subject that comes due is notified. *)
ResumeDue ==
  /\ pc = "resuming" /\ dispatch = "active"
  /\ UNCHANGED outboxVars \/ \E n \in Notifications : Insert(n, FALSE)
  /\ Goto("claiming")
  /\ UNCHANGED <<attemptVars, leaseVars, wire, clickVars, faults>>

(* Slips: what is being sent waits behind what is new, or is forgotten. *)
NextPendingFirst(n) ==
  /\ outbox[n] \in Queued
  /\ outbox[n] # "pending" =>
       \A m \in Notifications \ {n} : outbox[m] # "pending"
NextUnsent(n) == /\ outbox[n] \in {"pending", "claimed"}
                 /\ \A m \in 1..(n - 1) : outbox[m] \notin Queued

(* The oldest notification that is not finished. *)
NextQueued(n) == /\ outbox[n] \in Queued
                 /\ \A m \in 1..(n - 1) : outbox[m] \notin Queued

ClaimNextNotification ==
  /\ pc = "claiming" /\ dispatch = "active"
  /\ \E n \in Notifications :
       /\ NextQueued(n)
       /\ outbox' = IF outbox[n] = "pending"
                    THEN [outbox EXCEPT ![n] = "claimed"] ELSE outbox
       /\ cur' = n
  /\ pc' = "claimed"
  /\ UNCHANGED <<try, fetched, noon, chunks, subject, attemptVars, leaseVars,
                 wire, clickVars, faults>>

NoWork ==
  /\ pc = "claiming" /\ dispatch = "active"
  /\ ~\E n \in Notifications : NextQueued(n)
  /\ Goto("closing")
  /\ UNCHANGED <<outboxVars, attemptVars, leaseVars, wire, clickVars, faults>>

(* A request of the notification whose effect is unknown. *)
Unknown(n) == {a \in Attempts : of[a] = n /\ attempt[a] = "possibly_sent"}

(* Slips: the attempt is settled and the notification goes on; nothing is  *)
(* recorded.                                                               *)
RecoverAttemptOnly ==
  /\ pc = "claimed" /\ outbox[cur] = "sending" /\ dispatch = "active"
  /\ \E a \in Unknown(cur) : attempt' = [attempt EXCEPT ![a] = "ambiguous"]
  /\ Goto("closing")
  /\ UNCHANGED <<outboxVars, of, part, bound, token, leaseVars, wire, clickVars,
                 faults>>
RecoverNothing ==
  /\ pc = "claimed" /\ outbox[cur] = "sending" /\ dispatch = "active"
  /\ Unknown(cur) # {}
  /\ Goto("closing")
  /\ UNCHANGED <<outboxVars, attemptVars, leaseVars, wire, clickVars, faults>>

(* recover_possibly_sent *)
RecoverPossiblySent ==
  /\ pc = "claimed" /\ outbox[cur] = "sending" /\ dispatch = "active"
  /\ \E a \in Unknown(cur) : attempt' = [attempt EXCEPT ![a] = "ambiguous"]
  /\ outbox' = [outbox EXCEPT ![cur] = "ambiguous"]
  /\ Goto("closing")
  /\ UNCHANGED <<noon, chunks, subject, of, part, bound, token, leaseVars, wire,
                 clickVars, faults>>

(* The payload is composed again and must be the persisted one.  A subject *)
(* that moved on makes _notification_payload, and one whose buttons bind   *)
(* something else makes create_notification_chunks, raise.                 *)
Composing == /\ pc = "claimed"
             /\ outbox[cur] = "sending" =>
                  dispatch = "active" /\ Unknown(cur) = {}

Compose ==
  /\ Composing
  /\ subject[cur] = "eligible"
  /\ IF chunks[cur] = 0
     THEN \E k \in Indices : chunks' = [chunks EXCEPT ![cur] = k]
     ELSE UNCHANGED chunks
  /\ Goto("composed")
  /\ UNCHANGED <<outbox, noon, subject, attemptVars, leaseVars, wire, clickVars,
                 faults>>

ComposeRaises ==
  /\ Composing
  /\ subject[cur] # "eligible"
  /\ Goto("failing")
  /\ UNCHANGED <<outboxVars, attemptVars, leaseVars, wire, clickVars, faults>>

Accepted(n, i) == \E a \in Attempts :
                    of[a] = n /\ part[a] = i /\ attempt[a] = "accepted"

(* A slip: any chunk without an accepted attempt. *)
NextChunkAny(i) == i <= chunks[cur] /\ ~Accepted(cur, i)

(* next_chunk *)
NextChunk(i) == /\ i <= chunks[cur] /\ ~Accepted(cur, i)
                /\ \A j \in 1..(i - 1) : Accepted(cur, j)

(* prepare_chunk_attempt; ids are given out in order. *)
PrepareChunkAttempt(a) ==
  /\ pc = "composed" /\ dispatch = "active"
  /\ attempt[a] = "unused"
  /\ \A b \in Attempts : b < a => attempt[b] # "unused"
  /\ outbox[cur] \in {"claimed", "sending"}
  /\ \E i \in Indices :
       /\ NextChunk(i)
       /\ part' = [part EXCEPT ![a] = i]
       /\ pc' = IF HasButtons(cur, i) THEN "linking" ELSE "ready"
  /\ of' = [of EXCEPT ![a] = cur]
  /\ attempt' = [attempt EXCEPT ![a] = "prepared"]
  /\ bound' = [bound EXCEPT ![a] = TRUE]
  /\ outbox' = [outbox EXCEPT ![cur] = "sending"]
  /\ try' = a
  /\ UNCHANGED <<noon, chunks, subject, token, leaseVars, cur, fetched, wire,
                 clickVars, faults>>

(* link_callback, once for every button of the fresh payload.  The first   *)
(* link already makes the attempt's buttons exist.                         *)
LinkCallback ==
  /\ pc = "linking" /\ dispatch = "active"
  /\ token' = [token EXCEPT ![try] = "linked"]
  /\ pc' \in {"linking", "ready"}
  /\ UNCHANGED <<cur, try, fetched, outboxVars, attempt, of, part, bound,
                 leaseVars, wire, clickVars, faults>>

(* A button that cannot be linked, or no time left before the marker. *)
GiveUp ==
  /\ pc \in {"linking", "ready"} /\ dispatch = "active"
  /\ Fault
  /\ Abandon({try})
  /\ Goto("closing")
  /\ UNCHANGED <<noon, chunks, subject, bound, leaseVars, clickVars>>

MarkPossiblySent ==
  /\ pc = "ready" /\ dispatch = "active"
  /\ attempt' = [attempt EXCEPT ![try] = "possibly_sent"]
  /\ Goto("marked")
  /\ UNCHANGED <<outboxVars, of, part, bound, token, leaseVars, wire, clickVars,
                 faults>>

Send ==
  /\ pc = "marked"
  /\ wire' = [wire EXCEPT ![try] = "inflight"]
  /\ Goto("sent")
  /\ UNCHANGED <<outboxVars, attemptVars, leaseVars, clickVars, faults>>

(* The time ran out, or the connection failed, before the request left. *)
SendNothing ==
  /\ pc = "marked"
  /\ Goto("unknown")
  /\ UNCHANGED <<outboxVars, attemptVars, leaseVars, wire, clickVars, faults>>

(* send_prepared_message_once: only a well-formed answer is an acceptance, *)
(* only 400, 401, 403, 404 and 429 are refusals; a 429 is worth a retry.   *)
HearAnswer ==
  /\ pc = "sent"
  /\ \/ wire[try] = "delivered" /\ Goto("accepted") /\ UNCHANGED faults
     \/ wire[try] = "refused" /\ Goto("rate_limited") /\ Fault
     \/ wire[try] = "refused" /\ Goto("transport_rejected") /\ UNCHANGED faults
     \/ Goto("unknown") /\ UNCHANGED faults
  /\ UNCHANGED <<outboxVars, attemptVars, leaseVars, wire, clickVars>>

(* A slip: the notification is sent once one of its chunks is.             *)
AcceptedOutboxEarly == "sent"

(* settle_attempt: the notification is sent once every chunk is accepted. *)
AcceptedOutbox ==
  IF \A i \in 1..chunks[cur] : i = part[try] \/ Accepted(cur, i)
  THEN "sent" ELSE "sending"

SettleAccepted ==
  /\ pc = "accepted" /\ dispatch = "active"
  /\ attempt' = [attempt EXCEPT ![try] = "accepted"]
  /\ outbox' = [outbox EXCEPT ![cur] = AcceptedOutbox]
  /\ Goto("closing")
  /\ UNCHANGED <<noon, chunks, subject, of, part, bound, token, leaseVars, wire,
                 clickVars, faults>>

(* A refusal is retried only if no earlier chunk would be left dangling,   *)
(* except for the titles of the noon window.                               *)
RejectedOutbox(retryable) ==
  IF retryable /\ (~HasAccepted(cur) \/ noon[cur]) THEN "pending"
  ELSE IF HasAccepted(cur) THEN "partial_manual_required" ELSE "canceled"

SettleRejected ==
  /\ pc \in {"rate_limited", "transport_rejected"} /\ dispatch = "active"
  /\ attempt' = [attempt EXCEPT ![try] = "trusted_rejected"]
  /\ token' = Revoked({try})
  /\ outbox' = [outbox EXCEPT ![cur] = RejectedOutbox(pc = "rate_limited")]
  /\ Goto("closing")
  /\ UNCHANGED <<noon, chunks, subject, of, part, bound, leaseVars, wire,
                 clickVars, faults>>

SettleAmbiguous ==
  /\ pc = "unknown" /\ dispatch = "active"
  /\ attempt' = [attempt EXCEPT ![try] = "ambiguous"]
  /\ outbox' = [outbox EXCEPT ![cur] = IF HasAccepted(cur)
                                       THEN "partial_manual_required"
                                       ELSE "ambiguous"]
  /\ Goto("closing")
  /\ UNCHANGED <<noon, chunks, subject, of, part, bound, token, leaseVars, wire,
                 clickVars, faults>>

(* Every call checks that the lease is current; past its time the tick     *)
(* raises, whatever it was about to record.                                *)
LeaseNeeded ==
  \/ pc \in {"resuming", "claiming", "composed", "linking", "ready"} \cup Answers
  \/ pc = "claimed" /\ outbox[cur] = "sending"

LeaseLost ==
  /\ LeaseNeeded /\ dispatch = "lapsed"
  /\ Goto("failing")
  /\ UNCHANGED <<outboxVars, attemptVars, leaseVars, wire, clickVars, faults>>

(* Any of these transactions may also fail: the database is locked. *)
TransactionFails ==
  /\ LeaseNeeded \/ pc = "claimed"
  /\ Fault
  /\ Goto("failing")
  /\ UNCHANGED <<outboxVars, attemptVars, leaseVars, wire, clickVars>>

(* release_lease of a failed tick recovers its own prepared attempt, even  *)
(* when its lease has lapsed.                                              *)
ReleaseFailed ==
  /\ pc = "failing"
  /\ Abandon(Orphans)
  /\ dispatch' = Released(dispatch)
  /\ Exit
  /\ UNCHANGED <<noon, chunks, subject, bound, poll, clickVars, faults>>

ReleaseDone ==
  /\ pc = "closing"
  /\ dispatch' = Released(dispatch)
  /\ Exit
  /\ UNCHANGED <<outboxVars, attemptVars, poll, wire, clickVars, faults>>

-----------------------------------------------------------------------------
(* The world *)

(* Candidate and review intents are inserted by the collector and by the   *)
(* generator, in their own transactions.                                   *)
Enqueue(n) ==
  /\ Insert(n, FALSE)
  /\ UNCHANGED <<attemptVars, leaseVars, tickVars, wire, clickVars, faults>>

(* A neighbour in the digest is decided, so that fresh buttons would bind  *)
(* another digest; or the subject's sources are revised.                   *)
SubjectMoves(n) ==
  /\ outbox[n] # "none" /\ ~noon[n]
  /\ \/ subject[n] = "eligible" /\ chunks[n] > 0
        /\ subject' = [subject EXCEPT ![n] = "drifted"]
     \/ subject[n] # "gone" /\ subject' = [subject EXCEPT ![n] = "gone"]
  /\ UNCHANGED <<outbox, noon, chunks, attemptVars, leaseVars, tickVars, wire,
                 clickVars, faults>>

Deliver(a) ==
  /\ wire[a] = "inflight"
  /\ wire' = [wire EXCEPT ![a] = "delivered"]
  /\ UNCHANGED <<outboxVars, attemptVars, leaseVars, tickVars, clickVars, faults>>

Refuse(a) ==
  /\ wire[a] = "inflight"
  /\ wire' = [wire EXCEPT ![a] = "refused"]
  /\ UNCHANGED <<outboxVars, attemptVars, leaseVars, tickVars, clickVars, faults>>

Click(a) ==
  /\ wire[a] = "delivered" /\ Buttoned(a)
  /\ Len(updates) < MaxUpdates
  /\ updates' = Append(updates, a)
  /\ UNCHANGED <<outboxVars, attemptVars, leaseVars, tickVars, wire, offset,
                 decided, faults>>

(* resolve_notification, by an operator, without the flock. *)
ResolveNotification(n, resolution) ==
  /\ outbox[n] \in {"ambiguous", "partial_manual_required"}
  /\ outbox' = [outbox EXCEPT ![n] = resolution]
  /\ token' = IF resolution = "resolved_abandoned"
              THEN Revoked({a \in Attempts : of[a] = n}) ELSE token
  /\ UNCHANGED <<noon, chunks, subject, attempt, of, part, bound, leaseVars,
                 tickVars, wire, clickVars, faults>>

DispatchHeld == pc \in {"sealing", "sealed", "resuming", "claiming", "claimed",
                        "composed", "linking", "ready", "marked", "sent",
                        "closing", "failing"} \cup Answers
PollHeld == pc \in {"fetching", "handling", "advancing"}

(* The lease of a tick that died runs out. *)
DispatchRunsOut ==
  /\ dispatch = "active" /\ ~DispatchHeld
  /\ dispatch' = "lapsed"
  /\ UNCHANGED <<outboxVars, attemptVars, poll, tickVars, wire, clickVars, faults>>

PollRunsOut ==
  /\ poll = "active" /\ ~PollHeld
  /\ poll' = "lapsed"
  /\ UNCHANGED <<outboxVars, attemptVars, dispatch, tickVars, wire, clickVars,
                 faults>>

(* A lease runs out under a tick that is too slow. *)
LapsesEarly ==
  /\ Fault
  /\ \/ DispatchHeld /\ dispatch = "active" /\ dispatch' = "lapsed"
        /\ UNCHANGED poll
     \/ PollHeld /\ poll = "active" /\ poll' = "lapsed" /\ UNCHANGED dispatch
  /\ UNCHANGED <<outboxVars, attemptVars, tickVars, wire, clickVars>>

Crash ==
  /\ pc # "idle"
  /\ Fault
  /\ Exit
  /\ UNCHANGED <<outboxVars, attemptVars, leaseVars, wire, clickVars>>

-----------------------------------------------------------------------------

TickStep ==
  \/ Begin \/ SealNoonWindow \/ SealFails \/ ReleaseAdmission
  \/ AcquirePoll \/ GetUpdates \/ PollFails \/ HandleUpdate \/ AdvanceOffset
  \/ ReleasePoll
  \/ StartDispatch \/ ResumeDue \/ ClaimNextNotification \/ NoWork
  \/ RecoverPossiblySent \/ Compose \/ ComposeRaises
  \/ \E a \in Attempts : PrepareChunkAttempt(a)
  \/ LinkCallback \/ GiveUp \/ MarkPossiblySent \/ Send \/ SendNothing
  \/ HearAnswer \/ SettleAccepted \/ SettleRejected \/ SettleAmbiguous
  \/ LeaseLost \/ TransactionFails \/ ReleaseFailed \/ ReleaseDone

World ==
  \/ \E n \in Notifications :
       \/ Enqueue(n) \/ SubjectMoves(n)
       \/ \E r \in {"resolved_delivered", "resolved_abandoned"} :
            ResolveNotification(n, r)
  \/ \E a \in Attempts : Deliver(a) \/ Refuse(a) \/ Click(a)
  \/ DispatchRunsOut \/ PollRunsOut \/ LapsesEarly \/ Crash

Next == TickStep \/ World

Spec == Init /\ [][Next]_vars

(* A timer keeps starting ticks (docs/requirements.md:7), a tick runs to   *)
(* its end (its faults are bounded), and time passes; people, operators    *)
(* and Telegram owe nothing.                                               *)
FairSpec == /\ Spec
            /\ WF_vars(TickStep)
            /\ WF_vars(DispatchRunsOut) /\ WF_vars(PollRunsOut)
-----------------------------------------------------------------------------
(* Safety *)

(* A request that took effect or still may. *)
MayLand(a) == \/ wire[a] \in {"inflight", "delivered"}
              \/ attempt[a] = "possibly_sent" /\ wire[a] = "none"
SameChunk(a, b) == of[a] = of[b] /\ part[a] = part[b]

(* Nobody receives a chunk twice: of all the attempts at a chunk, at most  *)
(* one took effect or still may.                                           *)
EachChunkOnce ==
  \A a, b \in Attempts : MayLand(a) /\ MayLand(b) /\ SameChunk(a, b) => a = b

(* Messages arrive in order and without gaps: a chunk is only requested    *)
(* after every earlier one was delivered and acknowledged.                 *)
PrefixFirst ==
  \A a \in Attempts : MayLand(a) =>
    \A i \in 1..(part[a] - 1) :
      \E b \in Attempts : /\ of[b] = of[a] /\ part[b] = i
                          /\ attempt[b] = "accepted" /\ wire[b] = "delivered"

(* What is called sent was delivered to the last chunk, and its buttons    *)
(* are known.                                                              *)
SentIsWhole ==
  \A n \in Notifications : outbox[n] = "sent" =>
    /\ chunks[n] > 0
    /\ \A i \in 1..chunks[n] :
         \E a \in Attempts : /\ of[a] = n /\ part[a] = i
                             /\ attempt[a] = "accepted" /\ wire[a] = "delivered"
                             /\ Buttoned(a) => token[a] # "none"

(* A notification the worker may take up again, or has given up as         *)
(* rejected, has no request whose effect is not known.                     *)
RetryIsSafe ==
  \A a \in Attempts : MayLand(a) =>
    /\ outbox[of[a]] \in {"pending", "claimed"} => attempt[a] = "accepted"
    /\ outbox[of[a]] # "canceled"

(* Notifications are taken strictly in the order of their ids: none is     *)
(* begun while an older one is unfinished.                                 *)
OldestFirst ==
  \A a \in Attempts : attempt[a] # "unused" =>
    \A m \in 1..(of[a] - 1) : outbox[m] \notin Queued

(* A prepared request always belongs to the lease in the table, so that    *)
(* whoever comes next finds it and gives it up.                            *)
PreparedIsOwned ==
  \A a \in Attempts : attempt[a] = "prepared" =>
    bound[a] /\ dispatch # "none" /\ outbox[of[a]] = "sending"

(* No button works of a message that was refused or never sent, nor of a   *)
(* notification an operator abandoned.                                     *)
DeadButtons ==
  \A a \in Attempts :
    \/ attempt[a] \in {"trusted_rejected", "abandoned_pre_marker"}
    \/ outbox[of[a]] \in {"resolved_abandoned", "pending", "canceled"}
    => token[a] # "linked"

(* Whoever decides has the whole message before them: every chunk of it    *)
(* was delivered and all but the last were acknowledged.                   *)
DecisionSawWholeMessage ==
  \A n \in Notifications : decided[n] > 0 =>
    /\ chunks[n] > 0
    /\ \A i \in 1..chunks[n] :
         \E a \in Attempts : of[a] = n /\ part[a] = i /\ wire[a] = "delivered"

(* However often a click arrives, and after every crash between its effect *)
(* and the offset, a notification leads to one decision.                   *)
DecidedOnce == \A n \in Notifications : decided[n] <= 1

(* No request stays of unknown effect: again and again all are settled, or *)
(* handed to the operator by a worker that comes later.                    *)
UnknownIsSettled == []<>(\A a \in Attempts : attempt[a] # "possibly_sent")

(* A notification leaves the queue, unless its own subject or that of an   *)
(* older one moved on: such a notification stays at the head of the queue  *)
(* and every tick fails on it.                                             *)
QueueDrains ==
  \A n \in Notifications :
    outbox[n] \in Queued ~> \/ outbox[n] \notin Queued
                            \/ \E m \in 1..n : subject[m] # "eligible"

-----------------------------------------------------------------------------
(* The outbox implements AppendOnce, chunk by chunk *)

Chunks  == Notifications \X Indices
At(c)   == {a \in Attempts : /\ attempt[a] # "unused"
                             /\ of[a] = c[1] /\ part[a] = c[2]}
Verdict == [c \in Chunks |->
              IF \E a \in At(c) : attempt[a] = "accepted" THEN "delivered"
              ELSE IF \E a \in At(c) : attempt[a] = "ambiguous" THEN "blocked"
              ELSE "open"]
Outstanding == [c \in Chunks |-> {a \in At(c) : wire[a] = "inflight"}]
Landed == [c \in Chunks |-> Cardinality({a \in At(c) : wire[a] = "delivered"})]

Abstract == INSTANCE AppendOnce WITH
  Items <- Chunks, Requests <- Attempts,
  verdict <- Verdict, outstanding <- Outstanding, landed <- Landed

(* Every step is a step of AppendOnce or changes nothing it can see. *)
ImplementsAppendOnce == Abstract!Spec
=============================================================================
