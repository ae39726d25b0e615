------------------------ MODULE TelegramOutboxProofs ------------------------
(***************************************************************************)
(* Theorems about TelegramOutbox, for any number of notifications, chunks, *)
(* attempts, clicks and faults.                                            *)
(***************************************************************************)
EXTENDS TelegramOutbox, FiniteSetTheorems, TLAPS

-----------------------------------------------------------------------------
(* The chunk an attempt is at. *)
Chunk(a) == <<of[a], part[a]>>

LEMMA ChunkOf ==
  ASSUME NEW a \in Attempts, NEW c \in Chunks
  PROVE  c = Chunk(a) <=> of[a] = c[1] /\ part[a] = c[2]
<1>1. PICK n \in Notifications, i \in Indices : c = <<n, i>>
  BY DEF Chunks
<1> QED BY <1>1 DEF Chunk

-----------------------------------------------------------------------------
(* The inductive invariant *)

Used(a)       == attempt[a] # "unused"
Unresolved(a) == attempt[a] \in {"prepared", "possibly_sent", "ambiguous"}

(* Notifications get their ids in order. *)
InOrder ==
  \A n \in Notifications : outbox[n] # "none" =>
    \A m \in 1..(n - 1) : outbox[m] # "none"

(* The state of an attempt says what can have become of its request. *)
Evidence ==
  \A a \in Attempts :
    /\ ~Used(a) => wire[a] = "none" /\ token[a] = "none"
    /\ attempt[a] \in {"prepared", "abandoned_pre_marker"} => wire[a] = "none"
    /\ attempt[a] = "accepted" => wire[a] = "delivered"
    /\ attempt[a] = "trusted_rejected" => wire[a] = "refused"

(* An attempt is at a chunk that was persisted, and all earlier chunks     *)
(* were accepted.                                                          *)
Chunked ==
  \A a \in Attempts : Used(a) =>
    /\ outbox[of[a]] # "none" /\ part[a] <= chunks[of[a]]
    /\ \A i \in 1..(part[a] - 1) : Accepted(of[a], i)

(* One request of a notification is unresolved at a time, and a chunk that *)
(* was accepted is not requested any more.                                 *)
OneEach ==
  \A a, b \in Attempts : of[a] = of[b] =>
    /\ Unresolved(a) /\ Unresolved(b) => a = b
    /\ /\ attempt[a] = "accepted" /\ part[a] = part[b]
       /\ Unresolved(b) \/ attempt[b] = "accepted"
       => a = b

(* The states of an attempt and of its notification agree. *)
Stages ==
  \A a \in Attempts :
    /\ attempt[a] = "prepared" => bound[a] /\ outbox[of[a]] = "sending"
    /\ attempt[a] = "possibly_sent" => outbox[of[a]] = "sending"
    /\ attempt[a] = "ambiguous" =>
         outbox[of[a]] \in {"ambiguous", "partial_manual_required",
                            "resolved_delivered", "resolved_abandoned"}
    /\ attempt[a] = "accepted" => outbox[of[a]] # "canceled"

Whole ==
  \A n \in Notifications : outbox[n] = "sent" =>
    chunks[n] > 0 /\ \A i \in 1..chunks[n] : Accepted(n, i)

(* Buttons exist of the last chunks only, and of all that left. *)
Tokens ==
  \A a \in Attempts :
    /\ token[a] # "none" => Buttoned(a)
    /\ attempt[a] \in {"possibly_sent", "accepted", "trusted_rejected",
                       "ambiguous"} /\ Buttoned(a) => token[a] # "none"

(* Clicks come from messages that arrived with their buttons. *)
Shown(a) == Used(a) /\ wire[a] = "delivered" /\ Buttoned(a)
Clicked == \A k \in 1..Len(updates) : Shown(updates[k])

(* A decision came from such a message and ended its subject. *)
Decided ==
  \A n \in Notifications : decided[n] > 0 =>
    /\ decided[n] = 1 /\ subject[n] = "gone"
    /\ \E a \in Attempts : of[a] = n /\ Shown(a)

Data == /\ InOrder /\ Evidence /\ Chunked /\ OneEach /\ Stages /\ Whole
        /\ Tokens /\ DeadButtons /\ OldestFirst /\ Clicked /\ Decided

(* A prepared attempt is that of the tick at work, or of one that died or  *)
(* failed and whose lease is still in the table.                           *)
PreparedPlace ==
  /\ DispatchHeld => dispatch # "none"
  /\ \A a \in Attempts : attempt[a] = "prepared" =>
       /\ dispatch # "none"
       /\ \/ pc \in {"idle", "failing"}
          \/ pc \in {"linking", "ready"} /\ a = try

(* How far the tick got says what became of its attempt. *)
Position ==
  /\ pc \in {"claimed", "composed"} =>
       /\ outbox[cur] \in {"claimed", "sending"}
       /\ \A m \in 1..(cur - 1) : outbox[m] \notin Queued
  /\ pc = "composed" => Unknown(cur) = {}
  /\ pc \in {"linking", "ready"} =>
       try \in Attempts /\ of[try] = cur /\ attempt[try] = "prepared"
  /\ pc = "linking" => Buttoned(try)
  /\ pc = "ready" /\ Buttoned(try) => token[try] # "none"
  /\ pc \in {"marked", "sent"} \cup Answers =>
       try \in Attempts /\ of[try] = cur /\ attempt[try] = "possibly_sent"
  /\ pc = "marked" => wire[try] = "none"
  /\ pc = "accepted" => wire[try] = "delivered"
  /\ pc \in {"rate_limited", "transport_rejected"} => wire[try] = "refused"
  /\ pc \in {"handling", "advancing"} => fetched <= Len(updates)
  /\ pc = "advancing" => offset < fetched

IInv == TypeOK /\ Data /\ PreparedPlace /\ Position

-----------------------------------------------------------------------------
(* What the shared effects do to the tables *)

USE SizesArePositive, AttemptsAreIds
USE DEF Notifications, Indices, outboxVars, attemptVars, leaseVars, tickVars,
        clickVars, TypeOK

LEMMA InitInv == Init => IInv
<1> SUFFICES ASSUME Init PROVE IInv
  OBVIOUS
<1> USE DEF Init
<1>1. TypeOK
  BY DEF OutboxStates, AttemptStates, PCs, Answers
<1>2. InOrder /\ Evidence /\ Chunked /\ OneEach /\ Stages /\ Whole
  BY DEF InOrder, Evidence, Chunked, OneEach, Stages, Whole, Used, Unresolved
<1>3. Tokens /\ DeadButtons /\ OldestFirst /\ Clicked /\ Decided
  BY DEF Tokens, DeadButtons, OldestFirst, Clicked, Decided
<1>4. PreparedPlace /\ Position
  BY DEF PreparedPlace, Position, DispatchHeld, Answers
<1> QED BY <1>1, <1>2, <1>3, <1>4 DEF IInv, Data

(* Steps that leave the tables, the world and the decisions alone. *)
LEMMA QuietData ==
  ASSUME TypeOK, Data,
         UNCHANGED <<outboxVars, attempt, of, part, token, wire, updates, decided>>,
         \A a \in Attempts : attempt[a] = "prepared" => bound'[a] = bound[a]
  PROVE  Data'
<1> USE DEF Data
<1>1. (InOrder /\ Evidence /\ Whole /\ OldestFirst)'
  BY DEF InOrder, Evidence, Used, Whole, OldestFirst, Queued, Accepted
<1>2. (Chunked /\ OneEach /\ Stages)'
  BY SMTT(30) DEF Chunked, OneEach, Stages, Used, Unresolved, Accepted
<1>3. (Tokens /\ DeadButtons)'
  BY DEF Tokens, DeadButtons, Buttoned, HasButtons
<1>4. (Clicked /\ Decided)'
  BY DEF Clicked, Decided, Shown, Used, Buttoned, HasButtons
<1> QED BY <1>1, <1>2, <1>3, <1>4

(* Giving up attempts that never crossed the marker. *)
LEMMA AbandonData ==
  ASSUME TypeOK, Data, NEW S \in SUBSET Attempts,
         \A a \in S : attempt[a] = "prepared",
         Abandon(S), UNCHANGED <<noon, chunks, subject, updates, decided>>,
         \A a \in Attempts \ S : attempt[a] = "prepared" => bound'[a] = bound[a]
  PROVE  /\ Data'
         /\ outbox' \in [Notifications -> OutboxStates]
         /\ attempt' \in [Attempts -> AttemptStates]
         /\ token' \in [Attempts -> {"none", "linked", "revoked", "consumed"}]
<1> USE DEF Data, Abandon, Revoked
<1>1. /\ outbox' \in [Notifications -> OutboxStates]
      /\ attempt' \in [Attempts -> AttemptStates]
      /\ token' \in [Attempts -> {"none", "linked", "revoked", "consumed"}]
  BY DEF OutboxStates, AttemptStates
<1>2. \A n \in Notifications :
        \/ /\ outbox'[n] = outbox[n] /\ \A a \in S : of[a] # n
        \/ /\ outbox[n] = "sending"
           /\ \E a \in S : of[a] = n
           /\ \/ outbox'[n] = "pending" /\ ~HasAccepted(n)
              \/ outbox'[n] = "partial_manual_required"
  BY SMTT(30) DEF Stages
<1>3. (InOrder /\ Evidence /\ OldestFirst)'
  <2>1. \A n \in Notifications :
          /\ outbox'[n] = "none" <=> outbox[n] = "none"
          /\ outbox'[n] \in Queued => outbox[n] \in Queued
    BY <1>2 DEF Queued
  <2>2. \A n \in Notifications : \A m \in 1..(n - 1) : m \in Notifications
    OBVIOUS
  <2>3. InOrder'
    BY <2>1, <2>2 DEF InOrder
  <2>4. Evidence'
    BY DEF Evidence, Used
  <2>5. \A a \in Attempts : Used(a)' => Used(a) /\ of[a] \in Notifications
    BY DEF Used
  <2>6. OldestFirst'
    BY <2>1, <2>2, <2>5 DEF OldestFirst, Used
  <2> QED BY <2>3, <2>4, <2>6
<1>4. \A n \in Notifications, i \in Indices : Accepted(n, i)' <=> Accepted(n, i)
  BY DEF Accepted
<1>5. Chunked'
  BY <1>2, <1>4 DEF Chunked, Used
<1>6. OneEach'
  BY DEF OneEach, Unresolved
<1>7. Stages'
  <2> SUFFICES ASSUME NEW a \in Attempts
               PROVE  (/\ attempt[a] = "prepared" => bound[a] /\ outbox[of[a]] = "sending"
                       /\ attempt[a] = "possibly_sent" => outbox[of[a]] = "sending"
                       /\ attempt[a] = "ambiguous" =>
                            outbox[of[a]] \in {"ambiguous", "partial_manual_required",
                                               "resolved_delivered", "resolved_abandoned"}
                       /\ attempt[a] = "accepted" => outbox[of[a]] # "canceled")'
    BY DEF Stages
  <2>1. CASE outbox'[of[a]] = outbox[of[a]] /\ \A b \in S : of[b] # of[a]
    BY <2>1 DEF Stages
  <2>2. CASE /\ outbox[of[a]] = "sending"
             /\ \E b \in S : of[b] = of[a]
             /\ \/ outbox'[of[a]] = "pending" /\ ~HasAccepted(of[a])
                \/ outbox'[of[a]] = "partial_manual_required"
    BY <2>2 DEF Stages, OneEach, Unresolved
  <2>3. of[a] \in Notifications
    OBVIOUS
  <2> HIDE DEF Data, Abandon, Revoked
  <2> QED BY <1>2, <2>1, <2>2, <2>3
<1>8. Whole'
  BY <1>2, <1>4 DEF Whole
<1>9. Tokens'
  BY DEF Tokens, Buttoned, HasButtons
<1>10. DeadButtons'
  <2> SUFFICES ASSUME NEW a \in Attempts, token'[a] = "linked"
               PROVE  /\ attempt'[a] \notin {"trusted_rejected", "abandoned_pre_marker"}
                      /\ outbox'[of[a]] \notin {"resolved_abandoned", "pending", "canceled"}
    BY DEF DeadButtons
  <2>1. a \notin S /\ token[a] = "linked"
    OBVIOUS
  <2>2. CASE outbox'[of[a]] = outbox[of[a]]
    BY <2>1, <2>2 DEF DeadButtons
  <2>3. CASE /\ outbox[of[a]] = "sending"
             /\ \E b \in S : of[b] = of[a]
             /\ outbox'[of[a]] = "pending" /\ ~HasAccepted(of[a])
    <3>1. PICK b \in S : of[b] = of[a]
      BY <2>3
    <3>2. attempt[a] \notin {"unused", "trusted_rejected", "abandoned_pre_marker"}
      BY <2>1 DEF DeadButtons, Evidence, Used
    <3>3. attempt[a] # "accepted"
      BY <2>3 DEF HasAccepted
    <3>4. Unresolved(a) /\ Unresolved(b)
      BY <3>2, <3>3 DEF Unresolved, AttemptStates
    <3> QED BY <2>1, <3>1, <3>4 DEF OneEach
  <2> QED BY <1>2, <2>1, <2>2, <2>3, SMTT(30) DEF DeadButtons
<1>11. (Clicked /\ Decided)'
  BY DEF Clicked, Decided, Shown, Used, Buttoned, HasButtons
<1> QED BY <1>1, <1>3, <1>5, <1>6, <1>7, <1>8, <1>9, <1>10, <1>11

(* A new notification. *)
LEMMA InsertData ==
  ASSUME TypeOK, Data, NEW n \in Notifications, NEW isNoon \in BOOLEAN, Insert(n, isNoon),
         UNCHANGED <<attempt, of, part, bound, token, wire, updates, decided>>
  PROVE  /\ Data'
         /\ outbox' \in [Notifications -> OutboxStates]
         /\ noon' \in [Notifications -> BOOLEAN]
<1> USE DEF Data, Insert
<1>1. /\ outbox' \in [Notifications -> OutboxStates]
      /\ noon' \in [Notifications -> BOOLEAN]
  BY DEF OutboxStates
<1>2. \A a \in Attempts : Used(a) =>
        of[a] # n /\ \A m \in 1..(of[a] - 1) : m # n
  BY DEF Chunked, InOrder
<1>3. (InOrder /\ Evidence)'
  <2>1. \A x \in Notifications : \A m \in 1..(x - 1) : m \in Notifications /\ m # x
    OBVIOUS
  <2>2. InOrder'
    BY <2>1 DEF InOrder
  <2> QED BY <2>2 DEF Evidence, Used
<1>4. OldestFirst'
  <2>1. \A a \in Attempts : \A m \in 1..(of[a] - 1) : m \in Notifications
    OBVIOUS
  <2> QED BY <1>2, <2>1 DEF OldestFirst, Used
<1>8. (Chunked /\ OneEach)'
  BY <1>2 DEF Chunked, OneEach, Used, Unresolved, Accepted
<1>9. Stages'
  BY <1>2, SMTT(30) DEF Stages, Used
<1>5. Whole'
  BY DEF Whole, Accepted
<1>6. (Tokens /\ DeadButtons)'
  BY <1>2, SMTT(30) DEF Tokens, DeadButtons, Buttoned, HasButtons, Evidence, Used
<1>7. \A a \in Attempts : Shown(a)' <=> Shown(a)
  BY <1>2 DEF Shown, Used, Buttoned, HasButtons
<1>10. (Clicked /\ Decided)'
  <2>1. \A k \in 1..Len(updates) : updates[k] \in Attempts
    OBVIOUS
  <2>2. Clicked'
    BY <1>7, <2>1 DEF Clicked
  <2>3. Decided'
    BY <1>7 DEF Decided
  <2> QED BY <2>2, <2>3
<1> QED BY <1>1, <1>3, <1>4, <1>5, <1>6, <1>8, <1>9, <1>10

(* The ranges the invariant's quantifiers run over. *)
LEMMA Ranges ==
  ASSUME TypeOK
  PROVE  /\ \A n \in Notifications : \A m \in 1..(n - 1) : m \in Notifications /\ m # n
         /\ \A n \in Notifications : \A i \in 1..chunks[n] : i \in Indices
         /\ \A a \in Attempts : \A i \in 1..(part[a] - 1) : i \in Indices
         /\ \A k \in 1..Len(updates) : updates[k] \in Attempts
<1>1. \A n \in Notifications : \A m \in 1..(n - 1) : m \in Notifications /\ m # n
  OBVIOUS
<1>2. \A n \in Notifications : \A i \in 1..chunks[n] : i \in Indices
  OBVIOUS
<1>3. \A a \in Attempts : \A i \in 1..(part[a] - 1) : i \in Indices
  OBVIOUS
<1>4. \A k \in 1..Len(updates) : updates[k] \in Attempts
  OBVIOUS
<1> QED BY <1>1, <1>2, <1>3, <1>4

(* What keeps the parts of the invariant that look over many rows. *)
LEMMA OrderKept ==
  ASSUME TypeOK, InOrder, OldestFirst, of' = of,
         \A n \in Notifications : /\ outbox'[n] = "none" <=> outbox[n] = "none"
                                  /\ outbox'[n] \in Queued => outbox[n] \in Queued,
         \A a \in Attempts : Used(a)' => Used(a)
  PROVE  (InOrder /\ OldestFirst)'
<1>1. InOrder'
  BY Ranges DEF InOrder
<1>2. \A a \in Attempts : of[a] \in Notifications
  OBVIOUS
<1>3. OldestFirst'
  BY <1>2, Ranges DEF OldestFirst, Used
<1> QED BY <1>1, <1>3

LEMMA ChunkedKept ==
  ASSUME TypeOK, Chunked, UNCHANGED <<of, part>>,
         \A n \in Notifications : outbox[n] # "none" => outbox'[n] # "none",
         \A a \in Attempts : Used(a)' => Used(a),
         \A a \in Attempts : Used(a) => chunks'[of[a]] = chunks[of[a]],
         \A n \in Notifications, i \in Indices : Accepted(n, i) => Accepted(n, i)'
  PROVE  Chunked'
<1> SUFFICES ASSUME NEW a \in Attempts, Used(a)'
             PROVE  /\ outbox'[of[a]] # "none" /\ part[a] <= chunks'[of[a]]
                    /\ \A i \in 1..(part[a] - 1) : Accepted(of[a], i)'
  BY DEF Chunked
<1>1. /\ Used(a) /\ of[a] \in Notifications
      /\ outbox[of[a]] # "none" /\ part[a] <= chunks[of[a]]
      /\ \A i \in 1..(part[a] - 1) : i \in Indices /\ Accepted(of[a], i)
  BY Ranges DEF Chunked
<1> QED BY <1>1

LEMMA WholeKept ==
  ASSUME TypeOK, Whole,
         \A n \in Notifications : outbox'[n] = "sent" =>
           outbox[n] = "sent" /\ chunks'[n] = chunks[n],
         \A n \in Notifications, i \in Indices : Accepted(n, i) => Accepted(n, i)'
  PROVE  Whole'
  BY Ranges DEF Whole

LEMMA OneEachKept ==
  ASSUME OneEach, UNCHANGED <<of, part>>,
         \A a \in Attempts : Unresolved(a)' => Unresolved(a),
         \A a \in Attempts : attempt'[a] = "accepted" => attempt[a] = "accepted"
  PROVE  OneEach'
<1> SUFFICES ASSUME NEW a \in Attempts, NEW b \in Attempts, of[a] = of[b]
             PROVE  /\ Unresolved(a)' /\ Unresolved(b)' => a = b
                    /\ /\ attempt'[a] = "accepted" /\ part[a] = part[b]
                       /\ Unresolved(b)' \/ attempt'[b] = "accepted"
                       => a = b
  BY DEF OneEach
<1> QED BY DEF OneEach

LEMMA OneEachSettled ==
  ASSUME TypeOK, OneEach, UNCHANGED <<of, part>>,
         NEW a \in Attempts, attempt[a] = "possibly_sent",
         NEW s \in AttemptStates, attempt' = [attempt EXCEPT ![a] = s]
  PROVE  OneEach'
<1> SUFFICES ASSUME NEW b \in Attempts, NEW c \in Attempts, of[b] = of[c]
             PROVE  /\ Unresolved(b)' /\ Unresolved(c)' => b = c
                    /\ /\ attempt'[b] = "accepted" /\ part[b] = part[c]
                       /\ Unresolved(c)' \/ attempt'[c] = "accepted"
                       => b = c
  BY DEF OneEach
<1>1. /\ Unresolved(b)' => Unresolved(b)
      /\ Unresolved(c)' => Unresolved(c)
      /\ Unresolved(a)
  BY DEF Unresolved
<1>2. /\ attempt'[b] = "accepted" => b = a \/ attempt[b] = "accepted"
      /\ attempt'[c] = "accepted" => c = a \/ attempt[c] = "accepted"
  OBVIOUS
<1>3. /\ Unresolved(b) /\ Unresolved(c) => b = c
      /\ attempt[b] = "accepted" /\ part[b] = part[c] /\ Unresolved(c) => b = c
      /\ attempt[c] = "accepted" /\ part[c] = part[b] /\ Unresolved(b) => c = b
      /\ attempt[b] = "accepted" /\ part[b] = part[c] /\ attempt[c] = "accepted" => b = c
  BY DEF OneEach
<1>4. (b = a => Unresolved(b)) /\ (c = a => Unresolved(c))
  BY <1>1
<1> QED BY <1>1, <1>2, <1>3, <1>4

LEMMA RowsKept ==
  ASSUME TypeOK, InOrder, Evidence, Chunked, OneEach, Stages, Whole, OldestFirst,
         UNCHANGED <<outbox, chunks, attempt, of, part, bound, wire>>,
         \A a \in Attempts : token'[a] = "none" <=> token[a] = "none"
  PROVE  (InOrder /\ Evidence /\ Chunked /\ OneEach /\ Stages /\ Whole /\ OldestFirst)'
<1>1. (InOrder /\ Evidence /\ Whole /\ OldestFirst)'
  BY DEF InOrder, Evidence, Used, Whole, OldestFirst, Queued, Accepted
<1>2. (Chunked /\ OneEach /\ Stages)'
  BY DEF Chunked, OneEach, Stages, Used, Unresolved, Accepted
<1> QED BY <1>1, <1>2

LEMMA ClicksKept ==
  ASSUME TypeOK, Clicked, Decided, UNCHANGED <<updates, decided, of>>,
         \A n \in Notifications : subject[n] = "gone" => subject'[n] = "gone",
         \A a \in Attempts : Shown(a) => Shown(a)'
  PROVE  (Clicked /\ Decided)'
<1>1. Clicked'
  BY Ranges DEF Clicked
<1>2. Decided'
  <2> SUFFICES ASSUME NEW n \in Notifications, decided[n] > 0
               PROVE  /\ decided[n] = 1 /\ subject'[n] = "gone"
                      /\ \E a \in Attempts : of[a] = n /\ Shown(a)'
    BY DEF Decided
  <2> QED BY DEF Decided
<1> QED BY <1>1, <1>2

-----------------------------------------------------------------------------
(* Every action preserves it *)

(* Steps that only move the tick, its leases or what it has read. *)
QuietStep ==
  \/ SealFails \/ ReleaseAdmission \/ AcquirePoll \/ GetUpdates \/ PollFails
  \/ AdvanceOffset \/ ReleasePoll \/ NoWork \/ ComposeRaises \/ SendNothing
  \/ HearAnswer \/ LeaseLost \/ TransactionFails \/ ReleaseDone
  \/ DispatchRunsOut \/ PollRunsOut \/ LapsesEarly \/ Crash

Quiet == UNCHANGED <<outboxVars, attemptVars, wire, updates, decided>>

(* Where a step may leave the tick. *)
TickTypeOK == /\ dispatch \in {"none", "active", "lapsed"}
              /\ poll \in {"none", "active", "lapsed"}
              /\ pc \in PCs
              /\ cur \in Notifications
              /\ try \in Attempts \cup {NoAttempt}
              /\ fetched \in Nat /\ offset \in Nat /\ faults \in Nat

LEMMA QuietTypeOK == ASSUME TypeOK, Quiet, TickTypeOK' PROVE TypeOK'
  BY DEF Quiet, TickTypeOK

LEMMA ExitTypes == Exit => /\ pc' \in PCs /\ cur' \in Notifications
                           /\ try' \in Attempts \cup {NoAttempt} /\ fetched' \in Nat
  BY DEF Exit, PCs

LEMMA GotoTypes ==
  ASSUME TypeOK, NEW where \in PCs, Goto(where)
  PROVE  /\ pc' \in PCs /\ cur' \in Notifications
         /\ try' \in Attempts \cup {NoAttempt} /\ fetched' \in Nat
  BY DEF Goto

LEMMA FaultType == ASSUME TypeOK, Fault PROVE faults' \in Nat
  BY DEF Fault

LEMMA QuietInv == ASSUME IInv, QuietStep PROVE IInv'
<1> USE DEF IInv
<1>1. Quiet
  BY DEF Quiet, QuietStep, SealFails, ReleaseAdmission, AcquirePoll, GetUpdates,
         PollFails, AdvanceOffset, ReleasePoll, NoWork, ComposeRaises, SendNothing,
         HearAnswer, LeaseLost, TransactionFails, ReleaseDone, DispatchRunsOut,
         PollRunsOut, LapsesEarly, Crash
<1>2. Data'
  BY <1>1, QuietData DEF Quiet
<1>3. {"polling", "fetching", "handling", "polled", "closing", "failing", "idle"} \cup Answers
        \subseteq PCs
  BY DEF PCs
<1>4. TickTypeOK'
  <2> USE <1>3, ExitTypes, GotoTypes, FaultType DEF TickTypeOK, Released
  <2>1. CASE SealFails \/ ReleaseAdmission \/ ReleaseDone
    BY <2>1 DEF SealFails, ReleaseAdmission, ReleaseDone
  <2>2. CASE AcquirePoll \/ PollFails
    BY <2>2 DEF AcquirePoll, PollFails
  <2>9. CASE AdvanceOffset
    <3>1. offset' \in Nat
      BY <2>9 DEF AdvanceOffset
    <3> QED BY <2>9, <3>1 DEF AdvanceOffset
  <2>10. CASE ReleasePoll
    BY <2>10 DEF ReleasePoll
  <2>3. CASE GetUpdates
    BY <2>3 DEF GetUpdates
  <2>4. CASE NoWork \/ ComposeRaises \/ SendNothing
    BY <2>4 DEF NoWork, ComposeRaises, SendNothing, Answers
  <2>5. CASE HearAnswer
    BY <2>5 DEF HearAnswer, Answers
  <2>6. CASE LeaseLost \/ TransactionFails
    BY <2>6 DEF LeaseLost, TransactionFails
  <2>7. CASE DispatchRunsOut \/ PollRunsOut \/ LapsesEarly
    BY <2>7 DEF DispatchRunsOut, PollRunsOut, LapsesEarly
  <2>8. CASE Crash
    BY <2>8 DEF Crash
  <2> QED BY <2>1, <2>2, <2>3, <2>4, <2>5, <2>6, <2>7, <2>8, <2>9, <2>10 DEF QuietStep
<1>5. (PreparedPlace /\ Position)'
  <2> USE <1>1 DEF Quiet, Goto, Exit, Answers
  <2>1. CASE SealFails \/ ReleaseAdmission \/ ReleaseDone
    BY <2>1 DEF SealFails, ReleaseAdmission, ReleaseDone, Released,
                PreparedPlace, Position, DispatchHeld
  <2>2. CASE AcquirePoll \/ PollFails \/ ReleasePoll
    BY <2>2 DEF AcquirePoll, PollFails, ReleasePoll, PreparedPlace, Position, DispatchHeld
  <2>3. CASE GetUpdates
    BY <2>3 DEF GetUpdates, PreparedPlace, Position, DispatchHeld
  <2>4. CASE AdvanceOffset
    BY <2>4 DEF AdvanceOffset, PreparedPlace, Position, DispatchHeld
  <2>5. CASE NoWork \/ ComposeRaises \/ SendNothing
    BY <2>5 DEF NoWork, ComposeRaises, Composing, SendNothing, PreparedPlace, Position,
                DispatchHeld
  <2>6. CASE HearAnswer
    BY <2>6 DEF HearAnswer, PreparedPlace, Position, DispatchHeld
  <2>7. CASE LeaseLost \/ TransactionFails
    BY <2>7 DEF LeaseLost, TransactionFails, LeaseNeeded, PreparedPlace, Position,
                DispatchHeld
  <2>8. CASE DispatchRunsOut \/ PollRunsOut \/ LapsesEarly
    <3>1. PreparedPlace'
      BY <2>8 DEF DispatchRunsOut, PollRunsOut, LapsesEarly, PreparedPlace, DispatchHeld
    <3>2. UNCHANGED <<tickVars, offset>>
      BY <2>8 DEF DispatchRunsOut, PollRunsOut, LapsesEarly
    <3>3. Position'
      BY <3>2 DEF Position, Buttoned, HasButtons, Unknown
    <3> QED BY <3>1, <3>3
  <2>9. CASE Crash
    BY <2>9 DEF Crash, PreparedPlace, Position, DispatchHeld
  <2> QED BY <2>1, <2>2, <2>3, <2>4, <2>5, <2>6, <2>7, <2>8, <2>9 DEF QuietStep
<1> QED BY <1>1, <1>2, <1>4, <1>5, QuietTypeOK

LEMMA AcquireDispatchInv ==
  ASSUME IInv, NEW where \in {"sealing", "resuming"}, pc \in {"idle", "polled"},
         AcquireDispatch(where)
  PROVE  IInv'
<1> DEFINE S == IF dispatch = "lapsed" THEN Orphans ELSE {}
<1> USE DEF IInv, AcquireDispatch
<1>1. S = {a \in Attempts : attempt[a] = "prepared"}
  BY DEF Orphans, PreparedPlace, Data, Stages
<1>2. S \in SUBSET Attempts /\ Abandon(S)
  BY <1>1
<1> HIDE DEF S
<1>3. /\ Data'
      /\ outbox' \in [Notifications -> OutboxStates]
      /\ attempt' \in [Attempts -> AttemptStates]
      /\ token' \in [Attempts -> {"none", "linked", "revoked", "consumed"}]
  BY <1>1, <1>2, AbandonData
<1>4. TypeOK'
  BY <1>2, <1>3 DEF Abandon, Goto, PCs
<1>5. \A a \in Attempts : attempt'[a] # "prepared"
  BY <1>1, <1>2 DEF Abandon
<1>6. (PreparedPlace /\ Position)'
  BY <1>5 DEF Goto, PreparedPlace, Position, Answers
<1> QED BY <1>3, <1>4, <1>6

LEMMA GiveUpInv == ASSUME IInv, GiveUp PROVE IInv'
<1> USE DEF IInv, GiveUp
<1>1. try \in Attempts /\ attempt[try] = "prepared"
  BY DEF Position
<1>2. /\ Data'
      /\ outbox' \in [Notifications -> OutboxStates]
      /\ attempt' \in [Attempts -> AttemptStates]
      /\ token' \in [Attempts -> {"none", "linked", "revoked", "consumed"}]
  BY <1>1, AbandonData
<1>3. TypeOK'
  <2>1. UNCHANGED <<of, part, wire>>
    BY DEF Abandon
  <2>2. "closing" \in PCs
    BY DEF PCs
  <2>3. TickTypeOK'
    BY <2>2, GotoTypes, FaultType DEF TickTypeOK
  <2> QED BY <1>2, <2>1, <2>3 DEF TickTypeOK
<1>4. (PreparedPlace /\ Position)'
  BY <1>1 DEF Abandon, Goto, PreparedPlace, Position, DispatchHeld, Answers
<1> QED BY <1>2, <1>3, <1>4

LEMMA ReleaseFailedInv == ASSUME IInv, ReleaseFailed PROVE IInv'
<1> USE DEF IInv, ReleaseFailed
<1>1. Orphans = {a \in Attempts : attempt[a] = "prepared"}
  BY DEF Orphans, Data, Stages
<1>2. /\ Data'
      /\ outbox' \in [Notifications -> OutboxStates]
      /\ attempt' \in [Attempts -> AttemptStates]
      /\ token' \in [Attempts -> {"none", "linked", "revoked", "consumed"}]
  BY <1>1, AbandonData
<1>3. TypeOK'
  <2>1. UNCHANGED <<of, part, wire>>
    BY DEF Abandon
  <2>2. TickTypeOK'
    BY ExitTypes DEF TickTypeOK, Released
  <2> QED BY <1>2, <2>1, <2>2 DEF TickTypeOK
<1>4. \A a \in Attempts : attempt'[a] # "prepared"
  BY <1>1 DEF Abandon
<1>5. (PreparedPlace /\ Position)'
  BY <1>4 DEF Exit, PreparedPlace, Position, DispatchHeld, Answers
<1> QED BY <1>2, <1>3, <1>5

(* Inserting leaves what the tick holds alone. *)
LEMMA InsertPosition ==
  ASSUME IInv, NEW n \in Notifications, NEW isNoon \in BOOLEAN, Insert(n, isNoon),
         UNCHANGED <<attemptVars, tickVars, wire, updates, offset>>
  PROVE  Position'
<1> USE DEF IInv, Insert, Data
<1>1. pc \in {"claimed", "composed"} => cur # n /\ \A m \in 1..(cur - 1) : m # n
  BY DEF Position, InOrder
<1>2. pc \in {"linking", "ready"} => of[try] # n /\ try \in Attempts
  BY DEF Position, Chunked, Used
<1>3. pc \in {"claimed", "composed"} =>
        /\ outbox'[cur] = outbox[cur]
        /\ \A m \in 1..(cur - 1) : m \in Notifications /\ outbox'[m] = outbox[m]
  BY <1>1
<1>4. pc \in {"linking", "ready"} => (Buttoned(try)' <=> Buttoned(try))
  BY <1>2 DEF Buttoned, HasButtons
<1>5. Unknown(cur)' = Unknown(cur)
  BY DEF Unknown
<1> QED BY <1>2, <1>3, <1>4, <1>5 DEF Position, Queued

LEMMA EnqueueInv == ASSUME IInv, NEW n \in Notifications, Enqueue(n) PROVE IInv'
<1> USE DEF IInv, Enqueue
<1>1. /\ Data'
      /\ outbox' \in [Notifications -> OutboxStates]
      /\ noon' \in [Notifications -> BOOLEAN]
  BY InsertData
<1>2. TypeOK'
  BY <1>1 DEF Insert
<1>3. PreparedPlace'
  BY DEF PreparedPlace, DispatchHeld
<1>4. Position'
  BY InsertPosition
<1> QED BY <1>1, <1>2, <1>3, <1>4

LEMMA SealOrResumeInv == ASSUME IInv, SealNoonWindow \/ ResumeDue PROVE IInv'
<1> USE DEF IInv
<1>1. PICK w \in {"sealed", "claiming"} :
        /\ Goto(w) /\ pc \in {"sealing", "resuming"}
        /\ UNCHANGED <<attemptVars, leaseVars, wire, clickVars, faults>>
  BY DEF SealNoonWindow, ResumeDue
<1>2. \/ UNCHANGED outboxVars
      \/ \E n \in Notifications : Insert(n, TRUE) \/ Insert(n, FALSE)
  BY DEF SealNoonWindow, ResumeDue
<1>3. (PreparedPlace /\ Position)'
  BY <1>1 DEF Goto, PreparedPlace, Position, DispatchHeld, Answers
<1>4. CASE UNCHANGED outboxVars
  <2>1. Data'
    BY <1>1, <1>4, QuietData
  <2>2. TypeOK'
    BY <1>1, <1>4 DEF Goto, PCs
  <2> QED BY <1>3, <2>1, <2>2
<1>5. CASE \E n \in Notifications : Insert(n, TRUE) \/ Insert(n, FALSE)
  <2> PICK n \in Notifications : Insert(n, TRUE) \/ Insert(n, FALSE)
    BY <1>5
  <2>1. UNCHANGED <<attempt, of, part, bound, token, wire, updates, decided>>
    BY <1>1
  <2>2. /\ Data'
        /\ outbox' \in [Notifications -> OutboxStates]
        /\ noon' \in [Notifications -> BOOLEAN]
    <3>1. CASE Insert(n, TRUE)
      BY <2>1, <3>1, InsertData
    <3>2. CASE Insert(n, FALSE)
      BY <2>1, <3>2, InsertData
    <3> QED BY <3>1, <3>2
  <2>3. UNCHANGED <<chunks, subject>>
    BY DEF Insert
  <2>4. TypeOK'
    BY <1>1, <2>2, <2>3 DEF Goto, PCs
  <2> QED BY <1>3, <2>2, <2>4
<1> QED BY <1>2, <1>4, <1>5

LEMMA ClaimInv == ASSUME IInv, ClaimNextNotification PROVE IInv'
<1> USE DEF IInv, ClaimNextNotification
<1>1. PICK n \in Notifications :
        /\ NextQueued(n) /\ cur' = n
        /\ outbox' = IF outbox[n] = "pending"
                     THEN [outbox EXCEPT ![n] = "claimed"] ELSE outbox
  OBVIOUS
<1>2. /\ \A m \in Notifications : m # n => outbox'[m] = outbox[m]
      /\ outbox[n] \in Queued /\ outbox'[n] \in {"claimed", "sending"}
      /\ outbox'[n] = "sending" <=> outbox[n] = "sending"
      /\ \A m \in 1..(n - 1) : m \in Notifications /\ outbox'[m] \notin Queued
  BY <1>1, SMTT(30) DEF NextQueued, Queued
<1>3. TypeOK'
  BY <1>1 DEF OutboxStates, PCs
<1>4. UNCHANGED <<noon, chunks, subject, attempt, of, part, bound, token, wire, updates,
                  decided, dispatch>>
  OBVIOUS
<1>5. \A x \in Notifications, i \in Indices : Accepted(x, i)' <=> Accepted(x, i)
  BY <1>4 DEF Accepted
<1>6. Data'
  <2> HIDE DEF ClaimNextNotification
  <2> USE <1>2, <1>4 DEF Data
  <2>1. (InOrder /\ OldestFirst)'
    BY OrderKept DEF Queued, Used
  <2>2. (Evidence /\ OneEach)'
    BY DEF Evidence, Used, OneEach, Unresolved
  <2>3. Chunked'
    BY <1>5, ChunkedKept DEF Used, Queued
  <2>4. Stages'
    <3>1. \A a \in Attempts : of[a] = n => attempt[a] # "ambiguous"
      BY DEF Stages, Queued
    <3>2. \A a \in Attempts : of[a] # n => outbox'[of[a]] = outbox[of[a]]
      OBVIOUS
    <3> SUFFICES ASSUME NEW a \in Attempts
                 PROVE  /\ attempt[a] = "prepared" => bound[a] /\ outbox'[of[a]] = "sending"
                        /\ attempt[a] = "possibly_sent" => outbox'[of[a]] = "sending"
                        /\ attempt[a] = "ambiguous" =>
                             outbox'[of[a]] \in {"ambiguous", "partial_manual_required",
                                                 "resolved_delivered", "resolved_abandoned"}
                        /\ attempt[a] = "accepted" => outbox'[of[a]] # "canceled"
      BY DEF Stages
    <3>3. CASE of[a] = n
      BY <3>1, <3>3 DEF Stages
    <3>4. CASE of[a] # n
      BY <3>2, <3>4 DEF Stages
    <3> QED BY <3>3, <3>4
  <2>5. Whole'
    BY <1>5, WholeKept
  <2>6. (Tokens /\ DeadButtons)'
    <3>1. \A a \in Attempts : outbox'[of[a]] \in {"resolved_abandoned", "pending", "canceled"}
                                => outbox[of[a]] = outbox'[of[a]]
      OBVIOUS
    <3> QED BY <3>1 DEF Tokens, DeadButtons, Buttoned, HasButtons
  <2>7. (Clicked /\ Decided)'
    BY ClicksKept DEF Shown, Used, Buttoned, HasButtons
  <2> QED BY <2>1, <2>2, <2>3, <2>4, <2>5, <2>6, <2>7
<1>7. PreparedPlace'
  BY <1>4 DEF PreparedPlace, DispatchHeld, Answers
<1>8. Position'
  BY <1>1, <1>2 DEF Position, Answers
<1> QED BY <1>3, <1>6, <1>7, <1>8

LEMMA RecoverInv == ASSUME IInv, RecoverPossiblySent PROVE IInv'
<1> USE DEF IInv, RecoverPossiblySent
<1>1. PICK a \in Attempts : /\ of[a] = cur /\ attempt[a] = "possibly_sent"
                            /\ attempt' = [attempt EXCEPT ![a] = "ambiguous"]
  BY DEF Unknown
<1>2. TypeOK'
  BY <1>1 DEF Goto, OutboxStates, AttemptStates, PCs
<1>3. \A n \in Notifications, i \in Indices : Accepted(n, i)' <=> Accepted(n, i)
  BY <1>1 DEF Accepted
<1>4. Data'
  <2> USE <1>1 DEF Data
  <2>1. (InOrder /\ OldestFirst)'
    BY OrderKept DEF Queued, Used
  <2>2. Evidence'
    BY DEF Evidence, Used
  <2>3. OneEach'
    BY OneEachKept DEF Unresolved
  <2>4. Chunked'
    BY <1>3, ChunkedKept DEF Used
  <2>5. Whole'
    BY <1>3, WholeKept
  <2>6. Stages'
    <3>1. \A b \in Attempts : of[b] = cur /\ b # a => attempt[b] \notin {"prepared", "possibly_sent"}
      BY DEF OneEach, Unresolved
    <3>2. \A b \in Attempts : of[b] # cur => outbox'[of[b]] = outbox[of[b]]
      OBVIOUS
    <3>3. outbox'[cur] = "ambiguous"
      OBVIOUS
    <3> SUFFICES ASSUME NEW b \in Attempts
                 PROVE  /\ attempt'[b] = "prepared" => bound[b] /\ outbox'[of[b]] = "sending"
                        /\ attempt'[b] = "possibly_sent" => outbox'[of[b]] = "sending"
                        /\ attempt'[b] = "ambiguous" =>
                             outbox'[of[b]] \in {"ambiguous", "partial_manual_required",
                                                 "resolved_delivered", "resolved_abandoned"}
                        /\ attempt'[b] = "accepted" => outbox'[of[b]] # "canceled"
      BY SMTT(60) DEF Stages
    <3>4. CASE of[b] = cur
      BY <3>1, <3>3, <3>4
    <3>5. CASE of[b] # cur
      BY <3>2, <3>5, SMTT(60) DEF Stages
    <3> QED BY <3>4, <3>5
  <2>7. (Tokens /\ DeadButtons)'
    <3>1. \A b \in Attempts : (Buttoned(b)' <=> Buttoned(b)) /\ of[b] \in Notifications
      BY DEF Buttoned, HasButtons
    <3>2. /\ token' = token /\ of' = of
          /\ \A b \in Attempts : \/ attempt'[b] = attempt[b]
                                 \/ attempt[b] = "possibly_sent" /\ attempt'[b] = "ambiguous"
          /\ \A n \in Notifications : outbox'[n] = outbox[n] \/ outbox'[n] = "ambiguous"
      OBVIOUS
    <3> HIDE <1>1 DEF RecoverPossiblySent, TypeOK
    <3>3. Tokens'
      BY <3>1, <3>2 DEF Tokens
    <3>4. DeadButtons'
      BY <3>1, <3>2 DEF DeadButtons
    <3> QED BY <3>3, <3>4
  <2>8. (Clicked /\ Decided)'
    BY ClicksKept DEF Shown, Used, Buttoned, HasButtons
  <2> QED BY <2>1, <2>2, <2>3, <2>4, <2>5, <2>6, <2>7, <2>8
<1>5. (PreparedPlace /\ Position)'
  BY <1>1 DEF Goto, PreparedPlace, Position, DispatchHeld, Answers
<1> QED BY <1>2, <1>4, <1>5

LEMMA ComposeInv == ASSUME IInv, Compose PROVE IInv'
<1> USE DEF IInv
<1>1. /\ chunks' \in [Notifications -> 0..MaxChunks]
      /\ \A n \in Notifications : chunks'[n] = chunks[n] \/ chunks[n] = 0
  <2>1. CASE chunks[cur] = 0
    <3>1. PICK k \in Indices : chunks' = [chunks EXCEPT ![cur] = k]
      BY <2>1 DEF Compose
    <3> QED BY <2>1, <3>1
  <2>2. CASE chunks[cur] # 0
    BY <2>2 DEF Compose
  <2> QED BY <2>1, <2>2
<1> USE DEF Compose
<1>2. TypeOK'
  BY <1>1 DEF Goto, PCs
<1>3. \A a \in Attempts : Used(a) => chunks'[of[a]] = chunks[of[a]]
  BY <1>1, SMTT(30) DEF Data, Chunked
<1>4. Data'
  <2> HIDE DEF Compose
  <2>1. UNCHANGED <<outbox, noon, subject, attempt, of, part, bound, token, wire, updates,
                    decided>>
    BY DEF Compose
  <2> USE <2>1 DEF Data
  <2>2. (InOrder /\ OldestFirst /\ Evidence /\ OneEach /\ Stages)'
    BY DEF InOrder, OldestFirst, Evidence, OneEach, Stages, Used, Unresolved, Queued
  <2>3. \A n \in Notifications, i \in Indices : Accepted(n, i)' <=> Accepted(n, i)
    BY DEF Accepted
  <2>4. Chunked'
    BY <1>3, <2>3, ChunkedKept DEF Used
  <2>5. Whole'
    <3>1. \A n \in Notifications : outbox[n] = "sent" => chunks'[n] = chunks[n]
      BY <1>1 DEF Whole
    <3> QED BY <2>3, <3>1, WholeKept
  <2>6. (Tokens /\ DeadButtons)'
    BY <1>3, SMTT(30) DEF Tokens, DeadButtons, Buttoned, HasButtons, Evidence, Used
  <2>7. (Clicked /\ Decided)'
    BY <1>3, ClicksKept DEF Shown, Used, Buttoned, HasButtons
  <2> QED BY <2>2, <2>4, <2>5, <2>6, <2>7
<1>5. Unknown(cur)' = {}
  <2>1. outbox[cur] = "sending" => Unknown(cur) = {}
    BY DEF Composing
  <2>2. outbox[cur] # "sending" =>
          \A a \in Attempts : of[a] = cur => attempt[a] # "possibly_sent"
    BY DEF Data, Stages
  <2>3. Unknown(cur) = {}
    BY <2>1, <2>2 DEF Unknown
  <2> QED BY <2>3 DEF Unknown, Goto
<1>6. (PreparedPlace /\ Position)'
  BY <1>5 DEF Composing, Goto, PreparedPlace, Position, DispatchHeld, Answers
<1> QED BY <1>2, <1>4, <1>6

LEMMA PrepareInv ==
  ASSUME IInv, NEW a \in Attempts, PrepareChunkAttempt(a)
  PROVE  IInv'
<1> USE DEF IInv, PrepareChunkAttempt
<1>1. PICK i \in Indices : /\ NextChunk(i)
                           /\ part' = [part EXCEPT ![a] = i]
                           /\ pc' = IF HasButtons(cur, i) THEN "linking" ELSE "ready"
  OBVIOUS
<1>2. /\ ~Used(a) /\ wire[a] = "none" /\ token[a] = "none"
      /\ of'[a] = cur /\ part'[a] = i /\ attempt'[a] = "prepared" /\ bound'[a]
      /\ i <= chunks[cur]
  BY <1>1 DEF Data, Evidence, Used, NextChunk
<1>3. \A b \in Attempts : b # a => /\ of'[b] = of[b] /\ part'[b] = part[b]
                                   /\ attempt'[b] = attempt[b] /\ bound'[b] = bound[b]
  BY <1>1
<1>4. TypeOK'
  BY <1>1 DEF OutboxStates, AttemptStates, PCs
<1>5. \A b \in Attempts : of[b] = cur => ~Unresolved(b)
  BY DEF Position, Unknown, PreparedPlace, Unresolved, Data, Stages
<1>6. \A n \in Notifications, j \in Indices : Accepted(n, j) => Accepted(n, j)'
  <2> SUFFICES ASSUME NEW n \in Notifications, NEW j \in Indices,
                      NEW b \in Attempts, of[b] = n, part[b] = j, attempt[b] = "accepted"
               PROVE  Accepted(n, j)'
    BY DEF Accepted
  <2>1. b # a
    BY <1>2 DEF Used
  <2> QED BY <1>3, <2>1 DEF Accepted
<1>7. /\ outbox'[cur] = "sending" /\ outbox[cur] \in {"claimed", "sending"}
      /\ \A m \in Notifications : m # cur => outbox'[m] = outbox[m]
  BY DEF Position
<1>8. \A b \in Attempts : b # a => (Shown(b)' <=> Shown(b)) /\ (Buttoned(b)' <=> Buttoned(b))
  BY <1>3 DEF Shown, Used, Buttoned, HasButtons
<1>9. UNCHANGED <<noon, chunks, subject, token, wire, updates, decided, dispatch, cur>>
  OBVIOUS
<1>10. \A j \in 1..(i - 1) : j \in Indices /\ Accepted(cur, j)
  BY <1>1 DEF NextChunk
<1>11. \A b \in Attempts : of[b] = cur /\ part[b] = i => attempt[b] # "accepted"
  BY <1>1 DEF NextChunk, Accepted
<1>12. \A m \in 1..(cur - 1) : outbox[m] \notin Queued
  BY DEF Position
<1>13. Data'
  <2> HIDE DEF PrepareChunkAttempt
  <2> USE <1>2, <1>3, <1>7, <1>9 DEF Data
  <2>1. InOrder'
    <3>1. \A n \in Notifications : outbox'[n] = "none" <=> outbox[n] = "none"
      OBVIOUS
    <3> QED BY <3>1, Ranges, SMTT(30), ZenonT(40) DEF InOrder
  <2>2. OldestFirst'
    <3>1. \A n \in Notifications : outbox'[n] \in Queued => outbox[n] \in Queued
      BY DEF Queued
    <3> SUFFICES ASSUME NEW b \in Attempts, Used(b)', NEW m \in 1..(of'[b] - 1)
                 PROVE  outbox'[m] \notin Queued
      BY DEF OldestFirst, Used, Queued
    <3>2. m \in Notifications
      <4>1. of'[b] \in Notifications
        BY <1>4
      <4>2. \A n \in Notifications : \A k \in 1..(n - 1) : k \in Notifications
        BY Ranges
      <4> QED BY <4>1, <4>2
    <3>3. outbox[m] \notin Queued
      BY <1>12 DEF OldestFirst, Used
    <3> QED BY <3>1, <3>2, <3>3
  <2>3. Evidence'
    <3> SUFFICES ASSUME NEW b \in Attempts
                 PROVE  (/\ ~Used(b) => wire[b] = "none" /\ token[b] = "none"
                         /\ attempt[b] \in {"prepared", "abandoned_pre_marker"} => wire[b] = "none"
                         /\ attempt[b] = "accepted" => wire[b] = "delivered"
                         /\ attempt[b] = "trusted_rejected" => wire[b] = "refused")'
      BY DEF Evidence
    <3>1. CASE b = a
      BY <3>1 DEF Used
    <3>2. CASE b # a
      <4>1. attempt'[b] = attempt[b] /\ wire'[b] = wire[b] /\ token'[b] = token[b]
        BY <3>2
      <4>2. /\ ~Used(b) => wire[b] = "none" /\ token[b] = "none"
            /\ attempt[b] \in {"prepared", "abandoned_pre_marker"} => wire[b] = "none"
            /\ attempt[b] = "accepted" => wire[b] = "delivered"
            /\ attempt[b] = "trusted_rejected" => wire[b] = "refused"
        BY DEF Evidence
      <4> QED BY <4>1, <4>2 DEF Used
    <3> QED BY <3>1, <3>2
  <2>4. Chunked'
    <3> SUFFICES ASSUME NEW b \in Attempts, Used(b)'
                 PROVE  /\ outbox'[of'[b]] # "none" /\ part'[b] <= chunks'[of'[b]]
                        /\ \A j \in 1..(part'[b] - 1) : \E c \in Attempts :
                             of'[c] = of'[b] /\ part'[c] = j /\ attempt'[c] = "accepted"
      BY DEF Chunked, Accepted
    <3>1. CASE b = a
      <4>1. \A j \in 1..(i - 1) : \E c \in Attempts :
              of'[c] = cur /\ part'[c] = j /\ attempt'[c] = "accepted"
        <5>1. \A n \in Notifications, j \in Indices : Accepted(n, j) => \E c \in Attempts :
                of'[c] = n /\ part'[c] = j /\ attempt'[c] = "accepted"
          BY <1>6 DEF Accepted
        <5> TAKE j \in 1..(i - 1)
        <5>2. j \in Indices /\ cur \in Notifications /\ Accepted(cur, j)
          BY <1>10
        <5> QED BY <5>1, <5>2
      <4>2. /\ outbox'[cur] # "none" /\ i <= chunks[cur]
            /\ of'[b] = cur /\ part'[b] = i /\ chunks' = chunks
        BY <3>1
      <4>3. ASSUME NEW j \in 1..(part'[b] - 1)
            PROVE  \E c \in Attempts :
                     of'[c] = of'[b] /\ part'[c] = j /\ attempt'[c] = "accepted"
        <5>1. j \in 1..(i - 1)
          BY <4>2
        <5>2. PICK c \in Attempts : of'[c] = cur /\ part'[c] = j /\ attempt'[c] = "accepted"
          BY <4>1, <5>1
        <5> QED BY <4>2, <5>2
      <4>4. outbox'[of'[b]] # "none" /\ part'[b] <= chunks'[of'[b]]
        BY <4>2
      <4> QED BY <4>3, <4>4
    <3>2. CASE b # a
      <4>1. Used(b)
        BY <3>2 DEF Used
      <4>2. \A j \in 1..(part[b] - 1) : j \in Indices /\ Accepted(of[b], j)
        BY <4>1, Ranges DEF Chunked
      <4>3. \A j \in 1..(part[b] - 1) : \E c \in Attempts :
              of'[c] = of[b] /\ part'[c] = j /\ attempt'[c] = "accepted"
        <5> TAKE j \in 1..(part[b] - 1)
        <5>1. PICK c \in Attempts : of[c] = of[b] /\ part[c] = j /\ attempt[c] = "accepted"
          BY <4>2 DEF Accepted
        <5>2. c # a
          BY <5>1 DEF Used
        <5> QED BY <5>1, <5>2
      <4>4. /\ outbox[of[b]] # "none" /\ part[b] <= chunks[of[b]]
            /\ of[b] \in Notifications
        BY <4>1 DEF Chunked
      <4>5. outbox'[of[b]] # "none"
        BY <4>4
      <4>6. of'[b] = of[b] /\ part'[b] = part[b] /\ chunks' = chunks
        BY <3>2
      <4> QED BY <4>3, <4>4, <4>5, <4>6
    <3> QED BY <3>1, <3>2
  <2>5. OneEach'
    <3> SUFFICES ASSUME NEW b \in Attempts, NEW c \in Attempts, of'[b] = of'[c]
                 PROVE  (/\ Unresolved(b) /\ Unresolved(c) => b = c
                         /\ /\ attempt[b] = "accepted" /\ part[b] = part[c]
                            /\ Unresolved(c) \/ attempt[c] = "accepted"
                            => b = c)'
      BY DEF OneEach
    <3>1. CASE b # a /\ c # a
      <4>1. /\ of[b] = of[c]
            /\ Unresolved(b)' <=> Unresolved(b)
            /\ Unresolved(c)' <=> Unresolved(c)
        BY <3>1 DEF Unresolved
      <4>2. /\ Unresolved(b) /\ Unresolved(c) => b = c
            /\ /\ attempt[b] = "accepted" /\ part[b] = part[c]
               /\ Unresolved(c) \/ attempt[c] = "accepted"
               => b = c
        BY <4>1 DEF OneEach
      <4>3. /\ attempt'[b] = attempt[b] /\ attempt'[c] = attempt[c]
            /\ part'[b] = part[b] /\ part'[c] = part[c]
        BY <3>1
      <4> QED BY <4>1, <4>2, <4>3
    <3>2. CASE b = a \/ c = a
      BY <3>2, <1>5, <1>11, SMTT(30), ZenonT(40) DEF Unresolved
    <3> QED BY <3>1, <3>2
  <2>6. Stages'
    <3> SUFFICES ASSUME NEW b \in Attempts
                 PROVE  (/\ attempt[b] = "prepared" => bound[b] /\ outbox[of[b]] = "sending"
                         /\ attempt[b] = "possibly_sent" => outbox[of[b]] = "sending"
                         /\ attempt[b] = "ambiguous" =>
                              outbox[of[b]] \in {"ambiguous", "partial_manual_required",
                                                 "resolved_delivered", "resolved_abandoned"}
                         /\ attempt[b] = "accepted" => outbox[of[b]] # "canceled")'
      BY DEF Stages
    <3>1. CASE b = a
      BY <3>1
    <3>2. CASE b # a /\ of[b] = cur
      <4>1. ~Unresolved(b)
        BY <1>5, <3>2
      <4> QED BY <3>2, <4>1 DEF Unresolved
    <3>3. CASE b # a /\ of[b] # cur
      <4>1. /\ of'[b] = of[b] /\ attempt'[b] = attempt[b] /\ bound'[b] = bound[b]
            /\ outbox'[of[b]] = outbox[of[b]]
        BY <3>3
      <4> QED BY <4>1 DEF Stages
    <3> QED BY <3>1, <3>2, <3>3
  <2>7. Whole'
    BY <1>6, WholeKept
  <2>8. (Tokens /\ DeadButtons)'
    <3>1. \A b \in Attempts : b # a =>
            outbox'[of'[b]] = "sending" \/ outbox'[of'[b]] = outbox[of[b]]
      <4> TAKE b \in Attempts
      <4>1. of[b] \in Notifications
        OBVIOUS
      <4> HIDE DEF TypeOK
      <4> QED BY <1>3, <1>7, <4>1
    <3>2. Tokens'
      BY <1>8 DEF Tokens
    <3>3. DeadButtons'
      BY <3>1 DEF DeadButtons
    <3> QED BY <3>2, <3>3
  <2>9. Clicked'
    <3>1. ~Shown(a)
      BY DEF Shown
    <3>2. \A b \in Attempts : Shown(b) => Shown(b)'
      BY <1>8, <3>1
    <3> QED BY <3>2, Ranges DEF Clicked
  <2>10. Decided'
    <3> SUFFICES ASSUME NEW n \in Notifications, decided[n] > 0
                 PROVE  /\ decided[n] = 1 /\ subject[n] = "gone"
                        /\ \E b \in Attempts : of'[b] = n /\ Shown(b)'
      BY DEF Decided
    <3>1. PICK b \in Attempts : of[b] = n /\ Shown(b)
      BY DEF Decided
    <3>2. b # a
      BY <3>1 DEF Shown
    <3> QED BY <1>8, <3>1, <3>2 DEF Decided
  <2> QED BY <2>1, <2>2, <2>3, <2>4, <2>5, <2>6, <2>7, <2>8, <2>9, <2>10
<1>14. PreparedPlace'
  BY <1>1, <1>2, <1>3 DEF PreparedPlace, DispatchHeld, Answers
<1>15. Position'
  <2>1. pc' = "linking" <=> Buttoned(a)'
    BY <1>1, <1>2 DEF Buttoned, HasButtons
  <2> QED BY <1>1, <1>2, <2>1 DEF Position, Answers
<1> QED BY <1>4, <1>13, <1>14, <1>15

LEMMA LinkInv == ASSUME IInv, LinkCallback PROVE IInv'
<1> USE DEF IInv, LinkCallback
<1>1. /\ try \in Attempts /\ attempt[try] = "prepared" /\ Buttoned(try)
      /\ outbox[of[try]] = "sending"
  BY DEF Position, Data, Stages
<1>2. TypeOK'
  BY <1>1 DEF PCs
<1>3. Data'
  <2> USE <1>1 DEF Data
  <2>1. (InOrder /\ Evidence /\ Whole /\ OldestFirst)'
    BY DEF InOrder, Evidence, Used, Whole, OldestFirst, Queued, Accepted
  <2>2. (Chunked /\ OneEach /\ Stages)'
    BY DEF Chunked, OneEach, Stages, Used, Unresolved, Accepted
  <2>3. (Tokens /\ DeadButtons)'
    BY DEF Tokens, DeadButtons, Buttoned, HasButtons
  <2>4. (Clicked /\ Decided)'
    BY DEF Clicked, Decided, Shown, Used, Buttoned, HasButtons
  <2> QED BY <2>1, <2>2, <2>3, <2>4
<1>4. (PreparedPlace /\ Position)'
  BY <1>1 DEF PreparedPlace, Position, DispatchHeld, Buttoned, HasButtons, Answers
<1> QED BY <1>2, <1>3, <1>4

LEMMA MarkInv == ASSUME IInv, MarkPossiblySent PROVE IInv'
<1> USE DEF IInv, MarkPossiblySent
<1>1. /\ try \in Attempts /\ of[try] = cur /\ attempt[try] = "prepared"
      /\ Buttoned(try) => token[try] # "none"
      /\ outbox[cur] = "sending" /\ wire[try] = "none"
  BY DEF Position, Data, Stages, Evidence
<1>2. TypeOK'
  BY <1>1 DEF Goto, AttemptStates, PCs
<1>3. Data'
  <2> USE <1>1 DEF Data
  <2>1. (InOrder /\ OldestFirst)' /\ Evidence'
    <3>1. (InOrder /\ OldestFirst)'
      BY DEF InOrder, OldestFirst, Queued
    <3>2. Evidence'
      BY DEF Evidence, Used
    <3> QED BY <3>1, <3>2
  <2>2. \A n \in Notifications, i \in Indices : Accepted(n, i)' <=> Accepted(n, i)
    BY DEF Accepted
  <2>3. (Chunked /\ Whole)'
    BY <2>2, ChunkedKept, WholeKept DEF Used
  <2>4. (OneEach /\ Stages)'
    <3>1. OneEach'
      BY OneEachKept DEF Unresolved
    <3>2. Stages'
      BY DEF Stages
    <3> QED BY <3>1, <3>2
  <2>5. (Tokens /\ DeadButtons)'
    BY DEF Tokens, DeadButtons, Buttoned, HasButtons
  <2>6. (Clicked /\ Decided)'
    BY SMTT(30) DEF Clicked, Decided, Shown, Used, Buttoned, HasButtons
  <2> QED BY <2>1, <2>3, <2>4, <2>5, <2>6
<1>4. (PreparedPlace /\ Position)'
  BY <1>1 DEF Goto, PreparedPlace, Position, DispatchHeld, Answers
<1> QED BY <1>2, <1>3, <1>4

(* Requests leave, arrive or are refused. *)
LEMMA WireInv ==
  ASSUME IInv, NEW a \in Attempts,
         (Send /\ a = try) \/ Deliver(a) \/ Refuse(a)
  PROVE  IInv'
<1> USE DEF IInv
<1>1. /\ UNCHANGED <<outboxVars, attemptVars, leaseVars, clickVars, faults>>
      /\ \/ pc = "marked" /\ Goto("sent") /\ a = try /\ wire' = [wire EXCEPT ![a] = "inflight"]
         \/ /\ UNCHANGED tickVars /\ wire[a] = "inflight"
            /\ \E w \in {"delivered", "refused"} : wire' = [wire EXCEPT ![a] = w]
  BY DEF Send, Deliver, Refuse
<1>2. attempt[a] \in {"possibly_sent", "ambiguous"} /\ wire[a] \in {"none", "inflight"}
  BY <1>1 DEF Position, Data, Evidence, Used, AttemptStates
<1>3. /\ wire' \in [Attempts -> {"none", "inflight", "delivered", "refused"}]
      /\ \A b \in Attempts : b # a => wire'[b] = wire[b]
      /\ pc = "marked" /\ a = try => wire'[a] # "none" \/ wire[a] = "none"
  BY <1>1
<1>4. TypeOK'
  BY <1>1, <1>3 DEF Goto, PCs
<1>5. Data'
  <2> USE <1>1, <1>2, <1>3 DEF Data
  <2>1. (InOrder /\ Whole /\ OldestFirst)'
    <3>1. InOrder'
      BY DEF InOrder
    <3>2. Whole'
      BY DEF Whole, Accepted
    <3>3. OldestFirst'
      BY DEF OldestFirst, Queued
    <3> QED BY <3>1, <3>2, <3>3
  <2>2. Evidence'
    BY DEF Evidence, Used
  <2>3. (Chunked /\ OneEach /\ Stages)'
    BY SMTT(30) DEF Chunked, OneEach, Stages, Used, Unresolved, Accepted
  <2>4. (Tokens /\ DeadButtons)'
    BY DEF Tokens, DeadButtons, Buttoned, HasButtons
  <2>5. \A b \in Attempts : Shown(b) => Shown(b)'
    BY DEF Shown, Used, Buttoned, HasButtons
  <2>6. \A k \in 1..Len(updates) : updates[k] \in Attempts
    OBVIOUS
  <2>7. Clicked'
    BY <2>5, <2>6 DEF Clicked
  <2>8. Decided'
    BY <2>5 DEF Decided
  <2> QED BY <2>1, <2>2, <2>3, <2>4, <2>7, <2>8
<1>6. PreparedPlace'
  BY <1>1, <1>2 DEF Goto, PreparedPlace, DispatchHeld, Answers
<1>7. Position'
  <2>1. CASE UNCHANGED tickVars /\ wire[a] = "inflight"
    <3>1. UNCHANGED <<outbox, noon, chunks, attempt, of, part, token, updates, offset>>
      BY <1>1
    <3>2. pc = "marked" => a # try
      BY <2>1 DEF Position
    <3>3. pc \in {"accepted", "rate_limited", "transport_rejected"} => a # try
      BY <2>1 DEF Position
    <3>4. pc \in {"marked", "accepted", "rate_limited", "transport_rejected"} =>
            wire'[try] = wire[try]
      BY <1>3, <3>2, <3>3 DEF Position, Answers
    <3> QED BY <2>1, <3>1, <3>4 DEF Position, Buttoned, HasButtons, Unknown, Queued
  <2>2. CASE pc = "marked" /\ Goto("sent")
    BY <1>1, <2>2 DEF Goto, Position, Answers
  <2> QED BY <1>1, <2>1, <2>2
<1> QED BY <1>4, <1>5, <1>6, <1>7

(* An answer, or its absence, is recorded. *)
LEMMA SettleData ==
  ASSUME TypeOK, Data, NEW a \in Attempts, attempt[a] = "possibly_sent",
         NEW s \in {"accepted", "trusted_rejected", "ambiguous"}, NEW X,
         attempt' = [attempt EXCEPT ![a] = s],
         outbox' = [outbox EXCEPT ![of[a]] = X],
         token' = IF s = "trusted_rejected" THEN Revoked({a}) ELSE token,
         UNCHANGED <<noon, chunks, subject, of, part, bound, wire, updates, decided>>,
         s = "accepted" =>
           /\ wire[a] = "delivered" /\ X \in {"sent", "sending"}
           /\ X = "sent" => \A i \in 1..chunks[of[a]] : i = part[a] \/ Accepted(of[a], i),
         s = "trusted_rejected" =>
           /\ wire[a] = "refused"
           /\ \/ X \in {"pending", "canceled"} /\ ~HasAccepted(of[a])
              \/ X = "pending" /\ noon[of[a]]
              \/ X = "partial_manual_required",
         s = "ambiguous" => X \in {"ambiguous", "partial_manual_required"}
  PROVE  /\ Data'
         /\ outbox' \in [Notifications -> OutboxStates]
         /\ attempt' \in [Attempts -> AttemptStates]
         /\ token' \in [Attempts -> {"none", "linked", "revoked", "consumed"}]
<1> PICK n \in Notifications : n = of[a]
  OBVIOUS
<1>1. /\ outbox[n] = "sending" /\ outbox'[n] = X
      /\ X \in {"sent", "sending", "pending", "canceled", "ambiguous",
                "partial_manual_required"}
      /\ \A m \in Notifications : m # n => outbox'[m] = outbox[m]
  BY DEF Data, Stages
<1>2. /\ attempt'[a] = s
      /\ \A b \in Attempts : b # a => attempt'[b] = attempt[b]
  OBVIOUS
<1>3. /\ outbox' \in [Notifications -> OutboxStates]
      /\ attempt' \in [Attempts -> AttemptStates]
      /\ token' \in [Attempts -> {"none", "linked", "revoked", "consumed"}]
  BY <1>1 DEF OutboxStates, AttemptStates, Revoked
<1>4. \A b \in Attempts : /\ token'[b] = "none" <=> token[b] = "none"
                          /\ token'[b] = "linked" => token[b] = "linked"
                          /\ b = a /\ s = "trusted_rejected" => token'[b] # "linked"
  BY DEF Revoked
<1>5. \A b \in Attempts : of[b] = n /\ b # a => ~Unresolved(b)
  BY DEF Data, OneEach, Unresolved
<1>6. \A x \in Notifications, i \in Indices : Accepted(x, i) => Accepted(x, i)'
  <2> SUFFICES ASSUME NEW x \in Notifications, NEW i \in Indices, NEW b \in Attempts,
                      of[b] = x, part[b] = i, attempt[b] = "accepted"
               PROVE  Accepted(x, i)'
    BY DEF Accepted
  <2>1. b # a
    OBVIOUS
  <2> QED BY <1>2, <2>1 DEF Accepted
<1>7. part[a] <= chunks[n]
  BY DEF Data, Chunked, Used
<1> USE <1>1, <1>2 DEF Data
<1>8. (InOrder /\ OldestFirst)'
  BY OrderKept DEF Queued, Used
<1>9. Evidence'
  <2> SUFFICES ASSUME NEW b \in Attempts
               PROVE  (/\ ~Used(b) => wire[b] = "none" /\ token[b] = "none"
                       /\ attempt[b] \in {"prepared", "abandoned_pre_marker"} => wire[b] = "none"
                       /\ attempt[b] = "accepted" => wire[b] = "delivered"
                       /\ attempt[b] = "trusted_rejected" => wire[b] = "refused")'
    BY DEF Evidence
  <2>1. CASE b = a
    BY <2>1 DEF Used
  <2>2. CASE b # a
    <3>1. /\ ~Used(b) => wire[b] = "none" /\ token[b] = "none"
          /\ attempt[b] \in {"prepared", "abandoned_pre_marker"} => wire[b] = "none"
          /\ attempt[b] = "accepted" => wire[b] = "delivered"
          /\ attempt[b] = "trusted_rejected" => wire[b] = "refused"
      BY DEF Evidence
    <3>2. attempt'[b] = attempt[b] /\ wire'[b] = wire[b]
      BY <2>2
    <3> QED BY <1>4, <3>1, <3>2 DEF Used
  <2> QED BY <2>1, <2>2
<1>10. Chunked'
  BY <1>6, ChunkedKept DEF Used
<1>11. OneEach'
  BY OneEachSettled DEF AttemptStates
<1>12. Stages'
  <2> SUFFICES ASSUME NEW b \in Attempts
               PROVE  (/\ attempt[b] = "prepared" => bound[b] /\ outbox[of[b]] = "sending"
                       /\ attempt[b] = "possibly_sent" => outbox[of[b]] = "sending"
                       /\ attempt[b] = "ambiguous" =>
                            outbox[of[b]] \in {"ambiguous", "partial_manual_required",
                                               "resolved_delivered", "resolved_abandoned"}
                       /\ attempt[b] = "accepted" => outbox[of[b]] # "canceled")'
    BY DEF Stages
  <2>1. CASE b = a
    BY <2>1
  <2>2. CASE b # a /\ of[b] = n
    BY <1>5, <2>2 DEF Unresolved, HasAccepted
  <2>3. CASE of[b] # n
    <3>1. /\ outbox'[of'[b]] = outbox[of[b]]
          /\ attempt'[b] = attempt[b] /\ bound'[b] = bound[b]
      BY <2>3
    <3>2. /\ attempt[b] = "prepared" => bound[b] /\ outbox[of[b]] = "sending"
          /\ attempt[b] = "possibly_sent" => outbox[of[b]] = "sending"
          /\ attempt[b] = "ambiguous" =>
               outbox[of[b]] \in {"ambiguous", "partial_manual_required",
                                  "resolved_delivered", "resolved_abandoned"}
          /\ attempt[b] = "accepted" => outbox[of[b]] # "canceled"
      BY DEF Stages
    <3> QED BY <3>1, <3>2
  <2> QED BY <2>1, <2>2, <2>3
<1>13. Whole'
  <2> SUFFICES ASSUME NEW x \in Notifications, outbox'[x] = "sent"
               PROVE  chunks[x] > 0 /\ \A i \in 1..chunks[x] : Accepted(x, i)'
    BY DEF Whole
  <2>1. CASE x = n
    <3>1. /\ s = "accepted"
          /\ \A i \in 1..chunks[n] : i = part[a] \/ Accepted(n, i)
      BY <2>1
    <3>2. Accepted(n, part[a])'
      BY <3>1 DEF Accepted
    <3>3. chunks[n] > 0
      BY <1>7
    <3>4. \A i \in 1..chunks[n] : Accepted(n, i)'
      BY <1>6, <3>1, <3>2, Ranges
    <3> QED BY <2>1, <3>3, <3>4
  <2>2. CASE x # n
    BY <1>6, <2>2, Ranges DEF Whole
  <2> QED BY <2>1, <2>2
<1>14. Tokens'
  <2>1. \A b \in Attempts : Buttoned(b)' <=> Buttoned(b)
    BY DEF Buttoned, HasButtons
  <2>2. \A b \in Attempts : \/ attempt'[b] = attempt[b]
                           \/ attempt[b] = "possibly_sent"
    BY <1>2
  <2> SUFFICES ASSUME NEW b \in Attempts
               PROVE  /\ token'[b] # "none" => Buttoned(b)'
                      /\ attempt'[b] \in {"possibly_sent", "accepted", "trusted_rejected",
                                         "ambiguous"} /\ Buttoned(b)' => token'[b] # "none"
    BY DEF Tokens
  <2>3. /\ token[b] # "none" => Buttoned(b)
        /\ attempt[b] \in {"possibly_sent", "accepted", "trusted_rejected", "ambiguous"}
           /\ Buttoned(b) => token[b] # "none"
    BY DEF Tokens
  <2> QED BY <1>4, <2>1, <2>2, <2>3
<1>15. DeadButtons'
  <2> SUFFICES ASSUME NEW b \in Attempts, token'[b] = "linked"
               PROVE  /\ attempt'[b] \notin {"trusted_rejected", "abandoned_pre_marker"}
                      /\ outbox'[of[b]] \notin {"resolved_abandoned", "pending", "canceled"}
    BY DEF DeadButtons
  <2>1. token[b] = "linked"
    BY <1>4
  <2>2. CASE b = a
    BY <1>4, <2>2
  <2>3. CASE b # a /\ of[b] = n
    <3>1. attempt[b] = "accepted"
      BY <1>5, <2>1, <2>3 DEF Unresolved, DeadButtons, Evidence, Used, AttemptStates
    <3>2. ~noon[n]
      BY <2>1, <2>3 DEF Tokens, Buttoned, HasButtons
    <3> QED BY <2>3, <3>1, <3>2 DEF HasAccepted
  <2>4. CASE of[b] # n
    <3>1. outbox'[of[b]] = outbox[of[b]] /\ b # a
      BY <2>4
    <3> QED BY <2>1, <3>1 DEF DeadButtons
  <2> QED BY <2>2, <2>3, <2>4
<1>16. (Clicked /\ Decided)'
  BY ClicksKept DEF Shown, Used, Buttoned, HasButtons
<1> QED BY <1>3, <1>8, <1>9, <1>10, <1>11, <1>12, <1>13, <1>14, <1>15, <1>16

LEMMA SettleInv ==
  ASSUME IInv, SettleAccepted \/ SettleRejected \/ SettleAmbiguous
  PROVE  IInv'
<1> USE DEF IInv
<1>1. /\ pc \in Answers /\ Goto("closing")
      /\ UNCHANGED <<noon, chunks, subject, of, part, bound, leaseVars, wire, clickVars,
                     faults>>
  BY DEF SettleAccepted, SettleRejected, SettleAmbiguous, Answers
<1>2. /\ try \in Attempts /\ of[try] = cur /\ attempt[try] = "possibly_sent"
      /\ pc = "accepted" => wire[try] = "delivered"
      /\ pc \in {"rate_limited", "transport_rejected"} => wire[try] = "refused"
  BY <1>1 DEF Position
<1>3. /\ Data'
      /\ outbox' \in [Notifications -> OutboxStates]
      /\ attempt' \in [Attempts -> AttemptStates]
      /\ token' \in [Attempts -> {"none", "linked", "revoked", "consumed"}]
  <2>1. CASE SettleAccepted
    <3>1. /\ pc = "accepted" /\ token' = token
          /\ attempt' = [attempt EXCEPT ![try] = "accepted"]
          /\ outbox' = [outbox EXCEPT ![of[try]] = AcceptedOutbox]
      BY <1>2, <2>1 DEF SettleAccepted
    <3>2. /\ AcceptedOutbox \in {"sent", "sending"}
          /\ AcceptedOutbox = "sent" =>
               \A i \in 1..chunks[of[try]] : i = part[try] \/ Accepted(of[try], i)
      BY <1>2 DEF AcceptedOutbox
    <3> HIDE DEF TypeOK
    <3> QED BY <1>1, <1>2, <3>1, <3>2, SettleData
  <2>2. CASE SettleRejected
    <3> DEFINE X == RejectedOutbox(pc = "rate_limited")
    <3>1. /\ pc \in {"rate_limited", "transport_rejected"} /\ token' = Revoked({try})
          /\ attempt' = [attempt EXCEPT ![try] = "trusted_rejected"]
          /\ outbox' = [outbox EXCEPT ![of[try]] = X]
      BY <1>2, <2>2 DEF SettleRejected
    <3>2. \/ X \in {"pending", "canceled"} /\ ~HasAccepted(of[try])
          \/ X = "pending" /\ noon[of[try]]
          \/ X = "partial_manual_required"
      BY <1>2 DEF RejectedOutbox
    <3> HIDE DEF TypeOK, X
    <3> QED BY <1>1, <1>2, <3>1, <3>2, SettleData
  <2>3. CASE SettleAmbiguous
    <3> DEFINE X == IF HasAccepted(cur) THEN "partial_manual_required" ELSE "ambiguous"
    <3>1. /\ pc = "unknown" /\ token' = token
          /\ attempt' = [attempt EXCEPT ![try] = "ambiguous"]
          /\ outbox' = [outbox EXCEPT ![of[try]] = X]
      BY <1>2, <2>3 DEF SettleAmbiguous
    <3>2. X \in {"ambiguous", "partial_manual_required"}
      OBVIOUS
    <3> HIDE DEF TypeOK, X
    <3> QED BY <1>1, <1>2, <3>1, <3>2, SettleData
  <2> QED BY <2>1, <2>2, <2>3
<1>4. TypeOK'
  BY <1>1, <1>3 DEF Goto, PCs
<1>5. \A b \in Attempts : attempt'[b] = "prepared" => attempt[b] = "prepared"
  BY <1>2, SMTT(30) DEF SettleAccepted, SettleRejected, SettleAmbiguous
<1>6. (PreparedPlace /\ Position)'
  BY <1>1, <1>5 DEF Goto, PreparedPlace, Position, DispatchHeld, Answers
<1> QED BY <1>3, <1>4, <1>6

LEMMA HandleUpdateInv == ASSUME IInv, HandleUpdate PROVE IInv'
<1> USE DEF IInv
<1> DEFINE a == updates[offset + 1]
<1>1. /\ pc = "handling" /\ offset < fetched /\ fetched <= Len(updates)
      /\ (Live(a) /\ Apply(a)) \/ UNCHANGED <<decided, token, subject>>
      /\ Goto("advancing")
      /\ UNCHANGED <<outbox, noon, chunks, attempt, of, part, bound, leaseVars, wire,
                     updates, offset, faults>>
  BY DEF HandleUpdate, Position
<1>2. (PreparedPlace /\ Position)'
  BY <1>1 DEF Goto, PreparedPlace, Position, DispatchHeld, Answers
<1>3. CASE UNCHANGED <<decided, token, subject>>
  <2>1. Data'
    BY <1>1, <1>3, QuietData
  <2>2. TypeOK'
    BY <1>1, <1>3 DEF Goto, PCs
  <2> QED BY <1>2, <2>1, <2>2
<1>4. CASE Live(a) /\ Apply(a)
  <2>1. offset + 1 \in 1..Len(updates)
    BY <1>1
  <2> PICK b \in Attempts : b = a
    BY <2>1, Ranges
  <2>2. Shown(b)
    BY <2>1 DEF Data, Clicked
  <2> PICK n \in Notifications : n = of[b]
    OBVIOUS
  <2>3. /\ token[b] = "linked" /\ subject[n] # "gone"
        /\ decided' = [decided EXCEPT ![n] = @ + 1]
        /\ token' = [Revoked({c \in Attempts : of[c] = n}) EXCEPT ![b] = "consumed"]
        /\ subject' = [subject EXCEPT ![n] = "gone"]
    BY <1>4 DEF Live, Apply
  <2>4. decided[n] = 0
    BY <2>3, SMTT(30) DEF Data, Decided
  <2> HIDE DEF a
  <2>5. TypeOK'
    <3>1. /\ decided' \in [Notifications -> Nat]
          /\ token' \in [Attempts -> {"none", "linked", "revoked", "consumed"}]
          /\ subject' \in [Notifications -> {"eligible", "drifted", "gone"}]
      BY <2>3, SMTT(30) DEF Revoked
    <3>2. "advancing" \in PCs
      BY DEF PCs
    <3> QED BY <1>1, <3>1, <3>2 DEF Goto
  <2>6. \A c \in Attempts : /\ token'[c] = "none" <=> token[c] = "none"
                            /\ token'[c] = "linked" => token[c] = "linked"
    BY <2>3 DEF Revoked
  <2>7. UNCHANGED <<outbox, noon, chunks, attempt, of, part, bound, wire, updates>>
    BY <1>1
  <2>8. (InOrder /\ Evidence /\ Chunked /\ OneEach /\ Stages /\ Whole /\ OldestFirst)'
    BY <2>6, <2>7, RowsKept DEF Data
  <2>10. (Tokens /\ DeadButtons)'
    <3>1. \A c \in Attempts : Buttoned(c)' <=> Buttoned(c)
      BY <2>7 DEF Buttoned, HasButtons
    <3> QED BY <2>6, <2>7, <3>1 DEF Data, Tokens, DeadButtons
  <2>11. \A c \in Attempts : Shown(c)' <=> Shown(c)
    BY <2>7 DEF Shown, Used, Buttoned, HasButtons
  <2>12. Clicked'
    BY <2>7, <2>11, Ranges DEF Data, Clicked
  <2>13. Decided'
    <3> SUFFICES ASSUME NEW x \in Notifications, decided'[x] > 0
                 PROVE  /\ decided'[x] = 1 /\ subject'[x] = "gone"
                        /\ \E c \in Attempts : of[c] = x /\ Shown(c)'
      BY <2>7 DEF Decided
    <3>1. CASE x = n
      BY <2>2, <2>3, <2>4, <2>11, <3>1
    <3>2. CASE x # n
      BY <2>3, <2>11, <3>2 DEF Data, Decided
    <3> QED BY <3>1, <3>2
  <2> QED BY <1>2, <2>5, <2>8, <2>10, <2>12, <2>13 DEF Data
<1> QED BY <1>1, <1>3, <1>4

LEMMA SubjectMovesInv ==
  ASSUME IInv, NEW n \in Notifications, SubjectMoves(n)
  PROVE  IInv'
<1> USE DEF IInv, Data
<1>1. /\ subject' \in [Notifications -> {"eligible", "drifted", "gone"}]
      /\ \A m \in Notifications : subject[m] = "gone" => subject'[m] = "gone"
  BY DEF SubjectMoves
<1>2. UNCHANGED <<outbox, noon, chunks, attemptVars, leaseVars, tickVars, wire, clickVars,
                  faults>>
  BY DEF SubjectMoves
<1>3. TypeOK'
  BY <1>1, <1>2
<1>4. (InOrder /\ Evidence /\ Whole /\ OldestFirst)'
  BY <1>2, SMTT(30) DEF InOrder, Evidence, Used, Whole, OldestFirst, Queued, Accepted
<1>5. (Chunked /\ OneEach /\ Stages)'
  BY <1>2 DEF Chunked, OneEach, Stages, Used, Unresolved, Accepted
<1>6. (Tokens /\ DeadButtons)'
  BY <1>2 DEF Tokens, DeadButtons, Buttoned, HasButtons
<1>7. (Clicked /\ Decided)'
  BY <1>1, <1>2, ClicksKept DEF Shown, Used, Buttoned, HasButtons
<1>8. PreparedPlace'
  BY <1>2 DEF PreparedPlace, DispatchHeld
<1>9. Position'
  BY <1>2 DEF Position, Buttoned, HasButtons, Unknown
<1> QED BY <1>3, <1>4, <1>5, <1>6, <1>7, <1>8, <1>9

LEMMA ClickInv == ASSUME IInv, NEW a \in Attempts, Click(a) PROVE IInv'
<1> USE DEF IInv, Data
<1>1. UNCHANGED <<outboxVars, attemptVars, leaseVars, tickVars, wire, offset, decided,
                  faults>>
  BY DEF Click
<1>2. /\ updates' \in Seq(Attempts) /\ Len(updates') = Len(updates) + 1
      /\ updates'[Len(updates) + 1] = a
      /\ \A k \in 1..Len(updates) : updates'[k] = updates[k]
      /\ 1..Len(updates') = 1..Len(updates) \cup {Len(updates) + 1}
  <2>1. updates' = Append(updates, a)
    BY DEF Click
  <2>2. updates \in Seq(Attempts) /\ Len(updates) \in Nat
    OBVIOUS
  <2> HIDE DEF IInv, Data, TypeOK
  <2> QED BY <2>1, <2>2
<1>3. TypeOK'
  BY <1>1, <1>2
<1>4. (InOrder /\ Evidence /\ Chunked /\ OneEach /\ Stages /\ Whole /\ OldestFirst)'
  BY <1>1, RowsKept
<1>6. (Tokens /\ DeadButtons)'
  BY <1>1 DEF Tokens, DeadButtons, Buttoned, HasButtons
<1>7. \A b \in Attempts : Shown(b)' <=> Shown(b)
  BY <1>1 DEF Shown, Used, Buttoned, HasButtons
<1>8. Shown(a)
  BY DEF Click, Shown, Evidence
<1>9. Clicked'
  BY <1>2, <1>7, <1>8, Ranges DEF Clicked
<1>10. Decided'
  BY <1>1, <1>7 DEF Decided
<1>11. PreparedPlace'
  BY <1>1 DEF PreparedPlace, DispatchHeld
<1>12. Position'
  <2>1. fetched <= Len(updates) => fetched <= Len(updates')
    BY <1>2
  <2> QED BY <1>1, <2>1 DEF Position, Buttoned, HasButtons, Unknown
<1> QED BY <1>3, <1>4, <1>6, <1>9, <1>10, <1>11, <1>12

LEMMA ResolveInv ==
  ASSUME IInv, NEW n \in Notifications,
         NEW r \in {"resolved_delivered", "resolved_abandoned"}, ResolveNotification(n, r)
  PROVE  IInv'
<1> USE DEF IInv, Data
<1>1. /\ UNCHANGED <<noon, chunks, subject, attempt, of, part, bound, leaseVars, tickVars,
                     wire, clickVars, faults>>
      /\ outbox[n] \in {"ambiguous", "partial_manual_required"} /\ outbox'[n] = r
      /\ \A m \in Notifications : m # n => outbox'[m] = outbox[m]
      /\ outbox' \in [Notifications -> OutboxStates]
  BY DEF ResolveNotification, OutboxStates
<1>2. /\ token' \in [Attempts -> {"none", "linked", "revoked", "consumed"}]
      /\ \A a \in Attempts : /\ token'[a] = "none" <=> token[a] = "none"
                             /\ token'[a] = "linked" => token[a] = "linked"
                             /\ r = "resolved_abandoned" /\ of[a] = n => token'[a] # "linked"
  BY DEF ResolveNotification, Revoked
<1>3. TypeOK'
  BY <1>1, <1>2
<1>4. (InOrder /\ OldestFirst)'
  BY <1>1, OrderKept DEF Queued, Used
<1>5. Evidence'
  BY <1>1, <1>2 DEF Evidence, Used
<1>6. \A m \in Notifications, i \in Indices : Accepted(m, i)' <=> Accepted(m, i)
  BY <1>1 DEF Accepted
<1>7. Chunked'
  BY <1>1, <1>6, ChunkedKept DEF Used
<1>8. OneEach'
  BY <1>1, OneEachKept DEF Unresolved
<1>9. Stages'
  <2> SUFFICES ASSUME NEW a \in Attempts
               PROVE  /\ attempt[a] = "prepared" => bound[a] /\ outbox'[of[a]] = "sending"
                      /\ attempt[a] = "possibly_sent" => outbox'[of[a]] = "sending"
                      /\ attempt[a] = "ambiguous" =>
                           outbox'[of[a]] \in {"ambiguous", "partial_manual_required",
                                               "resolved_delivered", "resolved_abandoned"}
                      /\ attempt[a] = "accepted" => outbox'[of[a]] # "canceled"
    BY <1>1 DEF Stages
  <2>1. CASE of[a] = n
    BY <1>1, <2>1 DEF Stages
  <2>2. CASE of[a] # n
    <3>1. outbox'[of[a]] = outbox[of[a]]
      BY <1>1, <2>2
    <3> QED BY <3>1 DEF Stages
  <2> QED BY <2>1, <2>2
<1>10. Whole'
  BY <1>1, <1>6, WholeKept
<1>11. Tokens'
  BY <1>1, <1>2 DEF Tokens, Buttoned, HasButtons
<1>12. DeadButtons'
  <2> SUFFICES ASSUME NEW a \in Attempts, token'[a] = "linked"
               PROVE  /\ attempt[a] \notin {"trusted_rejected", "abandoned_pre_marker"}
                      /\ outbox'[of[a]] \notin {"resolved_abandoned", "pending", "canceled"}
    BY <1>1 DEF DeadButtons
  <2>1. /\ attempt[a] \notin {"trusted_rejected", "abandoned_pre_marker"}
        /\ outbox[of[a]] \notin {"resolved_abandoned", "pending", "canceled"}
    BY <1>2 DEF DeadButtons
  <2>2. CASE of[a] = n
    BY <1>1, <1>2, <2>1, <2>2
  <2>3. CASE of[a] # n
    BY <1>1, <2>1, <2>3
  <2> QED BY <2>2, <2>3
<1>13. (Clicked /\ Decided)'
  BY <1>1, ClicksKept DEF Shown, Used, Buttoned, HasButtons
<1>14. PreparedPlace'
  BY <1>1 DEF PreparedPlace, DispatchHeld
<1>15. Position'
  <2>1. pc \in {"claimed", "composed"} => outbox'[cur] = outbox[cur]
    BY <1>1 DEF Position
  <2>2. \A m \in Notifications : outbox'[m] \in Queued => outbox[m] \in Queued
    BY <1>1 DEF Queued
  <2>3. Unknown(cur)' = Unknown(cur)
    BY <1>1 DEF Unknown
  <2>4. pc \in {"linking", "ready"} =>
          /\ Buttoned(try)' <=> Buttoned(try)
          /\ token'[try] = "none" <=> token[try] = "none"
    BY <1>1, <1>2 DEF Position, Buttoned, HasButtons
  <2>5. pc \in {"claimed", "composed"} => \A m \in 1..(cur - 1) : outbox'[m] \notin Queued
    BY <2>2, Ranges DEF Position
  <2> QED BY <1>1, <2>1, <2>3, <2>4, <2>5 DEF Position
<1> QED BY <1>3, <1>4, <1>5, <1>7, <1>8, <1>9, <1>10, <1>11, <1>12, <1>13, <1>14, <1>15

LEMMA NextInv == IInv /\ [Next]_vars => IInv'
<1> SUFFICES ASSUME IInv, [Next]_vars PROVE IInv'
  OBVIOUS
<1>1. CASE Next
  <2>1. CASE QuietStep
    BY <2>1, QuietInv
  <2>2. CASE Begin \/ StartDispatch
    BY <2>2, AcquireDispatchInv DEF Begin, StartDispatch
  <2>3. CASE SealNoonWindow \/ ResumeDue
    BY <2>3, SealOrResumeInv
  <2>4. CASE HandleUpdate
    BY <2>4, HandleUpdateInv
  <2>5. CASE ClaimNextNotification
    BY <2>5, ClaimInv
  <2>6. CASE RecoverPossiblySent
    BY <2>6, RecoverInv
  <2>7. CASE Compose
    BY <2>7, ComposeInv
  <2>8. CASE \E a \in Attempts : PrepareChunkAttempt(a)
    BY <2>8, PrepareInv
  <2>9. CASE LinkCallback
    BY <2>9, LinkInv
  <2>10. CASE GiveUp
    BY <2>10, GiveUpInv
  <2>11. CASE MarkPossiblySent
    BY <2>11, MarkInv
  <2>12. CASE Send
    <3>1. try \in Attempts
      BY <2>12 DEF IInv, Position, Send
    <3> QED BY <2>12, <3>1, WireInv
  <2>13. CASE SettleAccepted \/ SettleRejected \/ SettleAmbiguous
    BY <2>13, SettleInv
  <2>14. CASE ReleaseFailed
    BY <2>14, ReleaseFailedInv
  <2>15. CASE \E n \in Notifications : Enqueue(n)
    BY <2>15, EnqueueInv
  <2>16. CASE \E n \in Notifications : SubjectMoves(n)
    BY <2>16, SubjectMovesInv
  <2>17. CASE \E n \in Notifications : \E r \in {"resolved_delivered", "resolved_abandoned"} :
                ResolveNotification(n, r)
    BY <2>17, ResolveInv
  <2>18. CASE \E a \in Attempts : Deliver(a) \/ Refuse(a)
    BY <2>18, WireInv
  <2>19. CASE \E a \in Attempts : Click(a)
    BY <2>19, ClickInv
  <2> QED
    BY <1>1, <2>1, <2>2, <2>3, <2>4, <2>5, <2>6, <2>7, <2>8, <2>9, <2>10, <2>11, <2>12,
       <2>13, <2>14, <2>15, <2>16, <2>17, <2>18, <2>19
       DEF Next, TickStep, World, QuietStep
<1>2. CASE UNCHANGED vars
  <2> USE <1>2 DEF vars, IInv
  <2>1. Data'
    BY QuietData
  <2>2. (PreparedPlace /\ Position)'
    BY DEF PreparedPlace, Position, DispatchHeld, Buttoned, HasButtons, Unknown
  <2> QED BY <2>1, <2>2
<1> QED BY <1>1, <1>2

LEMMA Invariance == Spec => []IInv
  BY InitInv, NextInv, PTL DEF Spec

-----------------------------------------------------------------------------
(* What the invariant says *)

(* Every variable keeps the type of the column, lease row or local it      *)
(* stands for.                                                             *)
THEOREM TypeCorrect == Spec => []TypeOK
<1>1. IInv => TypeOK
  BY DEF IInv
<1> QED BY <1>1, Invariance, PTL

LEMMA LandedStates ==
  ASSUME IInv, NEW a \in Attempts, MayLand(a)
  PROVE  /\ attempt[a] \in {"possibly_sent", "ambiguous", "accepted"}
         /\ outbox[of[a]] \in {"pending", "claimed", "canceled"} => attempt[a] = "accepted"
         /\ outbox[of[a]] # "canceled"
<1>1. attempt[a] \in AttemptStates
  BY DEF IInv
<1>2. attempt[a] \in {"possibly_sent", "ambiguous", "accepted"}
  BY <1>1 DEF MayLand, IInv, Data, Evidence, Used, AttemptStates
<1> QED BY <1>2 DEF IInv, Data, Stages

(* Of all the attempts at a chunk at most one took effect or still may,    *)
(* whatever crashes, lapses, refusals and lost answers happen: what        *)
(* prepare_chunk_attempt, the marker and settle_attempt are for.           *)
THEOREM NobodyReceivesTwice == Spec => []EachChunkOnce
<1>1. IInv => EachChunkOnce
  <2> SUFFICES ASSUME IInv, NEW a \in Attempts, NEW b \in Attempts,
                      MayLand(a), MayLand(b), SameChunk(a, b)
               PROVE  a = b
    BY DEF EachChunkOnce
  <2>1. /\ attempt[a] \in {"possibly_sent", "ambiguous", "accepted"}
        /\ attempt[b] \in {"possibly_sent", "ambiguous", "accepted"}
    BY LandedStates
  <2>2. of[a] = of[b] /\ part[a] = part[b]
    BY DEF SameChunk
  <2> QED BY <2>1, <2>2 DEF IInv, Data, OneEach, Unresolved
<1> QED BY <1>1, Invariance, PTL

(* A chunk is requested only after next_chunk saw every earlier chunk      *)
(* delivered and acknowledged.                                             *)
THEOREM PrefixesOnly == Spec => []PrefixFirst
<1>1. IInv => PrefixFirst
  <2> SUFFICES ASSUME IInv, NEW a \in Attempts, MayLand(a), NEW i \in 1..(part[a] - 1)
               PROVE  \E b \in Attempts : /\ of[b] = of[a] /\ part[b] = i
                                          /\ attempt[b] = "accepted" /\ wire[b] = "delivered"
    BY DEF PrefixFirst
  <2>1. Used(a)
    BY LandedStates DEF Used
  <2>2. Accepted(of[a], i)
    BY <2>1 DEF IInv, Data, Chunked
  <2> QED BY <2>2 DEF Accepted, IInv, Data, Evidence
<1> QED BY <1>1, Invariance, PTL

(* settle_attempt calls a notification sent only when all its chunks were  *)
(* delivered, with their buttons linked.                                   *)
THEOREM SentMeansWhole == Spec => []SentIsWhole
<1>1. IInv => SentIsWhole
  <2> SUFFICES ASSUME IInv, NEW n \in Notifications, outbox[n] = "sent"
               PROVE  /\ chunks[n] > 0
                      /\ \A i \in 1..chunks[n] : \E a \in Attempts :
                           /\ of[a] = n /\ part[a] = i
                           /\ attempt[a] = "accepted" /\ wire[a] = "delivered"
                           /\ Buttoned(a) => token[a] # "none"
    BY DEF SentIsWhole
  <2>1. chunks[n] > 0 /\ \A i \in 1..chunks[n] : Accepted(n, i)
    BY DEF IInv, Data, Whole
  <2>2. \A a \in Attempts : attempt[a] = "accepted" =>
          wire[a] = "delivered" /\ (Buttoned(a) => token[a] # "none")
    BY DEF IInv, Data, Evidence, Tokens
  <2> QED BY <2>1, <2>2 DEF Accepted
<1> QED BY <1>1, Invariance, PTL

(* A notification that goes back to the queue, or is canceled, has no      *)
(* request of unknown effect.                                              *)
THEOREM RetriesAreSafe == Spec => []RetryIsSafe
<1>1. IInv => RetryIsSafe
  BY LandedStates DEF RetryIsSafe
<1> QED BY <1>1, Invariance, PTL

(* claim_next_notification never begins a notification before an older one *)
(* is finished.                                                            *)
THEOREM InOrderOfIds == Spec => []OldestFirst
<1>1. IInv => OldestFirst
  BY DEF IInv, Data
<1> QED BY <1>1, Invariance, PTL

(* Whatever ends a tick, a lease row stays in the table as long as an      *)
(* attempt is prepared under it, for acquire_lease or release_lease to     *)
(* find.                                                                   *)
THEOREM NoOrphanEscapes == Spec => []PreparedIsOwned
<1>1. IInv => PreparedIsOwned
  BY DEF PreparedIsOwned, IInv, Data, Stages, PreparedPlace
<1> QED BY <1>1, Invariance, PTL

(* The buttons of what was refused, given up or abandoned do nothing.      *)
THEOREM NoButtonOutlivesItsMessage == Spec => []DeadButtons
<1>1. IInv => DeadButtons
  BY DEF IInv, Data
<1> QED BY <1>1, Invariance, PTL

(* apply() takes a decision only from buttons under a whole message.       *)
THEOREM DecisionsAreInformed == Spec => []DecisionSawWholeMessage
<1>1. IInv => DecisionSawWholeMessage
  <2> SUFFICES ASSUME IInv, NEW n \in Notifications, decided[n] > 0
               PROVE  /\ chunks[n] > 0
                      /\ \A i \in 1..chunks[n] : \E a \in Attempts :
                           of[a] = n /\ part[a] = i /\ wire[a] = "delivered"
    BY DEF DecisionSawWholeMessage
  <2>1. PICK a \in Attempts : of[a] = n /\ Shown(a)
    BY DEF IInv, Data, Decided
  <2>2. Used(a) /\ wire[a] = "delivered" /\ part[a] = chunks[n]
    BY <2>1 DEF Shown, Buttoned, HasButtons
  <2>3. \A i \in 1..(part[a] - 1) : Accepted(n, i)
    BY <2>1, <2>2 DEF IInv, Data, Chunked
  <2>4. \A i \in 1..(part[a] - 1) : \E b \in Attempts :
          of[b] = n /\ part[b] = i /\ wire[b] = "delivered"
    BY <2>3 DEF Accepted, IInv, Data, Evidence
  <2>5. part[a] \in Nat \ {0}
    <3>1. part \in [Attempts -> 1..MaxChunks]
      BY DEF IInv
    <3>2. part[a] \in 1..MaxChunks
      BY <3>1
    <3> QED BY <3>2
  <2>6. chunks[n] > 0 /\ \A i \in 1..chunks[n] : i = part[a] \/ i \in 1..(part[a] - 1)
    BY <2>2, <2>5
  <2> QED BY <2>1, <2>2, <2>4, <2>6
<1> QED BY <1>1, Invariance, PTL

(* However often a click is delivered, its notification is decided once.   *)
THEOREM OneDecision == Spec => []DecidedOnce
<1>1. IInv => DecidedOnce
  <2> SUFFICES ASSUME IInv, NEW n \in Notifications PROVE decided[n] <= 1
    BY DEF DecidedOnce
  <2>1. decided[n] \in Nat /\ (decided[n] > 0 => decided[n] = 1)
    BY DEF IInv, Data, Decided
  <2> QED BY <2>1
<1> QED BY <1>1, Invariance, PTL

-----------------------------------------------------------------------------
(* The outbox implements AppendOnce *)

LEMMA ChunkIs ==
  ASSUME TypeOK, NEW a \in Attempts
  PROVE  /\ Chunk(a) \in Chunks
         /\ \A c \in Chunks : a \in At(c) <=> Used(a) /\ c = Chunk(a)
<1>1. of[a] \in Notifications /\ part[a] \in Indices
  OBVIOUS
<1>2. \A c \in Chunks : a \in At(c) <=> Used(a) /\ of[a] = c[1] /\ part[a] = c[2]
  BY DEF At, Used
<1>3. \A c \in Chunks : c = Chunk(a) <=> of[a] = c[1] /\ part[a] = c[2]
  BY ChunkOf
<1>4. Chunk(a) \in Chunks
  BY <1>1 DEF Chunk, Chunks
<1> QED BY <1>2, <1>3, <1>4

(* A step that moves no request, and decides no attempt, is a step of      *)
(* nothing.                                                                *)
LEMMA Unseen ==
  ASSUME \A a \in Attempts :
           /\ attempt'[a] = "accepted" <=> attempt[a] = "accepted"
           /\ attempt'[a] = "ambiguous" <=> attempt[a] = "ambiguous"
           /\ wire'[a] = wire[a]
           /\ Used(a) => /\ attempt'[a] # "unused"
                         /\ of'[a] = of[a] /\ part'[a] = part[a]
           /\ ~Used(a) => wire[a] = "none"
  PROVE  UNCHANGED Abstract!vars
<1>1. Outstanding' = Outstanding
  <2>1. \A c \in Chunks : {a \in At(c)' : wire'[a] = "inflight"}
                         = {a \in At(c) : wire[a] = "inflight"}
    BY DEF At, Used
  <2> QED BY <2>1 DEF Outstanding
<1>2. Landed' = Landed
  <2>1. \A c \in Chunks : {a \in At(c)' : wire'[a] = "delivered"}
                         = {a \in At(c) : wire[a] = "delivered"}
    BY DEF At, Used
  <2> QED BY <2>1 DEF Landed
<1>3. Verdict' = Verdict
  <2>1. \A c \in Chunks :
          /\ (\E a \in At(c)' : attempt'[a] = "accepted")
               <=> (\E a \in At(c) : attempt[a] = "accepted")
          /\ (\E a \in At(c)' : attempt'[a] = "ambiguous")
               <=> (\E a \in At(c) : attempt[a] = "ambiguous")
    BY DEF At, Used
  <2> QED BY <2>1 DEF Verdict
<1> QED BY <1>1, <1>2, <1>3 DEF Abstract!vars

(* While an attempt is unresolved its chunk has no verdict, and no other   *)
(* attempt at it has a request that landed or may.                         *)
LEMMA Alone ==
  ASSUME IInv, NEW t \in Attempts, attempt[t] = "possibly_sent"
  PROVE  /\ Chunk(t) \in Chunks /\ t \in At(Chunk(t))
         /\ Verdict[Chunk(t)] = "open"
         /\ \A a \in At(Chunk(t)) : wire[a] \in {"inflight", "delivered"} => a = t
<1>1. Chunk(t) \in Chunks /\ t \in At(Chunk(t))
  BY ChunkIs DEF IInv, Used
<1>2. ASSUME NEW a \in At(Chunk(t)) PROVE a \in Attempts /\ of[a] = of[t] /\ part[a] = part[t]
  BY DEF At, Chunk
<1>3. \A a \in At(Chunk(t)) : attempt[a] \notin {"accepted", "ambiguous"}
  BY <1>2 DEF IInv, Data, OneEach, Unresolved
<1>4. Verdict[Chunk(t)] = "open"
  BY <1>1, <1>3 DEF Verdict
<1>5. ASSUME NEW a \in At(Chunk(t)), wire[a] \in {"inflight", "delivered"} PROVE a = t
  <2>1. a \in Attempts /\ MayLand(a) /\ of[a] = of[t]
    BY <1>2, <1>5 DEF MayLand
  <2>2. attempt[a] \in {"possibly_sent", "ambiguous", "accepted"}
    BY <2>1, LandedStates
  <2>3. Unresolved(a) /\ Unresolved(t)
    BY <1>3, <2>2 DEF Unresolved
  <2> QED BY <2>1, <2>3 DEF IInv, Data, OneEach
<1> QED BY <1>1, <1>4, <1>5

(* A request that is on its way or arrived is the only such one of its     *)
(* chunk.                                                                  *)
LEMMA OneRequest ==
  ASSUME IInv, NEW t \in Attempts, wire[t] \in {"inflight", "delivered"}
  PROVE  /\ Chunk(t) \in Chunks /\ t \in At(Chunk(t))
         /\ \A a \in At(Chunk(t)) : wire[a] \in {"inflight", "delivered"} => a = t
<1>1. Used(t)
  BY DEF IInv, Data, Evidence
<1>2. Chunk(t) \in Chunks /\ t \in At(Chunk(t))
  BY <1>1, ChunkIs DEF IInv
<1>3. ASSUME NEW a \in At(Chunk(t)), wire[a] \in {"inflight", "delivered"} PROVE a = t
  <2>1. a \in Attempts /\ of[a] = of[t] /\ part[a] = part[t]
    BY DEF At, Chunk
  <2>2. /\ attempt[a] \in {"possibly_sent", "ambiguous", "accepted"}
        /\ attempt[t] \in {"possibly_sent", "ambiguous", "accepted"}
    BY <1>3, <2>1, LandedStates DEF MayLand
  <2> QED BY <2>1, <2>2 DEF IInv, Data, OneEach, Unresolved
<1> QED BY <1>2, <1>3

(* Two chunks share no attempt. *)
LEMMA Elsewhere ==
  ASSUME TypeOK, NEW t \in Attempts, NEW c \in Chunks, c # Chunk(t)
  PROVE  t \notin At(c)
BY ChunkIs

LEMMA SendRefines == ASSUME IInv, Send PROVE [Abstract!Next]_(Abstract!vars)
<1>1. try \in Attempts /\ attempt[try] = "possibly_sent" /\ wire[try] = "none"
  BY DEF Send, IInv, Position
<1>2. wire' = [wire EXCEPT ![try] = "inflight"] /\ UNCHANGED <<attempt, of, part>>
  BY DEF Send
<1> DEFINE c == Chunk(try)
<1>3. /\ c \in Chunks /\ try \in At(c)
      /\ \A a \in At(c) : wire[a] \notin {"inflight", "delivered"}
  BY <1>1, Alone
<1>4. \A d : At(d)' = At(d)
  BY <1>2 DEF At
<1>5. \A a \in Attempts : wire'[a] = IF a = try THEN "inflight" ELSE wire[a]
  BY <1>2 DEF IInv
<1>6. \A d \in Chunks : At(d) \subseteq Attempts
  BY DEF At
<1>7. \A d \in Chunks : d # c => try \notin At(d)
  BY <1>1, Elsewhere DEF IInv
<1> HIDE DEF c
<1>8. Verdict' = Verdict
  BY <1>2, <1>4 DEF Verdict
<1>9. Landed' = Landed /\ Landed[c] = 0
  <2>1. \A d \in Chunks : {a \in At(d) : wire'[a] = "delivered"}
                         = {a \in At(d) : wire[a] = "delivered"}
    BY <1>1, <1>5, <1>6
  <2>2. {a \in At(c) : wire[a] = "delivered"} = {}
    BY <1>3
  <2> QED BY <1>3, <1>4, <2>1, <2>2, FS_EmptySet DEF Landed
<1>10. Outstanding[c] = {} /\ Outstanding' = [Outstanding EXCEPT ![c] = {try}]
  <2>1. \A d \in Chunks : d # c => {a \in At(d) : wire'[a] = "inflight"}
                                 = {a \in At(d) : wire[a] = "inflight"}
    BY <1>5, <1>6, <1>7
  <2>2. {a \in At(c) : wire'[a] = "inflight"} = {try}
    BY <1>3, <1>5, <1>6
  <2>3. {a \in At(c) : wire[a] = "inflight"} = {}
    BY <1>3
  <2> QED BY <1>3, <1>4, <2>1, <2>2, <2>3 DEF Outstanding
<1>11. Abstract!Request(c, try)
  BY <1>8, <1>9, <1>10 DEF Abstract!Request
<1> QED BY <1>1, <1>3, <1>11 DEF Abstract!Next

LEMMA DeliverRefines ==
  ASSUME IInv, NEW t \in Attempts, Deliver(t) PROVE [Abstract!Next]_(Abstract!vars)
<1>1. wire[t] = "inflight"
  BY DEF Deliver
<1>2. wire' = [wire EXCEPT ![t] = "delivered"] /\ UNCHANGED <<attempt, of, part>>
  BY DEF Deliver
<1> DEFINE c == Chunk(t)
<1>3. /\ c \in Chunks /\ t \in At(c)
      /\ \A a \in At(c) : wire[a] \in {"inflight", "delivered"} => a = t
  BY <1>1, OneRequest
<1>4. \A d : At(d)' = At(d)
  BY <1>2 DEF At
<1>5. \A a \in Attempts : wire'[a] = IF a = t THEN "delivered" ELSE wire[a]
  BY <1>2 DEF IInv
<1>6. \A d \in Chunks : At(d) \subseteq Attempts
  BY DEF At
<1>7. \A d \in Chunks : d # c => t \notin At(d)
  BY Elsewhere DEF IInv
<1> HIDE DEF c
<1>8. Verdict' = Verdict
  BY <1>2, <1>4 DEF Verdict
<1>9. Landed' = [Landed EXCEPT ![c] = @ + 1]
  <2>1. \A d \in Chunks : d # c => {a \in At(d) : wire'[a] = "delivered"}
                                 = {a \in At(d) : wire[a] = "delivered"}
    BY <1>5, <1>6, <1>7
  <2>2. {a \in At(c) : wire[a] = "delivered"} = {}
    BY <1>1, <1>3
  <2>3. {a \in At(c) : wire'[a] = "delivered"} = {t}
    BY <1>3, <1>5, <1>6
  <2>4. Landed[c] = 0 /\ Cardinality({t}) = 1
    BY <1>3, <2>2, FS_EmptySet, FS_Singleton DEF Landed
  <2>5. \A d \in Chunks : Landed'[d] = IF d = c THEN Landed[c] + 1 ELSE Landed[d]
    BY <1>4, <2>1, <2>3, <2>4 DEF Landed
  <2>6. DOMAIN Landed' = Chunks /\ DOMAIN Landed = Chunks
        /\ Landed' = [d \in Chunks |-> Landed'[d]]
    BY DEF Landed
  <2> HIDE DEF Landed
  <2> QED BY <1>3, <2>5, <2>6
<1>10. t \in Outstanding[c] /\ Outstanding' = [Outstanding EXCEPT ![c] = @ \ {t}]
  <2>1. \A d \in Chunks : d # c => {a \in At(d) : wire'[a] = "inflight"}
                                 = {a \in At(d) : wire[a] = "inflight"}
    BY <1>5, <1>6, <1>7
  <2>2. {a \in At(c) : wire'[a] = "inflight"}
          = {a \in At(c) : wire[a] = "inflight"} \ {t}
    BY <1>3, <1>5, <1>6
  <2> QED BY <1>1, <1>3, <1>4, <2>1, <2>2 DEF Outstanding
<1>11. Abstract!Land(c, t)
  BY <1>8, <1>9, <1>10 DEF Abstract!Land
<1> QED BY <1>3, <1>11 DEF Abstract!Next

LEMMA RefuseRefines ==
  ASSUME IInv, NEW t \in Attempts, Refuse(t) PROVE [Abstract!Next]_(Abstract!vars)
<1>1. wire[t] = "inflight"
  BY DEF Refuse
<1>2. wire' = [wire EXCEPT ![t] = "refused"] /\ UNCHANGED <<attempt, of, part>>
  BY DEF Refuse
<1> DEFINE c == Chunk(t)
<1>3. c \in Chunks /\ t \in At(c)
  BY <1>1, OneRequest
<1>4. \A d : At(d)' = At(d)
  BY <1>2 DEF At
<1>5. \A a \in Attempts : wire'[a] = IF a = t THEN "refused" ELSE wire[a]
  BY <1>2 DEF IInv
<1>6. \A d \in Chunks : At(d) \subseteq Attempts
  BY DEF At
<1>7. \A d \in Chunks : d # c => t \notin At(d)
  BY Elsewhere DEF IInv
<1> HIDE DEF c
<1>8. Verdict' = Verdict
  BY <1>2, <1>4 DEF Verdict
<1>9. Landed' = Landed
  <2>1. \A d \in Chunks : {a \in At(d) : wire'[a] = "delivered"}
                         = {a \in At(d) : wire[a] = "delivered"}
    BY <1>1, <1>5, <1>6
  <2> QED BY <1>4, <2>1 DEF Landed
<1>10. t \in Outstanding[c] /\ Outstanding' = [Outstanding EXCEPT ![c] = @ \ {t}]
  <2>1. \A d \in Chunks : d # c => {a \in At(d) : wire'[a] = "inflight"}
                                 = {a \in At(d) : wire[a] = "inflight"}
    BY <1>5, <1>6, <1>7
  <2>2. {a \in At(c) : wire'[a] = "inflight"}
          = {a \in At(c) : wire[a] = "inflight"} \ {t}
    BY <1>3, <1>5, <1>6
  <2> QED BY <1>1, <1>3, <1>4, <2>1, <2>2 DEF Outstanding
<1>11. Abstract!Refuse(c, t)
  BY <1>8, <1>9, <1>10 DEF Abstract!Refuse
<1> QED BY <1>3, <1>11 DEF Abstract!Next

(* A settled attempt gives its chunk the verdict it had not.               *)
LEMMA SettleRefines ==
  ASSUME IInv, NEW t \in Attempts, attempt[t] = "possibly_sent",
         NEW word \in {"accepted", "ambiguous"},
         word = "accepted" => wire[t] = "delivered",
         attempt' = [attempt EXCEPT ![t] = word], UNCHANGED <<of, part, wire>>
  PROVE  [Abstract!Next]_(Abstract!vars)
<1> DEFINE c == Chunk(t)
           verdict == IF word = "accepted" THEN "delivered" ELSE "blocked"
<1>1. /\ c \in Chunks /\ t \in At(c) /\ Verdict[c] = "open"
      /\ \A a \in At(c) : wire[a] \in {"inflight", "delivered"} => a = t
  BY Alone
<1>2. \A a \in Attempts : attempt'[a] = IF a = t THEN word ELSE attempt[a]
  BY DEF IInv
<1>3. \A d \in Chunks : At(d)' = At(d) /\ At(d) \subseteq Attempts
  BY <1>2 DEF At
<1>4. \A d \in Chunks : d # c => t \notin At(d)
  BY Elsewhere DEF IInv
<1>5. \A a \in At(c) : attempt[a] \notin {"accepted", "ambiguous"}
  BY <1>1 DEF Verdict
<1> HIDE DEF c
<1>6. Outstanding' = Outstanding /\ Landed' = Landed
  BY <1>3 DEF Outstanding, Landed
<1>7. Verdict' = [Verdict EXCEPT ![c] = verdict]
  <2>1. \A d \in Chunks : d # c =>
          \A w : (\E a \in At(d) : attempt'[a] = w) <=> (\E a \in At(d) : attempt[a] = w)
    BY <1>2, <1>3, <1>4
  <2>2. /\ word = "accepted" => \E a \in At(c) : attempt'[a] = "accepted"
        /\ word = "ambiguous" => /\ \E a \in At(c) : attempt'[a] = "ambiguous"
                                 /\ ~\E a \in At(c) : attempt'[a] = "accepted"
    BY <1>1, <1>2, <1>3, <1>5
  <2>3. \A d \in Chunks : d # c => Verdict'[d] = Verdict[d]
    BY <1>3, <2>1 DEF Verdict
  <2>4. Verdict'[c] = verdict
    BY <1>1, <1>3, <2>2 DEF Verdict
  <2>5. DOMAIN Verdict = Chunks /\ Verdict' = [d \in Chunks |-> Verdict'[d]]
    BY DEF Verdict
  <2> HIDE DEF verdict, Verdict
  <2> QED BY <1>1, <2>3, <2>4, <2>5
<1>8. CASE word = "accepted"
  <2>1. {a \in At(c) : wire[a] = "delivered"} = {t}
    BY <1>1, <1>8
  <2>2. Landed[c] = 1
    BY <1>1, <2>1, FS_Singleton DEF Landed
  <2>3. Abstract!Deliver(c)
    BY <1>1, <1>6, <1>7, <1>8, <2>2 DEF Abstract!Deliver
  <2> QED BY <1>1, <2>3 DEF Abstract!Next
<1>9. CASE word = "ambiguous"
  <2>1. Abstract!Block(c)
    BY <1>1, <1>6, <1>7, <1>9 DEF Abstract!Block
  <2> QED BY <1>1, <2>1 DEF Abstract!Next
<1> QED BY <1>8, <1>9

(* Attempts are given up before their marker only.                         *)
LEMMA AbandonUnseen ==
  ASSUME IInv, NEW S \in SUBSET Attempts, \A a \in S : attempt[a] = "prepared", Abandon(S)
  PROVE  UNCHANGED Abstract!vars
<1>1. \A a \in Attempts :
        attempt'[a] = IF a \in S THEN "abandoned_pre_marker" ELSE attempt[a]
  BY DEF Abandon
<1>2. UNCHANGED <<of, part, wire>>
  BY DEF Abandon
<1> QED BY <1>1, <1>2, Unseen DEF Used, IInv, Data, Evidence

LEMMA OrphansArePrepared ==
  ASSUME TypeOK
  PROVE  /\ Orphans \in SUBSET Attempts
         /\ \A a \in Orphans : attempt[a] = "prepared"
BY DEF Orphans

LEMMA PrepareUnseen ==
  ASSUME IInv, NEW t \in Attempts, PrepareChunkAttempt(t) PROVE UNCHANGED Abstract!vars
<1>1. PICK i \in Indices : part' = [part EXCEPT ![t] = i]
  BY DEF PrepareChunkAttempt
<1>2. /\ attempt[t] = "unused" /\ of' = [of EXCEPT ![t] = cur]
      /\ attempt' = [attempt EXCEPT ![t] = "prepared"] /\ wire' = wire
  BY DEF PrepareChunkAttempt
<1>3. \A a \in Attempts : /\ attempt'[a] = IF a = t THEN "prepared" ELSE attempt[a]
                          /\ a # t => of'[a] = of[a] /\ part'[a] = part[a]
  BY <1>1, <1>2 DEF IInv
<1> QED BY <1>2, <1>3, Unseen DEF Used, IInv, Data, Evidence

(* The marker, and a refusal that is settled, decide nothing yet.          *)
LEMMA AttemptUnseen ==
  ASSUME IInv, NEW t \in Attempts, attempt[t] \in {"prepared", "possibly_sent"},
         NEW word \in {"possibly_sent", "trusted_rejected"},
         attempt' = [attempt EXCEPT ![t] = word], UNCHANGED <<of, part, wire>>
  PROVE  UNCHANGED Abstract!vars
<1>1. \A a \in Attempts : attempt'[a] = IF a = t THEN word ELSE attempt[a]
  BY DEF IInv
<1> QED BY <1>1, Unseen DEF Used, IInv, Data, Evidence

LEMMA TablesRest ==
  ASSUME UNCHANGED <<attempt, of, part, wire>> PROVE UNCHANGED Abstract!vars
BY DEF Abstract!vars, Verdict, Outstanding, Landed, At

(* Every step of the outbox is a step of AppendOnce, chunk by chunk, or    *)
(* changes nothing it can see: request when the marker's message leaves,   *)
(* landing and refusal at Telegram, delivery when the answer is settled,   *)
(* and a block when nobody knows.                                          *)
THEOREM Refinement == Spec => ImplementsAppendOnce
<1>1. Init => Abstract!Init
  <2> SUFFICES ASSUME Init PROVE Abstract!Init
    OBVIOUS
  <2>1. \A c \in Chunks : At(c) = {}
    BY DEF Init, At
  <2>2. \A c \in Chunks : /\ {a \in At(c) : wire[a] = "delivered"} = {}
                          /\ {a \in At(c) : wire[a] = "inflight"} = {}
    BY <2>1
  <2>3. Verdict = [c \in Chunks |-> "open"]
    BY <2>1 DEF Verdict
  <2>4. Outstanding = [c \in Chunks |-> {}] /\ Landed = [c \in Chunks |-> 0]
    BY <2>2, FS_EmptySet DEF Outstanding, Landed
  <2> QED BY <2>3, <2>4 DEF Abstract!Init
<1>2. IInv /\ [Next]_vars => [Abstract!Next]_(Abstract!vars)
  <2> SUFFICES ASSUME IInv, [Next]_vars PROVE [Abstract!Next]_(Abstract!vars)
    OBVIOUS
  <2>1. CASE UNCHANGED vars
    BY <2>1, TablesRest DEF vars
  <2>2. CASE QuietStep
    <3>1. Quiet
      BY <2>2 DEF Quiet, QuietStep, SealFails, ReleaseAdmission, AcquirePoll, GetUpdates,
         PollFails, AdvanceOffset, ReleasePoll, NoWork, ComposeRaises, SendNothing,
         HearAnswer, LeaseLost, TransactionFails, ReleaseDone, DispatchRunsOut,
         PollRunsOut, LapsesEarly, Crash
    <3> QED BY <3>1, TablesRest DEF Quiet
  <2>3. CASE SealNoonWindow \/ ResumeDue \/ HandleUpdate \/ ClaimNextNotification
             \/ Compose \/ LinkCallback
    BY <2>3, TablesRest DEF SealNoonWindow, ResumeDue, HandleUpdate,
       ClaimNextNotification, Compose, LinkCallback
  <2>4. CASE (\E n \in Notifications : \/ Enqueue(n) \/ SubjectMoves(n)
                                        \/ \E r \in {"resolved_delivered", "resolved_abandoned"} :
                                             ResolveNotification(n, r))
             \/ \E a \in Attempts : Click(a)
    BY <2>4, TablesRest DEF Enqueue, SubjectMoves, ResolveNotification, Click
  <2>5. CASE Begin \/ StartDispatch
    <3>1. Abandon(IF dispatch = "lapsed" THEN Orphans ELSE {})
      BY <2>5 DEF Begin, StartDispatch, AcquireDispatch
    <3>2. /\ (IF dispatch = "lapsed" THEN Orphans ELSE {}) \in SUBSET Attempts
          /\ \A a \in IF dispatch = "lapsed" THEN Orphans ELSE {} : attempt[a] = "prepared"
      BY OrphansArePrepared DEF IInv
    <3> QED BY <3>1, <3>2, AbandonUnseen
  <2>6. CASE ReleaseFailed
    BY <2>6, OrphansArePrepared, AbandonUnseen DEF ReleaseFailed, IInv
  <2>7. CASE GiveUp
    <3>1. try \in Attempts /\ attempt[try] = "prepared"
      BY <2>7 DEF GiveUp, IInv, Position
    <3> QED BY <2>7, <3>1, AbandonUnseen DEF GiveUp
  <2>8. CASE \E a \in Attempts : PrepareChunkAttempt(a)
    BY <2>8, PrepareUnseen
  <2>9. CASE MarkPossiblySent
    BY <2>9, AttemptUnseen DEF MarkPossiblySent, IInv, Position
  <2>10. CASE SettleRejected
    BY <2>10, AttemptUnseen DEF SettleRejected, IInv, Position, Answers
  <2>11. CASE Send
    BY <2>11, SendRefines
  <2>12. CASE \E a \in Attempts : Deliver(a) \/ Refuse(a)
    BY <2>12, DeliverRefines, RefuseRefines
  <2>13. CASE SettleAccepted \/ SettleAmbiguous
    BY <2>13, SettleRefines DEF SettleAccepted, SettleAmbiguous, IInv, Position, Answers
  <2>14. CASE RecoverPossiblySent
    <3>1. PICK a \in Unknown(cur) : attempt' = [attempt EXCEPT ![a] = "ambiguous"]
      BY <2>14 DEF RecoverPossiblySent
    <3>2. a \in Attempts /\ attempt[a] = "possibly_sent" /\ UNCHANGED <<of, part, wire>>
      BY <2>14 DEF Unknown, RecoverPossiblySent
    <3> QED BY <3>1, <3>2, SettleRefines
  <2> QED
    BY <2>1, <2>2, <2>3, <2>4, <2>5, <2>6, <2>7, <2>8, <2>9, <2>10, <2>11, <2>12, <2>13,
       <2>14 DEF Next, TickStep, World, QuietStep
<1> QED BY <1>1, <1>2, Invariance, PTL DEF Spec, ImplementsAppendOnce, Abstract!Spec
=============================================================================
