---------------------------- MODULE SheetHandoff ----------------------------
(***************************************************************************)
(* The Sheets handoff authority (src/newsbot/handoffs.py), the processes   *)
(* that drive it (cli.py: sheets bootstrap, sheets deliver, sheets         *)
(* reconcile, sheets retry-blocked), the requests they leave on the        *)
(* network and the one `workplace' spreadsheet.                            *)
(*                                                                         *)
(* Every service call is one SQLite transaction and one action.  Reading   *)
(* the spreadsheet, sending the mutation, hearing the answer and recording *)
(* what it means are separate actions, so that a crash, a lapsed lease, an *)
(* operator or another process may come between any two of them.           *)
(***************************************************************************)
EXTENDS Naturals

CONSTANTS
  Handoffs,     \* approved contents to append to the sheet, one row each
  Bootstrap,    \* the subject that installs the sheet's controls
  OpIds,        \* rows of sheet_remote_operations; finite: a bound for TLC
  NoOp,         \* "no operation"
  Mutator,      \* the one process that holds the `sheets' flock
  Reconcilers,  \* `sheets reconcile' processes, which take no lock
  MaxFence      \* a bound on probe takeovers

ASSUME NamesDistinct ==
  /\ Bootstrap \notin Handoffs
  /\ NoOp \notin OpIds
  /\ Mutator \notin Reconcilers
ASSUME MaxFenceIsNat == MaxFence \in Nat

Subjects == Handoffs \cup {Bootstrap}
Procs    == Reconcilers \cup {Mutator}

VARIABLES
  \* sheet_handoffs and sheet_bootstraps
  status,      \* status; "working" is delivering or configuring, and
               \* "delivered" is delivered or ready
  due,         \* retry_at has come
  code,        \* safe_error_code
  \* sheet_remote_operations and the lease and events of the current fence
  subject,     \* what the operation is for
  state,       \* its status
  certainty,   \* its certainty
  dispatched,  \* dispatch_at is set: the request was marked as sent
  fence,       \* last_fence_version; fence 1 mutates, higher ones probe
  lease,       \* status of that fence's lease; lapsed: active, past expires_at
  preflight,   \* the preflight event of fence 1
  probe,       \* the probe recorded under the current fence
  \* the processes' memory
  pc, held, token, seen,   \* position, operation, fence held, what was read
  \* the world
  wire,        \* the mutation request of each operation
  rows,        \* how often each subject's mutation was applied to the sheet
  drifted,     \* a person changed the template: it no longer validates
  tampered     \* handoffs whose marker in the sheet is not the exact one

subjVars  == <<status, due, code>>
opVars    == <<subject, state, certainty, dispatched, fence, lease, preflight,
               probe>>
procVars  == <<pc, held, token, seen>>
sheetVars == <<rows, drifted, tampered>>
vars      == <<subjVars, opVars, procVars, wire, sheetVars>>

-----------------------------------------------------------------------------

Statuses == {"none", "pending", "uninitialized", "working", "ambiguous",
             "retryable", "blocked", "delivered"}
Codes == {"none", "remote_refusal", "abandoned_pre_marker",
          "duplicate_metadata", "conflicting_metadata", "schema_conflict"}
OpStates == {"unused", "acquired", "possibly_sent", "applied", "blocked",
             "rejected_retryable", "rejected_blocked", "abandoned_pre_marker"}
Certainties == {"not_dispatched", "possibly_sent", "settled_applied",
                "settled_not_applied"}
Observations == {"none", "exact", "absent", "duplicate", "conflict",
                 "unavailable"}
PCs == {"idle", "acquired", "observed", "preflighted", "marked", "sent",
        "confirmed", "refused", "unknown", "chosen", "probing", "evidence",
        "settle"}

TypeOK ==
  /\ status \in [Subjects -> Statuses]
  /\ due \in [Subjects -> BOOLEAN]
  /\ code \in [Subjects -> Codes]
  /\ subject \in [OpIds -> Subjects]
  /\ state \in [OpIds -> OpStates]
  /\ certainty \in [OpIds -> Certainties]
  /\ dispatched \in [OpIds -> BOOLEAN]
  /\ fence \in [OpIds -> Nat]
  /\ lease \in [OpIds -> {"active", "lapsed", "released", "expired"}]
  /\ preflight \in [OpIds -> Observations]
  /\ probe \in [OpIds -> Observations]
  /\ pc \in [Procs -> PCs]
  /\ held \in [Procs -> OpIds \cup {NoOp}]
  /\ token \in [Procs -> Nat]
  /\ seen \in [Procs -> Observations]
  /\ wire \in [OpIds -> {"none", "inflight", "applied", "refused"}]
  /\ rows \in [Subjects -> Nat]
  /\ drifted \in BOOLEAN
  /\ tampered \subseteq Handoffs

(* The log starts empty, on a sheet that is either bare or was bootstrapped *)
(* by operations that ended before it.                                      *)
Init ==
  /\ \E installed \in BOOLEAN :
       /\ rows = [s \in Subjects |-> IF s = Bootstrap /\ installed THEN 1 ELSE 0]
       /\ status = [s \in Subjects |-> IF s # Bootstrap THEN "none"
                                       ELSE IF installed THEN "delivered"
                                       ELSE "uninitialized"]
  /\ due = [s \in Subjects |-> FALSE]
  /\ code = [s \in Subjects |-> "none"]
  /\ subject = [o \in OpIds |-> Bootstrap]
  /\ state = [o \in OpIds |-> "unused"]
  /\ certainty = [o \in OpIds |-> "not_dispatched"]
  /\ dispatched = [o \in OpIds |-> FALSE]
  /\ fence = [o \in OpIds |-> 0]
  /\ lease = [o \in OpIds |-> "released"]
  /\ preflight = [o \in OpIds |-> "none"]
  /\ probe = [o \in OpIds |-> "none"]
  /\ pc = [p \in Procs |-> "idle"]
  /\ held = [p \in Procs |-> NoOp]
  /\ token = [p \in Procs |-> 0]
  /\ seen = [p \in Procs |-> "none"]
  /\ wire = [o \in OpIds |-> "none"]
  /\ drifted = FALSE
  /\ tampered = {}

-----------------------------------------------------------------------------
(* Shared conditions and effects *)

InFlight    == {"working", "ambiguous"}
Correctable == {"remote_refusal", "schema_conflict"}

Unfinished(o) == state[o] \in {"acquired", "possibly_sent"}
Held(o)       == lease[o] \in {"active", "lapsed"}

(* A slip: the lease's fence is not compared. *)
OwnsAnyFence(p) == Held(held[p])

(* _owns: the lease of the fence the process holds is still active in the  *)
(* table, whether or not its time is up.                                   *)
Owns(p) == Held(held[p]) /\ fence[held[p]] = token[p]

Goto(p, where, what) ==
  /\ pc' = [pc EXCEPT ![p] = where]
  /\ seen' = [seen EXCEPT ![p] = what]
  /\ UNCHANGED <<held, token>>

Exit(p) ==
  /\ pc' = [pc EXCEPT ![p] = "idle"]
  /\ held' = [held EXCEPT ![p] = NoOp]
  /\ token' = [token EXCEPT ![p] = 0]
  /\ seen' = [seen EXCEPT ![p] = "none"]

SetSubject(s, to, isDue, why) ==
  /\ status' = [status EXCEPT ![s] = to]
  /\ due' = [due EXCEPT ![s] = isDue]
  /\ code' = [code EXCEPT ![s] = why]

(* A terminal status, its certainty and the release of the lease. *)
CloseOperation(o, to, sure) ==
  /\ state' = [state EXCEPT ![o] = to]
  /\ certainty' = [certainty EXCEPT ![o] = sure]
  /\ lease' = [lease EXCEPT ![o] = "released"]
  /\ UNCHANGED <<subject, dispatched, fence, preflight, probe>>

-----------------------------------------------------------------------------
(* The first transactions: enqueueing, recovery and acquisition *)

(* The transaction of the final approval inserts its handoff. *)
Enqueue(h) ==
  /\ status[h] = "none"
  /\ status' = [status EXCEPT ![h] = "pending"]
  /\ UNCHANGED <<due, code, opVars, procVars, wire, sheetVars>>

(* Slips: requests that may have been sent are recovered as well; only     *)
(* leases that were given back are looked for.                             *)
StaleOrSent    == {o \in OpIds : Unfinished(o) /\ lease[o] = "lapsed"}
StaleGivenBack == {o \in OpIds : state[o] = "acquired" /\ lease[o] = "released"}

(* Operations acquired, never marked as sent, whose mutate lease lapsed,   *)
(* and what _recover_expired_pre_marker makes of the tables.               *)
Stale == {o \in OpIds : state[o] = "acquired" /\ lease[o] = "lapsed"}
StaleSubjects == {s \in Subjects : \E o \in Stale : subject[o] = s}

RecoveredState ==
  [o \in OpIds |-> IF o \in Stale THEN "abandoned_pre_marker" ELSE state[o]]
RecoveredLease ==
  [o \in OpIds |-> IF o \in Stale THEN "expired" ELSE lease[o]]
RecoveredStatus ==
  [s \in Subjects |-> IF s \in StaleSubjects THEN "retryable" ELSE status[s]]
RecoveredDue ==
  [s \in Subjects |-> IF s \in StaleSubjects THEN TRUE ELSE due[s]]
RecoveredCode ==
  [s \in Subjects |-> IF s \in StaleSubjects THEN "abandoned_pre_marker"
                                             ELSE code[s]]

RecoverStale ==
  /\ state' = RecoveredState /\ lease' = RecoveredLease
  /\ status' = RecoveredStatus /\ due' = RecoveredDue /\ code' = RecoveredCode
  /\ UNCHANGED <<subject, certainty, dispatched, fence, preflight, probe>>

(* recover_expired_pre_marker, alone or in an acquire_initial that goes on *)
(* to refuse.                                                              *)
Recover ==
  /\ pc[Mutator] = "idle"
  /\ Stale # {}
  /\ RecoverStale
  /\ UNCHANGED <<procVars, wire, sheetVars>>

Acquirable(s) == \/ RecoveredStatus[s] \in {"pending", "uninitialized"}
                 \/ RecoveredStatus[s] = "retryable" /\ RecoveredDue[s]

NoneOpen ==
  \A o \in OpIds : RecoveredState[o] \notin {"acquired", "possibly_sent"}

(* acquire_initial: recovery, then a new operation under fence 1. *)
Acquire(s, o) ==
  /\ pc[Mutator] = "idle"
  /\ Acquirable(s)
  /\ NoneOpen
  /\ state[o] = "unused"
  /\ subject' = [subject EXCEPT ![o] = s]
  /\ state' = [RecoveredState EXCEPT ![o] = "acquired"]
  /\ lease' = [RecoveredLease EXCEPT ![o] = "active"]
  /\ fence' = [fence EXCEPT ![o] = 1]
  /\ status' = [RecoveredStatus EXCEPT ![s] = "working"]
  /\ due' = [RecoveredDue EXCEPT ![s] = FALSE]
  /\ code' = [RecoveredCode EXCEPT ![s] = "none"]
  /\ pc' = [pc EXCEPT ![Mutator] = "acquired"]
  /\ held' = [held EXCEPT ![Mutator] = o]
  /\ token' = [token EXCEPT ![Mutator] = 1]
  /\ UNCHANGED <<certainty, dispatched, preflight, probe, seen, wire, sheetVars>>

-----------------------------------------------------------------------------
(* What a read of the document shows about a subject *)

(* validate_workplace accepts the document; a delivery also requires the   *)
(* installed controls.                                                     *)
Valid(s) == ~drifted /\ (s # Bootstrap => rows[Bootstrap] > 0)

(* A slip: the marker is looked up by its key and its digest not compared. *)
MetadataByKey(s) ==
  IF s \in tampered THEN "exact"
  ELSE IF rows[s] = 0 THEN "absent"
  ELSE IF s = Bootstrap \/ rows[s] = 1 THEN "exact"
  ELSE "duplicate"

Metadata(s) ==
  IF s \in tampered THEN "conflict"
  ELSE IF rows[s] = 0 THEN "absent"
  ELSE IF s = Bootstrap \/ rows[s] = 1 THEN "exact"
  ELSE "duplicate"

(* probe and probe_bootstrap: a document that does not validate is a       *)
(* conflict, a failed read proves nothing.                                 *)
Probes(s) == {IF Valid(s) THEN Metadata(s) ELSE "conflict", "unavailable"}

Subj(p) == subject[held[p]]

-----------------------------------------------------------------------------
(* The mutating process: sheets bootstrap and sheets deliver *)

(* prepare_bootstrap and prepare_delivery raise on an invalid document: the *)
(* process ends and its operation stays acquired.                           *)
Prepare ==
  /\ pc[Mutator] = "acquired"
  /\ IF Valid(Subj(Mutator))
     THEN Goto(Mutator, "observed", Metadata(Subj(Mutator)))
     ELSE Exit(Mutator)
  /\ UNCHANGED <<subjVars, opVars, wire, sheetVars>>

(* The event of a duplicate is preflight_conflict. *)
PreflightEvent(what) == IF what = "duplicate" THEN "conflict" ELSE what

RecordPreflight ==
  LET o == held[Mutator] IN
  /\ pc[Mutator] = "observed"
  /\ IF Owns(Mutator) /\ state[o] = "acquired" /\ preflight[o] = "none"
     THEN /\ preflight' = [preflight EXCEPT ![o] = PreflightEvent(seen[Mutator])]
          /\ Goto(Mutator, "preflighted", seen[Mutator])
     ELSE UNCHANGED preflight /\ Exit(Mutator)
  /\ UNCHANGED <<subject, state, certainty, dispatched, fence, lease, probe,
                 subjVars, wire, sheetVars>>

(* The evidence finish() demands for an outcome, by the operation's status. *)
Evident(o, outcome) ==
  IF state[o] = "acquired"
  THEN \/ outcome = "reused" /\ preflight[o] = "exact"
       \/ /\ outcome \in {"duplicate_metadata", "conflicting_metadata"}
          /\ preflight[o] = "conflict"
  ELSE \/ outcome = "applied" /\ probe[o] = "exact"
       \/ outcome = "duplicate_metadata" /\ probe[o] = "duplicate"
       \/ /\ outcome \in {"conflicting_metadata", "schema_conflict"}
          /\ probe[o] = "conflict"

(* finish(): only the owner of the current fence, only an unfinished       *)
(* operation, only with the evidence; otherwise the caller raises.         *)
MayFinish(p, outcome) ==
  /\ Owns(p) /\ Unfinished(held[p]) /\ Evident(held[p], outcome)
  /\ status[Subj(p)] \in InFlight

FinishDelivered(p, outcome) ==
  /\ IF MayFinish(p, outcome)
     THEN /\ CloseOperation(held[p], "applied", "settled_applied")
          /\ SetSubject(Subj(p), "delivered", FALSE, "none")
     ELSE UNCHANGED <<opVars, subjVars>>
  /\ Exit(p)
  /\ UNCHANGED <<wire, sheetVars>>

FinishBlocked(p, outcome) ==
  /\ IF MayFinish(p, outcome)
     THEN /\ CloseOperation(held[p], "blocked",
                            IF outcome = "schema_conflict"
                            THEN "settled_not_applied" ELSE "settled_applied")
          /\ SetSubject(Subj(p), "blocked", FALSE, outcome)
     ELSE UNCHANGED <<opVars, subjVars>>
  /\ Exit(p)
  /\ UNCHANGED <<wire, sheetVars>>

(* Metadata found before any dispatch: reuse it, or block. *)
FinishPreflight ==
  /\ pc[Mutator] = "preflighted"
  /\ \/ seen[Mutator] = "exact" /\ FinishDelivered(Mutator, "reused")
     \/ seen[Mutator] = "duplicate" /\ FinishBlocked(Mutator, "duplicate_metadata")
     \/ seen[Mutator] = "conflict" /\ FinishBlocked(Mutator, "conflicting_metadata")

BootstrapAllows ==
  status[Bootstrap] = IF Subj(Mutator) = Bootstrap THEN "working" ELSE "delivered"

MayMark == /\ Owns(Mutator) /\ preflight[held[Mutator]] = "absent"
           /\ BootstrapAllows

(* mark_possibly_sent: the marker is committed before the request leaves.  *)
MarkPossiblySent ==
  LET o == held[Mutator] IN
  /\ pc[Mutator] = "preflighted" /\ seen[Mutator] = "absent"
  /\ MayMark /\ lease[o] = "active" /\ state[o] = "acquired"
  /\ state' = [state EXCEPT ![o] = "possibly_sent"]
  /\ certainty' = [certainty EXCEPT ![o] = "possibly_sent"]
  /\ dispatched' = [dispatched EXCEPT ![o] = TRUE]
  /\ status' = [status EXCEPT ![Subj(Mutator)] = "ambiguous"]
  /\ Goto(Mutator, "marked", "none")
  /\ UNCHANGED <<subject, fence, lease, preflight, probe, due, code, wire,
                 sheetVars>>

(* The same call refuses: a lapsed lease makes it recover the operation,   *)
(* and any other check that fails, the credentials' included, nothing.     *)
RefuseMark ==
  /\ pc[Mutator] = "preflighted" /\ seen[Mutator] = "absent"
  /\ \/ MayMark /\ lease[held[Mutator]] = "lapsed" /\ RecoverStale
     \/ UNCHANGED <<subjVars, opVars>>
  /\ Exit(Mutator)
  /\ UNCHANGED <<wire, sheetVars>>

(* _batch_update: one request, never repeated by the client. *)
Send ==
  /\ pc[Mutator] = "marked"
  /\ wire' = [wire EXCEPT ![held[Mutator]] = "inflight"]
  /\ Goto(Mutator, "sent", "none")
  /\ UNCHANGED <<subjVars, opVars, sheetVars>>

(* A slip: a call without an answer counts as refused. *)
HearAnswerTimeoutRefuses ==
  LET answer == wire[held[Mutator]] IN
  /\ pc[Mutator] = "sent"
  /\ Goto(Mutator, IF answer = "applied" THEN "confirmed" ELSE "refused", "none")
  /\ UNCHANGED <<subjVars, opVars, wire, sheetVars>>

(* The answer to the mutation, if one is heard before the call's deadline. *)
HearAnswer ==
  LET answer == wire[held[Mutator]] IN
  /\ \/ /\ pc[Mutator] = "sent" /\ answer = "applied"
        /\ Goto(Mutator, "confirmed", "none")
     \/ /\ pc[Mutator] = "sent" /\ answer = "refused"
        /\ Goto(Mutator, "refused", "none")
     \/ /\ pc[Mutator] \in {"marked", "sent"}
        /\ Goto(Mutator, "unknown", "none")
  /\ UNCHANGED <<subjVars, opVars, wire, sheetVars>>

(* The read after a confirmed mutation.  A bootstrap that does not verify  *)
(* is ambiguous without metadata; an unavailable read counts as absent.    *)
ReadBack ==
  /\ pc[Mutator] = "confirmed"
  /\ \E what \in Probes(Subj(Mutator)) :
       IF Subj(Mutator) = Bootstrap /\ what # "exact"
       THEN Goto(Mutator, "unknown", "none")
       ELSE Goto(Mutator, "evidence", IF what = "unavailable" THEN "absent" ELSE what)
  /\ UNCHANGED <<subjVars, opVars, wire, sheetVars>>

(* settle_trusted_rejection, for a retryable or a blocking refusal. *)
SettleRefusal ==
  LET o == held[Mutator] IN
  /\ pc[Mutator] = "refused"
  /\ IF /\ Owns(Mutator) /\ state[o] = "possibly_sent"
        /\ status[Subj(Mutator)] \in InFlight
     THEN \/ /\ CloseOperation(o, "rejected_retryable", "settled_not_applied")
             /\ SetSubject(Subj(Mutator), "retryable", FALSE, "remote_refusal")
          \/ /\ CloseOperation(o, "rejected_blocked", "settled_not_applied")
             /\ SetSubject(Subj(Mutator), "blocked", FALSE, "remote_refusal")
     ELSE UNCHANGED <<opVars, subjVars>>
  /\ Exit(Mutator)
  /\ UNCHANGED <<wire, sheetVars>>

-----------------------------------------------------------------------------
(* The reconciling process: sheets reconcile --operation-id *)

(* It reads the operation's fence, then asks for a probe lease on it. *)
Choose(r, o) ==
  /\ pc[r] = "idle"
  /\ state[o] # "unused"
  /\ pc' = [pc EXCEPT ![r] = "chosen"]
  /\ held' = [held EXCEPT ![r] = o]
  /\ token' = [token EXCEPT ![r] = fence[o]]
  /\ UNCHANGED <<seen, subjVars, opVars, wire, sheetVars>>

MayProbe(r) ==
  /\ state[held[r]] = "possibly_sent"
  /\ fence[held[r]] = token[r]
  /\ fence[held[r]] < MaxFence
  /\ lease[held[r]] # "active"

(* acquire_probe: only a possibly sent operation still at that fence, and  *)
(* no lease that is active and has not lapsed.                             *)
AcquireProbe(r) ==
  LET o == held[r] IN
  /\ pc[r] = "chosen"
  /\ IF MayProbe(r)
     THEN /\ fence' = [fence EXCEPT ![o] = @ + 1]
          /\ lease' = [lease EXCEPT ![o] = "active"]
          /\ probe' = [probe EXCEPT ![o] = "none"]
          /\ pc' = [pc EXCEPT ![r] = "probing"]
          /\ token' = [token EXCEPT ![r] = fence[o] + 1]
          /\ UNCHANGED <<held, seen>>
     ELSE UNCHANGED <<fence, lease, probe>> /\ Exit(r)
  /\ UNCHANGED <<subject, state, certainty, dispatched, preflight, subjVars,
                 wire, sheetVars>>

ReadProbe(r) ==
  /\ pc[r] = "probing"
  /\ \E what \in Probes(Subj(r)) : Goto(r, "evidence", what)
  /\ UNCHANGED <<subjVars, opVars, wire, sheetVars>>

-----------------------------------------------------------------------------
(* Evidence and settlement, shared by both kinds of process *)

RecordProbe(p) ==
  /\ pc[p] = "evidence"
  /\ IF Owns(p) /\ state[held[p]] = "possibly_sent"
     THEN /\ probe' = [probe EXCEPT ![held[p]] = seen[p]]
          /\ Goto(p, "settle", seen[p])
     ELSE UNCHANGED probe /\ Exit(p)
  /\ UNCHANGED <<subject, state, certainty, dispatched, fence, lease, preflight,
                 subjVars, wire, sheetVars>>

(* release_possibly_sent and release_probe_unresolved give the lease back  *)
(* and leave the operation possibly sent.                                  *)
Release(p) ==
  /\ IF Owns(p) THEN lease' = [lease EXCEPT ![held[p]] = "released"]
                ELSE UNCHANGED lease
  /\ Exit(p)
  /\ UNCHANGED <<subject, state, certainty, dispatched, fence, preflight, probe,
                 subjVars, wire, sheetVars>>

ConflictOutcome(p) == IF Subj(p) = Bootstrap THEN "schema_conflict"
                      ELSE IF seen[p] = "duplicate" THEN "duplicate_metadata"
                      ELSE "conflicting_metadata"

Settle(p) ==
  \/ pc[p] = "settle" /\ seen[p] = "exact" /\ FinishDelivered(p, "applied")
  \/ /\ pc[p] = "settle" /\ seen[p] \in {"duplicate", "conflict"}
     /\ FinishBlocked(p, ConflictOutcome(p))
  \/ /\ \/ pc[p] = "settle" /\ seen[p] \in {"absent", "unavailable"}
        \/ pc[p] = "unknown"
     /\ Release(p)

-----------------------------------------------------------------------------
(* The operator, the network, people at the sheet, time and crashes *)

(* retry_blocked: `sheets retry-blocked --operation-id'. *)
RetryBlocked(o) ==
  /\ \/ state[o] = "rejected_blocked"
     \/ state[o] = "blocked" /\ certainty[o] = "settled_not_applied"
  /\ ~ \E q \in OpIds : Unfinished(q)
  /\ status[subject[o]] = "blocked" /\ code[subject[o]] \in Correctable
  /\ status' = [status EXCEPT ![subject[o]] = "retryable"]
  /\ due' = [due EXCEPT ![subject[o]] = TRUE]
  /\ UNCHANGED <<code, opVars, procVars, wire, sheetVars>>

(* A request on the wire is applied whole or refused whole, at any time    *)
(* after it was sent, or never arrives.                                    *)
Land(o) ==
  /\ wire[o] = "inflight"
  /\ wire' = [wire EXCEPT ![o] = "applied"]
  /\ rows' = [rows EXCEPT ![subject[o]] = @ + 1]
  /\ UNCHANGED <<subjVars, opVars, procVars, drifted, tampered>>

Refuse(o) ==
  /\ wire[o] = "inflight"
  /\ wire' = [wire EXCEPT ![o] = "refused"]
  /\ UNCHANGED <<subjVars, opVars, procVars, sheetVars>>

(* People edit the shared spreadsheet. *)
EditTemplate ==
  /\ drifted' = ~drifted
  /\ UNCHANGED <<subjVars, opVars, procVars, wire, rows, tampered>>

EditMarker(h) ==
  /\ tampered' = tampered \cup {h}
  /\ UNCHANGED <<subjVars, opVars, procVars, wire, rows, drifted>>

(* A lease's expires_at and a subject's retry_at come to pass. *)
LeaseLapses(o) ==
  /\ lease[o] = "active"
  /\ lease' = [lease EXCEPT ![o] = "lapsed"]
  /\ UNCHANGED <<subject, state, certainty, dispatched, fence, preflight, probe,
                 subjVars, procVars, wire, sheetVars>>

RetryComesDue(s) ==
  /\ status[s] = "retryable" /\ ~due[s]
  /\ due' = [due EXCEPT ![s] = TRUE]
  /\ UNCHANGED <<status, code, opVars, procVars, wire, sheetVars>>

(* A process dies, or ends on an exception; a request it sent lives on. *)
Crash(p) ==
  /\ pc[p] # "idle"
  /\ Exit(p)
  /\ UNCHANGED <<subjVars, opVars, wire, sheetVars>>

-----------------------------------------------------------------------------

MutatorStep ==
  \/ Prepare \/ RecordPreflight \/ FinishPreflight
  \/ MarkPossiblySent \/ RefuseMark
  \/ Send \/ HearAnswer \/ ReadBack \/ SettleRefusal
  \/ RecordProbe(Mutator) \/ Settle(Mutator)

ReconcilerStep(r) ==
  AcquireProbe(r) \/ ReadProbe(r) \/ RecordProbe(r) \/ Settle(r)

Next ==
  \/ \E h \in Handoffs : Enqueue(h) \/ EditMarker(h)
  \/ Recover
  \/ \E s \in Subjects, o \in OpIds : Acquire(s, o)
  \/ MutatorStep
  \/ \E r \in Reconcilers : ReconcilerStep(r) \/ \E o \in OpIds : Choose(r, o)
  \/ \E o \in OpIds : RetryBlocked(o) \/ Land(o) \/ Refuse(o) \/ LeaseLapses(o)
  \/ \E s \in Subjects : RetryComesDue(s)
  \/ EditTemplate
  \/ \E p \in Procs : Crash(p)

Spec == Init /\ [][Next]_vars

(* The scheduled worker runs and ends, and time passes; operators, remote  *)
(* answers and reconcilers owe nothing.                                    *)
FairSpec == /\ Spec
            /\ WF_vars(MutatorStep) /\ WF_vars(Recover)
            /\ \A o \in OpIds : WF_vars(LeaseLapses(o))

-----------------------------------------------------------------------------
(* Safety *)

(* No approved content reaches the sheet twice, whatever crashes, lapsed   *)
(* leases, lost answers, late requests, reconcilers and operators do.      *)
AtMostOneRow == \A h \in Handoffs : rows[h] <= 1

(* A subject is called delivered (a bootstrap: ready) only if the sheet    *)
(* really holds its mutation.                                              *)
DeliveredIsInSheet ==
  \A s \in Subjects : status[s] = "delivered" => rows[s] > 0

(* An operation of a handoff that was abandoned or rejected, so that the   *)
(* handoff may be sent again, has no request that can still land.          *)
NotAppliedIsFinal ==
  \A o \in OpIds : subject[o] \in Handoffs =>
    /\ state[o] = "abandoned_pre_marker" =>
         /\ wire[o] = "none"
         /\ ~(held[Mutator] = o /\ pc[Mutator] = "marked")
    /\ certainty[o] = "settled_not_applied" => wire[o] = "refused"

(* One operation is open at a time, and the subject's status is the one    *)
(* its open operation implies: neither table can drift from the other.     *)
SubjectTracksOperation ==
  /\ \A o, q \in OpIds : Unfinished(o) /\ Unfinished(q) => o = q
  /\ \A s \in Subjects :
       /\ status[s] = "working" <=>
            \E o \in OpIds : subject[o] = s /\ state[o] = "acquired"
       /\ status[s] = "ambiguous" <=>
            \E o \in OpIds : subject[o] = s /\ state[o] = "possibly_sent"

(* No row is requested of a sheet whose controls are not installed and     *)
(* settled as installed.                                                   *)
DispatchNeedsReadySheet ==
  \A o \in OpIds : subject[o] \in Handoffs /\ wire[o] # "none" =>
    status[Bootstrap] = "delivered" /\ rows[Bootstrap] > 0

(* A new operation on a handoff starts only when every request sent for it *)
(* before was refused by the remote side.                                  *)
StartsAfterRefusals ==
  \A o, q \in OpIds :
    /\ state[o] = "unused" /\ state'[o] = "acquired"
    /\ subject'[o] \in Handoffs
    /\ subject[q] = subject'[o] /\ dispatched[q]
    => wire[q] = "refused"
NeverResend == [][StartsAfterRefusals]_vars

(* A process whose lease was taken over can no longer change any           *)
(* operation: whoever writes holds the current fence of its own.           *)
WriterHoldsFence ==
  \A p \in Procs :
    /\ pc[p] \notin {"idle", "chosen"} /\ pc'[p] # pc[p]
    /\ opVars' # opVars
    => Held(held[p]) /\ fence[held[p]] = token[p]
FencedWrites == [][WriterHoldsFence]_vars

(* Work that a crash left before its marker does not stay claimed for      *)
(* ever: the handoff is retried, sent or settled.                          *)
StrandedWorkIsFreed ==
  \A h \in Handoffs : status[h] = "working" ~> status[h] # "working"

(* The statement of docs/requirements.md that only a trusted rejection can *)
(* settle an effect as not applied, for every operation.                   *)
OnlyRefusalSettlesNotApplied ==
  \A o \in OpIds : certainty[o] = "settled_not_applied" => wire[o] = "refused"

(* The statement of docs/adr/0002 that only exact metadata is evidence of  *)
(* application: an operation that was sent and settled as applied, on a    *)
(* sheet whose markers nobody edited, was applied.                         *)
SettledAppliedIsInSheet ==
  \A o \in OpIds :
    /\ dispatched[o] /\ certainty[o] = "settled_applied"
    /\ subject[o] \notin tampered
    => rows[subject[o]] > 0

-----------------------------------------------------------------------------
(* SheetHandoff implements AppendOnce *)

Verdict == [h \in Handoffs |->
              CASE status[h] = "delivered" -> "delivered"
                [] status[h] = "blocked"   -> "blocked"
                [] OTHER                   -> "open"]
Outstanding == [h \in Handoffs |->
                  {o \in OpIds : subject[o] = h /\ wire[o] = "inflight"}]
Landed == [h \in Handoffs |-> rows[h]]

Abstract == INSTANCE AppendOnce WITH
  Items <- Handoffs, Requests <- OpIds,
  verdict <- Verdict, outstanding <- Outstanding, landed <- Landed

(* Every step is a step of AppendOnce or changes nothing it can see. *)
ImplementsAppendOnce == Abstract!Spec
=============================================================================
