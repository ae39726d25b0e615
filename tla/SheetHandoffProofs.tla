------------------------- MODULE SheetHandoffProofs -------------------------
(***************************************************************************)
(* Theorems about SheetHandoff, for every set of handoffs, operations and  *)
(* reconcilers and every fence bound: its safety, and, in the last part,   *)
(* that it implements AppendOnce.                                          *)
(***************************************************************************)
EXTENDS SheetHandoff, TLAPS

-----------------------------------------------------------------------------
(* The inductive invariant *)

(* A process that runs holds an operation that was really acquired, and    *)
(* one that does not has seen nothing.                                     *)
ProcessesHoldOps ==
  \A p \in Procs : IF pc[p] = "idle" THEN seen[p] = "none"
                   ELSE held[p] \in OpIds /\ state[held[p]] # "unused"

(* How far a process got says what became of its operation's request. *)
Position ==
  /\ \A p \in Procs :
       pc[p] \notin {"idle", "chosen", "acquired", "observed", "preflighted"} =>
         dispatched[held[p]]
  /\ LET o == held[Mutator] IN
       /\ pc[Mutator] \in {"acquired", "observed", "preflighted"} =>
            ~dispatched[o]
       /\ pc[Mutator] = "marked"    => wire[o] = "none"
       /\ pc[Mutator] = "sent"      => wire[o] # "none"
       /\ pc[Mutator] = "confirmed" => wire[o] = "applied"
       /\ pc[Mutator] = "refused"   => wire[o] = "refused"

(* An operation's status says whether its request can exist. *)
StatusAndRequest ==
  \A o \in OpIds :
    /\ state[o] = "unused" => preflight[o] = "none" /\ probe[o] = "none"
    /\ state[o] \in {"unused", "acquired", "abandoned_pre_marker"} =>
         ~dispatched[o] /\ certainty[o] = "not_dispatched"
    /\ state[o] = "possibly_sent" => dispatched[o] /\ certainty[o] = "possibly_sent"
    /\ ~dispatched[o] => wire[o] = "none"
    /\ state[o] \in {"rejected_retryable", "rejected_blocked"} =>
         wire[o] = "refused"
    /\ certainty[o] = "settled_not_applied" =>
         \/ state[o] \in {"rejected_retryable", "rejected_blocked"}
         \/ subject[o] = Bootstrap

(* At most one operation is open and its subject is in the status it implies. *)
OpenOperation ==
  /\ \A o, q \in OpIds : Unfinished(o) /\ Unfinished(q) => o = q
  /\ \A o \in OpIds :
       /\ state[o] = "acquired" => status[subject[o]] = "working"
       /\ state[o] = "possibly_sent" => status[subject[o]] = "ambiguous"
  /\ \A s \in Subjects :
       /\ status[s] = "working" =>
            \E o \in OpIds : subject[o] = s /\ state[o] = "acquired"
       /\ status[s] = "ambiguous" =>
            \E o \in OpIds : subject[o] = s /\ state[o] = "possibly_sent"

(* A request of a handoff that has landed or can still land. *)
Live(o) == /\ subject[o] \in Handoffs
           /\ dispatched[o]
           /\ wire[o] # "refused"

(* A handoff with such a request is never one that may be sent again. *)
Shut(h) == \/ status[h] = "delivered"
           \/ status[h] = "blocked" /\ code[h] \notin Correctable

LiveRequests ==
  /\ \A o \in OpIds : Live(o) =>
       state[o] = "possibly_sent" \/ Shut(subject[o])
  /\ \A o, q \in OpIds :
       Live(o) /\ Live(q) /\ subject[o] = subject[q] => o = q

(* Rows come from requests, one from each. *)
RowsFromRequests ==
  \A h \in Handoffs :
    /\ rows[h] <= 1
    /\ rows[h] > 0 =>
         \E o \in OpIds : subject[o] = h /\ wire[o] = "applied"

(* Whatever was taken as proof that a mutation is in the sheet is one. *)
ExactIsProof ==
  /\ \A o \in OpIds : preflight[o] = "exact" \/ probe[o] = "exact" =>
       rows[subject[o]] > 0
  /\ \A p \in Procs : pc[p] # "idle" /\ seen[p] = "exact" =>
       rows[subject[held[p]]] > 0
  /\ \A s \in Subjects : status[s] = "delivered" => rows[s] > 0

(* Rows are requested of an installed sheet only. *)
ReadySheet ==
  \A o \in OpIds : subject[o] \in Handoffs /\ dispatched[o] =>
    status[Bootstrap] = "delivered"

IInv == /\ TypeOK
        /\ ProcessesHoldOps /\ Position /\ StatusAndRequest
        /\ OpenOperation /\ LiveRequests /\ RowsFromRequests
        /\ ExactIsProof /\ ReadySheet

-----------------------------------------------------------------------------
(* Every action preserves it *)

USE NamesDistinct DEF Subjects, Procs, subjVars, opVars, procVars, sheetVars, TypeOK

(* Leaving changes nothing but the process. *)
LEMMA ExitInv ==
  ASSUME IInv, NEW p \in Procs, Exit(p), UNCHANGED <<subjVars, opVars, wire, sheetVars>>
  PROVE  IInv'
<1> USE DEF IInv, Exit
<1>1. TypeOK'
  BY DEF PCs, Observations
<1>2. (ProcessesHoldOps /\ Position)'
  BY DEF ProcessesHoldOps, Position
<1>3. (StatusAndRequest /\ OpenOperation /\ ReadySheet)'
  BY DEF StatusAndRequest, OpenOperation, ReadySheet, Unfinished
<1>4. (LiveRequests /\ RowsFromRequests /\ ExactIsProof)'
  BY DEF LiveRequests, Live, Shut, RowsFromRequests, ExactIsProof
<1> QED BY <1>1, <1>2, <1>3, <1>4

LEMMA AcquireInv ==
  ASSUME IInv, NEW s \in Subjects, NEW o \in OpIds, Acquire(s, o)
  PROVE  IInv'
<1> USE DEF IInv, Acquire
<1>1. /\ \A q \in OpIds : q # o => /\ ~Unfinished(q)' /\ subject'[q] = subject[q]
                                   /\ \/ state'[q] = state[q]
                                      \/ state[q] = "acquired" /\ state'[q] = "abandoned_pre_marker"
      /\ subject'[o] = s /\ state'[o] = "acquired" /\ state[o] = "unused"
  BY DEF NoneOpen, Unfinished, RecoveredState, Stale
<1>2. \A x \in Subjects : status[x] \in InFlight => x \in StaleSubjects
  BY DEF InFlight, OpenOperation, NoneOpen, RecoveredState, StaleSubjects, Stale
<1>3. /\ \A x \in StaleSubjects : status[x] = "working"
      /\ status[s] \notin {"delivered", "blocked"}
  BY DEF OpenOperation, StaleSubjects, Stale, Acquirable, RecoveredStatus
<1>4. /\ status'[s] = "working"
      /\ \A x \in Subjects : x # s =>
           IF x \in StaleSubjects THEN status'[x] = "retryable"
           ELSE /\ status'[x] = status[x] /\ code'[x] = code[x]
                /\ status[x] \notin InFlight
  BY <1>2 DEF RecoveredStatus, RecoveredCode
<1>5. TypeOK'
  <2>1. /\ RecoveredState \in [OpIds -> OpStates]
        /\ RecoveredLease \in [OpIds -> {"active", "lapsed", "released", "expired"}]
        /\ RecoveredStatus \in [Subjects -> Statuses]
        /\ RecoveredDue \in [Subjects -> BOOLEAN]
        /\ RecoveredCode \in [Subjects -> Codes]
    BY DEF RecoveredState, RecoveredLease, RecoveredStatus, RecoveredDue,
           RecoveredCode, OpStates, Statuses, Codes
  <2> QED BY <2>1 DEF OpStates, Statuses, Codes, PCs
<1>6. (ProcessesHoldOps /\ Position)'
  BY <1>1 DEF ProcessesHoldOps, Position, StatusAndRequest
<1>7. (StatusAndRequest /\ ReadySheet)'
  BY <1>1, <1>3, <1>4 DEF StatusAndRequest, ReadySheet
<1>8. OpenOperation'
  <2>1. \A q \in OpIds : Unfinished(q)' => q = o
    BY <1>1
  <2>2. \A x \in Subjects : x # s => status'[x] \notin InFlight
    BY <1>4 DEF InFlight
  <2> QED BY <2>1, <2>2, <1>1, <1>4 DEF OpenOperation, Unfinished, InFlight
<1>9. (LiveRequests /\ RowsFromRequests)'
  BY <1>1, <1>3, <1>4, SMTT(30) DEF LiveRequests, Live, Shut, RowsFromRequests,
                                    StatusAndRequest, OpenOperation
<1>10. ExactIsProof'
  BY <1>1, <1>3, <1>4 DEF ExactIsProof, ProcessesHoldOps, StatusAndRequest
<1> QED BY <1>5, <1>6, <1>7, <1>8, <1>9, <1>10

LEMMA RefuseMarkInv ==
  ASSUME IInv, RefuseMark
  PROVE  IInv'
<1> USE DEF IInv, RefuseMark
<1>1. CASE UNCHANGED <<subjVars, opVars>>
  BY <1>1, ExitInv
<1>2. CASE RecoverStale
  <2> USE <1>2 DEF RecoverStale, RecoveredState, RecoveredLease, RecoveredStatus,
                   RecoveredCode, Stale, StaleSubjects, Exit
  <2>1. TypeOK'
    BY SMTT(30), ZenonT(40) DEF RecoveredDue, OpStates, Statuses, Codes, PCs, Observations
  <2>2. (ProcessesHoldOps /\ Position)'
    BY DEF ProcessesHoldOps, Position, StatusAndRequest
  <2>3. (StatusAndRequest /\ ReadySheet)'
    BY DEF StatusAndRequest, ReadySheet, OpenOperation
  <2>4. OpenOperation'
    BY DEF OpenOperation, Unfinished
  <2>5. (LiveRequests /\ RowsFromRequests)'
    BY DEF LiveRequests, Live, Shut, RowsFromRequests, OpenOperation
  <2>6. ExactIsProof'
    BY DEF ExactIsProof, ProcessesHoldOps
  <2> QED BY <2>1, <2>2, <2>3, <2>4, <2>5, <2>6
<1> QED BY <1>1, <1>2


LEMMA ReadBackInv ==
  ASSUME IInv, ReadBack
  PROVE  IInv'
<1> USE DEF IInv, ReadBack, Goto
<1>1. \A what \in Probes(Subj(Mutator)) :
        /\ what \in Observations
        /\ what = "exact" => rows[Subj(Mutator)] > 0
  BY DEF Probes, Metadata, Observations, Subj, ProcessesHoldOps
<1>2. PICK what \in Probes(Subj(Mutator)) :
        /\ pc' = [pc EXCEPT ![Mutator] = pc'[Mutator]]
        /\ pc'[Mutator] \in {"unknown", "evidence"}
        /\ seen' = [seen EXCEPT ![Mutator] = seen'[Mutator]]
        /\ seen'[Mutator] \in {what, "none", "absent"}
  OBVIOUS
<1>3. TypeOK'
  BY <1>1, <1>2 DEF PCs, Observations
<1>4. (ProcessesHoldOps /\ Position)'
  BY <1>2 DEF ProcessesHoldOps, Position
<1>5. (StatusAndRequest /\ OpenOperation /\ ReadySheet)'
  BY DEF StatusAndRequest, OpenOperation, ReadySheet, Unfinished
<1>6. (LiveRequests /\ RowsFromRequests)'
  BY DEF LiveRequests, Live, Shut, RowsFromRequests
<1>7. ExactIsProof'
  BY <1>1, <1>2 DEF ExactIsProof, Subj
<1> QED BY <1>3, <1>4, <1>5, <1>6, <1>7

LEMMA ReadProbeInv ==
  ASSUME IInv, NEW r \in Reconcilers, ReadProbe(r)
  PROVE  IInv'
<1> USE DEF IInv, ReadProbe, Goto
<1>1. PICK what \in Probes(Subj(r)) : Goto(r, "evidence", what)
  OBVIOUS
<1>2. what \in Observations /\ (what = "exact" => rows[Subj(r)] > 0)
  BY DEF Probes, Metadata, Observations, Subj, ProcessesHoldOps
<1>3. TypeOK'
  BY <1>1, <1>2 DEF PCs, Observations
<1>4. (ProcessesHoldOps /\ Position)'
  BY <1>1 DEF ProcessesHoldOps, Position
<1>5. (StatusAndRequest /\ OpenOperation /\ ReadySheet)'
  BY DEF StatusAndRequest, OpenOperation, ReadySheet, Unfinished
<1>6. (LiveRequests /\ RowsFromRequests)'
  BY DEF LiveRequests, Live, Shut, RowsFromRequests
<1>7. ExactIsProof'
  BY <1>1, <1>2 DEF ExactIsProof, Subj
<1> QED BY <1>3, <1>4, <1>5, <1>6, <1>7

LEMMA SettleRefusalInv ==
  ASSUME IInv, SettleRefusal
  PROVE  IInv'
<1> USE DEF IInv, SettleRefusal
<1> DEFINE o == held[Mutator]
<1>1. CASE UNCHANGED <<opVars, subjVars>>
  BY <1>1, ExitInv
<1>2. CASE ~UNCHANGED <<opVars, subjVars>>
  <2>1. /\ o \in OpIds /\ subject[o] \in Subjects /\ state[o] = "possibly_sent"
        /\ wire[o] = "refused"
    BY <1>2 DEF ProcessesHoldOps, Position
  <2>2. PICK to \in {"rejected_retryable", "rejected_blocked"},
               next \in {"retryable", "blocked"} :
          /\ CloseOperation(o, to, "settled_not_applied")
          /\ SetSubject(subject[o], next, FALSE, "remote_refusal")
    BY <1>2 DEF Subj
  <2> USE <2>1, <2>2 DEF CloseOperation, SetSubject, Exit
  <2> HIDE DEF SettleRefusal
  <2>3. Exit(Mutator) /\ UNCHANGED <<wire, sheetVars>>
    BY DEF SettleRefusal
  <2> USE <2>3
  <2>4. TypeOK'
    BY DEF OpStates, Certainties, Statuses, Codes, PCs, Observations
  <2>5. (ProcessesHoldOps /\ Position)'
    BY DEF ProcessesHoldOps, Position
  <2>6. (StatusAndRequest /\ ReadySheet)'
    BY DEF StatusAndRequest, ReadySheet, OpenOperation
  <2>7. OpenOperation'
    BY DEF OpenOperation, Unfinished
  <2>8. (LiveRequests /\ RowsFromRequests)'
    BY DEF LiveRequests, Live, Shut, RowsFromRequests, OpenOperation, Unfinished
  <2>9. ExactIsProof'
    BY DEF ExactIsProof, ProcessesHoldOps
  <2> QED BY <2>4, <2>5, <2>6, <2>7, <2>8, <2>9
<1> QED BY <1>1, <1>2

LEMMA FinishDeliveredInv ==
  ASSUME IInv, NEW p \in Procs, pc[p] # "idle",
         NEW outcome \in {"reused", "applied"}, FinishDelivered(p, outcome)
  PROVE  IInv'
<1> USE DEF IInv
<1> DEFINE o == held[p]
<1>1. CASE ~MayFinish(p, outcome)
  BY <1>1, ExitInv DEF FinishDelivered
<1>2. CASE MayFinish(p, outcome)
  <2>1. /\ o \in OpIds /\ subject[o] \in Subjects /\ Unfinished(o)
        /\ rows[subject[o]] > 0
        /\ status[subject[o]] \in InFlight
    BY <1>2 DEF ProcessesHoldOps, MayFinish, Evident, ExactIsProof, Subj
  <2>2. /\ CloseOperation(o, "applied", "settled_applied")
        /\ SetSubject(subject[o], "delivered", FALSE, "none")
        /\ Exit(p) /\ UNCHANGED <<wire, sheetVars>>
    BY <1>2 DEF FinishDelivered, Subj
  <2> USE <2>1, <2>2 DEF CloseOperation, SetSubject, Exit
  <2>4. TypeOK'
    BY DEF OpStates, Certainties, Statuses, Codes, PCs, Observations
  <2>5. (ProcessesHoldOps /\ Position)'
    BY DEF ProcessesHoldOps, Position
  <2>6. (StatusAndRequest /\ ReadySheet)'
    BY DEF StatusAndRequest, ReadySheet, OpenOperation
  <2>7. OpenOperation'
    BY DEF OpenOperation, Unfinished
  <2>8. (LiveRequests /\ RowsFromRequests)'
    BY DEF LiveRequests, Live, Shut, RowsFromRequests, OpenOperation, Unfinished
  <2>9. ExactIsProof'
    BY DEF ExactIsProof, ProcessesHoldOps
  <2> QED BY <2>4, <2>5, <2>6, <2>7, <2>8, <2>9
<1> QED BY <1>1, <1>2

LEMMA FinishBlockedInv ==
  ASSUME IInv, NEW p \in Procs, pc[p] # "idle",
         NEW outcome \in {"duplicate_metadata", "conflicting_metadata", "schema_conflict"},
         outcome = "schema_conflict" => Subj(p) = Bootstrap,
         FinishBlocked(p, outcome)
  PROVE  IInv'
<1> USE DEF IInv
<1> DEFINE o == held[p]
<1>1. CASE ~MayFinish(p, outcome)
  BY <1>1, ExitInv DEF FinishBlocked
<1>2. CASE MayFinish(p, outcome)
  <2>1. /\ o \in OpIds /\ subject[o] \in Subjects /\ Unfinished(o)
        /\ status[subject[o]] \in InFlight
        /\ subject[o] \in Handoffs => outcome \notin Correctable
    BY <1>2 DEF ProcessesHoldOps, MayFinish, Subj, Correctable
  <2>2. PICK sure \in {"settled_applied", "settled_not_applied"} :
          /\ CloseOperation(o, "blocked", sure)
          /\ sure = "settled_not_applied" => subject[o] = Bootstrap
    BY <1>2 DEF FinishBlocked, Subj
  <2>3. /\ SetSubject(subject[o], "blocked", FALSE, outcome)
        /\ Exit(p) /\ UNCHANGED <<wire, sheetVars>>
    BY <1>2 DEF FinishBlocked, Subj
  <2> USE <2>1, <2>2, <2>3 DEF CloseOperation, SetSubject, Exit
  <2>4. TypeOK'
    BY DEF OpStates, Certainties, Statuses, Codes, PCs, Observations
  <2>5. (ProcessesHoldOps /\ Position)'
    BY DEF ProcessesHoldOps, Position
  <2>6. (StatusAndRequest /\ ReadySheet)'
    BY DEF StatusAndRequest, ReadySheet, OpenOperation, InFlight
  <2>7. OpenOperation'
    BY DEF OpenOperation, Unfinished
  <2>8. (LiveRequests /\ RowsFromRequests)'
    BY DEF LiveRequests, Live, Shut, RowsFromRequests, OpenOperation, Unfinished
  <2>9. ExactIsProof'
    BY DEF ExactIsProof, ProcessesHoldOps
  <2> QED BY <2>4, <2>5, <2>6, <2>7, <2>8, <2>9
<1> QED BY <1>1, <1>2

LEMMA EnqueueInv ==
  ASSUME IInv, NEW h \in Handoffs, Enqueue(h)
  PROVE  IInv'
<1> USE DEF IInv, Enqueue
<1>1. TypeOK'
  BY DEF Statuses, Codes, OpStates, Certainties, Observations, PCs, ProcessesHoldOps
<1>2. (ProcessesHoldOps /\ Position)'
  BY DEF ProcessesHoldOps, Position, StatusAndRequest
<1>3. (StatusAndRequest /\ ReadySheet)'
  BY DEF ProcessesHoldOps, Position, StatusAndRequest, OpenOperation, ReadySheet
<1>4. OpenOperation'
  BY DEF OpenOperation, Unfinished, ProcessesHoldOps
<1>5. (LiveRequests /\ RowsFromRequests)'
  BY DEF LiveRequests, RowsFromRequests, Live, Shut, Unfinished, Correctable,
         StatusAndRequest, Position, OpenOperation, ProcessesHoldOps
<1>6. ExactIsProof'
  BY DEF ExactIsProof, ProcessesHoldOps, StatusAndRequest
<1> QED BY <1>1, <1>2, <1>3, <1>4, <1>5, <1>6

LEMMA EditMarkerInv ==
  ASSUME IInv, NEW h \in Handoffs, EditMarker(h)
  PROVE  IInv'
<1> USE DEF IInv, EditMarker
<1>1. TypeOK'
  BY DEF Statuses, Codes, OpStates, Certainties, Observations, PCs, ProcessesHoldOps
<1>2. (ProcessesHoldOps /\ Position)'
  BY DEF ProcessesHoldOps, Position, StatusAndRequest
<1>3. (StatusAndRequest /\ ReadySheet)'
  BY DEF ProcessesHoldOps, Position, StatusAndRequest, OpenOperation, ReadySheet
<1>4. OpenOperation'
  BY DEF OpenOperation, Unfinished, ProcessesHoldOps
<1>5. (LiveRequests /\ RowsFromRequests)'
  BY DEF LiveRequests, RowsFromRequests, Live, Shut, Unfinished, Correctable,
         StatusAndRequest, Position, OpenOperation, ProcessesHoldOps
<1>6. ExactIsProof'
  BY DEF ExactIsProof, ProcessesHoldOps, StatusAndRequest
<1> QED BY <1>1, <1>2, <1>3, <1>4, <1>5, <1>6

LEMMA RecoverInv ==
  ASSUME IInv, Recover
  PROVE  IInv'
<1> USE DEF IInv, Recover, RecoverStale, RecoveredState, RecoveredLease,
            RecoveredStatus, RecoveredDue, RecoveredCode, Stale, StaleSubjects
<1>1. TypeOK'
  <2>1. /\ status' \in [Subjects -> Statuses]
        /\ due' \in [Subjects -> BOOLEAN]
        /\ code' \in [Subjects -> Codes]
    BY DEF Statuses, Codes
  <2>2. /\ state' \in [OpIds -> OpStates]
        /\ lease' \in [OpIds -> {"active", "lapsed", "released", "expired"}]
    BY DEF OpStates
  <2>3. UNCHANGED <<subject, certainty, dispatched, fence, preflight, probe, procVars,
                    wire, sheetVars>>
    OBVIOUS
  <2> HIDE DEF Recover, RecoverStale
  <2> QED BY <2>1, <2>2, <2>3
<1>2. (ProcessesHoldOps /\ Position)'
  BY DEF ProcessesHoldOps, Position, StatusAndRequest
<1>3. (StatusAndRequest /\ ReadySheet)'
  BY DEF ProcessesHoldOps, Position, StatusAndRequest, OpenOperation, ReadySheet
<1>4. OpenOperation'
  BY DEF OpenOperation, Unfinished, ProcessesHoldOps
<1>5. (LiveRequests /\ RowsFromRequests)'
  BY DEF LiveRequests, RowsFromRequests, Live, Shut, Unfinished, Correctable,
         StatusAndRequest, Position, OpenOperation, ProcessesHoldOps
<1>6. ExactIsProof'
  BY DEF ExactIsProof, ProcessesHoldOps, StatusAndRequest
<1> QED BY <1>1, <1>2, <1>3, <1>4, <1>5, <1>6

LEMMA PrepareInv ==
  ASSUME IInv, Prepare
  PROVE  IInv'
<1> USE DEF IInv, Prepare, Goto, Exit, Subj, Metadata, Valid
<1>1. TypeOK'
  BY DEF Statuses, Codes, OpStates, Certainties, Observations, PCs, ProcessesHoldOps
<1>2. (ProcessesHoldOps /\ Position)'
  BY DEF ProcessesHoldOps, Position, StatusAndRequest
<1>3. (StatusAndRequest /\ ReadySheet)'
  BY DEF ProcessesHoldOps, Position, StatusAndRequest, OpenOperation, ReadySheet
<1>4. OpenOperation'
  BY DEF OpenOperation, Unfinished, ProcessesHoldOps
<1>5. (LiveRequests /\ RowsFromRequests)'
  BY DEF LiveRequests, RowsFromRequests, Live, Shut, Unfinished, Correctable,
         StatusAndRequest, Position, OpenOperation, ProcessesHoldOps
<1>6. ExactIsProof'
  BY DEF ExactIsProof, ProcessesHoldOps, StatusAndRequest
<1> QED BY <1>1, <1>2, <1>3, <1>4, <1>5, <1>6

LEMMA RecordPreflightInv ==
  ASSUME IInv, RecordPreflight
  PROVE  IInv'
<1> USE DEF IInv, RecordPreflight, Goto, Exit, PreflightEvent
<1>1. TypeOK'
  BY DEF Statuses, Codes, OpStates, Certainties, Observations, PCs, ProcessesHoldOps
<1>2. (ProcessesHoldOps /\ Position)'
  BY DEF ProcessesHoldOps, Position, StatusAndRequest
<1>3. (StatusAndRequest /\ ReadySheet)'
  BY DEF ProcessesHoldOps, Position, StatusAndRequest, OpenOperation, ReadySheet
<1>4. OpenOperation'
  BY DEF OpenOperation, Unfinished, ProcessesHoldOps
<1>5. (LiveRequests /\ RowsFromRequests)'
  BY DEF LiveRequests, RowsFromRequests, Live, Shut, Unfinished, Correctable,
         StatusAndRequest, Position, OpenOperation, ProcessesHoldOps
<1>6. ExactIsProof'
  BY DEF ExactIsProof, ProcessesHoldOps, StatusAndRequest
<1> QED BY <1>1, <1>2, <1>3, <1>4, <1>5, <1>6

LEMMA MarkPossiblySentInv ==
  ASSUME IInv, MarkPossiblySent
  PROVE  IInv'
<1> USE DEF IInv, MarkPossiblySent, Goto, Subj, MayMark, BootstrapAllows
<1>1. TypeOK'
  BY DEF Statuses, Codes, OpStates, Certainties, Observations, PCs, ProcessesHoldOps
<1>2. (ProcessesHoldOps /\ Position)'
  BY DEF ProcessesHoldOps, Position, StatusAndRequest
<1>3. (StatusAndRequest /\ ReadySheet)'
  BY DEF ProcessesHoldOps, Position, StatusAndRequest, OpenOperation, ReadySheet
<1>4. OpenOperation'
  BY DEF OpenOperation, Unfinished, ProcessesHoldOps
<1>5. (LiveRequests /\ RowsFromRequests)'
  BY DEF LiveRequests, RowsFromRequests, Live, Shut, Unfinished, Correctable,
         StatusAndRequest, Position, OpenOperation, ProcessesHoldOps
<1>6. ExactIsProof'
  BY DEF ExactIsProof, ProcessesHoldOps, StatusAndRequest
<1> QED BY <1>1, <1>2, <1>3, <1>4, <1>5, <1>6

LEMMA SendInv ==
  ASSUME IInv, Send
  PROVE  IInv'
<1> USE DEF IInv, Send, Goto
<1>1. TypeOK'
  BY DEF Statuses, Codes, OpStates, Certainties, Observations, PCs, ProcessesHoldOps
<1>2. (ProcessesHoldOps /\ Position)'
  BY DEF ProcessesHoldOps, Position, StatusAndRequest
<1>3. (StatusAndRequest /\ ReadySheet)'
  BY DEF ProcessesHoldOps, Position, StatusAndRequest, OpenOperation, ReadySheet
<1>4. OpenOperation'
  BY DEF OpenOperation, Unfinished, ProcessesHoldOps
<1>5. (LiveRequests /\ RowsFromRequests)'
  BY DEF LiveRequests, RowsFromRequests, Live, Shut, Unfinished, Correctable,
         StatusAndRequest, Position, OpenOperation, ProcessesHoldOps
<1>6. ExactIsProof'
  BY DEF ExactIsProof, ProcessesHoldOps, StatusAndRequest
<1> QED BY <1>1, <1>2, <1>3, <1>4, <1>5, <1>6

LEMMA HearAnswerInv ==
  ASSUME IInv, HearAnswer
  PROVE  IInv'
<1> USE DEF IInv, HearAnswer, Goto
<1>1. TypeOK'
  BY DEF Statuses, Codes, OpStates, Certainties, Observations, PCs, ProcessesHoldOps
<1>2. (ProcessesHoldOps /\ Position)'
  BY DEF ProcessesHoldOps, Position, StatusAndRequest
<1>3. (StatusAndRequest /\ ReadySheet)'
  BY DEF ProcessesHoldOps, Position, StatusAndRequest, OpenOperation, ReadySheet
<1>4. OpenOperation'
  BY DEF OpenOperation, Unfinished, ProcessesHoldOps
<1>5. (LiveRequests /\ RowsFromRequests)'
  BY DEF LiveRequests, RowsFromRequests, Live, Shut, Unfinished, Correctable,
         StatusAndRequest, Position, OpenOperation, ProcessesHoldOps
<1>6. ExactIsProof'
  BY DEF ExactIsProof, ProcessesHoldOps, StatusAndRequest
<1> QED BY <1>1, <1>2, <1>3, <1>4, <1>5, <1>6

LEMMA RecordProbeInv ==
  ASSUME IInv, NEW p \in Procs, RecordProbe(p)
  PROVE  IInv'
<1> USE DEF IInv, RecordProbe, Goto, Exit
<1>1. TypeOK'
  BY DEF Statuses, Codes, OpStates, Certainties, Observations, PCs, ProcessesHoldOps
<1>2. (ProcessesHoldOps /\ Position)'
  BY DEF ProcessesHoldOps, Position, StatusAndRequest
<1>3. (StatusAndRequest /\ ReadySheet)'
  BY DEF ProcessesHoldOps, Position, StatusAndRequest, OpenOperation, ReadySheet
<1>4. OpenOperation'
  BY DEF OpenOperation, Unfinished, ProcessesHoldOps
<1>5. (LiveRequests /\ RowsFromRequests)'
  BY DEF LiveRequests, RowsFromRequests, Live, Shut, Unfinished, Correctable,
         StatusAndRequest, Position, OpenOperation, ProcessesHoldOps
<1>6. ExactIsProof'
  BY DEF ExactIsProof, ProcessesHoldOps, StatusAndRequest
<1> QED BY <1>1, <1>2, <1>3, <1>4, <1>5, <1>6

LEMMA ChooseInv ==
  ASSUME IInv, NEW r \in Reconcilers, NEW o \in OpIds, Choose(r, o)
  PROVE  IInv'
<1> USE DEF IInv, Choose
<1>1. TypeOK'
  BY DEF Statuses, Codes, OpStates, Certainties, Observations, PCs, ProcessesHoldOps
<1>2. (ProcessesHoldOps /\ Position)'
  BY DEF ProcessesHoldOps, Position, StatusAndRequest
<1>3. (StatusAndRequest /\ ReadySheet)'
  BY DEF ProcessesHoldOps, Position, StatusAndRequest, OpenOperation, ReadySheet
<1>4. OpenOperation'
  BY DEF OpenOperation, Unfinished, ProcessesHoldOps
<1>5. (LiveRequests /\ RowsFromRequests)'
  BY DEF LiveRequests, RowsFromRequests, Live, Shut, Unfinished, Correctable,
         StatusAndRequest, Position, OpenOperation, ProcessesHoldOps
<1>6. ExactIsProof'
  BY DEF ExactIsProof, ProcessesHoldOps, StatusAndRequest
<1> QED BY <1>1, <1>2, <1>3, <1>4, <1>5, <1>6

LEMMA AcquireProbeInv ==
  ASSUME IInv, NEW r \in Reconcilers, AcquireProbe(r)
  PROVE  IInv'
<1> USE DEF IInv, AcquireProbe, Exit, MayProbe
<1>1. TypeOK'
  BY DEF Statuses, Codes, OpStates, Certainties, Observations, PCs, ProcessesHoldOps
<1>2. (ProcessesHoldOps /\ Position)'
  BY DEF ProcessesHoldOps, Position, StatusAndRequest
<1>3. (StatusAndRequest /\ ReadySheet)'
  BY DEF ProcessesHoldOps, Position, StatusAndRequest, OpenOperation, ReadySheet
<1>4. OpenOperation'
  BY DEF OpenOperation, Unfinished, ProcessesHoldOps
<1>5. (LiveRequests /\ RowsFromRequests)'
  BY DEF LiveRequests, RowsFromRequests, Live, Shut, Unfinished, Correctable,
         StatusAndRequest, Position, OpenOperation, ProcessesHoldOps
<1>6. ExactIsProof'
  BY DEF ExactIsProof, ProcessesHoldOps, StatusAndRequest
<1> QED BY <1>1, <1>2, <1>3, <1>4, <1>5, <1>6

LEMMA RetryBlockedInv ==
  ASSUME IInv, NEW o \in OpIds, RetryBlocked(o)
  PROVE  IInv'
<1> USE DEF IInv, RetryBlocked
<1>1. TypeOK'
  BY DEF Statuses, Codes, OpStates, Certainties, Observations, PCs, ProcessesHoldOps
<1>2. (ProcessesHoldOps /\ Position)'
  BY DEF ProcessesHoldOps, Position, StatusAndRequest
<1>3. (StatusAndRequest /\ ReadySheet)'
  BY DEF ProcessesHoldOps, Position, StatusAndRequest, OpenOperation, ReadySheet
<1>4. OpenOperation'
  BY DEF OpenOperation, Unfinished, ProcessesHoldOps
<1>5. (LiveRequests /\ RowsFromRequests)'
  BY DEF LiveRequests, RowsFromRequests, Live, Shut, Unfinished, Correctable,
         StatusAndRequest, Position, OpenOperation, ProcessesHoldOps
<1>6. ExactIsProof'
  BY DEF ExactIsProof, ProcessesHoldOps, StatusAndRequest
<1> QED BY <1>1, <1>2, <1>3, <1>4, <1>5, <1>6

LEMMA LandInv ==
  ASSUME IInv, NEW o \in OpIds, Land(o)
  PROVE  IInv'
<1> USE DEF IInv, Land
<1>1. TypeOK'
  BY DEF Statuses, Codes, OpStates, Certainties, Observations, PCs, ProcessesHoldOps
<1>2. (ProcessesHoldOps /\ Position)'
  BY DEF ProcessesHoldOps, Position, StatusAndRequest
<1>3. (StatusAndRequest /\ ReadySheet)'
  BY DEF ProcessesHoldOps, Position, StatusAndRequest, OpenOperation, ReadySheet
<1>4. OpenOperation'
  BY DEF OpenOperation, Unfinished, ProcessesHoldOps
<1>5. (LiveRequests /\ RowsFromRequests)'
  BY SMTT(30) DEF LiveRequests, RowsFromRequests, Live, Shut, Unfinished, Correctable,
                  StatusAndRequest, Position, OpenOperation, ProcessesHoldOps
<1>6. ExactIsProof'
  BY DEF ExactIsProof, ProcessesHoldOps, StatusAndRequest
<1> QED BY <1>1, <1>2, <1>3, <1>4, <1>5, <1>6

LEMMA RefuseInv ==
  ASSUME IInv, NEW o \in OpIds, Refuse(o)
  PROVE  IInv'
<1> USE DEF IInv, Refuse
<1>1. TypeOK'
  BY DEF Statuses, Codes, OpStates, Certainties, Observations, PCs, ProcessesHoldOps
<1>2. (ProcessesHoldOps /\ Position)'
  BY DEF ProcessesHoldOps, Position, StatusAndRequest
<1>3. (StatusAndRequest /\ ReadySheet)'
  BY DEF ProcessesHoldOps, Position, StatusAndRequest, OpenOperation, ReadySheet
<1>4. OpenOperation'
  BY DEF OpenOperation, Unfinished, ProcessesHoldOps
<1>5. (LiveRequests /\ RowsFromRequests)'
  BY DEF LiveRequests, RowsFromRequests, Live, Shut, Unfinished, Correctable,
         StatusAndRequest, Position, OpenOperation, ProcessesHoldOps
<1>6. ExactIsProof'
  BY DEF ExactIsProof, ProcessesHoldOps, StatusAndRequest
<1> QED BY <1>1, <1>2, <1>3, <1>4, <1>5, <1>6

LEMMA LeaseLapsesInv ==
  ASSUME IInv, NEW o \in OpIds, LeaseLapses(o)
  PROVE  IInv'
<1> USE DEF IInv, LeaseLapses
<1>1. TypeOK'
  BY DEF Statuses, Codes, OpStates, Certainties, Observations, PCs, ProcessesHoldOps
<1>2. (ProcessesHoldOps /\ Position)'
  BY DEF ProcessesHoldOps, Position, StatusAndRequest
<1>3. (StatusAndRequest /\ ReadySheet)'
  BY DEF ProcessesHoldOps, Position, StatusAndRequest, OpenOperation, ReadySheet
<1>4. OpenOperation'
  BY DEF OpenOperation, Unfinished, ProcessesHoldOps
<1>5. (LiveRequests /\ RowsFromRequests)'
  BY DEF LiveRequests, RowsFromRequests, Live, Shut, Unfinished, Correctable,
         StatusAndRequest, Position, OpenOperation, ProcessesHoldOps
<1>6. ExactIsProof'
  BY DEF ExactIsProof, ProcessesHoldOps, StatusAndRequest
<1> QED BY <1>1, <1>2, <1>3, <1>4, <1>5, <1>6

LEMMA RetryComesDueInv ==
  ASSUME IInv, NEW s \in Subjects, RetryComesDue(s)
  PROVE  IInv'
<1> USE DEF IInv, RetryComesDue
<1>1. TypeOK'
  BY DEF Statuses, Codes, OpStates, Certainties, Observations, PCs, ProcessesHoldOps
<1>2. (ProcessesHoldOps /\ Position)'
  BY DEF ProcessesHoldOps, Position, StatusAndRequest
<1>3. (StatusAndRequest /\ ReadySheet)'
  BY DEF ProcessesHoldOps, Position, StatusAndRequest, OpenOperation, ReadySheet
<1>4. OpenOperation'
  BY DEF OpenOperation, Unfinished, ProcessesHoldOps
<1>5. (LiveRequests /\ RowsFromRequests)'
  BY DEF LiveRequests, RowsFromRequests, Live, Shut, Unfinished, Correctable,
         StatusAndRequest, Position, OpenOperation, ProcessesHoldOps
<1>6. ExactIsProof'
  BY DEF ExactIsProof, ProcessesHoldOps, StatusAndRequest
<1> QED BY <1>1, <1>2, <1>3, <1>4, <1>5, <1>6

LEMMA EditTemplateInv ==
  ASSUME IInv, EditTemplate
  PROVE  IInv'
<1> USE DEF IInv, EditTemplate
<1>1. TypeOK'
  BY DEF Statuses, Codes, OpStates, Certainties, Observations, PCs, ProcessesHoldOps
<1>2. (ProcessesHoldOps /\ Position)'
  BY DEF ProcessesHoldOps, Position, StatusAndRequest
<1>3. (StatusAndRequest /\ ReadySheet)'
  BY DEF ProcessesHoldOps, Position, StatusAndRequest, OpenOperation, ReadySheet
<1>4. OpenOperation'
  BY DEF OpenOperation, Unfinished, ProcessesHoldOps
<1>5. (LiveRequests /\ RowsFromRequests)'
  BY DEF LiveRequests, RowsFromRequests, Live, Shut, Unfinished, Correctable,
         StatusAndRequest, Position, OpenOperation, ProcessesHoldOps
<1>6. ExactIsProof'
  BY DEF ExactIsProof, ProcessesHoldOps, StatusAndRequest
<1> QED BY <1>1, <1>2, <1>3, <1>4, <1>5, <1>6

LEMMA ReleaseInv ==
  ASSUME IInv, NEW p \in Procs, pc[p] # "idle", Release(p)
  PROVE  IInv'
<1> USE DEF IInv, Release, Exit
<1>1. TypeOK'
  BY DEF Statuses, Codes, OpStates, Certainties, Observations, PCs, ProcessesHoldOps
<1>2. (ProcessesHoldOps /\ Position)'
  BY DEF ProcessesHoldOps, Position, StatusAndRequest
<1>3. (StatusAndRequest /\ ReadySheet)'
  BY DEF ProcessesHoldOps, Position, StatusAndRequest, OpenOperation, ReadySheet
<1>4. OpenOperation'
  BY DEF OpenOperation, Unfinished, ProcessesHoldOps
<1>5. (LiveRequests /\ RowsFromRequests)'
  BY DEF LiveRequests, RowsFromRequests, Live, Shut, Unfinished, Correctable,
         StatusAndRequest, Position, OpenOperation, ProcessesHoldOps
<1>6. ExactIsProof'
  BY DEF ExactIsProof, ProcessesHoldOps, StatusAndRequest
<1> QED BY <1>1, <1>2, <1>3, <1>4, <1>5, <1>6

-----------------------------------------------------------------------------
(* Theorems *)

LEMMA SettleInv ==
  ASSUME IInv, NEW p \in Procs, Settle(p)
  PROVE  IInv'
<1>1. CASE FinishDelivered(p, "applied") /\ pc[p] # "idle"
  BY <1>1, FinishDeliveredInv
<1>2. CASE FinishBlocked(p, ConflictOutcome(p)) /\ pc[p] # "idle"
  BY <1>2, FinishBlockedInv DEF ConflictOutcome
<1>3. CASE Release(p) /\ pc[p] # "idle"
  BY <1>3, ReleaseInv
<1> QED BY <1>1, <1>2, <1>3 DEF Settle

LEMMA FinishPreflightInv ==
  ASSUME IInv, FinishPreflight
  PROVE  IInv'
<1>1. CASE FinishDelivered(Mutator, "reused") /\ pc[Mutator] # "idle"
  BY <1>1, FinishDeliveredInv
<1>2. CASE FinishBlocked(Mutator, "duplicate_metadata") /\ pc[Mutator] # "idle"
  BY <1>2, FinishBlockedInv
<1>3. CASE FinishBlocked(Mutator, "conflicting_metadata") /\ pc[Mutator] # "idle"
  BY <1>3, FinishBlockedInv
<1> QED BY <1>1, <1>2, <1>3 DEF FinishPreflight

LEMMA InitInv == Init => IInv
<1> SUFFICES ASSUME Init PROVE IInv
  OBVIOUS
<1> USE DEF Init
<1>1. /\ rows \in [Subjects -> Nat] /\ status \in [Subjects -> Statuses]
      /\ \A h \in Handoffs : rows[h] = 0 /\ status[h] = "none"
      /\ \/ status[Bootstrap] = "uninitialized"
         \/ status[Bootstrap] = "delivered" /\ rows[Bootstrap] = 1
  BY DEF Statuses
<1>2. TypeOK
  BY <1>1 DEF Statuses, Codes, OpStates, Certainties, Observations, PCs
<1>3. ProcessesHoldOps /\ Position /\ StatusAndRequest /\ OpenOperation
  BY <1>1 DEF ProcessesHoldOps, Position, StatusAndRequest, OpenOperation, Unfinished
<1>4. LiveRequests /\ RowsFromRequests /\ ReadySheet
  BY <1>1 DEF LiveRequests, Live, RowsFromRequests, ReadySheet
<1>5. ExactIsProof
  <2>1. \A s \in Subjects : status[s] = "delivered" => rows[s] > 0
    BY <1>1
  <2>2. \A o \in OpIds : preflight[o] # "exact" /\ probe[o] # "exact"
    OBVIOUS
  <2>3. \A p \in Procs : pc[p] = "idle"
    OBVIOUS
  <2> QED BY <2>1, <2>2, <2>3 DEF ExactIsProof
<1> QED BY <1>2, <1>3, <1>4, <1>5 DEF IInv

LEMMA StutterInv == IInv /\ UNCHANGED vars => IInv'
<1> SUFFICES ASSUME IInv, UNCHANGED vars PROVE IInv'
  OBVIOUS
<1> USE DEF vars, IInv
<1>1. (TypeOK /\ ProcessesHoldOps /\ Position /\ StatusAndRequest)'
  BY DEF ProcessesHoldOps, Position, StatusAndRequest
<1>2. (OpenOperation /\ LiveRequests /\ RowsFromRequests)'
  BY DEF OpenOperation, Unfinished, LiveRequests, Live, Shut, RowsFromRequests
<1>3. (ExactIsProof /\ ReadySheet)'
  BY DEF ExactIsProof, ReadySheet
<1> QED BY <1>1, <1>2, <1>3

LEMMA CrashInv ==
  ASSUME IInv, NEW p \in Procs, Crash(p)
  PROVE  IInv'
BY ExitInv DEF Crash

LEMMA NextInv == IInv /\ [Next]_vars => IInv'
<1> SUFFICES ASSUME IInv, [Next]_vars PROVE IInv'
  OBVIOUS
<1>1. CASE \E h \in Handoffs : Enqueue(h) \/ EditMarker(h)
  BY <1>1, EnqueueInv, EditMarkerInv
<1>2. CASE Recover \/ \E s \in Subjects, o \in OpIds : Acquire(s, o)
  BY <1>2, RecoverInv, AcquireInv
<1>3. CASE MutatorStep
  BY <1>3, PrepareInv, RecordPreflightInv, FinishPreflightInv,
     MarkPossiblySentInv, RefuseMarkInv, SendInv, HearAnswerInv, ReadBackInv,
     SettleRefusalInv, RecordProbeInv, SettleInv DEF MutatorStep
<1>4. CASE \E r \in Reconcilers : ReconcilerStep(r) \/ \E o \in OpIds : Choose(r, o)
  BY <1>4, AcquireProbeInv, ReadProbeInv, RecordProbeInv, SettleInv, ChooseInv
     DEF ReconcilerStep
<1>5. CASE \E o \in OpIds : RetryBlocked(o) \/ Land(o) \/ Refuse(o) \/ LeaseLapses(o)
  BY <1>5, RetryBlockedInv, LandInv, RefuseInv, LeaseLapsesInv
<1>6. CASE (\E s \in Subjects : RetryComesDue(s)) \/ EditTemplate
  BY <1>6, RetryComesDueInv, EditTemplateInv
<1>7. CASE \E p \in Procs : Crash(p)
  BY <1>7, CrashInv
<1>8. CASE UNCHANGED vars
  BY <1>8, StutterInv
<1> QED BY <1>1, <1>2, <1>3, <1>4, <1>5, <1>6, <1>7, <1>8 DEF Next

(* The inductive invariant holds of every reachable state. *)
THEOREM Invariance == Spec => []IInv
BY InitInv, NextInv, PTL DEF Spec

(* Every variable keeps its type. *)
THEOREM TypeCorrect == Spec => []TypeOK
BY Invariance, PTL DEF IInv

(* No approved content reaches the sheet twice. *)
THEOREM NoDuplicateRow == Spec => []AtMostOneRow
<1>1. IInv => AtMostOneRow
  BY DEF IInv, RowsFromRequests, AtMostOneRow
<1> QED BY <1>1, Invariance, PTL

(* A delivered handoff, or a ready bootstrap, is in the sheet. *)
THEOREM DeliveryIsReal == Spec => []DeliveredIsInSheet
<1>1. IInv => DeliveredIsInSheet
  BY DEF IInv, ExactIsProof, DeliveredIsInSheet
<1> QED BY <1>1, Invariance, PTL

(* What was abandoned or rejected has no request that can still land. *)
THEOREM ClosedMeansClosed == Spec => []NotAppliedIsFinal
<1>1. IInv => NotAppliedIsFinal
  BY DEF IInv, StatusAndRequest, Position, NotAppliedIsFinal
<1> QED BY <1>1, Invariance, PTL

(* A subject's status is the one its open operation implies. *)
THEOREM TablesAgree == Spec => []SubjectTracksOperation
<1>1. IInv => SubjectTracksOperation
  BY DEF IInv, OpenOperation, SubjectTracksOperation
<1> QED BY <1>1, Invariance, PTL

(* Rows are requested only of a sheet whose controls are installed. *)
THEOREM ReadyBeforeDispatch == Spec => []DispatchNeedsReadySheet
<1>1. IInv => DispatchNeedsReadySheet
  BY DEF IInv, ReadySheet, ExactIsProof, StatusAndRequest, DispatchNeedsReadySheet
<1> QED BY <1>1, Invariance, PTL

(* A step that starts an operation is an acquisition. *)
LEMMA StartIsAcquire ==
  ASSUME IInv, Next, NEW o \in OpIds, state[o] = "unused", state'[o] = "acquired"
  PROVE  \E s \in Subjects : Acquire(s, o)
<1> USE DEF IInv
<1>1. CASE \E h \in Handoffs : Enqueue(h) \/ EditMarker(h)
  BY <1>1 DEF Enqueue, EditMarker
<1>2. CASE Recover
  BY <1>2 DEF Recover, RecoverStale, RecoveredState
<1>3. CASE \E s \in Subjects, q \in OpIds : Acquire(s, q)
  <2>1. PICK s \in Subjects, q \in OpIds : Acquire(s, q)
    BY <1>3
  <2>2. q = o
    BY <2>1 DEF Acquire, RecoveredState
  <2> QED BY <2>1, <2>2
<1>4. CASE MutatorStep
  <2>1. CASE Prepare \/ RecordPreflight \/ Send \/ HearAnswer \/ ReadBack \/ RecordProbe(Mutator)
    BY <2>1 DEF Prepare, RecordPreflight, Send, HearAnswer, ReadBack, RecordProbe
  <2>2. CASE MarkPossiblySent \/ RefuseMark
    BY <2>2 DEF MarkPossiblySent, RefuseMark, RecoverStale, RecoveredState
  <2>3. CASE FinishPreflight
    BY <2>3 DEF FinishPreflight, FinishDelivered, FinishBlocked, CloseOperation
  <2>5. CASE SettleRefusal
    BY <2>5, SMTT(30), ZenonT(40) DEF SettleRefusal, CloseOperation
  <2>4. CASE Settle(Mutator)
    BY <2>4 DEF Settle, FinishDelivered, FinishBlocked, CloseOperation, Release
  <2> QED BY <1>4, <2>1, <2>2, <2>3, <2>4, <2>5 DEF MutatorStep
<1>5. CASE \E r \in Reconcilers : ReconcilerStep(r) \/ \E q \in OpIds : Choose(r, q)
  <2>1. PICK r \in Reconcilers : ReconcilerStep(r) \/ \E q \in OpIds : Choose(r, q)
    BY <1>5
  <2>2. CASE AcquireProbe(r) \/ ReadProbe(r) \/ RecordProbe(r) \/ \E q \in OpIds : Choose(r, q)
    BY <2>2 DEF AcquireProbe, ReadProbe, RecordProbe, Choose
  <2>3. CASE Settle(r)
    BY <2>3 DEF Settle, FinishDelivered, FinishBlocked, CloseOperation, Release
  <2> QED BY <2>1, <2>2, <2>3 DEF ReconcilerStep
<1>6. CASE \E q \in OpIds : RetryBlocked(q) \/ Land(q) \/ Refuse(q) \/ LeaseLapses(q)
  BY <1>6 DEF RetryBlocked, Land, Refuse, LeaseLapses
<1>7. CASE (\E s \in Subjects : RetryComesDue(s)) \/ EditTemplate \/ \E p \in Procs : Crash(p)
  BY <1>7 DEF RetryComesDue, EditTemplate, Crash
<1> QED BY <1>1, <1>2, <1>3, <1>4, <1>5, <1>6, <1>7 DEF Next

(* No handoff is sent again while an earlier request of it may still count. *)
THEOREM SendOnce == Spec => NeverResend
<1>1. IInv /\ [Next]_vars => [StartsAfterRefusals]_vars
  <2> SUFFICES ASSUME IInv, Next, NEW o \in OpIds, NEW q \in OpIds,
                      state[o] = "unused", state'[o] = "acquired",
                      subject'[o] \in Handoffs, subject[q] = subject'[o], dispatched[q]
               PROVE  wire[q] = "refused"
    BY DEF StartsAfterRefusals
  <2>1. PICK s \in Subjects : Acquire(s, o)
    BY StartIsAcquire
  <2>2. s = subject[q]
    BY <2>1 DEF Acquire, IInv
  <2>3. status[s] \notin {"delivered", "blocked"}
    BY <2>1 DEF Acquire, Acquirable, RecoveredStatus, StaleSubjects, Stale, IInv, OpenOperation
  <2>4. state[q] # "possibly_sent"
    BY <2>1 DEF Acquire, NoneOpen, RecoveredState, Stale
  <2> QED BY <2>2, <2>3, <2>4 DEF IInv, LiveRequests, Live, Shut
<1> QED BY <1>1, Invariance, PTL DEF Spec, NeverResend

(* Whoever changes an operation holds the fence it is at. *)
THEOREM WritesAreFenced == Spec => FencedWrites
<1>1. TypeOK /\ [Next]_vars => [WriterHoldsFence]_vars
  <2> SUFFICES ASSUME TypeOK, Next, NEW p \in Procs, pc[p] \notin {"idle", "chosen"},
                      pc'[p] # pc[p], opVars' # opVars
               PROVE  Owns(p)
    BY DEF WriterHoldsFence, Owns
  <2>1. CASE \E h \in Handoffs : Enqueue(h) \/ EditMarker(h)
    BY <2>1 DEF Enqueue, EditMarker
  <2>2. CASE Recover \/ \E s \in Subjects, o \in OpIds : Acquire(s, o)
    BY <2>2 DEF Recover, Acquire
  <2>3. CASE MutatorStep
    <3>1. CASE Prepare \/ Send \/ HearAnswer \/ ReadBack
      BY <3>1 DEF Prepare, Send, HearAnswer, ReadBack
    <3>2. CASE RecordPreflight \/ RecordProbe(Mutator)
      BY <3>2 DEF RecordPreflight, RecordProbe, Goto, Exit
    <3>3. CASE MarkPossiblySent \/ RefuseMark
      BY <3>3 DEF MarkPossiblySent, RefuseMark, MayMark, Goto, Exit
    <3>4. CASE FinishPreflight \/ SettleRefusal
      BY <3>4 DEF FinishPreflight, SettleRefusal, FinishDelivered, FinishBlocked,
         MayFinish, Exit
    <3>5. CASE Settle(Mutator)
      BY <3>5 DEF Settle, FinishDelivered, FinishBlocked, MayFinish, Release, Exit
    <3> QED BY <2>3, <3>1, <3>2, <3>3, <3>4, <3>5 DEF MutatorStep
  <2>4. CASE \E r \in Reconcilers : ReconcilerStep(r)
    <3>1. PICK r \in Reconcilers : ReconcilerStep(r)
      BY <2>4
    <3>2. CASE AcquireProbe(r) \/ ReadProbe(r)
      BY <3>2 DEF AcquireProbe, ReadProbe, Exit
    <3>3. CASE RecordProbe(r)
      BY <3>3 DEF RecordProbe, Goto, Exit
    <3>4. CASE Settle(r)
      BY <3>4 DEF Settle, FinishDelivered, FinishBlocked, MayFinish, Release, Exit
    <3> QED BY <3>1, <3>2, <3>3, <3>4 DEF ReconcilerStep
  <2>5. CASE \E r \in Reconcilers, o \in OpIds : Choose(r, o)
    BY <2>5 DEF Choose
  <2>6. CASE \E o \in OpIds : RetryBlocked(o) \/ Land(o) \/ Refuse(o) \/ LeaseLapses(o)
    BY <2>6 DEF RetryBlocked, Land, Refuse, LeaseLapses
  <2>7. CASE (\E s \in Subjects : RetryComesDue(s)) \/ EditTemplate
    BY <2>7 DEF RetryComesDue, EditTemplate
  <2>8. CASE \E q \in Procs : Crash(q)
    BY <2>8 DEF Crash
  <2> QED BY <2>1, <2>2, <2>3, <2>4, <2>5, <2>6, <2>7, <2>8 DEF Next
<1> QED BY <1>1, TypeCorrect, PTL DEF Spec, FencedWrites

-----------------------------------------------------------------------------
(* SheetHandoff implements AppendOnce *)

Decided == {"delivered", "blocked"}

-----------------------------------------------------------------------------
(* What a step must leave alone for AppendOnce not to see it *)

LEMMA SameVerdict ==
  ASSUME \A h \in Handoffs : \/ status'[h] = status[h]
                             \/ {status[h], status'[h]} \cap Decided = {}
  PROVE  Verdict' = Verdict
<1>1. \A h \in Handoffs : Verdict'[h] = Verdict[h]
  BY DEF Verdict, Decided
<1> QED BY <1>1 DEF Verdict

LEMMA SameOutstanding ==
  ASSUME \A o \in OpIds : wire'[o] = wire[o],
         \A o \in OpIds : subject'[o] = subject[o] \/ wire[o] = "none"
  PROVE  Outstanding' = Outstanding
<1>1. \A h \in Handoffs : Outstanding'[h] = Outstanding[h]
  BY DEF Outstanding
<1> QED BY <1>1 DEF Outstanding

LEMMA Unseen ==
  ASSUME UNCHANGED <<rows, wire>>,
         \A o \in OpIds : subject'[o] = subject[o] \/ wire[o] = "none",
         \A h \in Handoffs : \/ status'[h] = status[h]
                             \/ {status[h], status'[h]} \cap Decided = {}
  PROVE  UNCHANGED Abstract!vars
BY SameVerdict, SameOutstanding DEF Abstract!vars, Landed

(* One handoff's verdict changes and nothing else AppendOnce can see. *)
LEMMA OneVerdict ==
  ASSUME NEW s \in Handoffs, NEW to \in Statuses, TypeOK,
         status' = [status EXCEPT ![s] = to]
  PROVE  Verdict' = [Verdict EXCEPT ![s] = IF to \in Decided THEN to ELSE "open"]
<1>1. \A h \in Handoffs :
        Verdict'[h] = IF h # s THEN Verdict[h]
                      ELSE IF to \in Decided THEN to ELSE "open"
  BY DEF Verdict, Decided
<1> QED BY <1>1 DEF Verdict

-----------------------------------------------------------------------------
(* The steps that AppendOnce sees *)

LEMMA SendRefines ==
  ASSUME IInv, Send
  PROVE  [Abstract!Next]_(Abstract!vars)
<1> USE DEF IInv
<1> DEFINE o == held[Mutator]
<1>1. /\ o \in OpIds /\ subject[o] \in Subjects /\ dispatched[o] /\ wire[o] = "none"
      /\ wire' = [wire EXCEPT ![o] = "inflight"]
      /\ UNCHANGED <<subjVars, opVars, sheetVars>>
  BY DEF Send, ProcessesHoldOps, Position
<1>2. CASE subject[o] = Bootstrap
  <2>1. \A h \in Handoffs : Outstanding'[h] = Outstanding[h]
    BY <1>1, <1>2 DEF Outstanding, opVars
  <2>2. Outstanding' = Outstanding
    BY <2>1 DEF Outstanding
  <2> QED BY <1>1, <2>2 DEF Abstract!vars, Landed, Verdict
<1>3. CASE subject[o] \in Handoffs
  <2> DEFINE h == subject[o]
  <2>1. \A q \in OpIds : subject[q] = h => wire[q] \in {"none", "refused"}
    BY <1>1, <1>3 DEF LiveRequests, Live, StatusAndRequest
  <2>2. Landed[h] = 0 /\ Outstanding[h] = {}
    <3>1. rows[h] = 0
      BY <2>1, <1>3 DEF RowsFromRequests
    <3> QED BY <2>1, <3>1, <1>3 DEF Landed, Outstanding
  <2>3. \A g \in Handoffs : Outstanding'[g] = IF g = h THEN {o} ELSE Outstanding[g]
    BY <2>1, <1>1 DEF Outstanding, opVars
  <2>4. Outstanding' = [Outstanding EXCEPT ![h] = {o}]
    BY <2>3 DEF Outstanding
  <2>5. UNCHANGED <<Verdict, Landed>>
    BY <1>1 DEF Verdict, Landed
  <2>6. Abstract!Request(h, o)
    BY <2>2, <2>4, <2>5 DEF Abstract!Request
  <2> QED BY <2>6, <1>1, <1>3 DEF Abstract!Next
<1> QED BY <1>1, <1>2, <1>3

LEMMA LandRefines ==
  ASSUME IInv, NEW o \in OpIds, Land(o)
  PROVE  [Abstract!Next]_(Abstract!vars)
<1> USE DEF IInv
<1> DEFINE h == subject[o]
<1>1. /\ wire[o] = "inflight" /\ wire' = [wire EXCEPT ![o] = "applied"]
      /\ rows' = [rows EXCEPT ![h] = @ + 1] /\ UNCHANGED <<subjVars, opVars>>
  BY DEF Land
<1>2. \A g \in Handoffs : Outstanding'[g] = Outstanding[g] \ {q \in {o} : g = h}
  BY <1>1 DEF Outstanding, opVars
<1>3. CASE h = Bootstrap
  <2>1. Outstanding' = Outstanding
    BY <1>2, <1>3 DEF Outstanding
  <2>2. Landed' = Landed /\ Verdict' = Verdict
    BY <1>1, <1>3 DEF Landed, Verdict
  <2> QED BY <2>1, <2>2 DEF Abstract!vars
<1>4. CASE h \in Handoffs
  <2>1. o \in Outstanding[h]
    BY <1>1, <1>4 DEF Outstanding
  <2>2. Outstanding' = [Outstanding EXCEPT ![h] = @ \ {o}]
    BY <1>2, <1>4 DEF Outstanding
  <2>3. Landed' = [Landed EXCEPT ![h] = @ + 1] /\ Verdict' = Verdict
    BY <1>1, <1>4 DEF Landed, Verdict
  <2>4. Abstract!Land(h, o)
    BY <2>1, <2>2, <2>3 DEF Abstract!Land
  <2> QED BY <2>4, <1>4 DEF Abstract!Next
<1> QED BY <1>3, <1>4

LEMMA RefuseRefines ==
  ASSUME IInv, NEW o \in OpIds, Refuse(o)
  PROVE  [Abstract!Next]_(Abstract!vars)
<1> USE DEF IInv
<1> DEFINE h == subject[o]
<1>1. /\ wire[o] = "inflight" /\ wire' = [wire EXCEPT ![o] = "refused"]
      /\ UNCHANGED <<rows, subjVars, opVars>>
  BY DEF Refuse
<1>2. \A g \in Handoffs : Outstanding'[g] = Outstanding[g] \ {q \in {o} : g = h}
  BY <1>1 DEF Outstanding, opVars
<1>3. Landed' = Landed /\ Verdict' = Verdict
  BY <1>1 DEF Landed, Verdict
<1>4. CASE h = Bootstrap
  <2>1. Outstanding' = Outstanding
    BY <1>2, <1>4 DEF Outstanding
  <2> QED BY <2>1, <1>3 DEF Abstract!vars
<1>5. CASE h \in Handoffs
  <2>1. o \in Outstanding[h]
    BY <1>1, <1>5 DEF Outstanding
  <2>2. Outstanding' = [Outstanding EXCEPT ![h] = @ \ {o}]
    BY <1>2, <1>5 DEF Outstanding
  <2>3. Abstract!Refuse(h, o)
    BY <2>1, <2>2, <1>3 DEF Abstract!Refuse
  <2> QED BY <2>3, <1>5 DEF Abstract!Next
<1> QED BY <1>4, <1>5

LEMMA RetryBlockedRefines ==
  ASSUME IInv, NEW o \in OpIds, RetryBlocked(o)
  PROVE  [Abstract!Next]_(Abstract!vars)
<1> USE DEF IInv
<1> DEFINE h == subject[o]
<1>1. /\ status[h] = "blocked" /\ code[h] \in Correctable
      /\ status' = [status EXCEPT ![h] = "retryable"]
      /\ \A q \in OpIds : state[q] # "possibly_sent"
      /\ UNCHANGED <<opVars, wire, rows>>
  BY DEF RetryBlocked, Unfinished
<1>2. CASE h = Bootstrap
  BY <1>1, <1>2, Unseen DEF opVars
<1>3. CASE h \in Handoffs
  <2>1. \A q \in OpIds : subject[q] = h => wire[q] \in {"none", "refused"}
    BY <1>1, <1>3 DEF LiveRequests, Live, Shut, StatusAndRequest
  <2>2. Landed[h] = 0 /\ Outstanding[h] = {}
    BY <2>1, <1>3 DEF Landed, Outstanding, RowsFromRequests
  <2>3. Verdict[h] = "blocked" /\ Verdict' = [Verdict EXCEPT ![h] = "open"]
    BY <1>1, <1>3, OneVerdict DEF Verdict, Statuses, Decided
  <2>4. UNCHANGED <<Outstanding, Landed>>
    BY <1>1, SameOutstanding DEF Landed, opVars
  <2>5. Abstract!Reopen(h)
    BY <2>2, <2>3, <2>4 DEF Abstract!Reopen
  <2> QED BY <2>5, <1>3 DEF Abstract!Next
<1> QED BY <1>2, <1>3

LEMMA FinishDeliveredRefines ==
  ASSUME IInv, NEW p \in Procs, pc[p] # "idle",
         NEW outcome \in {"reused", "applied"}, FinishDelivered(p, outcome)
  PROVE  [Abstract!Next]_(Abstract!vars)
<1> USE DEF IInv
<1> DEFINE h == Subj(p)
<1>1. CASE ~MayFinish(p, outcome)
  BY <1>1, Unseen DEF FinishDelivered, opVars
<1>2. CASE MayFinish(p, outcome)
  <2>1. /\ h \in Subjects /\ status[h] \in InFlight /\ rows[h] > 0
        /\ status' = [status EXCEPT ![h] = "delivered"]
        /\ UNCHANGED <<subject, wire, rows>>
    BY <1>2 DEF FinishDelivered, SetSubject, CloseOperation, MayFinish, Evident,
       ExactIsProof, ProcessesHoldOps, Subj
  <2>2. CASE h = Bootstrap
    BY <2>1, <2>2, Unseen
  <2>3. CASE h \in Handoffs
    <3>1. Verdict[h] = "open" /\ Landed[h] > 0
      BY <2>1, <2>3 DEF Verdict, Landed, InFlight
    <3>2. Verdict' = [Verdict EXCEPT ![h] = "delivered"]
      BY <2>1, <2>3, OneVerdict DEF Statuses, Decided
    <3>3. UNCHANGED <<Outstanding, Landed>>
      BY <2>1, SameOutstanding DEF Landed
    <3>4. Abstract!Deliver(h)
      BY <3>1, <3>2, <3>3 DEF Abstract!Deliver
    <3> QED BY <3>4, <2>3 DEF Abstract!Next
  <2> QED BY <2>1, <2>2, <2>3
<1> QED BY <1>1, <1>2

LEMMA BlockRefines ==
  ASSUME TypeOK, NEW h \in Subjects, status[h] \in InFlight,
         status' = [status EXCEPT ![h] = "blocked"],
         UNCHANGED <<subject, wire, rows>>
  PROVE  [Abstract!Next]_(Abstract!vars)
<1>1. CASE h = Bootstrap
  BY <1>1, Unseen
<1>2. CASE h \in Handoffs
  <2>1. Verdict[h] = "open"
    BY <1>2 DEF Verdict, InFlight
  <2>2. Verdict' = [Verdict EXCEPT ![h] = "blocked"]
    BY <1>2, OneVerdict DEF Statuses, Decided
  <2>3. UNCHANGED <<Outstanding, Landed>>
    BY SameOutstanding DEF Landed
  <2>4. Abstract!Block(h)
    BY <2>1, <2>2, <2>3 DEF Abstract!Block
  <2> QED BY <2>4, <1>2 DEF Abstract!Next
<1> QED BY <1>1, <1>2

LEMMA FinishBlockedRefines ==
  ASSUME IInv, NEW p \in Procs, pc[p] # "idle", NEW outcome, FinishBlocked(p, outcome)
  PROVE  [Abstract!Next]_(Abstract!vars)
<1> USE DEF IInv
<1>1. CASE ~MayFinish(p, outcome)
  BY <1>1, Unseen DEF FinishBlocked, opVars
<1>2. CASE MayFinish(p, outcome)
  BY <1>2, BlockRefines DEF FinishBlocked, SetSubject, CloseOperation, MayFinish,
     ProcessesHoldOps, Subj
<1> QED BY <1>1, <1>2

LEMMA SettleRefusalRefines ==
  ASSUME IInv, SettleRefusal
  PROVE  [Abstract!Next]_(Abstract!vars)
<1> USE DEF IInv
<1> DEFINE s == Subj(Mutator)
<1>1. s \in Subjects
  BY DEF SettleRefusal, ProcessesHoldOps, Subj
<1>2. CASE UNCHANGED <<opVars, subjVars>>
  BY <1>2, Unseen DEF SettleRefusal, opVars
<1>3. CASE /\ status[s] \in InFlight /\ UNCHANGED subject
           /\ status' = [status EXCEPT ![s] = "retryable"]
  BY <1>1, <1>3, Unseen DEF SettleRefusal, InFlight, Decided
<1>4. CASE /\ status[s] \in InFlight /\ UNCHANGED subject
           /\ status' = [status EXCEPT ![s] = "blocked"]
  BY <1>1, <1>4, BlockRefines DEF SettleRefusal
<1> QED BY <1>2, <1>3, <1>4 DEF SettleRefusal, CloseOperation, SetSubject

-----------------------------------------------------------------------------
(* The steps that AppendOnce does not see *)

LEMMA RecoverStaleUnseen ==
  ASSUME IInv, RecoverStale, UNCHANGED <<rows, wire>>
  PROVE  UNCHANGED Abstract!vars
<1>1. \A h \in Handoffs : \/ status'[h] = status[h]
                          \/ {status[h], status'[h]} \cap Decided = {}
  BY DEF RecoverStale, RecoveredStatus, StaleSubjects, Stale, Decided, IInv, OpenOperation
<1> QED BY <1>1, Unseen DEF RecoverStale

LEMMA AcquireUnseen ==
  ASSUME IInv, NEW s \in Subjects, NEW o \in OpIds, Acquire(s, o)
  PROVE  UNCHANGED Abstract!vars
<1> USE DEF IInv
<1>1. \A h \in StaleSubjects : status[h] = "working"
  BY DEF StaleSubjects, Stale, OpenOperation
<1>2. \A h \in Handoffs : \/ status'[h] = status[h]
                          \/ {status[h], status'[h]} \cap Decided = {}
  BY <1>1 DEF Acquire, Acquirable, RecoveredStatus, Decided
<1>3. \A q \in OpIds : subject'[q] = subject[q] \/ wire[q] = "none"
  BY DEF Acquire, StatusAndRequest
<1>4. UNCHANGED <<rows, wire>>
  BY DEF Acquire
<1> QED BY <1>2, <1>3, <1>4, Unseen

-----------------------------------------------------------------------------

LEMMA MutatorRefines ==
  ASSUME IInv, MutatorStep
  PROVE  [Abstract!Next]_(Abstract!vars)
<1>1. CASE Prepare \/ RecordPreflight \/ HearAnswer \/ ReadBack \/ RecordProbe(Mutator)
  BY <1>1, Unseen DEF Prepare, RecordPreflight, HearAnswer, ReadBack, RecordProbe, opVars
<1>2. CASE MarkPossiblySent
  <2>1. status' = [status EXCEPT ![Subj(Mutator)] = "ambiguous"]
        /\ status[Subj(Mutator)] = "working" /\ UNCHANGED <<subject, rows, wire>>
    BY <1>2 DEF MarkPossiblySent, IInv, OpenOperation, ProcessesHoldOps, Subj
  <2> QED BY <2>1, Unseen DEF Decided, IInv
<1>3. CASE RefuseMark
  BY <1>3, RecoverStaleUnseen, Unseen DEF RefuseMark, opVars
<1>4. CASE Send
  BY <1>4, SendRefines
<1>5. CASE SettleRefusal
  BY <1>5, SettleRefusalRefines
<1>6. CASE FinishPreflight
  BY <1>6, FinishDeliveredRefines, FinishBlockedRefines DEF FinishPreflight
<1>7. CASE Settle(Mutator)
  BY <1>7, FinishDeliveredRefines, FinishBlockedRefines, Unseen DEF Settle, Release
<1> QED BY <1>1, <1>2, <1>3, <1>4, <1>5, <1>6, <1>7 DEF MutatorStep

LEMMA ReconcilerRefines ==
  ASSUME IInv, NEW r \in Reconcilers, ReconcilerStep(r)
  PROVE  [Abstract!Next]_(Abstract!vars)
<1>1. CASE AcquireProbe(r) \/ ReadProbe(r) \/ RecordProbe(r)
  BY <1>1, Unseen DEF AcquireProbe, ReadProbe, RecordProbe, opVars
<1>2. CASE Settle(r)
  BY <1>2, FinishDeliveredRefines, FinishBlockedRefines, Unseen DEF Settle, Release
<1> QED BY <1>1, <1>2 DEF ReconcilerStep

(* The log and the spreadsheet together append each item at most once:     *)
(* every behaviour of the handoff authority, with its crashes, late        *)
(* requests, takeovers and operators, is one of AppendOnce.                *)
THEOREM Refinement == Spec => ImplementsAppendOnce
<1>1. Init => Abstract!Init
  BY DEF Init, Abstract!Init, Verdict, Outstanding, Landed
<1>2. IInv /\ [Next]_vars => [Abstract!Next]_(Abstract!vars)
  <2> SUFFICES ASSUME IInv, [Next]_vars PROVE [Abstract!Next]_(Abstract!vars)
    OBVIOUS
  <2>1. CASE \E h \in Handoffs : Enqueue(h) \/ EditMarker(h)
    BY <2>1, Unseen DEF Enqueue, EditMarker, Decided, opVars, IInv
  <2>2. CASE Recover
    BY <2>2, RecoverStaleUnseen DEF Recover
  <2>3. CASE \E s \in Subjects, o \in OpIds : Acquire(s, o)
    BY <2>3, AcquireUnseen
  <2>4. CASE MutatorStep
    BY <2>4, MutatorRefines
  <2>5. CASE \E r \in Reconcilers : ReconcilerStep(r)
    BY <2>5, ReconcilerRefines
  <2>6. CASE \E r \in Reconcilers, o \in OpIds : Choose(r, o)
    BY <2>6, Unseen DEF Choose, opVars
  <2>7. CASE \E o \in OpIds : RetryBlocked(o) \/ Land(o) \/ Refuse(o)
    BY <2>7, RetryBlockedRefines, LandRefines, RefuseRefines
  <2>8. CASE \E o \in OpIds : LeaseLapses(o)
    BY <2>8, Unseen DEF LeaseLapses
  <2>9. CASE (\E s \in Subjects : RetryComesDue(s)) \/ EditTemplate
    BY <2>9, Unseen DEF RetryComesDue, EditTemplate, opVars
  <2>10. CASE (\E p \in Procs : Crash(p)) \/ UNCHANGED vars
    BY <2>10, Unseen DEF Crash, vars, opVars
  <2> QED BY <2>1, <2>2, <2>3, <2>4, <2>5, <2>6, <2>7, <2>8, <2>9, <2>10 DEF Next
<1> QED BY <1>1, <1>2, Invariance, PTL DEF Spec, ImplementsAppendOnce, Abstract!Spec
=============================================================================
