------------------------------- MODULE V2Intake -------------------------------
(***************************************************************************)
(* How the V2 collector (v2_cli.py collect_live, collectors/telethon.py)   *)
(* reads one Telegram channel into v2_workflow.py's revisions: a page of   *)
(* new messages above a durable frontier, then a page of a newest-to-oldest*)
(* scan for edits that rests on a durable cursor between two runs.         *)
(*                                                                         *)
(* The channel is the environment: messages are posted, edited and deleted *)
(* while a run is reading.  newsbot-collect.service is the only reader and *)
(* one run of it is active at a time; it may be killed between any two of  *)
(* its transactions (TimeoutStartSec, SIGKILL).                            *)
(***************************************************************************)
EXTENDS Naturals, FiniteSets

CONSTANTS
  MaxId,       \* a bound on the messages of the channel
  MaxClock,    \* a bound on the clock, which counts Telegram's seconds
  MaxDeleted,  \* a bound on the messages that are deleted
  MaxEdited,   \* a bound on the messages that are edited
  MaxPage,     \* the largest page a run's share of the budget allows
  Lookback,    \* --lookback-hours, of the first page of a new channel
  Day          \* the 24 hours an edit scan looks back

ASSUME IntakeBounds ==
  /\ {MaxId, MaxDeleted, MaxEdited, MaxPage, Lookback, Day} \subseteq Nat
  /\ MaxClock \in Nat \ {0}

Ids == 1..MaxId
Never == 0     \* the clock starts at 1
NoCursor == [at |-> Never, id |-> 0]

VARIABLES
  \* the channel
  clock,
  posted,     \* messages posted so far are 1..posted
  published, edited,  \* when a message was posted and last edited
  deleted,
  \* v2_revision_heads and v2_channel_gaps
  head,       \* ordered_at of the newest revision kept, Never without one
  gaps,       \* the ids the gap rows span
  \* v2_channel_cursors
  highWater,  \* new_message_high_water
  watermark,  \* edit_sweep_watermark and edit_sweep_message_id
  before,     \* edit_scan_before_message_id, 0 when NULL
  started,    \* edit_scan_started_at, Never when NULL
  scanMax,    \* edit_scan_max_watermark and edit_scan_max_message_id
  \* a run's memory
  run,
  \* history, for the properties only
  quiet,      \* when a message was last edited while no scan was running
  bound,      \* the latest lower bound a first page was read with
  swept       \* when the last completed scan had started

world   == <<clock, posted, published, edited, deleted>>
cursors == <<highWater, watermark, before, started, scanMax>>
history == <<quiet, bound, swept>>
vars == <<world, head, gaps, cursors, run, history>>

Cursor == [at : 0..MaxClock, id : 0..MaxId]

Resting == [pc |-> "idle", page |-> << >>, upper |-> 0, full |-> FALSE,
            next |-> 0, at |-> Never]

IntakeTypeOK ==
  /\ clock \in 1..MaxClock /\ posted \in 0..MaxId
  /\ published \in [Ids -> 0..MaxClock] /\ edited \in [Ids -> 0..MaxClock]
  /\ deleted \subseteq Ids /\ gaps \subseteq Ids
  /\ head \in [Ids -> 0..MaxClock]
  /\ highWater \in 0..MaxId /\ before \in 0..MaxId
  /\ started \in 0..MaxClock
  /\ watermark \in Cursor /\ scanMax \in Cursor
  /\ run.pc \in {"idle", "recording", "scanning", "keeping"}

Init ==
  /\ clock = 1 /\ posted = 0 /\ deleted = {}
  /\ published = [m \in Ids |-> Never] /\ edited = [m \in Ids |-> Never]
  /\ head = [m \in Ids |-> Never] /\ gaps = {}
  /\ highWater = 0 /\ before = 0 /\ started = Never
  /\ watermark = NoCursor /\ scanMax = NoCursor
  /\ run = Resting
  /\ quiet = [m \in Ids |-> Never] /\ bound = 0 /\ swept = Never

-----------------------------------------------------------------------------
(* The channel *)

Live == (1..posted) \ deleted
Scanning == started # Never

Post ==
  /\ posted < MaxId
  /\ posted' = posted + 1
  /\ published' = [published EXCEPT ![posted + 1] = clock]
  /\ UNCHANGED <<clock, edited, deleted, head, gaps, cursors, run, history>>

(* Two edits of one message fall in different seconds.  An edit is quiet   *)
(* when no run is busy with a scan and the watermark's second is over.     *)
Edit(m) ==
  /\ m \in Live /\ published[m] < clock /\ edited[m] < clock
  /\ Cardinality({x \in Ids : edited[x] # Never} \cup {m}) <= MaxEdited
  /\ edited' = [edited EXCEPT ![m] = clock]
  /\ quiet' = IF /\ ~Scanning /\ watermark.at < clock
                 /\ run.pc # "keeping"
              THEN [quiet EXCEPT ![m] = clock] ELSE quiet
  /\ UNCHANGED <<clock, posted, published, deleted, head, gaps, cursors, run,
                 bound, swept>>

Delete(m) ==
  /\ m \in Live /\ Cardinality(deleted) < MaxDeleted
  /\ deleted' = deleted \cup {m}
  /\ UNCHANGED <<clock, posted, published, edited, head, gaps, cursors, run,
                 history>>

Tick ==
  /\ clock < MaxClock
  /\ clock' = clock + 1
  /\ UNCHANGED <<posted, published, edited, deleted, head, gaps, cursors, run,
                 history>>

-----------------------------------------------------------------------------
(* record_revision: the head moves to a newer version only; a version that *)
(* is known already changes nothing.                                       *)
Record(page) ==
  [m \in Ids |-> IF m \in DOMAIN page /\ page[m] > head[m]
                 THEN page[m] ELSE head[m]]

SetMax(S) == CHOOSE x \in S : \A y \in S : y <= x
SetMin(S) == CHOOSE x \in S : \A y \in S : x <= y
Newest(S, n)  == {m \in S : Cardinality({x \in S : x > m}) < n}
Earliest(S, n) == {m \in S : Cardinality({x \in S : x < m}) < n}
(* A version's ordered_at is the time of its edit, else of its publication. *)
Version(m) == IF edited[m] # Never THEN edited[m] ELSE published[m]
Versions(S) == [m \in S |-> Version(m)]
Back(t, d) == IF t > d THEN t - d ELSE 0

-----------------------------------------------------------------------------
(* New messages *)

At(pc) == run.pc = pc
Exit == run' = Resting

(* The newest id bounds the page; what is posted while it is being read is *)
(* left for the next run.  A channel without a frontier is read from the   *)
(* lookback on.                                                            *)
ReadPage ==
  /\ At("idle")
  /\ \E limit \in 1..MaxPage :
       IF \A m \in Live : m <= highWater
       THEN run' = [run EXCEPT !.pc = "scanning"] /\ UNCHANGED bound
       ELSE LET lower == IF highWater = 0 THEN Back(clock, Lookback) ELSE 0
                page  == Earliest({m \in Live : m > highWater
                                                /\ published[m] >= lower}, limit)
            IN  /\ run' = [run EXCEPT !.pc = "recording", !.page = Versions(page),
                             !.full = Cardinality(page) = limit,
                             !.upper = SetMax(Live)]
                /\ bound' = SetMax({bound, lower})
  /\ UNCHANGED <<world, head, gaps, cursors, quiet, swept>>

\* Mutant: a full page moves the frontier to the bound of the scan.
FrontierToBound == run.upper

Frontier == IF run.full THEN SetMax(DOMAIN run.page) ELSE run.upper
Missing(ids, last) == ((highWater + 1)..last) \ ids

(* One transaction keeps the page, its gaps and the frontier.              *)
RecordPage ==
  /\ At("recording")
  /\ head' = Record(run.page)
  /\ gaps' = gaps \cup Missing(DOMAIN run.page, Frontier)
  /\ highWater' = SetMax({highWater, Frontier})
  /\ run' = [Resting EXCEPT !.pc = "scanning"]
  /\ UNCHANGED <<world, watermark, before, started, scanMax, history>>

-----------------------------------------------------------------------------
(* The edit scan *)

CursorOf(m) == [at |-> edited[m], id |-> m]
Above(a, b) == a.at > b.at \/ (a.at = b.at /\ a.id > b.id)
Highest(S) == CHOOSE a \in S : \A b \in S : a = b \/ Above(a, b)

(* A scan that rests is resumed, else one starts now.                      *)
ScanStart == IF Scanning THEN started ELSE clock

(* The page below the cursor, newest first, up to the first message that   *)
(* is older than the scan's 24 hours.  An edit at or below the watermark   *)
(* is taken to be known.                                                   *)
ReadSweep ==
  /\ At("scanning")
  /\ \E limit \in 1..MaxPage :
       LET page  == Newest({m \in Live : before = 0 \/ m < before}, limit)
           old   == {m \in page : published[m] < Back(ScanStart, Day)}
           done  == old # {} \/ Cardinality(page) < limit
           edits == {m \in page : /\ edited[m] # Never
                                  /\ \A x \in old : m > x
                                  /\ watermark.at # Never
                                       => Above(CursorOf(m), watermark)}
       IN  run' = [Resting EXCEPT !.pc = "keeping", !.page = Versions(edits),
                     !.at = ScanStart, !.next = IF done THEN 0 ELSE SetMin(page)]
  /\ UNCHANGED <<world, head, gaps, cursors, history>>

\* Mutant: the cursor rests one message below the page.
RestBelow == IF run.next > 1 THEN run.next - 1 ELSE run.next
Rest == run.next

(* One transaction keeps the page and rests the scan or completes it.  No  *)
(* other run can have moved the scan, so its check of the start holds.     *)
RecordSweep ==
  LET staged == {watermark, scanMax} \cup
                {[at |-> run.page[m], id |-> m] : m \in DOMAIN run.page}
  IN  /\ At("keeping") /\ Exit
      /\ head' = Record(run.page)
      /\ before' = Rest
      /\ IF run.next = 0
         THEN /\ watermark' = Highest(staged \cup {[at |-> run.at, id |-> 0]})
              /\ started' = Never /\ scanMax' = NoCursor /\ swept' = run.at
         ELSE /\ started' = run.at /\ scanMax' = Highest(staged)
              /\ UNCHANGED <<watermark, swept>>
      /\ UNCHANGED <<world, gaps, highWater, quiet, bound>>

(* The run is killed, its deadline passes, Telegram refuses, or its share  *)
(* of the budget is used up: it leaves, and the next run reads again.      *)
Leave ==
  /\ ~At("idle") /\ Exit
  /\ UNCHANGED <<world, head, gaps, cursors, history>>

-----------------------------------------------------------------------------

Next ==
  \/ Post \/ Tick \/ \E m \in Ids : Edit(m) \/ Delete(m)
  \/ ReadPage \/ RecordPage \/ ReadSweep \/ RecordSweep \/ Leave

Spec == Init /\ [][Next]_vars

-----------------------------------------------------------------------------
(* Properties *)

(* Every id the frontier has passed is accounted for: a revision of it was *)
(* kept or a gap row spans it (record_new_message_page).                   *)
FrontierIsAccounted ==
  \A m \in 1..highWater : head[m] # Never \/ m \in gaps

(* The frontier never passes a message that can still be read: what it     *)
(* passed without a revision was deleted or is older than the lookback of  *)
(* a first page (record_new_message_page, collect_live).                   *)
NothingIsSkipped ==
  \A m \in 1..highWater :
    head[m] = Never => m \in deleted \/ published[m] < bound

(* A scan that was completed has read every edit that was made before it   *)
(* started while no other scan was under way, unless the message is gone   *)
(* or older than a day (record_edit_sweep_page, collect_edit_sweep).       *)
SweepSeesQuietEdits ==
  \A m \in Ids :
    (/\ quiet[m] # Never /\ quiet[m] < swept
     /\ m \notin deleted /\ published[m] >= Back(swept, Day))
      => head[m] >= quiet[m]

(* What operations.md:74-76 says of the edit scan: it covers the last 24   *)
(* hours and promotes its watermark only after the whole sweep.  Then no   *)
(* edit of a message of that range lies below the watermark unread.        *)
WatermarkIsCovered ==
  \A m \in Live :
    (/\ edited[m] # Never /\ edited[m] < watermark.at
     /\ published[m] >= Back(swept, Day))
      => head[m] = edited[m]

=============================================================================
