--------------------------- MODULE ChannelCollection ---------------------------
(***************************************************************************)
(* How the first workflow reads one Telegram channel (storage.py           *)
(* DurableCollection, cli.py _collect_live): a fixed interval of message   *)
(* ids above the cursor, one page a run, then a second look at the ids     *)
(* just below it, then the cursor.  A page and the frontier that counts it *)
(* are two transactions.  Runs share the "collect" lock.                   *)
(*                                                                         *)
(* Ids grow with publication, so a bound on age is a bound on ids.         *)
(***************************************************************************)
EXTENDS Naturals, FiniteSets, FiniteSetsExt

CONSTANTS
  MaxId,        \* a bound on the messages of the channel
  MaxChanges,   \* a bound on edits and deletions
  MaxStops,     \* a bound on killed runs and failed calls
  PageSize,     \* page_size
  Overlap,      \* overlap_message_ids
  MaxPages      \* max_overlap_pages

ASSUME CollectionBounds == {MaxId, MaxChanges, MaxStops, Overlap} \subseteq Nat
ASSUME PageLimits == {PageSize, MaxPages} \subseteq Nat \ {0}

Ids == 1..MaxId

VARIABLES
  top,       \* messages posted so far are 1..top
  version,   \* the version of a message, 0 when it is not there
  changes,
  recent,    \* the first id of the last 72 hours
  recorded,  \* source_post_versions: the latest version persisted, or 0
  ranked,    \* the messages the last ranking saw
  cursor,    \* collection_cursors
  interval,  \* collection_intervals
  run,       \* a run's memory
  first,     \* history: the floor of the channel's first scan
  atStart,   \* history: the channel when the interval was opened
  stops

channel == <<top, version, changes, recent>>
history == <<first, atStart>>
collectionVars == <<channel, recorded, ranked, cursor, interval, run, history, stops>>

Versions == 0..(MaxChanges + 1)
NoRows == [m \in {} |-> 0]
Closed == [open |-> FALSE, base |-> 0, upper |-> 0, next |-> 0,
           complete |-> FALSE, floor |-> 0, recent |-> 0, overlap |-> 0]
Resting == [pc |-> "idle", rows |-> NoRows, more |-> FALSE, pages |-> 0]

CollectionInit ==
  /\ top = 0 /\ version = [m \in Ids |-> 0] /\ changes = 0 /\ recent = 1
  /\ recorded = [m \in Ids |-> 0] /\ ranked = {}
  /\ cursor = [known |-> FALSE, id |-> 0]
  /\ interval = Closed /\ run = Resting
  /\ first = 0 /\ atStart = [m \in Ids |-> 0]
  /\ stops = 0

-----------------------------------------------------------------------------
(* The channel *)

Post ==
  /\ top < MaxId
  /\ top' = top + 1 /\ version' = [version EXCEPT ![top + 1] = 1]
  /\ UNCHANGED <<changes, recent, recorded, ranked, cursor, interval, run,
                 history, stops>>

Change(m) ==
  /\ version[m] > 0 /\ changes < MaxChanges
  /\ version' = [version EXCEPT ![m] = @ + 1] \/ version' = [version EXCEPT ![m] = 0]
  /\ changes' = changes + 1
  /\ UNCHANGED <<top, recent, recorded, ranked, cursor, interval, run, history, stops>>

Age ==
  /\ recent <= top /\ recent' = recent + 1
  /\ UNCHANGED <<top, version, changes, recorded, ranked, cursor, interval, run,
                 history, stops>>

There == {m \in Ids : version[m] > 0}
Newest == IF There = {} THEN cursor.id ELSE Max(There)

-----------------------------------------------------------------------------
(* A run *)

(* Without an interval the newest message fixes a new one; the first scan  *)
(* of a channel goes back a while only.  A newest message below the cursor *)
(* is an error, and automation lets an error of any channel end the run    *)
(* before it ranks.                                                        *)
OpenInterval ==
  /\ run.pc = "idle" /\ ~interval.open /\ Newest >= cursor.id
  /\ \E floor \in IF cursor.known THEN {0} ELSE recent..(top + 1) :
       /\ interval' = [open |-> TRUE, base |-> cursor.id, upper |-> Newest,
                       next |-> cursor.id, complete |-> FALSE, floor |-> floor,
                       recent |-> recent, overlap |-> 0]
       /\ first' = IF cursor.known THEN first ELSE floor
  /\ atStart' = version
  /\ run' = [Resting EXCEPT !.pc = "primary"]
  /\ UNCHANGED <<channel, recorded, ranked, cursor, stops>>

ResumeInterval ==
  /\ run.pc = "idle" /\ interval.open
  /\ run' = [Resting EXCEPT !.pc = IF interval.complete THEN "overlap" ELSE "primary",
                            !.pages = MaxPages]
  /\ UNCHANGED <<channel, recorded, ranked, cursor, interval, history, stops>>

(* One row more than a page tells whether another page follows.            *)
Smallest(S, n) == {m \in S : Cardinality({k \in S : k <= m}) <= n}

Rows(after, upper, floor) == {m \in There : after < m /\ m <= upper /\ floor <= m}

\* Mutant: an off-by-one calls the last page but one the last.
ReadShort(pc, S) ==
  run' = [run EXCEPT !.pc = pc, !.more = Cardinality(S) > PageSize + 1,
                     !.rows = [m \in Smallest(S, PageSize) |-> version[m]]]

Read(pc, S) ==
  run' = [run EXCEPT !.pc = pc, !.more = Cardinality(S) > PageSize,
                     !.rows = [m \in Smallest(S, PageSize) |-> version[m]]]

ReadPrimary ==
  /\ run.pc = "primary"
  /\ Read("primary page", Rows(interval.next, interval.upper, interval.floor))
  /\ UNCHANGED <<channel, recorded, ranked, cursor, interval, history, stops>>

OverlapFloor == IF interval.recent > interval.floor THEN interval.recent ELSE interval.floor

OverlapStart ==
  IF interval.overlap > 0 THEN interval.overlap
  ELSE IF interval.base > Overlap THEN interval.base - Overlap ELSE 0

ReadOverlap ==
  /\ run.pc = "overlap"
  /\ Read("overlap page", Rows(OverlapStart, interval.base, OverlapFloor))
  /\ UNCHANGED <<channel, recorded, ranked, cursor, interval, history, stops>>

PersistPage ==
  /\ run.pc \in {"primary page", "overlap page"}
  /\ recorded' = [m \in Ids |-> IF m \in DOMAIN run.rows THEN run.rows[m] ELSE recorded[m]]
  /\ run' = [run EXCEPT !.pc = IF @ = "primary page" THEN "primary kept" ELSE "overlap kept"]
  /\ UNCHANGED <<channel, ranked, cursor, interval, history, stops>>

LastRow == Max(DOMAIN run.rows)

AdvancePrimary ==
  /\ run.pc = "primary kept"
  /\ interval' = IF run.more THEN [interval EXCEPT !.next = LastRow]
                             ELSE [interval EXCEPT !.complete = TRUE]
  /\ run' = IF run.more THEN [Resting EXCEPT !.pc = "rank"]
            ELSE [Resting EXCEPT !.pc = "overlap", !.pages = MaxPages]
  /\ UNCHANGED <<channel, recorded, ranked, cursor, history, stops>>

\* Mutant: the place in the overlap is not kept for the next run.
AdvanceOverlapNowhere ==
  /\ run.pc = "overlap kept" /\ run.more
  /\ run' = [Resting EXCEPT !.pc = IF run.pages > 1 THEN "overlap" ELSE "rank",
                            !.pages = run.pages - 1]
  /\ UNCHANGED <<channel, recorded, ranked, cursor, interval, history, stops>>

AdvanceOverlap ==
  /\ run.pc = "overlap kept" /\ run.more
  /\ interval' = [interval EXCEPT !.overlap = LastRow]
  /\ run' = [Resting EXCEPT !.pc = IF run.pages > 1 THEN "overlap" ELSE "rank",
                            !.pages = run.pages - 1]
  /\ UNCHANGED <<channel, recorded, ranked, cursor, history, stops>>

\* Mutant: the cursor moves when the run's pages are used up.
PromoteEarly ==
  /\ run.pc = "overlap kept"
  /\ cursor' = [known |-> TRUE, id |-> interval.upper]
  /\ interval' = Closed
  /\ atStart' = [m \in Ids |-> 0]
  /\ run' = [Resting EXCEPT !.pc = "rank"]
  /\ UNCHANGED <<channel, recorded, ranked, first, stops>>

PromoteCursor ==
  /\ run.pc = "overlap kept" /\ ~run.more
  /\ cursor' = [known |-> TRUE, id |-> interval.upper]
  /\ interval' = Closed
  /\ atStart' = [m \in Ids |-> 0]
  /\ run' = [Resting EXCEPT !.pc = "rank"]
  /\ UNCHANGED <<channel, recorded, ranked, first, stops>>

(* Every post that is recorded is ranked again by each run that gets there.*)
RankAll ==
  /\ run.pc = "rank" /\ ranked' = {m \in Ids : recorded[m] > 0} /\ run' = Resting
  /\ UNCHANGED <<channel, recorded, cursor, interval, history, stops>>

Stop ==
  /\ run.pc # "idle" /\ stops < MaxStops
  /\ run' = Resting /\ stops' = stops + 1
  /\ UNCHANGED <<channel, recorded, ranked, cursor, interval, history>>

(* An operator's deep look records what it finds and moves no frontier.    *)
Reconcile ==
  /\ run.pc = "idle" /\ stops < MaxStops /\ stops' = stops + 1
  /\ \E lower \in Ids, n \in 0..MaxPages :
       LET S == Smallest(Rows(0, Newest, lower), n * PageSize)
       IN  recorded' = [m \in Ids |-> IF m \in S THEN version[m] ELSE recorded[m]]
  /\ UNCHANGED <<channel, ranked, cursor, interval, run, history>>

-----------------------------------------------------------------------------
Work ==
  \/ OpenInterval \/ ResumeInterval \/ ReadPrimary \/ ReadOverlap \/ PersistPage
  \/ AdvancePrimary \/ AdvanceOverlap \/ PromoteCursor \/ RankAll

CollectionNext ==
  \/ Post \/ (\E m \in Ids : Change(m)) \/ Age
  \/ OpenInterval \/ ResumeInterval \/ ReadPrimary \/ ReadOverlap \/ PersistPage
  \/ AdvancePrimary \/ AdvanceOverlap \/ PromoteCursor \/ RankAll
  \/ Stop \/ Reconcile

CollectionSpec == CollectionInit /\ [][CollectionNext]_collectionVars

(* The timer starts a run whenever none is active, and a run goes on.      *)
CollectionFairSpec == CollectionSpec /\ WF_collectionVars(Work)

-----------------------------------------------------------------------------
(* Properties *)

Frontier == IF ~interval.open THEN cursor.id
            ELSE IF interval.complete THEN interval.upper ELSE interval.next

(* Whatever run stops between a page and its frontier, the frontier never  *)
(* passes a message that is there and was not recorded, but for those      *)
(* older than the first scan's floor.                                      *)
NothingIsSkipped ==
  \A m \in There : first <= m /\ m <= Frontier => recorded[m] > 0

(* When the cursor moves, each message of the overlap was recorded at least*)
(* as edited when the interval was opened, however many runs, pages and    *)
(* restarts it took.                                                       *)
OverlapSeesEdits ==
  [][ interval.open /\ ~interval'.open =>
        \A m \in There : /\ m + Overlap > interval.base /\ m <= interval.base
                         /\ m >= OverlapFloor
                         => recorded[m] >= atStart[m] ]_collectionVars

Refused == ~interval.open /\ Newest < cursor.id

(* Every message is ranked or deleted, or too old for the first scan,      *)
(* unless the channel's newest message is deleted and nothing follows.     *)
Ranked(m) == m \in ranked \/ version[m] = 0 \/ m < first
EveryPostIsRanked == \A m \in Ids : []<>(Ranked(m) \/ Refused)

(* docs/requirements.md:9: after a crash, a cap, a timeout and a FloodWait *)
(* collection continues from the durable frontier.                         *)
CollectionContinues == \A m \in Ids : []<>Ranked(m)

CollectionTypeOK ==
  /\ top \in 0..MaxId /\ version \in [Ids -> Versions] /\ changes \in 0..MaxChanges
  /\ recent \in 1..(MaxId + 1)
  /\ recorded \in [Ids -> Versions] /\ ranked \subseteq Ids
  /\ cursor \in [known : BOOLEAN, id : 0..MaxId]
  /\ interval \in [open : BOOLEAN, base : 0..MaxId, upper : 0..MaxId,
       next : 0..MaxId, complete : BOOLEAN, floor : 0..(MaxId + 1),
       recent : 0..(MaxId + 1), overlap : 0..MaxId]
  /\ first \in 0..(MaxId + 1) /\ stops \in 0..MaxStops
=============================================================================
