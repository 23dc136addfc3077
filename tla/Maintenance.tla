----------------------------- MODULE Maintenance ----------------------------
(***************************************************************************)
(* memory_maintain and memory_verify of one namespace as the daemon serves *)
(* them (tools/maintain.py, tools/_maintain_sweep.py): a window of decay,  *)
(* the verification sweep in slices that a later call resumes, the daily   *)
(* snapshot, and the stamp file that says where each stands and when a     *)
(* maintenance last succeeded.  Other processes write rows between a page  *)
(* of the sweep and its verdicts, the checkout changes, passes fail, the   *)
(* daemon is killed, and a snapshot may replace the store between calls.   *)
(*                                                                         *)
(* A row has two claims about the checkout; `rev` is the write that made   *)
(* them, `judged` says that the verdict was given on these claims.  Rows   *)
(* are keyed by their place in the sweep's order.                          *)
(***************************************************************************)
EXTENDS Integers, FiniteSets, FiniteSetsExt

CONSTANTS
    LAST,             \* rows are at places 1..LAST
    Tree,             \* what a checkout can show: [root, held, results, anchors]
    VERIFY_PAGE, DECAY_WINDOW, STALE_DAYS, KEEP_DAILY,
    MAX_DAY, MAX_MAINTAIN_CALLS, MAX_ROW_WRITES, MAX_PASS_FAULTS,
    MAX_UPSETS        \* days passed, writes and faults together

ASSUME MaintenanceAssumption ==
    /\ LAST \in Nat /\ STALE_DAYS \in Nat
    /\ VERIFY_PAGE \in Nat \ {0} /\ DECAY_WINDOW \in Nat \ {0}

VARIABLES
    held,          \* place -> its row, or NoRow
    tree,          \* what the checkout shows now
    day,
    inode,         \* identity of the store file
    stamp,         \* maintenance.json: [maintained, sweep, decayNext]
    run,           \* the call in progress, or NoRun
    shots,         \* days that have a daily snapshot
    shot,          \* rows of the latest snapshot
    callsMade, rowWrites, passFaults,
    claims,        \* place -> rev of the last claims a caller wrote there
    due,           \* rows that were there, with these claims, when the sweep began and are not checked yet
    decays         \* place -> decays of a row that has been there all along

sweepVars == <<held, tree, day, inode, stamp, run, shots, shot, callsMade, rowWrites, passFaults, claims, due, decays>>

Place == 1..LAST

ClaimNo == 1..2

NoRow == [rev |-> 0, since |-> [c \in ClaimNo |-> 0], verdict |-> "none", judged |-> FALSE]

NoSweep == [next |-> 0, store |-> 0, failed |-> FALSE]

NoRun == [kind |-> "none"]

NoPage == [p \in {} |-> NoRow]

(* The rows of the page that are still to be checked.                       *)
Unread == DOMAIN run.page

There(rows) == {p \in Place : rows[p].rev # 0}

-----------------------------------------------------------------------------
(* run_verification_pass: the verdict of one row's claims.                 *)

Holds == IF tree.root THEN tree.held ELSE {}

Result(c) == IF ~tree.root \/ c \in Holds THEN "unknown" ELSE tree.results[c]

AnchorsClean == Holds = {} => tree.anchors # "broken"

Verifiable == Holds # {} \/ \E c \in ClaimNo : Result(c) # "unknown"

Since(row, c) ==
    CASE c \in Holds -> 0
      [] Result(c) = "fails" -> IF row.since[c] = 0 THEN day ELSE row.since[c]
      [] Result(c) = "passes" -> 0
      [] OTHER -> row.since[c]

Verdict(since) ==
    IF \A c \in ClaimNo : Result(c) = "fails" /\ since[c] + STALE_DAYS < day THEN "stale"
    ELSE IF (\A c \in ClaimNo : Result(c) = "passes") /\ AnchorsClean THEN "verified"
    ELSE "none"

Judged(row) ==
    LET since == [c \in ClaimNo |-> Since(row, c)]
    IN [row EXCEPT !.since = since, !.verdict = Verdict(since), !.judged = TRUE]

(* Mutant: the outcome is written over whatever the row has become.         *)
PersistOver(p, row) == held' = [held EXCEPT ![p] = IF @.rev = 0 THEN @ ELSE Judged(row)]

(* persist_verification_outcome: only on the claims that were checked.      *)
Persist(p, row) ==
    held' = [held EXCEPT ![p] = IF @.rev = row.rev /\ @.since = row.since THEN Judged(row) ELSE @]

ClearVerified(p, row) ==
    held' = [held EXCEPT ![p].verdict = IF row.verdict = "verified" THEN "none" ELSE @]

-----------------------------------------------------------------------------
(* The call: its claim on the namespace, then its passes in order.         *)

In(phase) == run.kind # "none" /\ run.phase = phase

Passes(phase) == run' = [run EXCEPT !.phase = phase]

Upset == rowWrites + passFaults + day < MAX_UPSETS

Fault == Upset /\ passFaults < MAX_PASS_FAULTS /\ passFaults' = passFaults + 1

Resumed == stamp.sweep # NoSweep /\ stamp.sweep.store = inode

Begin(kind) ==
    /\ run = NoRun /\ callsMade < MAX_MAINTAIN_CALLS
    /\ callsMade' = callsMade + 1
    /\ run' = [kind |-> kind, phase |-> IF kind = "maintain" THEN "decay" ELSE "verify",
               after |-> IF Resumed THEN stamp.sweep.next ELSE 0,
               carried |-> Resumed /\ stamp.sweep.failed,
               failed |-> FALSE, otherFailed |-> FALSE,
               page |-> NoPage, short |-> FALSE, decayed |-> 0]
    /\ due' = IF Resumed THEN due ELSE There(held)
    /\ UNCHANGED <<held, tree, day, inode, stamp, shots, shot, rowWrites, passFaults, claims, decays>>

(* memory_decay_pass: the next window in key order, then where it ended.    *)
Firsts(places, n) ==
    {p \in places : Cardinality({q \in places : q < p}) < n}

Decay ==
    LET window == Firsts({p \in There(held) : p > stamp.decayNext}, DECAY_WINDOW) IN
    /\ In("decay")
    /\ decays' = [p \in DOMAIN decays |-> decays[p] + IF p \in window THEN 1 ELSE 0]
    /\ run' = [run EXCEPT !.phase = "decayed",
                          !.decayed = IF Cardinality(window) < DECAY_WINDOW THEN 0 ELSE Max(window)]
    /\ UNCHANGED <<held, tree, day, inode, stamp, shots, shot, callsMade, rowWrites, passFaults, claims, due>>

DecayStamped ==
    /\ In("decayed") /\ Passes("verify")
    /\ stamp' = [stamp EXCEPT !.decayNext = run.decayed]
    /\ UNCHANGED <<held, tree, day, inode, shots, shot, callsMade, rowWrites, passFaults, claims, due, decays>>

DecayFails ==
    /\ In("decay") /\ Fault
    /\ run' = [run EXCEPT !.phase = "verify", !.otherFailed = TRUE]
    /\ UNCHANGED <<held, tree, day, inode, stamp, shots, shot, callsMade, rowWrites, claims, due, decays>>

-----------------------------------------------------------------------------
(* The sweep: pages in key order, each row checked as it was read.         *)

ReadPage ==
    LET found == Firsts({p \in There(held) : p > run.after}, VERIFY_PAGE) IN
    /\ In("verify") /\ Unread = {} /\ ~run.short
    /\ run' = [run EXCEPT !.page = [p \in found |-> held[p]],
                          !.short = Cardinality(found) < VERIFY_PAGE,
                          !.failed = @ \/ ~tree.root]
    /\ UNCHANGED <<held, tree, day, inode, stamp, shots, shot, callsMade, rowWrites, passFaults, claims, due, decays>>

VisitRow ==
    LET p == Min(Unread)
        row == run.page[p]
        visited == [run EXCEPT !.page = [q \in Unread \ {p} |-> run.page[q]], !.after = p]
    IN
    /\ In("verify") /\ Unread # {}
    /\ \/ /\ IF Verifiable THEN Persist(p, row) ELSE ClearVerified(p, row)
          /\ due' = due \ {p}
          /\ run' = visited
          /\ UNCHANGED passFaults
       \/ /\ Fault
          /\ run' = [visited EXCEPT !.failed = TRUE]
          /\ UNCHANGED <<held, due>>
    /\ UNCHANGED <<tree, day, inode, stamp, shots, shot, callsMade, rowWrites, claims, decays>>

(* The slice's seconds are over after a row; the next slice reads anew.     *)
SliceEnds ==
    /\ In("verify") /\ Unread # {} /\ run.after > 0
    /\ run' = [run EXCEPT !.page = NoPage, !.short = FALSE]
    /\ UNCHANGED <<held, tree, day, inode, stamp, shots, shot, callsMade, rowWrites, passFaults, claims, due, decays>>

SweepEnds ==
    /\ In("verify") /\ Unread = {}
    /\ \/ run.short /\ run' = [run EXCEPT !.phase = "swept", !.after = 0]
       \/ ~run.short /\ run.after > 0 /\ Passes("swept")
    /\ UNCHANGED <<held, tree, day, inode, stamp, shots, shot, callsMade, rowWrites, passFaults, claims, due, decays>>

(* A slice raises: where the sweep stands is unknown.                       *)
SliceRaises ==
    /\ In("verify") /\ Fault
    /\ run' = [run EXCEPT !.phase = "swept", !.after = 0, !.failed = TRUE, !.page = NoPage]
    /\ UNCHANGED <<held, tree, day, inode, stamp, shots, shot, callsMade, rowWrites, claims, due, decays>>

Failed == run.failed \/ run.carried

SweepRecord == IF run.after = 0 THEN NoSweep ELSE [next |-> run.after, store |-> inode, failed |-> Failed]

-----------------------------------------------------------------------------
Newest(days, n) == {d \in days : Cardinality({e \in days : e > d}) < n}

(* The rows of a day's snapshot: the first one of the day stands.          *)
Shot == IF day \in shots THEN shot ELSE held

(* _run_snapshot: once a day, then the oldest beyond the kept ones go.      *)
Snapshot ==
    /\ In("swept") /\ run.kind = "maintain"
    /\ \/ /\ shots' = Newest(shots \cup {day}, KEEP_DAILY)
          /\ shot' = Shot
          /\ UNCHANGED passFaults /\ Passes("stamp")
       \/ /\ Fault /\ UNCHANGED <<shots, shot>>
          /\ run' = [run EXCEPT !.phase = "stamp", !.otherFailed = TRUE]
    /\ UNCHANGED <<held, tree, day, inode, stamp, callsMade, rowWrites, claims, due, decays>>

(* finish: the stamp moves when every pass succeeded and the sweep ended.   *)
FinishRun ==
    /\ In("stamp")
    /\ stamp' = [stamp EXCEPT !.sweep = SweepRecord,
                              !.maintained = IF Failed \/ run.otherFailed \/ SweepRecord # NoSweep THEN @
                                             ELSE callsMade]
    /\ run' = NoRun
    /\ UNCHANGED <<held, tree, day, inode, shots, shot, callsMade, rowWrites, passFaults, claims, due, decays>>

(* memory_verify: _save_sweep alone.                                        *)
SaveSweep ==
    /\ In("swept") /\ run.kind = "verify"
    /\ stamp' = [stamp EXCEPT !.sweep = SweepRecord]
    /\ run' = NoRun
    /\ UNCHANGED <<held, tree, day, inode, shots, shot, callsMade, rowWrites, passFaults, claims, due, decays>>

KillDaemon ==
    /\ run # NoRun /\ Fault
    /\ run' = NoRun
    /\ decays' = IF run.phase = "decayed" THEN [p \in {} |-> 0] ELSE decays
    /\ UNCHANGED <<held, tree, day, inode, stamp, shots, shot, callsMade, rowWrites, claims, due>>

-----------------------------------------------------------------------------
(* Other hands: a store, a correction or a deletion of a row by another     *)
(* process, the checkout, the days, and a restore while no call runs.       *)
RowWrite == Upset /\ rowWrites < MAX_ROW_WRITES /\ rowWrites' = rowWrites + 1

(* A store writes the row anew; memory_update replaces its claims and       *)
(* leaves the verdict that was given on the old ones.                       *)
WriteClaims(p) ==
    /\ RowWrite
    /\ claims' = [claims EXCEPT ![p] = LAST + rowWrites']
    /\ \E before \in {NoRow, held[p]} :
          held' = [held EXCEPT ![p] = [before EXCEPT !.rev = LAST + rowWrites', !.since = NoRow.since,
                                                    !.judged = FALSE]]
    /\ due' = due \ {p}
    /\ decays' = [q \in {q \in DOMAIN decays : q # p \/ held[p].rev # 0} |-> decays[q]]
    /\ UNCHANGED <<tree, day, inode, stamp, run, shots, shot, callsMade, passFaults>>

DeleteRow(p) ==
    /\ RowWrite /\ held[p].rev # 0
    /\ claims' = [claims EXCEPT ![p] = 0] /\ held' = [held EXCEPT ![p] = NoRow]
    /\ due' = due \ {p}
    /\ decays' = [q \in DOMAIN decays \ {p} |-> decays[q]]
    /\ UNCHANGED <<tree, day, inode, stamp, run, shots, shot, callsMade, passFaults>>

CheckoutMoves ==
    /\ RowWrite /\ tree' \in Tree \ {tree}
    /\ UNCHANGED <<held, day, inode, stamp, run, shots, shot, callsMade, passFaults, claims, due, decays>>

DayPasses ==
    /\ Upset /\ day < MAX_DAY /\ day' = day + 1
    /\ UNCHANGED <<held, tree, inode, stamp, run, shots, shot, callsMade, rowWrites, passFaults, claims, due, decays>>

(* restore_from_snapshot: a new file, and the rows of the snapshot.         *)
Restore ==
    /\ run = NoRun /\ shots # {} /\ RowWrite
    /\ inode' = inode + 1
    /\ held' = shot /\ claims' = [p \in Place |-> shot[p].rev]
    /\ due' = There(shot)
    /\ decays' = [p \in {} |-> 0]
    /\ UNCHANGED <<tree, day, stamp, run, shots, shot, callsMade, passFaults>>

-----------------------------------------------------------------------------
SweepInit ==
    /\ \E there \in {Place, Place \ {2}} :
          /\ held = [p \in Place |-> IF p \in there THEN [NoRow EXCEPT !.rev = p] ELSE NoRow]
          /\ due = there
          /\ decays = [p \in there |-> 0]
    /\ claims = [p \in Place |-> held[p].rev]
    /\ tree \in Tree /\ day = 1 /\ inode = 1
    /\ stamp = [maintained |-> 0, sweep |-> NoSweep, decayNext |-> 0]
    /\ run = NoRun
    /\ shots = {} /\ shot = [p \in Place |-> NoRow]
    /\ callsMade = 0 /\ rowWrites = 0 /\ passFaults = 0

SweepNext ==
    \/ \E kind \in {"maintain", "verify"} : Begin(kind)
    \/ Decay \/ DecayStamped \/ DecayFails
    \/ ReadPage \/ VisitRow \/ SliceEnds \/ SweepEnds \/ SliceRaises
    \/ Snapshot \/ FinishRun \/ SaveSweep \/ KillDaemon
    \/ \E p \in Place : WriteClaims(p) \/ DeleteRow(p)
    \/ CheckoutMoves \/ DayPasses \/ Restore

SweepSpec == SweepInit /\ [][SweepNext]_sweepVars

-----------------------------------------------------------------------------
(* The time of the last successful maintenance moves only when every row    *)
(* that was in this store when the sweep began, and whose claims nobody     *)
(* wrote since, has been checked without failure, over however many calls.  *)
StampHonest == stamp'.maintained # stamp.maintained => due' = {}

(* A sweep never puts claims it read back over newer ones, nor revives a    *)
(* row; and while the claims it was given on are the row's, a stale verdict *)
(* stands only if they have failed for longer than the threshold, a         *)
(* verified one only if none has failed.  A correction of the claims leaves *)
(* the old verdict until the next sweep (storage/_crud_ops.py:313).         *)
Evident(row) ==
    row.judged =>
        /\ row.verdict = "stale" =>
               \A c \in ClaimNo : row.since[c] # 0 /\ row.since[c] + STALE_DAYS < day
        /\ row.verdict = "verified" => \A c \in ClaimNo : row.since[c] = 0

VerdictsStand == \A p \in Place : held[p].rev = claims[p] /\ Evident(held[p])

(* Of the rows that have been there all along none decays a second time     *)
(* before each has once, unless a kill came between a window and its stamp. *)
DecayEven == \A p, q \in DOMAIN decays : decays[p] <= decays[q] + 1

(* A verification never overwrites newer claims, its verdicts stand on      *)
(* evidence while the claims they were given on do, and decay reaches every *)
(* row in turn.                                                             *)
EvidenceKept == VerdictsStand /\ DecayEven

-----------------------------------------------------------------------------
(* The inductive invariant behind EvidenceKept and StampHonest.             *)

Row == [rev : Nat, since : [ClaimNo -> Nat], verdict : {"none", "stale", "verified"}, judged : BOOLEAN]

Phase == {"decay", "decayed", "verify", "swept", "stamp"}

Call(pages) ==
    [kind : {"maintain", "verify"}, phase : Phase, after : Nat, carried : BOOLEAN, failed : BOOLEAN,
     otherFailed : BOOLEAN, page : pages, short : BOOLEAN, decayed : Nat]

SweepTypeOK ==
    /\ held \in [Place -> Row]
    /\ shot \in [Place -> Row]
    /\ claims \in [Place -> Nat]
    /\ day \in Nat \ {0}
    /\ inode \in Nat \ {0}
    /\ stamp \in [maintained : Nat, sweep : [next : Nat, store : Nat, failed : BOOLEAN], decayNext : Nat]
    /\ run = NoRun \/ \E places \in SUBSET Place : run \in Call([places -> Row])
    /\ callsMade \in Nat /\ rowWrites \in Nat
    /\ due \subseteq There(held)
    /\ \E places \in SUBSET There(held) : decays \in [places -> Nat]

(* Verdicts have their evidence, in the store and in the snapshot.          *)
RowsEvident == \A p \in Place : held[p].rev = claims[p] /\ Evident(held[p]) /\ Evident(shot[p])

(* The rows up to where decay stands have one decay more than the others.   *)
DecayStands == IF In("decayed") THEN run.decayed ELSE stamp.decayNext

DecayInOrder ==
    \E n \in Nat : \A p \in DOMAIN decays : decays[p] = IF p <= DecayStands THEN n + 1 ELSE n

(* Where a sweep without a failure stands, every row before has been        *)
(* checked: a saved one that the next call resumes, and the one in          *)
(* progress, whose page leaves out no row up to its last.                   *)
SavedSweepIsAhead ==
    /\ stamp.sweep.store <= inode
    /\ stamp.sweep.store = inode /\ ~stamp.sweep.failed => \A p \in due : p > stamp.sweep.next

SweepIsAhead ==
    run # NoRun /\ ~Failed =>
        /\ \A p \in due : p > run.after
        /\ \A p \in due, q \in Unread : p <= q => p \in Unread
        /\ run.short /\ run.phase = "verify" => due \subseteq Unread
        /\ run.phase \in {"swept", "stamp"} /\ run.after = 0 => due = {}

(* A page is read once the call verifies, and is over when it has swept.    *)
PageInPhase ==
    run # NoRun =>
        /\ run.phase # "verify" => Unread = {}
        /\ run.phase \in {"decay", "decayed"} => ~run.short

SweepIInv ==
    SweepTypeOK /\ RowsEvident /\ DecayInOrder /\ SavedSweepIsAhead /\ SweepIsAhead /\ PageInPhase
=============================================================================
