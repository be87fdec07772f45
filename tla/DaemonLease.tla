---------------------------- MODULE DaemonLease ----------------------------
(***************************************************************************)
(* The window lease of one daemon (lifecycle/lease.rs, startup.rs and the  *)
(* lease half of shutdown.rs): which windows hold this computer's          *)
(* sessions, what the last departure decides, and held.json, the record    *)
(* that carries both across a daemon restart.                              *)
(*                                                                         *)
(* `st` is the Rust struct State behind the lease mutex: one action is one *)
(* critical section of that mutex, together with the one write of the      *)
(* record it makes.  A lease's generation is its connection: next_gen is   *)
(* never reused in a process, and a member of Conn stands for a new        *)
(* connection only after the old one's lease has been removed.             *)
(***************************************************************************)
EXTENDS Naturals

CONSTANTS
    Conn,           \* lease connections that can be open at one time
    Window,         \* window processes (ProcessIdentity)
    RowId,          \* workspace ids that can enter the `forget` list
    HandoverBound,  \* HANDOVER_BOUND, in clock ticks
    MaxClock,       \* the clock's bound, and what saturating_add stops at
    MaxCount,       \* the largest not_ended (u32::MAX)
    MaxNotEnded,    \* sessions one end leaves running, at most
    MaxStarts,      \* bound: daemon processes started
    MaxBoots,       \* bound: boots of the machine
    MaxFaults,      \* bound: failed writes, unknown boots, damaged records
    MaxUpdates,     \* bound: update restarts committed
    None,           \* Option::None
    NoRecord,       \* held.json does not exist
    Unreadable      \* held.json does not read, parse, or have RECORD_V

ASSUME BoundsAssumption ==
    /\ HandoverBound \in Nat /\ MaxClock \in Nat
    /\ MaxCount \in Nat /\ MaxNotEnded \in Nat
    /\ MaxStarts \in Nat /\ MaxBoots \in Nat
    /\ MaxFaults \in Nat /\ MaxUpdates \in Nat

ASSUME NoneAssumption == None \notin Nat

VARIABLES
    clock,     \* now_ms(): wall clock, shared by every daemon process
    boot,      \* boot_identity() of the machine; 0 stands for ""
    up,        \* a daemon process serves
    disk,      \* held.json
    st,        \* State, behind the lease mutex
    conn,      \* per connection: where its hold() is, and the count it was told
    report,    \* Leases::report, the count after shutdown step 5
    answered,  \* Leases::answered
    starts, faults, updates,  \* what the bounds have used up
    intent,    \* history: what last decided who keeps the sessions
    turn,      \* history: flips at each deciding departure and finished end
    unseen     \* history: not_ended grew since a window was last told it

vars == <<clock, boot, up, disk, st, conn, report, answered,
          starts, faults, updates, intent, turn, unseen>>

----------------------------------------------------------------------------
Intents == {"close", "keep", "handover"}
Phases  == {"open", "closing", "finished", "updating"}
Deadline == Nat \cup {None}

HeldRecord ==
    [boot: Nat, holders: SUBSET Window, until: Deadline,
     closing: BOOLEAN, notEnded: 0..MaxCount, forget: SUBSET RowId]

DiskType == HeldRecord \cup {NoRecord, Unreadable}

\* A constant that is neither a record nor a marker of a missing one.
ASSUME RecordAssumption ==
    /\ NoRecord \notin HeldRecord /\ Unreadable \notin HeldRecord
    /\ NoRecord # Unreadable

StateType ==
    [ownBoot: Deadline, held: SUBSET (Conn \X Window),
     handover: Deadline, pending: Deadline, phase: Phases,
     notEnded: 0..MaxCount, forget: SUBSET RowId,
     closerWaits: BOOLEAN, startupCleanup: BOOLEAN]

\* Where a connection's hold() is, and the last count a reply gave it.
ConnType == [pc: {"idle", "granted", "held", "left", "closer", "told"},
             told: 0..MaxCount]

\* Leases::new: `loaded` carries the count and the forget list over.
NewState(own, count, ids, cleanup) ==
    [ownBoot |-> own, held |-> {}, handover |-> None, pending |-> None,
     phase |-> "open", notEnded |-> count, forget |-> ids,
     closerWaits |-> FALSE, startupCleanup |-> cleanup]

\* What memory holds while no daemon runs: nothing.
NoState == NewState(None, 0, {}, FALSE)

Min2(a, b) == IF a <= b THEN a ELSE b

\* now_ms.saturating_add(handover_bound_ms())
HandoverUntil(now) == Min2(now + HandoverBound, MaxClock)

\* not_ended.saturating_add(n)
Counted(s, n) == Min2(s.notEnded + n, MaxCount)

Or(a, b) == IF a # None THEN a ELSE b

Passed(until, now) == until # None /\ until <= now

----------------------------------------------------------------------------
(* The record.                                                             *)

\* Mutant of Record: a pending start's deadline is left out of the record.
RecordWithoutPending(s) ==
    [boot |-> IF s.ownBoot = None THEN 0 ELSE s.ownBoot,
     holders |-> {h[2] : h \in s.held}, until |-> s.handover,
     closing |-> s.phase = "closing", notEnded |-> s.notEnded, forget |-> s.forget]

\* State::record
Record(s) ==
    [boot |-> IF s.ownBoot = None THEN 0 ELSE s.ownBoot,
     holders |-> {h[2] : h \in s.held},
     until |-> Or(s.handover, s.pending),
     closing |-> s.phase = "closing",
     notEnded |-> s.notEnded,
     forget |-> s.forget]

\* HeldRecord::is_empty
IsEmpty(rec) ==
    /\ rec.holders = {} /\ rec.until = None /\ ~rec.closing
    /\ rec.notEnded = 0 /\ rec.forget = {}

\* write_or_delete: the file that a successful write leaves.
Written(rec) == IF IsEmpty(rec) THEN NoRecord ELSE rec

\* Mutant of PersistSkipped: a startup Cleanup writes like any other state.
PersistNeverSkipped(s) == FALSE

\* State::persist returns before the write in a startup Cleanup.
PersistSkipped(s) == s.startupCleanup /\ s.phase = "open"

PersistOk(s) ==
    /\ disk' = IF PersistSkipped(s) THEN disk ELSE Written(Record(s))
    /\ UNCHANGED faults

\* A failed write: the error can come before the replace (the old file
\* stands) or from the directory sync after it (the new one does).
PersistFails(s) ==
    /\ ~PersistSkipped(s)
    /\ faults < MaxFaults
    /\ faults' = faults + 1
    /\ disk' \in {disk, Written(Record(s))}

\* State::persist_or_log: the event stands whatever the write did.
PersistOrLog(s) == PersistOk(s) \/ PersistFails(s)

----------------------------------------------------------------------------
(* Pure decisions.                                                         *)

\* State::close
Closed(s) ==
    IF s.phase # "open" THEN s
    ELSE [s EXCEPT !.phase = "closing", !.handover = None, !.pending = None]

\* Mutant of Decides: any departure decides, not only the last one's.
DecidesAlways(s) == s.phase = "open"

\* Leases::decide: nothing unless the last lease is gone and no shutdown or
\* update has begun.
Decides(s) == s.held = {} /\ s.phase = "open"

\* Mutant of Decided: a handover arms no deadline.
DecidedUnbounded(s, i, now) ==
    IF ~Decides(s) THEN s
    ELSE IF i = "close" THEN [Closed(s) EXCEPT !.closerWaits = TRUE]
    ELSE [s EXCEPT !.handover = None]

Decided(s, i, now) ==
    IF ~Decides(s) THEN s
    ELSE CASE i = "close"    -> [Closed(s) EXCEPT !.closerWaits = TRUE]
           [] i = "keep"     -> [s EXCEPT !.handover = None]
           [] i = "handover" -> [s EXCEPT !.handover = HandoverUntil(now)]

\* Mutant of Removed: a departure removes every lease of its window.
RemovedByWindow(s, c) ==
    [s EXCEPT !.held = {h \in s.held : \A k \in s.held : k[1] = c => h[2] # k[2]}]

\* Leases::depart removes by generation only.
Removed(s, c) == [s EXCEPT !.held = {h \in s.held : h[1] # c}]

\* Mutant of Ticked: a pending start never expires.
TickedHandoverOnly(s, now) ==
    IF s.held = {} /\ Passed(s.handover, now) THEN Closed(s) ELSE s

\* Leases::tick
Ticked(s, now) ==
    LET s1 == IF Passed(s.pending, now) /\ s.held # {}
              THEN [s EXCEPT !.pending = None] ELSE s
    IN  IF s1.held = {} /\ (Passed(s1.handover, now) \/ Passed(s1.pending, now))
        THEN Closed(s1) ELSE s1

\* startup_plan, from the record and this boot alone.
OtherBoot(rec, own) == own = None \/ (rec.boot # 0 /\ own # rec.boot)

\* Mutant of StartupPlan: a restart arms a deadline of its own.
StartupPlanExtends(d, own, now) ==
    IF d = NoRecord THEN [plan |-> "resume", until |-> None]
    ELSE IF d = Unreadable THEN [plan |-> "cleanup", until |-> None]
    ELSE IF d.closing \/ OtherBoot(d, own) \/ Passed(d.until, now)
         THEN [plan |-> "cleanup", until |-> None]
    ELSE IF d.until # None \/ d.holders # {}
         THEN [plan |-> "pending", until |-> HandoverUntil(now)]
    ELSE [plan |-> "resume", until |-> None]

StartupPlan(d, own, now) ==
    IF d = NoRecord THEN [plan |-> "resume", until |-> None]
    ELSE IF d = Unreadable THEN [plan |-> "cleanup", until |-> None]
    ELSE IF d.closing \/ OtherBoot(d, own) \/ Passed(d.until, now)
         THEN [plan |-> "cleanup", until |-> None]
    ELSE IF d.until # None THEN [plan |-> "pending", until |-> d.until]
    ELSE IF d.holders # {}
         THEN [plan |-> "pending", until |-> HandoverUntil(now)]
    ELSE [plan |-> "resume", until |-> None]

Plan(d, own, now) == StartupPlan(d, own, now).plan

----------------------------------------------------------------------------
Idle == [pc |-> "idle", told |-> 0]

Init ==
    /\ clock = 0 /\ boot = 1 /\ up = FALSE
    /\ disk = NoRecord
    /\ st = NoState
    /\ conn = [c \in Conn |-> Idle]
    /\ report = None /\ answered = FALSE
    /\ starts = 0 /\ faults = 0 /\ updates = 0
    /\ intent = "ended" /\ turn = FALSE /\ unseen = FALSE

\* What every end of the process leaves: the record and nothing else.
ProcessGone ==
    /\ up' = FALSE
    /\ st' = NoState
    /\ conn' = [c \in Conn |-> Idle]
    /\ report' = None /\ answered' = FALSE
    /\ UNCHANGED <<disk, intent, turn, unseen>>

----------------------------------------------------------------------------
(* startup::begin.  `own` is this boot, or None when it cannot be read;    *)
(* `kept` are the forgotten rows whose registration would not go, which is *)
(* what keep_unremoved leaves in memory (the record is not rewritten).     *)

DiskCount(d) == IF d \in {NoRecord, Unreadable} THEN 0 ELSE d.notEnded
DiskForget(d) == IF d \in {NoRecord, Unreadable} THEN {} ELSE d.forget

Start(own, kept) ==
    LET plan == StartupPlan(disk, own, clock)
        s    == NewState(own, DiskCount(disk), kept, plan.plan = "cleanup")
    IN  /\ ~up /\ starts < MaxStarts
        /\ starts' = starts + 1
        /\ kept \subseteq DiskForget(disk)
        /\ up' = TRUE
        /\ CASE plan.plan = "pending" ->
                  /\ st' = [s EXCEPT !.pending = plan.until]
                  /\ PersistOrLog(st')
                  /\ intent' = IF disk.until = None THEN "lost" ELSE intent
             [] plan.plan = "cleanup" ->
                  /\ st' = s /\ intent' = "ended"
                  /\ UNCHANGED <<disk, faults>>
             [] plan.plan = "resume" ->
                  st' = s /\ UNCHANGED <<disk, faults, intent>>
        /\ UNCHANGED <<clock, boot, conn, report, answered, updates, turn, unseen>>

StartKnown == \E kept \in SUBSET RowId : Start(boot, kept)

\* boot_identity() failed: every record plans Cleanup and no lease is granted.
StartUnknown ==
    /\ MaxFaults > 0
    /\ \E kept \in SUBSET RowId : Start(None, kept)

----------------------------------------------------------------------------
(* hold(): one lease connection.                                           *)

\* Mutant of Granted: a grant leaves a running deadline alone.
GrantedUnderDeadline(s, c, w) == [s EXCEPT !.held = @ \cup {<<c, w>>}]

\* Leases::grant for a claim that matches this boot and the peer the OS
\* reported: it clears a handover and a pending start, whatever the clock
\* says, and stands only once the record is written.
Granted(s, c, w) ==
    [s EXCEPT !.held = @ \cup {<<c, w>>}, !.handover = None, !.pending = None]

\* Mutant of Grant: a failed write is logged and the grant stands.
GrantUnrecorded(c, w) ==
    /\ up /\ conn[c].pc = "idle"
    /\ st.phase = "open" /\ st.ownBoot # None
    /\ PersistOrLog(Granted(st, c, w))
    /\ st' = Granted(st, c, w)
    /\ conn' = [conn EXCEPT ![c].pc = "granted"]
    /\ intent' = "held"
    /\ UNCHANGED <<clock, boot, up, report, answered, starts, updates, turn, unseen>>

Grant(c, w) ==
    /\ up /\ conn[c].pc = "idle"
    /\ st.phase = "open" /\ st.ownBoot # None
    /\ \/ /\ PersistOk(Granted(st, c, w))
          /\ st' = Granted(st, c, w)
          /\ conn' = [conn EXCEPT ![c].pc = "granted"]
          /\ intent' = "held"
       \/ /\ PersistFails(Granted(st, c, w))
          /\ UNCHANGED <<st, conn, intent>>
    /\ UNCHANGED <<clock, boot, up, report, answered, starts, updates, turn, unseen>>

\* The grant's answer carries the count, read under a lock of its own after
\* the grant's (Leases::notice).
GrantReply(c) ==
    /\ up /\ conn[c].pc = "granted"
    /\ conn' = [conn EXCEPT ![c] = [pc |-> "held", told |-> st.notEnded]]
    /\ unseen' = (unseen /\ st.notEnded = 0)
    /\ UNCHANGED <<clock, boot, up, disk, st, report, answered,
                   starts, faults, updates, intent, turn>>

\* fe.leaving: the first departs the lease, each later one replaces its
\* intent (leave_again).  A close that decided waits for the report.
Leaving(c, i) ==
    LET s == IF conn[c].pc = "held" THEN Removed(st, c) ELSE st
    IN  /\ up /\ conn[c].pc \in {"held", "left"}
        /\ st' = Decided(s, i, clock)
        /\ PersistOrLog(st')
        /\ conn' = [conn EXCEPT ![c].pc =
                       IF i = "close" /\ Decides(s) THEN "closer" ELSE "left"]
        /\ intent' = IF Decides(s) THEN i ELSE intent
        /\ turn' = (turn # Decides(s))
        /\ UNCHANGED <<clock, boot, up, report, answered, starts, updates, unseen>>

\* EOF, an io error or a failed write: a lease that announced nothing departs
\* as a handover; one that already left is simply gone.
EndOfStream(c) ==
    /\ up /\ conn[c].pc \in {"granted", "held", "left"}
    /\ conn' = [conn EXCEPT ![c] = Idle]
    /\ IF conn[c].pc = "left"
       THEN UNCHANGED <<st, disk, faults, intent, turn>>
       ELSE /\ st' = Decided(Removed(st, c), "handover", clock)
            /\ PersistOrLog(st')
            /\ intent' = IF Decides(Removed(st, c)) THEN "handover" ELSE intent
            /\ turn' = (turn # Decides(Removed(st, c)))
    /\ UNCHANGED <<clock, boot, up, report, answered, starts, updates, unseen>>

\* Leases::notice_seen
Seen(s, n) == IF n # 0 /\ s.notEnded = n THEN [s EXCEPT !.notEnded = 0] ELSE s

\* fe.notice_seen on a live lease connection: a window acks a count it was
\* told, once.
NoticeSeen(c) ==
    /\ up /\ conn[c].pc \in {"held", "left"} /\ conn[c].told > 0
    /\ st' = Seen(st, conn[c].told)
    /\ IF st' = st THEN UNCHANGED <<disk, faults>> ELSE PersistOrLog(st')
    /\ conn' = [conn EXCEPT ![c].told = 0]
    /\ UNCHANGED <<clock, boot, up, report, answered, starts, updates, intent, turn, unseen>>

----------------------------------------------------------------------------
(* The ticker, the update's commit, the shutdown.                          *)

Tick ==
    /\ up /\ st.phase = "open"
    /\ Ticked(st, clock) # st
    /\ st' = Ticked(st, clock)
    /\ PersistOrLog(st')
    /\ UNCHANGED <<clock, boot, up, conn, report, answered,
                   starts, updates, intent, turn, unseen>>

\* exit_for_update: the commit under the lease lock, the exit after it.
CommitUpdate ==
    /\ up /\ st.phase = "open" /\ updates < MaxUpdates
    /\ updates' = updates + 1
    /\ st' = [st EXCEPT !.phase = "updating"]
    /\ UNCHANGED <<clock, boot, up, disk, conn, report, answered,
                   starts, faults, intent, turn, unseen>>

UpdateExit ==
    /\ up /\ st.phase = "updating"
    /\ ProcessGone
    /\ UNCHANGED <<clock, boot, starts, faults, updates>>

\* Shutdown step 5: `n` sessions not ended, `ids` ended but registered still.
FinishedWith(s, n, ids) ==
    [s EXCEPT !.phase = IF @ = "closing" THEN "finished" ELSE @,
              !.notEnded = Counted(s, n), !.forget = @ \cup ids]

FinishShutdown(n, ids) ==
    /\ up /\ st.phase = "closing"
    /\ st' = FinishedWith(st, n, ids)
    /\ PersistOrLog(st')
    /\ report' = st'.notEnded
    /\ intent' = "ended" /\ turn' = ~turn
    /\ unseen' = (unseen \/ n > 0)
    /\ UNCHANGED <<clock, boot, up, conn, answered, starts, updates>>

\* answer_close, once the report is there: the reply, and for a count above
\* 0 the wait for its ack.
AnswerClose(c) ==
    /\ up /\ conn[c].pc = "closer" /\ report # None
    /\ \/ /\ report > 0   \* the reply went out: its ack is waited for
          /\ conn' = [conn EXCEPT ![c] = [pc |-> "told", told |-> report]]
          /\ unseen' = (unseen /\ report # st.notEnded)
          /\ UNCHANGED answered
       \/ /\ conn' = [conn EXCEPT ![c] = Idle]  \* nothing to ack, or no reply
          /\ answered' = TRUE
          /\ UNCHANGED unseen
    /\ UNCHANGED <<clock, boot, up, disk, st, report, starts, faults, updates, intent, turn>>

\* The closer's fe.notice_seen.
CloserSeen(c) ==
    /\ up /\ conn[c].pc = "told"
    /\ st' = Seen(st, conn[c].told)
    /\ IF st' = st THEN UNCHANGED <<disk, faults>> ELSE PersistOrLog(st')
    /\ conn' = [conn EXCEPT ![c] = Idle]
    /\ answered' = TRUE
    /\ UNCHANGED <<clock, boot, up, report, starts, updates, intent, turn, unseen>>

\* NOTICE_ACK_WAIT passed, or the connection ended.
CloserSilent(c) ==
    /\ up /\ conn[c].pc = "told"
    /\ conn' = [conn EXCEPT ![c] = Idle]
    /\ answered' = TRUE
    /\ UNCHANGED <<clock, boot, up, disk, st, report, starts, faults, updates,
                   intent, turn, unseen>>

\* shutdown::run's last step.
Exit ==
    /\ up /\ st.phase = "finished"
    /\ st.closerWaits => answered
    /\ ProcessGone
    /\ UNCHANGED <<clock, boot, starts, faults, updates>>

\* Mutant of Backstop: disarmed once the final record is written.
BackstopDisarmed ==
    /\ up /\ st.phase = "closing"
    /\ ProcessGone
    /\ UNCHANGED <<clock, boot, starts, faults, updates>>

\* The backstop thread at SHUTDOWN_BOUND, and step 6's own timeout.
Backstop ==
    /\ up /\ st.phase \in {"closing", "finished"}
    /\ ProcessGone
    /\ UNCHANGED <<clock, boot, starts, faults, updates>>

\* The end of a startup Cleanup; it never touches the phase.
FinishCleanup(n, ids) ==
    /\ up /\ st.startupCleanup
    /\ st' = [st EXCEPT !.startupCleanup = FALSE,
                        !.notEnded = Counted(st, n), !.forget = @ \cup ids]
    /\ PersistOrLog(st')
    /\ turn' = (turn # (st.phase \in {"open", "updating"}))
    /\ unseen' = (unseen \/ n > 0)
    /\ UNCHANGED <<clock, boot, up, conn, report, answered, starts, updates, intent>>

----------------------------------------------------------------------------
(* The world around the daemon.                                            *)

\* A kill, a handled signal, or main's own end.
Crash ==
    /\ up
    /\ ProcessGone
    /\ UNCHANGED <<clock, boot, starts, faults, updates>>

Reboot ==
    /\ boot < MaxBoots
    /\ boot' = boot + 1
    /\ ProcessGone
    /\ UNCHANGED <<clock, starts, faults, updates>>

\* The record damaged, or written by another version, between two daemons.
Damage ==
    /\ ~up /\ faults < MaxFaults
    /\ faults' = faults + 1
    /\ disk' = Unreadable
    /\ UNCHANGED <<clock, boot, up, st, conn, report, answered,
                   starts, updates, intent, turn, unseen>>

Advance ==
    /\ clock < MaxClock
    /\ clock' = clock + 1
    /\ UNCHANGED <<boot, up, disk, st, conn, report, answered,
                   starts, faults, updates, intent, turn, unseen>>

FinishesShutdown == \E n \in 0..MaxNotEnded, ids \in SUBSET RowId : FinishShutdown(n, ids)
FinishesCleanup  == \E n \in 0..MaxNotEnded, ids \in SUBSET RowId : FinishCleanup(n, ids)

Next ==
    \/ StartKnown \/ StartUnknown
    \/ \E c \in Conn, w \in Window : Grant(c, w)
    \/ \E c \in Conn : GrantReply(c)
    \/ \E c \in Conn, i \in Intents : Leaving(c, i)
    \/ \E c \in Conn : EndOfStream(c)
    \/ \E c \in Conn : NoticeSeen(c)
    \/ Tick
    \/ CommitUpdate \/ UpdateExit
    \/ FinishesShutdown
    \/ \E c \in Conn : AnswerClose(c)
    \/ \E c \in Conn : CloserSeen(c)
    \/ \E c \in Conn : CloserSilent(c)
    \/ Exit \/ Backstop
    \/ FinishesCleanup
    \/ Crash \/ Reboot \/ Damage \/ Advance

Spec == Init /\ [][Next]_vars

\* The clock moves, the 1 s ticker and the shutdown's own steps run, and the
\* backstop thread fires: what the runtime schedules by itself.  Windows,
\* restarts, crashes and updates owe nothing.
Fairness ==
    /\ WF_vars(Advance) /\ WF_vars(Tick)
    /\ WF_vars(FinishesShutdown) /\ WF_vars(FinishesCleanup)
    /\ WF_vars(Exit) /\ WF_vars(Backstop) /\ WF_vars(UpdateExit)

FairSpec == Spec /\ Fairness
----------------------------------------------------------------------------
(* Properties.                                                             *)

\* The state of the lease, the record and the connections is well typed.
TypeOK ==
    /\ clock \in 0..MaxClock /\ boot \in Nat \ {0} /\ up \in BOOLEAN
    /\ disk \in DiskType
    /\ st \in StateType
    /\ conn \in [Conn -> ConnType]
    /\ report \in 0..MaxCount \cup {None} /\ answered \in BOOLEAN
    /\ starts \in Nat /\ faults \in Nat /\ updates \in Nat
    /\ intent \in Intents \cup {"held", "lost", "ended"}
    /\ turn \in BOOLEAN /\ unseen \in BOOLEAN

\* Ruling (a), "the lease is the only proof a window is open": sessions are
\* never being ended while a window's lease is held (decide, tick, grant).
NoCloseUnderAWindow == st.phase \in {"closing", "finished"} => st.held = {}

\* Ruling (d), leases are fenced by generation: the leases held are exactly
\* those of the connections whose hold() has not departed, one each, also
\* when one window has several (depart removes by generation only).
HeldIsTheOpenConnections ==
    /\ \A c \in Conn : conn[c].pc \in {"granted", "held"} <=> \E w \in Window : <<c, w>> \in st.held
    /\ \A h, k \in st.held : h[1] = k[1] => h = k

\* A daemon killed while a window holds a lease is never followed by an
\* open-ended resume, whatever writes failed: the record it leaves plans a
\* bounded wait or a Cleanup ("a grant never outruns its record").
KillNeverKeeps == st.held # {} => Plan(disk, boot, clock) # "resume"

\* A kill during a startup Cleanup re-runs the Cleanup at the next start,
\* also once a close has begun in it (State::startup_cleanup).
KillInCleanupCleansAgain ==
    (st.startupCleanup /\ st.ownBoot # None /\ st.phase \in {"open", "closing"})
        => Plan(disk, boot, clock) = "cleanup"

\* The same as State::startup_cleanup's comment has it: until a shutdown
\* begins nothing writes the record, so a kill re-runs the Cleanup.
CleanupRecordStands ==
    (st.startupCleanup /\ st.ownBoot # None /\ st.phase \notin {"closing", "finished"})
        => Plan(disk, boot, clock) = "cleanup"

\* The inductive invariant behind the four above.  A process that is gone
\* leaves nothing in memory; a grant clears every deadline, so no deadline
\* runs while a lease is held (which makes tick's first branch dead code).
DownIsBlank == ~up => st = NoState /\ conn = [c \in Conn |-> Idle]

OwnBootIsCurrent == up /\ st.ownBoot # None => st.ownBoot = boot

NoDeadlineUnderALease ==
    st.held # {} => st.ownBoot # None /\ st.handover = None /\ st.pending = None

\* The safety of the lease, in inductive form: together with the types, every
\* step of every handler preserves it.
LeaseInv ==
    /\ DownIsBlank /\ OwnBootIsCurrent /\ NoDeadlineUnderALease
    /\ NoCloseUnderAWindow /\ HeldIsTheOpenConnections
    /\ KillNeverKeeps /\ KillInCleanupCleansAgain

Field(d, f, default) == IF d \in {NoRecord, Unreadable} THEN default ELSE d[f]

\* With no failed write, held.json says what the daemon knows: the holders,
\* the deadline, the close and the count a next start would load, and every
\* id still to forget.
RecordIsCurrent ==
    (faults = 0 /\ up /\ (st.startupCleanup => st.phase \in {"closing", "finished"})) =>
        /\ disk # Unreadable
        /\ Field(disk, "holders", {}) = {h[2] : h \in st.held}
        /\ Field(disk, "until", None) = Or(st.handover, st.pending)
        /\ Field(disk, "closing", FALSE) = (st.phase = "closing")
        /\ DiskCount(disk) = st.notEnded
        /\ st.forget \subseteq DiskForget(disk)

\* Ruling (c), "Ctrl+Q Yes is the only open-ended keep": a record that plans
\* an open-ended resume was left by a Keep, or after the sessions had ended.
OnlyKeepIsOpenEnded ==
    (faults = 0 /\ Plan(disk, boot, clock) = "resume") => intent \in {"keep", "ended"}

\* A recorded deadline moves later only to one a window's departure set in
\* this process: no restart, however often repeated, extends it ("written
\* once, so a restart never extends it", HeldRecord::handover_until_ms).
RestartNeverExtends ==
    [][ LET old == Field(disk, "until", None)
            new == Field(disk, "until", None)'
        IN  (old # None /\ new # None /\ new > old) => new = st'.handover ]_vars

\* "an ack of an older count never hides a newer one" (notice_seen): when a
\* count is cleared, the count at that moment had been told to some window,
\* or is about to be told to the closer.
AckNeverHidesANewerCount ==
    [][ (up /\ up' /\ st.notEnded > 0 /\ st'.notEnded = 0)
          => (~unseen \/ \E c \in Conn : conn[c].pc = "closer") ]_vars

Waiting == up /\ st.phase = "open" /\ st.held = {} /\ Or(st.handover, st.pending) # None

\* A handover or a pending start never lingers: a window takes the sessions,
\* a window keeps them, or their end begins (or the daemon is gone, and the
\* record decides).
HandoverIsBounded ==
    Waiting ~> (~up \/ st.held # {} \/ st.phase # "open" \/ intent = "keep")

\* A shutdown that began ends the process, whatever windows do.
CloseEndsTheProcess == (up /\ st.phase = "closing") ~> ~up

----------------------------------------------------------------------------
(* The promise, read off the record and this boot alone.                   *)

CustodyOf(d, b) ==
    IF d = NoRecord THEN "kept"
    ELSE IF d = Unreadable THEN "ending"
    ELSE IF d.closing \/ OtherBoot(d, b) THEN "ending"
    ELSE IF d.until # None THEN "bounded"
    ELSE IF d.holders # {} THEN "held"
    ELSE "kept"

Promise == INSTANCE Custody WITH
    custody <- CustodyOf(disk, boot),
    until   <- IF CustodyOf(disk, boot) = "bounded" THEN disk.until ELSE None

\* The record follows the custody protocol through every kill, restart,
\* Cleanup and close: the daemon implements what it promises.
PromiseKept == Promise!Spec
============================================================================
