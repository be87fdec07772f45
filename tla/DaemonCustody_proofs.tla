------------------------ MODULE DaemonCustody_proofs ------------------------
(* Deadlines across restarts, and the refinement of Custody: theorems about *)
(* DaemonLease for every set of connections, windows and rows.              *)
EXTENDS DaemonLease_proofs

(***************************************************************************)
(* A restart never extends a deadline.                                     *)
(***************************************************************************)

\* A deadline from before this process runs only while no window came, alone, and
\* as the record has it.
PendingInv ==
    st.pending # None =>
        /\ st.handover = None
        /\ \A c \in Conn : conn[c].pc = "idle"
        /\ Field(disk, "until", None) \in {None, st.pending}

\* The record's deadline after a write of state s.
LEMMA WrittenUntil ==
    ASSUME NEW s \in StateType
    PROVE  Field(Written(Record(s)), "until", None) = Or(s.handover, s.pending)
BY WrittenCarries DEF Carries

\* A step that writes its next state and sets no deadline from before the process.
LEMMA WriteKeepsPending ==
    ASSUME PendingInv, st' \in StateType, PersistOrLog(st'),
           st'.pending \in {st.pending, None},
           st'.pending # None => st'.handover = None /\ conn' = conn
    PROVE  PendingInv'
<1>1. disk' \in {disk, Written(Record(st'))}
  BY DEF PersistOrLog, PersistOk, PersistFails
<1>2. SUFFICES ASSUME st'.pending # None PROVE PendingInv'
  BY DEF PendingInv
<1>3. st'.pending = st.pending /\ st'.handover = None
  BY <1>2
<1>4. Field(Written(Record(st')), "until", None) = st.pending
  BY <1>3, WrittenUntil DEF Or
<1>5. Field(disk, "until", None) \in {None, st.pending}
  BY <1>2, <1>3 DEF PendingInv
<1>6. Field(disk', "until", None) \in {None, st'.pending}
  BY <1>1, <1>3, <1>4, <1>5
<1> QED BY <1>2, <1>3, <1>6 DEF PendingInv

\* What may move the record's deadline later: only what this process's departures set.
ExtendsNothing ==
    LET old == Field(disk, "until", None)
        new == Field(disk, "until", None)'
    IN  (old # None /\ new # None /\ new > old) => new = st'.handover

\* A write of the next state extends nothing.
LEMMA WriteExtendsNothing ==
    ASSUME TypeOK, PendingInv, st' \in StateType, PersistOrLog(st'),
           st'.pending \in {st.pending, None}
    PROVE  ExtendsNothing
<1> DEFINE old == Field(disk, "until", None)
           new == Field(disk', "until", None)
<1>1. disk' \in {disk, Written(Record(st'))}
  BY DEF PersistOrLog, PersistOk, PersistFails
<1>2. old \in Nat \cup {None}
  BY DEF TypeOK, Field, DiskType, HeldRecord, Deadline
<1>3. Field(Written(Record(st')), "until", None) = Or(st'.handover, st'.pending)
  BY WrittenUntil
<1>4. new \in {old, st'.handover, st.pending, None}
  BY <1>1, <1>3 DEF Or
<1>5. new = st.pending /\ new # None => old \in {None, new}
  BY DEF PendingInv
<1> HIDE DEF old, new
<1>6. (old # None /\ new # None /\ new > old) => new = st'.handover
  BY <1>2, <1>4, <1>5
<1> QED BY <1>6 DEF ExtendsNothing, old, new

\* A daemon that starts takes the record's deadline over, or sets its first one.
LEMMA StartExtendsNothing ==
    ASSUME TypeOK, TypeOK', LeaseInv, NEW own, NEW kept, Start(own, kept)
    PROVE  PendingInv' /\ ExtendsNothing
<1> DEFINE plan == StartupPlan(disk, own, clock)
           s == NewState(own, DiskCount(disk), kept, plan.plan = "cleanup")
<1>1. \A c \in Conn : conn'[c].pc = "idle"
  BY LeaseInvParts DEF Start, DownIsBlank, Idle
<1>2. st' \in StateType /\ disk \in DiskType /\ clock \in Nat
  BY BoundsAssumption DEF TypeOK
<1>3. s.handover = None /\ s.pending = None
  BY DEF NewState
<1>4. CASE plan.plan = "pending"
  <2>1. st' = [s EXCEPT !.pending = plan.until] /\ PersistOrLog(st')
    BY <1>4 DEF Start
  <2>2. st'.pending = plan.until /\ st'.handover = None
    BY <2>1 DEF NewState
  <2>3. disk \in HeldRecord /\ Field(disk, "until", None) \in {None, plan.until}
    BY <1>2, <1>4, RecordAssumption DEF StartupPlan, DiskType, Field
  <2> HIDE DEF plan, s
  <2>4. disk' \in {disk, Written(Record(st'))}
    BY <2>1 DEF PersistOrLog, PersistOk, PersistFails
  <2>5. Field(Written(Record(st')), "until", None) = plan.until
    BY <1>2, <2>2, WrittenUntil DEF Or
  <2>6. Field(disk', "until", None) \in {Field(disk, "until", None), plan.until}
    BY <2>4, <2>5
  <2>7. Field(disk, "until", None) \in Nat \cup {None}
    BY <1>2 DEF Field, DiskType, HeldRecord, Deadline
  <2>8. PendingInv'
    BY <1>1, <2>2, <2>3, <2>6 DEF PendingInv
  <2>9. ExtendsNothing
    BY <2>3, <2>6, <2>7 DEF ExtendsNothing, Field
  <2> QED BY <2>8, <2>9
<1>5. CASE plan.plan \in {"cleanup", "resume"}
  <2>1. st' = s /\ disk' = disk
    BY <1>5 DEF Start
  <2>2. Field(disk, "until", None)' = Field(disk, "until", None)
    BY <2>1 DEF Field
  <2>3. Field(disk, "until", None) \in Nat \cup {None}
    BY <1>2 DEF Field, DiskType, HeldRecord, Deadline
  <2>4. ExtendsNothing
    BY <2>2, <2>3 DEF ExtendsNothing
  <2>5. PendingInv'
    BY <1>3, <2>1 DEF PendingInv
  <2> QED BY <2>4, <2>5
<1>6. plan.plan \in {"pending", "cleanup", "resume"}
  BY DEF StartupPlan
<1> QED BY <1>4, <1>5, <1>6

\* A step that leaves the record as it was extends nothing.
LEMMA SameRecord ==
    ASSUME TypeOK, disk' = disk
    PROVE  ExtendsNothing
<1>1. Field(disk, "until", None) \in Nat \cup {None}
  BY DEF TypeOK, Field, DiskType, HeldRecord, Deadline
<1>2. Field(disk, "until", None)' = Field(disk, "until", None)
  BY DEF Field
<1> QED BY <1>1, <1>2 DEF ExtendsNothing

\* A grant clears every deadline in memory, and in the record unless its write fails.
LEMMA GrantExtendsNothing ==
    ASSUME TypeOK, TypeOK', PendingInv, NEW c \in Conn, NEW w \in Window, Grant(c, w)
    PROVE  PendingInv' /\ ExtendsNothing
<1> DEFINE g == Granted(st, c, w)
<1>1. g \in StateType /\ g.handover = None /\ g.pending = None
  BY GrantedType DEF Granted, TypeOK, StateType
<1> HIDE DEF g
<1>2. CASE PersistOk(g) /\ st' = g
  BY <1>1, <1>2, WriteKeepsPending, WriteExtendsNothing DEF PersistOrLog
<1>3. CASE PersistFails(g) /\ UNCHANGED <<st, conn>>
  <2>1. disk' \in {disk, Written(Record(g))}
    BY <1>3 DEF PersistFails
  <2>2. Field(Written(Record(g)), "until", None) = None
    BY <1>1, WrittenUntil DEF Or
  <2>3. Field(disk', "until", None) \in {Field(disk, "until", None), None}
    BY <2>1, <2>2
  <2>4. Field(disk, "until", None) \in Nat \cup {None}
    BY DEF TypeOK, Field, DiskType, HeldRecord, Deadline
  <2>5. PendingInv'
    BY <1>3, <2>3 DEF PendingInv
  <2>6. Field(disk, "until", None)' \in {Field(disk, "until", None), None}
    BY <2>3 DEF Field
  <2>7. ExtendsNothing
    BY <2>4, <2>6 DEF ExtendsNothing
  <2> QED BY <2>5, <2>7
<1> QED BY <1>2, <1>3 DEF Grant, g

\* A departure comes after a grant: no deadline from before the process is left.
LEMMA DepartureExtendsNothing ==
    ASSUME TypeOK, TypeOK', PendingInv, NEW c \in Conn, conn[c].pc # "idle",
           NEW s \in StateType, s.pending = st.pending, NEW i \in Intents,
           st' = Decided(s, i, clock), PersistOrLog(st')
    PROVE  PendingInv' /\ ExtendsNothing
<1>1. st.pending = None /\ st' \in StateType
  BY DEF PendingInv, TypeOK
<1>2. Decided(s, i, clock).pending = None
  BY <1>1 DEF Decided, Closed, StateType, Intents
<1> QED BY <1>1, <1>2, WriteKeepsPending, WriteExtendsNothing

\* Every step keeps the pending deadline the record's, and extends nothing.
LEMMA PendingInvariant == Spec => []PendingInv /\ [][ExtendsNothing]_vars
<1>1. Init => PendingInv
  BY DEF Init, NoState, NewState, PendingInv
<1>2. TypeOK /\ TypeOK' /\ LeaseInv /\ PendingInv /\ [Next]_vars => PendingInv' /\ ExtendsNothing
  <2> SUFFICES ASSUME TypeOK, TypeOK', LeaseInv, PendingInv, [Next]_vars
               PROVE  PendingInv' /\ ExtendsNothing
    OBVIOUS
  <2>t. st \in StateType /\ st' \in StateType /\ disk \in DiskType
    BY DEF TypeOK
  <2>1. CASE StartKnown \/ StartUnknown
    BY <2>1, StartExtendsNothing DEF StartKnown, StartUnknown
  <2>2. CASE \E c \in Conn, w \in Window : Grant(c, w)
    BY <2>2, GrantExtendsNothing
  <2>3. ASSUME NEW c \in Conn, GrantReply(c) \/ AnswerClose(c) \/ CloserSilent(c)
        PROVE  PendingInv' /\ ExtendsNothing
    <3>1. disk' = disk /\ st' = st /\ conn[c].pc # "idle"
      BY <2>3 DEF GrantReply, AnswerClose, CloserSilent
    <3>2. st'.pending = None
      BY <3>1 DEF PendingInv
    <3> QED BY <3>1, <3>2, SameRecord DEF PendingInv
  <2>4. ASSUME NEW c \in Conn, NEW i \in Intents, Leaving(c, i)
        PROVE  PendingInv' /\ ExtendsNothing
    <3> DEFINE s == IF conn[c].pc = "held" THEN Removed(st, c) ELSE st
    <3>1. s \in StateType /\ s.pending = st.pending
      BY <2>t, RemovedType, RemovedFacts
    <3>2. st' = Decided(s, i, clock) /\ PersistOrLog(st') /\ conn[c].pc # "idle"
      BY <2>4 DEF Leaving
    <3> HIDE DEF s
    <3> QED BY <3>1, <3>2, DepartureExtendsNothing
  <2>5. ASSUME NEW c \in Conn, EndOfStream(c)
        PROVE  PendingInv' /\ ExtendsNothing
    <3>1. conn[c].pc # "idle"
      BY <2>5 DEF EndOfStream
    <3>2. CASE conn[c].pc = "left"
      <4>1. disk' = disk /\ st' = st
        BY <2>5, <3>2 DEF EndOfStream
      <4>2. st'.pending = None
        BY <3>1, <4>1 DEF PendingInv
      <4> QED BY <4>1, <4>2, SameRecord DEF PendingInv
    <3>3. CASE conn[c].pc # "left"
      <4>1. st' = Decided(Removed(st, c), "handover", clock) /\ PersistOrLog(st')
        BY <2>5, <3>3 DEF EndOfStream
      <4>2. Removed(st, c) \in StateType /\ Removed(st, c).pending = st.pending
        BY <2>t, RemovedType, RemovedFacts
      <4>3. "handover" \in Intents
        BY DEF Intents
      <4> QED BY <3>1, <4>1, <4>2, <4>3, DepartureExtendsNothing
    <3> QED BY <3>2, <3>3
  <2>6. ASSUME NEW c \in Conn, NoticeSeen(c) \/ CloserSeen(c)
        PROVE  PendingInv' /\ ExtendsNothing
    <3>1. /\ st' = Seen(st, conn[c].told) /\ conn[c].pc # "idle"
          /\ (st' = st /\ disk' = disk) \/ PersistOrLog(st')
      BY <2>6 DEF NoticeSeen, CloserSeen
    <3>2. st.pending = None
      BY <3>1 DEF PendingInv
    <3>3. st'.pending = None
      BY <2>t, <3>1, <3>2 DEF Seen, StateType
    <3> QED BY <2>t, <3>1, <3>3, SameRecord, WriteExtendsNothing DEF PendingInv
  <2>7. CASE Tick
    <3>1. st' = Ticked(st, clock) /\ PersistOrLog(st') /\ conn' = conn
      BY <2>7 DEF Tick
    <3>2. /\ Ticked(st, clock).pending \in {st.pending, None}
          /\ Ticked(st, clock).handover \in {st.handover, None}
      BY <2>t DEF Ticked, Closed, StateType
    <3>3. st'.pending # None => st'.handover = None
      BY <3>1, <3>2 DEF PendingInv
    <3> QED BY <2>t, <3>1, <3>2, <3>3, WriteKeepsPending, WriteExtendsNothing
  <2>8. CASE CommitUpdate
    <3>1. /\ disk' = disk /\ conn' = conn /\ st'.pending = st.pending
          /\ st'.handover = st.handover
      BY <2>8, <2>t DEF CommitUpdate, StateType
    <3> QED BY <3>1, SameRecord DEF PendingInv, Field
  <2>9. CASE UpdateExit \/ Exit \/ Backstop \/ Crash \/ Reboot
    <3>1. disk' = disk /\ st'.pending = None
      BY <2>9 DEF UpdateExit, Exit, Backstop, Crash, Reboot, ProcessGone, NoState, NewState
    <3> QED BY <3>1, SameRecord DEF PendingInv
  <2>10. CASE FinishesShutdown \/ FinishesCleanup
    <3>1. /\ st'.pending = st.pending /\ st'.handover = st.handover
          /\ PersistOrLog(st') /\ conn' = conn
      BY <2>10, <2>t DEF FinishesShutdown, FinishShutdown, FinishedWith,
                         FinishesCleanup, FinishCleanup, StateType
    <3>2. st'.pending # None => st'.handover = None
      BY <3>1 DEF PendingInv
    <3> QED BY <2>t, <3>1, <3>2, WriteKeepsPending, WriteExtendsNothing
  <2>11. CASE Damage
    <3>1. disk' = Unreadable /\ st' = st /\ conn' = conn
      BY <2>11 DEF Damage
    <3>2. Field(disk', "until", None) = None /\ Field(disk, "until", None)' = None
      BY <3>1 DEF Field
    <3> QED BY <3>1, <3>2 DEF PendingInv, ExtendsNothing
  <2>12. CASE Advance \/ UNCHANGED vars
    <3>1. disk' = disk /\ st' = st /\ conn' = conn
      BY <2>12 DEF Advance, vars
    <3> QED BY <3>1, SameRecord DEF PendingInv, Field
  <2> QED BY <2>1, <2>2, <2>3, <2>4, <2>5, <2>6, <2>7, <2>8, <2>9, <2>10, <2>11,
             <2>12 DEF Next
<1> QED BY <1>1, <1>2, TypeCorrect, LeaseSafe, PTL DEF Spec

\* A recorded deadline moves later only to one a window's departure set in this
\* process: no kill, restart, reboot, failed write or damage extends one ("written
\* once, so a restart never extends it", HeldRecord::handover_until_ms).
THEOREM NoRestartExtends == Spec => RestartNeverExtends
BY PendingInvariant, PTL DEF RestartNeverExtends, ExtendsNothing

(***************************************************************************)
(* What the refinement of Custody rests on.                                *)
(***************************************************************************)

\* With no fault the daemon knows its boot, and an open record is of this one.
BootInv ==
    /\ faults = 0 /\ updates = 0
    /\ up => st.ownBoot = boot
    /\ up /\ Settled(st) /\ disk # NoRecord => ~OtherBoot(disk, boot)

\* What last decided is what the state says, and a close or a Cleanup waits for nobody.
MeantInv ==
    /\ st.phase \in {"closing", "finished"} => st.handover = None /\ st.pending = None
    /\ st.startupCleanup => st.pending = None
    /\ st.phase = "open" /\ st.held # {} => intent = "held"
    /\ st.phase = "open" /\ st.held = {} /\ st.handover # None =>
          intent = "handover" /\ st.handover <= HandoverUntil(clock)

CustodyInv == BootInv /\ MeantInv

\* Without a fault a write happens as it is meant to.
LEMMA FaultlessWrite ==
    ASSUME MaxFaults = 0, faults = 0, NEW s, PersistOrLog(s)
    PROVE  faults' = 0 /\ disk' = IF PersistSkipped(s) THEN disk ELSE Written(Record(s))
BY DEF PersistOrLog, PersistOk, PersistFails

\* A write of a daemon that knows its boot leaves a record of this boot.
LEMMA WriteKeepsBoot ==
    ASSUME MaxFaults = 0, TypeOK, faults = 0, updates = 0, st' \in StateType,
           PersistOrLog(st'), boot' = boot, updates' = updates, st'.ownBoot = boot
    PROVE  BootInv'
<1>1. faults' = 0 /\ disk' = IF PersistSkipped(st') THEN disk ELSE Written(Record(st'))
  BY FaultlessWrite
<1>2. boot # None
  BY NoneAssumption DEF TypeOK
<1>3. Record(st').boot = boot
  BY <1>2 DEF Record
<1> HIDE DEF Record
<1>4. Written(Record(st')) # NoRecord => ~OtherBoot(Written(Record(st')), boot)
  BY <1>2, <1>3 DEF Written, OtherBoot
<1>5. Settled(st') => ~PersistSkipped(st')
  BY DEF Settled, PersistSkipped
<1>6. Settled(st') /\ disk' # NoRecord => ~OtherBoot(disk', boot')
  BY <1>1, <1>4, <1>5
<1> QED BY <1>1, <1>6 DEF BootInv

\* A step that changes nothing of what the boot's part of the invariant reads.
LEMMA BootSame ==
    ASSUME BootInv, UNCHANGED <<faults, updates, up, boot, disk, st>>
    PROVE  BootInv'
BY DEF BootInv, Settled, OtherBoot

\* A step that changes nothing of who holds the sessions.
LEMMA MeantSame ==
    ASSUME MeantInv, st'.phase = st.phase, st'.held = st.held,
           st'.handover = st.handover, st'.pending = st.pending,
           st'.startupCleanup => st.startupCleanup,
           intent' = intent \/ st.phase # "open", clock' = clock
    PROVE  MeantInv'
BY DEF MeantInv

\* A departure leaves intent what its decision was, and no deadline but its own.
LEMMA DepartureMeant ==
    ASSUME TypeOK, MeantInv, NEW s \in StateType, NEW i \in Intents,
           st.pending = None, s.phase = st.phase, s.held \subseteq st.held,
           s.handover = st.handover, s.pending = None,
           st' = Decided(s, i, clock),
           intent' = IF Decides(s) THEN i ELSE intent, clock' = clock
    PROVE  MeantInv'
<1>1. clock \in Nat /\ HandoverUntil(clock) \in Nat
  BY BoundsAssumption, HandoverUntilType DEF TypeOK
<1>2. CASE ~Decides(s)
  <2>1. st' = s /\ intent' = intent
    BY <1>2 DEF Decided
  <2>2. st'.phase = "open" => st'.held # {} /\ st.held # {}
    BY <1>2, <2>1 DEF Decides
  <2> QED BY <2>1, <2>2 DEF MeantInv
<1>3. CASE Decides(s)
  <2>1. s.held = {} /\ s.phase = "open" /\ intent' = i
    BY <1>3 DEF Decides
  <2>2. CASE i = "close"
    <3>1. st' = [Closed(s) EXCEPT !.closerWaits = TRUE]
      BY <1>3, <2>2 DEF Decided
    <3>2. st'.phase = "closing" /\ st'.handover = None /\ st'.pending = None
      BY <2>1, <3>1 DEF Closed, StateType
    <3> QED BY <3>2 DEF MeantInv
  <2>3. CASE i = "keep"
    <3>1. st' = [s EXCEPT !.handover = None]
      BY <1>3, <2>3 DEF Decided
    <3>2. st'.phase = "open" /\ st'.held = {} /\ st'.handover = None /\ st'.pending = None
      BY <2>1, <3>1 DEF StateType
    <3> QED BY <3>2 DEF MeantInv
  <2>4. CASE i = "handover"
    <3>1. st' = [s EXCEPT !.handover = HandoverUntil(clock)]
      BY <1>3, <2>4 DEF Decided
    <3>2. /\ st'.phase = "open" /\ st'.held = {} /\ st'.pending = None
          /\ st'.handover = HandoverUntil(clock)
      BY <2>1, <3>1 DEF StateType
    <3>3. st'.handover <= HandoverUntil(clock')
      BY <1>1, <3>2
    <3> QED BY <2>1, <2>4, <3>2, <3>3 DEF MeantInv
  <2> QED BY <2>2, <2>3, <2>4 DEF Intents
<1> QED BY <1>2, <1>3

\* A tick that changes the state begins the end of what nobody holds.
LEMMA TickCloses ==
    ASSUME TypeOK, LeaseInv, Tick
    PROVE  /\ st.held = {} /\ st' = Closed(st)
           /\ Passed(st.handover, clock) \/ Passed(st.pending, clock)
           /\ st'.phase = "closing" /\ st'.held = {} /\ st'.ownBoot = st.ownBoot
           /\ st'.handover = None /\ st'.pending = None
<1>1. st.held # {} => st.pending = None
  BY LeaseInvParts DEF StateOk
<1>2. /\ Ticked(st, clock) # st /\ st' = Ticked(st, clock) /\ st.phase = "open"
      /\ st \in StateType
  BY DEF Tick, TypeOK
<1>3. ~(Passed(st.pending, clock) /\ st.held # {})
  BY <1>1 DEF Passed
<1>4. /\ st.held = {} /\ st' = Closed(st)
      /\ Passed(st.handover, clock) \/ Passed(st.pending, clock)
  BY <1>2, <1>3 DEF Ticked
<1>5. /\ st'.phase = "closing" /\ st'.held = {} /\ st'.ownBoot = st.ownBoot
      /\ st'.handover = None /\ st'.pending = None
  BY <1>2, <1>4 DEF Closed, StateType
<1> QED BY <1>4, <1>5

\* With no fault and no update every step keeps who is meant to hold the sessions.
LEMMA CustodyInvariant ==
    ASSUME MaxFaults = 0, MaxUpdates = 0
    PROVE  Spec => []CustodyInv
<1>1. Init => CustodyInv
  BY DEF Init, NoState, NewState, CustodyInv, BootInv, MeantInv
<1>2. TypeOK /\ TypeOK' /\ LeaseInv /\ PendingInv /\ CustodyInv /\ [Next]_vars => CustodyInv'
  <2> SUFFICES ASSUME TypeOK, TypeOK', LeaseInv, PendingInv, CustodyInv, [Next]_vars
               PROVE  BootInv' /\ MeantInv'
    BY DEF CustodyInv
  <2>t. /\ st \in StateType /\ st' \in StateType /\ clock \in Nat /\ boot \in Nat \ {0}
        /\ faults \in Nat /\ boot # None
    BY BoundsAssumption, NoneAssumption DEF TypeOK
  <2>i. BootInv /\ MeantInv /\ faults = 0 /\ updates = 0
    BY DEF CustodyInv, BootInv
  <2>w. ASSUME up, PersistOrLog(st'), boot' = boot, updates' = updates,
               st'.ownBoot = st.ownBoot
        PROVE  BootInv'
    BY <2>w, <2>t, <2>i, WriteKeepsBoot DEF BootInv
  <2>1. CASE StartKnown \/ StartUnknown
    <3>1. PICK kept : Start(boot, kept)
      BY <2>1 DEF StartKnown, StartUnknown
    <3> DEFINE plan == StartupPlan(disk, boot, clock)
               s == NewState(boot, DiskCount(disk), kept, plan.plan = "cleanup")
    <3>2. boot' = boot /\ clock' = clock /\ updates' = updates
      BY <3>1 DEF Start
    <3>3. /\ s.held = {} /\ s.handover = None /\ s.pending = None /\ s.phase = "open"
          /\ s.ownBoot = boot /\ s.startupCleanup = (plan.plan = "cleanup")
      BY DEF NewState
    <3>4. CASE plan.plan = "pending"
      <4>1. st' = [s EXCEPT !.pending = plan.until] /\ PersistOrLog(st')
        BY <3>1, <3>4 DEF Start
      <4>2. /\ st'.held = {} /\ st'.handover = None /\ st'.phase = "open"
            /\ st'.ownBoot = boot /\ ~st'.startupCleanup
        BY <3>4, <4>1 DEF NewState
      <4> HIDE DEF s, plan
      <4> QED BY <2>i, <2>t, <3>2, <4>1, <4>2, WriteKeepsBoot DEF MeantInv
    <3>5. CASE plan.plan = "cleanup"
      <4>1. st' = s /\ faults' = faults
        BY <3>1, <3>5 DEF Start
      <4>2. ~Settled(st')
        BY <3>3, <3>5, <4>1 DEF Settled
      <4> HIDE DEF s
      <4> QED BY <2>i, <3>2, <3>3, <4>1, <4>2 DEF BootInv, MeantInv
    <3>6. CASE plan.plan = "resume"
      <4>1. st' = s /\ UNCHANGED <<disk, faults>>
        BY <3>1, <3>6 DEF Start
      <4>2. disk # NoRecord => ~OtherBoot(disk, boot)
        BY <3>6 DEF StartupPlan
      <4>3. disk' # NoRecord => ~OtherBoot(disk', boot')
        BY <3>2, <4>1, <4>2
      <4> HIDE DEF s
      <4> QED BY <2>i, <3>2, <3>3, <3>6, <4>1, <4>3 DEF BootInv, MeantInv
    <3>7. plan.plan \in {"pending", "cleanup", "resume"}
      BY DEF StartupPlan
    <3> QED BY <3>4, <3>5, <3>6, <3>7
  <2>2. ASSUME NEW c \in Conn, NEW w \in Window, Grant(c, w)
        PROVE  BootInv' /\ MeantInv'
    <3>1. ~PersistFails(Granted(st, c, w))
      BY <2>i DEF PersistFails
    <3>2. /\ up /\ PersistOk(st') /\ st' = Granted(st, c, w) /\ intent' = "held"
          /\ boot' = boot /\ updates' = updates /\ st.phase = "open"
      BY <2>2, <3>1 DEF Grant
    <3>3. /\ st'.ownBoot = st.ownBoot /\ st'.phase = "open" /\ st'.held # {}
          /\ st'.pending = None
      BY <2>t, <3>2 DEF Granted, StateType
    <3> QED BY <2>w, <3>2, <3>3 DEF PersistOrLog, MeantInv
  <2>3. ASSUME NEW c \in Conn, GrantReply(c) \/ AnswerClose(c) \/ CloserSilent(c)
        PROVE  BootInv' /\ MeantInv'
    <3>1. UNCHANGED <<faults, updates, up, boot, disk, st, intent, clock>>
      BY <2>3 DEF GrantReply, AnswerClose, CloserSilent
    <3> QED BY <2>i, <3>1, BootSame, MeantSame
  <2>4. ASSUME NEW c \in Conn, NEW i \in Intents, Leaving(c, i)
        PROVE  BootInv' /\ MeantInv'
    <3> DEFINE s == IF conn[c].pc = "held" THEN Removed(st, c) ELSE st
    <3>1. /\ s \in StateType /\ s.ownBoot = st.ownBoot /\ s.phase = st.phase
          /\ s.held \subseteq st.held /\ s.handover = st.handover /\ s.pending = st.pending
      BY <2>t, RemovedType, RemovedFacts
    <3>2. /\ up /\ boot' = boot /\ clock' = clock /\ updates' = updates
          /\ st' = Decided(s, i, clock) /\ PersistOrLog(st') /\ conn[c].pc # "idle"
          /\ intent' = IF Decides(s) THEN i ELSE intent
      BY <2>4 DEF Leaving
    <3>3. st.pending = None
      BY <3>2 DEF PendingInv
    <3> HIDE DEF s
    <3>4. st'.ownBoot = st.ownBoot
      BY <2>t, <3>1, <3>2, DecidedFacts DEF KeepsLeases
    <3> QED BY <2>i, <2>w, <3>1, <3>2, <3>3, <3>4, DepartureMeant
  <2>5. ASSUME NEW c \in Conn, EndOfStream(c)
        PROVE  BootInv' /\ MeantInv'
    <3>1. /\ up /\ boot' = boot /\ clock' = clock /\ updates' = updates /\ up' = up
          /\ conn[c].pc # "idle"
      BY <2>5 DEF EndOfStream
    <3>2. CASE conn[c].pc = "left"
      <4>1. UNCHANGED <<st, disk, faults, intent>>
        BY <2>5, <3>2 DEF EndOfStream
      <4> QED BY <2>i, <3>1, <4>1, BootSame, MeantSame
    <3>3. CASE conn[c].pc # "left"
      <4> DEFINE s == Removed(st, c)
      <4>1. /\ s \in StateType /\ s.ownBoot = st.ownBoot /\ s.phase = st.phase
            /\ s.held \subseteq st.held /\ s.handover = st.handover /\ s.pending = st.pending
        BY <2>t, RemovedType, RemovedFacts
      <4>2. /\ st' = Decided(s, "handover", clock) /\ PersistOrLog(st')
            /\ intent' = IF Decides(s) THEN "handover" ELSE intent
        BY <2>5, <3>3 DEF EndOfStream
      <4>3. st.pending = None /\ "handover" \in Intents
        BY <3>1 DEF PendingInv, Intents
      <4> HIDE DEF s
      <4>4. st'.ownBoot = st.ownBoot
        BY <2>t, <4>1, <4>2, <4>3, DecidedFacts DEF KeepsLeases
      <4> QED BY <2>i, <2>w, <3>1, <4>1, <4>2, <4>3, <4>4, DepartureMeant
    <3> QED BY <3>2, <3>3
  <2>6. ASSUME NEW c \in Conn, NoticeSeen(c) \/ CloserSeen(c)
        PROVE  BootInv' /\ MeantInv'
    <3>1. /\ up /\ up' = up /\ boot' = boot /\ clock' = clock /\ updates' = updates
          /\ intent' = intent /\ st' = Seen(st, conn[c].told)
          /\ (st' = st /\ UNCHANGED <<disk, faults>>) \/ PersistOrLog(st')
      BY <2>6 DEF NoticeSeen, CloserSeen
    <3>2. /\ st'.ownBoot = st.ownBoot /\ st'.phase = st.phase /\ st'.held = st.held
          /\ st'.handover = st.handover /\ st'.pending = st.pending
          /\ st'.startupCleanup = st.startupCleanup
      BY <2>t, <3>1 DEF Seen, StateType
    <3> QED BY <2>i, <2>w, <3>1, <3>2, BootSame, MeantSame
  <2>7. CASE Tick
    <3>1. up /\ PersistOrLog(st') /\ boot' = boot /\ updates' = updates
      BY <2>7 DEF Tick
    <3> QED BY <2>7, <2>w, <3>1, TickCloses DEF MeantInv
  <2>8. CASE FinishesShutdown
    <3>1. PICK n \in 0..MaxNotEnded, ids \in SUBSET RowId : FinishShutdown(n, ids)
      BY <2>8 DEF FinishesShutdown
    <3>2. /\ up /\ PersistOrLog(st') /\ boot' = boot /\ updates' = updates
          /\ st.phase = "closing"
      BY <3>1 DEF FinishShutdown
    <3>3. /\ st'.phase = "finished" /\ st'.ownBoot = st.ownBoot
          /\ st'.handover = st.handover /\ st'.pending = st.pending
      BY <2>t, <3>1, <3>2 DEF FinishShutdown, FinishedWith, StateType
    <3> QED BY <2>i, <2>w, <3>2, <3>3 DEF MeantInv
  <2>9. CASE FinishesCleanup
    <3>1. PICK n \in 0..MaxNotEnded, ids \in SUBSET RowId : FinishCleanup(n, ids)
      BY <2>9 DEF FinishesCleanup
    <3>2. /\ up /\ PersistOrLog(st') /\ boot' = boot /\ updates' = updates
          /\ clock' = clock /\ intent' = intent
      BY <3>1 DEF FinishCleanup
    <3>3. /\ st'.ownBoot = st.ownBoot /\ st'.phase = st.phase /\ st'.held = st.held
          /\ st'.handover = st.handover /\ st'.pending = st.pending /\ ~st'.startupCleanup
      BY <2>t, <3>1 DEF FinishCleanup, StateType
    <3> QED BY <2>i, <2>w, <3>2, <3>3, MeantSame
  <2>10. CASE CommitUpdate \/ Damage
    BY <2>10, <2>i DEF CommitUpdate, Damage
  <2>11. CASE UpdateExit \/ Exit \/ Backstop \/ Crash \/ Reboot
    BY <2>11, <2>i DEF UpdateExit, Exit, Backstop, Crash, Reboot, ProcessGone, NoState,
                       NewState, BootInv, MeantInv
  <2>12. CASE Advance
    <3>1. /\ clock' = clock + 1
          /\ UNCHANGED <<faults, updates, up, boot, disk, st, intent>>
      BY <2>12 DEF Advance
    <3>2. HandoverUntil(clock) <= HandoverUntil(clock') /\ HandoverUntil(clock) \in Nat
          /\ HandoverUntil(clock') \in Nat
      BY <2>t, <3>1, BoundsAssumption DEF HandoverUntil, Min2
    <3>3. st.handover \in Nat \cup {None}
      BY <2>t DEF StateType, Deadline
    <3>4. MeantInv'
      BY <2>i, <3>1, <3>2, <3>3 DEF MeantInv
    <3> QED BY <2>i, <3>1, <3>4, BootSame
  <2>13. CASE UNCHANGED vars
    BY <2>13, <2>i, BootSame, MeantSame DEF vars
  <2> QED BY <2>1, <2>2, <2>3, <2>4, <2>5, <2>6, <2>7, <2>8, <2>9, <2>10, <2>11, <2>12,
             <2>13 DEF Next
<1> QED BY <1>1, <1>2, TypeCorrect, LeaseSafe, PendingInvariant, PTL DEF Spec

(***************************************************************************)
(* The refinement: what the daemon's record promises, step by step.        *)
(***************************************************************************)

\* The refinement mapping of Promise.
cust == CustodyOf(disk, boot)
due  == IF cust = "bounded" THEN disk.until ELSE None

Lapsed == cust = "bounded" /\ due <= clock

\* What a state says of the sessions, were it recorded.
CustodyIn(s) ==
    IF s.phase = "closing" THEN "ending"
    ELSE IF Or(s.handover, s.pending) # None THEN "bounded"
    ELSE IF s.held # {} THEN "held"
    ELSE "kept"

DueIn(s) == IF s.phase = "closing" THEN None ELSE Or(s.handover, s.pending)

\* Every invariant the refinement rests on.
RefInv == TypeOK /\ LeaseInv /\ RecordInv /\ KeepInv /\ PendingInv /\ CustodyInv

\* A record that carries a state, of this boot, promises what the state says.
LEMMA RecordSays ==
    ASSUME NEW s \in StateType, NEW d \in DiskType, NEW b, Carries(s, d),
           d # NoRecord => ~OtherBoot(d, b)
    PROVE  /\ CustodyOf(d, b) = CustodyIn(s)
           /\ (IF CustodyOf(d, b) = "bounded" THEN d.until ELSE None) = DueIn(s)
<1>1. /\ d # Unreadable
      /\ Field(d, "holders", {}) = {h[2] : h \in s.held}
      /\ Field(d, "until", None) = Or(s.handover, s.pending)
      /\ Field(d, "closing", FALSE) = (s.phase = "closing")
  BY DEF Carries
<1>2. s.held = {} <=> {h[2] : h \in s.held} = {}
  OBVIOUS
<1>3. CASE d = NoRecord
  <2>1. /\ {h[2] : h \in s.held} = {} /\ Or(s.handover, s.pending) = None
        /\ (s.phase = "closing") = FALSE
    BY <1>1, <1>3 DEF Field
  <2> QED BY <1>2, <1>3, <2>1 DEF CustodyOf, CustodyIn, DueIn
<1>4. CASE d # NoRecord
  <2>1. /\ d.holders = {h[2] : h \in s.held} /\ d.until = Or(s.handover, s.pending)
        /\ d.closing = (s.phase = "closing") /\ ~OtherBoot(d, b)
    BY <1>1, <1>4 DEF Field
  <2>2. d.holders # {} <=> s.held # {}
    BY <1>2, <2>1
  <2> QED BY <1>1, <1>4, <2>1, <2>2 DEF CustodyOf, CustodyIn, DueIn
<1> QED BY <1>3, <1>4

\* While no startup Cleanup withholds its writes the record promises what memory says.
LEMMA StateSays ==
    ASSUME RefInv, up, Settled(st)
    PROVE  cust = CustodyIn(st) /\ due = DueIn(st)
<1>1. /\ st \in StateType /\ disk \in DiskType /\ Carries(st, disk)
      /\ disk # NoRecord => ~OtherBoot(disk, boot)
  BY DEF RefInv, TypeOK, RecordInv, CustodyInv, BootInv
<1> QED BY <1>1, RecordSays DEF cust, due

\* So it does after the step.
LEMMA NextSays ==
    ASSUME RefInv', up', Settled(st')
    PROVE  cust' = CustodyIn(st') /\ due' = DueIn(st')
<1>1. /\ st' \in StateType /\ disk' \in DiskType /\ Carries(st', disk')
      /\ disk' # NoRecord => ~OtherBoot(disk', boot')
  BY DEF RefInv, TypeOK, RecordInv, CustodyInv, BootInv, Carries, Settled, Field,
         DiskCount, DiskForget, OtherBoot
<1>2. /\ CustodyOf(disk', boot') = CustodyIn(st')
      /\ (IF CustodyOf(disk', boot') = "bounded" THEN disk'.until ELSE None) = DueIn(st')
  BY <1>1, RecordSays
<1> QED BY <1>2 DEF cust, due, CustodyOf, OtherBoot

\* While a startup Cleanup withholds them the record still promises an end.
LEMMA WithheldEnds ==
    ASSUME RefInv, up, ~Settled(st)
    PROVE  (cust = "ending" \/ Lapsed) /\ st.phase = "open" /\ st.startupCleanup
<1>1. PlanOk(st, disk) /\ st.ownBoot = boot /\ boot # None /\ disk \in DiskType
      /\ faults = 0 /\ updates = 0
  BY LeaseInvParts, NoneAssumption DEF RefInv, CustodyInv, BootInv, TypeOK
<1>2. st.phase = "open" /\ st.startupCleanup
  BY <1>1 DEF Settled, RefInv, KeepInv, PlanIsMeant, TypeOK, StateType, Phases
<1>3. Plan(disk, boot, clock) = "cleanup"
  BY <1>1, <1>2 DEF PlanOk
<1>4. disk # NoRecord /\ (disk = Unreadable \/ disk.closing \/ OtherBoot(disk, boot)
                          \/ Passed(disk.until, clock))
  BY <1>3 DEF Plan, StartupPlan
<1> QED BY <1>2, <1>4 DEF cust, due, Lapsed, CustodyOf, Passed

\* A withheld write, and any step that leaves the record, leaves the promise.
LEMMA SameSays ==
    ASSUME disk' = disk, boot' = boot
    PROVE  cust' = cust /\ due' = due
BY DEF cust, due, CustodyOf, OtherBoot

\* The steps of Custody, in terms of the mapping.
LEMMA AbstractSteps ==
    ASSUME clock' = clock
    PROVE
    /\ UNCHANGED <<cust, due, intent, turn>> => UNCHANGED Promise!cvars
    /\ cust # "ending" /\ cust' = "held" /\ due' = None /\ intent' = "held" /\ turn' = turn
         => Promise!Next
    /\ cust # "ending" /\ cust' = "bounded" /\ due' = HandoverUntil(clock)
         /\ intent' = "handover" /\ turn' = ~turn => Promise!Next
    /\ cust = "held" /\ cust' = "bounded" /\ due' = HandoverUntil(clock)
         /\ intent' = "lost" /\ turn' = turn => Promise!Next
    /\ cust # "ending" /\ cust' = "kept" /\ due' = None /\ intent' = "keep" /\ turn' = ~turn
         => Promise!Next
    /\ cust' = "ending" /\ due' = None /\ intent' = "close" /\ turn' = ~turn => Promise!Next
    /\ Lapsed /\ cust' = "ending" /\ due' = None /\ UNCHANGED <<intent, turn>> => Promise!Next
    /\ cust' = "ending" /\ due' = None /\ UNCHANGED <<intent, turn>> => Promise!Next
    /\ (cust = "ending" \/ Lapsed) /\ UNCHANGED <<cust, due>> /\ turn' \in BOOLEAN
         /\ intent' \in {"held", "handover", "keep", "close", "ended"} => Promise!Next
    /\ (cust = "ending" \/ Lapsed) /\ turn' = ~turn
         /\ \/ cust' = "held" /\ due' = None /\ intent' = "held"
            \/ cust' = "bounded" /\ due' \in 0..HandoverUntil(clock) /\ intent' = "handover"
            \/ cust' = "kept" /\ due' = None /\ intent' \in {"keep", "ended"}
         => Promise!Next
<1>1. Promise!Until(clock) = HandoverUntil(clock)
  BY DEF Promise!Until, HandoverUntil, Min2
<1>2. Promise!Lapsed <=> Lapsed
  BY DEF Promise!Lapsed, Lapsed, cust, due
<1> QED BY <1>1, <1>2 DEF cust, due, Promise!cvars, Promise!Next, Promise!Take, Promise!Leave,
        Promise!Lost, Promise!Keep, Promise!Close, Promise!Expire, Promise!Reboot,
        Promise!Ending, Promise!Ended

\* A step of Custody, or none.
Kept == Promise!Next \/ UNCHANGED Promise!cvars

\* A departure leaves, keeps, closes, or was not the last (Leases::depart, decide).
LEMMA DepartureIsKept ==
    ASSUME MaxFaults = 0, RefInv, RefInv', up, up', boot' = boot, clock' = clock,
           NEW c \in Conn, conn[c].pc # "idle", NEW s \in StateType, NEW i \in Intents,
           s.phase = st.phase, s.startupCleanup = st.startupCleanup,
           s.handover = st.handover, s.pending = st.pending,
           s.held \subseteq st.held,
           st' = Decided(s, i, clock), PersistOrLog(st'),
           intent' = (IF Decides(s) THEN i ELSE intent), turn' = (turn # Decides(s))
    PROVE  Kept
<1>1. /\ st \in StateType /\ clock \in Nat /\ turn \in BOOLEAN /\ faults = 0
      /\ st.pending = None /\ HandoverUntil(clock) \in Nat /\ HandoverUntil(clock) # None
      /\ st.held # {} => st.handover = None
      /\ StateOk(st)
  BY BoundsAssumption, NoneAssumption, HandoverUntilType, LeaseInvParts
     DEF RefInv, TypeOK, PendingInv, CustodyInv, BootInv, StateOk
<1>2. /\ disk' = IF PersistSkipped(st') THEN disk ELSE Written(Record(st'))
      /\ st'.startupCleanup = s.startupCleanup
  BY <1>1, FaultlessWrite, DecidedFacts DEF KeepsLeases
<1>5. turn' = IF Decides(s) THEN ~turn ELSE turn
  <2>1. Decides(s) = TRUE \/ Decides(s) = FALSE
    BY DEF Decides
  <2>2. turn = TRUE \/ turn = FALSE
    BY <1>1
  <2> QED BY <2>1, <2>2
<1>3. CASE ~Decides(s)
  <2>1. st' = s /\ UNCHANGED <<intent, turn>>
    BY <1>3, <1>5 DEF Decided
  <2>2. CASE Settled(st)
    <3>1. Settled(st')
      BY <2>1, <2>2 DEF Settled
    <3>2. /\ cust = CustodyIn(st) /\ due = DueIn(st)
          /\ cust' = CustodyIn(st') /\ due' = DueIn(st')
      BY <2>2, <3>1, StateSays, NextSays
    <3>3. CustodyIn(st') = CustodyIn(st) /\ DueIn(st') = DueIn(st)
      <4>1. CASE s.held = st.held
        BY <2>1, <4>1 DEF CustodyIn, DueIn
      <4>2. CASE s.held # st.held
        <5>0. st.held # {}
          BY <4>2
        <5>1. st.held # {} /\ st.phase \notin {"closing", "finished"}
          BY <1>1, <5>0 DEF StateOk
        <5>2. s.held # {}
          BY <1>1, <1>3, <5>1 DEF Decides, RefInv, CustodyInv, BootInv, KeepInv, PlanIsMeant,
                                 StateType, Phases
        <5>3. Or(st.handover, st.pending) = None /\ Or(s.handover, s.pending) = None
          BY <1>1, <5>1 DEF Or
        <5> QED BY <2>1, <5>1, <5>2, <5>3 DEF CustodyIn, DueIn
      <4> QED BY <4>1, <4>2
    <3> QED BY <2>1, <3>2, <3>3, AbstractSteps DEF Kept
  <2>3. CASE ~Settled(st)
    <3>1. PersistSkipped(st')
      BY <2>1, <2>3, WithheldEnds DEF PersistSkipped
    <3>2. cust' = cust /\ due' = due
      BY <1>2, <3>1, SameSays
    <3> QED BY <2>1, <3>2, AbstractSteps DEF Kept
  <2> QED BY <2>2, <2>3
<1>4. CASE Decides(s)
  <2>1. s.held = {} /\ s.phase = "open" /\ intent' = i /\ turn' = ~turn
    BY <1>4, <1>5 DEF Decides
  <2>2. CASE i = "close"
    <3>1. st' = [Closed(s) EXCEPT !.closerWaits = TRUE]
      BY <1>4, <2>2 DEF Decided
    <3>2. st'.phase = "closing"
      BY <2>1, <3>1 DEF Closed, StateType
    <3>3. cust' = "ending" /\ due' = None
      BY <3>2, NextSays DEF Settled, CustodyIn, DueIn
    <3> QED BY <2>1, <2>2, <3>3, AbstractSteps DEF Kept
  <2>3. CASE i \in {"keep", "handover"}
    <3>1. /\ st'.phase = "open" /\ st'.held = {} /\ st'.pending = None
          /\ st'.handover = IF i = "keep" THEN None ELSE HandoverUntil(clock)
      <4>1. st' = [s EXCEPT !.handover = IF i = "keep" THEN None ELSE HandoverUntil(clock)]
        BY <1>4, <2>3 DEF Decided
      <4> QED BY <1>1, <2>1, <4>1 DEF StateType
    <3>2. CASE Settled(st)
      <4>1. Settled(st') /\ cust = CustodyIn(st)
        BY <1>2, <3>2, StateSays, <2>1, <3>1 DEF Settled
      <4>2. cust # "ending"
        BY <2>1, <4>1 DEF CustodyIn
      <4>3. cust' = CustodyIn(st') /\ due' = DueIn(st')
        BY <4>1, NextSays
      <4>4. /\ i = "keep" => cust' = "kept" /\ due' = None
            /\ i = "handover" => cust' = "bounded" /\ due' = HandoverUntil(clock)
        BY <1>1, <3>1, <4>3 DEF CustodyIn, DueIn, Or
      <4> QED BY <2>1, <2>3, <4>2, <4>4, AbstractSteps DEF Kept
    <3>3. CASE ~Settled(st)
      <4>1. PersistSkipped(st') /\ (cust = "ending" \/ Lapsed)
        BY <1>2, <3>1, <3>3, WithheldEnds DEF PersistSkipped
      <4>2. cust' = cust /\ due' = due
        BY <1>2, <4>1, SameSays
      <4> QED BY <1>1, <2>1, <2>3, <4>1, <4>2, AbstractSteps DEF Kept
    <3> QED BY <3>2, <3>3
  <2> QED BY <2>2, <2>3 DEF Intents
<1> QED BY <1>3, <1>4

\* A start takes the record's deadline over, bounds a lost daemon's windows, or cleans up.
LEMMA StartIsKept ==
    ASSUME MaxFaults = 0, RefInv, RefInv', NEW kept, Start(boot, kept)
    PROVE  Kept
<1> DEFINE plan == StartupPlan(disk, boot, clock)
           s == NewState(boot, DiskCount(disk), kept, plan.plan = "cleanup")
<1>1. /\ up' /\ boot' = boot /\ clock' = clock /\ turn' = turn
      /\ disk # Unreadable /\ turn \in BOOLEAN /\ disk \in DiskType
  BY DEF Start, RefInv, TypeOK, RecordInv, CustodyInv, BootInv
<1>2. CASE plan.plan = "pending"
  <2>1. /\ st' = [s EXCEPT !.pending = plan.until]
        /\ intent' = IF disk.until = None THEN "lost" ELSE intent
    BY <1>2 DEF Start
  <2>2. /\ st'.phase = "open" /\ st'.handover = None /\ st'.pending = plan.until
        /\ ~st'.startupCleanup
    BY <1>2, <2>1 DEF NewState
  <2>3. /\ disk # NoRecord /\ ~disk.closing /\ ~OtherBoot(disk, boot)
        /\ disk.until # None => plan.until = disk.until
        /\ disk.until = None => disk.holders # {} /\ plan.until = HandoverUntil(clock)
    BY <1>1, <1>2 DEF StartupPlan
  <2>4. plan.until # None
    BY <1>1, <2>3, HandoverUntilType, NoneAssumption, BoundsAssumption DEF RefInv, TypeOK
  <2> HIDE DEF s, plan
  <2>5. cust' = "bounded" /\ due' = plan.until
    BY <1>1, <2>2, <2>4, NextSays DEF Settled, CustodyIn, DueIn, Or
  <2>6. CASE disk.until # None
    <3>1. cust = "bounded" /\ due = disk.until /\ intent' = intent
      BY <1>1, <2>1, <2>3, <2>6 DEF cust, due, CustodyOf
    <3> QED BY <1>1, <2>3, <2>5, <2>6, <3>1, AbstractSteps DEF Kept
  <2>7. CASE disk.until = None
    <3>1. cust = "held" /\ intent' = "lost"
      BY <1>1, <2>1, <2>3, <2>7 DEF cust, CustodyOf
    <3> QED BY <1>1, <2>3, <2>5, <2>7, <3>1, AbstractSteps DEF Kept
  <2> QED BY <2>6, <2>7
<1>3. CASE plan.plan = "cleanup"
  <2>1. disk' = disk /\ intent' = "ended"
    BY <1>3 DEF Start
  <2>2. cust = "ending" \/ Lapsed
    BY <1>1, <1>3 DEF StartupPlan, cust, due, Lapsed, CustodyOf, Passed
  <2>3. cust' = cust /\ due' = due
    BY <1>1, <2>1, SameSays
  <2> QED BY <1>1, <2>1, <2>2, <2>3, AbstractSteps DEF Kept
<1>4. CASE plan.plan = "resume"
  <2>1. disk' = disk /\ intent' = intent
    BY <1>4 DEF Start
  <2> QED BY <1>1, <2>1, SameSays, AbstractSteps DEF Kept
<1>5. plan.plan \in {"pending", "cleanup", "resume"}
  BY DEF StartupPlan
<1> QED BY <1>2, <1>3, <1>4, <1>5

\* A grant takes the sessions, or a window comes while their end is under way.
LEMMA GrantIsKept ==
    ASSUME MaxFaults = 0, RefInv, RefInv', NEW c \in Conn, NEW w \in Window, Grant(c, w)
    PROVE  Kept
<1> DEFINE g == Granted(st, c, w)
<1>1. st \in StateType /\ faults = 0 /\ turn \in BOOLEAN
  BY DEF RefInv, TypeOK, CustodyInv, BootInv
<1>2. ~PersistFails(g)
  BY <1>1 DEF PersistFails
<1>3. /\ PersistOk(g) /\ st' = g /\ intent' = "held" /\ st.phase = "open"
      /\ up /\ up' /\ boot' = boot /\ clock' = clock /\ turn' = turn
  BY <1>2 DEF Grant
<1>4. /\ st'.held # {} /\ st'.handover = None /\ st'.pending = None /\ st'.phase = "open"
      /\ st'.startupCleanup = st.startupCleanup
  BY <1>1, <1>3 DEF Granted, StateType
<1> HIDE DEF g
<1>5. CASE Settled(st)
  <2>1. cust = CustodyIn(st) /\ cust' = CustodyIn(st') /\ due' = DueIn(st')
    BY <1>3, <1>4, <1>5, StateSays, NextSays DEF Settled
  <2>2. cust # "ending" /\ cust' = "held" /\ due' = None
    BY <1>3, <1>4, <2>1 DEF CustodyIn, DueIn, Or
  <2> QED BY <1>3, <2>2, AbstractSteps DEF Kept
<1>6. CASE ~Settled(st)
  <2>1. disk' = disk
    BY <1>3, <1>4, <1>6, WithheldEnds DEF PersistOk, PersistSkipped
  <2>2. cust' = cust /\ due' = due /\ (cust = "ending" \/ Lapsed)
    BY <1>3, <1>6, <2>1, WithheldEnds, SameSays
  <2> QED BY <1>1, <1>3, <2>2, AbstractSteps DEF Kept
<1> QED BY <1>5, <1>6

\* A write that changes nothing of who holds the sessions is no step of Custody.
LEMMA SilentWrite ==
    ASSUME MaxFaults = 0, RefInv, RefInv', up, up', boot' = boot, clock' = clock,
           UNCHANGED <<intent, turn>>, st'.phase = st.phase, st'.held = st.held,
           st'.handover = st.handover, st'.pending = st.pending,
           st'.startupCleanup = st.startupCleanup,
           disk' = disk \/ PersistOrLog(st')
    PROVE  Kept
<1>1. CASE Settled(st)
  <2>1. CustodyIn(st') = CustodyIn(st) /\ DueIn(st') = DueIn(st) /\ Settled(st')
    BY <1>1 DEF CustodyIn, DueIn, Settled
  <2>2. cust' = cust /\ due' = due
    BY <1>1, <2>1, StateSays, NextSays
  <2> QED BY <2>2, AbstractSteps DEF Kept
<1>2. CASE ~Settled(st)
  <2>1. PersistSkipped(st') /\ faults = 0
    BY <1>2, WithheldEnds DEF PersistSkipped, RefInv, CustodyInv, BootInv
  <2>2. disk' = disk
    BY <2>1, FaultlessWrite
  <2> QED BY <2>2, SameSays, AbstractSteps DEF Kept
<1> QED BY <1>1, <1>2

\* A tick begins the end of what nobody holds, once its deadline has passed.
LEMMA TickIsKept ==
    ASSUME MaxFaults = 0, RefInv, RefInv', Tick
    PROVE  Kept
<1>1. /\ up /\ up' /\ boot' = boot /\ clock' = clock /\ UNCHANGED <<intent, turn>>
      /\ st.phase = "open"
  BY DEF Tick
<1>2. /\ Passed(st.handover, clock) \/ Passed(st.pending, clock)
      /\ st'.phase = "closing"
  BY TickCloses DEF RefInv
<1>3. cust' = "ending" /\ due' = None
  BY <1>1, <1>2, NextSays DEF Settled, CustodyIn, DueIn
<1>4. CASE Settled(st)
  <2>1. cust = CustodyIn(st) /\ due = DueIn(st)
    BY <1>1, <1>4, StateSays
  <2>2. st.pending # None => st.handover = None
    BY DEF RefInv, PendingInv
  <2>3. Lapsed
    BY <1>1, <1>2, <2>1, <2>2 DEF Lapsed, CustodyIn, DueIn, Or, Passed
  <2> QED BY <1>1, <1>3, <2>3, AbstractSteps DEF Kept
<1>5. CASE ~Settled(st)
  <2>1. cust = "ending" \/ Lapsed
    BY <1>1, <1>5, WithheldEnds
  <2>2. cust = "ending" => due = None
    BY DEF due
  <2> QED BY <1>1, <1>3, <2>1, <2>2, AbstractSteps DEF Kept
<1> QED BY <1>4, <1>5

\* The end of a shutdown, and of a startup Cleanup that no close overtook, is their end.
LEMMA EndIsKept ==
    ASSUME MaxFaults = 0, RefInv, RefInv', FinishesShutdown \/ FinishesCleanup
    PROVE  Kept
<1>1. /\ st \in StateType /\ clock \in Nat /\ turn \in BOOLEAN /\ faults = 0 /\ updates = 0
      /\ StateOk(st) /\ MeantInv /\ PlanIsMeant
  BY BoundsAssumption, LeaseInvParts DEF RefInv, TypeOK, CustodyInv, BootInv, KeepInv
<1>2. CASE FinishesShutdown
  <2>1. PICK n \in 0..MaxNotEnded, ids \in SUBSET RowId : FinishShutdown(n, ids)
    BY <1>2 DEF FinishesShutdown
  <2>2. /\ up /\ up' /\ boot' = boot /\ clock' = clock /\ intent' = "ended" /\ turn' = ~turn
        /\ st.phase = "closing"
    BY <2>1 DEF FinishShutdown
  <2>3. /\ st'.phase = "finished" /\ st'.held = {} /\ st'.handover = None /\ st'.pending = None
    BY <1>1, <2>1, <2>2 DEF FinishShutdown, FinishedWith, StateType, StateOk, MeantInv
  <2>4. cust = "ending"
    BY <2>2, StateSays DEF Settled, CustodyIn
  <2>5. cust' = "kept" /\ due' = None
    BY <2>2, <2>3, NextSays DEF Settled, CustodyIn, DueIn, Or
  <2> QED BY <2>2, <2>4, <2>5, AbstractSteps DEF Kept
<1>3. CASE FinishesCleanup
  <2>1. PICK n \in 0..MaxNotEnded, ids \in SUBSET RowId : FinishCleanup(n, ids)
    BY <1>3 DEF FinishesCleanup
  <2>2. /\ up /\ up' /\ boot' = boot /\ clock' = clock /\ intent' = intent
        /\ st.startupCleanup /\ PersistOrLog(st')
    BY <2>1 DEF FinishCleanup
  <2>3. /\ st'.phase = st.phase /\ st'.held = st.held /\ st'.handover = st.handover
        /\ st'.pending = st.pending /\ ~st'.startupCleanup
    BY <1>1, <2>1 DEF FinishCleanup, StateType
  <2>4. cust' = CustodyIn(st') /\ due' = DueIn(st')
    BY <2>2, <2>3, NextSays DEF Settled
  <2>5. CASE Settled(st)
    <3>1. st.phase \in {"closing", "finished"}
      BY <2>2, <2>5 DEF Settled
    <3>2. turn' = turn
      BY <1>1, <2>1, <3>1 DEF FinishCleanup
    <3>3. cust = CustodyIn(st) /\ due = DueIn(st)
      BY <2>2, <2>5, StateSays
    <3>4. CustodyIn(st') = CustodyIn(st) /\ DueIn(st') = DueIn(st)
      BY <2>3 DEF CustodyIn, DueIn
    <3> QED BY <2>2, <2>4, <3>2, <3>3, <3>4, AbstractSteps DEF Kept
  <2>6. CASE ~Settled(st)
    <3>1. (cust = "ending" \/ Lapsed) /\ st.phase = "open"
      BY <2>2, <2>6, WithheldEnds
    <3>2. turn' = ~turn
      BY <1>1, <2>1, <3>1 DEF FinishCleanup
    <3>3. st.pending = None /\ HandoverUntil(clock) \in Nat
      BY <1>1, <2>2, HandoverUntilType DEF MeantInv
    <3>4. CASE st.held # {}
      <4>1. st.handover = None /\ intent = "held"
        BY <1>1, <3>1, <3>4 DEF StateOk, MeantInv
      <4>2. cust' = "held" /\ due' = None
        BY <2>3, <2>4, <3>1, <3>3, <3>4, <4>1 DEF CustodyIn, DueIn, Or
      <4> QED BY <2>2, <3>1, <3>2, <4>1, <4>2, AbstractSteps DEF Kept
    <3>5. CASE st.held = {} /\ st.handover # None
      <4>1. intent = "handover" /\ st.handover \in 0..HandoverUntil(clock)
        BY <1>1, <3>1, <3>3, <3>5 DEF MeantInv, StateType, Deadline
      <4>2. cust' = "bounded" /\ due' = st.handover
        BY <2>3, <2>4, <3>1, <3>5 DEF CustodyIn, DueIn, Or
      <4> QED BY <2>2, <3>1, <3>2, <4>1, <4>2, AbstractSteps DEF Kept
    <3>6. CASE st.held = {} /\ st.handover = None
      <4>1. intent \in {"keep", "ended"}
        BY <1>1, <2>2, <3>1, <3>3, <3>6 DEF PlanIsMeant, Free, Or, KeptOrEnded
      <4>2. cust' = "kept" /\ due' = None
        BY <2>3, <2>4, <3>1, <3>3, <3>6 DEF CustodyIn, DueIn, Or
      <4> QED BY <2>2, <3>1, <3>2, <4>1, <4>2, AbstractSteps DEF Kept
    <3> QED BY <3>4, <3>5, <3>6
  <2> QED BY <2>5, <2>6
<1> QED BY <1>2, <1>3

\* A reboot ends what was held or bounded, and whatever a record of it says.
LEMMA RebootIsKept ==
    ASSUME RefInv, ProcessGone, boot' = boot + 1, clock' = clock
    PROVE  Kept
<1>1. disk' = disk /\ UNCHANGED <<intent, turn>> /\ boot \in Nat /\ boot # None /\ boot' # None
  BY NoneAssumption DEF ProcessGone, RefInv, TypeOK
<1>2. CASE disk \in {NoRecord, Unreadable}
  <2>1. cust' = cust /\ due' = due
    BY <1>1, <1>2, RecordAssumption DEF cust, due, CustodyOf
  <2> QED BY <1>1, <2>1, AbstractSteps DEF Kept
<1>3. CASE disk \notin {NoRecord, Unreadable}
  <2>1. disk.boot <= boot /\ disk.boot \in Nat
    BY <1>3 DEF RefInv, KeepInv, BootsArePast, TypeOK, DiskType, HeldRecord
  <2>2. CASE disk.boot = 0
    <3>1. cust' = cust /\ due' = due
      BY <1>1, <1>3, <2>2 DEF cust, due, CustodyOf, OtherBoot
    <3> QED BY <1>1, <3>1, AbstractSteps DEF Kept
  <2>3. CASE disk.boot # 0
    <3>1. OtherBoot(disk, boot')
      BY <1>1, <2>1, <2>3 DEF OtherBoot
    <3>2. CustodyOf(disk', boot') = "ending"
      BY <1>1, <1>3, <3>1 DEF CustodyOf
    <3>3. cust' = "ending" /\ due' = None
      BY <3>2 DEF cust, due, CustodyOf, OtherBoot
    <3> QED BY <1>1, <3>3, AbstractSteps DEF Kept
  <2> QED BY <2>2, <2>3
<1> QED BY <1>2, <1>3

\* The daemon implements what it promises, with no failed write, damage, unreadable boot
\* identity or update: through every kill, restart, reboot, Cleanup and close, of any
\* number of windows, its record follows Custody.  Each handler, with the write it makes,
\* is one step of Custody or none.
THEOREM TheDaemonKeepsItsPromise ==
    ASSUME MaxFaults = 0, MaxUpdates = 0
    PROVE  Spec => PromiseKept
<1>1. Init => Promise!Init
  BY RecordAssumption DEF Init, Promise!Init, CustodyOf
<1>2. RefInv /\ RefInv' /\ [Next]_vars => [Promise!Next]_(Promise!cvars)
  <2> SUFFICES ASSUME RefInv, RefInv', [Next]_vars PROVE Kept
    BY DEF Kept
  <2>t. /\ st \in StateType /\ st' \in StateType /\ clock \in Nat
        /\ faults = 0 /\ updates = 0
    BY BoundsAssumption DEF RefInv, TypeOK, CustodyInv, BootInv
  <2>s. ASSUME UNCHANGED <<disk, boot, clock, intent, turn>> PROVE Kept
    BY <2>s, SameSays, AbstractSteps DEF Kept
  <2>1. CASE StartKnown \/ StartUnknown
    BY <2>1, StartIsKept DEF StartKnown, StartUnknown
  <2>2. CASE \E c \in Conn, w \in Window : Grant(c, w)
    BY <2>2, GrantIsKept
  <2>3. CASE \E c \in Conn : GrantReply(c) \/ AnswerClose(c) \/ CloserSilent(c)
    BY <2>3, <2>s DEF GrantReply, AnswerClose, CloserSilent
  <2>4. ASSUME NEW c \in Conn, NEW i \in Intents, Leaving(c, i)
        PROVE  Kept
    <3> DEFINE s == IF conn[c].pc = "held" THEN Removed(st, c) ELSE st
    <3>1. /\ s \in StateType /\ s.startupCleanup = st.startupCleanup /\ s.phase = st.phase
          /\ s.held \subseteq st.held /\ s.handover = st.handover /\ s.pending = st.pending
      BY <2>t, RemovedType, RemovedFacts
    <3>2. /\ up /\ up' /\ boot' = boot /\ clock' = clock
          /\ st' = Decided(s, i, clock) /\ PersistOrLog(st') /\ conn[c].pc # "idle"
          /\ intent' = (IF Decides(s) THEN i ELSE intent) /\ turn' = (turn # Decides(s))
      BY <2>4 DEF Leaving
    <3> HIDE DEF s
    <3> QED BY <3>1, <3>2, DepartureIsKept
  <2>5. ASSUME NEW c \in Conn, EndOfStream(c)
        PROVE  Kept
    <3>1. up /\ up' /\ boot' = boot /\ clock' = clock /\ conn[c].pc # "idle"
      BY <2>5 DEF EndOfStream
    <3>2. CASE conn[c].pc = "left"
      BY <2>5, <2>s, <3>1, <3>2 DEF EndOfStream
    <3>3. CASE conn[c].pc # "left"
      <4> DEFINE s == Removed(st, c)
      <4>1. /\ s \in StateType /\ s.startupCleanup = st.startupCleanup /\ s.phase = st.phase
            /\ s.held \subseteq st.held /\ s.handover = st.handover /\ s.pending = st.pending
        BY <2>t, RemovedType, RemovedFacts
      <4>2. /\ st' = Decided(s, "handover", clock) /\ PersistOrLog(st')
            /\ intent' = (IF Decides(s) THEN "handover" ELSE intent)
            /\ turn' = (turn # Decides(s)) /\ "handover" \in Intents
        BY <2>5, <3>3 DEF EndOfStream, Intents
      <4> HIDE DEF s
      <4> QED BY <3>1, <4>1, <4>2, DepartureIsKept
    <3> QED BY <3>2, <3>3
  <2>6. ASSUME NEW c \in Conn, NoticeSeen(c) \/ CloserSeen(c)
        PROVE  Kept
    <3>1. /\ up /\ up' /\ boot' = boot /\ clock' = clock /\ UNCHANGED <<intent, turn>>
          /\ st' = Seen(st, conn[c].told) /\ (disk' = disk \/ PersistOrLog(st'))
      BY <2>6 DEF NoticeSeen, CloserSeen
    <3>2. /\ st'.phase = st.phase /\ st'.held = st.held /\ st'.handover = st.handover
          /\ st'.pending = st.pending /\ st'.startupCleanup = st.startupCleanup
      BY <2>t, <3>1 DEF Seen, StateType
    <3> QED BY <3>1, <3>2, SilentWrite
  <2>7. CASE Tick
    BY <2>7, TickIsKept
  <2>8. CASE FinishesShutdown \/ FinishesCleanup
    BY <2>8, EndIsKept
  <2>9. CASE CommitUpdate \/ Damage
    BY <2>9, <2>t DEF CommitUpdate, Damage
  <2>10. CASE UpdateExit \/ Exit \/ Backstop \/ Crash
    BY <2>10, <2>s DEF UpdateExit, Exit, Backstop, Crash, ProcessGone
  <2>11. CASE Reboot
    BY <2>11, RebootIsKept DEF Reboot
  <2>12. CASE Advance
    <3>1. clock < MaxClock /\ clock' = clock + 1 /\ UNCHANGED <<disk, boot, intent, turn>>
      BY <2>12 DEF Advance
    <3>2. cust' = cust /\ due' = due
      BY <3>1, SameSays
    <3>3. Promise!Advance
      BY <3>1, <3>2 DEF Promise!Advance, cust, due
    <3> QED BY <3>3 DEF Kept, Promise!Next
  <2>13. CASE UNCHANGED vars
    BY <2>13, <2>s DEF vars
  <2> QED BY <2>1, <2>2, <2>3, <2>4, <2>5, <2>6, <2>7, <2>8, <2>9, <2>10, <2>11, <2>12,
             <2>13 DEF Next
<1>3. TypeOK /\ LeaseInv /\ RecordInv /\ KeepInv /\ PendingInv /\ CustodyInv => RefInv
  BY DEF RefInv
<1> QED BY <1>1, <1>2, <1>3, TypeCorrect, LeaseSafe, RecordInvariant, KeepInvariant,
           PendingInvariant, CustodyInvariant, PTL DEF Spec, PromiseKept, Promise!Spec
=============================================================================
