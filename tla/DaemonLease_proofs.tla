------------------------- MODULE DaemonLease_proofs -------------------------
(* Theorems about DaemonLease, for every set of connections, windows and   *)
(* rows and every bound: the lease's invariant LeaseInv, and, resting on   *)
(* it, what held.json says while no write has failed.                      *)
EXTENDS DaemonLease, TLAPS

(***************************************************************************)
(* Types.                                                                  *)
(***************************************************************************)

\* The clock arithmetic stays in the clock's range.
LEMMA HandoverUntilType ==
    ASSUME NEW now \in Nat
    PROVE  HandoverUntil(now) \in Nat
BY BoundsAssumption DEF HandoverUntil, Min2

\* A count never passes the counter's width.
LEMMA CountedType ==
    ASSUME NEW s \in StateType, NEW n \in Nat
    PROVE  Counted(s, n) \in 0..MaxCount
BY BoundsAssumption DEF Counted, Min2, StateType

\* What a write leaves is a record or no file.
LEMMA WrittenType ==
    ASSUME NEW s \in StateType
    PROVE  Written(Record(s)) \in DiskType
<1>1. Record(s) \in HeldRecord
  BY BoundsAssumption DEF Record, HeldRecord, StateType, Or, Deadline, Phases
<1> QED BY <1>1 DEF Written, DiskType

\* Every write, failed or not, leaves a record or no file.
LEMMA PersistType ==
    ASSUME NEW s \in StateType, disk \in DiskType, faults \in Nat, PersistOrLog(s)
    PROVE  disk' \in DiskType /\ faults' \in Nat
BY WrittenType DEF PersistOrLog, PersistOk, PersistFails

\* The pure decisions map states to states.
LEMMA ClosedType ==
    ASSUME NEW s \in StateType
    PROVE  Closed(s) \in StateType
BY DEF Closed, StateType, Phases, Deadline

\* A departure's decision (decide) yields a state.
LEMMA DecidedType ==
    ASSUME NEW s \in StateType, NEW i \in Intents, NEW now \in Nat
    PROVE  Decided(s, i, now) \in StateType
<1>1. CASE ~Decides(s)
  BY <1>1 DEF Decided
<1>2. CASE Decides(s) /\ i = "close"
  BY <1>2, ClosedType DEF Decided, StateType
<1>3. CASE Decides(s) /\ i = "keep"
  BY <1>3 DEF Decided, StateType, Deadline
<1>4. CASE Decides(s) /\ i = "handover"
  BY <1>4, HandoverUntilType DEF Decided, StateType, Deadline
<1> QED BY <1>1, <1>2, <1>3, <1>4 DEF Intents

\* Removing a lease by its generation (depart) yields a state.
LEMMA RemovedType ==
    ASSUME NEW s \in StateType, NEW c
    PROVE  Removed(s, c) \in StateType
BY DEF Removed, StateType

\* A tick of the 1 s ticker yields a state.
LEMMA TickedType ==
    ASSUME NEW s \in StateType, NEW now \in Nat
    PROVE  Ticked(s, now) \in StateType
<1>1. [s EXCEPT !.pending = None] \in StateType
  BY DEF StateType, Deadline
<1> QED BY <1>1, ClosedType DEF Ticked

\* A grant yields a state.
LEMMA GrantedType ==
    ASSUME NEW s \in StateType, NEW c \in Conn, NEW w \in Window
    PROVE  Granted(s, c, w) \in StateType
<1>1. s.held \cup {<<c, w>>} \in SUBSET (Conn \X Window)
  BY DEF StateType
<1> QED BY <1>1 DEF Granted, StateType, Deadline

\* An ack of a count (notice_seen) yields a state.
LEMMA SeenType ==
    ASSUME NEW s \in StateType, NEW n
    PROVE  Seen(s, n) \in StateType
BY BoundsAssumption DEF Seen, StateType

\* The final count of a shutdown yields a state.
LEMMA FinishedType ==
    ASSUME NEW s \in StateType, NEW n \in Nat, NEW ids \in SUBSET RowId
    PROVE  FinishedWith(s, n, ids) \in StateType
BY CountedType DEF FinishedWith, StateType, Phases

\* A start (Leases::new) yields a state.
LEMMA NewStateType ==
    ASSUME NEW own \in Deadline, NEW n \in 0..MaxCount,
           NEW ids \in SUBSET RowId, NEW b \in BOOLEAN
    PROVE  NewState(own, n, ids, b) \in StateType
BY DEF NewState, StateType, Deadline, Phases

\* A start's deadline is a deadline, and Pending always has one.
LEMMA PlanType ==
    ASSUME NEW d \in DiskType, NEW own \in Deadline, NEW now \in Nat
    PROVE  /\ StartupPlan(d, own, now).until \in Deadline
           /\ StartupPlan(d, own, now).plan \in {"resume", "cleanup", "pending"}
BY HandoverUntilType DEF StartupPlan, DiskType, HeldRecord, Deadline

\* The end of the process leaves every variable it resets well typed.
LEMMA ProcessGoneType ==
    ASSUME TypeOK, ProcessGone
    PROVE  /\ up' \in BOOLEAN /\ st' \in StateType /\ disk' \in DiskType
           /\ conn' \in [Conn -> ConnType]
           /\ report' \in 0..MaxCount \cup {None} /\ answered' \in BOOLEAN
           /\ intent' = intent /\ turn' = turn /\ unseen' = unseen
<1>1. NoState \in StateType
  <2>1. None \in Deadline /\ 0 \in 0..MaxCount /\ {} \in SUBSET RowId /\ FALSE \in BOOLEAN
    BY BoundsAssumption DEF Deadline
  <2> QED BY <2>1, NewStateType DEF NoState
<1>2. Idle \in ConnType
  BY BoundsAssumption DEF Idle, ConnType
<1> QED BY <1>1, <1>2 DEF ProcessGone, TypeOK

(***************************************************************************)
(* Type correctness.                                                       *)
(***************************************************************************)

\* Every reachable state of the lease, its record and its connections is
\* well typed: no count passes its width, no deadline is malformed.
THEOREM TypeCorrect == Spec => []TypeOK
<1>1. Init => TypeOK
  <2> SUFFICES ASSUME Init PROVE TypeOK
    OBVIOUS
  <2>1. None \in Deadline /\ 0 \in 0..MaxCount /\ {} \in SUBSET RowId /\ FALSE \in BOOLEAN
    BY BoundsAssumption DEF Deadline
  <2>2. NoState \in StateType
    BY <2>1, NewStateType DEF NoState
  <2>3. Idle \in ConnType
    BY BoundsAssumption DEF Idle, ConnType
  <2>4. conn \in [Conn -> ConnType]
    BY <2>3 DEF Init
  <2>5. disk \in DiskType /\ st \in StateType
    BY <2>2 DEF Init, DiskType
  <2>6. clock \in 0..MaxClock /\ report \in 0..MaxCount \cup {None}
    BY BoundsAssumption DEF Init
  <2>7. boot \in Nat \ {0} /\ starts \in Nat /\ faults \in Nat /\ updates \in Nat
    BY DEF Init
  <2>8. /\ up \in BOOLEAN /\ answered \in BOOLEAN /\ turn \in BOOLEAN /\ unseen \in BOOLEAN
        /\ intent = "ended"
    BY Zenon DEF Init
  <2> QED BY <2>4, <2>5, <2>6, <2>7, <2>8 DEF TypeOK
<1>2. TypeOK /\ [Next]_vars => TypeOK'
  <2> SUFFICES ASSUME TypeOK, [Next]_vars PROVE TypeOK'
    OBVIOUS
  <2> USE BoundsAssumption
  <2>0. st \in StateType /\ clock \in Nat /\ disk \in DiskType /\ faults \in Nat
    BY DEF TypeOK
  <2>1. CASE StartKnown \/ StartUnknown
    <3>1. PICK own \in Deadline, kept \in SUBSET RowId : Start(own, kept)
      BY <2>1 DEF StartKnown, StartUnknown, TypeOK, Deadline
    <3> DEFINE plan == StartupPlan(disk, own, clock)
               s == NewState(own, DiskCount(disk), kept, plan.plan = "cleanup")
    <3>2. DiskCount(disk) \in 0..MaxCount
      BY <2>0 DEF DiskCount, DiskType, HeldRecord
    <3>3. s \in StateType
      BY <3>2, NewStateType
    <3>4. plan.until \in Deadline /\ plan.plan \in {"resume", "cleanup", "pending"}
      BY <2>0, PlanType
    <3>5. [s EXCEPT !.pending = plan.until] \in StateType
      BY <3>3, <3>4 DEF StateType
    <3> HIDE DEF plan, s
    <3>6. /\ starts' = starts + 1 /\ up' = TRUE
          /\ UNCHANGED <<clock, boot, conn, report, answered, updates, turn, unseen>>
      BY <3>1 DEF Start
    <3>7. CASE plan.plan = "pending"
      <4>1. /\ st' = [s EXCEPT !.pending = plan.until] /\ PersistOrLog(st')
            /\ intent' \in {"lost", intent}
        BY <3>1, <3>7 DEF Start, plan, s
      <4> QED BY <4>1, <3>5, <3>6, <2>0, PersistType DEF TypeOK
    <3>8. CASE plan.plan = "cleanup"
      <4>1. st' = s /\ intent' = "ended" /\ UNCHANGED <<disk, faults>>
        BY <3>1, <3>8 DEF Start, plan, s
      <4> QED BY <4>1, <3>3, <3>6 DEF TypeOK
    <3>9. CASE plan.plan = "resume"
      <4>1. st' = s /\ UNCHANGED <<disk, faults, intent>>
        BY <3>1, <3>9 DEF Start, plan, s
      <4> QED BY <4>1, <3>3, <3>6 DEF TypeOK
    <3> QED BY <3>4, <3>7, <3>8, <3>9
  <2>2. ASSUME NEW c \in Conn, NEW w \in Window, Grant(c, w)
        PROVE  TypeOK'
    <3>1. Granted(st, c, w) \in StateType
      BY <2>0, GrantedType
    <3>2. disk' \in DiskType /\ faults' \in Nat
      BY <2>0, <2>2, <3>1, PersistType DEF Grant, PersistOrLog
    <3> QED BY <2>2, <3>1, <3>2 DEF Grant, TypeOK, ConnType
  <2>3. ASSUME NEW c \in Conn, GrantReply(c)
        PROVE  TypeOK'
    BY <2>3 DEF GrantReply, TypeOK, ConnType, StateType
  <2>4. ASSUME NEW c \in Conn, NEW i \in Intents, Leaving(c, i)
        PROVE  TypeOK'
    <3> DEFINE s == IF conn[c].pc = "held" THEN Removed(st, c) ELSE st
    <3>1. s \in StateType
      BY <2>0, RemovedType
    <3> HIDE DEF s
    <3>2. st' = Decided(s, i, clock) /\ PersistOrLog(st')
      BY <2>4 DEF Leaving, s
    <3>3. st' \in StateType
      BY <2>0, <3>1, <3>2, DecidedType
    <3>4. disk' \in DiskType /\ faults' \in Nat
      BY <2>0, <3>2, <3>3, PersistType
    <3> QED BY <2>4, <3>3, <3>4 DEF Leaving, TypeOK, ConnType
  <2>5. ASSUME NEW c \in Conn, EndOfStream(c)
        PROVE  TypeOK'
    <3>1. Idle \in ConnType
      BY DEF Idle, ConnType
    <3>2. CASE conn[c].pc = "left"
      BY <2>5, <3>1, <3>2 DEF EndOfStream, TypeOK
    <3>3. CASE conn[c].pc # "left"
      <4>1. st' = Decided(Removed(st, c), "handover", clock) /\ PersistOrLog(st')
        BY <2>5, <3>3 DEF EndOfStream
      <4>2. st' \in StateType
        BY <2>0, <4>1, RemovedType, DecidedType DEF Intents
      <4>3. disk' \in DiskType /\ faults' \in Nat
        BY <2>0, <4>1, <4>2, PersistType
      <4>4. conn' \in [Conn -> ConnType]
        BY <2>5, <3>1 DEF EndOfStream, TypeOK
      <4>5. intent' \in {"handover", intent} /\ turn' \in BOOLEAN
        BY <2>5, <3>3 DEF EndOfStream, TypeOK
      <4> QED BY <2>5, <4>2, <4>3, <4>4, <4>5 DEF EndOfStream, TypeOK, Intents
    <3> QED BY <3>2, <3>3
  <2>6. ASSUME NEW c \in Conn, NoticeSeen(c) \/ CloserSeen(c)
        PROVE  TypeOK'
    <3>1. st' \in StateType
      BY <2>0, <2>6, SeenType DEF NoticeSeen, CloserSeen
    <3>2. disk' \in DiskType /\ faults' \in Nat
      BY <2>0, <2>6, <3>1, PersistType DEF NoticeSeen, CloserSeen
    <3>3. conn' \in [Conn -> ConnType] /\ answered' \in BOOLEAN
      <4>1. Idle \in ConnType /\ [conn[c] EXCEPT !.told = 0] \in ConnType
        BY DEF Idle, ConnType, TypeOK
      <4> QED BY <2>6, <4>1 DEF NoticeSeen, CloserSeen, TypeOK
    <3> QED BY <2>6, <3>1, <3>2, <3>3 DEF NoticeSeen, CloserSeen, TypeOK
  <2>7. CASE Tick
    <3>1. st' \in StateType
      BY <2>0, <2>7, TickedType DEF Tick
    <3>2. disk' \in DiskType /\ faults' \in Nat
      BY <2>0, <2>7, <3>1, PersistType DEF Tick
    <3> QED BY <2>7, <3>1, <3>2 DEF Tick, TypeOK
  <2>8. CASE CommitUpdate
    BY <2>8 DEF CommitUpdate, TypeOK, StateType, Phases
  <2>9. CASE UpdateExit \/ Exit \/ Backstop \/ Crash \/ Reboot
    <3>1. ProcessGone /\ boot' \in Nat \ {0} /\ UNCHANGED <<clock, starts, faults, updates>>
      BY <2>9 DEF UpdateExit, Exit, Backstop, Crash, Reboot, TypeOK
    <3> QED BY <3>1, ProcessGoneType DEF TypeOK
  <2>10. CASE FinishesShutdown
    <3>1. PICK n \in 0..MaxNotEnded, ids \in SUBSET RowId : FinishShutdown(n, ids)
      BY <2>10 DEF FinishesShutdown
    <3>2. st' \in StateType
      BY <2>0, <3>1, FinishedType DEF FinishShutdown
    <3>3. disk' \in DiskType /\ faults' \in Nat
      BY <2>0, <3>1, <3>2, PersistType DEF FinishShutdown
    <3>4. report' \in 0..MaxCount
      BY <3>1, <3>2 DEF FinishShutdown, StateType
    <3> QED BY <3>1, <3>2, <3>3, <3>4 DEF FinishShutdown, TypeOK
  <2>11. ASSUME NEW c \in Conn, AnswerClose(c)
         PROVE  TypeOK'
    <3>1. report \in 0..MaxCount /\ Idle \in ConnType
      BY <2>11 DEF AnswerClose, TypeOK, Idle, ConnType
    <3>2. [pc |-> "told", told |-> report] \in ConnType
      BY <3>1 DEF ConnType
    <3>3. conn' \in [Conn -> ConnType]
      BY <2>11, <3>1, <3>2 DEF AnswerClose, TypeOK
    <3>4. answered' \in BOOLEAN /\ unseen' \in BOOLEAN
      BY <2>11 DEF AnswerClose, TypeOK
    <3> QED BY <2>11, <3>3, <3>4 DEF AnswerClose, TypeOK
  <2>12. ASSUME NEW c \in Conn, CloserSilent(c)
         PROVE  TypeOK'
    BY <2>12 DEF CloserSilent, TypeOK, ConnType, Idle
  <2>13. CASE FinishesCleanup
    <3>1. PICK n \in 0..MaxNotEnded, ids \in SUBSET RowId : FinishCleanup(n, ids)
      BY <2>13 DEF FinishesCleanup
    <3>2. st' \in StateType
      <4>1. Counted(st, n) \in 0..MaxCount /\ st.forget \cup ids \in SUBSET RowId
        BY <2>0, CountedType DEF StateType
      <4> QED BY <2>0, <3>1, <4>1 DEF FinishCleanup, StateType
    <3>3. disk' \in DiskType /\ faults' \in Nat
      BY <2>0, <3>1, <3>2, PersistType DEF FinishCleanup
    <3> QED BY <3>1, <3>2, <3>3 DEF FinishCleanup, TypeOK
  <2>14. CASE Damage
    BY <2>14 DEF Damage, TypeOK, DiskType
  <2>15. CASE Advance
    BY <2>15 DEF Advance, TypeOK
  <2>16. CASE UNCHANGED vars
    BY <2>16 DEF vars, TypeOK
  <2> QED BY <2>1, <2>2, <2>3, <2>4, <2>5, <2>6, <2>7, <2>8, <2>9, <2>10, <2>11,
             <2>12, <2>13, <2>14, <2>15, <2>16 DEF Next
<1> QED BY <1>1, <1>2, PTL DEF Spec

(***************************************************************************)
(* The safety of the lease.                                                *)
(***************************************************************************)

\* A record that names a holder is never an open-ended resume.
LEMMA HeldRecordNeverResumes ==
    ASSUME NEW s \in StateType, s.held # {}, NEW b, NEW now
    PROVE  Plan(Written(Record(s)), b, now) # "resume"
<1>1. Record(s).holders # {}
  BY DEF Record
<1>2. Record(s) \in HeldRecord
  BY BoundsAssumption DEF Record, HeldRecord, StateType, Or, Deadline, Phases
<1>3. Written(Record(s)) = Record(s)
  BY <1>1 DEF Written, IsEmpty
<1> HIDE DEF Record
<1> QED BY <1>1, <1>2, <1>3, RecordAssumption DEF Plan, StartupPlan

\* A record of a close is always a Cleanup.
LEMMA ClosingRecordCleansUp ==
    ASSUME NEW s \in StateType, s.phase = "closing", NEW b, NEW now
    PROVE  Plan(Written(Record(s)), b, now) = "cleanup"
<1>1. Record(s).closing
  BY DEF Record
<1>2. Record(s) \in HeldRecord
  BY BoundsAssumption DEF Record, HeldRecord, StateType, Or, Deadline, Phases
<1>3. Written(Record(s)) = Record(s)
  BY <1>1 DEF Written, IsEmpty
<1> HIDE DEF Record
<1> QED BY <1>1, <1>2, <1>3, RecordAssumption DEF Plan, StartupPlan

\* Time never turns a Cleanup or a bounded wait into an open-ended resume.
LEMMA PlanLater ==
    ASSUME NEW d \in DiskType, NEW b, NEW now \in Nat
    PROVE  /\ Plan(d, b, now) = "cleanup" => Plan(d, b, now + 1) = "cleanup"
           /\ Plan(d, b, now) # "resume" => Plan(d, b, now + 1) # "resume"
<1>1. CASE d \in {NoRecord, Unreadable}
  BY <1>1 DEF Plan, StartupPlan
<1>2. CASE d \in HeldRecord
  <2>1. Passed(d.until, now) => Passed(d.until, now + 1)
    BY <1>2 DEF Passed, HeldRecord, Deadline
  <2> QED BY <1>2, <2>1, RecordAssumption DEF Plan, StartupPlan
<1> QED BY <1>1, <1>2 DEF DiskType

\* What a next start would plan, for a daemon in state s over a record d.
PlanOk(s, d) ==
    /\ s.held # {} => Plan(d, boot, clock) # "resume"
    /\ (s.startupCleanup /\ s.ownBoot # None /\ s.phase \in {"open", "closing"})
          => Plan(d, boot, clock) = "cleanup"

\* A write, failed or not, of a state that holds no new lease and no new
\* Cleanup keeps the plan: the old record's or the new one's.
LEMMA PersistKeepsPlan ==
    ASSUME TypeOK, PlanOk(st, disk), NEW s \in StateType,
           PersistOrLog(s),
           s.held \subseteq st.held, s.ownBoot = st.ownBoot,
           st.held # {} => st.ownBoot # None,
           s.startupCleanup => st.startupCleanup,
           s.phase \in {"open", "closing"} => st.phase \in {"open", "closing"}
    PROVE  PlanOk(s, disk')
<1>1. disk' \in {disk, Written(Record(s))}
  BY DEF PersistOrLog, PersistOk, PersistFails
<1>2. PlanOk(s, disk)
  BY DEF PlanOk
<1>3. CASE disk' = disk
  BY <1>2, <1>3
<1>4. CASE disk' # disk
  <2>1. disk' = Written(Record(s)) /\ ~PersistSkipped(s)
    BY <1>1, <1>4 DEF PersistOrLog, PersistOk, PersistFails
  <2>2. s.held # {} => Plan(disk', boot, clock) # "resume"
    BY <2>1, HeldRecordNeverResumes
  <2>3. s.startupCleanup /\ s.phase \in {"open", "closing"} => s.phase = "closing"
    BY <2>1 DEF PersistSkipped
  <2>4. s.phase = "closing" => Plan(disk', boot, clock) = "cleanup"
    BY <2>1, ClosingRecordCleansUp
  <2> QED BY <2>2, <2>3, <2>4 DEF PlanOk
<1> QED BY <1>3, <1>4

\* What each pure decision leaves alone, and when it closes.
KeepsLeases(s, t) ==
    /\ t.held = s.held /\ t.ownBoot = s.ownBoot /\ t.startupCleanup = s.startupCleanup
    /\ t.phase = s.phase \/ (t.phase = "closing" /\ s.phase = "open" /\ s.held = {})
    /\ s.held # {} /\ s.pending = None => t = s

\* A decision keeps every lease, and closes only with none held.
LEMMA DecidedFacts ==
    ASSUME NEW s \in StateType, NEW i \in Intents, NEW now \in Nat
    PROVE  KeepsLeases(s, Decided(s, i, now))
<1>1. CASE ~Decides(s)
  BY <1>1 DEF Decided, KeepsLeases
<1>2. CASE Decides(s) /\ i = "close"
  BY <1>2 DEF Decided, Decides, Closed, KeepsLeases, StateType
<1>3. CASE Decides(s) /\ i = "keep"
  BY <1>3 DEF Decided, Decides, KeepsLeases, StateType
<1>4. CASE Decides(s) /\ i = "handover"
  BY <1>4 DEF Decided, Decides, KeepsLeases, StateType
<1> QED BY <1>1, <1>2, <1>3, <1>4 DEF Intents

\* A tick keeps every lease, and closes only with none held.
LEMMA TickedFacts ==
    ASSUME NEW s \in StateType, NEW now \in Nat
    PROVE  KeepsLeases(s, Ticked(s, now))
<1> DEFINE s1 == IF Passed(s.pending, now) /\ s.held # {}
                 THEN [s EXCEPT !.pending = None] ELSE s
<1>1. /\ s1.held = s.held /\ s1.ownBoot = s.ownBoot /\ s1.phase = s.phase
      /\ s1.startupCleanup = s.startupCleanup /\ s1 \in StateType
      /\ s.pending = None => s1 = s
  BY DEF StateType, Deadline, Passed
<1>2. Ticked(s, now) \in {s1, Closed(s1)} /\ (Ticked(s, now) # s1 => s1.held = {})
  BY DEF Ticked
<1> HIDE DEF s1
<1>3. /\ Closed(s1).held = s1.held /\ Closed(s1).ownBoot = s1.ownBoot
      /\ Closed(s1).startupCleanup = s1.startupCleanup
      /\ Closed(s1).phase = s1.phase \/ (Closed(s1).phase = "closing" /\ s1.phase = "open")
  BY <1>1 DEF Closed, StateType
<1> QED BY <1>1, <1>2, <1>3 DEF KeepsLeases

\* A departure takes its own lease and touches nothing else of the state.
LEMMA RemovedFacts ==
    ASSUME NEW s \in StateType, NEW c
    PROVE  /\ Removed(s, c).held = {h \in s.held : h[1] # c}
           /\ Removed(s, c).held \subseteq s.held
           /\ Removed(s, c).ownBoot = s.ownBoot /\ Removed(s, c).phase = s.phase
           /\ Removed(s, c).startupCleanup = s.startupCleanup
           /\ Removed(s, c).handover = s.handover /\ Removed(s, c).pending = s.pending
BY DEF Removed, StateType

\* A state change that keeps the leases keeps what the invariant says of them.
StateOk(s) ==
    /\ s.held # {} => s.ownBoot # None /\ s.handover = None /\ s.pending = None
    /\ s.phase \in {"closing", "finished"} => s.held = {}

\* What keeps the leases keeps the deadlines and the phase consistent with them.
LEMMA StateOkKept ==
    ASSUME NEW s, NEW t, StateOk(s), KeepsLeases(s, t)
    PROVE  StateOk(t)
BY DEF StateOk, KeepsLeases

\* The leases and the connections, as HeldIsTheOpenConnections relates them.
Matches(held, cn) ==
    /\ \A c \in Conn : cn[c].pc \in {"granted", "held"} <=> \E w \in Window : <<c, w>> \in held
    /\ \A h, k \in held : h[1] = k[1] => h = k

\* A departure of c's lease leaves every other connection's lease in place.
LEMMA MatchesRemoved ==
    ASSUME NEW s \in StateType, NEW cn \in [Conn -> ConnType], Matches(s.held, cn),
           NEW c \in Conn, NEW cn2 \in [Conn -> ConnType],
           \A d \in Conn \ {c} : cn2[d].pc = cn[d].pc,
           cn2[c].pc \notin {"granted", "held"}
    PROVE  Matches(Removed(s, c).held, cn2)
<1>1. \A h \in s.held : h \in Conn \X Window
  BY DEF StateType
<1>2. \A d \in Conn, w \in Window : <<d, w>> \in Removed(s, c).held <=> (<<d, w>> \in s.held /\ d # c)
  BY RemovedFacts
<1>3. ASSUME NEW d \in Conn
      PROVE  cn2[d].pc \in {"granted", "held"} <=> \E w \in Window : <<d, w>> \in Removed(s, c).held
  BY <1>2 DEF Matches
<1>4. \A h, k \in Removed(s, c).held : h[1] = k[1] => h = k
  BY RemovedFacts DEF Matches
<1> QED BY <1>3, <1>4 DEF Matches

\* A connection that changes neither into nor out of a lease changes nothing.
LEMMA MatchesSame ==
    ASSUME NEW held, NEW cn \in [Conn -> ConnType], Matches(held, cn),
           NEW cn2 \in [Conn -> ConnType],
           \A d \in Conn : cn2[d].pc \in {"granted", "held"} <=> cn[d].pc \in {"granted", "held"}
    PROVE  Matches(held, cn2)
BY DEF Matches

\* A grant's lease is its connection's, and only its.
LEMMA MatchesGranted ==
    ASSUME NEW s \in StateType, NEW cn \in [Conn -> ConnType], Matches(s.held, cn),
           NEW c \in Conn, NEW w \in Window, cn[c].pc = "idle"
    PROVE  Matches(Granted(s, c, w).held, [cn EXCEPT ![c].pc = "granted"])
<1> DEFINE cn2 == [cn EXCEPT ![c].pc = "granted"]
           held2 == s.held \cup {<<c, w>>}
<1>1. Granted(s, c, w).held = held2
  BY DEF Granted, StateType
<1>2. cn2[c].pc = "granted" /\ \A d \in Conn \ {c} : cn2[d] = cn[d]
  BY DEF ConnType
<1>3. \A v \in Window : <<c, v>> \notin s.held
  BY DEF Matches
<1>4. \A h \in s.held : h \in Conn \X Window /\ h[1] # c
  <2> SUFFICES ASSUME NEW h \in s.held PROVE h \in Conn \X Window /\ h[1] # c
    OBVIOUS
  <2>1. h \in Conn \X Window
    BY DEF StateType
  <2>2. h = <<h[1], h[2]>> /\ h[2] \in Window
    BY <2>1
  <2> QED BY <1>3, <2>1, <2>2
<1> HIDE DEF cn2
<1>5. ASSUME NEW d \in Conn
      PROVE  cn2[d].pc \in {"granted", "held"} <=> \E v \in Window : <<d, v>> \in held2
  BY <1>2 DEF Matches
<1>6. \A h, k \in held2 : h[1] = k[1] => h = k
  BY <1>4 DEF Matches
<1> QED BY <1>1, <1>5, <1>6 DEF Matches, cn2

\* The invariant, by its parts.
LEMMA LeaseInvParts ==
    LeaseInv <=> /\ DownIsBlank /\ OwnBootIsCurrent /\ StateOk(st)
                 /\ Matches(st.held, conn) /\ PlanOk(st, disk)
BY DEF LeaseInv, NoDeadlineUnderALease, NoCloseUnderAWindow, StateOk, Matches, PlanOk,
       HeldIsTheOpenConnections, KillNeverKeeps, KillInCleanupCleansAgain

\* A step of a serving daemon, in which neither the clock nor the boot moves.
LEMMA ServingStep ==
    ASSUME OwnBootIsCurrent, up, up', boot' = boot, clock' = clock,
           st'.ownBoot = st.ownBoot,
           StateOk(st'), Matches(st'.held, conn'), PlanOk(st', disk')
    PROVE  LeaseInv'
<1>1. DownIsBlank' /\ OwnBootIsCurrent'
  BY DEF DownIsBlank, OwnBootIsCurrent
<1> QED BY <1>1 DEF LeaseInv, NoDeadlineUnderALease, NoCloseUnderAWindow, StateOk, Matches,
        PlanOk, HeldIsTheOpenConnections, KillNeverKeeps, KillInCleanupCleansAgain

\* A daemon that is gone holds nothing.
LEMMA BlankIsSafe ==
    ASSUME st = NoState, conn = [c \in Conn |-> Idle], ~up
    PROVE  LeaseInv
<1>1. /\ st.held = {} /\ st.phase = "open" /\ ~st.startupCleanup
      /\ \A c \in Conn : conn[c].pc = "idle"
  BY DEF NoState, NewState, Idle
<1>2. DownIsBlank /\ OwnBootIsCurrent
  BY DEF DownIsBlank, OwnBootIsCurrent
<1> QED BY <1>1, <1>2, LeaseInvParts DEF StateOk, Matches, PlanOk

\* The heart of the lease's safety, for every number of windows and
\* connections and whatever writes fail: no close under a window, leases
\* fenced by generation, no open-ended resume after a kill under a lease,
\* and a startup Cleanup that survives a kill.
THEOREM LeaseSafe == Spec => []LeaseInv
<1>1. Init => LeaseInv
  BY BlankIsSafe DEF Init
<1>2. TypeOK /\ TypeOK' /\ LeaseInv /\ [Next]_vars => LeaseInv'
  <2> SUFFICES ASSUME TypeOK, TypeOK', LeaseInv, [Next]_vars PROVE LeaseInv'
    OBVIOUS
  <2> USE BoundsAssumption
  <2>0. /\ DownIsBlank /\ OwnBootIsCurrent /\ StateOk(st)
        /\ Matches(st.held, conn) /\ PlanOk(st, disk)
    BY LeaseInvParts
  <2>t. /\ st \in StateType /\ st' \in StateType /\ clock \in Nat
        /\ disk \in DiskType /\ disk' \in DiskType
        /\ conn \in [Conn -> ConnType] /\ conn' \in [Conn -> ConnType]
    BY DEF TypeOK
  <2>h. st.held # {} => st.ownBoot # None
    BY <2>0 DEF StateOk
  <2>1. ASSUME NEW own \in {boot, None}, NEW kept \in SUBSET RowId, Start(own, kept)
        PROVE  LeaseInv'
    <3> DEFINE plan == StartupPlan(disk, own, clock)
               s == NewState(own, DiskCount(disk), kept, plan.plan = "cleanup")
    <3>1. /\ s.held = {} /\ s.phase = "open" /\ s.ownBoot = own
          /\ s.startupCleanup = (plan.plan = "cleanup")
          /\ [s EXCEPT !.pending = plan.until].held = {}
          /\ [s EXCEPT !.pending = plan.until].phase = "open"
          /\ [s EXCEPT !.pending = plan.until].ownBoot = own
          /\ [s EXCEPT !.pending = plan.until].startupCleanup = (plan.plan = "cleanup")
      BY DEF NewState
    <3> HIDE DEF s
    <3>2. ~up /\ up' /\ boot' = boot /\ clock' = clock /\ conn' = conn
      BY <2>1 DEF Start
    <3>3. /\ st'.held = {} /\ st'.phase = "open" /\ st'.ownBoot = own
          /\ st'.startupCleanup = (plan.plan = "cleanup")
          /\ plan.plan = "cleanup" => disk' = disk
      <4>1. plan.plan \in {"resume", "cleanup", "pending"}
        BY <2>t, PlanType DEF Deadline, TypeOK
      <4>2. CASE plan.plan = "pending"
        <5>1. st' = [s EXCEPT !.pending = plan.until]
          BY <2>1, <4>2 DEF Start, s
        <5> QED BY <3>1, <4>2, <5>1
      <4>3. CASE plan.plan = "cleanup"
        <5>1. st' = s /\ disk' = disk
          BY <2>1, <4>3 DEF Start, s
        <5> QED BY <3>1, <4>3, <5>1
      <4>4. CASE plan.plan = "resume"
        <5>1. st' = s
          BY <2>1, <4>4 DEF Start, s
        <5> QED BY <3>1, <4>4, <5>1
      <4> QED BY <4>1, <4>2, <4>3, <4>4
    <3>4. conn = [c \in Conn |-> Idle]
      BY <2>0, <3>2 DEF DownIsBlank
    <3>5. Matches(st'.held, conn')
      BY <3>2, <3>3, <3>4 DEF Matches, Idle
    <3>6. StateOk(st') /\ DownIsBlank' /\ OwnBootIsCurrent'
      BY <3>2, <3>3 DEF StateOk, DownIsBlank, OwnBootIsCurrent
    <3>7. PlanOk(st', disk')
      BY <3>2, <3>3 DEF PlanOk, Plan
    <3> QED BY <3>2, <3>5, <3>6, <3>7 DEF LeaseInv, NoDeadlineUnderALease,
            NoCloseUnderAWindow, StateOk, Matches, PlanOk,
            HeldIsTheOpenConnections, KillNeverKeeps, KillInCleanupCleansAgain
  <2>2. ASSUME NEW c \in Conn, NEW w \in Window, Grant(c, w)
        PROVE  LeaseInv'
    <3> DEFINE t == Granted(st, c, w)
    <3>1. /\ t \in StateType /\ t.held = st.held \cup {<<c, w>>}
          /\ t.handover = None /\ t.pending = None /\ t.ownBoot = st.ownBoot
          /\ t.phase = st.phase /\ t.startupCleanup = st.startupCleanup
      <4>1. t \in StateType
        BY <2>t, GrantedType
      <4> QED BY <2>t, <4>1 DEF Granted, StateType
    <3> HIDE DEF t
    <3>2. /\ up /\ up' /\ boot' = boot /\ clock' = clock /\ conn[c].pc = "idle"
          /\ st.phase = "open" /\ st.ownBoot # None
      BY <2>2 DEF Grant
    <3>3. CASE PersistOk(t) /\ st' = t /\ conn' = [conn EXCEPT ![c].pc = "granted"]
      <4>1. Matches(st'.held, conn')
        BY <2>0, <2>t, <3>2, <3>3, MatchesGranted DEF t
      <4>2. StateOk(st')
        BY <3>1, <3>2, <3>3 DEF StateOk
      <4>3. PlanOk(st', disk')
        <5>1. CASE PersistSkipped(t)
          <6>1. disk' = disk /\ st.startupCleanup
            BY <3>1, <3>3, <5>1 DEF PersistOk, PersistSkipped
          <6>2. Plan(disk, boot, clock) = "cleanup"
            BY <2>0, <3>2, <6>1 DEF PlanOk
          <6> QED BY <6>1, <6>2 DEF PlanOk
        <5>2. CASE ~PersistSkipped(t)
          <6>1. disk' = Written(Record(t)) /\ ~t.startupCleanup
            BY <3>1, <3>2, <3>3, <5>2 DEF PersistOk, PersistSkipped
          <6>2. Plan(disk', boot, clock) # "resume"
            BY <3>1, <6>1, HeldRecordNeverResumes
          <6> QED BY <3>3, <6>1, <6>2 DEF PlanOk
        <5> QED BY <5>1, <5>2
      <4> QED BY <2>0, <3>1, <3>2, <3>3, <4>1, <4>2, <4>3, ServingStep
    <3>4. CASE PersistFails(t) /\ UNCHANGED <<st, conn>>
      <4>1. disk' \in {disk, Written(Record(t))} /\ ~st.startupCleanup
        BY <3>1, <3>2, <3>4 DEF PersistFails, PersistSkipped
      <4>2. Plan(Written(Record(t)), boot, clock) # "resume"
        BY <3>1, HeldRecordNeverResumes
      <4>3. PlanOk(st', disk')
        BY <2>0, <3>4, <4>1, <4>2 DEF PlanOk
      <4> QED BY <2>0, <3>2, <3>4, <4>3, ServingStep
    <3> QED BY <2>2, <3>3, <3>4 DEF Grant, t
  <2>3. ASSUME NEW c \in Conn, GrantReply(c) \/ AnswerClose(c) \/ CloserSilent(c)
        PROVE  LeaseInv'
    <3>1. up /\ up' /\ UNCHANGED <<boot, clock, st, disk>>
      BY <2>3 DEF GrantReply, AnswerClose, CloserSilent
    <3>2. \A d \in Conn : conn'[d].pc \in {"granted", "held"} <=> conn[d].pc \in {"granted", "held"}
      BY <2>3, <2>t DEF GrantReply, AnswerClose, CloserSilent, Idle
    <3>3. Matches(st'.held, conn')
      BY <2>0, <2>t, <3>1, <3>2, MatchesSame
    <3> QED BY <2>0, <3>1, <3>3, ServingStep
  <2>4. ASSUME NEW c \in Conn, NEW i \in Intents,
               Leaving(c, i) \/ (EndOfStream(c) /\ i = "handover" /\ conn[c].pc # "left")
        PROVE  LeaseInv'
    <3> DEFINE s == IF conn[c].pc = "left" THEN st ELSE Removed(st, c)
    <3>1. /\ up /\ up' /\ boot' = boot /\ clock' = clock
          /\ conn[c].pc \in {"granted", "held", "left"}
          /\ st' = Decided(s, i, clock) /\ PersistOrLog(st')
          /\ \A d \in Conn \ {c} : conn'[d].pc = conn[d].pc
          /\ conn'[c].pc \notin {"granted", "held"}
      BY <2>4, <2>t DEF Leaving, EndOfStream, Idle, ConnType
    <3>2. /\ s \in StateType /\ s.held \subseteq st.held /\ s.ownBoot = st.ownBoot
          /\ s.startupCleanup = st.startupCleanup /\ s.phase = st.phase
          /\ s.handover = st.handover /\ s.pending = st.pending
      BY <2>t, RemovedType, RemovedFacts
    <3>3. Matches(s.held, conn')
      <4>1. CASE conn[c].pc = "left"
        <5>1. \A d \in Conn : conn'[d].pc \in {"granted", "held"} <=> conn[d].pc \in {"granted", "held"}
          BY <3>1, <4>1
        <5> QED BY <2>0, <2>t, <4>1, <5>1, MatchesSame
      <4>2. CASE conn[c].pc # "left"
        BY <2>0, <2>t, <3>1, <4>2, MatchesRemoved
      <4> QED BY <4>1, <4>2
    <3> HIDE DEF s
    <3>4. KeepsLeases(s, st')
      BY <2>t, <3>1, <3>2, DecidedFacts
    <3>5. StateOk(s)
      BY <2>0, <3>2 DEF StateOk
    <3>6. StateOk(st') /\ Matches(st'.held, conn')
      BY <3>3, <3>4, <3>5, StateOkKept DEF KeepsLeases
    <3>7. PlanOk(st', disk')
      BY <2>0, <2>t, <2>h, <3>1, <3>2, <3>4, PersistKeepsPlan DEF KeepsLeases
    <3> QED BY <2>0, <3>1, <3>2, <3>4, <3>6, <3>7, ServingStep DEF KeepsLeases
  <2>5. ASSUME NEW c \in Conn, EndOfStream(c), conn[c].pc = "left"
        PROVE  LeaseInv'
    <3>1. up /\ up' /\ UNCHANGED <<boot, clock, st, disk>>
      BY <2>5 DEF EndOfStream
    <3>2. \A d \in Conn : conn'[d].pc \in {"granted", "held"} <=> conn[d].pc \in {"granted", "held"}
      BY <2>5, <2>t DEF EndOfStream, Idle
    <3>3. Matches(st'.held, conn')
      BY <2>0, <2>t, <3>1, <3>2, MatchesSame
    <3> QED BY <2>0, <3>1, <3>3, ServingStep
  <2>6. ASSUME NEW c \in Conn, NoticeSeen(c) \/ CloserSeen(c)
        PROVE  LeaseInv'
    <3>1. /\ up /\ up' /\ boot' = boot /\ clock' = clock
          /\ st' = Seen(st, conn[c].told)
          /\ (st' = st /\ disk' = disk) \/ PersistOrLog(st')
      BY <2>6 DEF NoticeSeen, CloserSeen
    <3>2. /\ st'.held = st.held /\ st'.ownBoot = st.ownBoot /\ st'.phase = st.phase
          /\ st'.startupCleanup = st.startupCleanup
          /\ st'.handover = st.handover /\ st'.pending = st.pending
      BY <2>t, <3>1 DEF Seen, StateType
    <3>3. \A d \in Conn : conn'[d].pc \in {"granted", "held"} <=> conn[d].pc \in {"granted", "held"}
      BY <2>6, <2>t DEF NoticeSeen, CloserSeen, Idle, ConnType
    <3>4. Matches(st'.held, conn') /\ StateOk(st')
      BY <2>0, <2>t, <3>2, <3>3, MatchesSame DEF StateOk
    <3>5. PlanOk(st', disk')
      BY <2>0, <2>t, <2>h, <3>1, <3>2, PersistKeepsPlan
    <3> QED BY <2>0, <3>1, <3>2, <3>4, <3>5, ServingStep
  <2>7. CASE Tick
    <3>1. /\ up /\ up' /\ boot' = boot /\ clock' = clock /\ conn' = conn
          /\ st' = Ticked(st, clock) /\ PersistOrLog(st')
      BY <2>7 DEF Tick
    <3>2. KeepsLeases(st, st')
      BY <2>t, <3>1, TickedFacts
    <3>3. StateOk(st') /\ Matches(st'.held, conn')
      BY <2>0, <3>1, <3>2, StateOkKept DEF KeepsLeases
    <3>4. PlanOk(st', disk')
      BY <2>0, <2>t, <2>h, <3>1, <3>2, PersistKeepsPlan DEF KeepsLeases
    <3> QED BY <2>0, <3>1, <3>2, <3>3, <3>4, ServingStep DEF KeepsLeases
  <2>8. CASE CommitUpdate
    <3>1. /\ up /\ up' /\ UNCHANGED <<boot, clock, conn, disk>>
          /\ st'.held = st.held /\ st'.ownBoot = st.ownBoot /\ st'.phase = "updating"
          /\ st'.handover = st.handover /\ st'.pending = st.pending
      BY <2>8, <2>t DEF CommitUpdate, StateType
    <3> QED BY <2>0, <3>1, ServingStep DEF StateOk, PlanOk
  <2>9. CASE UpdateExit \/ Exit \/ Backstop \/ Crash \/ Reboot
    <3>1. ProcessGone
      BY <2>9 DEF UpdateExit, Exit, Backstop, Crash, Reboot
    <3>2. (st = NoState /\ conn = [c \in Conn |-> Idle] /\ ~up)'
      BY <3>1 DEF ProcessGone
    <3> QED BY <3>2, BlankIsSafe, PTL
  <2>10. CASE FinishesShutdown \/ FinishesCleanup
    <3>1. /\ up /\ up' /\ UNCHANGED <<boot, clock, conn>> /\ PersistOrLog(st')
          /\ st'.held = st.held /\ st'.ownBoot = st.ownBoot
          /\ st'.handover = st.handover /\ st'.pending = st.pending
          /\ st'.startupCleanup => st.startupCleanup
          /\ st'.phase = st.phase \/ (st.phase = "closing" /\ st'.phase = "finished")
      <4>1. CASE FinishesShutdown
        <5>1. PICK n \in 0..MaxNotEnded, ids \in SUBSET RowId : FinishShutdown(n, ids)
          BY <4>1 DEF FinishesShutdown
        <5>2. st' = FinishedWith(st, n, ids) /\ st.phase = "closing"
          BY <5>1 DEF FinishShutdown
        <5>3. /\ st'.held = st.held /\ st'.ownBoot = st.ownBoot /\ st'.phase = "finished"
              /\ st'.handover = st.handover /\ st'.pending = st.pending
              /\ st'.startupCleanup = st.startupCleanup
          BY <2>t, <5>2 DEF FinishedWith, StateType
        <5> QED BY <5>1, <5>2, <5>3 DEF FinishShutdown
      <4>2. CASE FinishesCleanup
        <5>1. PICK n \in 0..MaxNotEnded, ids \in SUBSET RowId : FinishCleanup(n, ids)
          BY <4>2 DEF FinishesCleanup
        <5>2. /\ st'.held = st.held /\ st'.ownBoot = st.ownBoot /\ st'.phase = st.phase
              /\ st'.handover = st.handover /\ st'.pending = st.pending
              /\ ~st'.startupCleanup
          BY <2>t, <5>1 DEF FinishCleanup, StateType
        <5> QED BY <5>1, <5>2 DEF FinishCleanup
      <4> QED BY <2>10, <4>1, <4>2
    <3>2. StateOk(st') /\ Matches(st'.held, conn')
      BY <2>0, <3>1 DEF StateOk
    <3>3. PlanOk(st', disk')
      BY <2>0, <2>t, <2>h, <3>1, PersistKeepsPlan
    <3> QED BY <2>0, <3>1, <3>2, <3>3, ServingStep
  <2>11. CASE Damage
    <3>1. ~up /\ ~up' /\ st' = st /\ conn' = conn
      BY <2>11 DEF Damage
    <3>2. (st = NoState /\ conn = [c \in Conn |-> Idle] /\ ~up)'
      BY <2>0, <3>1 DEF DownIsBlank
    <3> QED BY <3>2, BlankIsSafe, PTL
  <2>12. CASE Advance
    <3>1. clock' = clock + 1 /\ UNCHANGED <<boot, up, disk, st, conn>>
      BY <2>12 DEF Advance
    <3>2. /\ st.held # {} => Plan(disk, boot, clock') # "resume"
          /\ (st.startupCleanup /\ st.ownBoot # None /\ st.phase \in {"open", "closing"})
                => Plan(disk, boot, clock') = "cleanup"
      BY <2>0, <2>t, <3>1, PlanLater DEF PlanOk
    <3> QED BY <2>0, <3>1, <3>2 DEF LeaseInv, NoDeadlineUnderALease, NoCloseUnderAWindow,
            StateOk, Matches, DownIsBlank, OwnBootIsCurrent, Plan,
            HeldIsTheOpenConnections, KillNeverKeeps, KillInCleanupCleansAgain
  <2>13. CASE UNCHANGED vars
    BY <2>13 DEF vars, LeaseInv, NoDeadlineUnderALease, NoCloseUnderAWindow,
       DownIsBlank, OwnBootIsCurrent,
       HeldIsTheOpenConnections, KillNeverKeeps, KillInCleanupCleansAgain
  <2>14. StartKnown \/ StartUnknown => LeaseInv'
    BY <2>1 DEF StartKnown, StartUnknown
  <2>15. (\E c \in Conn : EndOfStream(c)) => LeaseInv'
    BY <2>4, <2>5 DEF Intents
  <2> QED BY <2>2, <2>3, <2>4, <2>6, <2>7, <2>8, <2>9, <2>10, <2>11,
             <2>12, <2>13, <2>14, <2>15 DEF Next
<1> QED BY <1>1, <1>2, TypeCorrect, PTL DEF Spec

\* No close begins under a window, whatever writes fail (decide, tick, grant).
THEOREM ClosesUnderNoWindow == Spec => []NoCloseUnderAWindow
<1>1. LeaseInv => NoCloseUnderAWindow
  BY DEF LeaseInv
<1> QED BY <1>1, LeaseSafe, PTL

\* A kill under a window never leads to an open-ended resume (the order of
\* grant's write and its answer, startup_plan).
THEOREM KillsNeverKeep == Spec => []KillNeverKeeps
<1>1. LeaseInv => KillNeverKeeps
  BY DEF LeaseInv
<1> QED BY <1>1, LeaseSafe, PTL

\* A kill during a startup Cleanup is followed by another (State::persist).
THEOREM KillsInCleanupCleanAgain == Spec => []KillInCleanupCleansAgain
<1>1. LeaseInv => KillInCleanupCleansAgain
  BY DEF LeaseInv
<1> QED BY <1>1, LeaseSafe, PTL

(***************************************************************************)
(* The record says what the daemon knows.                                  *)
(***************************************************************************)

\* Record d carries state s.
Carries(s, d) ==
    /\ d # Unreadable
    /\ Field(d, "holders", {}) = {h[2] : h \in s.held}
    /\ Field(d, "until", None) = Or(s.handover, s.pending)
    /\ Field(d, "closing", FALSE) = (s.phase = "closing")
    /\ DiskCount(d) = s.notEnded
    /\ s.forget \subseteq DiskForget(d)

\* The state's writes are not skipped for a startup Cleanup.
Settled(s) == s.startupCleanup => s.phase \in {"closing", "finished"}

RecordInv ==
    /\ faults = 0 => disk # Unreadable
    /\ faults = 0 /\ up /\ Settled(st) => Carries(st, disk)

\* The record of a state is a record.
LEMMA RecordType ==
    ASSUME NEW s \in StateType
    PROVE  Record(s) \in HeldRecord
BY BoundsAssumption DEF Record, HeldRecord, StateType, Or, Deadline, Phases

\* What a write leaves carries the state, its deletion included.
LEMMA WrittenCarries ==
    ASSUME NEW s \in StateType
    PROVE  Carries(s, Written(Record(s)))
<1>1. /\ Record(s).holders = {h[2] : h \in s.held}
      /\ Record(s).until = Or(s.handover, s.pending)
      /\ Record(s).closing = (s.phase = "closing")
      /\ Record(s).notEnded = s.notEnded /\ Record(s).forget = s.forget
  BY DEF Record
<1>2. Record(s) \notin {NoRecord, Unreadable} /\ NoRecord # Unreadable
  BY RecordType, RecordAssumption
<1> HIDE DEF Record
<1>3. CASE IsEmpty(Record(s))
  <2>1. Written(Record(s)) = NoRecord
    BY <1>3 DEF Written
  <2>2. /\ Record(s).holders = {} /\ Record(s).until = None /\ ~Record(s).closing
        /\ Record(s).notEnded = 0 /\ Record(s).forget = {}
    BY <1>3 DEF IsEmpty
  <2>3. (s.phase = "closing") = FALSE
    BY <1>1, <2>2
  <2> QED BY <1>1, <1>2, <2>1, <2>2, <2>3 DEF Carries, Field, DiskCount, DiskForget
<1>4. CASE ~IsEmpty(Record(s))
  <2>1. Written(Record(s)) = Record(s)
    BY <1>4 DEF Written
  <2> QED BY <1>1, <1>2, <2>1 DEF Carries, Field, DiskCount, DiskForget
<1> QED BY <1>3, <1>4

\* A write that is still without a failure carried the state, or was skipped.
LEMMA PersistCarries ==
    ASSUME faults \in Nat, faults' = 0, NEW s \in StateType, PersistOrLog(s)
    PROVE  /\ faults = 0
           /\ disk' = IF PersistSkipped(s) THEN disk ELSE Written(Record(s))
           /\ ~PersistSkipped(s) => Carries(s, disk')
           /\ Settled(s) => ~PersistSkipped(s)
<1>1. ~PersistFails(s)
  BY DEF PersistFails
<1>2. PersistOk(s)
  BY <1>1 DEF PersistOrLog
<1> QED BY <1>2, WrittenCarries DEF PersistOk, PersistSkipped, Settled

\* So it keeps the invariant, whatever state it is that is written.
LEMMA PersistKeepsRecord ==
    ASSUME TypeOK, RecordInv, st' \in StateType, PersistOrLog(st')
    PROVE  RecordInv'
<1>1. faults \in Nat
  BY DEF TypeOK
<1>2. ASSUME faults' = 0 PROVE disk' # Unreadable /\ (Settled(st') => Carries(st', disk'))
  BY <1>1, <1>2, PersistCarries DEF RecordInv, Carries
<1> QED BY <1>2 DEF RecordInv, Carries, Settled, Field, DiskCount, DiskForget

\* Every step keeps what the record carries.
LEMMA RecordInvariant == Spec => []RecordInv
<1>1. Init => RecordInv
  BY RecordAssumption DEF Init, RecordInv
<1>2. TypeOK /\ TypeOK' /\ RecordInv /\ [Next]_vars => RecordInv'
  <2> SUFFICES ASSUME TypeOK, TypeOK', RecordInv, [Next]_vars PROVE RecordInv'
    OBVIOUS
  <2>t. /\ st \in StateType /\ st' \in StateType /\ faults \in Nat /\ faults' \in Nat
        /\ disk \in DiskType
    BY DEF TypeOK
  <2>1. ASSUME NEW own, NEW kept, Start(own, kept)
        PROVE  RecordInv'
    <3> DEFINE plan == StartupPlan(disk, own, clock)
               s == NewState(own, DiskCount(disk), kept, plan.plan = "cleanup")
    <3>1. CASE plan.plan = "pending"
      BY <2>1, <2>t, <3>1, PersistKeepsRecord DEF Start
    <3>2. CASE plan.plan = "cleanup"
      <4>1. st' = s /\ UNCHANGED <<disk, faults>>
        BY <2>1, <3>2 DEF Start
      <4>2. ~Settled(st')
        BY <3>2, <4>1 DEF Settled, NewState
      <4> QED BY <4>1, <4>2 DEF RecordInv
    <3>3. CASE plan.plan = "resume"
      <4>1. st' = s /\ UNCHANGED <<disk, faults>> /\ kept \subseteq DiskForget(disk)
        BY <2>1, <3>3 DEF Start
      <4>2. /\ s.held = {} /\ s.handover = None /\ s.pending = None /\ s.phase = "open"
            /\ s.notEnded = DiskCount(disk) /\ s.forget = kept
        BY DEF NewState
      <4>3. \/ disk = NoRecord
            \/ disk \in HeldRecord /\ disk.holders = {} /\ disk.until = None /\ ~disk.closing
        BY <2>t, <3>3 DEF StartupPlan, DiskType
      <4>4. disk # Unreadable => Carries(s, disk)
        <5>1. /\ Field(disk, "holders", {}) = {} /\ Field(disk, "until", None) = None
              /\ disk # Unreadable => Field(disk, "closing", FALSE) = FALSE
          BY <4>3, RecordAssumption DEF Field, HeldRecord
        <5>2. {h[2] : h \in s.held} = {} /\ Or(s.handover, s.pending) = None
              /\ (s.phase = "closing") = FALSE
          BY <4>2 DEF Or
        <5> HIDE DEF s
        <5> QED BY <4>1, <4>2, <5>1, <5>2 DEF Carries
      <4> HIDE DEF s
      <4> QED BY <4>1, <4>4 DEF RecordInv
    <3>4. plan.plan \in {"pending", "cleanup", "resume"}
      BY DEF StartupPlan
    <3> QED BY <3>1, <3>2, <3>3, <3>4
  <2>2. ASSUME NEW c \in Conn, NEW w \in Window, Grant(c, w)
        PROVE  RecordInv'
    <3>1. CASE PersistOk(Granted(st, c, w)) /\ st' = Granted(st, c, w)
      BY <2>t, <3>1, PersistKeepsRecord DEF PersistOrLog
    <3>2. CASE PersistFails(Granted(st, c, w))
      <4>1. faults' # 0
        BY <2>t, <3>2 DEF PersistFails
      <4> QED BY <4>1 DEF RecordInv
    <3> QED BY <2>2, <3>1, <3>2 DEF Grant
  <2>3. ASSUME PersistOrLog(st') PROVE RecordInv'
    BY <2>t, <2>3, PersistKeepsRecord
  <2>4. ASSUME UNCHANGED <<disk, st, faults, up>> PROVE RecordInv'
    BY <2>4 DEF RecordInv, Carries, Settled, Field, DiskCount, DiskForget
  <2>5. ASSUME NEW c \in Conn, NoticeSeen(c) \/ CloserSeen(c) PROVE RecordInv'
    BY <2>3, <2>4, <2>5 DEF NoticeSeen, CloserSeen
  <2>6. ASSUME NEW c \in Conn, EndOfStream(c) PROVE RecordInv'
    BY <2>3, <2>4, <2>6 DEF EndOfStream
  <2>7. CASE CommitUpdate
    <3>1. /\ st.phase = "open" /\ st'.phase = "updating" /\ st'.held = st.held
          /\ st'.handover = st.handover /\ st'.pending = st.pending
          /\ st'.notEnded = st.notEnded /\ st'.forget = st.forget
          /\ st'.startupCleanup = st.startupCleanup /\ UNCHANGED <<disk, faults, up>>
      BY <2>7, <2>t DEF CommitUpdate, StateType
    <3>2. Settled(st') => Settled(st)
      BY <3>1 DEF Settled
    <3>3. Carries(st, disk) => Carries(st', disk')
      BY <3>1 DEF Carries, Field, DiskCount, DiskForget
    <3> QED BY <3>1, <3>2, <3>3 DEF RecordInv
  <2>8. CASE UpdateExit \/ Exit \/ Backstop \/ Crash \/ Reboot
    BY <2>8 DEF UpdateExit, Exit, Backstop, Crash, Reboot, ProcessGone, RecordInv
  <2>9. CASE Damage
    BY <2>9, <2>t DEF Damage, RecordInv
  <2>10. CASE \E c \in Conn : GrantReply(c) \/ AnswerClose(c) \/ CloserSilent(c)
    BY <2>4, <2>10 DEF GrantReply, AnswerClose, CloserSilent
  <2>11. CASE Advance \/ UNCHANGED vars
    BY <2>4, <2>11 DEF Advance, vars
  <2>12. CASE Tick \/ FinishesShutdown \/ FinishesCleanup
    BY <2>3, <2>12 DEF Tick, FinishesShutdown, FinishShutdown, FinishesCleanup, FinishCleanup
  <2>13. ASSUME NEW c \in Conn, NEW i \in Intents, Leaving(c, i) PROVE RecordInv'
    BY <2>3, <2>13 DEF Leaving
  <2> QED BY <2>1, <2>2, <2>5, <2>6, <2>7, <2>8, <2>9, <2>10, <2>11, <2>12, <2>13
          DEF Next, StartKnown, StartUnknown
<1> QED BY <1>1, <1>2, TypeCorrect, PTL DEF Spec

\* With no failed write and no damage, held.json says what the daemon knows - the
\* holders, the deadline, the close and the count a next start would load, and every id
\* still to forget - once no startup Cleanup withholds its writes (State::persist).
THEOREM TheRecordIsCurrent == Spec => []RecordIsCurrent
<1>1. RecordInv => RecordIsCurrent
  BY DEF RecordInv, RecordIsCurrent, Carries, Settled
<1> QED BY <1>1, RecordInvariant, PTL

(***************************************************************************)
(* Only a Keep leaves the sessions open-ended.                             *)
(***************************************************************************)
KeptOrEnded == intent \in {"keep", "ended"}

\* Nobody holds the sessions and no deadline runs.
Free(s) == s.held = {} /\ Or(s.handover, s.pending) = None

\* What the plan of the record, and what a serving daemon would write, rest on.
PlanIsMeant ==
    /\ Plan(disk, boot, clock) = "resume" => KeptOrEnded
    /\ st.phase # "updating"
    /\ up /\ st.phase = "open" /\ Free(st) => KeptOrEnded
    /\ st.phase = "finished" => intent = "ended"
    /\ st.phase = "closing" => Plan(disk, boot, clock) = "cleanup"

\* No record is of a boot to come, and no window is let in without one.
BootsArePast == disk \notin {NoRecord, Unreadable} => disk.boot <= boot
NoneWithoutBoot == up /\ st.ownBoot = None => \A c \in Conn : conn[c].pc = "idle"

KeepInv ==
    /\ faults = 0 /\ updates = 0 => PlanIsMeant
    /\ BootsArePast /\ NoneWithoutBoot

\* An open-ended resume is planned only from a state that is free and not closing.
LEMMA WrittenResumes ==
    ASSUME NEW s \in StateType, NEW b, NEW now, Plan(Written(Record(s)), b, now) = "resume"
    PROVE  Free(s) /\ s.phase # "closing"
<1>1. /\ Record(s).holders = {h[2] : h \in s.held}
      /\ Record(s).until = Or(s.handover, s.pending)
      /\ Record(s).closing = (s.phase = "closing")
  BY DEF Record
<1>2. Record(s) \notin {NoRecord, Unreadable}
  BY RecordType, RecordAssumption
<1> HIDE DEF Record
<1>3. Record(s).holders = {} /\ Record(s).until = None /\ ~Record(s).closing
  <2>1. CASE IsEmpty(Record(s))
    BY <2>1 DEF IsEmpty
  <2>2. CASE ~IsEmpty(Record(s))
    <3>1. Written(Record(s)) = Record(s)
      BY <2>2 DEF Written
    <3> QED BY <1>2, <3>1 DEF Plan, StartupPlan
  <2> QED BY <2>1, <2>2
<1>4. s.held = {}
  BY <1>1, <1>3
<1> QED BY <1>1, <1>3, <1>4 DEF Free

\* No write records a later boot than the machine's.
LEMMA PersistKeepsBoots ==
    ASSUME NEW s \in StateType, boot \in Nat, s.ownBoot \in {boot, None},
           BootsArePast, PersistOrLog(s)
    PROVE  disk' \notin {NoRecord, Unreadable} => disk'.boot <= boot
<1>1. disk' \in {disk, Written(Record(s))}
  BY DEF PersistOrLog, PersistOk, PersistFails
<1>2. Record(s).boot <= boot
  BY NoneAssumption DEF Record
<1>3. Written(Record(s)) \in {NoRecord, Record(s)}
  BY DEF Written
<1> HIDE DEF Record
<1> QED BY <1>1, <1>2, <1>3 DEF BootsArePast

\* A serving daemon writes its next state; the plan of the record stays meant when a
\* free open state is and when the write is no Cleanup's that changes who is meant.
LEMMA WriteIsMeant ==
    ASSUME TypeOK, TypeOK', LeaseInv, up, up', boot' = boot, clock' = clock,
           faults = 0, updates = 0, PlanIsMeant, PersistOrLog(st'),
           faults' = 0, st'.phase # "updating",
           st'.phase = "open" /\ Free(st') => KeptOrEnded',
           st'.phase = "finished" => intent' = "ended",
           PersistSkipped(st') => intent' = intent \/ Plan(disk, boot, clock) = "cleanup"
    PROVE  PlanIsMeant'
<1>1. disk' = IF PersistSkipped(st') THEN disk ELSE Written(Record(st'))
  BY PersistCarries DEF TypeOK
<1>2. st' \in StateType
  BY DEF TypeOK
<1>3. Plan(disk', boot, clock) = "resume" => KeptOrEnded'
  <2>1. CASE PersistSkipped(st')
    BY <1>1, <2>1 DEF PlanIsMeant, KeptOrEnded
  <2>2. CASE ~PersistSkipped(st')
    <3>1. Plan(disk', boot, clock) = "resume" => Free(st') /\ st'.phase # "closing"
      BY <1>1, <1>2, <2>2, WrittenResumes
    <3> QED BY <1>2, <3>1 DEF KeptOrEnded, StateType, Phases
  <2> QED BY <2>1, <2>2
<1>4. st'.phase = "closing" => Plan(disk', boot, clock) = "cleanup"
  BY <1>1, <1>2, ClosingRecordCleansUp DEF PersistSkipped
<1> QED BY <1>3, <1>4 DEF PlanIsMeant, Plan, Free

\* A step of a serving daemon that writes its next state keeps the invariant.
LEMMA ServingKeeps ==
    ASSUME TypeOK, TypeOK', LeaseInv, KeepInv, up, up', boot' = boot, clock' = clock,
           updates' = updates, st'.ownBoot = st.ownBoot, PersistOrLog(st'),
           st.ownBoot = None => conn' = conn,
           st.phase # "updating" => st'.phase # "updating",
           faults = 0 /\ updates = 0 =>
               /\ st'.phase = "open" /\ Free(st') => KeptOrEnded'
               /\ st'.phase = "finished" => intent' = "ended"
               /\ PersistSkipped(st') => intent' = intent \/ Plan(disk, boot, clock) = "cleanup"
    PROVE  KeepInv'
<1>1. OwnBootIsCurrent
  BY LeaseInvParts
<1>2. st' \in StateType /\ boot \in Nat /\ faults \in Nat
  BY DEF TypeOK
<1>3. BootsArePast'
  BY <1>1, <1>2, PersistKeepsBoots DEF KeepInv, BootsArePast, OwnBootIsCurrent
<1>4. NoneWithoutBoot'
  BY DEF KeepInv, NoneWithoutBoot
<1>5. faults' = 0 /\ updates' = 0 => PlanIsMeant'
  <2> SUFFICES ASSUME faults' = 0, updates' = 0 PROVE PlanIsMeant'
    OBVIOUS
  <2>1. faults = 0 /\ updates = 0
    BY <1>2, PersistCarries
  <2>2. PlanIsMeant /\ st.phase # "updating"
    BY <2>1 DEF KeepInv, PlanIsMeant
  <2> QED BY <2>1, <2>2, WriteIsMeant
<1> QED BY <1>3, <1>4, <1>5 DEF KeepInv

\* What a deciding departure makes of the state.
LEMMA DecidedMeans ==
    ASSUME NEW s \in StateType, NEW now \in Nat, Decides(s)
    PROVE  /\ Decided(s, "close", now).phase = "closing"
           /\ Decided(s, "handover", now).phase = "open" /\ ~Free(Decided(s, "handover", now))
           /\ Decided(s, "keep", now).phase = "open"
<1>1. HandoverUntil(now) # None
  BY HandoverUntilType, NoneAssumption
<1>2. s.phase = "open"
  BY DEF Decides
<1>3. Decided(s, "close", now).phase = "closing"
  BY <1>2 DEF Decided, Closed, StateType
<1>4. /\ Decided(s, "handover", now) = [s EXCEPT !.handover = HandoverUntil(now)]
      /\ Decided(s, "keep", now) = [s EXCEPT !.handover = None]
  BY DEF Decided
<1>5. /\ Decided(s, "handover", now).handover = HandoverUntil(now)
      /\ Decided(s, "handover", now).phase = "open" /\ Decided(s, "keep", now).phase = "open"
  BY <1>2, <1>4 DEF StateType
<1> HIDE DEF Decided
<1> QED BY <1>1, <1>3, <1>5 DEF Free, Or

\* A departure that decides says what is meant; one that does not changes nothing of it.
LEMMA DepartureKeeps ==
    ASSUME TypeOK, TypeOK', LeaseInv, KeepInv, up, up', boot' = boot, clock' = clock,
           updates' = updates, NEW s \in StateType, NEW i \in Intents,
           s.ownBoot = st.ownBoot, s.phase = st.phase, s.startupCleanup = st.startupCleanup,
           st.ownBoot # None, st' = Decided(s, i, clock), PersistOrLog(st'),
           intent' = IF Decides(s) THEN i ELSE intent
    PROVE  KeepInv'
<1>1. clock \in Nat
  BY DEF TypeOK
<1>2. KeepsLeases(s, st')
  BY <1>1, DecidedFacts
<1>3. st'.ownBoot = st.ownBoot
  BY <1>2 DEF KeepsLeases
<1>4. CASE Decides(s)
  <2>1. /\ i = "close" => st'.phase = "closing"
        /\ i = "handover" => st'.phase = "open" /\ ~Free(st')
        /\ i = "keep" => st'.phase = "open" /\ KeptOrEnded'
    BY <1>1, <1>4, DecidedMeans DEF KeptOrEnded
  <2>2. PersistSkipped(st') => Plan(disk, boot, clock) = "cleanup"
    BY <1>2, <1>4, LeaseInvParts DEF PersistSkipped, KeepsLeases, Decides, PlanOk
  <2> QED BY <1>3, <2>1, <2>2, ServingKeeps DEF Intents
<1>5. CASE ~Decides(s)
  <2>1. st' = s /\ intent' = intent
    BY <1>5 DEF Decided
  <2>2. st'.phase = "open" => ~Free(st')
    BY <1>5, <2>1 DEF Decides, Free
  <2>3. faults = 0 /\ updates = 0 => (st'.phase = "finished" => intent' = "ended")
    BY <2>1 DEF KeepInv, PlanIsMeant
  <2> QED BY <1>3, <2>1, <2>2, <2>3, ServingKeeps
<1> QED BY <1>4, <1>5

\* A process that is gone leaves the record, and what was meant, as they were.
LEMMA GoneKeeps ==
    ASSUME TypeOK, KeepInv, ProcessGone, boot' \in {boot, boot + 1}, clock' = clock,
           UNCHANGED <<faults, updates>>
    PROVE  KeepInv'
<1>1. disk' = disk /\ intent' = intent /\ ~up' /\ st'.phase = "open"
  BY DEF ProcessGone, NoState, NewState
<1>2. disk \in DiskType /\ boot \in Nat
  BY DEF TypeOK
<1>3. BootsArePast'
  BY <1>1, <1>2 DEF KeepInv, BootsArePast, DiskType, HeldRecord
<1>4. Plan(disk, boot', clock) = "resume" => Plan(disk, boot, clock) = "resume"
  <2>1. CASE disk \in {NoRecord, Unreadable}
    BY <2>1 DEF Plan, StartupPlan
  <2>2. CASE disk \in HeldRecord
    <3>1. disk.boot <= boot /\ disk.boot \in Nat
      BY <2>2, RecordAssumption DEF KeepInv, BootsArePast, HeldRecord
    <3>2. boot' # None /\ boot # None
      BY <1>2, NoneAssumption
    <3>3. OtherBoot(disk, boot) => OtherBoot(disk, boot')
      BY <1>2, <3>1, <3>2 DEF OtherBoot
    <3> QED BY <2>2, <3>3, RecordAssumption DEF Plan, StartupPlan
  <2> QED BY <1>2, <2>1, <2>2 DEF DiskType
<1>5. faults' = 0 /\ updates' = 0 => PlanIsMeant'
  <2> SUFFICES ASSUME faults' = 0, updates' = 0 PROVE PlanIsMeant'
    OBVIOUS
  <2>1. Plan(disk, boot, clock) = "resume" => KeptOrEnded
    BY DEF KeepInv, PlanIsMeant
  <2>2. Plan(disk', boot', clock') = "resume" => KeptOrEnded'
    BY <1>1, <1>4, <2>1 DEF KeptOrEnded
  <2> QED BY <1>1, <2>2 DEF PlanIsMeant
<1> QED BY <1>1, <1>3, <1>5 DEF KeepInv, NoneWithoutBoot

\* A daemon that starts takes what the record means as it finds it (startup::begin).
LEMMA StartKeeps ==
    ASSUME TypeOK, TypeOK', LeaseInv, KeepInv, NEW own \in {boot, None}, NEW kept,
           Start(own, kept)
    PROVE  KeepInv'
<1> DEFINE plan == StartupPlan(disk, own, clock)
           s == NewState(own, DiskCount(disk), kept, plan.plan = "cleanup")
<1>1. /\ up' /\ ~up /\ boot' = boot /\ clock' = clock /\ updates' = updates /\ conn' = conn
  BY DEF Start
<1>2. \A c \in Conn : conn'[c].pc = "idle"
  BY <1>1, LeaseInvParts DEF DownIsBlank, Idle
<1>3. /\ st' \in StateType /\ disk \in DiskType /\ boot \in Nat /\ faults \in Nat
      /\ clock \in Nat /\ boot # None
  BY BoundsAssumption, NoneAssumption DEF TypeOK
<1>4. /\ s.held = {} /\ s.handover = None /\ s.pending = None /\ s.phase = "open"
      /\ s.ownBoot = own /\ s.startupCleanup = (plan.plan = "cleanup")
  BY DEF NewState
<1>5. NoneWithoutBoot'
  BY <1>2 DEF NoneWithoutBoot
<1>6. BootsArePast
  BY DEF KeepInv
<1>7. CASE plan.plan = "pending"
  <2>1. st' = [s EXCEPT !.pending = plan.until] /\ PersistOrLog(st')
    BY <1>7 DEF Start
  <2>2. /\ st'.pending = plan.until /\ st'.phase = "open" /\ ~st'.startupCleanup
        /\ st'.ownBoot = own
    BY <1>7, <2>1 DEF NewState
  <2>3. plan.until # None
    BY <1>3, <1>7, HandoverUntilType, NoneAssumption DEF StartupPlan
  <2>4. ~Free(st')
    BY <2>2, <2>3 DEF Free, Or
  <2> HIDE DEF s, plan
  <2>5. BootsArePast'
    BY <1>1, <1>3, <1>6, <2>1, <2>2, PersistKeepsBoots DEF BootsArePast
  <2>6. ASSUME faults' = 0 PROVE PlanIsMeant'
    <3>1. disk' = Written(Record(st'))
      BY <1>3, <2>1, <2>2, <2>6, PersistCarries DEF PersistSkipped
    <3>2. Plan(disk', boot', clock') # "resume"
      BY <1>3, <2>4, <3>1, WrittenResumes
    <3> QED BY <2>2, <2>4, <3>2 DEF PlanIsMeant, Free
  <2> QED BY <1>5, <2>5, <2>6 DEF KeepInv
<1>8. CASE plan.plan = "cleanup"
  <2>1. st' = s /\ intent' = "ended" /\ UNCHANGED <<disk, faults>>
    BY <1>8 DEF Start
  <2>2. KeptOrEnded' /\ st'.phase = "open"
    BY <1>4, <2>1 DEF KeptOrEnded
  <2>3. BootsArePast'
    BY <1>1, <1>6, <2>1 DEF BootsArePast
  <2> QED BY <1>5, <2>2, <2>3 DEF KeepInv, PlanIsMeant
<1>9. CASE plan.plan = "resume"
  <2>1. st' = s /\ UNCHANGED <<disk, faults, intent>>
    BY <1>9 DEF Start
  <2>2. Plan(disk, boot, clock) = "resume"
    <3>1. disk = NoRecord \/ own # None
      BY <1>3, <1>9 DEF StartupPlan, OtherBoot
    <3>2. CASE disk = NoRecord
      BY <3>2 DEF Plan, StartupPlan
    <3>3. CASE own # None
      BY <1>9, <3>3 DEF Plan
    <3> QED BY <3>1, <3>2, <3>3
  <2>3. BootsArePast'
    BY <1>1, <1>6, <2>1 DEF BootsArePast
  <2>4. faults' = 0 /\ updates' = 0 => KeptOrEnded'
    BY <1>1, <2>1, <2>2 DEF KeepInv, PlanIsMeant, KeptOrEnded
  <2>5. st'.phase = "open"
    BY <1>4, <2>1
  <2> QED BY <1>5, <2>3, <2>4, <2>5 DEF KeepInv, PlanIsMeant
<1>10. plan.plan \in {"pending", "cleanup", "resume"}
  BY DEF StartupPlan
<1> QED BY <1>7, <1>8, <1>9, <1>10

\* A grant is recorded before it stands, and a failed one leaves the state alone.
LEMMA GrantKeeps ==
    ASSUME TypeOK, TypeOK', LeaseInv, KeepInv, NEW c \in Conn, NEW w \in Window, Grant(c, w)
    PROVE  KeepInv'
<1> DEFINE g == Granted(st, c, w)
<1>1. /\ up /\ up' /\ boot' = boot /\ clock' = clock /\ updates' = updates
      /\ st.ownBoot # None /\ st.phase = "open"
  BY DEF Grant
<1>2. st \in StateType /\ boot \in Nat /\ faults \in Nat /\ g \in StateType
  BY GrantedType DEF TypeOK
<1>3. /\ g.held # {} /\ g.ownBoot = st.ownBoot /\ g.phase = "open"
      /\ g.startupCleanup = st.startupCleanup
  BY <1>1, <1>2 DEF Granted, StateType
<1> HIDE DEF g
<1>4. CASE PersistOk(g) /\ st' = g
  <2>1. PersistOrLog(st')
    BY <1>4 DEF PersistOrLog
  <2>2. ~Free(st')
    BY <1>3, <1>4 DEF Free
  <2>3. PersistSkipped(st') => Plan(disk, boot, clock) = "cleanup"
    BY <1>1, <1>3, <1>4, LeaseInvParts DEF PersistSkipped, PlanOk
  <2>4. st'.ownBoot = st.ownBoot /\ st'.phase = "open"
    BY <1>3, <1>4
  <2> QED BY <1>1, <2>1, <2>2, <2>3, <2>4, ServingKeeps
<1>5. CASE PersistFails(g) /\ UNCHANGED <<st, conn, intent>>
  <2>1. faults' # 0
    BY <1>2, <1>5 DEF PersistFails
  <2>2. OwnBootIsCurrent
    BY LeaseInvParts
  <2>3. g.ownBoot \in {boot, None} /\ PersistOrLog(g)
    BY <1>1, <1>3, <1>5, <2>2 DEF OwnBootIsCurrent, PersistOrLog
  <2>4. BootsArePast'
    BY <1>1, <1>2, <2>3, PersistKeepsBoots DEF KeepInv, BootsArePast
  <2> QED BY <1>1, <1>5, <2>1, <2>4 DEF KeepInv, NoneWithoutBoot
<1> QED BY <1>4, <1>5 DEF Grant, g

\* Only the ticker's close, never its own choice, changes who is meant (Leases::tick).
LEMMA TickKeeps ==
    ASSUME TypeOK, TypeOK', LeaseInv, KeepInv, Tick
    PROVE  KeepInv'
<1>1. /\ up /\ up' /\ boot' = boot /\ clock' = clock /\ updates' = updates /\ conn' = conn
      /\ intent' = intent /\ st' = Ticked(st, clock) /\ st' # st /\ PersistOrLog(st')
      /\ st.phase = "open"
  BY DEF Tick
<1>2. st \in StateType /\ st' \in StateType /\ clock \in Nat
  BY BoundsAssumption DEF TypeOK
<1>3. KeepsLeases(st, st')
  BY <1>1, <1>2, TickedFacts
<1>4. st'.ownBoot = st.ownBoot /\ st'.phase \in {"open", "closing"}
  BY <1>1, <1>3 DEF KeepsLeases
<1>5. st'.phase = "open" => ~Free(st')
  <2>1. CASE st.held = {}
    <3>1. st' = Closed(st)
      BY <1>1, <2>1 DEF Ticked
    <3>2. st'.phase = "closing"
      BY <1>1, <1>2, <3>1 DEF Closed, StateType
    <3> QED BY <3>2
  <2>2. CASE st.held # {}
    BY <1>3, <2>2 DEF KeepsLeases, Free
  <2> QED BY <2>1, <2>2
<1> QED BY <1>1, <1>4, <1>5, ServingKeeps

\* An ack of a count changes the count alone (notice_seen).
LEMMA SeenKeeps ==
    ASSUME TypeOK, TypeOK', LeaseInv, KeepInv, NEW c \in Conn, NoticeSeen(c) \/ CloserSeen(c)
    PROVE  KeepInv'
<1>1. /\ up /\ up' /\ boot' = boot /\ clock' = clock /\ updates' = updates
      /\ intent' = intent /\ st' = Seen(st, conn[c].told) /\ conn[c].pc # "idle"
  BY DEF NoticeSeen, CloserSeen
<1>2. st \in StateType
  BY DEF TypeOK
<1>3. /\ st'.ownBoot = st.ownBoot /\ st'.phase = st.phase /\ st'.held = st.held
      /\ st'.handover = st.handover /\ st'.pending = st.pending
      /\ st'.startupCleanup = st.startupCleanup
  BY <1>1, <1>2 DEF Seen, StateType
<1>4. st.ownBoot # None
  BY <1>1 DEF KeepInv, NoneWithoutBoot
<1>5. CASE st' = st
  <2>1. UNCHANGED <<disk, faults>>
    BY <1>5 DEF NoticeSeen, CloserSeen
  <2> QED BY <1>1, <1>4, <1>5, <2>1
          DEF KeepInv, PlanIsMeant, KeptOrEnded, BootsArePast, NoneWithoutBoot, Free
<1>6. CASE st' # st
  <2>1. PersistOrLog(st')
    BY <1>6 DEF NoticeSeen, CloserSeen
  <2>2. Free(st') = Free(st)
    BY <1>3 DEF Free, Or
  <2>3. faults = 0 /\ updates = 0 => /\ st'.phase = "open" /\ Free(st') => KeptOrEnded'
                                     /\ st'.phase = "finished" => intent' = "ended"
    BY <1>1, <1>3, <2>2 DEF KeepInv, PlanIsMeant, KeptOrEnded
  <2> QED BY <1>1, <1>3, <1>4, <2>1, <2>3, ServingKeeps
<1> QED BY <1>5, <1>6

\* The last write of a shutdown is of sessions that have ended (Leases::finish).
LEMMA FinishKeeps ==
    ASSUME TypeOK, TypeOK', LeaseInv, KeepInv,
           NEW n \in Nat, NEW ids, FinishShutdown(n, ids)
    PROVE  KeepInv'
<1>1. /\ up /\ up' /\ boot' = boot /\ clock' = clock /\ updates' = updates /\ conn' = conn
      /\ intent' = "ended" /\ st' = FinishedWith(st, n, ids) /\ PersistOrLog(st')
      /\ st.phase = "closing"
  BY DEF FinishShutdown
<1>2. st'.phase = "finished" /\ st'.ownBoot = st.ownBoot
  BY <1>1 DEF FinishedWith, TypeOK, StateType
<1>3. ~PersistSkipped(st')
  BY <1>2 DEF PersistSkipped
<1> QED BY <1>1, <1>2, <1>3, ServingKeeps

\* The end of a startup Cleanup changes the count and the forget list alone.
LEMMA CleanupKeeps ==
    ASSUME TypeOK, TypeOK', LeaseInv, KeepInv,
           NEW n \in Nat, NEW ids, FinishCleanup(n, ids)
    PROVE  KeepInv'
<1>1. /\ up /\ up' /\ boot' = boot /\ clock' = clock /\ updates' = updates /\ conn' = conn
      /\ intent' = intent /\ PersistOrLog(st')
  BY DEF FinishCleanup
<1>2. /\ st'.ownBoot = st.ownBoot /\ st'.phase = st.phase /\ st'.held = st.held
      /\ st'.handover = st.handover /\ st'.pending = st.pending /\ ~st'.startupCleanup
  BY DEF FinishCleanup, TypeOK, StateType
<1>3. Free(st') = Free(st)
  BY <1>2 DEF Free, Or
<1>4. faults = 0 /\ updates = 0 => /\ st'.phase = "open" /\ Free(st') => KeptOrEnded'
                                   /\ st'.phase = "finished" => intent' = "ended"
  BY <1>1, <1>2, <1>3 DEF KeepInv, PlanIsMeant, KeptOrEnded
<1> QED BY <1>1, <1>2, <1>4, ServingKeeps

\* A step of one connection that changes neither the state nor its record.
LEMMA QuietKeeps ==
    ASSUME KeepInv, NEW c \in Conn, conn[c].pc # "idle", up,
           UNCHANGED <<boot, up, disk, st, faults, updates, intent, clock>>
    PROVE  KeepInv'
<1>1. st.ownBoot # None
  BY DEF KeepInv, NoneWithoutBoot
<1> QED BY <1>1 DEF KeepInv, PlanIsMeant, KeptOrEnded, BootsArePast, NoneWithoutBoot, Free

\* Every step keeps the plan meant.
LEMMA KeepInvariant == Spec => []KeepInv
<1>1. Init => KeepInv
  <2> SUFFICES ASSUME Init PROVE KeepInv
    OBVIOUS
  <2>1. st.phase = "open" /\ KeptOrEnded /\ ~up /\ disk = NoRecord
    BY DEF Init, NoState, NewState, KeptOrEnded
  <2> QED BY <2>1 DEF KeepInv, PlanIsMeant, BootsArePast, NoneWithoutBoot
<1>2. TypeOK /\ TypeOK' /\ LeaseInv /\ KeepInv /\ [Next]_vars => KeepInv'
  <2> SUFFICES ASSUME TypeOK, TypeOK', LeaseInv, KeepInv, [Next]_vars PROVE KeepInv'
    OBVIOUS
  <2>t. st \in StateType /\ disk \in DiskType /\ clock \in Nat /\ faults \in Nat /\ updates \in Nat
    BY BoundsAssumption DEF TypeOK
  <2>1. CASE StartKnown \/ StartUnknown
    BY <2>1, StartKeeps DEF StartKnown, StartUnknown
  <2>2. CASE \E c \in Conn, w \in Window : Grant(c, w)
    BY <2>2, GrantKeeps
  <2>3. ASSUME NEW c \in Conn, GrantReply(c) \/ AnswerClose(c) \/ CloserSilent(c)
        PROVE  KeepInv'
    BY <2>3, QuietKeeps DEF GrantReply, AnswerClose, CloserSilent
  <2>4. ASSUME NEW c \in Conn, NEW i \in Intents, Leaving(c, i)
        PROVE  KeepInv'
    <3> DEFINE s == IF conn[c].pc = "held" THEN Removed(st, c) ELSE st
    <3>1. /\ s \in StateType /\ s.ownBoot = st.ownBoot /\ s.phase = st.phase
          /\ s.startupCleanup = st.startupCleanup
      BY <2>t, RemovedType, RemovedFacts
    <3>2. /\ up /\ up' /\ boot' = boot /\ clock' = clock /\ updates' = updates
          /\ st' = Decided(s, i, clock) /\ PersistOrLog(st') /\ conn[c].pc # "idle"
          /\ intent' = IF Decides(s) THEN i ELSE intent
      BY <2>4 DEF Leaving
    <3>3. st.ownBoot # None
      BY <3>2 DEF KeepInv, NoneWithoutBoot
    <3> HIDE DEF s
    <3> QED BY <3>1, <3>2, <3>3, DepartureKeeps
  <2>5. ASSUME NEW c \in Conn, EndOfStream(c)
        PROVE  KeepInv'
    <3>1. /\ up /\ up' /\ boot' = boot /\ clock' = clock /\ updates' = updates
          /\ conn[c].pc # "idle"
      BY <2>5 DEF EndOfStream
    <3>2. CASE conn[c].pc = "left"
      BY <2>5, <3>1, <3>2, QuietKeeps DEF EndOfStream
    <3>3. CASE conn[c].pc # "left"
      <4> DEFINE s == Removed(st, c)
      <4>1. /\ s \in StateType /\ s.ownBoot = st.ownBoot /\ s.phase = st.phase
            /\ s.startupCleanup = st.startupCleanup
        BY <2>t, RemovedType, RemovedFacts
      <4>2. /\ st' = Decided(s, "handover", clock) /\ PersistOrLog(st')
            /\ intent' = IF Decides(s) THEN "handover" ELSE intent
        BY <2>5, <3>3 DEF EndOfStream
      <4>3. st.ownBoot # None /\ "handover" \in Intents
        BY <3>1 DEF KeepInv, NoneWithoutBoot, Intents
      <4> HIDE DEF s
      <4> QED BY <3>1, <4>1, <4>2, <4>3, DepartureKeeps
    <3> QED BY <3>2, <3>3
  <2>6. CASE \E c \in Conn : NoticeSeen(c) \/ CloserSeen(c)
    BY <2>6, SeenKeeps
  <2>7. CASE Tick
    BY <2>7, TickKeeps
  <2>8. CASE CommitUpdate
    <3>1. updates' # 0 /\ UNCHANGED <<boot, up, disk, conn>> /\ st'.ownBoot = st.ownBoot
      BY <2>8, <2>t DEF CommitUpdate, StateType
    <3> QED BY <3>1 DEF KeepInv, BootsArePast, NoneWithoutBoot
  <2>9. CASE UpdateExit \/ Exit \/ Backstop \/ Crash \/ Reboot
    <3>1. /\ ProcessGone /\ boot' \in {boot, boot + 1} /\ clock' = clock
          /\ UNCHANGED <<faults, updates>>
      BY <2>9 DEF UpdateExit, Exit, Backstop, Crash, Reboot
    <3> QED BY <3>1, GoneKeeps
  <2>10. CASE FinishesShutdown
    BY <2>10, BoundsAssumption, FinishKeeps DEF FinishesShutdown
  <2>11. CASE FinishesCleanup
    BY <2>11, BoundsAssumption, CleanupKeeps DEF FinishesCleanup
  <2>12. CASE Damage
    <3>1. faults' # 0 /\ disk' = Unreadable /\ UNCHANGED <<boot, up, st, conn>>
      BY <2>12, <2>t DEF Damage
    <3> QED BY <3>1 DEF KeepInv, BootsArePast, NoneWithoutBoot
  <2>13. CASE Advance
    <3>1. /\ clock' = clock + 1
          /\ UNCHANGED <<boot, up, disk, st, conn, faults, updates, intent>>
      BY <2>13 DEF Advance
    <3>2. /\ Plan(disk, boot, clock') = "resume" => Plan(disk, boot, clock) = "resume"
          /\ Plan(disk, boot, clock) = "cleanup" => Plan(disk, boot, clock') = "cleanup"
      BY <2>t, <3>1, PlanLater
    <3>3. PlanIsMeant => PlanIsMeant'
      BY <3>1, <3>2 DEF PlanIsMeant, KeptOrEnded, Free
    <3> QED BY <3>1, <3>3 DEF KeepInv, BootsArePast, NoneWithoutBoot
  <2>14. CASE UNCHANGED vars
    BY <2>14 DEF vars, KeepInv, PlanIsMeant, KeptOrEnded, Plan, Free, BootsArePast,
                 NoneWithoutBoot
  <2> QED BY <2>1, <2>2, <2>3, <2>4, <2>5, <2>6, <2>7, <2>8, <2>9, <2>10, <2>11, <2>12,
             <2>13, <2>14 DEF Next
<1> QED BY <1>1, <1>2, TypeCorrect, LeaseSafe, PTL DEF Spec

\* Ruling (c), "Ctrl+Q Yes is the only open-ended keep": with no failed write and no
\* update restart (the run update_keeps shows what one does), a record that plans an
\* open-ended resume was left by a Keep, or after the sessions had ended.
THEOREM OnlyAKeepIsOpenEnded == Spec => [](updates = 0 => OnlyKeepIsOpenEnded)
<1>1. KeepInv => (updates = 0 => OnlyKeepIsOpenEnded)
  BY DEF KeepInv, PlanIsMeant, KeptOrEnded, OnlyKeepIsOpenEnded
<1> QED BY <1>1, KeepInvariant, PTL
=============================================================================
