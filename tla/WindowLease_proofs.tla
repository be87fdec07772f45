------------------------- MODULE WindowLease_proofs -------------------------
(* Theorems about WindowLease, for every set of hosts and daemons, whatever *)
(* labels share a daemon, and every bound.                                  *)
EXTENDS WindowLease, FiniteSetTheorems, TLAPS

(***************************************************************************)
(* The handshakes in flight, and their count.                              *)
(***************************************************************************)

Flying(f) == {h \in Host : f[h] # "none"}

\* The hosts are finitely many, so the handshakes in flight are.
LEMMA FlyingFinite ==
    ASSUME NEW f
    PROVE  IsFiniteSet(Flying(f)) /\ Cardinality(Flying(f)) \in Nat
<1>1. Flying(f) \in SUBSET Host /\ IsFiniteSet(Host)
  BY WindowAssumption DEF Flying
<1> QED BY <1>1, FS_Subset, FS_CardinalityType

\* A handshake that begins is one more.
LEMMA OneMore ==
    ASSUME NEW f \in [Host -> {"none", "asking", "sent"}], NEW h \in Host, f[h] = "none"
    PROVE  Cardinality(Flying([f EXCEPT ![h] = "asking"])) = Cardinality(Flying(f)) + 1
<1>1. Flying([f EXCEPT ![h] = "asking"]) = Flying(f) \cup {h} /\ h \notin Flying(f)
  BY DEF Flying
<1> QED BY <1>1, FlyingFinite, FS_AddElement

\* A handshake that settles or is dropped is one less (Book::count_down).
LEMMA OneLess ==
    ASSUME NEW f \in [Host -> {"none", "asking", "sent"}], NEW h \in Host, f[h] # "none"
    PROVE  /\ Cardinality(Flying([f EXCEPT ![h] = "none"])) = Cardinality(Flying(f)) - 1
           /\ Cardinality(Flying(f)) >= 1
<1>1. Flying([f EXCEPT ![h] = "none"]) = Flying(f) \ {h} /\ h \in Flying(f)
  BY DEF Flying
<1>2. /\ Cardinality(Flying(f) \ {h}) = Cardinality(Flying(f)) - 1
      /\ Cardinality(Flying(f) \ {h}) \in Nat
      /\ Cardinality(Flying(f)) \in Nat
  BY <1>1, FlyingFinite, FS_RemoveElement
<1>3. Cardinality(Flying([f EXCEPT ![h] = "none"])) = Cardinality(Flying(f)) - 1
  BY <1>1, <1>2, Zenon
<1>4. \A m, n \in Nat : m = n - 1 => n >= 1
  OBVIOUS
<1> QED BY <1>2, <1>3, <1>4, Zenon

\* None is in flight when the count is 0.
LEMMA NoneFlies ==
    ASSUME NEW f, Cardinality(Flying(f)) = 0
    PROVE  \A h \in Host : f[h] = "none"
<1>1. Flying(f) = {}
  BY FlyingFinite, FS_EmptySet
<1> QED BY <1>1 DEF Flying

\* LateIsOpenWhileCounted, with the set of handshakes named.
LEMMA Counting ==
    LateIsOpenWhileCounted <=> /\ inflight = Cardinality(Flying(hs))
                               /\ late <=> (leaving # None /\ inflight > 0)
BY DEF LateIsOpenWhileCounted, Flying

(***************************************************************************)
(* Types.                                                                  *)
(***************************************************************************)

HsType    == [Host -> {"none", "asking", "sent"}]
BackType  == [op: Standings \cup {"left"}, id: 0..MaxLeaves, n: Counts]
SrvType   == [pc: {"none", "asked", "held", "left"}, heard: Intents \cup {None}]

BookOK ==
    /\ standing \in [Host -> Standings] /\ holder \in [Host -> {"none", "live", "closed"}]
    /\ leaving \in Intents \cup {None} /\ inflight \in Nat
    /\ late \in BOOLEAN /\ lateQ \subseteq Host /\ owed \in [Daemon -> Counts]
TasksOK ==
    /\ hs \in HsType /\ cmds \in [Host -> Seq(CmdType)] /\ ack \in [Host -> OutcomeType]
WindowOK ==
    /\ ui \in {"free", "delivering", "delivered", "ending"}
    /\ lv \in LeavingType /\ drawn \in [Daemon -> Counts] /\ waits \subseteq Host
    /\ exit \in {None, 0, Relaunch}
StreamOK ==
    /\ wire \in [Host -> Seq(CmdType)] /\ back \in [Host -> Seq(BackType)]
    /\ cut \in [Host -> BOOLEAN] /\ eof \in [Host -> BOOLEAN]
    /\ srv \in [Host -> SrvType] /\ count \in [Daemon -> Counts]
PastOK ==
    /\ tries \in 0..MaxTries /\ leaves \in 0..MaxLeaves /\ cuts \in 0..MaxCuts
    /\ closed \in BOOLEAN /\ shown \in [Daemon -> SUBSET Counts] /\ told \in [Host -> Counts]
    /\ load \in Loads

\* The type invariant, by its parts.
LEMMA TypeParts == TypeOK <=> BookOK /\ TasksOK /\ WindowOK /\ StreamOK /\ PastOK
BY DEF TypeOK, BookOK, TasksOK, WindowOK, StreamOK, PastOK, HsType, BackType, SrvType

\* The bounds of a behaviour are within the model's.
LEMMA LoadBounds ==
    ASSUME PastOK
    PROVE  load[1] \in 0..MaxCount /\ load[2] \in 0..MaxLeaves
BY WindowAssumption DEF PastOK

\* One entry of a queue of each host.
LEMMA OneQueue ==
    ASSUME NEW T, NEW f \in [Host -> Seq(T)], NEW h \in Host, NEW q \in Seq(T)
    PROVE  [f EXCEPT ![h] = q] \in [Host -> Seq(T)]
OBVIOUS

\* Taking a queue's head, and appending to one, leave queues.
LEMMA QueueSteps ==
    ASSUME NEW T, NEW q \in Seq(T)
    PROVE  /\ q # <<>> => Head(q) \in T /\ Tail(q) \in Seq(T)
           /\ \A e \in T : Append(q, e) \in Seq(T)
           /\ <<>> \in Seq(T) /\ \A e \in T : <<e>> \in Seq(T)
OBVIOUS

\* The commands a holder is sent are commands.
LEMMA CmdTypes ==
    /\ \A i \in Intents, id \in 0..MaxLeaves : Leave(i, id) \in CmdType
    /\ \A n \in Counts : NoticeSeen(n) \in CmdType
    /\ Written \in CmdType
BY WindowAssumption DEF CmdType, Leave, NoticeSeen, Written, Counts

\* The outcomes of a leave are outcomes.
LEMMA OutcomeTypes ==
    /\ NoAck \in OutcomeType /\ Open \in OutcomeType /\ Failed \in OutcomeType
    /\ TimedOut \in OutcomeType /\ \A n \in Counts : Replied(n) \in OutcomeType
BY WindowAssumption DEF OutcomeType, NoAck, Open, Failed, TimedOut, Replied, Outcome, Counts

\* No leave is a leave of the type.
LEMMA NoLeaveType == NoLeave \in LeavingType
BY OutcomeTypes DEF NoLeave, LeavingType

\* A handshake that settles installs its host and is counted down (Handshake::settle).
LEMMA SettleType ==
    ASSUME BookOK, TasksOK, PastOK, LateIsOpenWhileCounted, NEW h \in Host, hs[h] # "none",
           NEW s \in Standings, NEW live \in BOOLEAN, Settle(h, s, live)
    PROVE  /\ standing' \in [Host -> Standings] /\ holder' \in [Host -> {"none", "live", "closed"}]
           /\ leaving' \in Intents \cup {None} /\ inflight' \in Nat
           /\ late' \in BOOLEAN /\ lateQ' \subseteq Host
           /\ TasksOK' /\ LateIsOpenWhileCounted'
<1>1. /\ hs' = [hs EXCEPT ![h] = "none"] /\ inflight' = inflight - 1
      /\ late' = (late /\ inflight > 1) /\ leaving' = leaving
  BY DEF Settle, CountDown
<1>2. /\ inflight = Cardinality(Flying(hs))
      /\ late <=> (leaving # None /\ inflight > 0)
  BY Counting
<1>3. inflight' = Cardinality(Flying(hs')) /\ inflight' \in Nat
  BY <1>1, <1>2, OneLess, FlyingFinite DEF TasksOK, HsType
<1>4. LateIsOpenWhileCounted'
  <2>a. inflight > 1 => inflight > 0
    BY DEF BookOK
  <2>b. inflight' > 0 <=> inflight > 1
    BY <1>1 DEF BookOK
  <2>1. late' <=> (leaving' # None /\ inflight' > 0)
    BY <1>1, <1>2, <2>a, <2>b, Zenon
  <2> QED BY <1>3, <2>1 DEF LateIsOpenWhileCounted, Flying
<1>5. /\ standing' = [standing EXCEPT ![h] = s]
      /\ holder' = [holder EXCEPT ![h] = IF live THEN "live" ELSE "none"]
      /\ lateQ' \in {lateQ, lateQ \cup {h}}
  BY DEF Settle
<1>6. ack' \in [Host -> OutcomeType]
  BY OutcomeTypes DEF Settle, TasksOK
<1>7. cmds' \in [Host -> Seq(CmdType)]
  <2>1. PICK q \in {<<>>, <<Leave(leaving, leaves)>>} :
          cmds' = [cmds EXCEPT ![h] = q] /\ (q = <<>> \/ leaving # None)
    BY DEF Settle
  <2>2. leaving # None => Leave(leaving, leaves) \in CmdType
    BY CmdTypes DEF BookOK, PastOK
  <2>3. q \in Seq(CmdType)
    BY <2>1, <2>2, <<>> \in Seq(CmdType), \A e \in CmdType : <<e>> \in Seq(CmdType)
  <2> QED BY <2>1, <2>3 DEF TasksOK
<1> QED BY <1>1, <1>3, <1>4, <1>5, <1>6, <1>7 DEF BookOK, TasksOK, HsType

(***************************************************************************)
(* The types are kept by every step.                                       *)
(***************************************************************************)

Typed == BookOK /\ TasksOK /\ WindowOK /\ StreamOK /\ PastOK /\ LateIsOpenWhileCounted

\* The counting reads three variables of the book and the handshakes.
LEMMA CountingStands ==
    ASSUME LateIsOpenWhileCounted, UNCHANGED <<leaving, inflight, late, hs>>
    PROVE  LateIsOpenWhileCounted'
BY DEF LateIsOpenWhileCounted

\* The steps of the transport tasks.
LEMMA HandshakeTypes ==
    ASSUME Typed, NEW h \in Host,
           Begin(h) \/ Send(h) \/ AskFails(h) \/ ReadGrant(h) \/ ReadRefusal(h) \/ Cancel(h)
    PROVE  Typed'
<1> USE DEF Typed
<1>1. CASE Begin(h)
  <2>1. LateIsOpenWhileCounted'
    <3>1. /\ hs' = [hs EXCEPT ![h] = "asking"] /\ hs[h] = "none" /\ inflight' = inflight + 1
          /\ UNCHANGED <<leaving, late>> /\ leaving = None
      BY <1>1 DEF Begin
    <3>2. inflight' = Cardinality(Flying(hs'))
      BY <3>1, Counting, OneMore DEF TasksOK, HsType
    <3> QED BY <3>1, <3>2 DEF LateIsOpenWhileCounted, Flying
  <2>2. BookOK'
    BY <1>1 DEF Begin, BookOK, Standings
  <2>3. TasksOK' /\ WindowOK' /\ StreamOK' /\ PastOK'
    BY <1>1, WindowAssumption DEF Begin, TasksOK, HsType, WindowOK, window, StreamOK, stream, PastOK, past
  <2> QED BY <2>1, <2>2, <2>3
<1>2. CASE Send(h)
  <2>1. LateIsOpenWhileCounted'
    <3>1. Flying(hs') = Flying(hs) /\ UNCHANGED <<leaving, inflight, late>>
      BY <1>2 DEF Send, Flying, TasksOK, HsType, book
    <3> QED BY <3>1 DEF LateIsOpenWhileCounted, Flying
  <2>2. StreamOK'
    <3>1. [pc |-> "asked", heard |-> None] \in SrvType
      BY DEF SrvType
    <3>2. wire' \in [Host -> Seq(CmdType)] /\ back' \in [Host -> Seq(BackType)]
      BY <1>2, OneQueue DEF Send, StreamOK
    <3> QED BY <1>2, <3>1, <3>2 DEF Send, StreamOK
  <2>3. BookOK' /\ TasksOK' /\ WindowOK' /\ PastOK'
    BY <1>2 DEF Send, BookOK, book, TasksOK, HsType, WindowOK, window, PastOK, past, spent
  <2> QED BY <2>1, <2>2, <2>3
<1>3. CASE AskFails(h)
  <2>1. PICK s \in {"undetermined", "unreached"} : Settle(h, s, FALSE)
    BY <1>3 DEF AskFails
  <2>2. s \in Standings /\ hs[h] # "none" /\ UNCHANGED <<owed, window, stream, spent, past, load>>
    BY <1>3 DEF AskFails, Standings
  <2>3. BookOK' /\ TasksOK' /\ LateIsOpenWhileCounted'
    BY <2>1, <2>2, SettleType DEF BookOK
  <2>4. WindowOK' /\ StreamOK' /\ PastOK'
    BY <2>2 DEF WindowOK, window, StreamOK, stream, PastOK, past, spent
  <2> QED BY <2>3, <2>4
<1>4. CASE ReadGrant(h)
  <2>1. /\ Settle(h, "granted", TRUE) /\ hs[h] # "none" /\ "granted" \in Standings
        /\ back[h] # <<>> /\ back' = [back EXCEPT ![h] = Tail(@)]
        /\ owed' = IF Head(back[h]).n > 0 THEN [owed EXCEPT ![Root[h]] = Head(back[h]).n] ELSE owed
        /\ told' = [told EXCEPT ![h] = Head(back[h]).n]
        /\ UNCHANGED <<window, wire, cut, eof, srv, count, spent, closed, shown, load>>
    BY <1>4 DEF ReadGrant, Standings
  <2>2. back[h] \in Seq(BackType)
    BY DEF StreamOK
  <2>3. Head(back[h]) \in BackType /\ Tail(back[h]) \in Seq(BackType)
    BY <2>1, <2>2
  <2>4. Head(back[h]).n \in Counts
    BY <2>3 DEF BackType
  <2>5. BookOK' /\ TasksOK' /\ LateIsOpenWhileCounted'
    <3>1. owed' \in [Daemon -> Counts]
      BY <2>1, <2>4 DEF BookOK
    <3> QED BY <2>1, <3>1, SettleType DEF BookOK
  <2>6. StreamOK'
    BY <2>1, <2>3, OneQueue DEF StreamOK
  <2>7. WindowOK' /\ PastOK'
    BY <2>1, <2>4 DEF WindowOK, window, PastOK, spent
  <2> QED BY <2>5, <2>6, <2>7
<1>5. CASE ReadRefusal(h)
  <2>1. /\ hs[h] # "none" /\ eof' = [eof EXCEPT ![h] = TRUE]
        /\ UNCHANGED <<owed, window, wire, cut, srv, count, spent, past, load>>
    BY <1>5 DEF ReadRefusal
  <2>2. PICK s \in Standings : Settle(h, s, FALSE)
    BY <1>5 DEF ReadRefusal, Standings
  <2>3. back' = back \/ (back[h] # <<>> /\ back' = [back EXCEPT ![h] = Tail(@)])
    BY <1>5 DEF ReadRefusal
  <2>4. back' \in [Host -> Seq(BackType)]
    <3>1. back[h] \in Seq(BackType)
      BY DEF StreamOK
    <3>2. back[h] # <<>> => Tail(back[h]) \in Seq(BackType)
      BY <3>1
    <3> QED BY <2>3, <3>2, OneQueue DEF StreamOK
  <2>5. BookOK' /\ TasksOK' /\ LateIsOpenWhileCounted'
    BY <2>1, <2>2, SettleType DEF BookOK
  <2>6. StreamOK' /\ WindowOK' /\ PastOK'
    BY <2>1, <2>4 DEF StreamOK, WindowOK, window, PastOK, past, spent
  <2> QED BY <2>5, <2>6
<1>6. CASE Cancel(h)
  <2>1. /\ hs' = [hs EXCEPT ![h] = "none"] /\ hs[h] # "none" /\ inflight' = inflight - 1
        /\ late' = (late /\ inflight > 1)
        /\ eof' = [eof EXCEPT ![h] = TRUE]
        /\ UNCHANGED <<standing, holder, leaving, lateQ, owed, cmds, ack, window,
                       wire, back, cut, srv, count, spent, past, load>>
    BY <1>6 DEF Cancel, CountDown
  <2>2. inflight' = Cardinality(Flying(hs')) /\ inflight' \in Nat
    BY <2>1, Counting, OneLess, FlyingFinite DEF TasksOK, HsType
  <2>3. LateIsOpenWhileCounted'
    <3>1. inflight > 1 => inflight > 0
      BY DEF BookOK
    <3>2. inflight' > 0 <=> inflight > 1
      BY <2>1 DEF BookOK
    <3>3. late' <=> (leaving' # None /\ inflight' > 0)
      BY <2>1, <3>1, <3>2, Counting, Zenon
    <3> QED BY <2>2, <3>3 DEF LateIsOpenWhileCounted, Flying
  <2>4. BookOK'
    BY <2>1, <2>2 DEF BookOK
  <2>5. TasksOK' /\ WindowOK' /\ StreamOK' /\ PastOK'
    BY <2>1 DEF TasksOK, HsType, WindowOK, window, StreamOK, PastOK, past, spent
  <2> QED BY <2>3, <2>4, <2>5
<1> QED BY <1>1, <1>2, <1>3, <1>4, <1>5, <1>6

\* The steps of the holder tasks.
LEMMA HolderTypes ==
    ASSUME Typed, NEW h \in Host, HolderTakes(h) \/ HolderReads(h) \/ HolderEnds(h)
    PROVE  Typed'
<1> USE DEF Typed
<1>0. cmds[h] \in Seq(CmdType) /\ wire[h] \in Seq(CmdType) /\ back[h] \in Seq(BackType)
  BY DEF TasksOK, StreamOK
<1>1. CASE HolderTakes(h)
  <2>1. /\ cmds[h] # <<>> /\ cmds' = [cmds EXCEPT ![h] = Tail(@)]
        /\ waits' \in {waits, waits \ {h}}
        /\ wire' \in {wire, [wire EXCEPT ![h] = Append(@, Head(cmds[h]))]}
        /\ UNCHANGED <<book, hs, ack, ui, lv, drawn, exit, back, cut, eof, srv, count, spent, past, load>>
    BY <1>1 DEF HolderTakes
  <2>2. Head(cmds[h]) \in CmdType /\ Tail(cmds[h]) \in Seq(CmdType)
    BY <1>0, <2>1
  <2>3. Append(wire[h], Head(cmds[h])) \in Seq(CmdType)
    BY <1>0, <2>2
  <2>4. wire' \in [Host -> Seq(CmdType)]
    BY <2>1, <2>3, OneQueue DEF StreamOK
  <2>5. cmds' \in [Host -> Seq(CmdType)]
    BY <2>1, <2>2, OneQueue DEF TasksOK
  <2>6. BookOK' /\ TasksOK' /\ LateIsOpenWhileCounted'
    BY <2>1, <2>5, CountingStands DEF BookOK, book, TasksOK
  <2>7. WindowOK' /\ StreamOK' /\ PastOK'
    BY <2>1, <2>4 DEF WindowOK, StreamOK, PastOK, past, spent
  <2> QED BY <2>6, <2>7
<1>2. CASE HolderReads(h)
  <2>1. /\ back[h] # <<>> /\ back' = [back EXCEPT ![h] = Tail(@)]
        /\ ack' \in {ack, [ack EXCEPT ![h] = Replied(Head(back[h]).n)]}
        /\ UNCHANGED <<book, hs, cmds, window, wire, cut, eof, srv, count, spent, past, load>>
    BY <1>2 DEF HolderReads
  <2>2. Head(back[h]) \in BackType /\ Tail(back[h]) \in Seq(BackType)
    BY <1>0, <2>1
  <2>3. Replied(Head(back[h]).n) \in OutcomeType
    BY <2>2, OutcomeTypes DEF BackType
  <2>4. back' \in [Host -> Seq(BackType)]
    BY <2>1, <2>2, OneQueue DEF StreamOK
  <2>5. BookOK' /\ TasksOK' /\ LateIsOpenWhileCounted'
    BY <2>1, <2>3, CountingStands DEF BookOK, book, TasksOK
  <2>6. WindowOK' /\ StreamOK' /\ PastOK'
    BY <2>1, <2>4 DEF WindowOK, window, StreamOK, PastOK, past, spent
  <2> QED BY <2>5, <2>6
<1>3. CASE HolderEnds(h)
  <2>1. /\ holder' = [holder EXCEPT ![h] = "closed"] /\ cmds' = [cmds EXCEPT ![h] = <<>>]
        /\ ack' \in {ack, [ack EXCEPT ![h] = Failed]}
        /\ waits' = waits \ {h} /\ eof' = [eof EXCEPT ![h] = TRUE]
        /\ UNCHANGED <<standing, leaving, inflight, late, lateQ, owed, hs, ui, lv, drawn, exit,
                       wire, back, cut, srv, count, spent, past, load>>
    BY <1>3 DEF HolderEnds
  <2>2. cmds' \in [Host -> Seq(CmdType)]
    BY <2>1, OneQueue DEF TasksOK
  <2>3. BookOK' /\ TasksOK' /\ LateIsOpenWhileCounted'
    BY <2>1, <2>2, OutcomeTypes, CountingStands DEF BookOK, TasksOK
  <2>4. WindowOK' /\ StreamOK' /\ PastOK'
    BY <2>1 DEF WindowOK, StreamOK, PastOK, past, spent
  <2> QED BY <2>3, <2>4
<1> QED BY <1>1, <1>2, <1>3

\* The steps of a frame that draws counts.
LEMMA FrameTypes ==
    ASSUME Typed, FrameDraws \/ FramePresented \/ FrameDropped
    PROVE  Typed'
<1> USE DEF Typed
<1>1. CASE FrameDraws
  BY <1>1, CountingStands
  DEF FrameDraws, BookOK, book, TasksOK, tasks, WindowOK, StreamOK, stream, PastOK, past, spent
<1>2. CASE FramePresented
  <2>1. /\ drawn' = NoFrame
        /\ shown' = [d \in Daemon |-> shown[d] \cup ({drawn[d]} \ {0})]
        /\ owed' = [d \in Daemon |-> IF owed[d] = drawn[d] THEN 0 ELSE owed[d]]
        /\ cmds' = [h \in Host |-> IF drawn[Root[h]] > 0 /\ Held(h)
                                   THEN Append(cmds[h], NoticeSeen(drawn[Root[h]])) ELSE cmds[h]]
        /\ UNCHANGED <<standing, holder, leaving, inflight, late, lateQ, hs, ack,
                       ui, lv, waits, exit, stream, spent, closed, told, load>>
    BY <1>2 DEF FramePresented
  <2>2. cmds' \in [Host -> Seq(CmdType)]
    <3>1. \A h \in Host : NoticeSeen(drawn[Root[h]]) \in CmdType
      BY CmdTypes, WindowAssumption DEF WindowOK
    <3>2. \A h \in Host : cmds[h] \in Seq(CmdType)
      BY DEF TasksOK
    <3>3. \A h \in Host : Append(cmds[h], NoticeSeen(drawn[Root[h]])) \in Seq(CmdType)
      BY <3>1, <3>2
    <3> QED BY <2>1, <3>2, <3>3
  <2>3. owed' \in [Daemon -> Counts] /\ drawn' \in [Daemon -> Counts]
    BY <2>1, WindowAssumption DEF BookOK, NoFrame, Counts
  <2>4. shown' \in [Daemon -> SUBSET Counts]
    BY <2>1 DEF PastOK, WindowOK
  <2>5. BookOK' /\ TasksOK' /\ LateIsOpenWhileCounted'
    BY <2>1, <2>2, <2>3, CountingStands DEF BookOK, TasksOK
  <2>6. WindowOK' /\ StreamOK' /\ PastOK'
    BY <2>1, <2>3, <2>4 DEF WindowOK, StreamOK, stream, PastOK, spent
  <2> QED BY <2>5, <2>6
<1>3. CASE FrameDropped
  BY <1>3, CountingStands, WindowAssumption
  DEF FrameDropped, NoFrame, Counts, BookOK, book, TasksOK, tasks, WindowOK, StreamOK, stream, PastOK, past, spent
<1> QED BY <1>1, <1>2, <1>3

\* The steps of the daemon's end of a stream.
LEMMA StreamTypes ==
    ASSUME Typed,
           \/ \E h \in Host : DaemonAnswers(h) \/ DaemonReads(h) \/ DaemonSeesEnd(h) \/ DaemonCuts(h)
           \/ \E d \in Daemon : CountGrows(d)
    PROVE  Typed'
<1> USE DEF Typed
<1>0. load[1] \in 0..MaxCount /\ 0..load[1] \subseteq Counts
  BY LoadBounds, WindowAssumption DEF Counts
<1>1. ASSUME NEW h \in Host, DaemonAnswers(h) PROVE Typed'
  <2>1. PICK s \in Standings \ {"pending"} :
           /\ back' = [back EXCEPT ![h] =
                Append(@, [op |-> s, id |-> 0, n |-> IF s = "granted" THEN count[Root[h]] ELSE 0])]
           /\ srv' = [srv EXCEPT ![h].pc = IF s = "granted" THEN "held" ELSE "none"]
    BY <1>1 DEF DaemonAnswers
  <2>2. UNCHANGED <<book, tasks, window, wire, cut, eof, count, spent, past, load>>
    BY <1>1 DEF DaemonAnswers
  <2>3. [op |-> s, id |-> 0, n |-> IF s = "granted" THEN count[Root[h]] ELSE 0] \in BackType
    BY WindowAssumption DEF BackType, Counts, StreamOK
  <2>4. back' \in [Host -> Seq(BackType)]
    <3>1. back[h] \in Seq(BackType)
      BY DEF StreamOK
    <3>2. Append(back[h], [op |-> s, id |-> 0, n |-> IF s = "granted" THEN count[Root[h]] ELSE 0])
            \in Seq(BackType)
      BY <2>3, <3>1
    <3> QED BY <2>1, <3>2, OneQueue DEF StreamOK
  <2>5. srv' \in [Host -> SrvType]
    <3>1. \A pc \in {"held", "none"} : [srv[h] EXCEPT !.pc = pc] \in SrvType
      BY DEF StreamOK, SrvType
    <3> QED BY <2>1, <3>1 DEF StreamOK
  <2>6. StreamOK'
    BY <2>2, <2>4, <2>5 DEF StreamOK
  <2> QED BY <2>2, <2>6, CountingStands DEF BookOK, book, TasksOK, tasks, WindowOK, window, PastOK, past, spent
<1>2. ASSUME NEW h \in Host, DaemonReads(h) PROVE Typed'
  <2>1. /\ wire[h] # <<>> /\ wire' = [wire EXCEPT ![h] = Tail(@)]
        /\ UNCHANGED <<book, tasks, window, cut, eof, spent, past, load>>
    BY <1>2 DEF DaemonReads
  <2>2. wire[h] \in Seq(CmdType) /\ back[h] \in Seq(BackType)
    BY DEF StreamOK
  <2>3. Head(wire[h]) \in CmdType /\ Tail(wire[h]) \in Seq(CmdType)
    BY <2>1, <2>2
  <2>4. wire' \in [Host -> Seq(CmdType)]
    BY <2>1, <2>3, OneQueue DEF StreamOK
  <2>5. CASE Head(wire[h]).op = "leave" /\
             /\ srv' = [srv EXCEPT ![h] = [pc |-> "left", heard |-> Head(wire[h]).intent]]
             /\ \E n \in 0..load[1] :
                   /\ count' = IF n > 0 THEN [count EXCEPT ![Root[h]] = n] ELSE count
                   /\ back' = [back EXCEPT ![h] = Append(@, [op |-> "left", id |-> Head(wire[h]).id, n |-> n])]
    <3>1. PICK n \in 0..load[1] :
            /\ count' = IF n > 0 THEN [count EXCEPT ![Root[h]] = n] ELSE count
            /\ back' = [back EXCEPT ![h] = Append(@, [op |-> "left", id |-> Head(wire[h]).id, n |-> n])]
      BY <2>5
    <3>2. [op |-> "left", id |-> Head(wire[h]).id, n |-> n] \in BackType
      BY <1>0, <2>3 DEF BackType, CmdType
    <3>3. Append(back[h], [op |-> "left", id |-> Head(wire[h]).id, n |-> n]) \in Seq(BackType)
      BY <2>2, <3>2
    <3>4. back' \in [Host -> Seq(BackType)]
      BY <3>1, <3>3, OneQueue DEF StreamOK
    <3>5. srv' \in [Host -> SrvType]
      BY <2>3, <2>5 DEF StreamOK, SrvType, CmdType
    <3>6. count' \in [Daemon -> Counts]
      BY <1>0, <3>1 DEF StreamOK
    <3>7. StreamOK'
      BY <2>1, <2>4, <3>4, <3>5, <3>6 DEF StreamOK
    <3> QED BY <2>1, <3>7, CountingStands DEF BookOK, book, TasksOK, tasks, WindowOK, window, PastOK, past, spent
  <2>6. CASE /\ count' = IF count[Root[h]] = Head(wire[h]).n THEN [count EXCEPT ![Root[h]] = 0] ELSE count
             /\ UNCHANGED <<srv, back>>
    <3>1. count' \in [Daemon -> Counts]
      BY <2>6, WindowAssumption DEF StreamOK, Counts
    <3>2. StreamOK'
      BY <2>1, <2>4, <2>6, <3>1 DEF StreamOK
    <3> QED BY <2>1, <3>2, CountingStands DEF BookOK, book, TasksOK, tasks, WindowOK, window, PastOK, past, spent
  <2> QED BY <1>2, <2>5, <2>6 DEF DaemonReads
<1>3. ASSUME NEW h \in Host, DaemonSeesEnd(h) \/ DaemonCuts(h) PROVE Typed'
  <2>1. /\ srv' = [srv EXCEPT ![h].pc = "none"] /\ wire' \in {wire, [wire EXCEPT ![h] = <<>>]}
        /\ cut' \in {cut, [cut EXCEPT ![h] = TRUE]}
        /\ cuts' \in {cuts, cuts + 1} /\ cuts' \in 0..MaxCuts
        /\ UNCHANGED <<book, tasks, window, back, eof, count, tries, leaves, past, load>>
    <3>1. CASE DaemonSeesEnd(h)
      BY <3>1 DEF DaemonSeesEnd, PastOK, spent
    <3>2. CASE DaemonCuts(h)
      <4>1. cuts \in 0..MaxCuts /\ cuts < MaxCuts /\ cuts' = cuts + 1
        BY <3>2 DEF DaemonCuts, PastOK
      <4>2. cuts' \in 0..MaxCuts
        BY <4>1, WindowAssumption
      <4> QED BY <3>2, <4>1, <4>2 DEF DaemonCuts
    <3> QED BY <1>3, <3>1, <3>2
  <2>2. wire' \in [Host -> Seq(CmdType)]
    <3>1. <<>> \in Seq(CmdType)
      OBVIOUS
    <3>2. [wire EXCEPT ![h] = <<>>] \in [Host -> Seq(CmdType)]
      BY <3>1, OneQueue DEF StreamOK
    <3> QED BY <2>1, <3>2 DEF StreamOK
  <2>3. srv' \in [Host -> SrvType]
    <3>1. [srv[h] EXCEPT !.pc = "none"] \in SrvType
      BY DEF StreamOK, SrvType
    <3> QED BY <2>1, <3>1 DEF StreamOK
  <2>4. StreamOK'
    BY <2>1, <2>2, <2>3 DEF StreamOK
  <2> QED BY <2>1, <2>4, CountingStands DEF BookOK, book, TasksOK, tasks, WindowOK, window, PastOK, past
<1>4. ASSUME NEW d \in Daemon, CountGrows(d) PROVE Typed'
  <2>1. count' \in [Daemon -> Counts] /\ cuts' \in 0..MaxCuts
    BY <1>0, <1>4, WindowAssumption DEF CountGrows, StreamOK, Counts, PastOK
  <2>2. UNCHANGED <<book, tasks, window, wire, back, cut, eof, srv, tries, leaves, past, load>>
    BY <1>4 DEF CountGrows
  <2> QED BY <2>1, <2>2, CountingStands DEF BookOK, book, TasksOK, tasks, WindowOK, window, StreamOK, PastOK, past
<1> QED BY <1>1, <1>2, <1>3, <1>4

\* The queues and acks a leave starts with.
LEMMA LeaveQueues ==
    ASSUME Typed, NEW i \in Intents, NEW id \in 0..MaxLeaves
    PROVE  /\ [h \in Host |-> IF Held(h) THEN Append(cmds[h], Leave(i, id)) ELSE cmds[h]]
                \in [Host -> Seq(CmdType)]
           /\ [h \in Host |-> IF Held(h) THEN Open ELSE NoAck] \in [Host -> OutcomeType]
<1>1. \A h \in Host : cmds[h] \in Seq(CmdType) /\ Append(cmds[h], Leave(i, id)) \in Seq(CmdType)
  BY CmdTypes DEF Typed, TasksOK
<1> QED BY <1>1, OutcomeTypes

\* A receipt behind each queue leaves queues (deliver_queued).
LEMMA DeliverType ==
    ASSUME NEW q \in [Host -> Seq(CmdType)], Deliver(q)
    PROVE  cmds' \in [Host -> Seq(CmdType)] /\ ui' = "delivering" /\ waits' \subseteq Host
<1>1. \A h \in Host : q[h] \in Seq(CmdType) /\ Append(q[h], Written) \in Seq(CmdType)
  BY CmdTypes
<1> QED BY <1>1 DEF Deliver

\* The book is counted afresh when a leave begins.
LEMMA LateAfresh ==
    ASSUME LateIsOpenWhileCounted, NEW i \in Intents,
           leaving' = i, late' = (inflight > 0), UNCHANGED <<inflight, hs>>
    PROVE  LateIsOpenWhileCounted'
<1>1. i # None
  BY WindowAssumption DEF Intents
<1>2. late' <=> (leaving' # None /\ inflight' > 0)
  BY <1>1, Zenon
<1> QED BY <1>2 DEF LateIsOpenWhileCounted

\* A leave that begins: the book, the queues and the wait are of their types.
LEMMA LeavesTypes ==
    ASSUME Typed, NEW i \in Intents, NEW code \in {0, Relaunch}, Leaves(i, code)
    PROVE  Typed'
<1> USE DEF Typed
<1>1. /\ leaves < load[2] /\ leaves' = leaves + 1
      /\ leaving' = i /\ late' = (inflight > 0) /\ lateQ' = {}
      /\ cmds' = [h \in Host |-> IF Held(h) THEN Append(cmds[h], Leave(i, leaves')) ELSE cmds[h]]
      /\ ack' = [h \in Host |-> IF Held(h) THEN Open ELSE NoAck]
      /\ lv' = IF HeldNow = {} /\ inflight = 0 THEN NoLeave
               ELSE [NoLeave EXCEPT !.phase = "waiting", !.intent = i, !.code = code,
                                    !.pending = HeldNow, !.late = TRUE]
  BY DEF Leaves, LeaveAll
<1>2. /\ closed' = (closed \/ i = "close")
      /\ ui' \in {ui, "ending"} /\ exit' \in {exit, code} /\ eof' \in {eof, [h \in Host |-> TRUE]}
      /\ UNCHANGED <<standing, holder, inflight, owed, hs, drawn, waits,
                     wire, back, cut, srv, count, tries, cuts, shown, told, load>>
  BY DEF Leaves, Finish
<1>3. leaves' \in 0..MaxLeaves
  BY <1>1, LoadBounds, WindowAssumption DEF PastOK
<1>4. lv' \in LeavingType
  <2>1. HeldNow \subseteq Host
    BY DEF HeldNow
  <2> QED BY <1>1, <2>1, NoLeaveType DEF LeavingType
<1>5. LateIsOpenWhileCounted'
  BY <1>1, <1>2, LateAfresh
<1>6. BookOK'
  BY <1>1, <1>2 DEF BookOK
<1>7. TasksOK'
  BY <1>1, <1>2, <1>3, LeaveQueues DEF TasksOK
<1>8. WindowOK' /\ StreamOK' /\ PastOK'
  BY <1>2, <1>3, <1>4 DEF WindowOK, StreamOK, PastOK
<1> QED BY <1>5, <1>6, <1>7, <1>8

\* Joining the settled handshakes keeps the wait's type; so does collecting.
LEMMA JoinedType ==
    ASSUME Typed
    PROVE  Joined \in LeavingType /\ Collected \in LeavingType
<1>1. lv \in LeavingType /\ lateQ \subseteq Host /\ late \in BOOLEAN
  BY DEF Typed, WindowOK, BookOK
<1>2. Joined \in LeavingType
  BY <1>1 DEF Joined, LeavingType
<1>3. [h \in Host |-> IF h \in Joined.pending /\ ack[h] # Open THEN ack[h] ELSE Joined.outcome[h]]
        \in [Host -> OutcomeType]
  BY <1>2 DEF Typed, TasksOK, LeavingType
<1>4. Collected = [Joined EXCEPT !.pending = {h \in Joined.pending : ack[h] = Open},
                     !.outcome = [h \in Host |-> IF h \in Joined.pending /\ ack[h] # Open
                                                 THEN ack[h] ELSE Joined.outcome[h]]]
  BY <1>2 DEF Collected, LeavingType
<1>5. {h \in Joined.pending : ack[h] = Open} \subseteq Host
  BY <1>2 DEF LeavingType
<1> QED BY <1>2, <1>3, <1>4, <1>5 DEF LeavingType

\* A stay ends the leave and leaves nothing counted (stay_open).
LEMMA StayTypes ==
    ASSUME Typed, StayTaken, UNCHANGED ui
    PROVE  Typed'
<1> USE DEF Typed
<1>1. /\ leaving' = None /\ late' = FALSE /\ lateQ' = {} /\ lv' = NoLeave
      /\ UNCHANGED <<standing, holder, inflight, owed, hs, cmds, ack, drawn, waits, exit,
                     stream, spent, past, load>>
  BY DEF StayTaken
<1>2. LateIsOpenWhileCounted'
  BY <1>1 DEF LateIsOpenWhileCounted
<1> QED BY <1>1, <1>2, NoLeaveType
  DEF BookOK, TasksOK, WindowOK, StreamOK, stream, PastOK, past, spent

\* The steps that ask to leave, and the end of a delivery.
LEMMA AskTypes ==
    ASSUME Typed, \/ \E r \in Reasons : AsksToLeave(r) \/ AsksAgain(r) \/ AsksNow(r)
                  \/ AsksAndStays \/ NativeClose \/ Delivered
    PROVE  Typed'
<1> USE DEF Typed
<1>1. ASSUME NEW r \in Reasons, AsksToLeave(r) PROVE Typed'
  <2>1. PICK i \in LeaveOf(r) : Leaves(i, IF r = "relaunch" THEN Relaunch ELSE 0)
    BY <1>1 DEF AsksToLeave
  <2>2. i \in Intents
    BY <1>1 DEF LeaveOf, Intents, Reasons
  <2> QED BY <2>1, <2>2, LeavesTypes
<1>2. ASSUME NEW r \in Reasons, AsksAgain(r) PROVE Typed'
  BY <1>2, LeavesTypes DEF AsksAgain, Intents
<1>3. ASSUME NEW r \in Reasons, AsksNow(r) PROVE Typed'
  <2>1. /\ closed' = TRUE /\ lv' = [lv EXCEPT !.code = 0] /\ Deliver(cmds)
        /\ UNCHANGED <<book, hs, ack, drawn, exit, stream, spent, shown, told, load>>
    BY <1>3 DEF AsksNow
  <2>2. cmds' \in [Host -> Seq(CmdType)] /\ ui' = "delivering" /\ waits' \subseteq Host
    BY <2>1, DeliverType DEF TasksOK
  <2>3. lv' \in LeavingType
    BY <2>1 DEF WindowOK, LeavingType
  <2> QED BY <2>1, <2>2, <2>3, CountingStands
    DEF BookOK, book, TasksOK, WindowOK, StreamOK, stream, PastOK, spent
<1>4. CASE AsksAndStays
  BY <1>4, StayTypes DEF AsksAndStays
<1>5. CASE NativeClose
  <2>1. /\ leaves < load[2] /\ leaves' = leaves + 1
        /\ leaving' = "close" /\ late' = (inflight > 0) /\ lateQ' = {}
        /\ Deliver([h \in Host |-> IF Held(h) THEN Append(cmds[h], Leave("close", leaves')) ELSE cmds[h]])
        /\ ack' = [h \in Host |-> IF Held(h) THEN Open ELSE NoAck]
        /\ closed' = TRUE
        /\ UNCHANGED <<standing, holder, inflight, owed, hs, lv, drawn, exit, stream,
                       tries, cuts, shown, told, load>>
    BY <1>5 DEF NativeClose
  <2>2. "close" \in Intents /\ leaves' \in 0..MaxLeaves
    BY <2>1, LoadBounds, WindowAssumption DEF PastOK, Intents
  <2>3. cmds' \in [Host -> Seq(CmdType)] /\ ui' = "delivering" /\ waits' \subseteq Host
    BY <2>1, <2>2, LeaveQueues, DeliverType
  <2>4. ack' \in [Host -> OutcomeType]
    BY <2>1, OutcomeTypes
  <2>5. LateIsOpenWhileCounted'
    BY <2>1, <2>2, LateAfresh
  <2> QED BY <2>1, <2>2, <2>3, <2>4, <2>5 DEF BookOK, TasksOK, WindowOK, StreamOK, stream, PastOK
<1>6. CASE Delivered
  BY <1>6, CountingStands
  DEF Delivered, BookOK, book, TasksOK, tasks, WindowOK, StreamOK, stream, PastOK, past, spent
<1> QED BY <1>1, <1>2, <1>3, <1>4, <1>5, <1>6

\* The steps of the poll, and the end of the process.
LEMMA PollTypes ==
    ASSUME Typed, DeadlinePasses \/ PollSteps \/ LinePresented \/ ProcessEnds
    PROVE  Typed'
<1> USE DEF Typed
<1>0. lv \in LeavingType /\ Joined \in LeavingType /\ Collected \in LeavingType
  BY JoinedType DEF WindowOK
<1>1. CASE DeadlinePasses \/ PollWaits \/ PollStays
  <2>1. lv' \in LeavingType
    BY <1>0, <1>1 DEF DeadlinePasses, PollWaits, PollStays, LeavingType
  <2>2. /\ lateQ' \in {lateQ, {}}
        /\ UNCHANGED <<standing, holder, leaving, inflight, late, owed, tasks,
                       ui, drawn, waits, exit, stream, spent, past, load>>
    BY <1>1 DEF DeadlinePasses, PollWaits, PollStays, book
  <2> QED BY <2>1, <2>2, CountingStands
    DEF BookOK, TasksOK, tasks, WindowOK, StreamOK, stream, PastOK, past, spent
<1>2. CASE Stays
  <2>1. CASE StayTaken
    BY <1>2, <2>1, StayTypes DEF Stays
  <2>2. CASE ~StayTaken
    <3>1. /\ lv' = [Joined EXCEPT !.phase = "waiting"] /\ lateQ' = {}
          /\ UNCHANGED <<standing, holder, leaving, inflight, late, owed, tasks,
                         drawn, waits, exit, stream, spent, past, load>>
          /\ UNCHANGED ui
      BY <1>2, <2>2 DEF Stays
    <3>2. lv' \in LeavingType
      BY <1>0, <3>1 DEF LeavingType
    <3> QED BY <3>1, <3>2, CountingStands
      DEF BookOK, TasksOK, tasks, WindowOK, StreamOK, stream, PastOK, past, spent
  <2> QED BY <2>1, <2>2
<1>3. CASE PollShows \/ PollExits \/ LineEnds
  <2>1. Final(Collected) \in LeavingType
    <3>1. Unconfirmed(Collected) \in BOOLEAN
      BY <1>0 DEF Unconfirmed, LeavingType
    <3>2. [h \in Host |-> IF h \in Collected.pending THEN TimedOut ELSE Collected.outcome[h]]
            \in [Host -> OutcomeType]
      BY <1>0, OutcomeTypes DEF LeavingType
    <3>3. Final(Collected) = [Collected EXCEPT !.pending = {}, !.late = FALSE, !.warned = Unconfirmed(Collected),
                                !.outcome = [h \in Host |-> IF h \in Collected.pending
                                                            THEN TimedOut ELSE Collected.outcome[h]]]
      BY <1>0 DEF Final, LeavingType
    <3> QED BY <1>0, <3>1, <3>2, <3>3 DEF LeavingType
  <2>2. Acked(Collected) \subseteq Host
    BY DEF Acked
  <2>3. lv' \in LeavingType
    <3>1. CASE lv' = [Final(Collected) EXCEPT !.phase = "shown", !.acks = Acked(Collected)]
      BY <2>1, <2>2, <3>1 DEF LeavingType
    <3>2. CASE lv' = Final(Collected) \/ lv' = lv
      BY <1>0, <2>1, <3>2
    <3> QED BY <1>3, <3>1, <3>2 DEF PollShows, PollExits, LineEnds
  <2>4. lv.code \in {0, Relaunch}
    BY <1>0 DEF LeavingType
  <2>5. /\ ui' \in {ui, "ending"} /\ exit' \in {exit, lv.code} /\ eof' \in {eof, [h \in Host |-> TRUE]}
        /\ lateQ' \in {lateQ, {}}
        /\ UNCHANGED <<standing, holder, leaving, inflight, late, owed, tasks, drawn, waits,
                       wire, back, cut, srv, count, spent, past, load>>
    BY <1>3 DEF PollShows, PollExits, LineEnds, Finish, book, stream
  <2>6. BookOK' /\ TasksOK' /\ PastOK'
    BY <2>5 DEF BookOK, TasksOK, tasks, PastOK, past, spent
  <2>7. StreamOK'
    BY <2>5 DEF StreamOK
  <2>8. WindowOK'
    BY <2>3, <2>4, <2>5 DEF WindowOK
  <2>9. LateIsOpenWhileCounted'
    BY <2>5, CountingStands DEF tasks
  <2> QED BY <2>6, <2>7, <2>8, <2>9
<1>4. CASE LinePresented
  <2>1. /\ lv' = [lv EXCEPT !.phase = "held", !.acks = {}]
        /\ cmds' = [h \in Host |-> IF h \in lv.acks /\ Held(h)
                                   THEN Append(cmds[h], NoticeSeen(lv.outcome[h].n)) ELSE cmds[h]]
        /\ shown' = [d \in Daemon |-> shown[d] \cup {lv.outcome[h].n : h \in {k \in lv.acks : Root[k] = d}}]
        /\ UNCHANGED <<book, hs, ack, ui, drawn, waits, exit, stream, spent, closed, told, load>>
    BY <1>4 DEF LinePresented
  <2>2. lv.acks \subseteq Host /\ \A h \in Host : lv.outcome[h].n \in Counts
    BY <1>0 DEF LeavingType, OutcomeType
  <2>3. cmds' \in [Host -> Seq(CmdType)]
    <3>1. \A h \in Host : cmds[h] \in Seq(CmdType) /\ NoticeSeen(lv.outcome[h].n) \in CmdType
      BY <2>2, CmdTypes DEF TasksOK
    <3>2. \A h \in Host : Append(cmds[h], NoticeSeen(lv.outcome[h].n)) \in Seq(CmdType)
      BY <3>1
    <3> QED BY <2>1, <3>1, <3>2
  <2>4. shown' \in [Daemon -> SUBSET Counts]
    BY <2>1, <2>2 DEF PastOK
  <2>5. lv' \in LeavingType
    BY <1>0, <2>1 DEF LeavingType
  <2> QED BY <2>1, <2>3, <2>4, <2>5, CountingStands
    DEF BookOK, book, TasksOK, WindowOK, StreamOK, stream, PastOK, spent
<1>5. CASE ProcessEnds
  BY <1>5, CountingStands
  DEF ProcessEnds, BookOK, book, TasksOK, tasks, WindowOK, StreamOK, PastOK, past, spent
<1> QED BY <1>1, <1>2, <1>3, <1>4, <1>5 DEF PollSteps

\* Nothing the types read changes.
LEMMA StutterTypes ==
    ASSUME Typed, UNCHANGED vars
    PROVE  Typed'
BY CountingStands
DEF Typed, vars, BookOK, book, TasksOK, tasks, WindowOK, window, StreamOK, stream, PastOK, past, spent

LEMMA InitTypes == Init => Typed
<1> SUFFICES ASSUME Init PROVE Typed
  OBVIOUS
<1>0. 0 \in Counts /\ <<>> \in Seq(CmdType) /\ <<>> \in Seq(BackType)
  BY WindowAssumption DEF Counts
<1>1. BookOK /\ TasksOK
  <2>1. BookOK
    BY <1>0 DEF Init, BookOK, Standings
  <2>2. TasksOK
    BY <1>0, OutcomeTypes DEF Init, TasksOK, HsType
  <2> QED BY <2>1, <2>2
<1>2. WindowOK
  BY NoLeaveType, WindowAssumption DEF Init, WindowOK, NoFrame, Counts
<1>3. PastOK
  <2>1. tries \in 0..MaxTries /\ leaves \in 0..MaxLeaves /\ cuts \in 0..MaxCuts
    BY WindowAssumption DEF Init
  <2>2. closed \in BOOLEAN /\ told \in [Host -> Counts] /\ load \in Loads
    BY <1>0 DEF Init
  <2>3. shown \in [Daemon -> SUBSET Counts]
    <3>1. shown = [d \in Daemon |-> {}] /\ {} \in SUBSET Counts
      BY DEF Init
    <3> QED BY <3>1, Zenon
  <2> QED BY <2>1, <2>2, <2>3 DEF PastOK
<1>4. StreamOK
  <2>1. 0..load[1] \subseteq Counts
    BY <1>3, LoadBounds, WindowAssumption DEF Counts
  <2> QED BY <1>0, <2>1 DEF Init, StreamOK, SrvType, NoSrv
<1>5. LateIsOpenWhileCounted
  <2>1. Flying(hs) = {}
    BY DEF Init, Flying
  <2>2. Cardinality(Flying(hs)) = 0
    BY <2>1, FS_EmptySet
  <2> QED BY <2>2, Counting DEF Init
<1> QED BY <1>1, <1>2, <1>3, <1>4, <1>5 DEF Typed

LEMMA NextTypes == Typed /\ [Next]_vars => Typed'
<1> SUFFICES ASSUME Typed, [Next]_vars PROVE Typed'
  OBVIOUS
<1> QED BY HandshakeTypes, HolderTypes, FrameTypes, StreamTypes, AskTypes, PollTypes, StutterTypes
        DEF Next, PollSteps

LEMMA TypesInvariant == Spec => []Typed
BY InitTypes, NextTypes, PTL DEF Spec

\* The book, the tasks, the UI thread and the streams are well typed: an ack
\* is always of a leave of this window, a wait's hosts are dialled hosts.
THEOREM WindowTypesHold == Spec => []TypeOK
<1>1. Typed => TypeOK
  BY TypeParts DEF Typed
<1> QED BY <1>1, TypesInvariant, PTL

\* The channel for late handshakes is open exactly while a leave waits on one
\* it counted (Book::late, Book::count_down).
THEOREM LateChannelIsCounted == Spec => []LateIsOpenWhileCounted
<1>1. Typed => LateIsOpenWhileCounted
  BY DEF Typed
<1> QED BY <1>1, TypesInvariant, PTL

(***************************************************************************)
(* The leave and the way it ends.                                          *)
(*                                                                         *)
(* KeepDropsNoRequest and CloseExitsZero are not inductive: they speak of  *)
(* the ended process.  LeaveInv says what the way there keeps: the wait is *)
(* the book's leave, a wait that no longer looks for late handshakes has   *)
(* none, no Keep or Handover comes to its end while one is in flight, and  *)
(* a close has taken the code and cannot be stayed.                        *)
(***************************************************************************)

Waiting  == lv.phase \in {"waiting", "staying"}
AtItsEnd == exit # None \/ ui # "free" \/ lv.phase \in {"shown", "held"}

WaitIsTheLeave ==
    /\ lv.phase # "none" => leaving = lv.intent /\ leaving # None
    /\ lv.phase = "none" => lv = NoLeave
WaitSeesLate == Waiting /\ ~lv.late => ~late
EndsUnasked  == AtItsEnd /\ leaving \in {"keep", "handover"} => inflight = 0
CloseWins ==
    /\ closed => lv.code = 0 /\ (leaving = "close" \/ ui # "free")
    /\ closed /\ exit # None => exit = 0
LeaveInv == WaitIsTheLeave /\ WaitSeesLate /\ EndsUnasked /\ CloseWins

\* What joining, collecting and the report leave of a wait.
LEMMA JoinedFields ==
    ASSUME Typed
    PROVE  /\ \A l \in {Joined, Collected} : l.late <=> (lv.late /\ late)
           /\ \A l \in {Joined, Collected, Final(Collected)} :
                 l.phase = lv.phase /\ l.intent = lv.intent /\ l.code = lv.code
<1>1. lv \in LeavingType /\ Joined \in LeavingType /\ Collected \in LeavingType /\ late \in BOOLEAN
  BY JoinedType DEF Typed, WindowOK, BookOK
<1>2. /\ Joined.phase = lv.phase /\ Joined.intent = lv.intent /\ Joined.code = lv.code
      /\ Joined.late <=> (lv.late /\ late)
  BY <1>1 DEF Joined, LeavingType
<1>3. /\ Collected.phase = lv.phase /\ Collected.intent = lv.intent /\ Collected.code = lv.code
      /\ Collected.late <=> (lv.late /\ late)
  BY <1>1, <1>2 DEF Collected, LeavingType
<1>4. Final(Collected).phase = lv.phase /\ Final(Collected).intent = lv.intent
      /\ Final(Collected).code = lv.code
  BY <1>1, <1>3 DEF Final, LeavingType
<1> QED BY <1>2, <1>3, <1>4

\* No handshake is in flight when the late channel is closed under a leave.
LEMMA NoLateNoneFlies ==
    ASSUME Typed, leaving # None, ~late
    PROVE  inflight = 0
<1>1. ~(inflight > 0)
  BY Counting, Zenon DEF Typed
<1> QED BY <1>1 DEF Typed, BookOK

\* A wait that need not stay has no handshake in flight, or is a close's.
LEMMA NoStayNoRequest ==
    ASSUME Typed, LeaveInv, Waiting, NEW l \in {Joined, Collected}, ~MustStay(l)
    PROVE  leaving = "close" \/ inflight = 0
<1>1. lv.phase # "none" /\ leaving = lv.intent /\ leaving # None /\ (~lv.late => ~late)
  BY DEF Waiting, LeaveInv, WaitIsTheLeave, WaitSeesLate
<1>2. l.intent = lv.intent /\ (l.late <=> (lv.late /\ late))
  BY JoinedFields
<1>3. lv.intent = "close" \/ ~late
  BY <1>1, <1>2, Zenon DEF MustStay
<1> QED BY <1>1, <1>3, NoLateNoneFlies

\* Steps that touch neither the wait nor the end keep what they rest on.
LEMMA LeaveStands ==
    ASSUME LeaveInv, UNCHANGED <<lv, leaving, ui, exit, closed>>,
           late' => late, leaving # None /\ inflight = 0 => inflight' = 0
    PROVE  LeaveInv'
<1>1. WaitIsTheLeave' /\ CloseWins'
  BY DEF LeaveInv, WaitIsTheLeave, CloseWins
<1>2. WaitSeesLate'
  BY DEF LeaveInv, WaitSeesLate, Waiting
<1>3. EndsUnasked'
  BY WindowAssumption DEF LeaveInv, EndsUnasked, AtItsEnd
<1> QED BY <1>1, <1>2, <1>3 DEF LeaveInv

\* A handshake that settles or is dropped was counted.
LEMMA CountedDown ==
    ASSUME Typed, NEW h \in Host, hs[h] # "none", CountDown(h)
    PROVE  (late' => late) /\ inflight # 0
<1>1. inflight = Cardinality(Flying(hs)) /\ late' = (late /\ inflight > 1)
  BY Counting DEF Typed, CountDown
<1>2. inflight # 0
  BY <1>1, NoneFlies
<1>3. late' => late
  BY <1>1, Zenon
<1> QED BY <1>2, <1>3

\* The handshakes, the holders, the frames and the daemons touch no leave.
LEMMA LeaveByOthers ==
    ASSUME Typed, LeaveInv,
           \/ \E h \in Host : Begin(h) \/ Send(h) \/ AskFails(h) \/ ReadGrant(h) \/ ReadRefusal(h) \/ Cancel(h)
           \/ \E h \in Host : HolderTakes(h) \/ HolderReads(h) \/ HolderEnds(h)
           \/ FrameDraws \/ FramePresented \/ FrameDropped
           \/ \E h \in Host : DaemonAnswers(h) \/ DaemonReads(h) \/ DaemonSeesEnd(h) \/ DaemonCuts(h)
           \/ \E d \in Daemon : CountGrows(d)
           \/ UNCHANGED vars
    PROVE  LeaveInv'
<1>1. ASSUME NEW h \in Host, Begin(h) PROVE LeaveInv'
  BY <1>1, LeaveStands DEF Begin, window, past
<1>2. ASSUME NEW h \in Host, Send(h) PROVE LeaveInv'
  BY <1>2, LeaveStands DEF Send, book, window, past
<1>3. ASSUME NEW h \in Host, AskFails(h) \/ ReadGrant(h) \/ ReadRefusal(h) \/ Cancel(h) PROVE LeaveInv'
  <2>1. hs[h] # "none" /\ UNCHANGED <<window, closed>>
    BY <1>3 DEF AskFails, ReadGrant, ReadRefusal, Cancel, past
  <2>2. CountDown(h) /\ UNCHANGED leaving
    BY <1>3 DEF AskFails, ReadGrant, ReadRefusal, Cancel, Settle
  <2> QED BY <2>1, <2>2, CountedDown, LeaveStands DEF window
<1>4. ASSUME NEW h \in Host, HolderTakes(h) \/ HolderReads(h) \/ HolderEnds(h) PROVE LeaveInv'
  BY <1>4, LeaveStands DEF HolderTakes, HolderReads, HolderEnds, book, window, past
<1>5. CASE FrameDraws \/ FramePresented \/ FrameDropped
  BY <1>5, LeaveStands DEF FrameDraws, FramePresented, FrameDropped, book, past
<1>6. ASSUME NEW h \in Host, DaemonAnswers(h) \/ DaemonReads(h) \/ DaemonSeesEnd(h) \/ DaemonCuts(h)
      PROVE  LeaveInv'
  BY <1>6, LeaveStands DEF DaemonAnswers, DaemonReads, DaemonSeesEnd, DaemonCuts, book, window, past
<1>7. ASSUME NEW d \in Daemon, CountGrows(d) PROVE LeaveInv'
  BY <1>7, LeaveStands DEF CountGrows, book, window, past
<1>8. CASE UNCHANGED vars
  BY <1>8, LeaveStands DEF vars, book, window, past
<1> QED BY <1>1, <1>2, <1>3, <1>4, <1>5, <1>6, <1>7, <1>8

\* A leave that begins from a window that is not yet at its end.
LEMMA LeaveByLeaves ==
    ASSUME Typed, LeaveInv, NEW i \in Intents, NEW code \in {0, Relaunch}, Leaves(i, code),
           Running, ui = "free", closed => code = 0, i = "close" => code = 0,
           closed => i = "close"
    PROVE  LeaveInv'
<1>1. /\ leaving' = i /\ late' = (inflight > 0) /\ i # None
      /\ lv' = IF HeldNow = {} /\ inflight = 0 THEN NoLeave
               ELSE [NoLeave EXCEPT !.phase = "waiting", !.intent = i, !.code = code,
                                    !.pending = HeldNow, !.late = TRUE]
      /\ closed' = (closed \/ i = "close") /\ UNCHANGED inflight
      /\ IF lv' = NoLeave THEN Finish(code) ELSE UNCHANGED <<ui, exit, eof>>
  BY WindowAssumption DEF Leaves, LeaveAll, Intents
<1>2. NoLeave.phase = "none" /\ NoLeave.code = 0
  BY DEF NoLeave
<1>3. CASE HeldNow = {} /\ inflight = 0
  <2>1. lv' = NoLeave /\ inflight' = 0
    BY <1>1, <1>3
  <2>2. ui' = "ending" /\ exit' = IF code = 0 THEN exit ELSE code
    BY <1>1, <2>1 DEF Finish
  <2>3. closed' => code = 0
    BY <1>1
  <2>4. WaitIsTheLeave' /\ WaitSeesLate' /\ EndsUnasked'
    BY <1>2, <2>1 DEF WaitIsTheLeave, WaitSeesLate, Waiting, EndsUnasked
  <2>5. CloseWins'
    BY <1>2, <2>1, <2>2, <2>3 DEF CloseWins, Running
  <2> QED BY <2>4, <2>5 DEF LeaveInv
<1>4. CASE ~(HeldNow = {} /\ inflight = 0)
  <2>1. lv'.phase = "waiting" /\ lv'.intent = i /\ lv'.code = code /\ lv'.late = TRUE
    BY <1>1, <1>4 DEF NoLeave
  <2>2. UNCHANGED <<ui, exit>>
    BY <1>1, <1>2, <2>1
  <2>3. WaitIsTheLeave' /\ WaitSeesLate'
    BY <1>1, <2>1 DEF WaitIsTheLeave, WaitSeesLate, Waiting
  <2>4. EndsUnasked'
    BY <2>1, <2>2 DEF EndsUnasked, AtItsEnd, Running
  <2>5. CloseWins'
    BY <1>1, <2>1, <2>2 DEF CloseWins, Running
  <2> QED BY <2>3, <2>4, <2>5 DEF LeaveInv
<1> QED BY <1>3, <1>4

\* A stay ends a Keep's or a Handover's leave, never a close's.
LEMMA LeaveByStay ==
    ASSUME Typed, LeaveInv, StayTaken, UNCHANGED ui
    PROVE  LeaveInv'
<1>1. /\ leaving' = None /\ late' = FALSE /\ lv' = NoLeave
      /\ UNCHANGED <<exit, closed, inflight>> /\ MustStay(Joined)
  BY DEF StayTaken, past
<1>2. NoLeave.phase = "none" /\ NoLeave.code = 0 /\ NoLeave.late = FALSE
  BY DEF NoLeave
<1>3. lv.late /\ lv.intent # "close"
  BY <1>1, JoinedFields DEF MustStay
<1>4. leaving = lv.intent
  BY <1>2, <1>3 DEF LeaveInv, WaitIsTheLeave
<1>5. closed => ui # "free"
  BY <1>3, <1>4 DEF LeaveInv, CloseWins
<1>6. WaitIsTheLeave' /\ WaitSeesLate' /\ CloseWins'
  BY <1>1, <1>2, <1>5 DEF LeaveInv, WaitIsTheLeave, WaitSeesLate, Waiting, CloseWins
<1>7. EndsUnasked'
  BY <1>1, WindowAssumption DEF EndsUnasked
<1> QED BY <1>6, <1>7 DEF LeaveInv

\* The steps that ask to leave.
LEMMA LeaveByAsking ==
    ASSUME Typed, LeaveInv,
           \/ \E r \in Reasons : AsksToLeave(r) \/ AsksAgain(r) \/ AsksNow(r)
           \/ AsksAndStays \/ NativeClose \/ Delivered
    PROVE  LeaveInv'
<1>0. lv.intent \in Intents \cup {None} /\ lv.phase \in {"none", "waiting", "staying", "shown", "held"}
  BY DEF Typed, WindowOK, LeavingType
<1>1. ASSUME NEW r \in Reasons, AsksToLeave(r) PROVE LeaveInv'
  <2>1. PICK i \in LeaveOf(r) : Leaves(i, IF r = "relaunch" THEN Relaunch ELSE 0)
    BY <1>1 DEF AsksToLeave
  <2>2. i \in Intents /\ (i = "close" => r # "relaunch")
    BY <1>1 DEF LeaveOf, Intents, Reasons
  <2>3. Running /\ ui = "free" /\ leaving = None
    BY <1>1 DEF AsksToLeave, UiFree
  <2>4. ~closed
    BY <2>3, WindowAssumption DEF LeaveInv, CloseWins
  <2> QED BY <2>1, <2>2, <2>3, <2>4, LeaveByLeaves
<1>2. ASSUME NEW r \in Reasons, AsksAgain(r) PROVE LeaveInv'
  <2>1. Running /\ ui = "free" /\ Leaves("close", 0)
    BY <1>2 DEF AsksAgain, UiFree
  <2> QED BY <2>1, LeaveByLeaves DEF Intents
<1>3. ASSUME NEW r \in Reasons, AsksNow(r) PROVE LeaveInv'
  <2>1. /\ Running /\ ui = "free" /\ lv.phase # "staying"
        /\ ExitIntent(r, lv.intent) = "now" /\ (r = "quit" => ~MustStay(Joined))
        /\ closed' = TRUE /\ lv' = [lv EXCEPT !.code = 0] /\ ui' = "delivering"
        /\ UNCHANGED <<leaving, inflight, late, exit>>
    BY <1>3 DEF AsksNow, UiFree, Deliver, book
  <2>2. lv.intent # None /\ (lv.intent = "close" \/ r = "quit")
    BY <1>0, <2>1 DEF ExitIntent, Intents, Reasons
  <2>3. lv.phase # "none" /\ leaving = lv.intent /\ leaving # None
    BY <2>2 DEF LeaveInv, WaitIsTheLeave, NoLeave
  <2>4. leaving = "close" \/ inflight = 0
    <3>1. CASE lv.intent = "close"
      BY <2>3, <3>1
    <3>2. CASE lv.phase = "waiting" /\ r = "quit"
      BY <2>1, <3>2, NoStayNoRequest DEF Waiting
    <3>3. CASE lv.phase \in {"shown", "held"} /\ lv.intent # "close"
      BY <1>0, <2>2, <2>3, <3>3 DEF LeaveInv, EndsUnasked, AtItsEnd, Intents
    <3> QED BY <1>0, <2>1, <2>2, <2>3, <3>1, <3>2, <3>3
  <2>5. lv'.phase = lv.phase /\ lv'.intent = lv.intent /\ lv'.late = lv.late /\ lv'.code = 0
    BY <2>1 DEF Typed, WindowOK, LeavingType
  <2>6. WaitIsTheLeave' /\ WaitSeesLate'
    BY <2>1, <2>3, <2>5 DEF LeaveInv, WaitIsTheLeave, WaitSeesLate, Waiting
  <2>7. EndsUnasked' /\ CloseWins'
    BY <2>1, <2>4, <2>5 DEF EndsUnasked, CloseWins, Running
  <2> QED BY <2>6, <2>7 DEF LeaveInv
<1>4. CASE AsksAndStays
  BY <1>4, LeaveByStay DEF AsksAndStays
<1>5. CASE NativeClose
  <2>1. /\ Running /\ leaving = None /\ leaving' = "close" /\ ui' = "delivering" /\ closed' = TRUE
        /\ UNCHANGED <<lv, exit>>
    BY <1>5 DEF NativeClose, UiFree, Deliver
  <2>2. lv = NoLeave
    BY <2>1 DEF LeaveInv, WaitIsTheLeave
  <2>3. NoLeave.phase = "none" /\ NoLeave.code = 0
    BY DEF NoLeave
  <2>4. WaitIsTheLeave' /\ WaitSeesLate' /\ EndsUnasked' /\ CloseWins'
    BY <2>1, <2>2, <2>3
    DEF WaitIsTheLeave, WaitSeesLate, Waiting, EndsUnasked, CloseWins, Running
  <2> QED BY <2>4 DEF LeaveInv
<1>6. CASE Delivered
  <2>1. /\ ui = "delivering" /\ ui' \in {"delivered", "ending"}
        /\ UNCHANGED <<lv, leaving, inflight, late, exit, closed>>
    BY <1>6 DEF Delivered, book, past
  <2>2. WaitIsTheLeave' /\ WaitSeesLate' /\ EndsUnasked' /\ CloseWins'
    BY <2>1
    DEF LeaveInv, WaitIsTheLeave, WaitSeesLate, Waiting, EndsUnasked, AtItsEnd, CloseWins
  <2> QED BY <2>2 DEF LeaveInv
<1> QED BY <1>1, <1>2, <1>3, <1>4, <1>5, <1>6

\* The steps of the poll, and the end of the process.
LEMMA LeaveByPoll ==
    ASSUME Typed, LeaveInv, DeadlinePasses \/ PollSteps \/ LinePresented \/ ProcessEnds
    PROVE  LeaveInv'
<1>0. /\ lv \in LeavingType /\ Joined \in LeavingType /\ Collected \in LeavingType
      /\ NoLeave.phase = "none"
  BY JoinedType DEF Typed, WindowOK, NoLeave
<1>1. CASE DeadlinePasses \/ LinePresented
  <2>1. /\ lv'.phase = IF LinePresented THEN "held" ELSE lv.phase
        /\ lv.phase \in {"waiting", "shown"}
        /\ LinePresented => lv.phase = "shown"
        /\ lv'.intent = lv.intent /\ lv'.late = lv.late /\ lv'.code = lv.code
        /\ UNCHANGED <<leaving, inflight, late, ui, exit, closed>>
    BY <1>0, <1>1 DEF DeadlinePasses, LinePresented, LeavingType, book, past
  <2>2. WaitIsTheLeave' /\ WaitSeesLate' /\ EndsUnasked' /\ CloseWins'
    BY <2>1
    DEF LeaveInv, WaitIsTheLeave, WaitSeesLate, Waiting, EndsUnasked, AtItsEnd, CloseWins
  <2> QED BY <2>2 DEF LeaveInv
<1>2. ASSUME lv.phase \in {"waiting", "staying"}, lv'.phase \in {"waiting", "staying"},
             lv'.intent = lv.intent, lv'.code = lv.code, lv'.late <=> (lv.late /\ late),
             UNCHANGED <<leaving, inflight, late, ui, exit, closed>>
      PROVE  LeaveInv'
  <2>1. WaitIsTheLeave' /\ EndsUnasked' /\ CloseWins'
    BY <1>2 DEF LeaveInv, WaitIsTheLeave, EndsUnasked, AtItsEnd, CloseWins
  <2>2. WaitSeesLate'
    BY <1>2 DEF LeaveInv, WaitSeesLate, Waiting
  <2> QED BY <2>1, <2>2 DEF LeaveInv
<1>3. CASE PollWaits \/ PollStays
  <2>1. /\ lv.phase = "waiting" /\ lv' \in {Collected, [Collected EXCEPT !.phase = "staying"]}
        /\ UNCHANGED <<leaving, inflight, late, ui, exit, closed>>
    BY <1>3 DEF PollWaits, PollStays, past
  <2>2. /\ lv'.phase \in {"waiting", "staying"} /\ lv'.intent = Collected.intent
        /\ lv'.code = Collected.code /\ (lv'.late <=> Collected.late)
    BY <1>0, <2>1, JoinedFields DEF LeavingType
  <2> QED BY <1>2, <2>1, <2>2, JoinedFields
<1>4. CASE Stays
  <2>1. CASE StayTaken
    BY <1>4, <2>1, LeaveByStay DEF Stays
  <2>2. CASE ~StayTaken
    <3>1. /\ lv.phase = "staying" /\ lv' = [Joined EXCEPT !.phase = "waiting"]
          /\ UNCHANGED <<leaving, inflight, late, ui, exit, closed>>
      BY <1>4, <2>2 DEF Stays, past
    <3>2. /\ lv'.phase = "waiting" /\ lv'.intent = Joined.intent
          /\ lv'.code = Joined.code /\ (lv'.late <=> Joined.late)
      BY <1>0, <3>1 DEF LeavingType
    <3> QED BY <1>2, <3>1, <3>2, JoinedFields
  <2> QED BY <2>1, <2>2
<1>5. CASE PollShows \/ PollExits
  <2>1. /\ lv.phase = "waiting" /\ ~MustStay(Collected)
        /\ UNCHANGED <<leaving, inflight, late, closed>>
    BY <1>5 DEF PollShows, PollExits, Reports, past
  <2>2. leaving = "close" \/ inflight = 0
    BY <2>1, NoStayNoRequest DEF Waiting
  <2>8. \A l \in LeavingType :
            /\ Final(l).late = FALSE
            /\ [Final(l) EXCEPT !.phase = "shown", !.acks = Acked(l)].late = FALSE
            /\ [Final(l) EXCEPT !.phase = "shown", !.acks = Acked(l)].phase = "shown"
            /\ [Final(l) EXCEPT !.phase = "shown", !.acks = Acked(l)].intent = Final(l).intent
            /\ [Final(l) EXCEPT !.phase = "shown", !.acks = Acked(l)].code = Final(l).code
    BY DEF Final, LeavingType
  <2>3. lv'.intent = lv.intent /\ lv'.code = lv.code /\ lv'.phase \in {"shown", "waiting"} /\ ~lv'.late
    BY <1>0, <1>5, <2>1, <2>8, JoinedFields DEF PollShows, PollExits
  <2>4. /\ Running /\ exit' \in {exit, lv.code} /\ (ui' # ui => ui' = "ending")
    BY <1>5 DEF PollShows, PollExits, Reports, Polls, Finish
  <2>5. WaitIsTheLeave' /\ EndsUnasked'
    BY <2>1, <2>2, <2>3 DEF LeaveInv, WaitIsTheLeave, EndsUnasked
  <2>6. CloseWins'
    BY <2>1, <2>3, <2>4 DEF LeaveInv, CloseWins, Running
  <2>7. WaitSeesLate'
    <3>1. CASE PollShows
      <4>1. lv'.phase = "shown"
        BY <1>0, <3>1, <2>8 DEF PollShows
      <4> QED BY <4>1 DEF WaitSeesLate, Waiting
    <3>2. CASE PollExits
      <4>1. ~Collected.late
        BY <2>1, <3>2 DEF PollExits, HasLine, Unconfirmed, MustStay
      <4>2. lv.late /\ late <=> Collected.late
        BY JoinedFields
      <4>3. ~lv.late => ~late
        BY <2>1 DEF LeaveInv, WaitSeesLate, Waiting
      <4> QED BY <2>1, <4>1, <4>2, <4>3 DEF WaitSeesLate
    <3> QED BY <1>5, <3>1, <3>2
  <2> QED BY <2>5, <2>6, <2>7 DEF LeaveInv
<1>6. CASE LineEnds
  <2>1. /\ Running /\ lv.phase \in {"shown", "held"} /\ exit' \in {exit, lv.code}
        /\ UNCHANGED <<lv, leaving, inflight, late, closed>>
    BY <1>6 DEF LineEnds, Polls, Finish, book, past
  <2>2. WaitIsTheLeave' /\ WaitSeesLate' /\ EndsUnasked'
    BY <2>1 DEF LeaveInv, WaitIsTheLeave, WaitSeesLate, Waiting, EndsUnasked, AtItsEnd
  <2>3. CloseWins'
    <3>1. ui' = "ending"
      BY <1>6 DEF LineEnds, Finish
    <3> QED BY <2>1, <3>1 DEF LeaveInv, CloseWins, Running
  <2> QED BY <2>2, <2>3 DEF LeaveInv
<1>7. CASE ProcessEnds
  <2>1. ui # "free" /\ exit' = 0 /\ UNCHANGED <<lv, leaving, inflight, late, ui, closed>>
    BY <1>7 DEF ProcessEnds, book, past
  <2>2. WaitIsTheLeave' /\ WaitSeesLate' /\ EndsUnasked' /\ CloseWins'
    BY <2>1 DEF LeaveInv, WaitIsTheLeave, WaitSeesLate, Waiting, EndsUnasked, AtItsEnd, CloseWins
  <2> QED BY <2>2 DEF LeaveInv
<1> QED BY <1>1, <1>3, <1>4, <1>5, <1>6, <1>7 DEF PollSteps

LEMMA InitLeaves == Init => LeaveInv
BY WindowAssumption
DEF Init, NoLeave, LeaveInv, WaitIsTheLeave, WaitSeesLate, Waiting, EndsUnasked, CloseWins

LEMMA NextLeaves == Typed /\ LeaveInv /\ [Next]_vars => LeaveInv'
<1> SUFFICES ASSUME Typed, LeaveInv, [Next]_vars PROVE LeaveInv'
  OBVIOUS
<1> QED BY LeaveByOthers, LeaveByAsking, LeaveByPoll DEF Next, PollSteps

LEMMA LeaveInvariant == Spec => []LeaveInv
BY TypesInvariant, InitLeaves, NextLeaves, PTL DEF Spec

\* A Keep or a Handover never ends the window while a lease request is
\* unanswered, however many hosts ask and whatever supersedes it (must_stay).
THEOREM NoKeepDropsARequest == Spec => []KeepDropsNoRequest
<1>1. Typed /\ LeaveInv => KeepDropsNoRequest
  <2> SUFFICES ASSUME Typed, LeaveInv, exit # None, leaving \in {"keep", "handover"}
               PROVE  \A h \in Host : hs[h] = "none"
    BY DEF KeepDropsNoRequest
  <2>1. Cardinality(Flying(hs)) = 0
    BY Counting DEF Typed, LeaveInv, EndsUnasked, AtItsEnd
  <2> QED BY <2>1, NoneFlies
<1> QED BY <1>1, TypesInvariant, LeaveInvariant, PTL

\* No restart code outlives a close, on any path to the end (close_now).
THEOREM NoRestartOutlivesAClose == Spec => []CloseExitsZero
<1>1. LeaveInv => CloseExitsZero
  BY DEF LeaveInv, CloseWins, CloseExitsZero
<1> QED BY <1>1, LeaveInvariant, PTL

(***************************************************************************)
(* What the queues carry.                                                  *)
(***************************************************************************)

Has(q, op)      == \E i \in 1..Len(q) : q[i].op = op
AllShown(q, S)  == \A i \in 1..Len(q) : q[i].op = "seen" => q[i].n \in S
Sealed(q)       == \A j \in 1..Len(q) : q[j].op = "written" => \A i \in 1..Len(q) : i > j => q[i].op # "leave"

\* Appending to a queue, and taking its head.
LEMMA AppendReads ==
    ASSUME NEW q \in Seq(CmdType), NEW e \in CmdType
    PROVE  /\ \A op : Has(Append(q, e), op) <=> Has(q, op) \/ e.op = op
           /\ \A S : AllShown(q, S) /\ (e.op = "seen" => e.n \in S) => AllShown(Append(q, e), S)
           /\ ~Has(q, "written") => Sealed(Append(q, e))
<1>1. /\ Len(Append(q, e)) = Len(q) + 1 /\ Append(q, e)[Len(q) + 1] = e /\ Len(q) \in Nat
      /\ \A i \in 1..Len(q) : Append(q, e)[i] = q[i]
  OBVIOUS
<1>2. 1..(Len(q) + 1) = (1..Len(q)) \cup {Len(q) + 1}
  BY <1>1
<1> DEFINE a == Append(q, e)
<1>3. /\ Len(a) = Len(q) + 1 /\ a[Len(q) + 1] = e /\ Len(q) \in Nat
      /\ \A i \in 1..Len(q) : a[i] = q[i]
  BY <1>1
<1> HIDE DEF a
<1>4. \A op : Has(a, op) <=> Has(q, op) \/ e.op = op
  BY <1>2, <1>3 DEF Has
<1>5. \A S : AllShown(q, S) /\ (e.op = "seen" => e.n \in S) => AllShown(a, S)
  BY <1>2, <1>3 DEF AllShown
<1>6. ~Has(q, "written") => Sealed(a)
  BY <1>2, <1>3 DEF Has, Sealed
<1> QED BY <1>4, <1>5, <1>6 DEF a

LEMMA TailReads ==
    ASSUME NEW q \in Seq(CmdType), q # <<>>
    PROVE  /\ Head(q) \in CmdType /\ Tail(q) \in Seq(CmdType)
           /\ \A op : Has(Tail(q), op) => Has(q, op)
           /\ \A op : Has(q, op) /\ Head(q).op # op => Has(Tail(q), op)
           /\ \A S : AllShown(q, S) => AllShown(Tail(q), S) /\ (Head(q).op = "seen" => Head(q).n \in S)
           /\ Sealed(q) => Sealed(Tail(q)) /\ (Head(q).op = "written" => ~Has(Tail(q), "leave"))
<1> DEFINE t == Tail(q)
<1>1. /\ Head(q) = q[1] /\ Len(q) \in Nat /\ Len(q) >= 1 /\ Len(t) = Len(q) - 1
      /\ \A i \in 1..Len(t) : t[i] = q[i + 1]
      /\ Head(q) \in CmdType /\ t \in Seq(CmdType)
  OBVIOUS
<1> HIDE DEF t
<1>2. \A op : Has(t, op) => Has(q, op)
  <2>1. \A i \in 1..Len(t) : i + 1 \in 1..Len(q) /\ t[i] = q[i + 1]
    BY <1>1
  <2> QED BY <2>1, Zenon DEF Has
<1>3. \A op : Has(q, op) /\ Head(q).op # op => Has(t, op)
  <2> SUFFICES ASSUME NEW op, NEW i \in 1..Len(q), q[i].op = op, q[1].op # op PROVE Has(t, op)
    BY <1>1 DEF Has
  <2>1. i - 1 \in 1..Len(t) /\ t[i - 1] = q[i]
    BY <1>1
  <2> QED BY <2>1 DEF Has
<1>4. \A S : AllShown(q, S) => AllShown(t, S) /\ (Head(q).op = "seen" => Head(q).n \in S)
  BY <1>1 DEF AllShown
<1>5. Sealed(q) => Sealed(t) /\ (Head(q).op = "written" => ~Has(t, "leave"))
  <2> SUFFICES ASSUME Sealed(q) PROVE Sealed(t) /\ (Head(q).op = "written" => ~Has(t, "leave"))
    OBVIOUS
  <2>1. \A i \in 1..Len(t) : i + 1 \in 1..Len(q) /\ t[i] = q[i + 1] /\ i + 1 > 1
    BY <1>1
  <2>2. ASSUME NEW j \in 1..Len(t), t[j].op = "written", NEW i \in 1..Len(t), i > j PROVE t[i].op # "leave"
    <3>1. q[j + 1].op = "written" /\ i + 1 > j + 1
      BY <1>1, <2>1, <2>2
    <3> QED BY <2>1, <3>1 DEF Sealed
  <2>3. ASSUME q[1].op = "written", NEW i \in 1..Len(t) PROVE t[i].op # "leave"
    <3>1. 1 \in 1..Len(q)
      BY <1>1
    <3> QED BY <2>1, <2>3, <3>1 DEF Sealed
  <2>4. Sealed(t)
    BY <2>2 DEF Sealed
  <2> QED BY <1>1, <2>3, <2>4 DEF Has
<1> QED BY <1>1, <1>2, <1>3, <1>4, <1>5 DEF t

LEMMA EmptyReads == /\ \A op : ~Has(<<>>, op)
                    /\ \A S : AllShown(<<>>, S)
                    /\ Sealed(<<>>)
                    /\ \A i, id : AllShown(<<Leave(i, id)>>, {}) /\ ~Has(<<Leave(i, id)>>, "written")
BY DEF Has, AllShown, Sealed, Leave

\* More counts shown: what was shown still is.
LEMMA MoreShown ==
    ASSUME NEW q, NEW S, NEW T, AllShown(q, S), S \subseteq T
    PROVE  AllShown(q, T)
BY DEF AllShown

(***************************************************************************)
(* The acks on their way: every one names a count a frame has drawn.       *)
(***************************************************************************)

SeenInv == \A h \in Host : AllShown(cmds[h], shown[Root[h]]) /\ AllShown(wire[h], shown[Root[h]])

\* A queue's steps, when the counts shown stay.
LEMMA SeenByQueue ==
    ASSUME SeenInv, Typed, NEW h \in Host, UNCHANGED shown,
           \/ UNCHANGED cmds
           \/ \E q : cmds' = [cmds EXCEPT ![h] = q] /\ AllShown(q, shown[Root[h]]),
           \/ UNCHANGED wire
           \/ \E q : wire' = [wire EXCEPT ![h] = q] /\ AllShown(q, shown[Root[h]])
    PROVE  SeenInv'
BY DEF SeenInv, Typed, TasksOK, StreamOK

\* Every queue's steps that append an entry of its own, drawn by now or no ack.
LEMMA SeenByAppend ==
    ASSUME SeenInv, Typed, UNCHANGED wire,
           \A d \in Daemon : shown[d] \subseteq shown'[d],
           NEW e, \A h \in Host : e[h] \in CmdType,
           \A h \in Host : \/ cmds'[h] = cmds[h]
                           \/ /\ cmds'[h] = Append(cmds[h], e[h])
                              /\ e[h].op = "seen" => e[h].n \in shown'[Root[h]]
    PROVE  SeenInv'
<1> SUFFICES ASSUME NEW h \in Host
             PROVE  AllShown(cmds'[h], shown'[Root[h]]) /\ AllShown(wire[h], shown'[Root[h]])
  BY DEF SeenInv
<1>1. shown[Root[h]] \subseteq shown'[Root[h]]
  BY WindowAssumption
<1>2. AllShown(cmds[h], shown'[Root[h]]) /\ AllShown(wire[h], shown'[Root[h]])
  BY <1>1, MoreShown DEF SeenInv
<1>3. cmds[h] \in Seq(CmdType) /\ e[h] \in CmdType
  BY DEF Typed, TasksOK
<1>4. (e[h].op = "seen" => e[h].n \in shown'[Root[h]])
        => AllShown(Append(cmds[h], e[h]), shown'[Root[h]])
  BY <1>2, <1>3, AppendReads
<1> QED BY <1>2, <1>4

\* A settled handshake starts its holder with the leave, or with nothing.
LEMMA SettleQueue ==
    ASSUME NEW h \in Host, NEW s, NEW live, Settle(h, s, live)
    PROVE  \E q \in {<<>>, <<Leave(leaving, leaves)>>} : cmds' = [cmds EXCEPT ![h] = q]
BY DEF Settle

LEMMA NextSeen == Typed /\ SeenInv /\ [Next]_vars => SeenInv'
<1> SUFFICES ASSUME Typed, SeenInv, [Next]_vars PROVE SeenInv'
  OBVIOUS
<1>0. \A h \in Host : cmds[h] \in Seq(CmdType) /\ wire[h] \in Seq(CmdType)
  BY DEF Typed, TasksOK, StreamOK
<1>1. CASE UNCHANGED <<cmds, wire, shown>>
  BY <1>1 DEF SeenInv
<1>2. ASSUME NEW h \in Host, Begin(h) \/ Cancel(h) \/ HolderReads(h) \/ DaemonAnswers(h) \/ DaemonSeesEnd(h)
      PROVE  SeenInv'
  BY <1>1, <1>2
  DEF Begin, Cancel, HolderReads, DaemonAnswers, DaemonSeesEnd, stream, tasks, past
<1>3. ASSUME NEW h \in Host, Send(h) \/ DaemonCuts(h) PROVE SeenInv'
  <2>1. wire' = [wire EXCEPT ![h] = <<>>] /\ UNCHANGED <<cmds, shown>>
    BY <1>3 DEF Send, DaemonCuts, tasks, past
  <2> QED BY <2>1, SeenByQueue, EmptyReads
<1>4. ASSUME NEW h \in Host, AskFails(h) \/ ReadGrant(h) \/ ReadRefusal(h) PROVE SeenInv'
  <2>1. UNCHANGED <<wire, shown>> /\ \E s, live : Settle(h, s, live)
    BY <1>4 DEF AskFails, ReadGrant, ReadRefusal, stream, past
  <2>2. PICK q \in {<<>>, <<Leave(leaving, leaves)>>} : cmds' = [cmds EXCEPT ![h] = q]
    BY <2>1, SettleQueue
  <2>3. AllShown(q, shown[Root[h]])
    BY EmptyReads, MoreShown
  <2> QED BY <2>1, <2>2, <2>3, SeenByQueue
<1>5. ASSUME NEW h \in Host, HolderTakes(h) PROVE SeenInv'
  <2>1. /\ cmds[h] # <<>> /\ cmds' = [cmds EXCEPT ![h] = Tail(cmds[h])] /\ UNCHANGED shown
        /\ wire' \in {wire, [wire EXCEPT ![h] = Append(wire[h], Head(cmds[h]))]}
    BY <1>5 DEF HolderTakes, past
  <2>2. AllShown(cmds[h], shown[Root[h]]) /\ AllShown(wire[h], shown[Root[h]])
    BY DEF SeenInv
  <2>3. AllShown(Tail(cmds[h]), shown[Root[h]]) /\ AllShown(Append(wire[h], Head(cmds[h])), shown[Root[h]])
    BY <1>0, <2>1, <2>2, TailReads, AppendReads
  <2> QED BY <2>1, <2>3, SeenByQueue
<1>6. ASSUME NEW h \in Host, HolderEnds(h) PROVE SeenInv'
  <2>1. cmds' = [cmds EXCEPT ![h] = <<>>] /\ UNCHANGED <<wire, shown>>
    BY <1>6 DEF HolderEnds, past
  <2> QED BY <2>1, SeenByQueue, EmptyReads
<1>7. ASSUME NEW h \in Host, DaemonReads(h) PROVE SeenInv'
  <2>1. wire[h] # <<>> /\ wire' = [wire EXCEPT ![h] = Tail(wire[h])] /\ UNCHANGED <<cmds, shown>>
    BY <1>7 DEF DaemonReads, tasks, past
  <2>2. AllShown(Tail(wire[h]), shown[Root[h]])
    BY <1>0, <2>1, TailReads DEF SeenInv
  <2> QED BY <2>1, <2>2, SeenByQueue
<1>8. CASE FramePresented
  <2> DEFINE e == [h \in Host |-> NoticeSeen(drawn[Root[h]])]
  <2>1. /\ UNCHANGED wire /\ \A d \in Daemon : shown'[d] = shown[d] \cup ({drawn[d]} \ {0})
        /\ \A h \in Host : cmds'[h] = IF drawn[Root[h]] > 0 /\ Held(h)
                                      THEN Append(cmds[h], NoticeSeen(drawn[Root[h]])) ELSE cmds[h]
    BY <1>8 DEF FramePresented, stream
  <2>2. \A h \in Host : drawn[Root[h]] \in Counts /\ Root[h] \in Daemon
    BY WindowAssumption DEF Typed, WindowOK
  <2>3. \A h \in Host : e[h] \in CmdType
    BY <2>2, CmdTypes
  <2>4. \A h \in Host : drawn[Root[h]] > 0 => e[h].n \in shown'[Root[h]]
    BY <2>1, <2>2 DEF NoticeSeen, Counts
  <2>5. \A h \in Host : \/ cmds'[h] = cmds[h]
                        \/ /\ cmds'[h] = Append(cmds[h], e[h])
                           /\ e[h].op = "seen" => e[h].n \in shown'[Root[h]]
    BY <2>1, <2>4
  <2> HIDE DEF e
  <2> QED BY <2>1, <2>3, <2>5, SeenByAppend
<1>9. CASE LinePresented
  <2> DEFINE e == [h \in Host |-> NoticeSeen(lv.outcome[h].n)]
  <2>1. /\ UNCHANGED wire
        /\ \A d \in Daemon : shown'[d] = shown[d] \cup {lv.outcome[h].n : h \in {k \in lv.acks : Root[k] = d}}
        /\ \A h \in Host : cmds'[h] = IF h \in lv.acks /\ Held(h)
                                      THEN Append(cmds[h], NoticeSeen(lv.outcome[h].n)) ELSE cmds[h]
    BY <1>9 DEF LinePresented, stream
  <2>2. \A h \in Host : lv.outcome[h].n \in Counts /\ Root[h] \in Daemon
    BY WindowAssumption DEF Typed, WindowOK, LeavingType, OutcomeType
  <2>3. \A h \in Host : e[h] \in CmdType
    BY <2>2, CmdTypes
  <2>4. \A h \in Host : h \in lv.acks => e[h].n \in shown'[Root[h]]
    BY <2>1, <2>2 DEF NoticeSeen
  <2>5. \A h \in Host : \/ cmds'[h] = cmds[h]
                        \/ /\ cmds'[h] = Append(cmds[h], e[h])
                           /\ e[h].op = "seen" => e[h].n \in shown'[Root[h]]
    BY <2>1, <2>4
  <2> HIDE DEF e
  <2> QED BY <2>1, <2>3, <2>5, SeenByAppend
<1>10. ASSUME NEW i \in Intents, NEW code, Leaves(i, code) PROVE SeenInv'
  <2>1. UNCHANGED <<wire, shown>> /\ leaves' \in 0..MaxLeaves
    BY <1>10, LoadBounds, WindowAssumption DEF Leaves, LeaveAll, Typed, PastOK
  <2> DEFINE e == [h \in Host |-> Leave(i, leaves')]
  <2>2. \A h \in Host : e[h] \in CmdType /\ e[h].op # "seen"
    BY <2>1, CmdTypes DEF Leave
  <2>3. \A h \in Host : cmds'[h] = IF Held(h) THEN Append(cmds[h], e[h]) ELSE cmds[h]
    BY <1>10 DEF Leaves, LeaveAll
  <2> HIDE DEF e
  <2> QED BY <2>1, <2>2, <2>3, SeenByAppend
<1>11. ASSUME NEW r \in Reasons, AsksToLeave(r) \/ AsksAgain(r) PROVE SeenInv'
  <2>1. \E i \in Intents, code \in {0, Relaunch} : Leaves(i, code)
    BY <1>11 DEF AsksToLeave, AsksAgain, LeaveOf, Intents, Reasons
  <2> QED BY <1>10, <2>1
<1>12. ASSUME NEW r \in Reasons, AsksNow(r) PROVE SeenInv'
  <2> DEFINE e == [h \in Host |-> Written]
  <2>1. \A h \in Host : e[h] \in CmdType /\ e[h].op # "seen"
    BY CmdTypes DEF Written
  <2>2. /\ UNCHANGED <<wire, shown>>
        /\ \A h \in Host : cmds'[h] = IF holder[h] = "live" THEN Append(cmds[h], e[h]) ELSE cmds[h]
    BY <1>12 DEF AsksNow, Deliver, stream
  <2> HIDE DEF e
  <2> QED BY <2>1, <2>2, SeenByAppend
<1>13. CASE NativeClose
  <2>1. /\ UNCHANGED <<wire, shown>> /\ leaves' \in 0..MaxLeaves /\ "close" \in Intents
        /\ Deliver([h \in Host |-> IF Held(h) THEN Append(cmds[h], Leave("close", leaves')) ELSE cmds[h]])
    BY <1>13, LoadBounds, WindowAssumption DEF NativeClose, Typed, PastOK, stream, Intents
  <2> SUFFICES ASSUME NEW h \in Host PROVE AllShown(cmds'[h], shown[Root[h]])
    BY <2>1 DEF SeenInv
  <2> DEFINE q == IF Held(h) THEN Append(cmds[h], Leave("close", leaves')) ELSE cmds[h]
  <2>2. Leave("close", leaves') \in CmdType /\ Leave("close", leaves').op # "seen"
    BY <2>1, CmdTypes DEF Leave
  <2>3. q \in Seq(CmdType)
    BY <1>0, <2>2
  <2>4. AllShown(q, shown[Root[h]])
    BY <1>0, <2>2, AppendReads DEF SeenInv
  <2>5. cmds'[h] = IF holder[h] = "live" THEN Append(q, Written) ELSE q
    BY <2>1 DEF Deliver
  <2>6. Written \in CmdType /\ Written.op # "seen"
    BY CmdTypes DEF Written
  <2> HIDE DEF q
  <2> QED BY <2>3, <2>4, <2>5, <2>6, AppendReads
<1>14. CASE \/ FrameDraws \/ FrameDropped \/ AsksAndStays \/ Delivered \/ DeadlinePasses
            \/ PollSteps \/ ProcessEnds \/ UNCHANGED vars
  BY <1>1, <1>14
  DEF FrameDraws, FrameDropped, AsksAndStays, StayTaken, Delivered, DeadlinePasses, PollSteps, PollWaits,
      PollStays, Stays, PollShows, PollExits, LineEnds, ProcessEnds, vars, tasks, stream, past
<1>15. ASSUME NEW d \in Daemon, CountGrows(d) PROVE SeenInv'
  BY <1>1, <1>15 DEF CountGrows, tasks, past
<1> QED BY <1>2, <1>3, <1>4, <1>5, <1>6, <1>7, <1>8, <1>9, <1>11, <1>12, <1>13, <1>14, <1>15
        DEF Next, PollSteps

LEMMA SeenInvariant == Spec => []SeenInv
<1>1. Init => SeenInv
  BY EmptyReads DEF Init, SeenInv
<1> QED BY <1>1, TypesInvariant, NextSeen, PTL DEF Spec

\* Only a frame read by the daemon, or a Cleanup of its own, changes a count.
LEMMA CountsChange ==
    ASSUME [Next]_vars, NEW d \in Daemon, count'[d] # count[d]
    PROVE  (\E h \in Host : DaemonReads(h)) \/ (\E k \in Daemon : CountGrows(k))
BY DEF Next, vars, Begin, Send, AskFails, ReadGrant, ReadRefusal, Cancel, HolderTakes, HolderReads, HolderEnds,
       FrameDraws, FramePresented, FrameDropped, AsksToLeave, AsksAgain, Leaves, AsksNow, AsksAndStays,
       StayTaken, NativeClose, Delivered, DeadlinePasses, PollWaits, PollStays, Stays, PollShows, PollExits,
       LinePresented, LineEnds, ProcessEnds, DaemonAnswers, DaemonSeesEnd, DaemonCuts, stream

\* A daemon forgets a count only when a frame of this window has drawn that
\* count whole: no older frame's ack hides a newer count (notice_seen).
THEOREM NoCountIsHidden == Spec => NothingAckedUnshown
<1> DEFINE Forgets(d) == count[d] > 0 /\ count'[d] = 0
<1>1. Typed /\ SeenInv /\ [Next]_vars
        => [\A d \in Daemon : Forgets(d) => count[d] \in shown[d]]_vars
  <2> SUFFICES ASSUME Typed, SeenInv, [Next]_vars, NEW d \in Daemon, Forgets(d)
               PROVE  count[d] \in shown[d]
    OBVIOUS
  <2>0. count \in [Daemon -> Counts] /\ load[1] \in 0..MaxCount
    BY LoadBounds DEF Typed, StreamOK
  <2>1. ASSUME NEW h \in Host, DaemonReads(h) PROVE count[d] \in shown[d]
    <3>1. wire[h] # <<>> /\ wire[h] \in Seq(CmdType)
      BY <2>1 DEF DaemonReads, Typed, StreamOK
    <3>2. Head(wire[h]).op = "seen" /\ count[Root[h]] = Head(wire[h]).n /\ d = Root[h]
      <4>1. CASE \E n \in 0..load[1] : count' = IF n > 0 THEN [count EXCEPT ![Root[h]] = n] ELSE count
        <5>1. PICK n \in 0..load[1] : count' = IF n > 0 THEN [count EXCEPT ![Root[h]] = n] ELSE count
          BY <4>1
        <5>2. count'[d] = count[d] \/ (n > 0 /\ count'[d] = n)
          BY <2>0, <5>1
        <5> QED BY <2>0, <5>2 DEF Counts
      <4>2. CASE /\ Head(wire[h]).op = "seen"
                 /\ count' = IF count[Root[h]] = Head(wire[h]).n THEN [count EXCEPT ![Root[h]] = 0] ELSE count
        BY <2>0, <4>2 DEF Counts
      <4> QED BY <2>1, <4>1, <4>2 DEF DaemonReads
    <3>3. AllShown(wire[h], shown[Root[h]])
      BY DEF SeenInv
    <3> QED BY <3>1, <3>2, <3>3, TailReads
  <2>2. ASSUME NEW k \in Daemon, CountGrows(k) PROVE count[d] \in shown[d]
    BY <2>0, <2>2, WindowAssumption DEF CountGrows, Counts
  <2> QED BY <2>0, <2>1, <2>2, CountsChange DEF Counts
<1> QED BY <1>1, TypesInvariant, SeenInvariant, PTL DEF Spec, NothingAckedUnshown

(***************************************************************************)
(* The bounded delivery of a forced exit.                                  *)
(*                                                                         *)
(* While it waits, every holder it counts on has a receipt in its queue    *)
(* and no leave behind it, and every holder it does not count on any more  *)
(* has no leave queued: a handshake that settles meanwhile reports itself  *)
(* on the late channel, and none begins.                                   *)
(***************************************************************************)

Receipted(h) ==
    /\ Sealed(cmds[h])
    /\ h \in waits => Has(cmds[h], "written")
    /\ h \notin waits => ~Has(cmds[h], "leave")
AskingIsVacant == \A h \in Host : hs[h] # "none" => holder[h] = "none"
NoReceiptYet   == ui = "free" => \A h \in Host : ~Has(cmds[h], "written")
Delivering ==
    ui = "delivering" =>
        /\ leaving # None /\ drawn = NoFrame
        /\ \A h \in waits : hs[h] = "none"
        /\ \A h \in Host \ lateQ : holder[h] = "live" => Receipted(h)
ReceiptInv == AskingIsVacant /\ NoReceiptYet /\ Delivering

\* Steps that touch neither the queues nor who owns them.
LEMMA ReceiptStands ==
    ASSUME ReceiptInv, UNCHANGED <<hs, holder, cmds>>,
           ui' # "delivering" \/ UNCHANGED <<ui, leaving, lateQ, drawn, waits>>,
           ui' = "free" => ui = "free"
    PROVE  ReceiptInv'
BY DEF ReceiptInv, AskingIsVacant, NoReceiptYet, Delivering, Receipted

\* Steps of the UI thread that append no receipt, while it delivers nothing.
LEMMA ReceiptByAppend ==
    ASSUME ReceiptInv, Typed, UNCHANGED <<hs, holder>>, ui' # "delivering",
           ui' = "free" => ui = "free",
           NEW e, \A h \in Host : e[h] \in CmdType /\ e[h].op # "written",
           \A h \in Host : cmds'[h] = cmds[h] \/ cmds'[h] = Append(cmds[h], e[h])
    PROVE  ReceiptInv'
<1>1. \A h \in Host : cmds[h] \in Seq(CmdType)
  BY DEF Typed, TasksOK
<1>2. NoReceiptYet'
  <2> SUFFICES ASSUME ui = "free", NEW h \in Host PROVE ~Has(cmds'[h], "written")
    BY DEF NoReceiptYet
  <2>1. ~Has(cmds[h], "written")
    BY DEF ReceiptInv, NoReceiptYet
  <2>2. ~Has(Append(cmds[h], e[h]), "written")
    BY <1>1, <2>1, AppendReads
  <2> QED BY <2>1, <2>2
<1> QED BY <1>2 DEF ReceiptInv, AskingIsVacant, Delivering

\* deliver_queued: the receipt is the last entry of each holder's queue.
LEMMA ReceiptByDeliver ==
    ASSUME ReceiptInv, Typed, NEW q \in [Host -> Seq(CmdType)], Deliver(q),
           \A h \in Host : ~Has(q[h], "written"),
           leaving' # None, drawn' = NoFrame, UNCHANGED <<hs, holder>>
    PROVE  ReceiptInv'
<1>1. ui' = "delivering" /\ waits' = {h \in Host : holder[h] = "live"}
  BY DEF Deliver
<1>2. \A h \in waits' : hs'[h] = "none"
  BY <1>1 DEF ReceiptInv, AskingIsVacant, Typed, TasksOK, HsType
<1>3. ASSUME NEW h \in Host, holder[h] = "live" PROVE Receipted(h)'
  <2>1. cmds'[h] = Append(q[h], Written) /\ q[h] \in Seq(CmdType) /\ h \in waits'
    BY <1>1, <1>3 DEF Deliver
  <2>2. Written \in CmdType /\ Written.op = "written"
    BY CmdTypes DEF Written
  <2>3. Sealed(cmds'[h]) /\ Has(cmds'[h], "written")
    BY <2>1, <2>2, AppendReads
  <2> QED BY <2>1, <2>3 DEF Receipted
<1>4. AskingIsVacant'
  BY DEF ReceiptInv, AskingIsVacant
<1>5. NoReceiptYet' /\ Delivering'
  BY <1>1, <1>2, <1>3 DEF NoReceiptYet, Delivering
<1> QED BY <1>4, <1>5 DEF ReceiptInv

\* A handshake that settles: the host is not waited for, and a leave it is
\* given is on the late channel.
LEMMA ReceiptBySettle ==
    ASSUME ReceiptInv, Typed, NEW h \in Host, hs[h] # "none", NEW s, NEW live \in BOOLEAN,
           Settle(h, s, live), UNCHANGED window
    PROVE  ReceiptInv'
<1>1. /\ hs' = [hs EXCEPT ![h] = "none"] /\ leaving' = leaving
      /\ holder' = [holder EXCEPT ![h] = IF live THEN "live" ELSE "none"]
      /\ UNCHANGED <<ui, waits, drawn>>
  BY DEF Settle, CountDown, window
<1>2. \/ h \in lateQ' /\ lateQ' = lateQ \cup {h}
      \/ lateQ' = lateQ /\ cmds' = [cmds EXCEPT ![h] = <<>>]
  BY DEF Settle, Typed, BookOK
<1>3. PICK q \in {<<>>, <<Leave(leaving, leaves)>>} : cmds' = [cmds EXCEPT ![h] = q]
  BY SettleQueue
<1>4. AskingIsVacant'
  BY <1>1 DEF ReceiptInv, AskingIsVacant, Typed, TasksOK, HsType, BookOK
<1>5. NoReceiptYet'
  BY <1>1, <1>3, EmptyReads DEF ReceiptInv, NoReceiptYet, Typed, TasksOK
<1>6. Delivering'
  <2> SUFFICES ASSUME ui = "delivering"
               PROVE  /\ \A k \in waits : hs'[k] = "none"
                      /\ \A k \in Host \ lateQ' : holder'[k] = "live" => Receipted(k)'
    BY <1>1 DEF ReceiptInv, Delivering
  <2>1. \A k \in waits : hs'[k] = "none"
    BY <1>1 DEF ReceiptInv, Delivering, Typed, TasksOK, HsType, WindowOK
  <2>2. ASSUME NEW k \in Host \ lateQ', holder'[k] = "live" PROVE Receipted(k)'
    <3>1. CASE k = h
      <4>1. cmds'[h] = <<>> /\ h \notin waits'
        BY <1>1, <1>2, <2>2, <3>1 DEF ReceiptInv, Delivering, Typed, TasksOK
      <4> QED BY <3>1, <4>1, EmptyReads DEF Receipted
    <3>2. CASE k # h
      <4>1. holder[k] = "live" /\ k \notin lateQ /\ cmds'[k] = cmds[k]
        BY <1>1, <1>2, <1>3, <2>2, <3>2 DEF Typed, TasksOK, BookOK
      <4> QED BY <1>1, <4>1 DEF ReceiptInv, Delivering, Receipted
    <3> QED BY <3>1, <3>2
  <2> QED BY <2>1, <2>2
<1> QED BY <1>4, <1>5, <1>6 DEF ReceiptInv

\* The steps of the holder tasks: a receipt is taken after all before it.
LEMMA ReceiptByHolder ==
    ASSUME ReceiptInv, Typed, NEW h \in Host, HolderTakes(h) \/ HolderEnds(h)
    PROVE  ReceiptInv'
<1>0. cmds \in [Host -> Seq(CmdType)] /\ waits \subseteq Host
      /\ hs \in HsType /\ holder \in [Host -> {"none", "live", "closed"}]
  BY DEF Typed, TasksOK, WindowOK, BookOK
<1>1. CASE HolderTakes(h)
  <2>1. /\ cmds[h] # <<>> /\ cmds' = [cmds EXCEPT ![h] = Tail(cmds[h])] /\ holder[h] = "live"
        /\ waits' = IF Head(cmds[h]).op = "written" THEN waits \ {h} ELSE waits
        /\ UNCHANGED <<hs, holder, leaving, lateQ, ui, drawn>>
    BY <1>1 DEF HolderTakes, book
  <2>2. cmds[h] \in Seq(CmdType)
    BY <1>0
  <2>3. AskingIsVacant'
    BY <2>1 DEF ReceiptInv, AskingIsVacant
  <2>4. NoReceiptYet'
    BY <1>0, <2>1, <2>2, TailReads DEF ReceiptInv, NoReceiptYet
  <2>5. ASSUME Receipted(h) PROVE Receipted(h)'
    <3>1. cmds'[h] = Tail(cmds[h])
      BY <1>0, <2>1
    <3>2. Sealed(cmds'[h])
      BY <2>1, <2>2, <2>5, <3>1, TailReads DEF Receipted
    <3>3. CASE Head(cmds[h]).op = "written"
      <4>1. h \notin waits' /\ ~Has(cmds'[h], "leave")
        BY <2>1, <2>2, <2>5, <3>1, <3>3, TailReads DEF Receipted
      <4> QED BY <3>2, <4>1 DEF Receipted
    <3>4. CASE Head(cmds[h]).op # "written"
      <4>1. Has(cmds[h], "written") => Has(cmds'[h], "written")
        BY <2>1, <2>2, <3>1, <3>4, TailReads
      <4>2. ~Has(cmds[h], "leave") => ~Has(cmds'[h], "leave")
        BY <2>1, <2>2, <3>1, TailReads
      <4> QED BY <2>1, <2>5, <3>2, <3>4, <4>1, <4>2 DEF Receipted
    <3> QED BY <3>3, <3>4
  <2>6. ASSUME NEW k \in Host, k # h, Receipted(k) PROVE Receipted(k)'
    BY <1>0, <2>1, <2>6 DEF Receipted
  <2>7. Delivering'
    BY <2>1, <2>5, <2>6 DEF ReceiptInv, Delivering
  <2> QED BY <2>3, <2>4, <2>7 DEF ReceiptInv
<1>2. CASE HolderEnds(h)
  <2>1. /\ cmds' = [cmds EXCEPT ![h] = <<>>] /\ holder[h] = "live"
        /\ holder' = [holder EXCEPT ![h] = "closed"] /\ waits' = waits \ {h}
        /\ UNCHANGED <<hs, leaving, lateQ, ui, drawn>>
    BY <1>2 DEF HolderEnds
  <2>2. AskingIsVacant'
    BY <1>0, <2>1 DEF ReceiptInv, AskingIsVacant, HsType
  <2>3. NoReceiptYet'
    BY <1>0, <2>1, EmptyReads DEF ReceiptInv, NoReceiptYet
  <2>4. ASSUME NEW k \in Host, k # h, Receipted(k) PROVE Receipted(k)'
    BY <1>0, <2>1, <2>4 DEF Receipted
  <2>5. holder'[h] # "live" /\ \A k \in Host : k # h => holder'[k] = holder[k]
    BY <1>0, <2>1
  <2>6. Delivering'
    BY <2>1, <2>4, <2>5 DEF ReceiptInv, Delivering
  <2> QED BY <2>2, <2>3, <2>6 DEF ReceiptInv
<1> QED BY <1>1, <1>2

\* The steps of the transport tasks.
LEMMA ReceiptByHandshake ==
    ASSUME ReceiptInv, Typed, NEW h \in Host,
           Begin(h) \/ Send(h) \/ AskFails(h) \/ ReadGrant(h) \/ ReadRefusal(h) \/ Cancel(h)
    PROVE  ReceiptInv'
<1>0. hs \in HsType /\ holder \in [Host -> {"none", "live", "closed"}] /\ waits \subseteq Host
  BY DEF Typed, TasksOK, WindowOK, BookOK
<1>1. CASE Begin(h)
  <2>1. /\ leaving = None /\ holder' = [holder EXCEPT ![h] = "none"] /\ hs' = [hs EXCEPT ![h] = "asking"]
        /\ UNCHANGED <<leaving, lateQ, cmds, ui, waits, drawn>>
    BY <1>1 DEF Begin, window
  <2>2. ui # "delivering"
    BY <2>1 DEF ReceiptInv, Delivering
  <2> QED BY <1>0, <2>1, <2>2 DEF ReceiptInv, AskingIsVacant, NoReceiptYet, Delivering, HsType
<1>2. CASE Send(h) \/ Cancel(h)
  <2>1. /\ hs[h] # "none" /\ hs' \in {[hs EXCEPT ![h] = "sent"], [hs EXCEPT ![h] = "none"]}
        /\ UNCHANGED <<leaving, holder, lateQ, cmds, ui, waits, drawn>>
    BY <1>2 DEF Send, Cancel, CountDown, window, book
  <2>2. AskingIsVacant'
    BY <1>0, <2>1 DEF ReceiptInv, AskingIsVacant, HsType
  <2>3. NoReceiptYet'
    BY <2>1 DEF ReceiptInv, NoReceiptYet
  <2>4. Delivering'
    BY <1>0, <2>1 DEF ReceiptInv, Delivering, Receipted, HsType
  <2> QED BY <2>2, <2>3, <2>4 DEF ReceiptInv
<1>3. CASE AskFails(h) \/ ReadGrant(h) \/ ReadRefusal(h)
  <2>1. hs[h] # "none" /\ UNCHANGED window /\ \E s : \E live \in BOOLEAN : Settle(h, s, live)
    BY <1>3 DEF AskFails, ReadGrant, ReadRefusal
  <2> QED BY <2>1, ReceiptBySettle
<1> QED BY <1>1, <1>2, <1>3

\* The steps that ask to leave.
LEMMA ReceiptByAsking ==
    ASSUME ReceiptInv, LeaveInv, Typed,
           \/ \E r \in Reasons : AsksToLeave(r) \/ AsksAgain(r) \/ AsksNow(r)
           \/ NativeClose
    PROVE  ReceiptInv'
<1>0. cmds \in [Host -> Seq(CmdType)]
  BY DEF Typed, TasksOK
<1>1. ASSUME NEW r \in Reasons, AsksToLeave(r) \/ AsksAgain(r) PROVE ReceiptInv'
  <2>1. PICK i \in Intents, code \in {0, Relaunch} : Leaves(i, code)
    BY <1>1 DEF AsksToLeave, AsksAgain, LeaveOf, Intents, Reasons
  <2>a. ui = "free"
    BY <1>1 DEF AsksToLeave, AsksAgain, UiFree
  <2>b. leaves' \in 0..MaxLeaves
    <3>1. leaves < load[2] /\ leaves' = leaves + 1
      BY <2>1 DEF Leaves, LeaveAll
    <3> QED BY <3>1, LoadBounds, WindowAssumption DEF Typed, PastOK
  <2>2. ui = "free" /\ ui' \in {"free", "ending"} /\ UNCHANGED <<hs, holder>>
    BY <2>1, <2>a DEF Leaves, Finish
  <2> DEFINE e == [h \in Host |-> Leave(i, leaves')]
  <2>3. \A h \in Host : e[h] \in CmdType /\ e[h].op # "written"
    BY <2>b, CmdTypes DEF Leave
  <2>4. \A h \in Host : cmds'[h] = cmds[h] \/ cmds'[h] = Append(cmds[h], e[h])
    BY <2>1 DEF Leaves, LeaveAll
  <2> HIDE DEF e
  <2> QED BY <2>2, <2>3, <2>4, ReceiptByAppend
<1>2. ASSUME NEW r \in Reasons, AsksNow(r) PROVE ReceiptInv'
  <2>1. /\ ui = "free" /\ drawn = NoFrame /\ Deliver(cmds) /\ UNCHANGED <<hs, holder, leaving, drawn>>
        /\ ExitIntent(r, lv.intent) = "now"
    BY <1>2 DEF AsksNow, UiFree, book
  <2>2. lv.intent # None
    BY <2>1 DEF ExitIntent, Reasons
  <2>3. leaving # None
    BY <2>2 DEF LeaveInv, WaitIsTheLeave, NoLeave
  <2>4. \A h \in Host : ~Has(cmds[h], "written")
    BY <2>1 DEF ReceiptInv, NoReceiptYet
  <2> QED BY <1>0, <2>1, <2>3, <2>4, ReceiptByDeliver
<1>3. CASE NativeClose
  <2> DEFINE q == [h \in Host |-> IF Held(h) THEN Append(cmds[h], Leave("close", leaves')) ELSE cmds[h]]
  <2>1. /\ ui = "free" /\ drawn = NoFrame /\ leaving' = "close" /\ Deliver(q)
        /\ UNCHANGED <<hs, holder, drawn>> /\ leaves' \in 0..MaxLeaves /\ "close" \in Intents
    BY <1>3, LoadBounds, WindowAssumption DEF NativeClose, UiFree, Typed, PastOK, Intents
  <2>2. Leave("close", leaves') \in CmdType /\ Leave("close", leaves').op # "written"
    BY <2>1, CmdTypes DEF Leave
  <2>3. \A h \in Host : ~Has(cmds[h], "written")
    BY <2>1 DEF ReceiptInv, NoReceiptYet
  <2>4. \A h \in Host : ~Has(Append(cmds[h], Leave("close", leaves')), "written")
    BY <1>0, <2>2, <2>3, AppendReads
  <2>5. \A h \in Host : ~Has(q[h], "written")
    BY <2>3, <2>4
  <2>6. q \in [Host -> Seq(CmdType)]
    BY <2>1, LeaveQueues
  <2> HIDE DEF q
  <2> QED BY <2>1, <2>5, <2>6, WindowAssumption, ReceiptByDeliver
<1> QED BY <1>1, <1>2, <1>3

LEMMA NextReceipts == Typed /\ LeaveInv /\ ReceiptInv /\ [Next]_vars => ReceiptInv'
<1> SUFFICES ASSUME Typed, LeaveInv, ReceiptInv, [Next]_vars PROVE ReceiptInv'
  OBVIOUS
<1>1. CASE FramePresented
  <2>1. drawn # NoFrame /\ UNCHANGED <<hs, holder, ui>>
    BY <1>1 DEF FramePresented
  <2>2. ui' # "delivering"
    BY <2>1 DEF ReceiptInv, Delivering
  <2> DEFINE e == [h \in Host |-> NoticeSeen(drawn[Root[h]])]
  <2>3. \A h \in Host : e[h] \in CmdType /\ e[h].op # "written"
    BY CmdTypes, WindowAssumption DEF NoticeSeen, Typed, WindowOK
  <2>4. \A h \in Host : cmds'[h] = cmds[h] \/ cmds'[h] = Append(cmds[h], e[h])
    BY <1>1 DEF FramePresented
  <2> HIDE DEF e
  <2> QED BY <2>1, <2>2, <2>3, <2>4, ReceiptByAppend
<1>2. CASE LinePresented
  <2>1. ui' = "free" /\ UNCHANGED <<hs, holder, ui>>
    BY <1>2 DEF LinePresented, UiFree, book
  <2> DEFINE e == [h \in Host |-> NoticeSeen(lv.outcome[h].n)]
  <2>2. \A h \in Host : lv.outcome[h].n \in Counts
    BY DEF Typed, WindowOK, LeavingType, OutcomeType
  <2>3. \A h \in Host : e[h] \in CmdType /\ e[h].op # "written"
    BY <2>2, CmdTypes DEF NoticeSeen
  <2>4. \A h \in Host : cmds'[h] = cmds[h] \/ cmds'[h] = Append(cmds[h], e[h])
    BY <1>2 DEF LinePresented
  <2> HIDE DEF e
  <2> QED BY <2>1, <2>3, <2>4, ReceiptByAppend
<1>3. CASE FrameDraws \/ FrameDropped \/ AsksAndStays \/ Delivered \/ DeadlinePasses \/ PollSteps
             \/ ProcessEnds \/ UNCHANGED vars
  <2>1. UNCHANGED <<hs, holder, cmds>>
    BY <1>3
    DEF FrameDraws, FrameDropped, AsksAndStays, StayTaken, Delivered, DeadlinePasses, PollSteps, PollWaits,
        PollStays, Stays, PollShows, PollExits, LineEnds, ProcessEnds, vars, book, tasks
  <2>2. ui' \in {ui, "ending", "delivered"}
    BY <1>3
    DEF FrameDraws, FrameDropped, AsksAndStays, Delivered, DeadlinePasses, PollSteps, PollWaits,
        PollStays, Stays, PollShows, PollExits, LineEnds, Finish, ProcessEnds, vars, window
  <2>3. ui' # "delivering" \/ UNCHANGED <<ui, leaving, lateQ, drawn, waits>>
    <3>1. CASE FrameDraws \/ AsksAndStays \/ PollSteps
      BY <2>2, <3>1 DEF FrameDraws, AsksAndStays, UiFree, PollSteps, PollWaits, PollStays, Stays,
                        PollShows, PollExits, Reports, LineEnds, Polls
    <3>2. CASE FrameDropped
      BY <3>2 DEF FrameDropped, ReceiptInv, Delivering
    <3>3. CASE Delivered \/ DeadlinePasses \/ ProcessEnds \/ UNCHANGED vars
      BY <3>3 DEF Delivered, DeadlinePasses, ProcessEnds, vars, book, window
    <3> QED BY <1>3, <3>1, <3>2, <3>3
  <2> QED BY <2>1, <2>2, <2>3, ReceiptStands
<1>4. ASSUME NEW h \in Host,
             HolderReads(h) \/ DaemonAnswers(h) \/ DaemonReads(h) \/ DaemonSeesEnd(h) \/ DaemonCuts(h)
      PROVE  ReceiptInv'
  BY <1>4, ReceiptStands
  DEF HolderReads, DaemonAnswers, DaemonReads, DaemonSeesEnd, DaemonCuts, book, tasks, window
<1>5. ASSUME NEW d \in Daemon, CountGrows(d) PROVE ReceiptInv'
  BY <1>5, ReceiptStands DEF CountGrows, book, tasks, window
<1> QED BY <1>1, <1>2, <1>3, <1>4, <1>5, ReceiptByHandshake, ReceiptByHolder, ReceiptByAsking
        DEF Next, PollSteps

LEMMA ReceiptInvariant == Spec => []ReceiptInv
<1>1. Init => ReceiptInv
  BY EmptyReads DEF Init, ReceiptInv, AskingIsVacant, NoReceiptYet, Delivering
<1> QED BY <1>1, TypesInvariant, LeaveInvariant, NextReceipts, PTL DEF Spec

\* A forced exit whose receipts all came has written every leave that was
\* queued when it began (deliver_queued, terminal_close); the leave of a
\* handshake that settles meanwhile is not among them.
THEOREM NoLeaveIsOvertaken == Spec => DeliveredIsWritten
<1> DEFINE Clean == \A h \in Host \ lateQ' : holder'[h] = "live" =>
                      \A i \in 1..Len(cmds'[h]) : cmds'[h][i].op # "leave"
           A == (ui # "delivered" /\ ui' = "delivered") => Clean
<1>1. ReceiptInv /\ [Next]_vars => [A]_vars
  <2> HIDE DEF Clean
  <2> SUFFICES ASSUME ReceiptInv, [Next]_vars, ui # "delivered", ui' = "delivered"
               PROVE  Clean
    OBVIOUS
  <2> SUFFICES ASSUME NEW h \in Host \ lateQ', holder'[h] = "live"
               PROVE  \A i \in 1..Len(cmds'[h]) : cmds'[h][i].op # "leave"
    BY Zenon DEF Clean
  <2>1. Delivered
    BY DEF Next, vars, Begin, Send, AskFails, ReadGrant, ReadRefusal, Cancel, HolderTakes, HolderReads,
           HolderEnds, FrameDraws, FramePresented, FrameDropped, AsksToLeave, AsksAgain, Leaves, AsksNow,
           AsksAndStays, NativeClose, Deliver, Finish, DeadlinePasses, PollWaits, PollStays, Stays,
           PollShows, PollExits, LinePresented, LineEnds, ProcessEnds, DaemonAnswers, DaemonReads,
           DaemonSeesEnd, DaemonCuts, CountGrows, window
  <2>2. ui = "delivering" /\ waits = {} /\ UNCHANGED <<lateQ, holder, cmds>>
    BY <2>1 DEF Delivered, book, tasks
  <2>3. ~Has(cmds[h], "leave")
    BY <2>2 DEF ReceiptInv, Delivering, Receipted
  <2> QED BY <2>2, <2>3 DEF Has
<1> QED BY <1>1, ReceiptInvariant, PTL DEF Spec, DeliveredIsWritten

(***************************************************************************)
(* A count told is owed, or its ack is on its way.                         *)
(*                                                                         *)
(* Until a leave or a fault of the daemon's the counts only fall, so every *)
(* grant under way carries the count as it is or as it was before it fell; *)
(* and the count, the holder and the ack change hands under one lock.      *)
(***************************************************************************)

Acks(q, n)      == \E i \in 1..Len(q) : q[i].op = "seen" /\ q[i].n = n
GrantsSay(q, n) == \A i \in 1..Len(q) : q[i].op = "granted" /\ q[i].n > 0 => q[i].n = n

Quiet(h)         == ~cut[h] /\ ~Has(cmds[h], "leave") /\ ~Has(wire[h], "leave")
GrantsCurrent(h) == count[Root[h]] > 0 => GrantsSay(back[h], count[Root[h]])
ToldIsOwed(h) ==
    Held(h) /\ told[h] > 0 /\ count[Root[h]] = told[h] =>
        owed[Root[h]] = told[h] \/ Acks(cmds[h], told[h]) \/ Acks(wire[h], told[h])
CountInv ==
    cuts = 0 /\ leaves = 0 =>
        leaving = None /\ \A h \in Host : Quiet(h) /\ GrantsCurrent(h) /\ ToldIsOwed(h)

\* Appending to the queues of acks and of grants, and taking a head.
LEMMA AppendAcks ==
    ASSUME NEW T, NEW q \in Seq(T), NEW e \in T
    PROVE  /\ \A n : Acks(Append(q, e), n) <=> Acks(q, n) \/ (e.op = "seen" /\ e.n = n)
           /\ \A n : GrantsSay(Append(q, e), n) <=> GrantsSay(q, n) /\ (e.op = "granted" /\ e.n > 0 => e.n = n)
<1> DEFINE a == Append(q, e)
<1>1. /\ Len(a) = Len(q) + 1 /\ a[Len(q) + 1] = e /\ Len(q) \in Nat
      /\ \A i \in 1..Len(q) : a[i] = q[i]
  OBVIOUS
<1>2. 1..(Len(q) + 1) = (1..Len(q)) \cup {Len(q) + 1}
  BY <1>1
<1> HIDE DEF a
<1>3. \A n : Acks(a, n) <=> Acks(q, n) \/ (e.op = "seen" /\ e.n = n)
  BY <1>1, <1>2 DEF Acks
<1>4. \A n : GrantsSay(a, n) <=> GrantsSay(q, n) /\ (e.op = "granted" /\ e.n > 0 => e.n = n)
  BY <1>1, <1>2 DEF GrantsSay
<1> QED BY <1>3, <1>4 DEF a

LEMMA TailAcks ==
    ASSUME NEW T, NEW q \in Seq(T), q # <<>>
    PROVE  /\ \A n : Acks(q, n) /\ ~(Head(q).op = "seen" /\ Head(q).n = n) => Acks(Tail(q), n)
           /\ \A n : GrantsSay(q, n) => GrantsSay(Tail(q), n)
                                        /\ (Head(q).op = "granted" /\ Head(q).n > 0 => Head(q).n = n)
<1> DEFINE t == Tail(q)
<1>1. /\ Head(q) = q[1] /\ Len(q) \in Nat /\ Len(q) >= 1 /\ Len(t) = Len(q) - 1
      /\ \A i \in 1..Len(t) : t[i] = q[i + 1]
  OBVIOUS
<1> HIDE DEF t
<1>2. ASSUME NEW n, NEW i \in 1..Len(q), q[i].op = "seen", q[i].n = n, ~(q[1].op = "seen" /\ q[1].n = n)
      PROVE  Acks(t, n)
  <2>1. i - 1 \in 1..Len(t) /\ t[i - 1] = q[i]
    BY <1>1, <1>2
  <2> QED BY <1>2, <2>1 DEF Acks
<1>3. \A n : Acks(q, n) /\ ~(Head(q).op = "seen" /\ Head(q).n = n) => Acks(t, n)
  BY <1>1, <1>2 DEF Acks
<1>4. \A n : GrantsSay(q, n) => GrantsSay(t, n) /\ (Head(q).op = "granted" /\ Head(q).n > 0 => Head(q).n = n)
  BY <1>1 DEF GrantsSay
<1> QED BY <1>3, <1>4 DEF t

LEMMA EmptyAcks == \A n : ~Acks(<<>>, n) /\ GrantsSay(<<>>, n)
BY DEF Acks, GrantsSay

\* Steps that touch no count, no grant and no ack.
LEMMA CountStands ==
    ASSUME CountInv, UNCHANGED <<standing, holder, owed, cmds, wire, back, cut, count, told, cuts>>,
           leaving' \in {leaving, None}, leaves' # 0 \/ UNCHANGED leaves
    PROVE  CountInv'
BY DEF CountInv, Quiet, GrantsCurrent, ToldIsOwed, Held

\* A host that holds no lease has nothing owed to it.
LEMMA CountByOne ==
    ASSUME Typed, CountInv, NEW h \in Host, UNCHANGED <<owed, count, cuts, leaves, told, leaving>>,
           \A k \in Host : k # h => /\ standing'[k] = standing[k] /\ holder'[k] = holder[k]
                                    /\ cmds'[k] = cmds[k] /\ wire'[k] = wire[k]
                                    /\ back'[k] = back[k] /\ cut'[k] = cut[k],
           cuts = 0 /\ leaves = 0 => (Quiet(h) /\ GrantsCurrent(h) /\ ToldIsOwed(h))'
    PROVE  CountInv'
<1> SUFFICES ASSUME cuts = 0, leaves = 0, NEW k \in Host
             PROVE  (Quiet(k) /\ GrantsCurrent(k) /\ ToldIsOwed(k))'
  BY DEF CountInv
<1>1. CASE k = h
  BY <1>1
<1>2. CASE k # h
  BY <1>2 DEF CountInv, Quiet, GrantsCurrent, ToldIsOwed, Held
<1> QED BY <1>1, <1>2

\* A command is queued to some holders: no leave, and no ack is lost.
LEMMA CountByAppend ==
    ASSUME Typed, CountInv, UNCHANGED <<standing, holder, leaving, wire, back, cut, count, told, cuts, leaves>>,
           NEW e, \A h \in Host : e[h] \in CmdType /\ e[h].op # "leave",
           \A h \in Host : cmds'[h] = cmds[h] \/ cmds'[h] = Append(cmds[h], e[h]),
           \A h \in Host : owed'[Root[h]] = owed[Root[h]]
                           \/ (Held(h) /\ told[h] = owed[Root[h]] => Acks(cmds'[h], told[h]))
    PROVE  CountInv'
<1> SUFFICES ASSUME cuts = 0, leaves = 0, NEW h \in Host
             PROVE  (Quiet(h) /\ GrantsCurrent(h) /\ ToldIsOwed(h))'
  BY DEF CountInv
<1>1. Quiet(h) /\ GrantsCurrent(h) /\ ToldIsOwed(h) /\ cmds[h] \in Seq(CmdType)
  BY DEF CountInv, Typed, TasksOK
<1>2. ~Has(Append(cmds[h], e[h]), "leave") /\ \A n : Acks(cmds[h], n) => Acks(Append(cmds[h], e[h]), n)
  BY <1>1, AppendReads, AppendAcks DEF Quiet
<1>3. Quiet(h)' /\ GrantsCurrent(h)'
  BY <1>1, <1>2 DEF Quiet, GrantsCurrent
<1>4. ToldIsOwed(h)'
  BY <1>1, <1>2 DEF ToldIsOwed, Held
<1> QED BY <1>3, <1>4

\* The steps of the transport tasks: a grant's count goes in with its holder.
LEMMA CountByHandshake ==
    ASSUME Typed, CountInv, AskingIsVacant, NEW h \in Host,
           Begin(h) \/ Send(h) \/ AskFails(h) \/ ReadGrant(h) \/ ReadRefusal(h) \/ Cancel(h)
    PROVE  CountInv'
<1>0. /\ holder \in [Host -> {"none", "live", "closed"}] /\ standing \in [Host -> Standings]
      /\ cmds \in [Host -> Seq(CmdType)] /\ wire \in [Host -> Seq(CmdType)]
      /\ back \in [Host -> Seq(BackType)] /\ cut \in [Host -> BOOLEAN]
      /\ told \in [Host -> Counts] /\ owed \in [Daemon -> Counts] /\ count \in [Daemon -> Counts]
  BY DEF Typed, BookOK, TasksOK, StreamOK, PastOK
<1>1. CASE Cancel(h)
  BY <1>1, CountStands DEF Cancel, CountDown, spent, past
<1>2. CASE Begin(h)
  <2>1. /\ holder' = [holder EXCEPT ![h] = "none"] /\ standing' = [standing EXCEPT ![h] = "pending"]
        /\ UNCHANGED <<leaving, owed, cmds, wire, back, cut, count, leaves, cuts, told>>
    BY <1>2 DEF Begin, stream, past
  <2>2. cuts = 0 /\ leaves = 0 => (Quiet(h) /\ GrantsCurrent(h) /\ ToldIsOwed(h))'
    BY <1>0, <2>1 DEF CountInv, Quiet, GrantsCurrent, ToldIsOwed, Held
  <2> QED BY <1>0, <2>1, <2>2, CountByOne
<1>3. CASE Send(h)
  <2>1. /\ wire' = [wire EXCEPT ![h] = <<>>] /\ back' = [back EXCEPT ![h] = <<>>]
        /\ cut' = [cut EXCEPT ![h] = FALSE] /\ hs[h] = "asking"
        /\ UNCHANGED <<leaving, standing, holder, owed, cmds, count, leaves, cuts, told>>
    BY <1>3 DEF Send, book, spent, past
  <2>2. ~Held(h)
    BY <2>1 DEF AskingIsVacant, Held
  <2>3. cuts = 0 /\ leaves = 0 => (Quiet(h) /\ GrantsCurrent(h) /\ ToldIsOwed(h))'
    BY <1>0, <2>1, <2>2, EmptyReads, EmptyAcks DEF CountInv, Quiet, GrantsCurrent, ToldIsOwed, Held
  <2> QED BY <1>0, <2>1, <2>3, CountByOne
<1>4. CASE AskFails(h) \/ ReadRefusal(h)
  <2>1. PICK s : Settle(h, s, FALSE)
    BY <1>4 DEF AskFails, ReadRefusal
  <2>2. /\ UNCHANGED <<owed, wire, cut, count, leaves, cuts, told>>
        /\ back' = back \/ (back[h] # <<>> /\ back' = [back EXCEPT ![h] = Tail(back[h])])
    BY <1>4 DEF AskFails, ReadRefusal, stream, spent, past
  <2>3. /\ standing' = [standing EXCEPT ![h] = s] /\ holder' = [holder EXCEPT ![h] = "none"]
        /\ UNCHANGED leaving /\ (leaving = None => cmds' = [cmds EXCEPT ![h] = <<>>])
        /\ \A k \in Host : k # h => cmds'[k] = cmds[k]
    BY <1>0, <2>1 DEF Settle
  <2>4. ASSUME cuts = 0, leaves = 0 PROVE (Quiet(h) /\ GrantsCurrent(h) /\ ToldIsOwed(h))'
    <3>1. leaving = None /\ Quiet(h) /\ GrantsCurrent(h)
      BY <2>4 DEF CountInv
    <3>2. Quiet(h)'
      BY <1>0, <2>2, <2>3, <3>1, EmptyReads DEF Quiet
    <3>3. \A n : GrantsSay(back[h], n) => GrantsSay(back'[h], n)
      <4>1. back[h] \in Seq(BackType)
        BY <1>0
      <4>2. CASE back' = back
        BY <4>2
      <4>3. CASE back[h] # <<>> /\ back' = [back EXCEPT ![h] = Tail(back[h])]
        <5>1. back'[h] = Tail(back[h])
          BY <1>0, <4>3
        <5> QED BY <4>1, <4>3, <5>1, TailAcks
      <4> QED BY <2>2, <4>2, <4>3
    <3>4. GrantsCurrent(h)' /\ ~Held(h)'
      BY <1>0, <2>2, <2>3, <3>1, <3>3 DEF GrantsCurrent, Held
    <3> QED BY <3>2, <3>4 DEF ToldIsOwed
  <2>5. \A k \in Host : k # h => /\ standing'[k] = standing[k] /\ holder'[k] = holder[k]
                                 /\ back'[k] = back[k]
    BY <1>0, <2>2, <2>3
  <2> QED BY <2>2, <2>3, <2>4, <2>5, CountByOne
<1>5. CASE ReadGrant(h)
  <2> DEFINE n == Head(back[h]).n
  <2>1. /\ back[h] # <<>> /\ Head(back[h]).op = "granted"
        /\ back' = [back EXCEPT ![h] = Tail(back[h])]
        /\ owed' = IF n > 0 THEN [owed EXCEPT ![Root[h]] = n] ELSE owed
        /\ told' = [told EXCEPT ![h] = n] /\ Settle(h, "granted", TRUE)
        /\ UNCHANGED <<wire, cut, count, leaves, cuts>>
    BY <1>5 DEF ReadGrant, spent
  <2>2. /\ standing' = [standing EXCEPT ![h] = "granted"] /\ holder' = [holder EXCEPT ![h] = "live"]
        /\ UNCHANGED leaving /\ (leaving = None => cmds' = [cmds EXCEPT ![h] = <<>>])
    BY <2>1 DEF Settle
  <2>3. n \in Counts
    <3>1. back[h] \in Seq(BackType)
      BY <1>0
    <3>2. Head(back[h]) \in BackType
      BY <2>1, <3>1, QueueSteps
    <3> QED BY <3>2 DEF BackType
  <2> SUFFICES ASSUME cuts = 0, leaves = 0, NEW k \in Host
               PROVE  (Quiet(k) /\ GrantsCurrent(k) /\ ToldIsOwed(k))'
    BY <2>1, <2>2 DEF CountInv
  <2>4. /\ leaving = None /\ Quiet(k) /\ GrantsCurrent(k) /\ ToldIsOwed(k) /\ GrantsCurrent(h)
        /\ cmds' = [cmds EXCEPT ![h] = <<>>]
    BY <2>2 DEF CountInv
  <2>5. Quiet(k)'
    BY <1>0, <2>1, <2>4, EmptyReads DEF Quiet
  <2>6. \A m : GrantsSay(back[k], m) => GrantsSay(back'[k], m)
    BY <1>0, <2>1, TailAcks
  <2>7. GrantsCurrent(k)'
    BY <2>1, <2>4, <2>6 DEF GrantsCurrent
  <2>8. count[Root[h]] > 0 /\ n > 0 => n = count[Root[h]]
    BY <1>0, <2>1, <2>4, TailAcks DEF GrantsCurrent
  <2>9. Root[h] \in Daemon /\ Root[k] \in Daemon /\ count[Root[h]] \in Counts
    BY <1>0, WindowAssumption
  <2>10. ToldIsOwed(k)'
    <3> SUFFICES ASSUME Held(k)', told'[k] > 0, count[Root[k]] = told'[k]
                 PROVE  owed'[Root[k]] = told'[k] \/ Acks(cmds'[k], told'[k]) \/ Acks(wire[k], told'[k])
      BY <2>1 DEF ToldIsOwed
    <3>1. CASE k = h
      BY <1>0, <2>1, <2>9, <3>1
    <3>2. CASE k # h
      <4>1. Held(k) /\ told'[k] = told[k] /\ cmds'[k] = cmds[k]
        BY <1>0, <2>1, <2>2, <2>4, <3>2 DEF Held
      <4>2. owed[Root[k]] = told[k] \/ Acks(cmds[k], told[k]) \/ Acks(wire[k], told[k])
        BY <2>4, <4>1 DEF ToldIsOwed
      <4>3. owed[Root[k]] = told[k] => owed'[Root[k]] = told[k]
        BY <1>0, <2>1, <2>8, <2>9, <4>1
      <4> QED BY <4>1, <4>2, <4>3
    <3> QED BY <3>1, <3>2
  <2> QED BY <2>5, <2>7, <2>10
<1> QED BY <1>1, <1>2, <1>3, <1>4, <1>5

\* The steps of the holder tasks.
LEMMA CountByHolder ==
    ASSUME Typed, CountInv, NEW h \in Host, HolderTakes(h) \/ HolderReads(h) \/ HolderEnds(h)
    PROVE  CountInv'
<1>0. /\ cmds \in [Host -> Seq(CmdType)] /\ wire \in [Host -> Seq(CmdType)]
      /\ back \in [Host -> Seq(BackType)]
  BY DEF Typed, TasksOK, StreamOK
<1>a. cmds[h] \in Seq(CmdType) /\ wire[h] \in Seq(CmdType) /\ back[h] \in Seq(BackType)
  BY <1>0
<1>1. CASE HolderTakes(h)
  <2>1. /\ cmds[h] # <<>> /\ cmds' = [cmds EXCEPT ![h] = Tail(cmds[h])]
        /\ wire' = IF Head(cmds[h]).op = "written" THEN wire
                   ELSE [wire EXCEPT ![h] = Append(wire[h], Head(cmds[h]))]
        /\ UNCHANGED <<standing, holder, leaving, owed, back, cut, count, leaves, cuts, told>>
    BY <1>1 DEF HolderTakes, book, spent, past
  <2>2. Head(cmds[h]) \in CmdType /\ Tail(cmds[h]) \in Seq(CmdType)
    BY <1>a, <2>1, TailReads
  <2>3. ASSUME cuts = 0, leaves = 0 PROVE (Quiet(h) /\ GrantsCurrent(h) /\ ToldIsOwed(h))'
    <3>1. Quiet(h) /\ GrantsCurrent(h) /\ ToldIsOwed(h)
      BY <2>3 DEF CountInv
    <3>2. cmds'[h] = Tail(cmds[h]) /\ Head(cmds[h]).op # "leave" /\ ~Has(Tail(cmds[h]), "leave")
      <4>1. Head(cmds[h]) = cmds[h][1] /\ 1 \in 1..Len(cmds[h])
        BY <1>a, <2>1
      <4>2. Head(cmds[h]).op # "leave"
        BY <3>1, <4>1 DEF Quiet, Has
      <4> QED BY <1>0, <1>a, <2>1, <3>1, <4>2, TailReads DEF Quiet
    <3>3. \A n : Acks(cmds[h], n) \/ Acks(wire[h], n) => Acks(cmds'[h], n) \/ Acks(wire'[h], n)
      <4>1. \A n : Acks(cmds[h], n) /\ ~(Head(cmds[h]).op = "seen" /\ Head(cmds[h]).n = n) => Acks(cmds'[h], n)
        BY <1>a, <2>1, <3>2, TailAcks
      <4>2. CASE Head(cmds[h]).op = "written"
        BY <2>1, <4>1, <4>2
      <4>3. CASE Head(cmds[h]).op # "written"
        <5>1. wire'[h] = Append(wire[h], Head(cmds[h]))
          BY <1>0, <2>1, <4>3
        <5> QED BY <1>a, <2>2, <4>1, <5>1, AppendAcks
      <4> QED BY <4>2, <4>3
    <3>4. Quiet(h)'
      <4>1. CASE Head(cmds[h]).op = "written"
        BY <2>1, <3>1, <3>2, <4>1 DEF Quiet
      <4>2. CASE Head(cmds[h]).op # "written"
        <5>1. wire'[h] = Append(wire[h], Head(cmds[h]))
          BY <1>0, <2>1, <4>2
        <5>2. ~Has(wire'[h], "leave")
          BY <1>a, <2>2, <3>1, <3>2, <5>1, AppendReads DEF Quiet
        <5> QED BY <2>1, <3>1, <3>2, <5>2 DEF Quiet
      <4> QED BY <4>1, <4>2
    <3> QED BY <2>1, <3>1, <3>3, <3>4 DEF GrantsCurrent, ToldIsOwed, Held
  <2>4. \A k \in Host : k # h => cmds'[k] = cmds[k] /\ wire'[k] = wire[k]
    BY <1>0, <2>1
  <2> QED BY <2>1, <2>3, <2>4, CountByOne
<1>2. CASE HolderReads(h)
  <2>1. /\ back[h] # <<>> /\ back' = [back EXCEPT ![h] = Tail(back[h])]
        /\ UNCHANGED <<standing, holder, leaving, owed, cmds, wire, cut, count, leaves, cuts, told>>
    BY <1>2 DEF HolderReads, book, spent, past
  <2>2. \A k \in Host : k # h => back'[k] = back[k]
    BY <1>0, <2>1
  <2>3. back'[h] = Tail(back[h]) /\ \A n : GrantsSay(back[h], n) => GrantsSay(Tail(back[h]), n)
    BY <1>0, <1>a, <2>1, TailAcks
  <2>4. cuts = 0 /\ leaves = 0 => (Quiet(h) /\ GrantsCurrent(h) /\ ToldIsOwed(h))'
    BY <2>1, <2>3 DEF CountInv, Quiet, GrantsCurrent, ToldIsOwed, Held
  <2> QED BY <2>1, <2>2, <2>4, CountByOne
<1>3. CASE HolderEnds(h)
  BY <1>3 DEF HolderEnds, CountInv, Quiet, spent
<1> QED BY <1>1, <1>2, <1>3

\* The steps of the daemon's end: an answer carries the count as it is, and
\* the count falls only to 0.
LEMMA CountByDaemon ==
    ASSUME Typed, CountInv, NEW h \in Host,
           DaemonAnswers(h) \/ DaemonReads(h) \/ DaemonSeesEnd(h) \/ DaemonCuts(h)
    PROVE  CountInv'
<1>0. /\ wire \in [Host -> Seq(CmdType)] /\ back \in [Host -> Seq(BackType)]
      /\ count \in [Daemon -> Counts] /\ cuts \in Nat
      /\ \A k \in Host : Root[k] \in Daemon /\ count[Root[k]] \in Counts
  BY WindowAssumption DEF Typed, StreamOK, PastOK
<1>a. wire[h] \in Seq(CmdType) /\ back[h] \in Seq(BackType)
  BY <1>0
<1>1. CASE DaemonAnswers(h)
  <2>1. PICK s \in Standings \ {"pending"} :
           back' = [back EXCEPT ![h] =
             Append(back[h], [op |-> s, id |-> 0, n |-> IF s = "granted" THEN count[Root[h]] ELSE 0])]
    BY <1>1 DEF DaemonAnswers
  <2> DEFINE r == [op |-> s, id |-> 0, n |-> IF s = "granted" THEN count[Root[h]] ELSE 0]
  <2>2. UNCHANGED <<standing, holder, leaving, owed, cmds, wire, cut, count, leaves, cuts, told>>
    BY <1>1 DEF DaemonAnswers, book, tasks, spent, past
  <2>3. r \in BackType /\ (r.op = "granted" /\ r.n > 0 => r.n = count[Root[h]])
    BY <1>0, WindowAssumption DEF BackType, Counts
  <2>4. back'[h] = Append(back[h], r) /\ \A k \in Host : k # h => back'[k] = back[k]
    BY <1>0, <2>1
  <2> HIDE DEF r
  <2>5. GrantsSay(back[h], count[Root[h]]) => GrantsSay(back'[h], count[Root[h]])
    BY <1>a, <2>3, <2>4, AppendAcks
  <2>6. cuts = 0 /\ leaves = 0 => (Quiet(h) /\ GrantsCurrent(h) /\ ToldIsOwed(h))'
    BY <2>2, <2>5 DEF CountInv, Quiet, GrantsCurrent, ToldIsOwed, Held
  <2> QED BY <2>2, <2>4, <2>6, CountByOne
<1>2. CASE DaemonReads(h)
  <2> DEFINE f == Head(wire[h])
  <2>1. /\ wire[h] # <<>> /\ wire' = [wire EXCEPT ![h] = Tail(wire[h])]
        /\ UNCHANGED <<standing, holder, leaving, owed, cmds, cut, leaves, cuts, told>>
    BY <1>2 DEF DaemonReads, book, tasks, spent, past
  <2> SUFFICES ASSUME cuts = 0, leaves = 0, NEW k \in Host
               PROVE  (Quiet(k) /\ GrantsCurrent(k) /\ ToldIsOwed(k))'
    BY <2>1 DEF CountInv
  <2>2. leaving = None /\ Quiet(h) /\ Quiet(k) /\ GrantsCurrent(k) /\ ToldIsOwed(k)
    BY DEF CountInv
  <2>3. f.op # "leave"
    <3>1. f = wire[h][1] /\ 1 \in 1..Len(wire[h])
      BY <1>a, <2>1
    <3> QED BY <2>2, <3>1 DEF Quiet, Has
  <2>4. /\ count' = IF count[Root[h]] = f.n THEN [count EXCEPT ![Root[h]] = 0] ELSE count
        /\ UNCHANGED back
    BY <1>2, <2>3 DEF DaemonReads
  <2>5. \/ count'[Root[k]] = 0
        \/ count'[Root[k]] = count[Root[k]] /\ (k = h => count[Root[k]] # f.n)
    BY <1>0, <2>4
  <2>6. Quiet(k)'
    <3>1. ~Has(Tail(wire[h]), "leave")
      BY <1>a, <2>1, <2>2, TailReads DEF Quiet
    <3> QED BY <1>0, <2>1, <2>2, <3>1 DEF Quiet
  <2>7. GrantsCurrent(k)'
    BY <2>2, <2>4, <2>5 DEF GrantsCurrent
  <2>8. ASSUME Held(k), told[k] > 0, count'[Root[k]] = told[k], Acks(wire[k], told[k]) PROVE Acks(wire'[k], told[k])
    <3>1. CASE k # h
      BY <1>0, <2>1, <2>8, <3>1
    <3>2. CASE k = h
      <4>1. told[k] # f.n /\ wire'[k] = Tail(wire[h])
        BY <1>0, <2>1, <2>5, <2>8, <3>2
      <4> QED BY <1>a, <2>1, <2>8, <3>2, <4>1, TailAcks
    <3> QED BY <3>1, <3>2
  <2>9. ToldIsOwed(k)'
    <3>1. told'[k] = told[k] /\ (Held(k)' <=> Held(k)) /\ owed' = owed /\ cmds' = cmds
      BY <2>1 DEF Held
    <3>2. told[k] > 0 /\ count'[Root[k]] = told[k] => count[Root[k]] = told[k]
      BY <1>0, <2>5
    <3> QED BY <2>2, <2>8, <3>1, <3>2 DEF ToldIsOwed
  <2> QED BY <2>6, <2>7, <2>9
<1>3. CASE DaemonSeesEnd(h)
  BY <1>3, CountStands DEF DaemonSeesEnd, book, tasks, spent, past
<1>4. CASE DaemonCuts(h)
  BY <1>0, <1>4 DEF DaemonCuts, CountInv
<1> QED BY <1>1, <1>2, <1>3, <1>4

LEMMA NextCounts == Typed /\ AskingIsVacant /\ CountInv /\ [Next]_vars => CountInv'
<1> SUFFICES ASSUME Typed, AskingIsVacant, CountInv, [Next]_vars PROVE CountInv'
  OBVIOUS
<1>1. CASE FramePresented
  <2> DEFINE e == [h \in Host |-> NoticeSeen(drawn[Root[h]])]
  <2>1. /\ owed' = [d \in Daemon |-> IF owed[d] = drawn[d] THEN 0 ELSE owed[d]]
        /\ \A h \in Host : cmds'[h] = IF drawn[Root[h]] > 0 /\ Held(h)
                                      THEN Append(cmds[h], NoticeSeen(drawn[Root[h]])) ELSE cmds[h]
        /\ UNCHANGED <<standing, holder, leaving, wire, back, cut, count, told, cuts, leaves>>
    BY <1>1 DEF FramePresented, stream, spent
  <2>2. \A h \in Host : Root[h] \in Daemon /\ drawn[Root[h]] \in Counts /\ owed[Root[h]] \in Counts
    BY WindowAssumption DEF Typed, WindowOK, BookOK
  <2>3. \A h \in Host : e[h] \in CmdType /\ e[h].op = "seen" /\ e[h].n = drawn[Root[h]]
    BY <2>2, CmdTypes DEF NoticeSeen
  <2>4. \A h \in Host : cmds'[h] = IF drawn[Root[h]] > 0 /\ Held(h) THEN Append(cmds[h], e[h]) ELSE cmds[h]
    BY <2>1
  <2> HIDE DEF e
  <2>5. ASSUME NEW h \in Host
        PROVE  owed'[Root[h]] = owed[Root[h]] \/ (Held(h) /\ told[h] = owed[Root[h]] => Acks(cmds'[h], told[h]))
    <3>1. CASE owed[Root[h]] # drawn[Root[h]] \/ drawn[Root[h]] = 0
      BY <2>1, <2>2, <3>1
    <3>2. CASE owed[Root[h]] = drawn[Root[h]] /\ drawn[Root[h]] # 0
      <4>1. drawn[Root[h]] > 0
        BY <2>2, <3>2 DEF Counts
      <4>2. cmds[h] \in Seq(CmdType)
        BY DEF Typed, TasksOK
      <4>3. Acks(Append(cmds[h], e[h]), drawn[Root[h]])
        BY <2>3, <4>2, AppendAcks
      <4> QED BY <2>4, <3>2, <4>1, <4>3
    <3> QED BY <3>1, <3>2
  <2> QED BY <2>1, <2>3, <2>4, <2>5, CountByAppend
<1>2. CASE LinePresented
  <2> DEFINE e == [h \in Host |-> NoticeSeen(lv.outcome[h].n)]
  <2>1. /\ UNCHANGED <<owed, standing, holder, leaving, wire, back, cut, count, told, cuts, leaves>>
        /\ \A h \in Host : cmds'[h] = IF h \in lv.acks /\ Held(h)
                                      THEN Append(cmds[h], NoticeSeen(lv.outcome[h].n)) ELSE cmds[h]
    BY <1>2 DEF LinePresented, book, stream, spent
  <2>2. \A h \in Host : lv.outcome[h].n \in Counts
    BY DEF Typed, WindowOK, LeavingType, OutcomeType
  <2>3. \A h \in Host : e[h] \in CmdType /\ e[h].op # "leave"
    BY <2>2, CmdTypes DEF NoticeSeen
  <2>4. \A h \in Host : cmds'[h] = cmds[h] \/ cmds'[h] = Append(cmds[h], e[h])
    BY <2>1
  <2> HIDE DEF e
  <2> QED BY <2>1, <2>3, <2>4, CountByAppend
<1>3. ASSUME NEW r \in Reasons, AsksNow(r) PROVE CountInv'
  <2> DEFINE e == [h \in Host |-> Written]
  <2>1. \A h \in Host : e[h] \in CmdType /\ e[h].op # "leave"
    BY CmdTypes DEF Written
  <2>2. /\ UNCHANGED <<owed, standing, holder, leaving, wire, back, cut, count, told, cuts, leaves>>
        /\ \A h \in Host : cmds'[h] = cmds[h] \/ cmds'[h] = Append(cmds[h], e[h])
    BY <1>3 DEF AsksNow, Deliver, book, stream, spent
  <2> HIDE DEF e
  <2> QED BY <2>1, <2>2, CountByAppend
<1>4. ASSUME NEW r \in Reasons, AsksToLeave(r) \/ AsksAgain(r) PROVE CountInv'
  <2>1. \E i \in Intents, code \in {0, Relaunch} : Leaves(i, code)
    BY <1>4 DEF AsksToLeave, AsksAgain, LeaveOf, Intents, Reasons
  <2>2. leaves' = leaves + 1 /\ leaves \in Nat
    BY <2>1 DEF Leaves, LeaveAll, Typed, PastOK
  <2> QED BY <2>2 DEF CountInv
<1>5. CASE NativeClose
  BY <1>5 DEF NativeClose, CountInv, Typed, PastOK
<1>6. CASE Stays \/ AsksAndStays
  BY <1>6, CountStands DEF Stays, AsksAndStays, StayTaken, tasks, stream, spent, past
<1>7. CASE FrameDraws \/ FrameDropped \/ Delivered \/ DeadlinePasses \/ ProcessEnds
  BY <1>7, CountStands
  DEF FrameDraws, FrameDropped, Delivered, DeadlinePasses, ProcessEnds, book, tasks, stream, spent, past
<1>8. CASE PollWaits \/ PollStays \/ PollShows \/ PollExits \/ LineEnds
  BY <1>8, CountStands
  DEF PollWaits, PollStays, PollShows, PollExits, LineEnds, book, tasks, stream, spent, past
<1>9. ASSUME NEW d \in Daemon, CountGrows(d) PROVE CountInv'
  BY <1>9 DEF CountGrows, CountInv, Typed, PastOK
<1>10. CASE UNCHANGED vars
  BY <1>10, CountStands DEF vars, book, tasks, stream, spent, past
<1> QED BY <1>1, <1>2, <1>3, <1>4, <1>5, <1>6, <1>7, <1>8, <1>9, <1>10,
           CountByHandshake, CountByHolder, CountByDaemon DEF Next

\* A count a grant carried is not lost: until the window leaves or the daemon
\* fails, and while the daemon keeps the count, a frame will draw it or its ack
\* is on its way.  The count and the holder go in
\* under one lock, and so do the count's removal and the acks (settle,
\* notice_seen), also where several labels name one daemon.
THEOREM NoCountIsLost == Spec => []CountIsOwedOrAcked
<1>1. Init => CountInv
  BY EmptyReads, EmptyAcks DEF Init, CountInv, Quiet, GrantsCurrent, ToldIsOwed, Held
<1>2. Spec => []CountInv
  <2>1. ReceiptInv => AskingIsVacant
    BY DEF ReceiptInv
  <2> QED BY <1>1, <2>1, TypesInvariant, ReceiptInvariant, NextCounts, PTL DEF Spec
<1>3. CountInv => CountIsOwedOrAcked
  BY DEF CountInv, ToldIsOwed, Acks, CountIsOwedOrAcked, AckOnItsWay
<1> QED BY <1>2, <1>3, PTL

(***************************************************************************)
(* The lease at the daemon and in the window.                              *)
(*                                                                         *)
(* A stream that has asked carries nothing of an earlier lease, so a grant *)
(* read from it is one the daemon still holds or has cut; and a lease the  *)
(* daemon knows of belongs to a handshake that has asked or to a holder.   *)
(***************************************************************************)

\* No reply of a lease, and no grant the daemon has gone back on.
Fresh(q, holds) == \A i \in 1..Len(q) : q[i].op # "left" /\ (q[i].op = "granted" => holds)

AskedIsFresh(h) ==
    Running /\ hs[h] = "sent" =>
        /\ wire[h] = <<>> /\ ~eof[h]
        /\ srv[h].pc = "asked" => back[h] = <<>>
        /\ Fresh(back[h], srv[h].pc = "held" \/ cut[h])
OpenIsOurs(h) == Running /\ Leased(h) => hs[h] = "sent" \/ Held(h)
StreamInv == \A h \in Host : AskedIsFresh(h) /\ OpenIsOurs(h)

\* Steps that touch no stream and no lease, and the end of the process.
LEMMA StreamsStand ==
    ASSUME StreamInv, UNCHANGED <<standing, holder, hs, wire, back, cut, srv>>,
           exit' # None \/ UNCHANGED <<exit, eof>>
    PROVE  StreamInv'
BY DEF StreamInv, AskedIsFresh, OpenIsOurs, Running, Leased, Held

\* Steps of one host's tasks or of its stream.
LEMMA StreamsByOne ==
    ASSUME StreamInv, UNCHANGED exit, NEW h \in Host,
           \A k \in Host : k # h => /\ standing'[k] = standing[k] /\ holder'[k] = holder[k]
                                    /\ hs'[k] = hs[k] /\ wire'[k] = wire[k] /\ back'[k] = back[k]
                                    /\ cut'[k] = cut[k] /\ eof'[k] = eof[k] /\ srv'[k] = srv[k],
           AskedIsFresh(h)', OpenIsOurs(h)'
    PROVE  StreamInv'
<1> SUFFICES ASSUME NEW k \in Host PROVE AskedIsFresh(k)' /\ OpenIsOurs(k)'
  BY DEF StreamInv
<1>1. CASE k = h
  BY <1>1
<1>2. CASE k # h
  BY <1>2 DEF StreamInv, AskedIsFresh, OpenIsOurs, Running, Leased, Held
<1> QED BY <1>1, <1>2

\* The steps of the transport tasks.
LEMMA StreamsByHandshake ==
    ASSUME Typed, AskingIsVacant, StreamInv, NEW h \in Host,
           Begin(h) \/ Send(h) \/ AskFails(h) \/ ReadGrant(h) \/ ReadRefusal(h) \/ Cancel(h)
    PROVE  StreamInv'
<1>0. /\ standing \in [Host -> Standings] /\ holder \in [Host -> {"none", "live", "closed"}]
      /\ hs \in HsType /\ wire \in [Host -> Seq(CmdType)] /\ back \in [Host -> Seq(BackType)]
      /\ cut \in [Host -> BOOLEAN] /\ eof \in [Host -> BOOLEAN] /\ srv \in [Host -> SrvType]
  BY DEF Typed, BookOK, TasksOK, StreamOK
<1>a. AskedIsFresh(h) /\ OpenIsOurs(h) /\ back[h] \in Seq(BackType)
  BY <1>0 DEF StreamInv
<1>1. CASE Begin(h)
  <2>1. /\ ~Held(h) /\ hs[h] = "none"
        /\ hs' = [hs EXCEPT ![h] = "asking"] /\ standing' = [standing EXCEPT ![h] = "pending"]
        /\ holder' = [holder EXCEPT ![h] = "none"] /\ UNCHANGED <<exit, wire, back, cut, eof, srv>>
    BY <1>1 DEF Begin, window, stream
  <2>2. AskedIsFresh(h)' /\ OpenIsOurs(h)'
    BY <1>0, <1>a, <2>1 DEF AskedIsFresh, OpenIsOurs, Running, Leased, HsType
  <2>3. \A k \in Host : k # h => standing'[k] = standing[k] /\ holder'[k] = holder[k] /\ hs'[k] = hs[k]
    BY <1>0, <2>1 DEF HsType
  <2> QED BY <2>1, <2>2, <2>3, StreamsByOne
<1>2. CASE Send(h)
  <2>1. /\ hs' = [hs EXCEPT ![h] = "sent"] /\ srv' = [srv EXCEPT ![h] = [pc |-> "asked", heard |-> None]]
        /\ wire' = [wire EXCEPT ![h] = <<>>] /\ back' = [back EXCEPT ![h] = <<>>]
        /\ cut' = [cut EXCEPT ![h] = FALSE] /\ eof' = [eof EXCEPT ![h] = FALSE]
        /\ UNCHANGED <<exit, standing, holder>>
    BY <1>2 DEF Send, window, book
  <2>2. hs'[h] = "sent" /\ wire'[h] = <<>> /\ back'[h] = <<>> /\ ~eof'[h]
    BY <1>0, <2>1 DEF HsType
  <2>3. AskedIsFresh(h)' /\ OpenIsOurs(h)'
    BY <2>2 DEF AskedIsFresh, OpenIsOurs, Fresh
  <2>4. \A k \in Host : k # h => /\ hs'[k] = hs[k] /\ wire'[k] = wire[k] /\ back'[k] = back[k]
                                 /\ cut'[k] = cut[k] /\ eof'[k] = eof[k] /\ srv'[k] = srv[k]
    BY <1>0, <2>1 DEF HsType
  <2> QED BY <2>1, <2>3, <2>4, StreamsByOne
<1>3. CASE AskFails(h) \/ ReadGrant(h) \/ ReadRefusal(h)
  <2>1. PICK s : \E live \in BOOLEAN : Settle(h, s, live) /\ (ReadGrant(h) => live /\ s = "granted")
    BY <1>3 DEF AskFails, ReadGrant, ReadRefusal
  <2>2. /\ hs' = [hs EXCEPT ![h] = "none"] /\ standing' = [standing EXCEPT ![h] = s]
        /\ \E live \in BOOLEAN : holder' = [holder EXCEPT ![h] = IF live THEN "live" ELSE "none"]
                                 /\ (ReadGrant(h) => live /\ s = "granted")
    BY <2>1 DEF Settle, CountDown
  <2>3. /\ UNCHANGED <<exit, wire, cut, srv>>
        /\ back' = back \/ back' = [back EXCEPT ![h] = Tail(back[h])]
        /\ eof' = eof \/ eof' = [eof EXCEPT ![h] = TRUE]
    BY <1>3 DEF AskFails, ReadGrant, ReadRefusal, window, stream
  <2>4. AskedIsFresh(h)'
    BY <1>0, <2>2 DEF AskedIsFresh, HsType
  <2>5. OpenIsOurs(h)'
    <3>1. CASE AskFails(h)
      <4>1. hs[h] = "asking" /\ UNCHANGED <<exit, eof, srv>>
        BY <3>1 DEF AskFails, window, stream
      <4>2. ~Held(h)
        BY <4>1 DEF AskingIsVacant, Held
      <4> QED BY <1>a, <4>1, <4>2 DEF OpenIsOurs, Running, Leased
    <3>2. CASE ReadGrant(h)
      BY <1>0, <2>2, <3>2 DEF OpenIsOurs, Held
    <3>3. CASE ReadRefusal(h)
      <4>1. eof'[h]
        BY <1>0, <3>3 DEF ReadRefusal
      <4> QED BY <4>1 DEF OpenIsOurs, Leased
    <3> QED BY <1>3, <3>1, <3>2, <3>3
  <2>6. \A k \in Host : k # h => /\ standing'[k] = standing[k] /\ holder'[k] = holder[k] /\ hs'[k] = hs[k]
                                 /\ back'[k] = back[k] /\ eof'[k] = eof[k]
    BY <1>0, <2>2, <2>3 DEF HsType
  <2> QED BY <2>3, <2>4, <2>5, <2>6, StreamsByOne
<1>4. CASE Cancel(h)
  <2>1. /\ hs' = [hs EXCEPT ![h] = "none"] /\ eof' = [eof EXCEPT ![h] = TRUE]
        /\ UNCHANGED <<exit, standing, holder, wire, back, cut, srv>>
    BY <1>4 DEF Cancel, CountDown, window
  <2>2. AskedIsFresh(h)' /\ OpenIsOurs(h)'
    BY <1>0, <2>1 DEF AskedIsFresh, OpenIsOurs, Leased, HsType
  <2>3. \A k \in Host : k # h => hs'[k] = hs[k] /\ eof'[k] = eof[k]
    BY <1>0, <2>1 DEF HsType
  <2> QED BY <2>1, <2>2, <2>3, StreamsByOne
<1> QED BY <1>1, <1>2, <1>3, <1>4

\* The steps of the holder tasks: their handshake is over.
LEMMA StreamsByHolder ==
    ASSUME Typed, AskingIsVacant, StreamInv, NEW h \in Host, HolderTakes(h) \/ HolderReads(h) \/ HolderEnds(h)
    PROVE  StreamInv'
<1>0. /\ holder \in [Host -> {"none", "live", "closed"}] /\ wire \in [Host -> Seq(CmdType)]
      /\ back \in [Host -> Seq(BackType)] /\ eof \in [Host -> BOOLEAN] /\ hs \in HsType
  BY DEF Typed, BookOK, TasksOK, StreamOK
<1>1. holder[h] = "live" /\ UNCHANGED <<standing, hs, cut, srv, exit>>
  BY DEF HolderTakes, HolderReads, HolderEnds, book, window
<1>2. hs[h] = "none" /\ hs'[h] = "none"
  BY <1>0, <1>1 DEF AskingIsVacant, HsType
<1>3. AskedIsFresh(h)'
  BY <1>2 DEF AskedIsFresh
<1>4. OpenIsOurs(h)'
  <2>1. CASE HolderTakes(h) \/ HolderReads(h)
    BY <1>1, <2>1 DEF HolderTakes, HolderReads, book, StreamInv, OpenIsOurs, Running, Leased, Held
  <2>2. CASE HolderEnds(h)
    <3>1. eof'[h]
      BY <1>0, <2>2 DEF HolderEnds
    <3> QED BY <3>1 DEF OpenIsOurs, Leased
  <2> QED BY <2>1, <2>2
<1>5. \A k \in Host : k # h => /\ holder'[k] = holder[k] /\ wire'[k] = wire[k]
                               /\ back'[k] = back[k] /\ eof'[k] = eof[k]
  <2>1. CASE HolderTakes(h)
    BY <1>0, <2>1 DEF HolderTakes, book
  <2>2. CASE HolderReads(h)
    BY <1>0, <2>2 DEF HolderReads, book
  <2>3. CASE HolderEnds(h)
    BY <1>0, <2>3 DEF HolderEnds
  <2> QED BY <2>1, <2>2, <2>3
<1> QED BY <1>1, <1>3, <1>4, <1>5, StreamsByOne

\* The steps of the daemon's end.
LEMMA StreamsByDaemon ==
    ASSUME Typed, StreamInv, NEW h \in Host,
           DaemonAnswers(h) \/ DaemonReads(h) \/ DaemonSeesEnd(h) \/ DaemonCuts(h)
    PROVE  StreamInv'
<1>0. /\ wire \in [Host -> Seq(CmdType)] /\ back \in [Host -> Seq(BackType)]
      /\ cut \in [Host -> BOOLEAN] /\ eof \in [Host -> BOOLEAN] /\ srv \in [Host -> SrvType]
  BY DEF Typed, StreamOK
<1>a. AskedIsFresh(h) /\ OpenIsOurs(h)
  BY DEF StreamInv
<1>b. UNCHANGED <<standing, holder, hs, exit, eof>>
  BY DEF DaemonAnswers, DaemonReads, DaemonSeesEnd, DaemonCuts, book, tasks, window
<1>1. CASE DaemonAnswers(h)
  <2>1. PICK s \in Standings \ {"pending"} :
          /\ back' = [back EXCEPT ![h] =
                Append(back[h], [op |-> s, id |-> 0, n |-> IF s = "granted" THEN count[Root[h]] ELSE 0])]
          /\ srv' = [srv EXCEPT ![h] = [srv[h] EXCEPT !.pc = IF s = "granted" THEN "held" ELSE "none"]]
          /\ srv[h].pc = "asked" /\ UNCHANGED <<wire, cut>>
    BY <1>1 DEF DaemonAnswers
  <2> DEFINE r == [op |-> s, id |-> 0, n |-> IF s = "granted" THEN count[Root[h]] ELSE 0]
  <2>2. r.op = s /\ s # "left"
    BY DEF Standings
  <2> HIDE DEF r
  <2>3. back'[h] = Append(back[h], r) /\ srv'[h].pc = IF s = "granted" THEN "held" ELSE "none"
    BY <1>0, <2>1 DEF r, SrvType
  <2>4. AskedIsFresh(h)'
    <3> SUFFICES ASSUME Running, hs[h] = "sent"
                 PROVE  wire[h] = <<>> /\ ~eof[h] /\ Fresh(back'[h], srv'[h].pc = "held" \/ cut[h])
      BY <1>b, <2>1, <2>3 DEF AskedIsFresh, Running
    <3>1. wire[h] = <<>> /\ ~eof[h] /\ back[h] = <<>>
      BY <1>a, <2>1 DEF AskedIsFresh
    <3>2. Len(back'[h]) = 1 /\ back'[h][1] = r
      BY <2>3, <3>1
    <3> QED BY <2>2, <2>3, <3>1, <3>2 DEF Fresh
  <2>5. OpenIsOurs(h)'
    BY <1>a, <1>b, <2>1 DEF OpenIsOurs, Running, Leased, Held
  <2>6. \A k \in Host : k # h => back'[k] = back[k] /\ srv'[k] = srv[k]
    BY <1>0, <2>1
  <2> QED BY <1>b, <2>1, <2>4, <2>5, <2>6, StreamsByOne
<1>2. CASE DaemonReads(h)
  <2>1. /\ wire[h] # <<>> /\ srv[h].pc # "none" /\ UNCHANGED cut
        /\ wire' = [wire EXCEPT ![h] = Tail(wire[h])]
        /\ srv' = srv \/ srv' = [srv EXCEPT ![h] = [pc |-> "left", heard |-> Head(wire[h]).intent]]
        /\ back' = back \/ \E r : back' = [back EXCEPT ![h] = Append(back[h], r)]
    BY <1>2 DEF DaemonReads
  <2>2. AskedIsFresh(h)' /\ OpenIsOurs(h)'
    BY <1>a, <1>b, <2>1 DEF AskedIsFresh, OpenIsOurs, Running, Leased, Held
  <2>3. \A k \in Host : k # h => wire'[k] = wire[k] /\ back'[k] = back[k] /\ srv'[k] = srv[k]
    BY <1>0, <2>1
  <2> QED BY <1>b, <2>1, <2>2, <2>3, StreamsByOne
<1>3. CASE DaemonSeesEnd(h)
  <2>1. /\ eof[h] /\ srv' = [srv EXCEPT ![h] = [srv[h] EXCEPT !.pc = "none"]]
        /\ UNCHANGED <<wire, back, cut>>
    BY <1>3 DEF DaemonSeesEnd
  <2>2. AskedIsFresh(h)' /\ OpenIsOurs(h)'
    BY <1>a, <1>b, <2>1 DEF AskedIsFresh, OpenIsOurs, Running, Leased
  <2>3. \A k \in Host : k # h => srv'[k] = srv[k]
    BY <1>0, <2>1
  <2> QED BY <1>b, <2>1, <2>2, <2>3, StreamsByOne
<1>4. CASE DaemonCuts(h)
  <2>1. /\ srv' = [srv EXCEPT ![h] = [srv[h] EXCEPT !.pc = "none"]] /\ cut' = [cut EXCEPT ![h] = TRUE]
        /\ wire' = [wire EXCEPT ![h] = <<>>] /\ UNCHANGED back
    BY <1>4 DEF DaemonCuts
  <2>2. srv'[h].pc = "none" /\ cut'[h] /\ wire'[h] = <<>>
    BY <1>0, <2>1 DEF SrvType
  <2>3. AskedIsFresh(h)' /\ OpenIsOurs(h)'
    BY <1>a, <1>b, <2>1, <2>2 DEF AskedIsFresh, OpenIsOurs, Running, Leased, Fresh
  <2>4. \A k \in Host : k # h => wire'[k] = wire[k] /\ cut'[k] = cut[k] /\ srv'[k] = srv[k]
    BY <1>0, <2>1
  <2> QED BY <1>b, <2>1, <2>3, <2>4, StreamsByOne
<1> QED BY <1>1, <1>2, <1>3, <1>4

\* The UI thread's steps: none touches a stream while the window runs.
LEMMA WindowLeavesStreams ==
    ASSUME Typed,
           \/ FrameDraws \/ FramePresented \/ FrameDropped
           \/ \E r \in Reasons : AsksToLeave(r) \/ AsksAgain(r) \/ AsksNow(r)
           \/ AsksAndStays \/ NativeClose \/ Delivered \/ DeadlinePasses \/ PollSteps
           \/ LinePresented \/ ProcessEnds \/ (\E d \in Daemon : CountGrows(d)) \/ UNCHANGED vars
    PROVE  /\ UNCHANGED <<standing, holder, hs, wire, back, cut, srv>>
           /\ exit' # None \/ UNCHANGED <<exit, eof>>
<1>0. lv.code \in {0, Relaunch} /\ 0 # None /\ Relaunch # None
  BY WindowAssumption DEF Typed, WindowOK, LeavingType, Relaunch
<1>1. ASSUME NEW r \in Reasons, AsksToLeave(r) \/ AsksAgain(r)
      PROVE  /\ UNCHANGED <<standing, holder, hs, wire, back, cut, srv>>
             /\ exit' # None \/ UNCHANGED <<exit, eof>>
  <2>1. PICK i \in Intents, code \in {0, Relaunch} : Leaves(i, code)
    BY <1>1 DEF AsksToLeave, AsksAgain, LeaveOf, Intents, Reasons
  <2> QED BY <1>0, <2>1 DEF Leaves, LeaveAll, Finish
<1>2. ASSUME NEW r \in Reasons, AsksNow(r)
      PROVE  UNCHANGED <<standing, holder, hs, wire, back, cut, srv, exit, eof>>
  BY <1>2 DEF AsksNow, book, stream
<1>3. CASE FrameDraws \/ FramePresented \/ FrameDropped \/ AsksAndStays \/ NativeClose \/ Delivered
           \/ DeadlinePasses \/ LinePresented \/ (\E d \in Daemon : CountGrows(d)) \/ UNCHANGED vars
  BY <1>3
  DEF FrameDraws, FramePresented, FrameDropped, AsksAndStays, StayTaken, NativeClose, Delivered,
      DeadlinePasses, LinePresented, CountGrows, vars, book, tasks, window, stream
<1>4. CASE PollWaits \/ PollStays \/ Stays \/ PollShows
  BY <1>4 DEF PollWaits, PollStays, Stays, StayTaken, PollShows, tasks, stream
<1>5. CASE PollExits \/ LineEnds \/ ProcessEnds
  <2>1. UNCHANGED <<standing, holder, hs, wire, back, cut, srv>>
    BY <1>5 DEF PollExits, LineEnds, ProcessEnds, book, tasks
  <2>2. exit' # None \/ UNCHANGED <<exit, eof>>
    BY <1>0, <1>5 DEF PollExits, LineEnds, ProcessEnds, Finish
  <2> QED BY <2>1, <2>2
<1> QED BY <1>1, <1>2, <1>3, <1>4, <1>5 DEF PollSteps

LEMMA NextStreams == Typed /\ AskingIsVacant /\ StreamInv /\ [Next]_vars => StreamInv'
BY StreamsStand, WindowLeavesStreams, StreamsByHandshake, StreamsByHolder, StreamsByDaemon
DEF Next, PollSteps

LEMMA StreamInvariant == Spec => []StreamInv
<1>1. Init => StreamInv
  BY DEF Init, StreamInv, AskedIsFresh, OpenIsOurs, Leased, NoSrv
<1>2. ReceiptInv => AskingIsVacant
  BY DEF ReceiptInv
<1> QED BY <1>1, <1>2, TypesInvariant, ReceiptInvariant, NextStreams, PTL DEF Spec

(***************************************************************************)
(* A held lease, with one host.                                            *)
(*                                                                         *)
(* Outside a leave nothing on its way departs the lease.  A stay takes the *)
(* leave back only for a request in flight, which with one host is that    *)
(* host's own: no leave of a held lease is ever taken back.                *)
(***************************************************************************)

NothingDeparts(h) ==
    Running /\ leaving = None /\ Held(h) =>
        /\ ~Has(cmds[h], "leave") /\ ~Has(wire[h], "leave") /\ ~eof[h]
        /\ cut[h] \/ srv[h].pc = "held"
LeaseInv == \A h \in Host : NothingDeparts(h)

\* Steps that touch no lease, no command and no stream while the window runs.
LEMMA LeaseStands ==
    ASSUME LeaseInv, UNCHANGED <<standing, holder, cmds, wire, cut, srv>>,
           exit' # None \/ UNCHANGED <<exit, eof>>, leaving' = None => leaving = None
    PROVE  LeaseInv'
BY DEF LeaseInv, NothingDeparts, Running, Held

\* Steps of one host's tasks or of its stream.
LEMMA LeaseByOne ==
    ASSUME LeaseInv, UNCHANGED <<exit, leaving>>, NEW h \in Host,
           \A k \in Host : k # h => /\ standing'[k] = standing[k] /\ holder'[k] = holder[k]
                                    /\ cmds'[k] = cmds[k] /\ wire'[k] = wire[k]
                                    /\ cut'[k] = cut[k] /\ eof'[k] = eof[k] /\ srv'[k] = srv[k],
           NothingDeparts(h)'
    PROVE  LeaseInv'
<1> SUFFICES ASSUME NEW k \in Host PROVE NothingDeparts(k)'
  BY DEF LeaseInv
<1>1. CASE k = h
  BY <1>1
<1>2. CASE k # h
  BY <1>2 DEF LeaseInv, NothingDeparts, Running, Held
<1> QED BY <1>1, <1>2

\* A command other than a leave is queued to some holders.
LEMMA LeaseByAppend ==
    ASSUME Typed, LeaseInv, UNCHANGED <<standing, holder, wire, cut, srv, exit, eof, leaving>>,
           NEW e, \A h \in Host : e[h] \in CmdType /\ e[h].op # "leave",
           \A h \in Host : cmds'[h] = cmds[h] \/ cmds'[h] = Append(cmds[h], e[h])
    PROVE  LeaseInv'
<1> SUFFICES ASSUME NEW h \in Host PROVE NothingDeparts(h)'
  BY DEF LeaseInv
<1>1. cmds[h] \in Seq(CmdType)
  BY DEF Typed, TasksOK
<1>2. Has(Append(cmds[h], e[h]), "leave") <=> Has(cmds[h], "leave") \/ e[h].op = "leave"
  BY <1>1, AppendReads
<1>3. ~Has(cmds[h], "leave") => ~Has(cmds'[h], "leave")
  BY <1>2
<1> QED BY <1>3 DEF LeaseInv, NothingDeparts, Running, Held

\* The steps of the transport tasks: a grant is read from a fresh stream.
LEMMA LeaseByHandshake ==
    ASSUME Typed, AskingIsVacant, StreamInv, LeaseInv, NEW h \in Host,
           Begin(h) \/ Send(h) \/ AskFails(h) \/ ReadGrant(h) \/ ReadRefusal(h) \/ Cancel(h)
    PROVE  LeaseInv'
<1>0. /\ standing \in [Host -> Standings] /\ holder \in [Host -> {"none", "live", "closed"}]
      /\ cmds \in [Host -> Seq(CmdType)] /\ wire \in [Host -> Seq(CmdType)]
      /\ cut \in [Host -> BOOLEAN] /\ eof \in [Host -> BOOLEAN] /\ srv \in [Host -> SrvType]
      /\ back[h] \in Seq(BackType)
  BY DEF Typed, BookOK, TasksOK, StreamOK
<1>1. CASE Begin(h)
  <2>1. /\ standing' = [standing EXCEPT ![h] = "pending"] /\ holder' = [holder EXCEPT ![h] = "none"]
        /\ UNCHANGED <<exit, leaving, cmds, wire, cut, eof, srv>>
    BY <1>1 DEF Begin, window, stream
  <2>2. NothingDeparts(h)'
    BY <1>0, <2>1 DEF NothingDeparts, Held
  <2>3. \A k \in Host : k # h => standing'[k] = standing[k] /\ holder'[k] = holder[k]
    BY <1>0, <2>1
  <2> QED BY <2>1, <2>2, <2>3, LeaseByOne
<1>2. CASE Send(h) \/ Cancel(h)
  <2>1. hs[h] # "none" /\ UNCHANGED <<exit, leaving, standing, holder, cmds>>
    BY <1>2 DEF Send, Cancel, window, book
  <2>2. NothingDeparts(h)'
    BY <2>1 DEF AskingIsVacant, NothingDeparts, Held
  <2>3. \A k \in Host : k # h => /\ wire'[k] = wire[k] /\ cut'[k] = cut[k]
                                 /\ eof'[k] = eof[k] /\ srv'[k] = srv[k]
    <3>1. CASE Send(h)
      BY <1>0, <3>1 DEF Send
    <3>2. CASE Cancel(h)
      BY <1>0, <3>2 DEF Cancel
    <3> QED BY <1>2, <3>1, <3>2
  <2> QED BY <2>1, <2>2, <2>3, LeaseByOne
<1>3. CASE AskFails(h) \/ ReadRefusal(h)
  <2>1. PICK s : Settle(h, s, FALSE)
    BY <1>3 DEF AskFails, ReadRefusal
  <2>2. PICK q \in {<<>>, <<Leave(leaving, leaves)>>} : cmds' = [cmds EXCEPT ![h] = q]
    BY <2>1, SettleQueue
  <2>3. /\ standing' = [standing EXCEPT ![h] = s] /\ holder' = [holder EXCEPT ![h] = "none"]
        /\ UNCHANGED leaving
    BY <2>1 DEF Settle
  <2>4. UNCHANGED <<exit, wire, cut, srv>> /\ (eof' = eof \/ eof' = [eof EXCEPT ![h] = TRUE])
    BY <1>3 DEF AskFails, ReadRefusal, window, stream
  <2>5. NothingDeparts(h)'
    BY <1>0, <2>3 DEF NothingDeparts, Held
  <2>6. \A k \in Host : k # h => /\ standing'[k] = standing[k] /\ holder'[k] = holder[k]
                                 /\ cmds'[k] = cmds[k] /\ eof'[k] = eof[k]
    BY <1>0, <2>2, <2>3, <2>4
  <2> QED BY <2>3, <2>4, <2>5, <2>6, LeaseByOne
<1>4. CASE ReadGrant(h)
  <2>1. Settle(h, "granted", TRUE) /\ UNCHANGED <<exit, wire, cut, eof, srv>>
        /\ Running /\ hs[h] = "sent" /\ back[h] # <<>> /\ Head(back[h]).op = "granted"
    BY <1>4 DEF ReadGrant, window
  <2>2. PICK q \in {<<>>, <<Leave(leaving, leaves)>>} : cmds' = [cmds EXCEPT ![h] = q]
    BY <2>1, SettleQueue
  <2>3. /\ standing' = [standing EXCEPT ![h] = "granted"] /\ holder' = [holder EXCEPT ![h] = "live"]
        /\ UNCHANGED leaving /\ (leaving = None => cmds' = [cmds EXCEPT ![h] = <<>>])
    BY <2>1 DEF Settle
  <2>4. wire[h] = <<>> /\ ~eof[h] /\ (srv[h].pc = "held" \/ cut[h])
    <3>1. AskedIsFresh(h) /\ Head(back[h]) = back[h][1] /\ 1 \in 1..Len(back[h])
      BY <1>0, <2>1 DEF StreamInv
    <3> QED BY <2>1, <3>1 DEF AskedIsFresh, Fresh
  <2>5. NothingDeparts(h)'
    BY <1>0, <2>1, <2>3, <2>4, EmptyReads DEF NothingDeparts
  <2>6. \A k \in Host : k # h => /\ standing'[k] = standing[k] /\ holder'[k] = holder[k]
                                 /\ cmds'[k] = cmds[k]
    BY <1>0, <2>2, <2>3
  <2> QED BY <2>1, <2>3, <2>5, <2>6, LeaseByOne
<1> QED BY <1>1, <1>2, <1>3, <1>4

\* The steps of the holder tasks and of the daemon's end.
LEMMA LeaseByStreams ==
    ASSUME Typed, LeaseInv, NEW h \in Host,
           \/ HolderTakes(h) \/ HolderReads(h) \/ HolderEnds(h)
           \/ DaemonAnswers(h) \/ DaemonReads(h) \/ DaemonSeesEnd(h) \/ DaemonCuts(h)
    PROVE  LeaseInv'
<1>0. /\ holder \in [Host -> {"none", "live", "closed"}]
      /\ cmds \in [Host -> Seq(CmdType)] /\ wire \in [Host -> Seq(CmdType)]
      /\ cut \in [Host -> BOOLEAN] /\ eof \in [Host -> BOOLEAN] /\ srv \in [Host -> SrvType]
  BY DEF Typed, BookOK, TasksOK, StreamOK
<1>a. cmds[h] \in Seq(CmdType) /\ wire[h] \in Seq(CmdType) /\ NothingDeparts(h)
  BY <1>0 DEF LeaseInv
<1>1. CASE HolderTakes(h)
  <2>1. /\ cmds[h] # <<>> /\ cmds' = [cmds EXCEPT ![h] = Tail(cmds[h])]
        /\ wire' = IF Head(cmds[h]).op = "written" THEN wire
                   ELSE [wire EXCEPT ![h] = Append(wire[h], Head(cmds[h]))]
        /\ UNCHANGED <<exit, leaving, standing, holder, cut, eof, srv>>
    BY <1>1 DEF HolderTakes, book
  <2>2. cmds'[h] = Tail(cmds[h]) /\ (wire'[h] = wire[h] \/ wire'[h] = Append(wire[h], Head(cmds[h])))
    BY <1>0, <2>1
  <2>3. /\ Head(cmds[h]) = cmds[h][1] /\ 1 \in 1..Len(cmds[h]) /\ Head(cmds[h]) \in CmdType
        /\ ~Has(cmds[h], "leave") => ~Has(Tail(cmds[h]), "leave")
    BY <1>a, <2>1, TailReads
  <2>4. ~Has(cmds[h], "leave") => Head(cmds[h]).op # "leave"
    BY <2>3 DEF Has
  <2>5. ~Has(cmds[h], "leave") /\ ~Has(wire[h], "leave") => ~Has(cmds'[h], "leave") /\ ~Has(wire'[h], "leave")
    <3>1. Has(Append(wire[h], Head(cmds[h])), "leave") <=> Has(wire[h], "leave") \/ Head(cmds[h]).op = "leave"
      BY <1>a, <2>3, AppendReads
    <3> QED BY <2>2, <2>3, <2>4, <3>1
  <2>6. NothingDeparts(h)'
    BY <1>a, <2>1, <2>5 DEF NothingDeparts, Running, Held
  <2>7. \A k \in Host : k # h => cmds'[k] = cmds[k] /\ wire'[k] = wire[k]
    BY <1>0, <2>1
  <2> QED BY <2>1, <2>6, <2>7, LeaseByOne
<1>2. CASE HolderReads(h)
  BY <1>2, LeaseStands DEF HolderReads, book, window
<1>3. CASE HolderEnds(h)
  <2>1. /\ holder' = [holder EXCEPT ![h] = "closed"] /\ cmds' = [cmds EXCEPT ![h] = <<>>]
        /\ eof' = [eof EXCEPT ![h] = TRUE] /\ UNCHANGED <<exit, leaving, standing, wire, cut, srv>>
    BY <1>3 DEF HolderEnds
  <2>2. NothingDeparts(h)'
    BY <1>0, <2>1 DEF NothingDeparts, Held
  <2>3. \A k \in Host : k # h => holder'[k] = holder[k] /\ cmds'[k] = cmds[k] /\ eof'[k] = eof[k]
    BY <1>0, <2>1
  <2> QED BY <2>1, <2>2, <2>3, LeaseByOne
<1>4. CASE DaemonAnswers(h)
  <2>1. /\ srv[h].pc = "asked" /\ (\E p : srv' = [srv EXCEPT ![h] = [srv[h] EXCEPT !.pc = p]])
        /\ UNCHANGED <<exit, leaving, standing, holder, cmds, wire, cut, eof>>
    BY <1>4 DEF DaemonAnswers, book, tasks, window
  <2>2. NothingDeparts(h)'
    BY <1>a, <2>1 DEF NothingDeparts, Running, Held
  <2>3. \A k \in Host : k # h => srv'[k] = srv[k]
    BY <1>0, <2>1
  <2> QED BY <2>1, <2>2, <2>3, LeaseByOne
<1>5. CASE DaemonReads(h)
  <2>1. /\ wire[h] # <<>> /\ wire' = [wire EXCEPT ![h] = Tail(wire[h])]
        /\ UNCHANGED <<exit, leaving, standing, holder, cmds, cut, eof>>
        /\ \/ Head(wire[h]).op = "leave"
              /\ srv' = [srv EXCEPT ![h] = [pc |-> "left", heard |-> Head(wire[h]).intent]]
           \/ UNCHANGED srv
    BY <1>5 DEF DaemonReads, book, tasks, window
  <2>2. /\ Head(wire[h]) = wire[h][1] /\ 1 \in 1..Len(wire[h])
        /\ ~Has(wire[h], "leave") => ~Has(Tail(wire[h]), "leave")
    BY <1>a, <2>1, TailReads
  <2>3. ~Has(wire[h], "leave") => Head(wire[h]).op # "leave" /\ ~Has(wire'[h], "leave")
    BY <1>0, <2>1, <2>2 DEF Has
  <2>4. NothingDeparts(h)'
    BY <1>a, <2>1, <2>3 DEF NothingDeparts, Running, Held
  <2>5. \A k \in Host : k # h => wire'[k] = wire[k] /\ srv'[k] = srv[k]
    BY <1>0, <2>1
  <2> QED BY <2>1, <2>4, <2>5, LeaseByOne
<1>6. CASE DaemonSeesEnd(h)
  <2>1. /\ eof[h] /\ srv' = [srv EXCEPT ![h] = [srv[h] EXCEPT !.pc = "none"]]
        /\ UNCHANGED <<exit, leaving, standing, holder, cmds, wire, cut, eof>>
    BY <1>6 DEF DaemonSeesEnd, book, tasks, window
  <2>2. NothingDeparts(h)'
    BY <1>a, <2>1 DEF NothingDeparts, Running, Held
  <2>3. \A k \in Host : k # h => srv'[k] = srv[k]
    BY <1>0, <2>1
  <2> QED BY <2>1, <2>2, <2>3, LeaseByOne
<1>7. CASE DaemonCuts(h)
  <2>1. /\ srv' = [srv EXCEPT ![h] = [srv[h] EXCEPT !.pc = "none"]] /\ cut' = [cut EXCEPT ![h] = TRUE]
        /\ wire' = [wire EXCEPT ![h] = <<>>]
        /\ UNCHANGED <<exit, leaving, standing, holder, cmds, eof>>
    BY <1>7 DEF DaemonCuts, book, tasks, window
  <2>2. NothingDeparts(h)'
    BY <1>0, <1>a, <2>1, EmptyReads DEF NothingDeparts, Running, Held
  <2>3. \A k \in Host : k # h => wire'[k] = wire[k] /\ cut'[k] = cut[k] /\ srv'[k] = srv[k]
    BY <1>0, <2>1
  <2> QED BY <2>1, <2>2, <2>3, LeaseByOne
<1> QED BY <1>1, <1>2, <1>3, <1>4, <1>5, <1>6, <1>7

\* A stay is for a request in flight, the only host's own.
LEMMA LeaseByStay ==
    ASSUME Typed, AskingIsVacant, StayTaken, \A g, h \in Host : g = h
    PROVE  LeaseInv'
<1>1. late
  BY JoinedFields DEF StayTaken, MustStay
<1>2. inflight = Cardinality(Flying(hs)) /\ inflight > 0
  BY <1>1, Counting DEF Typed
<1>3. PICK h \in Host : hs[h] # "none"
  <2>1. Flying(hs) = {} => Cardinality(Flying(hs)) = 0
    BY FS_EmptySet
  <2> QED BY <1>2, <2>1 DEF Flying
<1>4. \A k \in Host : ~Held(k)'
  BY <1>3 DEF StayTaken, AskingIsVacant, Held
<1> QED BY <1>4 DEF LeaseInv, NothingDeparts

LEMMA NextLease ==
    ASSUME \A g, h \in Host : g = h, Typed, AskingIsVacant, StreamInv, LeaseInv, [Next]_vars
    PROVE  LeaseInv'
<1>1. CASE FramePresented
  <2> DEFINE e == [h \in Host |-> NoticeSeen(drawn[Root[h]])]
  <2>1. \A h \in Host : drawn[Root[h]] \in Counts
    BY WindowAssumption DEF Typed, WindowOK
  <2>2. \A h \in Host : e[h] \in CmdType /\ e[h].op # "leave"
    BY <2>1, CmdTypes DEF NoticeSeen
  <2>3. /\ \A h \in Host : cmds'[h] = cmds[h] \/ cmds'[h] = Append(cmds[h], e[h])
        /\ UNCHANGED <<standing, holder, wire, cut, srv, exit, eof, leaving>>
    BY <1>1 DEF FramePresented, stream
  <2> HIDE DEF e
  <2> QED BY <2>2, <2>3, LeaseByAppend
<1>2. CASE LinePresented
  <2> DEFINE e == [h \in Host |-> NoticeSeen(lv.outcome[h].n)]
  <2>1. \A h \in Host : lv.outcome[h].n \in Counts
    BY DEF Typed, WindowOK, LeavingType, OutcomeType
  <2>2. \A h \in Host : e[h] \in CmdType /\ e[h].op # "leave"
    BY <2>1, CmdTypes DEF NoticeSeen
  <2>3. /\ \A h \in Host : cmds'[h] = cmds[h] \/ cmds'[h] = Append(cmds[h], e[h])
        /\ UNCHANGED <<standing, holder, wire, cut, srv, exit, eof, leaving>>
    BY <1>2 DEF LinePresented, book, stream
  <2> HIDE DEF e
  <2> QED BY <2>2, <2>3, LeaseByAppend
<1>3. ASSUME NEW r \in Reasons, AsksNow(r) PROVE LeaseInv'
  <2> DEFINE e == [h \in Host |-> Written]
  <2>1. \A h \in Host : e[h] \in CmdType /\ e[h].op # "leave"
    BY CmdTypes DEF Written
  <2>2. /\ \A h \in Host : cmds'[h] = cmds[h] \/ cmds'[h] = Append(cmds[h], e[h])
        /\ UNCHANGED <<standing, holder, wire, cut, srv, exit, eof, leaving>>
    BY <1>3 DEF AsksNow, Deliver, book, stream
  <2> HIDE DEF e
  <2> QED BY <2>1, <2>2, LeaseByAppend
<1>4. ASSUME NEW r \in Reasons, AsksToLeave(r) \/ AsksAgain(r) PROVE LeaseInv'
  <2>1. PICK i \in Intents, code \in {0, Relaunch} : Leaves(i, code)
    BY <1>4 DEF AsksToLeave, AsksAgain, LeaveOf, Intents, Reasons
  <2>2. leaving' # None
    BY <2>1, WindowAssumption DEF Leaves, LeaveAll, Intents
  <2> QED BY <2>2 DEF LeaseInv, NothingDeparts
<1>5. CASE NativeClose
  BY <1>5, WindowAssumption DEF NativeClose, LeaseInv, NothingDeparts
<1>6. CASE AsksAndStays
  BY <1>6, LeaseByStay DEF AsksAndStays
<1>7. CASE Stays
  <2>1. CASE StayTaken
    BY <2>1, LeaseByStay
  <2>2. CASE ~StayTaken
    BY <1>7, <2>2, LeaseStands DEF Stays, tasks, stream
  <2> QED BY <2>1, <2>2
<1>8. CASE FrameDraws \/ FrameDropped \/ Delivered \/ DeadlinePasses \/ (\E d \in Daemon : CountGrows(d))
           \/ UNCHANGED vars
  BY <1>8, LeaseStands
  DEF FrameDraws, FrameDropped, Delivered, DeadlinePasses, CountGrows, vars, book, tasks, window, stream
<1>9. CASE PollWaits \/ PollStays \/ PollShows \/ PollExits \/ LineEnds \/ ProcessEnds
  <2>1. UNCHANGED <<cmds, leaving>>
    BY <1>9 DEF PollWaits, PollStays, PollShows, PollExits, LineEnds, ProcessEnds, book, tasks
  <2>2. UNCHANGED <<standing, holder, hs, wire, back, cut, srv>> /\ (exit' # None \/ UNCHANGED <<exit, eof>>)
    BY <1>9, WindowLeavesStreams DEF PollSteps
  <2> QED BY <2>1, <2>2, LeaseStands
<1> QED BY <1>1, <1>2, <1>3, <1>4, <1>5, <1>6, <1>7, <1>8, <1>9, LeaseByHandshake, LeaseByStreams DEF Next

\* With one local host, an open window that counts its lease as held has it
\* at the daemon.  With two, a Keep that stays for one host's unanswered
\* request has already departed the other's: the hypothesis is needed.
THEOREM LeaseHeldForLife ==
    ASSUME \A g, h \in Host : g = h
    PROVE  Spec => []HeldForTheWindowsLife
<1>1. Init => LeaseInv
  BY DEF Init, LeaseInv, NothingDeparts, Held
<1>2. Typed /\ AskingIsVacant /\ StreamInv /\ LeaseInv /\ [Next]_vars => LeaseInv'
  BY NextLease
<1>3. ReceiptInv => AskingIsVacant
  BY DEF ReceiptInv
<1>4. LeaseInv => HeldForTheWindowsLife
  BY DEF LeaseInv, NothingDeparts, HeldForTheWindowsLife
<1> QED BY <1>1, <1>2, <1>3, <1>4, TypesInvariant, ReceiptInvariant, StreamInvariant, PTL DEF Spec

(***************************************************************************)
(* What a leave has heard.                                                 *)
(*                                                                         *)
(* The current leave is the last leave of every stream, behind those it    *)
(* superseded, so a reply to it comes from a daemon that has read them all *)
(* and reads no other.  A host whose handshake is open has been asked      *)
(* nothing yet, and every lease whose handshake is over is in the wait, on *)
(* its way there, or answered.                                             *)
(***************************************************************************)

\* A queue's leaves: the one numbered id, if it is there, is the last.
Asked(q, id)   == \E i \in 1..Len(q) : q[i].op = "leave" /\ q[i].id = id
LastIs(q, id, x) ==
    \A i \in 1..Len(q) : q[i].op = "leave" /\ q[i].id = id =>
        q[i].intent = x /\ \A j \in 1..Len(q) : j > i => q[j].op # "leave"
LeavesTo(q, id)  == \A i \in 1..Len(q) : q[i].op = "leave" => q[i].id <= id

\* A stream's replies.
Answered(q, id)  == \E i \in 1..Len(q) : q[i].id = id
RepliesTo(q, id) == \A i \in 1..Len(q) : q[i].id <= id

LEMMA AppendLeaves ==
    ASSUME NEW q \in Seq(CmdType), NEW e \in CmdType, NEW id, NEW x
    PROVE  /\ LeavesTo(q, id) /\ (e.op = "leave" => e.id <= id) => LeavesTo(Append(q, e), id)
           /\ LastIs(q, id, x) /\ e.op # "leave" => LastIs(Append(q, e), id, x)
           /\ ~Asked(q, id) /\ (e.id = id => e.intent = x) => LastIs(Append(q, e), id, x)
           /\ Asked(Append(q, e), id) <=> Asked(q, id) \/ (e.op = "leave" /\ e.id = id)
<1> DEFINE a == Append(q, e)
<1>1. /\ Len(a) = Len(q) + 1 /\ a[Len(q) + 1] = e /\ Len(q) \in Nat
      /\ \A i \in 1..Len(q) : a[i] = q[i]
  OBVIOUS
<1>2. 1..(Len(q) + 1) = (1..Len(q)) \cup {Len(q) + 1}
  BY <1>1
<1>3. \A i \in 1..Len(a) : i \in 1..Len(q) \/ i = Len(q) + 1
  BY <1>1
<1> HIDE DEF a
<1>4. LeavesTo(q, id) /\ (e.op = "leave" => e.id <= id) => LeavesTo(a, id)
  BY <1>1, <1>2 DEF LeavesTo
<1>5. LastIs(q, id, x) /\ e.op # "leave" => LastIs(a, id, x)
  BY <1>1, <1>3 DEF LastIs
<1>6. ~Asked(q, id) /\ (e.id = id => e.intent = x) => LastIs(a, id, x)
  <2> SUFFICES ASSUME ~Asked(q, id), e.id = id => e.intent = x,
                      NEW i \in 1..Len(a), a[i].op = "leave", a[i].id = id
               PROVE  a[i].intent = x /\ \A j \in 1..Len(a) : j > i => a[j].op # "leave"
    BY DEF LastIs
  <2>1. i = Len(q) + 1
    BY <1>1, <1>3 DEF Asked
  <2> QED BY <1>1, <2>1
<1>7. Asked(a, id) <=> Asked(q, id) \/ (e.op = "leave" /\ e.id = id)
  BY <1>1, <1>2 DEF Asked
<1> QED BY <1>4, <1>5, <1>6, <1>7 DEF a

LEMMA TailLeaves ==
    ASSUME NEW q \in Seq(CmdType), q # <<>>, NEW id, NEW x
    PROVE  /\ LeavesTo(q, id) => LeavesTo(Tail(q), id) /\ (Head(q).op = "leave" => Head(q).id <= id)
           /\ LastIs(q, id, x) => LastIs(Tail(q), id, x)
           /\ LastIs(q, id, x) /\ Head(q).op = "leave" /\ Head(q).id = id
                => Head(q).intent = x /\ ~Has(Tail(q), "leave")
           /\ Asked(Tail(q), id) => Asked(q, id)
           /\ Head(q).op = "leave" => Has(q, "leave")
           /\ Head(q).op = "leave" /\ Head(q).id = id => Asked(q, id)
<1> DEFINE t == Tail(q)
<1>1. /\ Head(q) = q[1] /\ Len(q) \in Nat /\ Len(q) >= 1 /\ Len(t) = Len(q) - 1 /\ 1 \in 1..Len(q)
      /\ \A i \in 1..Len(t) : t[i] = q[i + 1] /\ i + 1 \in 1..Len(q) /\ i + 1 > 1
      /\ \A i, j \in 1..Len(t) : j > i => j + 1 > i + 1
  OBVIOUS
<1> HIDE DEF t
<1>2. LeavesTo(q, id) => LeavesTo(t, id) /\ (q[1].op = "leave" => q[1].id <= id)
  BY <1>1 DEF LeavesTo
<1>3. LastIs(q, id, x) => LastIs(t, id, x)
  BY <1>1 DEF LastIs
<1>4. LastIs(q, id, x) /\ q[1].op = "leave" /\ q[1].id = id => q[1].intent = x /\ ~Has(t, "leave")
  BY <1>1 DEF LastIs, Has
<1>5. (Asked(t, id) => Asked(q, id)) /\ (q[1].op = "leave" => Has(q, "leave"))
      /\ (q[1].op = "leave" /\ q[1].id = id => Asked(q, id))
  BY <1>1 DEF Asked, Has
<1> QED BY <1>1, <1>2, <1>3, <1>4, <1>5 DEF t

LEMMA EmptyLeaves ==
    /\ \A id : LeavesTo(<<>>, id) /\ ~Asked(<<>>, id) /\ RepliesTo(<<>>, id) /\ ~Answered(<<>>, id)
    /\ \A id, x : LastIs(<<>>, id, x)
BY DEF LeavesTo, Asked, RepliesTo, Answered, LastIs

\* No leave is later than the last one there was.
LEMMA NoNewerLeave ==
    ASSUME NEW q \in Seq(CmdType), NEW n \in Nat, LeavesTo(q, n)
    PROVE  ~Asked(q, n + 1) /\ LeavesTo(q, n + 1) /\ \A x : LastIs(q, n + 1, x)
<1>1. \A i \in 1..Len(q) : q[i] \in CmdType
  OBVIOUS
<1>2. \A e \in CmdType : e.id \in Nat
  BY WindowAssumption DEF CmdType
<1>3. \A i \in 1..Len(q) : q[i].id \in Nat
  BY <1>1, <1>2
<1> QED BY <1>3 DEF LeavesTo, Asked, LastIs

\* A queue that holds a settled handshake's leave alone.
LEMMA LoneLeave ==
    ASSUME NEW x, NEW id \in Nat
    PROVE  LeavesTo(<<Leave(x, id)>>, id) /\ LastIs(<<Leave(x, id)>>, id, x)
<1> DEFINE e == Leave(x, id)
           q == <<e>>
<1>1. Len(q) = 1 /\ q[1] = e /\ e.intent = x /\ e.id = id
  BY DEF Leave
<1> HIDE DEF e, q
<1>2. LeavesTo(q, id) /\ LastIs(q, id, x)
  BY <1>1 DEF LeavesTo, LastIs
<1> QED BY <1>2 DEF e, q

LEMMA ReplySteps ==
    ASSUME NEW q \in Seq(BackType), NEW id \in Nat
    PROVE  /\ q # <<>> => /\ RepliesTo(q, id) => RepliesTo(Tail(q), id)
                          /\ Answered(Tail(q), id) => Answered(q, id)
                          /\ Head(q).id = id => Answered(q, id)
           /\ \A r \in BackType : /\ RepliesTo(q, id) /\ r.id <= id => RepliesTo(Append(q, r), id)
                                  /\ Answered(Append(q, r), id) => Answered(q, id) \/ r.id = id
           /\ RepliesTo(q, id) => RepliesTo(q, id + 1) /\ ~Answered(q, id + 1)
<1>1. ASSUME q # <<>>
      PROVE  /\ RepliesTo(q, id) => RepliesTo(Tail(q), id)
             /\ Answered(Tail(q), id) => Answered(q, id)
             /\ Head(q).id = id => Answered(q, id)
  <2> DEFINE t == Tail(q)
  <2>1. /\ Head(q) = q[1] /\ 1 \in 1..Len(q)
        /\ \A i \in 1..Len(t) : t[i] = q[i + 1] /\ i + 1 \in 1..Len(q)
    BY <1>1
  <2> HIDE DEF t
  <2>2. (RepliesTo(q, id) => RepliesTo(t, id)) /\ (Answered(t, id) => Answered(q, id))
        /\ (q[1].id = id => Answered(q, id))
    BY <2>1 DEF RepliesTo, Answered
  <2> QED BY <2>1, <2>2 DEF t
<1>2. ASSUME NEW r \in BackType
      PROVE  /\ RepliesTo(q, id) /\ r.id <= id => RepliesTo(Append(q, r), id)
             /\ Answered(Append(q, r), id) => Answered(q, id) \/ r.id = id
  <2> DEFINE a == Append(q, r)
  <2>1. \A i \in 1..Len(a) : a[i] = r \/ (i \in 1..Len(q) /\ a[i] = q[i])
    OBVIOUS
  <2> HIDE DEF a
  <2>2. (RepliesTo(q, id) /\ r.id <= id => RepliesTo(a, id)) /\ (Answered(a, id) => Answered(q, id) \/ r.id = id)
    BY <2>1 DEF RepliesTo, Answered
  <2> QED BY <2>2 DEF a
<1>3. RepliesTo(q, id) => RepliesTo(q, id + 1) /\ ~Answered(q, id + 1)
  <2>1. \A i \in 1..Len(q) : q[i] \in BackType
    OBVIOUS
  <2>2. \A r \in BackType : r.id \in Nat
    BY WindowAssumption DEF BackType
  <2>3. \A i \in 1..Len(q) : q[i].id \in Nat
    BY <2>1, <2>2
  <2> QED BY <2>3 DEF RepliesTo, Answered
<1> QED BY <1>1, <1>2, <1>3

IdsAreOld(h) == LeavesTo(cmds[h], leaves) /\ LeavesTo(wire[h], leaves) /\ RepliesTo(back[h], leaves)
LeaveIsLast(h) ==
    leaving # None =>
        /\ LastIs(cmds[h], leaves, leaving) /\ LastIs(wire[h], leaves, leaving)
        /\ Asked(wire[h], leaves) => ~Has(cmds[h], "leave")

\* The daemon has read the window's intent, and reads no other on its stream.
Heard(h) ==
    Leased(h) => srv[h].heard = leaving /\ ~Has(cmds[h], "leave") /\ ~Has(wire[h], "leave")

\* The leave has its host's reply, or it is on its way.
Got(h) == Answered(back[h], leaves) \/ ack[h].is = "replied"
          \/ (lv.phase # "none" /\ lv.outcome[h].is = "replied")
ReplyIsHeard(h) == leaving # None /\ Got(h) => Heard(h)
AskingIsUnasked(h) ==
    leaving # None /\ hs[h] # "none" =>
        /\ ack[h] = NoAck /\ h \notin lv.pending /\ h \notin lateQ /\ lv.outcome[h] = NoAck
        /\ hs[h] = "sent" => ~Answered(back[h], leaves)
WaitIsWhole(h) ==
    Waiting =>
        /\ h \in lv.pending \cup lateQ => ack[h] = Open \/ ack[h].is \in {"failed", "replied"}
        /\ lv.outcome[h].is # "timed_out"
        /\ Leased(h) /\ hs[h] = "none" =>
             h \in lv.pending \cup lateQ \/ lv.outcome[h].is \in {"failed", "replied"}

\* The leave's line is up, without a warning.
Confirmed == lv.phase \in {"shown", "held"} /\ ~lv.warned
ConfirmedIsRead(h) == Confirmed => Heard(h)

HostHeard(h) ==
    /\ IdsAreOld(h) /\ LeaveIsLast(h) /\ ReplyIsHeard(h)
    /\ AskingIsUnasked(h) /\ WaitIsWhole(h) /\ ConfirmedIsRead(h)
LeaveHeard ==
    /\ exit = None
    /\ leaving # None => leaves > 0
    /\ Waiting /\ ~lv.late => lateQ = {}
    /\ Confirmed => inflight = 0
HeardInv == ui = "free" => LeaveHeard /\ \A h \in Host : HostHeard(h)

\* Steps of one host's tasks or of its stream.
LEMMA HeardByOne ==
    ASSUME HeardInv, UNCHANGED <<lv, leaving, leaves, ui>>, NEW h \in Host,
           \A k \in Host : k # h => /\ cmds'[k] = cmds[k] /\ wire'[k] = wire[k] /\ back'[k] = back[k]
                                    /\ srv'[k] = srv[k] /\ eof'[k] = eof[k] /\ hs'[k] = hs[k]
                                    /\ ack'[k] = ack[k] /\ (k \in lateQ' <=> k \in lateQ),
           ui = "free" => LeaveHeard' /\ HostHeard(h)'
    PROVE  HeardInv'
<1> SUFFICES ASSUME ui = "free", NEW k \in Host PROVE LeaveHeard' /\ HostHeard(k)'
  BY DEF HeardInv
<1>1. CASE k = h
  BY <1>1
<1>2. CASE k # h
  <2>1. HostHeard(k)
    BY DEF HeardInv
  <2>2. (Heard(k)' <=> Heard(k)) /\ (Leased(k)' <=> Leased(k))
    BY <1>2 DEF Heard, Leased
  <2>3. IdsAreOld(k)' /\ LeaveIsLast(k)'
    BY <1>2, <2>1 DEF HostHeard, IdsAreOld, LeaveIsLast
  <2>4. ReplyIsHeard(k)' /\ ConfirmedIsRead(k)'
    BY <1>2, <2>1, <2>2 DEF HostHeard, ReplyIsHeard, Got, ConfirmedIsRead, Confirmed
  <2>5. AskingIsUnasked(k)'
    BY <1>2, <2>1 DEF HostHeard, AskingIsUnasked
  <2>6. WaitIsWhole(k)'
    BY <1>2, <2>1, <2>2 DEF HostHeard, WaitIsWhole, Waiting
  <2> QED BY <2>3, <2>4, <2>5, <2>6 DEF HostHeard
<1> QED BY <1>1, <1>2

\* Steps that queue a command other than a leave, or touch no stream.
LEMMA HeardStands ==
    ASSUME Typed, HeardInv, ui' = "free" => ui = "free",
           UNCHANGED <<leaving, leaves, inflight, lateQ, exit, wire, back, srv, eof, hs, ack>>,
           lv'.late = lv.late, lv'.pending = lv.pending, lv'.outcome = lv.outcome, lv'.warned = lv.warned,
           lv'.phase = lv.phase \/ (lv.phase = "shown" /\ lv'.phase = "held"),
           NEW e, \A h \in Host : e[h] \in CmdType /\ e[h].op # "leave",
           \A h \in Host : cmds'[h] = cmds[h] \/ cmds'[h] = Append(cmds[h], e[h])
    PROVE  HeardInv'
<1> SUFFICES ASSUME ui' = "free" PROVE LeaveHeard' /\ \A h \in Host : HostHeard(h)'
  BY Zenon DEF HeardInv
<1>1. LeaveHeard /\ \A h \in Host : HostHeard(h)
  BY DEF HeardInv
<1>2. (Waiting' <=> Waiting) /\ (Confirmed' => Confirmed) /\ (lv'.phase # "none" => lv.phase # "none")
  BY DEF Waiting, Confirmed
<1>3. LeaveHeard'
  BY <1>1, <1>2 DEF LeaveHeard
<1>4. ASSUME NEW h \in Host PROVE HostHeard(h)'
  <2>1. HostHeard(h)
    BY <1>1
  <2>2. cmds[h] \in Seq(CmdType) /\ e[h] \in CmdType /\ e[h].op # "leave"
    BY DEF Typed, TasksOK
  <2>3. Has(cmds'[h], "leave") <=> Has(cmds[h], "leave")
    <3>1. Has(Append(cmds[h], e[h]), "leave") <=> Has(cmds[h], "leave") \/ e[h].op = "leave"
      BY <2>2, AppendReads
    <3> QED BY <2>2, <3>1
  <2>4. /\ LeavesTo(cmds[h], leaves) => LeavesTo(cmds'[h], leaves)
        /\ LastIs(cmds[h], leaves, leaving) => LastIs(cmds'[h], leaves, leaving)
    <3>1. /\ LeavesTo(cmds[h], leaves) => LeavesTo(Append(cmds[h], e[h]), leaves)
          /\ LastIs(cmds[h], leaves, leaving) => LastIs(Append(cmds[h], e[h]), leaves, leaving)
      BY <2>2, AppendLeaves
    <3> QED BY <3>1
  <2>5. IdsAreOld(h)' /\ LeaveIsLast(h)'
    BY <2>1, <2>3, <2>4 DEF HostHeard, IdsAreOld, LeaveIsLast
  <2>6. (Heard(h)' <=> Heard(h)) /\ (Leased(h)' <=> Leased(h))
    BY <2>3 DEF Heard, Leased
  <2>7. ReplyIsHeard(h)' /\ ConfirmedIsRead(h)'
    BY <1>2, <2>1, <2>6 DEF HostHeard, ReplyIsHeard, Got, ConfirmedIsRead
  <2>8. AskingIsUnasked(h)'
    BY <2>1 DEF HostHeard, AskingIsUnasked
  <2>9. WaitIsWhole(h)'
    BY <1>2, <2>1, <2>6 DEF HostHeard, WaitIsWhole
  <2> QED BY <2>5, <2>7, <2>8, <2>9 DEF HostHeard
<1> QED BY <1>3, <1>4

\* Outside a leave nothing is waited for.
LEMMA HeardIdle ==
    ASSUME exit' = None, leaving' = None, lv'.phase = "none",
           \A h \in Host : IdsAreOld(h)'
    PROVE  HeardInv'
BY DEF HeardInv, LeaveHeard, HostHeard, LeaveIsLast, ReplyIsHeard, AskingIsUnasked, WaitIsWhole,
       ConfirmedIsRead, Waiting, Confirmed

\* While a handshake is open, its leave is counted and no line is up unwarned.
LEMMA AskingIsCounted ==
    ASSUME Typed, LeaveInv, NEW h \in Host, hs[h] # "none"
    PROVE  /\ inflight > 0 /\ (leaving # None => late)
           /\ LeaveHeard => ~Confirmed
           /\ Waiting => leaving # None /\ lv.late
<1>1. inflight = Cardinality(Flying(hs)) /\ (late <=> (leaving # None /\ inflight > 0)) /\ inflight \in Nat
  BY Counting DEF Typed, BookOK
<1>2. inflight # 0
  BY <1>1, NoneFlies
<1>3. inflight > 0
  BY <1>1, <1>2
<1>4. leaving # None => late
  BY <1>1, <1>3, Zenon
<1>5. LeaveHeard => ~Confirmed
  BY <1>2 DEF LeaveHeard
<1>6. Waiting => leaving # None /\ lv.late
  <2>1. Waiting => leaving # None /\ (~lv.late => ~late)
    BY DEF LeaveInv, WaitIsTheLeave, WaitSeesLate, Waiting
  <2> QED BY <1>4, <2>1, Zenon
<1> QED BY <1>3, <1>4, <1>5, <1>6

\* The steps of the transport tasks.
LEMMA HeardByHandshake ==
    ASSUME Typed, LeaveInv, ReceiptInv, StreamInv, HeardInv, NEW h \in Host,
           Begin(h) \/ Send(h) \/ AskFails(h) \/ ReadGrant(h) \/ ReadRefusal(h) \/ Cancel(h)
    PROVE  HeardInv'
<1>0. /\ hs \in HsType /\ cmds \in [Host -> Seq(CmdType)] /\ ack \in [Host -> OutcomeType]
      /\ wire \in [Host -> Seq(CmdType)] /\ back \in [Host -> Seq(BackType)]
      /\ eof \in [Host -> BOOLEAN] /\ srv \in [Host -> SrvType] /\ leaves \in Nat
      /\ inflight \in Nat
  BY WindowAssumption DEF Typed, TasksOK, StreamOK, PastOK, BookOK
<1>a. back[h] \in Seq(BackType) /\ cmds[h] \in Seq(CmdType)
  BY <1>0
<1>b. UNCHANGED <<ui, lv, leaving, leaves, exit>>
  BY DEF Begin, Send, AskFails, ReadGrant, ReadRefusal, Cancel, Settle, window, book, spent
<1>c. ui = "free" => LeaveHeard /\ HostHeard(h)
  BY DEF HeardInv
<1>1. CASE Begin(h)
  <2>1. leaving = None /\ UNCHANGED <<cmds, wire, back>>
    BY <1>1 DEF Begin, stream
  <2>2. lv.phase = "none"
    BY <2>1 DEF LeaveInv, WaitIsTheLeave
  <2> SUFFICES ASSUME ui = "free" PROVE HeardInv'
    BY <1>b DEF HeardInv
  <2>3. exit = None /\ \A k \in Host : IdsAreOld(k)
    BY DEF HeardInv, LeaveHeard, HostHeard
  <2>4. \A k \in Host : IdsAreOld(k)'
    BY <1>b, <2>1, <2>3 DEF IdsAreOld
  <2> QED BY <1>b, <2>1, <2>2, <2>3, <2>4, HeardIdle
<1>2. CASE Send(h)
  <2>1. /\ hs[h] = "asking" /\ hs' = [hs EXCEPT ![h] = "sent"]
        /\ srv' = [srv EXCEPT ![h] = [pc |-> "asked", heard |-> None]]
        /\ wire' = [wire EXCEPT ![h] = <<>>] /\ back' = [back EXCEPT ![h] = <<>>]
        /\ eof' = [eof EXCEPT ![h] = FALSE]
        /\ UNCHANGED <<cmds, ack, lateQ, inflight>>
    BY <1>2 DEF Send, book
  <2>2. \A k \in Host : k # h => /\ wire'[k] = wire[k] /\ back'[k] = back[k] /\ srv'[k] = srv[k]
                                 /\ eof'[k] = eof[k] /\ hs'[k] = hs[k]
    BY <1>0, <2>1 DEF HsType
  <2>3. wire'[h] = <<>> /\ back'[h] = <<>> /\ hs'[h] = "sent"
    BY <1>0, <2>1 DEF HsType
  <2>4. ASSUME ui = "free" PROVE LeaveHeard' /\ HostHeard(h)'
    <3>1. LeaveHeard /\ HostHeard(h) /\ (LeaveHeard => ~Confirmed) /\ (Waiting => leaving # None)
      BY <1>c, <2>1, <2>4, AskingIsCounted
    <3>2. LeaveHeard' /\ ~Confirmed'
      BY <1>b, <2>1, <3>1 DEF LeaveHeard, Waiting, Confirmed
    <3>3. IdsAreOld(h)' /\ LeaveIsLast(h)'
      BY <1>b, <2>1, <2>3, <3>1, EmptyLeaves DEF HostHeard, IdsAreOld, LeaveIsLast
    <3>4. leaving # None => ack[h] = NoAck /\ lv.outcome[h] = NoAck /\ h \notin lv.pending /\ h \notin lateQ
      BY <2>1, <3>1 DEF HostHeard, AskingIsUnasked
    <3>5. leaving # None => ~Got(h)'
      BY <1>b, <2>1, <2>3, <3>4, EmptyLeaves DEF Got, NoAck, Outcome
    <3>6. ReplyIsHeard(h)' /\ AskingIsUnasked(h)'
      BY <1>b, <2>1, <2>3, <3>4, <3>5, EmptyLeaves DEF ReplyIsHeard, AskingIsUnasked
    <3>7. WaitIsWhole(h)' /\ ConfirmedIsRead(h)'
      BY <1>b, <2>1, <2>3, <3>1, <3>2, <3>4 DEF WaitIsWhole, Waiting, ConfirmedIsRead, NoAck, Outcome
    <3> QED BY <3>2, <3>3, <3>6, <3>7 DEF HostHeard
  <2> QED BY <1>b, <2>1, <2>2, <2>4, HeardByOne
<1>3. CASE AskFails(h) \/ ReadRefusal(h)
  <2>1. hs[h] # "none" /\ \E s : Settle(h, s, FALSE)
    BY <1>3 DEF AskFails, ReadRefusal
  <2>2. /\ hs' = [hs EXCEPT ![h] = "none"]
        /\ cmds' = [cmds EXCEPT ![h] = <<>>]
        /\ \/ leaving # None /\ late /\ lateQ' = lateQ \cup {h} /\ ack' = [ack EXCEPT ![h] = Failed]
           \/ UNCHANGED <<lateQ, ack>>
    BY <2>1 DEF Settle, CountDown
  <2>3. /\ UNCHANGED <<wire, srv>> /\ (eof' = eof \/ eof' = [eof EXCEPT ![h] = TRUE])
        /\ back' = back \/ (back[h] # <<>> /\ back' = [back EXCEPT ![h] = Tail(back[h])])
    BY <1>3 DEF AskFails, ReadRefusal, stream
  <2>4. \A k \in Host : k # h => /\ cmds'[k] = cmds[k] /\ back'[k] = back[k] /\ eof'[k] = eof[k]
                                 /\ hs'[k] = hs[k] /\ ack'[k] = ack[k] /\ (k \in lateQ' <=> k \in lateQ)
    BY <1>0, <2>2, <2>3 DEF HsType
  <2>5. ASSUME ui = "free" PROVE LeaveHeard' /\ HostHeard(h)'
    <3>1. /\ LeaveHeard /\ HostHeard(h) /\ (LeaveHeard => ~Confirmed)
          /\ Waiting => leaving # None /\ lv.late
      BY <1>c, <2>1, <2>5, AskingIsCounted
    <3>2. LeaveHeard' /\ ~Confirmed'
      BY <1>b, <3>1 DEF LeaveHeard, Waiting, Confirmed
    <3>3. ~Leased(h)'
      <4>1. CASE AskFails(h)
        <5>1. hs[h] = "asking" /\ UNCHANGED <<eof, srv>> /\ Running /\ ~Held(h)
          BY <4>1 DEF AskFails, stream, ReceiptInv, AskingIsVacant, Held
        <5> QED BY <5>1 DEF StreamInv, OpenIsOurs, Leased
      <4>2. CASE ReadRefusal(h)
        <5>1. eof'[h]
          BY <1>0, <4>2 DEF ReadRefusal
        <5> QED BY <5>1 DEF Leased
      <4> QED BY <1>3, <4>1, <4>2
    <3>4. RepliesTo(back'[h], leaves)
      <4>1. RepliesTo(back[h], leaves)
        BY <3>1 DEF HostHeard, IdsAreOld
      <4>2. back[h] # <<>> => RepliesTo(Tail(back[h]), leaves)
        BY <1>0, <1>a, <4>1, ReplySteps
      <4> QED BY <1>0, <2>3, <4>1, <4>2
    <3>5. IdsAreOld(h)' /\ LeaveIsLast(h)'
      BY <1>0, <1>b, <2>2, <2>3, <3>1, <3>4, EmptyLeaves, EmptyReads DEF HostHeard, IdsAreOld, LeaveIsLast
    <3>6. hs'[h] = "none"
      BY <1>0, <2>2 DEF HsType
    <3>7. /\ Waiting' => (h \in lv'.pending \cup lateQ' => ack'[h] = Open \/ ack'[h].is \in {"failed", "replied"})
          /\ Waiting' => lv'.outcome[h].is # "timed_out"
      BY <1>0, <1>b, <2>1, <2>2, <3>1 DEF HostHeard, AskingIsUnasked, Waiting, Failed, NoAck, Outcome
    <3>8. ReplyIsHeard(h)' /\ ConfirmedIsRead(h)' /\ WaitIsWhole(h)'
      BY <3>3, <3>7 DEF ReplyIsHeard, ConfirmedIsRead, WaitIsWhole, Heard
    <3> QED BY <3>2, <3>5, <3>6, <3>8 DEF HostHeard, AskingIsUnasked
  <2> QED BY <1>b, <2>3, <2>4, <2>5, HeardByOne
<1>4. CASE ReadGrant(h)
  <2>1. /\ hs[h] = "sent" /\ Running /\ Settle(h, "granted", TRUE) /\ UNCHANGED <<wire, eof, srv>>
        /\ back[h] # <<>> /\ back' = [back EXCEPT ![h] = Tail(back[h])]
    BY <1>4 DEF ReadGrant
  <2>2. /\ hs' = [hs EXCEPT ![h] = "none"]
        /\ IF leaving # None /\ late
           THEN /\ lateQ' = lateQ \cup {h} /\ ack' = [ack EXCEPT ![h] = Open]
                /\ cmds' = [cmds EXCEPT ![h] = <<Leave(leaving, leaves)>>]
           ELSE cmds' = [cmds EXCEPT ![h] = <<>>] /\ UNCHANGED <<lateQ, ack>>
    BY <2>1 DEF Settle, CountDown
  <2>3. \A k \in Host : k # h => /\ cmds'[k] = cmds[k] /\ back'[k] = back[k]
                                 /\ hs'[k] = hs[k] /\ ack'[k] = ack[k] /\ (k \in lateQ' <=> k \in lateQ)
    <3>1. \A k \in Host : k # h => cmds'[k] = cmds[k]
      <4>1. PICK q : cmds' = [cmds EXCEPT ![h] = q]
        BY <2>2
      <4> QED BY <1>0, <4>1
    <3> QED BY <1>0, <2>1, <2>2, <3>1 DEF HsType
  <2>4. ASSUME ui = "free" PROVE LeaveHeard' /\ HostHeard(h)'
    <3>1. /\ LeaveHeard /\ HostHeard(h) /\ (LeaveHeard => ~Confirmed) /\ (leaving # None => late)
          /\ Waiting => leaving # None /\ lv.late
      BY <1>c, <2>1, <2>4, AskingIsCounted
    <3>2. LeaveHeard' /\ ~Confirmed'
      BY <1>b, <3>1 DEF LeaveHeard, Waiting, Confirmed
    <3>3. wire[h] = <<>> /\ back'[h] = Tail(back[h]) /\ hs'[h] = "none"
      BY <1>0, <2>1, <2>2 DEF StreamInv, AskedIsFresh, HsType
    <3>4. /\ RepliesTo(back[h], leaves) => RepliesTo(back'[h], leaves)
          /\ Answered(back'[h], leaves) => Answered(back[h], leaves)
      BY <1>0, <1>a, <2>1, <3>3, ReplySteps
    <3>5. cmds'[h] = IF leaving = None THEN <<>> ELSE <<Leave(leaving, leaves)>>
      BY <1>0, <2>2, <3>1
    <3>6. LeavesTo(cmds'[h], leaves) /\ LastIs(cmds'[h], leaves, leaving)
      BY <1>0, <3>5, EmptyLeaves, LoneLeave
    <3>7. IdsAreOld(h)' /\ LeaveIsLast(h)'
      BY <1>b, <2>1, <3>1, <3>3, <3>4, <3>6, EmptyLeaves DEF HostHeard, IdsAreOld, LeaveIsLast
    <3>8. leaving # None => /\ ack'[h] = Open /\ h \in lateQ' /\ lv.outcome[h] = NoAck
                            /\ ~Answered(back'[h], leaves)
      BY <1>0, <2>1, <2>2, <3>1, <3>4 DEF HostHeard, AskingIsUnasked
    <3>9. leaving # None => ~Got(h)'
      BY <1>b, <3>8 DEF Got, Open, NoAck, Outcome
    <3>10. ReplyIsHeard(h)' /\ AskingIsUnasked(h)' /\ ConfirmedIsRead(h)'
      BY <1>b, <3>2, <3>3, <3>9 DEF ReplyIsHeard, AskingIsUnasked, ConfirmedIsRead
    <3>11. WaitIsWhole(h)'
      BY <1>b, <3>1, <3>8 DEF WaitIsWhole, Waiting, NoAck, Outcome
    <3> QED BY <3>2, <3>7, <3>10, <3>11 DEF HostHeard
  <2> QED BY <1>b, <2>1, <2>3, <2>4, HeardByOne
<1>5. CASE Cancel(h)
  <2>1. /\ hs[h] # "none" /\ hs' = [hs EXCEPT ![h] = "none"] /\ eof' = [eof EXCEPT ![h] = TRUE]
        /\ UNCHANGED <<cmds, wire, back, srv, ack, lateQ>>
    BY <1>5 DEF Cancel, CountDown
  <2>2. \A k \in Host : k # h => hs'[k] = hs[k] /\ eof'[k] = eof[k]
    BY <1>0, <2>1 DEF HsType
  <2>3. ASSUME ui = "free" PROVE LeaveHeard' /\ HostHeard(h)'
    <3>1. /\ LeaveHeard /\ HostHeard(h) /\ (LeaveHeard => ~Confirmed)
      BY <1>c, <2>1, <2>3, AskingIsCounted
    <3>2. LeaveHeard' /\ ~Confirmed'
      BY <1>b, <2>1, <3>1 DEF LeaveHeard, Waiting, Confirmed
    <3>3. ~Leased(h)' /\ hs'[h] = "none"
      BY <1>0, <2>1 DEF Leased, HsType
    <3>4. IdsAreOld(h)' /\ LeaveIsLast(h)'
      BY <1>b, <2>1, <3>1 DEF HostHeard, IdsAreOld, LeaveIsLast
    <3>5. ReplyIsHeard(h)' /\ ConfirmedIsRead(h)' /\ WaitIsWhole(h)'
      BY <1>b, <2>1, <3>1, <3>3 DEF HostHeard, ReplyIsHeard, ConfirmedIsRead, WaitIsWhole, Waiting, Heard
    <3> QED BY <3>2, <3>3, <3>4, <3>5 DEF HostHeard, AskingIsUnasked
  <2> QED BY <1>b, <2>1, <2>2, <2>3, HeardByOne
<1> QED BY <1>1, <1>2, <1>3, <1>4, <1>5

\* The steps of the holder tasks: commands go over in order, a reply comes in.
LEMMA HeardByHolder ==
    ASSUME Typed, ReceiptInv, HeardInv, NEW h \in Host, HolderTakes(h) \/ HolderReads(h) \/ HolderEnds(h)
    PROVE  HeardInv'
<1>0. /\ cmds \in [Host -> Seq(CmdType)] /\ ack \in [Host -> OutcomeType]
      /\ wire \in [Host -> Seq(CmdType)] /\ back \in [Host -> Seq(BackType)]
      /\ eof \in [Host -> BOOLEAN] /\ leaves \in Nat /\ hs \in HsType
  BY WindowAssumption DEF Typed, TasksOK, StreamOK, PastOK
<1>a. back[h] \in Seq(BackType) /\ cmds[h] \in Seq(CmdType) /\ wire[h] \in Seq(CmdType)
  BY <1>0
<1>b. UNCHANGED <<ui, lv, leaving, leaves, exit, inflight, hs, srv, lateQ>> /\ holder[h] = "live"
  BY DEF HolderTakes, HolderReads, HolderEnds, window, book, spent
<1>c. ui = "free" => LeaveHeard /\ HostHeard(h) /\ LeaveHeard'
  BY <1>b DEF HeardInv, LeaveHeard, Waiting, Confirmed
<1>d. hs[h] = "none" /\ AskingIsUnasked(h)'
  BY <1>0, <1>b DEF ReceiptInv, AskingIsVacant, AskingIsUnasked, HsType
<1>1. CASE HolderTakes(h)
  <2> DEFINE cmd == Head(cmds[h])
  <2>1. /\ cmds[h] # <<>> /\ cmds' = [cmds EXCEPT ![h] = Tail(cmds[h])]
        /\ wire' = IF cmd.op = "written" THEN wire ELSE [wire EXCEPT ![h] = Append(wire[h], cmd)]
        /\ UNCHANGED <<back, eof, ack>>
    BY <1>1 DEF HolderTakes
  <2>2. /\ cmds'[h] = Tail(cmds[h])
        /\ wire'[h] = IF cmd.op = "written" THEN wire[h] ELSE Append(wire[h], cmd)
        /\ \A k \in Host : k # h => cmds'[k] = cmds[k] /\ wire'[k] = wire[k]
    BY <1>0, <2>1
  <2>3. ASSUME ui = "free" PROVE LeaveHeard' /\ HostHeard(h)'
    <3>1. LeaveHeard' /\ HostHeard(h)
      BY <1>c, <2>3
    <3>2. /\ cmd \in CmdType
          /\ Has(cmds'[h], "leave") => Has(cmds[h], "leave")
          /\ cmd.op = "leave" => Has(cmds[h], "leave")
      <4>1. cmd \in CmdType /\ cmd = cmds[h][1] /\ 1 \in 1..Len(cmds[h])
        BY <1>a, <2>1
      <4>2. Has(Tail(cmds[h]), "leave") => Has(cmds[h], "leave")
        BY <1>a, <2>1, TailReads
      <4>3. cmd.op = "leave" => Has(cmds[h], "leave")
        BY <4>1 DEF Has
      <4> QED BY <2>2, <4>1, <4>2, <4>3
    <3>3. /\ LeavesTo(cmds'[h], leaves) /\ (cmd.op = "leave" => cmd.id <= leaves)
          /\ LeavesTo(wire[h], leaves) /\ RepliesTo(back[h], leaves)
      BY <1>a, <2>1, <2>2, <3>1, TailLeaves DEF HostHeard, IdsAreOld
    <3>4. LeavesTo(wire'[h], leaves)
      <4>1. LeavesTo(Append(wire[h], cmd), leaves)
        BY <1>a, <3>2, <3>3, AppendLeaves
      <4> QED BY <2>2, <3>3, <4>1
    <3>5. IdsAreOld(h)'
      BY <1>b, <2>1, <3>3, <3>4 DEF IdsAreOld
    <3>6. ASSUME leaving # None
          PROVE  /\ LastIs(cmds'[h], leaves, leaving) /\ LastIs(wire'[h], leaves, leaving)
                 /\ Asked(wire'[h], leaves) => ~Has(cmds'[h], "leave")
      <4>1. /\ LastIs(cmds[h], leaves, leaving) /\ LastIs(wire[h], leaves, leaving)
            /\ Asked(wire[h], leaves) => ~Has(cmds[h], "leave")
        BY <3>1, <3>6 DEF HostHeard, LeaveIsLast
      <4>2. /\ LastIs(cmds'[h], leaves, leaving)
            /\ cmd.op = "leave" /\ cmd.id = leaves => cmd.intent = leaving /\ ~Has(cmds'[h], "leave")
        BY <1>a, <2>1, <2>2, <4>1, TailLeaves
      <4>3. CASE cmd.op = "written"
        BY <2>2, <3>2, <4>1, <4>2, <4>3
      <4>4. CASE cmd.op = "leave"
        <5>1. ~Asked(wire[h], leaves) /\ wire'[h] = Append(wire[h], cmd)
          BY <2>2, <3>2, <4>1, <4>4
        <5>2. Asked(wire'[h], leaves) => cmd.id = leaves
          <6>1. Asked(Append(wire[h], cmd), leaves) <=> Asked(wire[h], leaves) \/ (cmd.op = "leave" /\ cmd.id = leaves)
            BY <1>a, <3>2, AppendLeaves
          <6> QED BY <5>1, <6>1
        <5>3. LastIs(wire'[h], leaves, leaving)
          BY <1>a, <3>2, <4>2, <4>4, <5>1, AppendLeaves
        <5> QED BY <4>2, <4>4, <5>2, <5>3
      <4>5. CASE cmd.op # "written" /\ cmd.op # "leave"
        <5>1. wire'[h] = Append(wire[h], cmd)
          BY <2>2, <4>5
        <5>2. (Asked(wire'[h], leaves) => Asked(wire[h], leaves)) /\ LastIs(wire'[h], leaves, leaving)
          BY <1>a, <3>2, <4>1, <4>5, <5>1, AppendLeaves
        <5> QED BY <3>2, <4>1, <4>2, <5>2
      <4> QED BY <4>3, <4>4, <4>5
    <3>7. LeaveIsLast(h)'
      BY <1>b, <3>6 DEF LeaveIsLast
    <3>8. ~Has(cmds[h], "leave") /\ ~Has(wire[h], "leave") => ~Has(cmds'[h], "leave") /\ ~Has(wire'[h], "leave")
      <4>1. Has(Append(wire[h], cmd), "leave") <=> Has(wire[h], "leave") \/ cmd.op = "leave"
        BY <1>a, <3>2, AppendReads
      <4> QED BY <2>2, <3>2, <4>1
    <3>9. (Heard(h) => Heard(h)') /\ (Leased(h)' <=> Leased(h))
      BY <1>b, <2>1, <3>8 DEF Heard, Leased
    <3>10. ReplyIsHeard(h)' /\ ConfirmedIsRead(h)'
      BY <1>b, <2>1, <3>1, <3>9 DEF HostHeard, ReplyIsHeard, Got, ConfirmedIsRead, Confirmed
    <3>11. WaitIsWhole(h)'
      BY <1>b, <2>1, <3>1, <3>9 DEF HostHeard, WaitIsWhole, Waiting
    <3> QED BY <1>d, <3>1, <3>5, <3>7, <3>10, <3>11 DEF HostHeard
  <2> QED BY <1>b, <2>1, <2>2, <2>3, HeardByOne
<1>2. CASE HolderReads(h)
  <2>1. /\ back[h] # <<>> /\ back' = [back EXCEPT ![h] = Tail(back[h])]
        /\ ack' = IF Head(back[h]).id = leaves /\ ack[h] = Open
                  THEN [ack EXCEPT ![h] = Replied(Head(back[h]).n)] ELSE ack
        /\ UNCHANGED <<cmds, wire, eof>>
    BY <1>2 DEF HolderReads
  <2>2. /\ back'[h] = Tail(back[h])
        /\ ack'[h] = IF Head(back[h]).id = leaves /\ ack[h] = Open THEN Replied(Head(back[h]).n) ELSE ack[h]
        /\ \A k \in Host : k # h => back'[k] = back[k] /\ ack'[k] = ack[k]
    BY <1>0, <2>1
  <2>3. ASSUME ui = "free" PROVE LeaveHeard' /\ HostHeard(h)'
    <3>1. LeaveHeard' /\ HostHeard(h)
      BY <1>c, <2>3
    <3>2. /\ RepliesTo(back[h], leaves) => RepliesTo(back'[h], leaves)
          /\ Answered(back'[h], leaves) => Answered(back[h], leaves)
          /\ Head(back[h]).id = leaves => Answered(back[h], leaves)
      BY <1>0, <1>a, <2>1, <2>2, ReplySteps
    <3>3. IdsAreOld(h)' /\ LeaveIsLast(h)'
      BY <1>b, <2>1, <3>1, <3>2 DEF HostHeard, IdsAreOld, LeaveIsLast
    <3>4. (Heard(h)' <=> Heard(h)) /\ (Leased(h)' <=> Leased(h))
      BY <1>b, <2>1 DEF Heard, Leased
    <3>5. Got(h)' => Got(h)
      BY <1>b, <2>2, <3>2 DEF Got
    <3>6. ReplyIsHeard(h)' /\ ConfirmedIsRead(h)'
      BY <1>b, <3>1, <3>4, <3>5 DEF HostHeard, ReplyIsHeard, ConfirmedIsRead, Confirmed
    <3>7. WaitIsWhole(h)'
      BY <1>b, <2>2, <3>1, <3>4 DEF HostHeard, WaitIsWhole, Waiting, Replied, Outcome
    <3> QED BY <1>d, <3>1, <3>3, <3>6, <3>7 DEF HostHeard
  <2> QED BY <1>b, <2>1, <2>2, <2>3, HeardByOne
<1>3. CASE HolderEnds(h)
  <2>1. /\ cmds' = [cmds EXCEPT ![h] = <<>>] /\ eof' = [eof EXCEPT ![h] = TRUE]
        /\ ack' = IF ack[h] = Open THEN [ack EXCEPT ![h] = Failed] ELSE ack
        /\ UNCHANGED <<wire, back>>
    BY <1>3 DEF HolderEnds
  <2>2. /\ cmds'[h] = <<>> /\ ~Leased(h)'
        /\ ack'[h] = IF ack[h] = Open THEN Failed ELSE ack[h]
        /\ \A k \in Host : k # h => cmds'[k] = cmds[k] /\ eof'[k] = eof[k] /\ ack'[k] = ack[k]
    BY <1>0, <2>1 DEF Leased
  <2>3. ASSUME ui = "free" PROVE LeaveHeard' /\ HostHeard(h)'
    <3>1. LeaveHeard' /\ HostHeard(h)
      BY <1>c, <2>3
    <3>2. IdsAreOld(h)' /\ LeaveIsLast(h)'
      BY <1>b, <2>1, <2>2, <3>1, EmptyLeaves, EmptyReads DEF HostHeard, IdsAreOld, LeaveIsLast
    <3>3. ReplyIsHeard(h)' /\ ConfirmedIsRead(h)'
      BY <2>2 DEF ReplyIsHeard, ConfirmedIsRead, Heard
    <3>4. WaitIsWhole(h)'
      BY <1>b, <2>2, <3>1 DEF HostHeard, WaitIsWhole, Waiting, Failed, Outcome
    <3> QED BY <1>d, <3>1, <3>2, <3>3, <3>4 DEF HostHeard
  <2> QED BY <1>b, <2>1, <2>2, <2>3, HeardByOne
<1> QED BY <1>1, <1>2, <1>3

\* The steps of the daemon's end: it reads in order, and answers what it read.
LEMMA HeardByDaemon ==
    ASSUME Typed, StreamInv, HeardInv, NEW h \in Host,
           DaemonAnswers(h) \/ DaemonReads(h) \/ DaemonSeesEnd(h) \/ DaemonCuts(h)
    PROVE  HeardInv'
<1>0. /\ wire \in [Host -> Seq(CmdType)] /\ back \in [Host -> Seq(BackType)]
      /\ srv \in [Host -> SrvType] /\ leaves \in 0..MaxLeaves /\ leaves \in Nat /\ cmds \in [Host -> Seq(CmdType)]
  BY WindowAssumption DEF Typed, TasksOK, StreamOK, PastOK
<1>a. back[h] \in Seq(BackType) /\ wire[h] \in Seq(CmdType)
  BY <1>0
<1>b. UNCHANGED <<ui, lv, leaving, leaves, exit, inflight, hs, cmds, ack, eof, lateQ>>
  BY DEF DaemonAnswers, DaemonReads, DaemonSeesEnd, DaemonCuts, window, book, spent, tasks
<1>c. ui = "free" => LeaveHeard /\ HostHeard(h) /\ LeaveHeard'
  BY <1>b DEF HeardInv, LeaveHeard, Waiting, Confirmed
<1>1. CASE DaemonAnswers(h)
  <2>1. PICK s \in Standings \ {"pending"} :
          /\ back' = [back EXCEPT ![h] =
                Append(back[h], [op |-> s, id |-> 0, n |-> IF s = "granted" THEN count[Root[h]] ELSE 0])]
          /\ srv' = [srv EXCEPT ![h] = [srv[h] EXCEPT !.pc = IF s = "granted" THEN "held" ELSE "none"]]
          /\ srv[h].pc = "asked" /\ UNCHANGED wire
    BY <1>1 DEF DaemonAnswers
  <2> DEFINE r == [op |-> s, id |-> 0, n |-> IF s = "granted" THEN count[Root[h]] ELSE 0]
  <2>2. r \in BackType /\ r.id = 0
    BY WindowAssumption DEF BackType, Counts, Typed, StreamOK
  <2>3. /\ back'[h] = Append(back[h], r) /\ srv'[h].heard = srv[h].heard
        /\ \A k \in Host : k # h => back'[k] = back[k] /\ srv'[k] = srv[k]
    BY <1>0, <2>1 DEF SrvType
  <2> HIDE DEF r
  <2>4. ASSUME ui = "free" PROVE LeaveHeard' /\ HostHeard(h)'
    <3>1. LeaveHeard /\ HostHeard(h) /\ LeaveHeard'
      BY <1>c, <2>4
    <3>2. /\ RepliesTo(back[h], leaves) => RepliesTo(back'[h], leaves)
          /\ Answered(back'[h], leaves) => Answered(back[h], leaves) \/ leaves = 0
      <4>1. 0 <= leaves
        BY <1>0
      <4> QED BY <1>0, <1>a, <2>2, <2>3, <4>1, ReplySteps
    <3>3. IdsAreOld(h)' /\ LeaveIsLast(h)'
      BY <1>b, <2>1, <3>1, <3>2 DEF HostHeard, IdsAreOld, LeaveIsLast
    <3>4. leaving # None => (Answered(back'[h], leaves) => Answered(back[h], leaves))
      BY <3>1, <3>2 DEF LeaveHeard
    <3>5. (Leased(h)' => Leased(h)) /\ (Heard(h) => Heard(h)')
      BY <1>b, <2>1, <2>3 DEF Leased, Heard
    <3>6. ReplyIsHeard(h)' /\ AskingIsUnasked(h)' /\ ConfirmedIsRead(h)'
      BY <1>b, <3>1, <3>4, <3>5
      DEF HostHeard, ReplyIsHeard, Got, AskingIsUnasked, ConfirmedIsRead, Confirmed
    <3>7. WaitIsWhole(h)'
      BY <1>b, <3>1, <3>5 DEF HostHeard, WaitIsWhole, Waiting
    <3> QED BY <3>1, <3>3, <3>6, <3>7 DEF HostHeard
  <2> QED BY <1>b, <2>1, <2>3, <2>4, HeardByOne
<1>2. CASE DaemonReads(h)
  <2> DEFINE f == Head(wire[h])
  <2>1. /\ wire[h] # <<>> /\ srv[h].pc # "none" /\ wire' = [wire EXCEPT ![h] = Tail(wire[h])]
        /\ \/ /\ f.op = "leave"
              /\ srv' = [srv EXCEPT ![h] = [pc |-> "left", heard |-> f.intent]]
              /\ \E n \in 0..load[1] : back' = [back EXCEPT ![h] = Append(back[h], [op |-> "left", id |-> f.id, n |-> n])]
           \/ /\ f.op = "seen" /\ UNCHANGED <<srv, back>>
    BY <1>2 DEF DaemonReads
  <2>2. /\ f \in CmdType /\ wire'[h] = Tail(wire[h])
        /\ Has(wire'[h], "leave") => Has(wire[h], "leave")
        /\ f.op = "leave" => Has(wire[h], "leave")
    BY <1>0, <1>a, <2>1, TailReads, TailLeaves
  <2>3. \A k \in Host : k # h => wire'[k] = wire[k] /\ back'[k] = back[k] /\ srv'[k] = srv[k]
    BY <1>0, <2>1
  <2>4. ASSUME ui = "free" PROVE LeaveHeard' /\ HostHeard(h)'
    <3>1. LeaveHeard /\ HostHeard(h) /\ LeaveHeard'
      BY <1>c, <2>4
    <3>2. /\ LeavesTo(wire'[h], leaves) /\ (f.op = "leave" => f.id <= leaves)
          /\ LeavesTo(cmds[h], leaves) /\ RepliesTo(back[h], leaves)
      BY <1>a, <2>1, <2>2, <3>1, TailLeaves DEF HostHeard, IdsAreOld
    <3>3. ASSUME leaving # None
          PROVE  /\ LastIs(cmds[h], leaves, leaving) /\ LastIs(wire'[h], leaves, leaving)
                 /\ Asked(wire'[h], leaves) => ~Has(cmds[h], "leave")
                 /\ f.op = "leave" /\ f.id = leaves =>
                      f.intent = leaving /\ ~Has(wire'[h], "leave") /\ ~Has(cmds[h], "leave")
      <4>1. /\ LastIs(cmds[h], leaves, leaving) /\ LastIs(wire[h], leaves, leaving)
            /\ Asked(wire[h], leaves) => ~Has(cmds[h], "leave")
        BY <3>1, <3>3 DEF HostHeard, LeaveIsLast
      <4>2. /\ LastIs(wire'[h], leaves, leaving)
            /\ Asked(wire'[h], leaves) => Asked(wire[h], leaves)
            /\ f.op = "leave" /\ f.id = leaves =>
                 f.intent = leaving /\ ~Has(wire'[h], "leave") /\ Asked(wire[h], leaves)
        BY <1>a, <2>1, <2>2, <4>1, TailLeaves
      <4> QED BY <4>1, <4>2
    <3>4. LeaveIsLast(h)'
      BY <1>b, <3>3 DEF LeaveIsLast
    <3>5. ~(Running /\ hs[h] = "sent") /\ Running
      BY <2>1, <3>1 DEF StreamInv, AskedIsFresh, LeaveHeard, Running
    <3>6. CASE f.op = "seen" /\ UNCHANGED <<srv, back>>
      <4>1. (Heard(h) => Heard(h)') /\ (Leased(h)' <=> Leased(h))
        BY <1>b, <2>2, <3>6 DEF Heard, Leased
      <4>2. ReplyIsHeard(h)' /\ AskingIsUnasked(h)' /\ ConfirmedIsRead(h)'
        BY <1>b, <3>1, <3>6, <4>1
        DEF HostHeard, ReplyIsHeard, Got, AskingIsUnasked, ConfirmedIsRead, Confirmed
      <4>3. IdsAreOld(h)' /\ WaitIsWhole(h)'
        BY <1>b, <3>1, <3>2, <3>6, <4>1 DEF HostHeard, IdsAreOld, WaitIsWhole, Waiting
      <4> QED BY <3>1, <3>4, <4>2, <4>3 DEF HostHeard
    <3>7. CASE /\ f.op = "leave"
               /\ srv' = [srv EXCEPT ![h] = [pc |-> "left", heard |-> f.intent]]
               /\ \E n \in 0..load[1] : back' = [back EXCEPT ![h] = Append(back[h], [op |-> "left", id |-> f.id, n |-> n])]
      <4>1. PICK n \in 0..load[1] : back' = [back EXCEPT ![h] = Append(back[h], [op |-> "left", id |-> f.id, n |-> n])]
        BY <3>7
      <4> DEFINE r == [op |-> "left", id |-> f.id, n |-> n]
      <4>2. r \in BackType /\ r.id = f.id
        <5>1. f.id \in 0..MaxLeaves /\ n \in Counts
          BY <2>2, LoadBounds, WindowAssumption DEF CmdType, Counts, Typed
        <5> QED BY <5>1 DEF BackType
      <4>3. back'[h] = Append(back[h], r) /\ srv'[h] = [pc |-> "left", heard |-> f.intent]
        BY <1>0, <3>7, <4>1
      <4> HIDE DEF r
      <4>4. /\ RepliesTo(back'[h], leaves)
            /\ Answered(back'[h], leaves) => Answered(back[h], leaves) \/ f.id = leaves
        <5>1. /\ RepliesTo(back[h], leaves) /\ r.id <= leaves => RepliesTo(Append(back[h], r), leaves)
              /\ Answered(Append(back[h], r), leaves) => Answered(back[h], leaves) \/ r.id = leaves
          BY <1>0, <1>a, <4>2, ReplySteps
        <5> QED BY <3>2, <3>7, <4>2, <4>3, <5>1
      <4>5. (Leased(h)' <=> Leased(h)) /\ (Heard(h) => ~Leased(h))
        BY <1>b, <2>1, <2>2, <3>7, <4>3 DEF Leased, Heard
      <4>6. leaving # None /\ f.id = leaves => Heard(h)'
        BY <1>b, <3>3, <3>7, <4>3 DEF Heard
      <4>7. leaving # None /\ Got(h)' => Got(h) \/ f.id = leaves
        BY <1>b, <4>4 DEF Got
      <4>8. Heard(h) => Heard(h)'
        BY <4>5 DEF Heard
      <4>9. ReplyIsHeard(h)' /\ ConfirmedIsRead(h)'
        BY <1>b, <3>1, <4>6, <4>7, <4>8 DEF HostHeard, ReplyIsHeard, ConfirmedIsRead, Confirmed
      <4>10. AskingIsUnasked(h)'
        BY <1>b, <3>1, <3>5 DEF HostHeard, AskingIsUnasked
      <4>11. IdsAreOld(h)' /\ WaitIsWhole(h)'
        BY <1>b, <3>1, <3>2, <4>4, <4>5 DEF HostHeard, IdsAreOld, WaitIsWhole, Waiting
      <4> QED BY <3>1, <3>4, <4>9, <4>10, <4>11 DEF HostHeard
    <3> QED BY <2>1, <3>6, <3>7
  <2> QED BY <1>b, <2>3, <2>4, HeardByOne
<1>3. CASE DaemonSeesEnd(h) \/ DaemonCuts(h)
  <2>1. /\ srv' = [srv EXCEPT ![h] = [srv[h] EXCEPT !.pc = "none"]] /\ UNCHANGED back
        /\ wire' = wire \/ wire' = [wire EXCEPT ![h] = <<>>]
    BY <1>3 DEF DaemonSeesEnd, DaemonCuts
  <2>2. /\ ~Leased(h)' /\ (wire'[h] = wire[h] \/ wire'[h] = <<>>)
        /\ \A k \in Host : k # h => wire'[k] = wire[k] /\ srv'[k] = srv[k]
    BY <1>0, <2>1 DEF Leased, SrvType
  <2>3. ASSUME ui = "free" PROVE LeaveHeard' /\ HostHeard(h)'
    <3>1. LeaveHeard' /\ HostHeard(h)
      BY <1>c, <2>3
    <3>2. IdsAreOld(h)' /\ LeaveIsLast(h)'
      BY <1>b, <2>1, <2>2, <3>1, EmptyLeaves DEF HostHeard, IdsAreOld, LeaveIsLast
    <3>3. ReplyIsHeard(h)' /\ ConfirmedIsRead(h)'
      BY <2>2 DEF ReplyIsHeard, ConfirmedIsRead, Heard
    <3>4. WaitIsWhole(h)' /\ AskingIsUnasked(h)'
      BY <1>b, <2>1, <2>2, <3>1 DEF HostHeard, WaitIsWhole, Waiting, AskingIsUnasked
    <3> QED BY <3>1, <3>2, <3>3, <3>4 DEF HostHeard
  <2> QED BY <1>b, <2>1, <2>2, <2>3, HeardByOne
<1> QED BY <1>1, <1>2, <1>3

\* A leave begins: no daemon has answered it, and every lease whose handshake
\* is over is in the wait (leave_all).
LEMMA HeardByLeaves ==
    ASSUME Typed, ReceiptInv, StreamInv, HeardInv, NEW i \in Intents, NEW code \in {0, Relaunch},
           Leaves(i, code)
    PROVE  HeardInv'
<1> SUFFICES ASSUME ui' = "free" PROVE LeaveHeard' /\ \A h \in Host : HostHeard(h)'
  BY Zenon DEF HeardInv
<1>1. /\ leaves' = leaves + 1 /\ leaving' = i /\ i # None /\ lateQ' = {}
      /\ cmds' = [h \in Host |-> IF Held(h) THEN Append(cmds[h], Leave(i, leaves')) ELSE cmds[h]]
      /\ ack' = [h \in Host |-> IF Held(h) THEN Open ELSE NoAck]
      /\ UNCHANGED <<hs, wire, back, srv>>
  BY WindowAssumption DEF Leaves, LeaveAll, Intents
<1>2. lv' # NoLeave /\ UNCHANGED <<ui, exit, eof>>
  BY DEF Leaves, Finish
<1>3. lv' = [NoLeave EXCEPT !.phase = "waiting", !.intent = i, !.code = code,
                            !.pending = HeldNow, !.late = TRUE]
  BY <1>2 DEF Leaves, LeaveAll
<1>4. /\ lv'.phase = "waiting" /\ lv'.pending = HeldNow /\ lv'.late = TRUE
      /\ lv'.outcome = [h \in Host |-> NoAck]
  BY <1>3 DEF NoLeave
<1>5. LeaveHeard /\ (\A h \in Host : HostHeard(h)) /\ leaves \in Nat /\ leaves' \in 0..MaxLeaves
  <2>1. leaves \in Nat /\ load[2] \in 0..MaxLeaves /\ leaves < load[2] /\ MaxLeaves \in Nat
    BY LoadBounds, WindowAssumption DEF Typed, PastOK, Leaves, LeaveAll
  <2>2. leaves' \in 0..MaxLeaves
    BY <1>1, <2>1
  <2> QED BY <1>2, <2>1, <2>2 DEF HeardInv
<1>6. leaves' > 0 /\ leaves' \in Nat
  BY <1>1, <1>5
<1>7. LeaveHeard'
  <2>1. exit' = None
    BY <1>2, <1>5 DEF LeaveHeard
  <2>2. lv'.late /\ ~Confirmed'
    BY <1>4 DEF Confirmed
  <2> QED BY <1>6, <2>1, <2>2 DEF LeaveHeard
<1>8. ASSUME NEW h \in Host PROVE HostHeard(h)'
  <2>1. cmds[h] \in Seq(CmdType) /\ wire[h] \in Seq(CmdType) /\ back[h] \in Seq(BackType)
    BY DEF Typed, TasksOK, StreamOK
  <2>2. IdsAreOld(h)
    BY <1>5 DEF HostHeard
  <2>3. /\ ~Asked(cmds[h], leaves') /\ LeavesTo(cmds[h], leaves') /\ LastIs(cmds[h], leaves', i)
        /\ ~Asked(wire[h], leaves') /\ LeavesTo(wire[h], leaves') /\ LastIs(wire[h], leaves', i)
    BY <1>1, <1>5, <2>1, <2>2, NoNewerLeave DEF IdsAreOld
  <2>4. RepliesTo(back[h], leaves') /\ ~Answered(back[h], leaves')
    BY <1>1, <1>5, <2>1, <2>2, ReplySteps DEF IdsAreOld
  <2>5. LeavesTo(cmds'[h], leaves') /\ LastIs(cmds'[h], leaves', i)
    <3>1. CASE Held(h)
      <4>1. Leave(i, leaves') \in CmdType /\ Leave(i, leaves').intent = i /\ Leave(i, leaves').id = leaves'
        BY <1>5, CmdTypes DEF Leave
      <4>2. leaves' <= leaves'
        BY <1>6
      <4>3. /\ LeavesTo(Append(cmds[h], Leave(i, leaves')), leaves')
            /\ LastIs(Append(cmds[h], Leave(i, leaves')), leaves', i)
        BY <2>1, <2>3, <4>1, <4>2, AppendLeaves
      <4> QED BY <1>1, <3>1, <4>3
    <3>2. CASE ~Held(h)
      BY <1>1, <2>3, <3>2
    <3> QED BY <3>1, <3>2
  <2>6. IdsAreOld(h)' /\ LeaveIsLast(h)'
    BY <1>1, <2>3, <2>4, <2>5 DEF IdsAreOld, LeaveIsLast
  <2>7. ack'[h] = IF Held(h) THEN Open ELSE NoAck
    BY <1>1
  <2>8. Open.is = "open" /\ NoAck.is = "none"
    BY DEF Open, NoAck, Outcome
  <2>9. ~Got(h)'
    BY <1>1, <1>4, <2>4, <2>7, <2>8 DEF Got
  <2>10. ReplyIsHeard(h)' /\ ConfirmedIsRead(h)'
    BY <1>4, <2>9 DEF ReplyIsHeard, ConfirmedIsRead, Confirmed
  <2>11. AskingIsUnasked(h)'
    <3>1. hs[h] # "none" => ~Held(h)
      BY DEF ReceiptInv, AskingIsVacant, Held
    <3> QED BY <1>1, <1>4, <2>4, <2>7, <3>1 DEF AskingIsUnasked, HeldNow
  <2>12. WaitIsWhole(h)'
    <3>1. Leased(h) /\ hs[h] = "none" => Held(h)
      BY <1>5 DEF LeaveHeard, StreamInv, OpenIsOurs, Running
    <3>2. Leased(h)' <=> Leased(h)
      BY <1>1, <1>2 DEF Leased
    <3> QED BY <1>1, <1>4, <2>7, <2>8, <3>1, <3>2 DEF WaitIsWhole, HeldNow
  <2> QED BY <2>6, <2>10, <2>11, <2>12 DEF HostHeard
<1> QED BY <1>7, <1>8

\* What a poll takes: the handshakes that settled join, the answers come in.
LEMMA CollectedFields ==
    ASSUME Typed, LeaveHeard, Waiting
    PROVE  /\ \A h \in Host : h \in Joined.pending <=> h \in lv.pending \cup lateQ
           /\ Joined.outcome = lv.outcome
           /\ \A h \in Host : h \in Collected.pending <=> h \in Joined.pending /\ ack[h] = Open
           /\ \A h \in Host : Collected.outcome[h] =
                 IF h \in Joined.pending /\ ack[h] # Open THEN ack[h] ELSE lv.outcome[h]
<1>1. lv \in LeavingType /\ Joined \in LeavingType
  BY JoinedType DEF Typed, WindowOK
<1>2. Joined.outcome = lv.outcome /\ Joined.pending = IF lv.late THEN lv.pending \cup lateQ ELSE lv.pending
  BY <1>1, Zenon DEF Joined, LeavingType
<1>3. ~lv.late => lateQ = {}
  BY DEF LeaveHeard
<1>4. /\ Collected.pending = {h \in Joined.pending : ack[h] = Open}
      /\ Collected.outcome = [h \in Host |-> IF h \in Joined.pending /\ ack[h] # Open
                                             THEN ack[h] ELSE Joined.outcome[h]]
  BY <1>1 DEF Collected, LeavingType
<1> QED BY <1>2, <1>3, <1>4

\* A wait that goes on keeps every host it waits for, or its answer.
LEMMA HeardByWait ==
    ASSUME HeardInv, Waiting, lv'.phase \in {"waiting", "staying"}, lateQ' = {},
           UNCHANGED <<leaving, leaves, inflight, exit, wire, back, srv, eof, hs, ack, cmds, ui>>,
           \A h \in Host :
              /\ h \in lv'.pending => h \in lv.pending \cup lateQ
              /\ \/ lv'.outcome[h] = lv.outcome[h] /\ (h \in lv.pending \cup lateQ => h \in lv'.pending)
                 \/ h \in lv.pending \cup lateQ /\ ack[h] # Open /\ lv'.outcome[h] = ack[h]
    PROVE  HeardInv'
<1> SUFFICES ASSUME ui = "free" PROVE LeaveHeard' /\ \A h \in Host : HostHeard(h)'
  BY DEF HeardInv
<1>1. LeaveHeard /\ \A h \in Host : HostHeard(h)
  BY DEF HeardInv
<1>2. Waiting' /\ ~Confirmed' /\ lv.phase # "none"
  BY DEF Waiting, Confirmed
<1>3. LeaveHeard'
  BY <1>1, <1>2 DEF LeaveHeard
<1>4. ASSUME NEW h \in Host PROVE HostHeard(h)'
  <2>1. HostHeard(h)
    BY <1>1
  <2>2. (Heard(h)' <=> Heard(h)) /\ (Leased(h)' <=> Leased(h))
    BY DEF Heard, Leased
  <2>3. IdsAreOld(h)' /\ LeaveIsLast(h)' /\ ConfirmedIsRead(h)'
    BY <1>2, <2>1 DEF HostHeard, IdsAreOld, LeaveIsLast, ConfirmedIsRead
  <2>4. Got(h)' => Got(h)
    BY <1>2 DEF Got
  <2>5. ReplyIsHeard(h)'
    BY <2>1, <2>2, <2>4 DEF HostHeard, ReplyIsHeard
  <2>6. AskingIsUnasked(h)'
    BY <2>1 DEF HostHeard, AskingIsUnasked
  <2>7. WaitIsWhole(h)'
    BY <2>1, <2>2 DEF HostHeard, WaitIsWhole
  <2> QED BY <2>3, <2>5, <2>6, <2>7 DEF HostHeard
<1> QED BY <1>3, <1>4

\* A wait that ends without a warning has heard every daemon (leave_report).
LEMMA ConfirmedMeansHeard ==
    ASSUME Typed, LeaveInv, HeardInv, ui = "free", Waiting, ~Unconfirmed(Collected)
    PROVE  inflight = 0 /\ \A h \in Host : Heard(h)
<1>1. /\ ~Collected.late
      /\ \A h \in Host : h \notin Collected.pending /\ Collected.outcome[h].is # "failed"
  BY DEF Unconfirmed
<1>2. leaving # None /\ (~lv.late => ~late)
  BY DEF Waiting, LeaveInv, WaitIsTheLeave, WaitSeesLate
<1>3. lv.late /\ late <=> Collected.late
  BY JoinedFields
<1>4. inflight = 0
  BY <1>1, <1>2, <1>3, NoLateNoneFlies
<1>5. \A h \in Host : hs[h] = "none"
  <2>1. Cardinality(Flying(hs)) = 0
    BY <1>4, Counting DEF Typed
  <2> QED BY <2>1, NoneFlies
<1>6. LeaveHeard /\ \A h \in Host : HostHeard(h)
  BY DEF HeardInv
<1>7. ASSUME NEW h \in Host, Leased(h) PROVE Heard(h)
  <2>1. /\ h \in lv.pending \cup lateQ => ack[h] = Open \/ ack[h].is \in {"failed", "replied"}
        /\ h \in lv.pending \cup lateQ \/ lv.outcome[h].is \in {"failed", "replied"}
    BY <1>5, <1>6, <1>7 DEF HostHeard, WaitIsWhole
  <2>2. /\ h \in Joined.pending <=> h \in lv.pending \cup lateQ
        /\ h \in Joined.pending => ack[h] # Open
        /\ Collected.outcome[h] = IF h \in Joined.pending /\ ack[h] # Open THEN ack[h] ELSE lv.outcome[h]
    BY <1>1, <1>6, CollectedFields
  <2>3. ack[h].is = "replied" \/ lv.outcome[h].is = "replied"
    BY <1>1, <2>1, <2>2
  <2>4. Got(h)
    BY <2>3 DEF Got, Waiting
  <2> QED BY <1>2, <1>6, <2>4 DEF HostHeard, ReplyIsHeard
<1>8. ASSUME NEW h \in Host PROVE Heard(h)
  BY <1>7 DEF Heard
<1> QED BY <1>4, <1>8

\* A stay ends the leave: outside one, nothing is waited for.
LEMMA HeardByStay ==
    ASSUME HeardInv, ui = "free", StayTaken
    PROVE  HeardInv'
<1>1. lv'.phase = "none" /\ leaving' = None /\ UNCHANGED <<exit, leaves, cmds, wire, back>>
  BY DEF StayTaken, NoLeave, stream, spent
<1>2. exit = None /\ \A h \in Host : IdsAreOld(h)
  BY DEF HeardInv, LeaveHeard, HostHeard
<1>3. \A h \in Host : IdsAreOld(h)'
  BY <1>1, <1>2 DEF IdsAreOld
<1> QED BY <1>1, <1>2, <1>3, HeardIdle

\* The steps of the poll.
LEMMA HeardByPoll ==
    ASSUME Typed, LeaveInv, HeardInv, PollWaits \/ PollStays \/ Stays \/ PollShows \/ PollExits \/ LineEnds
    PROVE  HeardInv'
<1> SUFFICES ASSUME ui' = "free" PROVE HeardInv'
  BY Zenon DEF HeardInv
<1>0. /\ lv \in LeavingType /\ Joined \in LeavingType /\ Collected \in LeavingType
  BY JoinedType DEF Typed, WindowOK
<1>1. CASE PollWaits \/ PollStays
  <2>1. /\ lv.phase = "waiting" /\ lv' \in {Collected, [Collected EXCEPT !.phase = "staying"]} /\ lateQ' = {}
        /\ UNCHANGED <<leaving, leaves, inflight, exit, wire, back, srv, eof, hs, ack, cmds, ui>>
    BY <1>1 DEF PollWaits, PollStays, stream, spent, tasks
  <2>2. Waiting /\ LeaveHeard
    BY <2>1 DEF HeardInv, Waiting
  <2>3. /\ lv'.phase \in {"waiting", "staying"}
        /\ lv'.pending = Collected.pending /\ lv'.outcome = Collected.outcome
    BY <1>0, <2>1, JoinedFields DEF LeavingType
  <2>4. \A h \in Host :
              /\ h \in lv'.pending => h \in lv.pending \cup lateQ
              /\ \/ lv'.outcome[h] = lv.outcome[h] /\ (h \in lv.pending \cup lateQ => h \in lv'.pending)
                 \/ h \in lv.pending \cup lateQ /\ ack[h] # Open /\ lv'.outcome[h] = ack[h]
    BY <2>2, <2>3, CollectedFields
  <2> QED BY <2>1, <2>2, <2>3, <2>4, HeardByWait
<1>2. CASE Stays /\ ~StayTaken
  <2>1. /\ lv.phase = "staying" /\ lv' = [Joined EXCEPT !.phase = "waiting"] /\ lateQ' = {}
        /\ UNCHANGED <<leaving, leaves, inflight, exit, wire, back, srv, eof, hs, ack, cmds, ui>>
    BY <1>2 DEF Stays, stream, spent, tasks
  <2>2. Waiting /\ LeaveHeard
    BY <2>1 DEF HeardInv, Waiting
  <2>3. lv'.phase = "waiting" /\ lv'.pending = Joined.pending /\ lv'.outcome = Joined.outcome
    BY <1>0, <2>1 DEF LeavingType
  <2>4. \A h \in Host :
              /\ h \in lv'.pending => h \in lv.pending \cup lateQ
              /\ lv'.outcome[h] = lv.outcome[h] /\ (h \in lv.pending \cup lateQ => h \in lv'.pending)
    BY <2>2, <2>3, CollectedFields
  <2> QED BY <2>1, <2>2, <2>3, <2>4, HeardByWait
<1>3. CASE Stays /\ StayTaken
  <2>1. ui = "free"
    BY <1>3 DEF Stays
  <2> QED BY <1>3, <2>1, HeardByStay
<1>4. CASE PollShows
  <2>1. /\ lv.phase = "waiting" /\ lateQ' = {}
        /\ lv' = [Final(Collected) EXCEPT !.phase = "shown", !.acks = Acked(Collected)]
        /\ UNCHANGED <<leaving, leaves, inflight, exit, wire, back, srv, eof, hs, ack, cmds, ui>>
    BY <1>4 DEF PollShows, Reports, stream, spent, tasks
  <2>2. Waiting /\ ui = "free" /\ LeaveHeard /\ \A h \in Host : HostHeard(h)
    BY <2>1 DEF HeardInv, Waiting
  <2>3. /\ lv'.phase = "shown" /\ lv'.pending = {} /\ lv'.warned = Unconfirmed(Collected)
        /\ lv'.outcome = [h \in Host |-> IF h \in Collected.pending THEN TimedOut ELSE Collected.outcome[h]]
    BY <1>0, <2>1 DEF Final, LeavingType
  <2>4. Confirmed' => inflight = 0 /\ \A h \in Host : Heard(h)
    BY <2>2, <2>3, ConfirmedMeansHeard DEF Confirmed
  <2>5. LeaveHeard'
    BY <2>1, <2>2, <2>3, <2>4 DEF LeaveHeard
  <2>6. ASSUME NEW h \in Host PROVE HostHeard(h)'
    <3>1. HostHeard(h)
      BY <2>2
    <3>2. lv'.outcome[h] = IF h \in Collected.pending THEN TimedOut ELSE
            IF h \in Joined.pending /\ ack[h] # Open THEN ack[h] ELSE lv.outcome[h]
      BY <2>2, <2>3, CollectedFields
    <3>3. /\ h \in Collected.pending => h \in Joined.pending
          /\ h \in Joined.pending <=> h \in lv.pending \cup lateQ
      BY <2>2, CollectedFields
    <3>4. (Heard(h)' <=> Heard(h)) /\ TimedOut.is = "timed_out"
      BY <2>1 DEF Heard, Leased, TimedOut, Outcome
    <3>5. Got(h)' => Got(h)
      BY <2>1, <3>2, <3>4 DEF Got
    <3>6. IdsAreOld(h)' /\ LeaveIsLast(h)' /\ ReplyIsHeard(h)'
      BY <2>1, <3>1, <3>4, <3>5 DEF HostHeard, IdsAreOld, LeaveIsLast, ReplyIsHeard
    <3>7. AskingIsUnasked(h)'
      BY <2>1, <2>3, <3>1, <3>2, <3>3 DEF HostHeard, AskingIsUnasked
    <3>8. WaitIsWhole(h)' /\ ConfirmedIsRead(h)'
      BY <2>3, <2>4, <3>4 DEF WaitIsWhole, Waiting, ConfirmedIsRead
    <3> QED BY <3>6, <3>7, <3>8 DEF HostHeard
  <2> QED BY <2>5, <2>6 DEF HeardInv
<1>5. CASE PollExits \/ LineEnds
  BY <1>5 DEF PollExits, LineEnds, Finish
<1> QED BY <1>1, <1>2, <1>3, <1>4, <1>5

LEMMA NextHeard ==
    ASSUME Typed, LeaveInv, ReceiptInv, StreamInv, HeardInv, [Next]_vars
    PROVE  HeardInv'
<1> DEFINE Queued(e) == \A h \in Host : cmds'[h] = cmds[h] \/ cmds'[h] = Append(cmds[h], e[h])
<1>1. CASE FramePresented
  <2> DEFINE e == [h \in Host |-> NoticeSeen(drawn[Root[h]])]
  <2>1. \A h \in Host : drawn[Root[h]] \in Counts
    BY WindowAssumption DEF Typed, WindowOK
  <2>2. \A h \in Host : e[h] \in CmdType /\ e[h].op # "leave"
    BY <2>1, CmdTypes DEF NoticeSeen
  <2>3. /\ Queued(e)
        /\ UNCHANGED <<ui, lv, leaving, leaves, inflight, lateQ, exit, wire, back, srv, eof, hs, ack>>
    BY <1>1 DEF FramePresented, stream, spent
  <2> HIDE DEF e
  <2> QED BY <2>2, <2>3, HeardStands
<1>2. CASE LinePresented
  <2> DEFINE e == [h \in Host |-> NoticeSeen(lv.outcome[h].n)]
  <2>0. lv \in LeavingType
    BY DEF Typed, WindowOK
  <2>1. \A h \in Host : lv.outcome[h].n \in Counts
    BY <2>0 DEF LeavingType, OutcomeType
  <2>2. \A h \in Host : e[h] \in CmdType /\ e[h].op # "leave"
    BY <2>1, CmdTypes DEF NoticeSeen
  <2>3. /\ Queued(e) /\ lv.phase = "shown" /\ lv' = [lv EXCEPT !.phase = "held", !.acks = {}]
        /\ UNCHANGED <<ui, leaving, leaves, inflight, lateQ, exit, wire, back, srv, eof, hs, ack>>
    BY <1>2 DEF LinePresented, book, stream, spent
  <2>4. /\ lv'.late = lv.late /\ lv'.pending = lv.pending /\ lv'.outcome = lv.outcome
        /\ lv'.warned = lv.warned /\ lv'.phase = "held"
    BY <2>0, <2>3 DEF LeavingType
  <2> HIDE DEF e
  <2> QED BY <2>2, <2>3, <2>4, HeardStands
<1>3. CASE DeadlinePasses
  <2>0. lv \in LeavingType
    BY DEF Typed, WindowOK
  <2> DEFINE e == [h \in Host |-> Written]
  <2>1. \A h \in Host : e[h] \in CmdType /\ e[h].op # "leave"
    BY CmdTypes DEF Written
  <2>2. /\ Queued(e) /\ lv' = [lv EXCEPT !.due = TRUE]
        /\ UNCHANGED <<ui, leaving, leaves, inflight, lateQ, exit, wire, back, srv, eof, hs, ack>>
    BY <1>3 DEF DeadlinePasses, book, tasks, stream, spent
  <2>3. /\ lv'.late = lv.late /\ lv'.pending = lv.pending /\ lv'.outcome = lv.outcome
        /\ lv'.warned = lv.warned /\ lv'.phase = lv.phase
    BY <2>0, <2>2 DEF LeavingType
  <2> HIDE DEF e
  <2> QED BY <2>1, <2>2, <2>3, HeardStands
<1>4. CASE FrameDraws \/ FrameDropped \/ (\E d \in Daemon : CountGrows(d)) \/ UNCHANGED vars
  <2> DEFINE e == [h \in Host |-> Written]
  <2>1. \A h \in Host : e[h] \in CmdType /\ e[h].op # "leave"
    BY CmdTypes DEF Written
  <2>2. /\ Queued(e)
        /\ UNCHANGED <<ui, lv, leaving, leaves, inflight, lateQ, exit, wire, back, srv, eof, hs, ack>>
    BY <1>4 DEF FrameDraws, FrameDropped, CountGrows, vars, book, tasks, window, stream, spent
  <2> HIDE DEF e
  <2> QED BY <2>1, <2>2, HeardStands
<1>5. CASE AsksAndStays
  <2>1. ui = "free" /\ StayTaken
    BY <1>5 DEF AsksAndStays, UiFree
  <2> QED BY <2>1, HeardByStay
<1>6. ASSUME NEW r \in Reasons, AsksToLeave(r) \/ AsksAgain(r) PROVE HeardInv'
  <2>1. PICK i \in Intents, code \in {0, Relaunch} : Leaves(i, code)
    BY <1>6 DEF AsksToLeave, AsksAgain, LeaveOf, Intents, Reasons
  <2> QED BY <2>1, HeardByLeaves
<1>7. CASE (\E r \in Reasons : AsksNow(r)) \/ NativeClose \/ Delivered \/ ProcessEnds
  <2>1. ui' # "free"
    BY <1>7 DEF AsksNow, NativeClose, Delivered, ProcessEnds, Deliver
  <2> QED BY <2>1 DEF HeardInv
<1> QED BY <1>1, <1>2, <1>3, <1>4, <1>5, <1>6, <1>7, HeardByPoll, HeardByHandshake, HeardByHolder, HeardByDaemon
        DEF Next

LEMMA HeardInvariant == Spec => []HeardInv
<1>1. Init => HeardInv
  <2> SUFFICES ASSUME Init PROVE LeaveHeard /\ \A h \in Host : HostHeard(h)
    BY DEF HeardInv
  <2>1. lv.phase = "none" /\ leaving = None /\ exit = None
    BY DEF Init, NoLeave
  <2>2. LeaveHeard
    BY <2>1 DEF LeaveHeard, Waiting, Confirmed
  <2>3. ASSUME NEW h \in Host PROVE HostHeard(h)
    <3>1. IdsAreOld(h)
      BY EmptyLeaves DEF Init, IdsAreOld
    <3> QED BY <2>1, <3>1 DEF HostHeard, LeaveIsLast, ReplyIsHeard, AskingIsUnasked,
                              WaitIsWhole, Waiting, ConfirmedIsRead, Confirmed
  <2> QED BY <2>2, <2>3
<1>2. Typed /\ LeaveInv /\ ReceiptInv /\ StreamInv /\ HeardInv /\ [Next]_vars => HeardInv'
  BY NextHeard
<1> QED BY <1>1, <1>2, TypesInvariant, LeaveInvariant, ReceiptInvariant, StreamInvariant, PTL DEF Spec

\* A leave that ends the window without a warning was heard: every daemon
\* that leases this window has read its last intent, and reads no other on
\* that stream (leave_all, the holder's table of replies, leave_report).
THEOREM ConfirmedLeavesAreHeard == Spec => ConfirmedIsHeard
<1> DEFINE A == (ui = "free" /\ ui' = "ending" /\ ~lv'.warned)
                  => \A h \in Host : Leased(h) => srv[h].heard = leaving'
<1>1. Typed /\ LeaveInv /\ StreamInv /\ HeardInv /\ [Next]_vars => [A]_vars
  <2> SUFFICES ASSUME Typed, LeaveInv, StreamInv, HeardInv, Next, ui = "free", ui' = "ending", ~lv'.warned
               PROVE  \A h \in Host : Leased(h) => srv[h].heard = leaving'
    OBVIOUS
  <2>1. LeaveHeard /\ \A h \in Host : HostHeard(h)
    BY DEF HeardInv
  <2>2. \/ \E r \in Reasons : AsksToLeave(r) \/ AsksAgain(r)
        \/ PollExits \/ LineEnds
    BY DEF Next, Begin, Send, AskFails, ReadGrant, ReadRefusal, Cancel, HolderTakes, HolderReads, HolderEnds,
           FrameDraws, FramePresented, FrameDropped, AsksNow, NativeClose, Deliver, Delivered, AsksAndStays,
           DeadlinePasses, PollWaits, PollStays, Stays, PollShows, LinePresented, ProcessEnds,
           DaemonAnswers, DaemonReads, DaemonSeesEnd, DaemonCuts, CountGrows, window
  <2>3. ASSUME NEW r \in Reasons, AsksToLeave(r) \/ AsksAgain(r)
        PROVE  \A h \in Host : Leased(h) => srv[h].heard = leaving'
    <3>1. PICK i \in Intents, code \in {0, Relaunch} : Leaves(i, code)
      BY <2>3 DEF AsksToLeave, AsksAgain, LeaveOf, Intents, Reasons
    <3>2. lv' = NoLeave
      BY <3>1 DEF Leaves
    <3>3. HeldNow = {} /\ inflight = 0
      <4>1. NoLeave.phase = "none" /\ [NoLeave EXCEPT !.phase = "waiting", !.intent = i, !.code = code,
                                                     !.pending = HeldNow, !.late = TRUE].phase = "waiting"
        BY DEF NoLeave
      <4>2. lv' = IF HeldNow = {} /\ inflight = 0 THEN NoLeave
                  ELSE [NoLeave EXCEPT !.phase = "waiting", !.intent = i, !.code = code,
                                       !.pending = HeldNow, !.late = TRUE]
        BY <3>1 DEF Leaves, LeaveAll
      <4> QED BY <3>2, <4>1, <4>2, Zenon
    <3>4. Cardinality(Flying(hs)) = 0
      BY <3>3, Counting DEF Typed
    <3>5. \A h \in Host : hs[h] = "none" /\ ~Held(h)
      BY <3>3, <3>4, NoneFlies DEF HeldNow
    <3> QED BY <2>1, <3>5 DEF LeaveHeard, StreamInv, OpenIsOurs, Running
  <2>4. CASE PollExits
    <3>1. lv.phase = "waiting" /\ lv' = Final(Collected) /\ leaving' = leaving
      BY <2>4 DEF PollExits, Reports
    <3>2. Collected \in LeavingType
      BY JoinedType
    <3>3. lv'.warned = Unconfirmed(Collected)
      BY <3>1, <3>2 DEF Final, LeavingType
    <3>4. \A h \in Host : Heard(h)
      BY <3>1, <3>3, ConfirmedMeansHeard DEF Waiting
    <3> QED BY <3>1, <3>4 DEF Heard
  <2>5. CASE LineEnds
    <3>1. Confirmed /\ leaving' = leaving
      BY <2>5 DEF LineEnds, Confirmed, book
    <3> QED BY <2>1, <3>1 DEF HostHeard, ConfirmedIsRead, Heard
  <2> QED BY <2>2, <2>3, <2>4, <2>5
<1> QED BY <1>1, TypesInvariant, LeaveInvariant, StreamInvariant, HeardInvariant, PTL DEF Spec, ConfirmedIsHeard
=============================================================================
