---------------------------- MODULE Inbox_proofs ----------------------------
(* The verdict a sender gets is true, for every set of messages, of those   *)
(* the daemon files and of pollers, and every bound on faults; and no line  *)
(* is skipped, while every poll that moves the cursor shares the lock and   *)
(* no more than one line is lost.                                           *)
EXTENDS Inbox, SequenceTheorems, TLAPS

(***************************************************************************)
(* The invariant.                                                          *)
(***************************************************************************)
Writing == {"trimmed", "writing", "written", "failing"}

\* One writer is between its lock and its unlock.
OneHolder == \A m, x \in Msg : Locked(m) /\ Locked(x) => m = x

\* A writer falls back to a length no shorter than what is on the disk.
RoomIsKept == \A m \in Msg : w[m].pc \in Writing => synced <= w[m].len /\ w[m].len <= Len(file)

\* A line that was answered for, or may be, is on the disk.
FiledIsSynced ==
    \A m \in Msg : w[m].pc = "filed" \/ told[m] = "filed" => \E i \in 1..synced : file[i] = m

\* A message has no line before its writer wrote it, nor above the length that
\* writer falls back to, nor after it fell back.
NoneYet   == {"new", "waiting", "held", "trimmed", "writing", "failed"}
NotBefore ==
    \A m \in Msg :
        /\ w[m].pc \in NoneYet => \A i \in 1..Len(file) : file[i] # m
        /\ w[m].pc \in {"written", "failing"} => \A i \in 1..w[m].len : file[i] # m

\* A line that is written is there until its writer cuts it back.
WrittenIsThere == \A m \in Msg : w[m].pc = "written" => \E i \in 1..Len(file) : file[i] = m

\* Who files its own message says FAILED only of what it gave up.
FailedIsSaid ==
    \A m \in Msg \ Remote : told[m] = "failed" => w[m].pc \in {"failed", "left"}

MailInv ==
    /\ TypeOK /\ OneHolder /\ RoomIsKept /\ FiledIsSynced
    /\ NotBefore /\ WrittenIsThere /\ FailedIsSaid

(***************************************************************************)
(* What the file's operations do.                                          *)
(***************************************************************************)

\* A cut keeps the lines before it.
LEMMA CutKeeps ==
    ASSUME NEW f \in Seq(Msg), NEW n \in 0..Len(f)
    PROVE  /\ Cut(f, n) \in Seq(Msg) /\ Len(Cut(f, n)) = n
           /\ \A i \in 1..n : Cut(f, n)[i] = f[i]
<1>1. \A i \in 1..n : f[i] \in Msg
  BY ElementOfSeq, LenProperties
<1>2. n \in Int /\ n >= 0
  BY LenProperties
<1>3. /\ SubSeq(f, 1, n) \in Seq(Msg)
      /\ Len(SubSeq(f, 1, n)) = IF 1 <= n THEN n - 1 + 1 ELSE 0
      /\ \A i \in 1..n - 1 + 1 : SubSeq(f, 1, n)[i] = f[1 + i - 1]
  BY <1>1, <1>2, SubSeqProperties
<1>4. Len(Cut(f, n)) = n /\ \A i \in 1..n : Cut(f, n)[i] = f[i]
  BY <1>2, <1>3 DEF Cut
<1> QED BY <1>3, <1>4 DEF Cut

\* A line is added after the others.
LEMMA AppendKeeps ==
    ASSUME NEW f \in Seq(Msg), NEW m \in Msg
    PROVE  /\ Append(f, m) \in Seq(Msg) /\ Len(Append(f, m)) = Len(f) + 1
           /\ \A i \in 1..Len(f) : Append(f, m)[i] = f[i]
           /\ Append(f, m)[Len(f) + 1] = m
OBVIOUS

(***************************************************************************)
(* Each action keeps the invariant.                                        *)
(***************************************************************************)

\* Nothing but one writer's place changes, to one that promises no more.
LEMMA TakeSteps ==
    ASSUME MailInv, NEW m \in Msg, Take(m)
    PROVE  MailInv'
<1>1. w' = [w EXCEPT ![m].pc = "held"] /\ w[m].pc = "waiting" /\ \A x \in Msg : ~Locked(x)
  BY DEF Take, Goes
<1>2. UNCHANGED <<file, torn, synced, told>>
  BY DEF Take, mail
<1>3. TypeOK'
  BY <1>1, <1>2 DEF MailInv, TypeOK, WriterPc
<1>4. OneHolder'
  BY <1>1 DEF MailInv, TypeOK, OneHolder, Locked, Holding
<1>5. RoomIsKept' /\ FiledIsSynced'
  BY <1>1, <1>2 DEF MailInv, TypeOK, RoomIsKept, FiledIsSynced, Writing
<1>6. NotBefore' /\ WrittenIsThere' /\ FailedIsSaid'
  BY <1>1, <1>2 DEF MailInv, TypeOK, NotBefore, NoneYet, WrittenIsThere, FailedIsSaid
<1> QED BY <1>3, <1>4, <1>5, <1>6 DEF MailInv

\* A writer that has not written ends, asks or dies with the file as it was.
LEMMA PlaceSteps ==
    ASSUME MailInv, NEW m \in Msg,
           Ask(m) \/ GiveUp(m) \/ TrimFails(m) \/ AppendFails(m) \/ RollbackFails(m)
    PROVE  MailInv'
<1>1. PICK pc \in {"waiting", "failed", "failing", "left"} :
        /\ w' = [w EXCEPT ![m].pc = pc]
        /\ pc \in {"waiting", "failed"} => w[m].pc \in {"new", "waiting", "held"}
        /\ pc = "failing" => w[m].pc \in {"writing", "written"}
        /\ pc = "left" => w[m].pc = "failing"
  BY DEF Ask, GiveUp, TrimFails, AppendFails, RollbackFails, Goes
<1>2. UNCHANGED <<file, torn, synced, told>>
  BY DEF Ask, GiveUp, TrimFails, AppendFails, RollbackFails, mail
<1>3. TypeOK'
  BY <1>1, <1>2 DEF MailInv, TypeOK, WriterPc
<1>4. OneHolder'
  BY <1>1 DEF MailInv, TypeOK, OneHolder, Locked, Holding
<1>5. RoomIsKept' /\ FiledIsSynced'
  BY <1>1, <1>2 DEF MailInv, TypeOK, RoomIsKept, FiledIsSynced, Writing
<1>6. NotBefore'
  BY <1>1, <1>2 DEF MailInv, TypeOK, NotBefore, NoneYet, RoomIsKept, Writing
<1>7. WrittenIsThere' /\ FailedIsSaid'
  BY <1>1, <1>2 DEF MailInv, TypeOK, WrittenIsThere, FailedIsSaid
<1> QED BY <1>3, <1>4, <1>5, <1>6, <1>7 DEF MailInv

\* The tail goes, and the length to fall back to is the whole file's.
LEMMA TrimSteps ==
    ASSUME MailInv, NEW m \in Msg, Trim(m) \/ StartLine(m)
    PROVE  MailInv'
<1>1. CASE Trim(m)
  <2>1. /\ w' = [w EXCEPT ![m] = [pc |-> "trimmed", len |-> Len(file)]] /\ w[m].pc = "held"
        /\ torn' = FALSE /\ UNCHANGED <<file, synced, told>>
    BY <1>1 DEF Trim
  <2>2. Len(file) \in Nat /\ synced <= Len(file)
    BY DEF MailInv, TypeOK
  <2>3. TypeOK'
    BY <2>1, <2>2 DEF MailInv, TypeOK, WriterPc
  <2>4. OneHolder'
    BY <2>1 DEF MailInv, TypeOK, OneHolder, Locked, Holding
  <2>5. \A n \in Msg : n # m => w'[n] = w[n]
    BY <2>1 DEF MailInv, TypeOK
  <2>6. w'[m].pc = "trimmed" /\ w'[m].len = Len(file)
    BY <2>1 DEF MailInv, TypeOK
  <2>7. RoomIsKept'
    BY <2>1, <2>2, <2>5, <2>6 DEF MailInv, RoomIsKept, Writing
  <2>8. FiledIsSynced'
    BY <2>1, <2>5, <2>6 DEF MailInv, FiledIsSynced
  <2>9. NotBefore' /\ WrittenIsThere' /\ FailedIsSaid'
    BY <2>1 DEF MailInv, TypeOK, NotBefore, NoneYet, WrittenIsThere, FailedIsSaid
  <2> QED BY <2>3, <2>4, <2>7, <2>8, <2>9 DEF MailInv
<1>2. CASE StartLine(m)
  <2>1. /\ w' = [w EXCEPT ![m].pc = "writing"] /\ w[m].pc = "trimmed"
        /\ torn' = TRUE /\ UNCHANGED <<file, synced, told>>
    BY <1>2 DEF StartLine, Goes
  <2>2. TypeOK'
    BY <2>1 DEF MailInv, TypeOK, WriterPc
  <2>3. OneHolder'
    BY <2>1 DEF MailInv, TypeOK, OneHolder, Locked, Holding
  <2>4. RoomIsKept' /\ FiledIsSynced'
    BY <2>1 DEF MailInv, TypeOK, RoomIsKept, FiledIsSynced, Writing
  <2>5. NotBefore' /\ WrittenIsThere' /\ FailedIsSaid'
    BY <2>1 DEF MailInv, TypeOK, NotBefore, NoneYet, WrittenIsThere, FailedIsSaid
  <2> QED BY <2>2, <2>3, <2>4, <2>5 DEF MailInv
<1> QED BY <1>1, <1>2

\* The line goes after all that is there; no other writer has a length to keep.
LEMMA EndLineSteps ==
    ASSUME MailInv, NEW m \in Msg, EndLine(m)
    PROVE  MailInv'
<1>1. /\ w' = [w EXCEPT ![m].pc = "written"] /\ w[m].pc = "writing"
      /\ file' = Append(file, m) /\ torn' = FALSE /\ UNCHANGED <<synced, told>>
  BY DEF EndLine, Goes
<1>2. /\ file' \in Seq(Msg) /\ Len(file') = Len(file) + 1 /\ Len(file) \in Nat
      /\ \A i \in 1..Len(file) : file'[i] = file[i]
      /\ file'[Len(file) + 1] = m
  BY <1>1, AppendKeeps DEF MailInv, TypeOK
<1>3. TypeOK'
  <2>1. w' \in [Msg -> [pc : WriterPc, len : Nat]] /\ torn' \in BOOLEAN
    BY <1>1 DEF MailInv, TypeOK, WriterPc
  <2>2. synced \in Nat /\ synced <= Len(file)
    BY <1>2 DEF MailInv, TypeOK
  <2>3. synced' \in 0..Len(file')
    BY <1>1, <1>2, <2>2
  <2>4. told' \in [Msg -> {"nothing", "filed", "failed"}]
    BY <1>1 DEF MailInv, TypeOK
  <2> QED BY <1>2, <2>1, <2>3, <2>4 DEF TypeOK
<1>4. OneHolder'
  BY <1>1 DEF MailInv, TypeOK, OneHolder, Locked, Holding
<1>5. RoomIsKept'
  BY <1>1, <1>2 DEF MailInv, TypeOK, RoomIsKept, Writing
<1>6. FiledIsSynced'
  BY <1>1, <1>2 DEF MailInv, TypeOK, FiledIsSynced
<1>7. NotBefore'
  <2> SUFFICES ASSUME NEW x \in Msg
               PROVE  /\ w'[x].pc \in NoneYet => \A i \in 1..Len(file') : file'[i] # x
                      /\ w'[x].pc \in {"written", "failing"} => \A i \in 1..w'[x].len : file'[i] # x
    BY DEF NotBefore
  <2>1. CASE x = m
    BY <1>1, <1>2, <2>1 DEF MailInv, TypeOK, NotBefore, NoneYet, RoomIsKept, Writing
  <2>2. CASE x # m
    <3>1. w'[x] = w[x] /\ ~(w[x].pc \in Holding)
      BY <1>1, <2>2 DEF MailInv, TypeOK, OneHolder, Locked, Holding
    <3> QED BY <1>1, <1>2, <2>2, <3>1 DEF MailInv, TypeOK, NotBefore, NoneYet, Holding
  <2> QED BY <2>1, <2>2
<1>8. WrittenIsThere'
  <2> SUFFICES ASSUME NEW x \in Msg, w'[x].pc = "written"
               PROVE  \E i \in 1..Len(file') : file'[i] = x
    BY DEF WrittenIsThere
  <2>1. CASE x = m
    BY <1>2, <2>1
  <2>2. CASE x # m
    BY <1>1, <1>2, <2>2 DEF MailInv, TypeOK, OneHolder, Locked, Holding
  <2> QED BY <2>1, <2>2
<1>9. FailedIsSaid'
  BY <1>1 DEF MailInv, TypeOK, FailedIsSaid
<1> QED BY <1>3, <1>4, <1>5, <1>6, <1>7, <1>8, <1>9 DEF MailInv

\* All that is there is on the disk, the writer's own line with it.
LEMMA SyncSteps ==
    ASSUME MailInv, NEW m \in Msg, Sync(m)
    PROVE  MailInv'
<1>1. /\ w' = [w EXCEPT ![m].pc = "filed"] /\ w[m].pc = "written"
      /\ synced' = Len(file) /\ UNCHANGED <<file, torn, told>>
  BY DEF Sync, Goes
<1>2. Len(file) \in Nat /\ synced \in Nat /\ synced <= Len(file)
  BY DEF MailInv, TypeOK
<1>3. TypeOK'
  <2>1. w' \in [Msg -> [pc : WriterPc, len : Nat]]
    BY <1>1 DEF MailInv, TypeOK, WriterPc
  <2>2. /\ file' \in Seq(Msg) /\ torn' \in BOOLEAN
        /\ told' \in [Msg -> {"nothing", "filed", "failed"}]
    BY <1>1 DEF MailInv, TypeOK
  <2>3. synced' \in 0..Len(file')
    BY <1>1, <1>2
  <2> QED BY <2>1, <2>2, <2>3 DEF TypeOK
<1>4. OneHolder'
  BY <1>1 DEF MailInv, TypeOK, OneHolder, Locked, Holding
<1>5. RoomIsKept'
  BY <1>1, <1>2 DEF MailInv, TypeOK, RoomIsKept, Writing, OneHolder, Locked, Holding
<1>6. FiledIsSynced'
  BY <1>1, <1>2 DEF MailInv, TypeOK, FiledIsSynced, WrittenIsThere
<1>7. NotBefore' /\ WrittenIsThere' /\ FailedIsSaid'
  BY <1>1 DEF MailInv, TypeOK, NotBefore, NoneYet, WrittenIsThere, FailedIsSaid
<1> QED BY <1>3, <1>4, <1>5, <1>6, <1>7 DEF MailInv

\* The cut back reaches the writer's own line and none that is on the disk.
LEMMA RollbackSteps ==
    ASSUME MailInv, NEW m \in Msg, Rollback(m)
    PROVE  MailInv'
<1>1. /\ w' = [w EXCEPT ![m].pc = "failed"] /\ w[m].pc = "failing"
      /\ file' = Cut(file, w[m].len) /\ torn' = FALSE
      /\ synced' = Low(synced, w[m].len) /\ UNCHANGED told
  BY DEF Rollback, Goes
<1>2. /\ Len(file) \in Nat /\ synced \in Nat /\ w[m].len \in Nat
      /\ synced <= w[m].len /\ w[m].len <= Len(file)
  BY <1>1 DEF MailInv, TypeOK, RoomIsKept, Writing
<1>3. synced' = synced
  BY <1>1, <1>2 DEF Low
<1>4. /\ file' \in Seq(Msg) /\ Len(file') = w[m].len
      /\ \A i \in 1..w[m].len : file'[i] = file[i]
  BY <1>1, <1>2, CutKeeps DEF MailInv, TypeOK
<1>5. \A x \in Msg : x # m => w'[x] = w[x] /\ w[x].pc \notin Holding
  BY <1>1 DEF MailInv, TypeOK, OneHolder, Locked, Holding
<1>6. w'[m].pc = "failed"
  BY <1>1 DEF MailInv, TypeOK
<1>7. TypeOK'
  <2>1. w' \in [Msg -> [pc : WriterPc, len : Nat]] /\ torn' \in BOOLEAN
    BY <1>1 DEF MailInv, TypeOK, WriterPc
  <2>2. synced' \in 0..Len(file')
    BY <1>2, <1>3, <1>4
  <2>3. told' \in [Msg -> {"nothing", "filed", "failed"}]
    BY <1>1 DEF MailInv, TypeOK
  <2> QED BY <1>4, <2>1, <2>2, <2>3 DEF TypeOK
<1>8. OneHolder' /\ RoomIsKept'
  BY <1>5, <1>6 DEF OneHolder, RoomIsKept, Locked, Holding, Writing
<1>9. FiledIsSynced'
  <2> SUFFICES ASSUME NEW x \in Msg, w'[x].pc = "filed" \/ told'[x] = "filed"
               PROVE  \E i \in 1..synced' : file'[i] = x
    BY DEF FiledIsSynced
  <2>1. w[x].pc = "filed" \/ told[x] = "filed"
    BY <1>1, <1>5, <1>6
  <2>2. PICK i \in 1..synced : file[i] = x
    BY <2>1 DEF MailInv, FiledIsSynced
  <2> QED BY <1>2, <1>3, <1>4, <2>2
<1>10. NotBefore'
  <2> SUFFICES ASSUME NEW x \in Msg
               PROVE  /\ w'[x].pc \in NoneYet => \A i \in 1..Len(file') : file'[i] # x
                      /\ w'[x].pc \in {"written", "failing"} => \A i \in 1..w'[x].len : file'[i] # x
    BY DEF NotBefore
  <2>1. CASE x = m
    BY <1>1, <1>2, <1>4, <1>6, <2>1 DEF MailInv, NotBefore
  <2>2. CASE x # m
    BY <1>2, <1>4, <1>5, <2>2 DEF MailInv, NotBefore, Holding
  <2> QED BY <2>1, <2>2
<1>11. WrittenIsThere'
  BY <1>5, <1>6 DEF WrittenIsThere, Holding
<1>12. FailedIsSaid'
  BY <1>1, <1>5, <1>6 DEF MailInv, FailedIsSaid
<1> QED BY <1>7, <1>8, <1>9, <1>10, <1>11, <1>12 DEF MailInv

\* An answer says what the filing came to.
LEMMA AnswerSteps ==
    ASSUME MailInv, NEW m \in Msg, Answer(m) \/ SenderGivesUp(m)
    PROVE  MailInv'
<1>1. PICK said \in {"filed", "failed"} :
        /\ told' = [told EXCEPT ![m] = said]
        /\ said = "filed" => w[m].pc = "filed"
        /\ said = "failed" => m \in Remote \/ w[m].pc \in {"failed", "left"}
  BY DEF Answer, SenderGivesUp
<1>2. UNCHANGED <<file, torn, synced, w>>
  BY DEF Answer, SenderGivesUp, mail
<1>3. TypeOK'
  BY <1>1, <1>2 DEF MailInv, TypeOK
<1>4. OneHolder' /\ RoomIsKept' /\ NotBefore' /\ WrittenIsThere'
  BY <1>2 DEF MailInv, OneHolder, Locked, RoomIsKept, NotBefore, WrittenIsThere
<1>5. FiledIsSynced'
  BY <1>1, <1>2 DEF MailInv, TypeOK, FiledIsSynced
<1>6. FailedIsSaid'
  BY <1>1, <1>2 DEF MailInv, TypeOK, FailedIsSaid
<1> QED BY <1>3, <1>4, <1>5, <1>6 DEF MailInv

\* A kill leaves the file as it was and lets the lock go.
LEMMA KillSteps ==
    ASSUME MailInv, NEW P, Kill(P)
    PROVE  MailInv'
<1>1. /\ \A m \in Msg : w'[m] = w[m] \/ (w[m].pc \in Live /\ w'[m] = [w[m] EXCEPT !.pc = "dead"])
      /\ w' \in [Msg -> [pc : WriterPc, len : Nat]]
  BY DEF Kill, MailInv, TypeOK, WriterPc
<1>2. UNCHANGED <<file, torn, synced, told>>
  BY DEF Kill, mail
<1>3. \A m \in Msg : w'[m] = w[m] \/ (w[m].pc \in Live /\ w'[m].pc = "dead")
  BY <1>1 DEF MailInv, TypeOK
<1>4. TypeOK'
  BY <1>1, <1>2 DEF MailInv, TypeOK
<1>5. OneHolder' /\ RoomIsKept'
  BY <1>2, <1>3 DEF MailInv, OneHolder, Locked, RoomIsKept, Writing, Holding
<1>6. FiledIsSynced' /\ WrittenIsThere'
  BY <1>2, <1>3 DEF MailInv, FiledIsSynced, WrittenIsThere
<1>7. NotBefore'
  BY <1>2, <1>3 DEF MailInv, NotBefore, NoneYet
<1>8. FailedIsSaid'
  BY <1>2, <1>3 DEF MailInv, FailedIsSaid, Live, Holding
<1> QED BY <1>4, <1>5, <1>6, <1>7, <1>8 DEF MailInv

\* A stop of the machine keeps what is on the disk and ends every filing.
LEMMA CrashSteps ==
    ASSUME MailInv, NEW k \in 0..Len(file), Crash(k)
    PROVE  MailInv'
<1>1. /\ file' = Cut(file, k) /\ synced' = k /\ k \in synced..Len(file)
      /\ torn' \in BOOLEAN /\ UNCHANGED told
  BY DEF Crash
<1>2. /\ \A m \in Msg : \/ w'[m] = w[m] /\ w[m].pc \notin Live
                        \/ w[m].pc \in Live /\ w'[m] = [w[m] EXCEPT !.pc = "dead"]
      /\ w' \in [Msg -> [pc : WriterPc, len : Nat]]
  BY DEF Crash, MailInv, TypeOK, WriterPc
<1>3. \A m \in Msg : \/ w'[m] = w[m] /\ w[m].pc \notin Live
                     \/ w[m].pc \in Live /\ w'[m].pc = "dead"
  BY <1>2 DEF MailInv, TypeOK
<1>4. Len(file) \in Nat /\ synced \in Nat /\ synced <= k /\ k <= Len(file) /\ k \in Nat
  BY <1>1 DEF MailInv, TypeOK
<1>5. /\ file' \in Seq(Msg) /\ Len(file') = k
      /\ \A i \in 1..k : file'[i] = file[i]
  BY <1>1, CutKeeps DEF MailInv, TypeOK
<1>6. TypeOK'
  BY <1>1, <1>2, <1>4, <1>5 DEF MailInv, TypeOK
<1>7. OneHolder' /\ RoomIsKept' /\ WrittenIsThere'
  BY <1>3 DEF OneHolder, Locked, RoomIsKept, WrittenIsThere, Writing, Live, Holding
<1>8. FiledIsSynced'
  <2> SUFFICES ASSUME NEW x \in Msg, w'[x].pc = "filed" \/ told'[x] = "filed"
               PROVE  \E i \in 1..synced' : file'[i] = x
    BY DEF FiledIsSynced
  <2>1. w[x].pc = "filed" \/ told[x] = "filed"
    BY <1>1, <1>3
  <2>2. PICK i \in 1..synced : file[i] = x
    BY <2>1 DEF MailInv, FiledIsSynced
  <2> QED BY <1>1, <1>4, <1>5, <2>2
<1>9. NotBefore'
  BY <1>3, <1>4, <1>5 DEF MailInv, NotBefore, NoneYet, Live, Holding
<1>10. FailedIsSaid'
  BY <1>1, <1>3 DEF MailInv, FailedIsSaid, Live, Holding
<1> QED BY <1>6, <1>7, <1>8, <1>9, <1>10 DEF MailInv

\* Whatever leaves the inbox, its writers and their verdicts alone.
LEMMA OtherSteps ==
    ASSUME MailInv, UNCHANGED <<mail, sends>>
    PROVE  MailInv'
BY DEF MailInv, TypeOK, OneHolder, Locked, RoomIsKept, FiledIsSynced, NotBefore,
       WrittenIsThere, FailedIsSaid, mail, sends

(***************************************************************************)
(* The theorems.                                                           *)
(***************************************************************************)
LEMMA InitMail == Init => MailInv
<1> SUFFICES ASSUME Init PROVE MailInv
  OBVIOUS
<1>1. file \in Seq(Msg) /\ Len(file) = 0 /\ synced = 0 /\ torn \in BOOLEAN
  <2>1. file = <<>> /\ torn = FALSE /\ synced = 0
    BY DEF Init
  <2> QED BY <2>1, EmptySeq
<1>2. /\ w \in [Msg -> [pc : WriterPc, len : Nat]]
      /\ \A m \in Msg : w[m].pc = "new"
  BY DEF Init, WriterPc
<1>3. /\ told \in [Msg -> {"nothing", "filed", "failed"}]
      /\ \A m \in Msg : told[m] = "nothing"
  BY DEF Init
<1>4. TypeOK
  BY <1>1, <1>2, <1>3 DEF TypeOK
<1>5. OneHolder /\ RoomIsKept /\ FiledIsSynced
  BY <1>2, <1>3 DEF OneHolder, Locked, Holding, RoomIsKept, Writing, FiledIsSynced
<1>6. NotBefore /\ WrittenIsThere /\ FailedIsSaid
  BY <1>1, <1>2, <1>3 DEF NotBefore, WrittenIsThere, FailedIsSaid
<1> QED BY <1>4, <1>5, <1>6 DEF MailInv

LEMMA NextMail == MailInv /\ [Next]_vars => MailInv'
<1> SUFFICES ASSUME MailInv, [Next]_vars PROVE MailInv'
  OBVIOUS
<1>1. ASSUME NEW m \in Msg, Writes(m) PROVE MailInv'
  BY <1>1, TakeSteps, PlaceSteps, TrimSteps, EndLineSteps, SyncSteps, RollbackSteps,
     AnswerSteps DEF Writes
<1>2. ASSUME NEW r \in Reader, Polls(r) PROVE MailInv'
  BY <1>2, OtherSteps DEF Polls, Poll, PollUnlocked, Errs, Aim, Place, Read, Move, MoveFails, Show, KillReader
<1>3. ASSUME NEW P, Kill(P) PROVE MailInv'
  BY <1>3, KillSteps
<1>4. ASSUME NEW k \in 0..Len(file), Crash(k) PROVE MailInv'
  BY <1>4, CrashSteps
<1>5. CASE UNCHANGED vars
  BY <1>5, OtherSteps DEF vars
<1> QED BY <1>1, <1>2, <1>3, <1>4, <1>5 DEF Next

LEMMA MailSays == MailInv => TypeOK /\ VerdictIsTrue
<1> SUFFICES ASSUME MailInv PROVE TypeOK /\ VerdictIsTrue
  OBVIOUS
<1>1. FiledIsKept
  BY DEF MailInv, FiledIsSynced, FiledIsKept
<1>2. RefusedIsNotFiled
  BY DEF MailInv, RefusedIsNotFiled, FailedIsSaid, NotBefore, NoneYet, LinesOf
<1> QED BY <1>1, <1>2 DEF MailInv, VerdictIsTrue

\* The inbox's state, its writers' and their verdicts' keep their types.
THEOREM TypesHold == Spec => []TypeOK
<1> QED BY InitMail, NextMail, MailSays, PTL DEF Spec

\* A sender is told "filed" only of a line that no later failure, cut back, kill or
\* stop of the machine takes out of the inbox (append_line), and a process that says
\* FAILED of its own message has left no line unless its cut back was refused: for
\* every number of messages, of pollers and of faults.
THEOREM VerdictsAreTrue == Spec => []VerdictIsTrue
<1> QED BY InitMail, NextMail, MailSays, PTL DEF Spec

(***************************************************************************)
(* The reader's invariant: what a cursor, and a poll at work, stand for.   *)
(***************************************************************************)
Seen      == passed \cup shown
Unwritten == {"new", "waiting", "held", "trimmed", "writing"}
Placed    == {"placed", "read", "moved"}
HasBatch  == {"read", "moved"}

ReadTypes ==
    /\ lost \in Nat /\ NoCursor \in cursors /\ cursor \in cursors
    /\ \A c \in cursors : c = NoCursor \/ (c.n \in Nat \ {0} /\ c.last \in Msg)
    /\ \A r \in Reader : rd[r].cur \in cursors /\ rd[r].at \in Nat /\ rd[r].batch \in Seq(Msg)
    /\ DOMAIN rd = Reader

\* Cursor c is past seen lines alone, whichever lines come and go: those below its
\* count, and the one it names if that is still there.
Honest(c) ==
    /\ \A i \in 1..Len(file) : (i < c.n \/ (i = c.n /\ file[i] = c.last)) => file[i] \in Seen
    /\ w[c.last].pc \notin Unwritten

\* No cut but a stop of the machine goes below a cursor's count.
Reached(c) ==
    /\ c.n <= Len(file) + lost
    /\ \A m \in Msg : w[m].pc \in Writing => c.n <= w[m].len + lost

CursorsErrLow == \A c \in cursors : c # NoCursor => Honest(c) /\ Reached(c)

\* A poll that placed itself under the lock has seen lines alone below it.
PlacedLow ==
    \A r \in Reader : rd[r].lock /\ rd[r].pc \in Placed =>
        /\ rd[r].at <= Len(file)
        /\ \A i \in 1..rd[r].at : file[i] \in Seen

\* The shared lock keeps every writer out until the lines are read.
LockedOut ==
    \A r \in Reader : Sharing(r) => \A m \in Msg : ~Locked(m)

\* What a poll read under the lock is still at the head of the inbox, and no writer falls back below it.
BatchIsThere ==
    \A r \in Reader : rd[r].lock /\ rd[r].pc \in HasBatch =>
        /\ rd[r].at < Len(rd[r].batch) /\ Len(rd[r].batch) <= Len(file)
        /\ \A i \in 1..Len(rd[r].batch) : rd[r].batch[i] = file[i]
        /\ \A m \in Msg : w[m].pc \in Writing => Len(rd[r].batch) <= w[m].len

ReadInv ==
    /\ ReadTypes /\ lost <= MaxLost
    /\ CursorsErrLow /\ PlacedLow /\ LockedOut /\ BatchIsThere

(***************************************************************************)
(* Each action keeps the reader's invariant.                               *)
(***************************************************************************)

\* A writer's step that neither writes, cuts nor takes the lock, and its death.
LEMMA QuietReads ==
    ASSUME ReadInv, UNCHANGED <<file, reads, lost>>,
           \A m \in Msg : /\ w'[m].pc \in Unwritten => w[m].pc \in Unwritten
                          /\ w'[m].pc \in Holding => w[m].pc \in Holding
                          /\ w'[m].pc \in Writing => w[m].pc \in Writing /\ w'[m].len = w[m].len
    PROVE  ReadInv'
<1>1. UNCHANGED <<file, cursor, cursors, rd, passed, shown, lost>>
  BY DEF reads
<1>2. ReadTypes' /\ lost' <= MaxLost
  BY <1>1 DEF ReadInv, ReadTypes
<1>3. CursorsErrLow'
  <2> SUFFICES ASSUME NEW c \in cursors, c # NoCursor PROVE Honest(c)' /\ Reached(c)'
    BY <1>1 DEF CursorsErrLow
  <2>1. Honest(c) /\ Reached(c) /\ c.last \in Msg
    BY DEF ReadInv, CursorsErrLow, ReadTypes
  <2>2. Honest(c)'
    BY <1>1, <2>1 DEF Honest, Seen
  <2>3. Reached(c)'
    BY <1>1, <2>1 DEF Reached
  <2> QED BY <2>2, <2>3
<1>4. PlacedLow' /\ LockedOut' /\ BatchIsThere'
  BY <1>1 DEF ReadInv, PlacedLow, LockedOut, Sharing, BatchIsThere, Locked, Seen
<1> QED BY <1>2, <1>3, <1>4 DEF ReadInv

\* The lock is not there to take while a poll that shares it is yet to read.
LEMMA TakeReads ==
    ASSUME MailInv, ReadInv, NEW m \in Msg, Take(m)
    PROVE  ReadInv'
<1>1. /\ w' = [w EXCEPT ![m].pc = "held"] /\ w[m].pc = "waiting"
      /\ \A r \in Reader : ~Sharing(r)
      /\ UNCHANGED <<file, cursor, cursors, rd, passed, shown, lost>>
  BY DEF Take, Goes, mail, reads, faults
<1>2. \A x \in Msg : w'[x] = w[x] \/ (w[x].pc = "waiting" /\ w'[x].pc = "held")
  BY <1>1 DEF MailInv, TypeOK
<1>3. ReadTypes' /\ lost' <= MaxLost
  BY <1>1 DEF ReadInv, ReadTypes
<1>4. CursorsErrLow'
  <2> SUFFICES ASSUME NEW c \in cursors, c # NoCursor PROVE Honest(c)' /\ Reached(c)'
    BY <1>1 DEF CursorsErrLow
  <2>1. Honest(c) /\ Reached(c) /\ c.last \in Msg
    BY DEF ReadInv, CursorsErrLow, ReadTypes
  <2>2. Honest(c)'
    BY <1>1, <1>2, <2>1 DEF Honest, Seen, Unwritten
  <2>3. Reached(c)'
    BY <1>1, <1>2, <2>1 DEF Reached, Writing
  <2> QED BY <2>2, <2>3
<1>5. PlacedLow' /\ LockedOut'
  BY <1>1 DEF ReadInv, PlacedLow, LockedOut, Sharing, Seen
<1>6. BatchIsThere'
  BY <1>1, <1>2 DEF ReadInv, BatchIsThere, Writing
<1> QED BY <1>3, <1>4, <1>5, <1>6 DEF ReadInv

\* The length to fall back to is the whole file's: no cursor and no batch is above it.
LEMMA TrimReads ==
    ASSUME MailInv, ReadInv, NEW m \in Msg, Trim(m)
    PROVE  ReadInv'
<1>1. /\ w' = [w EXCEPT ![m] = [pc |-> "trimmed", len |-> Len(file)]] /\ w[m].pc = "held"
      /\ UNCHANGED <<file, cursor, cursors, rd, passed, shown, lost>>
  BY DEF Trim, reads, faults
<1>2. \A x \in Msg : \/ w'[x] = w[x]
                     \/ w[x].pc = "held" /\ w'[x].pc = "trimmed" /\ w'[x].len = Len(file)
  BY <1>1 DEF MailInv, TypeOK
<1>3. ReadTypes' /\ lost' <= MaxLost
  BY <1>1 DEF ReadInv, ReadTypes
<1>4. CursorsErrLow'
  <2> SUFFICES ASSUME NEW c \in cursors, c # NoCursor PROVE Honest(c)' /\ Reached(c)'
    BY <1>1 DEF CursorsErrLow
  <2>1. Honest(c) /\ Reached(c) /\ c.last \in Msg
    BY DEF ReadInv, CursorsErrLow, ReadTypes
  <2>2. Honest(c)'
    BY <1>1, <1>2, <2>1 DEF Honest, Seen, Unwritten
  <2>3. Reached(c)'
    BY <1>1, <1>2, <2>1 DEF Reached
  <2> QED BY <2>2, <2>3
<1>5. PlacedLow'
  BY <1>1 DEF ReadInv, PlacedLow, Seen
<1>6. LockedOut'
  BY <1>1, <1>2 DEF ReadInv, LockedOut, Sharing, Locked, Holding
<1>7. BatchIsThere'
  BY <1>1, <1>2 DEF ReadInv, BatchIsThere
<1> QED BY <1>3, <1>4, <1>5, <1>6, <1>7 DEF ReadInv

\* A line added one past what a cursor counts is not the line that cursor names, and
\* with no more than one line lost none is added further below a cursor's count.
LEMMA EndLineReads ==
    ASSUME MaxLost <= 1, MailInv, ReadInv, NEW m \in Msg, EndLine(m)
    PROVE  ReadInv'
<1>1. /\ w' = [w EXCEPT ![m].pc = "written"] /\ w[m].pc = "writing"
      /\ file' = Append(file, m)
      /\ UNCHANGED <<cursor, cursors, rd, passed, shown, lost>>
  BY DEF EndLine, Goes, reads, faults
<1>2. /\ Len(file') = Len(file) + 1 /\ Len(file) \in Nat
      /\ \A i \in 1..Len(file) : file'[i] = file[i]
      /\ file'[Len(file) + 1] = m
  BY <1>1, AppendKeeps DEF MailInv, TypeOK
<1>3. /\ \A x \in Msg : x # m => w'[x] = w[x]
      /\ w'[m].pc = "written" /\ w'[m].len = w[m].len
  BY <1>1 DEF MailInv, TypeOK
<1>4. ReadTypes' /\ lost' <= MaxLost
  BY <1>1 DEF ReadInv, ReadTypes
<1>5. lost \in Nat /\ lost <= 1
  BY InboxAssumption DEF ReadInv, ReadTypes
<1>6. CursorsErrLow'
  <2> SUFFICES ASSUME NEW c \in cursors, c # NoCursor PROVE Honest(c)' /\ Reached(c)'
    BY <1>1 DEF CursorsErrLow
  <2>1. Honest(c) /\ Reached(c) /\ c.last \in Msg /\ c.n \in Nat
    BY DEF ReadInv, CursorsErrLow, ReadTypes
  <2>2. c.n <= Len(file) + 1 /\ c.last # m
    BY <1>1, <1>5, <2>1 DEF Honest, Reached, Unwritten
  <2>3. Honest(c)'
    <3>1. ASSUME NEW i \in 1..Len(file'), i < c.n \/ (i = c.n /\ file'[i] = c.last)
          PROVE  file'[i] \in Seen
      <4>1. i # Len(file) + 1
        BY <1>2, <2>1, <2>2, <3>1
      <4>2. i \in 1..Len(file) /\ file'[i] = file[i]
        BY <1>2, <4>1
      <4> QED BY <2>1, <3>1, <4>2 DEF Honest
    <3>2. w'[c.last] = w[c.last]
      BY <1>3, <2>1, <2>2
    <3> QED BY <1>1, <2>1, <3>1, <3>2 DEF Honest, Seen
  <2>4. Reached(c)'
    <3>1. c.n <= Len(file') + lost
      BY <1>2, <1>5, <2>1 DEF Reached
    <3>2. ASSUME NEW x \in Msg, w'[x].pc \in Writing PROVE c.n <= w'[x].len + lost
      BY <1>1, <1>3, <2>1, <3>2 DEF Reached, Writing
    <3> QED BY <1>1, <3>1, <3>2 DEF Reached
  <2> QED BY <2>3, <2>4
<1>7. Locked(m) /\ \A r \in Reader : ~Sharing(r)
  BY <1>1 DEF ReadInv, LockedOut, Locked, Holding
<1>8. PlacedLow'
  <2> SUFFICES ASSUME NEW r \in Reader, rd[r].lock, rd[r].pc \in Placed
               PROVE  /\ rd[r].at <= Len(file')
                      /\ \A i \in 1..rd[r].at : file'[i] \in Seen
    BY <1>1 DEF PlacedLow, Seen
  <2>1. /\ rd[r].at <= Len(file) /\ rd[r].at \in Nat
        /\ \A i \in 1..rd[r].at : file[i] \in Seen
    BY DEF ReadInv, ReadTypes, PlacedLow
  <2> QED BY <1>2, <2>1
<1>9. LockedOut'
  BY <1>1, <1>7 DEF LockedOut, Sharing
<1>10. BatchIsThere'
  <2> SUFFICES ASSUME NEW r \in Reader, rd[r].lock, rd[r].pc \in HasBatch
               PROVE  /\ rd[r].at < Len(rd[r].batch) /\ Len(rd[r].batch) <= Len(file')
                      /\ \A i \in 1..Len(rd[r].batch) : rd[r].batch[i] = file'[i]
                      /\ \A x \in Msg : w'[x].pc \in Writing => Len(rd[r].batch) <= w'[x].len
    BY <1>1 DEF BatchIsThere
  <2>1. /\ rd[r].at < Len(rd[r].batch) /\ Len(rd[r].batch) <= Len(file)
        /\ \A i \in 1..Len(rd[r].batch) : rd[r].batch[i] = file[i]
        /\ \A x \in Msg : w[x].pc \in Writing => Len(rd[r].batch) <= w[x].len
        /\ Len(rd[r].batch) \in Nat
    BY DEF ReadInv, ReadTypes, BatchIsThere
  <2>2. \A x \in Msg : w'[x].pc \in Writing => Len(rd[r].batch) <= w'[x].len
    BY <1>1, <1>3, <2>1 DEF Writing
  <2> QED BY <1>2, <2>1, <2>2
<1> QED BY <1>4, <1>6, <1>8, <1>9, <1>10 DEF ReadInv

\* A cut back reaches no line a cursor counts or a batch holds.
LEMMA RollbackReads ==
    ASSUME MailInv, ReadInv, NEW m \in Msg, Rollback(m)
    PROVE  ReadInv'
<1>1. /\ w' = [w EXCEPT ![m].pc = "failed"] /\ w[m].pc = "failing"
      /\ file' = Cut(file, w[m].len)
      /\ UNCHANGED <<cursor, cursors, rd, passed, shown, lost>>
  BY DEF Rollback, Goes, reads, faults
<1>2. w[m].len \in Nat /\ w[m].len <= Len(file) /\ Len(file) \in Nat
  BY <1>1 DEF MailInv, TypeOK, RoomIsKept, Writing
<1>3. /\ Len(file') = w[m].len
      /\ \A i \in 1..w[m].len : file'[i] = file[i]
  BY <1>1, <1>2, CutKeeps DEF MailInv, TypeOK
<1>4. /\ \A x \in Msg : x # m => w'[x] = w[x] /\ w[x].pc \notin Holding
      /\ w'[m].pc = "failed"
  BY <1>1 DEF MailInv, TypeOK, OneHolder, Locked, Holding
<1>5. ReadTypes' /\ lost' <= MaxLost
  BY <1>1 DEF ReadInv, ReadTypes
<1>6. CursorsErrLow'
  <2> SUFFICES ASSUME NEW c \in cursors, c # NoCursor PROVE Honest(c)' /\ Reached(c)'
    BY <1>1 DEF CursorsErrLow
  <2>1. Honest(c) /\ Reached(c) /\ c.last \in Msg
    BY DEF ReadInv, CursorsErrLow, ReadTypes
  <2>2. Honest(c)'
    BY <1>1, <1>2, <1>3, <1>4, <2>1 DEF Honest, Seen, Unwritten
  <2>3. Reached(c)'
    BY <1>1, <1>3, <1>4, <2>1 DEF Reached, Writing, Holding
  <2> QED BY <2>2, <2>3
<1>7. \A r \in Reader : ~Sharing(r)
  BY <1>1 DEF ReadInv, LockedOut, Locked, Holding
<1>8. LockedOut'
  BY <1>1, <1>7 DEF LockedOut, Sharing
<1>9. ASSUME NEW r \in Reader, rd[r].lock, rd[r].pc \in HasBatch
      PROVE  /\ rd[r].at \in Nat /\ Len(rd[r].batch) \in Nat
             /\ rd[r].at < Len(rd[r].batch) /\ Len(rd[r].batch) <= w[m].len
             /\ \A i \in 1..Len(rd[r].batch) : rd[r].batch[i] = file[i]
  BY <1>1, <1>9 DEF ReadInv, ReadTypes, BatchIsThere, Writing
<1>10. BatchIsThere'
  <2> SUFFICES ASSUME NEW r \in Reader, rd[r].lock, rd[r].pc \in HasBatch
               PROVE  /\ rd[r].at < Len(rd[r].batch) /\ Len(rd[r].batch) <= Len(file')
                      /\ \A i \in 1..Len(rd[r].batch) : rd[r].batch[i] = file'[i]
                      /\ \A x \in Msg : w'[x].pc \in Writing => Len(rd[r].batch) <= w'[x].len
    BY <1>1 DEF BatchIsThere
  <2>1. \A x \in Msg : w'[x].pc \notin Writing
    BY <1>4 DEF Writing, Holding
  <2> QED BY <1>2, <1>3, <1>9, <2>1
<1>11. PlacedLow'
  <2> SUFFICES ASSUME NEW r \in Reader, rd[r].lock, rd[r].pc \in Placed
               PROVE  /\ rd[r].at <= Len(file')
                      /\ \A i \in 1..rd[r].at : file'[i] \in Seen
    BY <1>1 DEF PlacedLow, Seen
  <2>1. rd[r].pc \in HasBatch
    BY <1>7 DEF Sharing, Placed, HasBatch
  <2>2. /\ rd[r].at \in Nat /\ rd[r].at <= w[m].len
        /\ \A i \in 1..rd[r].at : file[i] \in Seen
    BY <1>2, <1>9, <2>1 DEF ReadInv, PlacedLow
  <2> QED BY <1>2, <1>3, <2>2
<1> QED BY <1>5, <1>6, <1>8, <1>10, <1>11 DEF ReadInv

\* What a stop of the machine takes from the file it adds to what is lost, and no poll
\* outlives it.
LEMMA CrashReads ==
    ASSUME MailInv, ReadInv, NEW k \in 0..Len(file), Crash(k)
    PROVE  ReadInv'
<1>1. /\ k <= Len(file) /\ k \in Nat /\ Len(file) \in Nat
      /\ lost' = lost + (Len(file) - k) /\ lost' <= MaxLost
      /\ file' = Cut(file, k) /\ cursor' \in cursors
      /\ rd' = [r \in Reader |-> Gone] /\ UNCHANGED <<cursors, passed, shown>>
  BY DEF Crash, MailInv, TypeOK
<1>2. Len(file') = k /\ \A i \in 1..k : file'[i] = file[i]
  BY <1>1, CutKeeps DEF MailInv, TypeOK
<1>3. \A m \in Msg : \/ w'[m] = w[m] /\ w[m].pc \notin Live
                     \/ w[m].pc \in Live /\ w'[m].pc = "dead"
  BY DEF Crash, MailInv, TypeOK, WriterPc
<1>4. lost \in Nat /\ lost' \in Nat /\ k + lost' = Len(file) + lost
  BY <1>1 DEF ReadInv, ReadTypes
<1>5. /\ DOMAIN rd' = Reader
      /\ \A r \in Reader : rd'[r].pc = "idle" /\ ~rd'[r].lock /\ rd'[r].cur = NoCursor
                           /\ rd'[r].at = 0 /\ rd'[r].batch = <<>>
  BY <1>1 DEF Gone
<1>6. ReadTypes'
  <2>1. <<>> \in Seq(Msg)
    BY EmptySeq
  <2>2. /\ NoCursor \in cursors
        /\ \A c \in cursors : c = NoCursor \/ (c.n \in Nat \ {0} /\ c.last \in Msg)
    BY DEF ReadInv, ReadTypes
  <2>3. \A r \in Reader : rd'[r].cur \in cursors /\ rd'[r].at \in Nat /\ rd'[r].batch \in Seq(Msg)
    <3> SUFFICES ASSUME NEW r \in Reader
                 PROVE  rd'[r].cur \in cursors /\ rd'[r].at \in Nat /\ rd'[r].batch \in Seq(Msg)
      OBVIOUS
    <3>1. rd'[r].cur = NoCursor /\ rd'[r].at = 0 /\ rd'[r].batch = <<>>
      BY <1>5
    <3> QED BY <2>1, <2>2, <3>1
  <2> QED BY <1>1, <1>4, <1>5, <2>2, <2>3 DEF ReadTypes
<1>7. CursorsErrLow'
  <2> SUFFICES ASSUME NEW c \in cursors, c # NoCursor PROVE Honest(c)' /\ Reached(c)'
    BY <1>1 DEF CursorsErrLow
  <2>1. Honest(c) /\ Reached(c) /\ c.last \in Msg /\ c.n \in Nat
    BY DEF ReadInv, CursorsErrLow, ReadTypes
  <2>2. Honest(c)'
    BY <1>1, <1>2, <1>3, <2>1 DEF Honest, Seen, Unwritten
  <2>3. c.n <= k + lost'
    BY <1>4, <2>1 DEF Reached
  <2>4. \A m \in Msg : w'[m].pc \notin Writing
    BY <1>3 DEF Writing, Live, Holding
  <2> QED BY <1>2, <2>2, <2>3, <2>4 DEF Reached
<1>8. PlacedLow' /\ LockedOut' /\ BatchIsThere'
  BY <1>5 DEF PlacedLow, LockedOut, Sharing, BatchIsThere, Placed, HasBatch
<1> QED BY <1>1, <1>6, <1>7, <1>8 DEF ReadInv

\* A poll that has the lock starts while no writer has it, and takes the cursor as it is.
LEMMA PollReads ==
    ASSUME ReadInv, NEW r \in Reader, Poll(r) \/ PollUnlocked(r) \/ Aim(r) \/ KillReader(r)
    PROVE  ReadInv'
<1>1. UNCHANGED <<file, w, cursor, cursors, passed, shown, lost>>
  BY DEF Poll, PollUnlocked, Aim, KillReader, Errs, mail, sends, faults
<1>2. /\ DOMAIN rd' = Reader
      /\ \A x \in Reader : x # r => rd'[x] = rd[x]
      /\ rd'[r].pc \in {"idle", "open", "aimed"}
      /\ rd'[r].cur \in cursors /\ rd'[r].at \in Nat /\ rd'[r].batch \in Seq(Msg)
      /\ Sharing(r)' => \A m \in Msg : ~Locked(m)
  <2>1. CASE Poll(r)
    BY <2>1 DEF Poll, ReadInv, ReadTypes
  <2>2. CASE PollUnlocked(r)
    BY <2>2 DEF PollUnlocked, ReadInv, ReadTypes, Sharing
  <2>3. CASE Aim(r)
    BY <2>3 DEF Aim, ReadInv, ReadTypes, LockedOut, Sharing
  <2>4. CASE KillReader(r)
    BY <2>4, EmptySeq DEF KillReader, Gone, ReadInv, ReadTypes, Sharing
  <2> QED BY <2>1, <2>2, <2>3, <2>4
<1>3. ReadTypes' /\ lost' <= MaxLost
  BY <1>1, <1>2 DEF ReadInv, ReadTypes
<1>4. CursorsErrLow'
  BY <1>1 DEF ReadInv, CursorsErrLow, Honest, Reached, Seen
<1>5. PlacedLow'
  BY <1>1, <1>2 DEF ReadInv, PlacedLow, Placed, Seen
<1>6. LockedOut'
  BY <1>1, <1>2 DEF ReadInv, LockedOut, Sharing, Locked
<1>7. BatchIsThere'
  BY <1>1, <1>2 DEF ReadInv, BatchIsThere, HasBatch
<1> QED BY <1>3, <1>4, <1>5, <1>6, <1>7 DEF ReadInv

\* Where a cursor places a poll, every line below was seen.
LEMMA OffsetIsLow ==
    ASSUME MaxLost <= 1, MailInv, ReadInv, NEW c \in cursors
    PROVE  /\ Offset(c, file) \in Nat /\ Offset(c, file) <= Len(file)
           /\ \A i \in 1..Offset(c, file) : i \in 1..Len(file) /\ file[i] \in Seen
<1>1. Len(file) \in Nat
  BY DEF MailInv, TypeOK
<1>2. CASE c = NoCursor
  <2>1. c.n = 0
    BY <1>2 DEF NoCursor, Cursor
  <2>2. Offset(c, file) = 0
    BY <1>1, <1>2, <2>1 DEF Offset
  <2> QED BY <1>1, <2>2
<1>3. CASE c # NoCursor
  <2>1. Honest(c) /\ Reached(c) /\ c.n \in Nat \ {0}
    BY <1>3 DEF ReadInv, CursorsErrLow, ReadTypes
  <2>2. c.n <= Len(file) + 1
    BY <1>1, <2>1, InboxAssumption DEF Reached, ReadInv, ReadTypes
  <2>3. CASE c.n = Len(file) + 1
    BY <1>1, <1>3, <2>1, <2>3 DEF Offset, Honest
  <2>4. CASE c.n <= Len(file)
    BY <1>1, <1>3, <2>1, <2>4 DEF Offset, Honest
  <2> QED BY <1>1, <2>1, <2>2, <2>3, <2>4
<1> QED BY <1>2, <1>3

\* The shared lock holds the file still from the cursor to the lines.
LEMMA PlaceReads ==
    ASSUME MaxLost <= 1, MailInv, ReadInv, NEW r \in Reader, Place(r)
    PROVE  ReadInv'
<1>1. UNCHANGED <<file, w, cursor, cursors, passed, shown, lost>> /\ rd[r].pc = "aimed"
  BY DEF Place, mail, sends, faults
<1>2. /\ DOMAIN rd' = Reader
      /\ \A x \in Reader : x # r => rd'[x] = rd[x]
      /\ rd'[r].pc = "placed" /\ rd'[r].lock = rd[r].lock
      /\ rd'[r].cur = rd[r].cur /\ rd'[r].batch = rd[r].batch
      /\ rd'[r].at = Offset(rd[r].cur, file)
  BY DEF Place, ReadInv, ReadTypes
<1>3. rd[r].cur \in cursors /\ rd[r].batch \in Seq(Msg)
  BY DEF ReadInv, ReadTypes
<1>4. /\ rd'[r].at \in Nat /\ rd'[r].at <= Len(file)
      /\ \A i \in 1..rd'[r].at : file[i] \in Seen
  BY <1>2, <1>3, OffsetIsLow
<1>5. ReadTypes' /\ lost' <= MaxLost
  BY <1>1, <1>2, <1>3, <1>4 DEF ReadInv, ReadTypes
<1>6. CursorsErrLow'
  BY <1>1 DEF ReadInv, CursorsErrLow, Honest, Reached, Seen
<1>7. PlacedLow'
  BY <1>1, <1>2, <1>4 DEF ReadInv, PlacedLow, Seen
<1>8. LockedOut'
  BY <1>1, <1>2 DEF ReadInv, LockedOut, Sharing, Locked
<1>9. BatchIsThere'
  BY <1>1, <1>2 DEF ReadInv, BatchIsThere, HasBatch
<1> QED BY <1>5, <1>6, <1>7, <1>8, <1>9 DEF ReadInv

\* What is read is the inbox, under the lock with no writer between its cut and its unlock.
LEMMA ReadReads ==
    ASSUME MailInv, ReadInv, NEW r \in Reader, Read(r)
    PROVE  ReadInv'
<1>1. UNCHANGED <<file, w, cursor, cursors, passed, shown, lost>> /\ rd[r].pc = "placed"
  BY DEF Read, mail, sends, faults
<1>2. /\ DOMAIN rd' = Reader
      /\ \A x \in Reader : x # r => rd'[x] = rd[x]
      /\ \/ /\ rd'[r].pc = "read" /\ rd'[r].lock = rd[r].lock
            /\ rd'[r].cur = rd[r].cur /\ rd'[r].at = rd[r].at /\ rd'[r].batch = file /\ rd[r].at < Len(file)
         \/ rd'[r] = Gone
  <2>1. CASE Len(file) > rd[r].at
    <3>1. rd' = [rd EXCEPT ![r] = [rd[r] EXCEPT !.pc = "read", !.batch = file]]
      BY <2>1 DEF Read
    <3>2. DOMAIN rd = Reader /\ rd[r].at \in Nat /\ Len(file) \in Nat
      BY DEF ReadInv, ReadTypes, MailInv, TypeOK
    <3> QED BY <2>1, <3>1, <3>2
  <2>2. CASE ~(Len(file) > rd[r].at)
    BY <2>2 DEF Read, ReadInv, ReadTypes
  <2> QED BY <2>1, <2>2
<1>3. Gone.pc = "idle" /\ Gone.cur = NoCursor /\ Gone.at = 0 /\ Gone.batch \in Seq(Msg)
  BY EmptySeq DEF Gone
<1>4. file \in Seq(Msg) /\ Len(file) \in Nat
  BY DEF MailInv, TypeOK
<1>5. ReadTypes' /\ lost' <= MaxLost
  BY <1>1, <1>2, <1>3, <1>4 DEF ReadInv, ReadTypes
<1>6. CursorsErrLow'
  BY <1>1 DEF ReadInv, CursorsErrLow, Honest, Reached, Seen
<1>7. PlacedLow'
  BY <1>1, <1>2, <1>3 DEF ReadInv, PlacedLow, Placed, Seen
<1>8. LockedOut'
  BY <1>1, <1>2, <1>3 DEF ReadInv, LockedOut, Sharing, Locked
<1>9. rd[r].lock => \A m \in Msg : w[m].pc \notin Writing
  BY <1>1 DEF ReadInv, LockedOut, Sharing, Locked, Holding, Writing
<1>10. BatchIsThere'
  BY <1>1, <1>2, <1>3, <1>4, <1>9 DEF ReadInv, BatchIsThere, HasBatch
<1> QED BY <1>5, <1>6, <1>7, <1>8, <1>10 DEF ReadInv

\* More lines are seen, and a poll keeps its batch or is done.
LEMMA SeenGrows ==
    ASSUME ReadInv, NEW r \in Reader, UNCHANGED <<file, w, lost>>,
           cursor' = cursor, cursors' = cursors, Seen \subseteq Seen',
           rd[r].pc \in HasBatch,
           rd' = [rd EXCEPT ![r].pc = "moved"] \/ rd' = [rd EXCEPT ![r] = Gone]
    PROVE  ReadInv'
<1>1. /\ DOMAIN rd' = Reader
      /\ \A x \in Reader : x # r => rd'[x] = rd[x]
      /\ \/ /\ rd'[r].pc = "moved" /\ rd'[r].lock = rd[r].lock /\ rd'[r].cur = rd[r].cur /\ rd'[r].at = rd[r].at
            /\ rd'[r].batch = rd[r].batch
         \/ rd'[r] = Gone
  <2>1. DOMAIN rd = Reader
    BY DEF ReadInv, ReadTypes
  <2>2. CASE rd' = [rd EXCEPT ![r].pc = "moved"]
    BY <2>1, <2>2
  <2>3. CASE rd' = [rd EXCEPT ![r] = Gone]
    BY <2>1, <2>3
  <2> QED BY <2>2, <2>3
<1>2. Gone.pc = "idle" /\ Gone.cur = NoCursor /\ Gone.at = 0 /\ Gone.batch \in Seq(Msg)
  BY EmptySeq DEF Gone
<1>3. ReadTypes' /\ lost' <= MaxLost
  BY <1>1, <1>2 DEF ReadInv, ReadTypes
<1>4. CursorsErrLow'
  <2> SUFFICES ASSUME NEW c \in cursors, c # NoCursor PROVE Honest(c)' /\ Reached(c)'
    BY DEF CursorsErrLow
  <2>1. Honest(c) /\ Reached(c)
    BY DEF ReadInv, CursorsErrLow
  <2>2. Honest(c)'
    BY <2>1 DEF Honest
  <2> QED BY <2>1, <2>2 DEF Reached
<1>5. PlacedLow'
  BY <1>1, <1>2 DEF ReadInv, PlacedLow, Placed, HasBatch
<1>6. LockedOut'
  BY <1>1, <1>2 DEF ReadInv, LockedOut, Sharing, Locked
<1>7. BatchIsThere'
  BY <1>1, <1>2 DEF ReadInv, BatchIsThere, HasBatch
<1> QED BY <1>3, <1>4, <1>5, <1>6, <1>7 DEF ReadInv

\* A poll that moved the cursor has what it had.
LEMMA MoveKeeps ==
    ASSUME ReadInv, NEW r \in Reader, Move(r)
    PROVE  /\ DOMAIN rd' = Reader
           /\ \A x \in Reader : x # r => rd'[x] = rd[x]
           /\ rd'[r].pc = "moved" /\ rd'[r].lock = rd[r].lock /\ rd'[r].cur = rd[r].cur
           /\ rd'[r].at = rd[r].at /\ rd'[r].batch = rd[r].batch
BY DEF Move, ReadInv, ReadTypes

\* The new cursor names the last line of a batch that is still there, and every line
\* of the batch is seen by now.
LEMMA MoveReads ==
    ASSUME MailInv, ReadInv, NEW r \in Reader, Move(r), rd[r].lock
    PROVE  ReadInv'
<1> DEFINE n  == Len(rd[r].batch)
           to == Cursor(n, rd[r].batch[n])
<1>1. /\ rd[r].pc = "read" /\ cursor' = to /\ cursors' = cursors \cup {to}
      /\ rd' = [rd EXCEPT ![r].pc = "moved"]
      /\ passed' = passed \cup Unseen(r)
      /\ UNCHANGED <<file, w, shown, lost>>
  BY DEF Move, mail, sends, faults
<1>2. /\ n \in Nat \ {0} /\ n <= Len(file) /\ rd[r].at \in Nat /\ rd[r].at < n
      /\ \A i \in 1..n : rd[r].batch[i] = file[i]
      /\ \A m \in Msg : w[m].pc \in Writing => n <= w[m].len
      /\ \A i \in 1..rd[r].at : file[i] \in Seen
  BY <1>1 DEF ReadInv, ReadTypes, BatchIsThere, PlacedLow, HasBatch, Placed
<1>3. n \in 1..Len(file) /\ rd[r].batch[n] = file[n] /\ file[n] \in Msg
  <2>1. Len(file) \in Nat /\ file \in Seq(Msg)
    BY DEF MailInv, TypeOK
  <2>2. n \in 1..Len(file)
    BY <1>2, <2>1
  <2>3. file[n] \in Msg
    BY <2>1, <2>2, ElementOfSeq
  <2> QED BY <1>2, <2>2, <2>3
<1>4. to.n = n /\ to.last = file[n]
  BY <1>3 DEF Cursor
<1>5. \A i \in 1..n : file[i] \in Seen'
  <2> SUFFICES ASSUME NEW i \in 1..n PROVE file[i] \in Seen'
    OBVIOUS
  <2>1. CASE i <= rd[r].at
    BY <1>1, <1>2, <2>1 DEF Seen
  <2>2. CASE i > rd[r].at
    <3>1. i \in rd[r].at + 1..Len(rd[r].batch)
      BY <1>2, <2>2
    <3>2. rd[r].batch[i] \in Unseen(r)
      BY <3>1 DEF Unseen
    <3> QED BY <1>1, <1>2, <3>2 DEF Seen
  <2> QED BY <1>2, <2>1, <2>2
<1>6. Seen \subseteq Seen'
  BY <1>1 DEF Seen
<1>7. /\ DOMAIN rd' = Reader
      /\ \A x \in Reader : x # r => rd'[x] = rd[x]
      /\ rd'[r].pc = "moved" /\ rd'[r].lock = rd[r].lock /\ rd'[r].cur = rd[r].cur
      /\ rd'[r].at = rd[r].at /\ rd'[r].batch = rd[r].batch
  BY MoveKeeps
<1>8. ReadTypes' /\ lost' <= MaxLost
  <2>1. ASSUME NEW c \in cursors'
        PROVE  c = NoCursor \/ (c.n \in Nat \ {0} /\ c.last \in Msg)
    <3>1. CASE c = to
      BY <1>2, <1>3, <1>4, <3>1
    <3>2. CASE c \in cursors
      BY <3>2 DEF ReadInv, ReadTypes
    <3> QED BY <1>1, <2>1, <3>1, <3>2
  <2>2. /\ lost' \in Nat /\ lost' <= MaxLost
        /\ NoCursor \in cursors' /\ cursor' \in cursors' /\ DOMAIN rd' = Reader
    BY <1>1, <1>7 DEF ReadInv, ReadTypes
  <2>3. \A x \in Reader : /\ rd'[x].cur \in cursors' /\ rd'[x].at \in Nat
                          /\ rd'[x].batch \in Seq(Msg)
    BY <1>1, <1>7 DEF ReadInv, ReadTypes
  <2> QED BY <2>1, <2>2, <2>3 DEF ReadTypes
<1>9. CursorsErrLow'
  <2> SUFFICES ASSUME NEW c \in cursors', c # NoCursor PROVE Honest(c)' /\ Reached(c)'
    BY DEF CursorsErrLow
  <2>1. CASE c = to
    <3>1. w[file[n]].pc \notin Unwritten
      <4>1. w[file[n]].pc \notin NoneYet
        BY <1>3 DEF MailInv, NotBefore
      <4> QED BY <4>1 DEF NoneYet, Unwritten
    <3>2. Honest(c)'
      BY <1>1, <1>2, <1>4, <1>5, <2>1, <3>1 DEF Honest
    <3>3. lost \in Nat /\ \A m \in Msg : w[m].len \in Nat
      BY DEF ReadInv, ReadTypes, MailInv, TypeOK
    <3>4. n <= Len(file) + lost /\ \A m \in Msg : w[m].pc \in Writing => n <= w[m].len + lost
      <4>1. Len(file) \in Nat
        BY DEF MailInv, TypeOK
      <4> HIDE DEF n
      <4> QED BY <1>2, <3>3, <4>1
    <3>5. Reached(c)'
      BY <1>1, <1>4, <2>1, <3>4 DEF Reached
    <3> QED BY <3>2, <3>5
  <2>2. CASE c \in cursors
    <3>1. Honest(c) /\ Reached(c)
      BY <2>2 DEF ReadInv, CursorsErrLow
    <3>2. Honest(c)'
      BY <1>1, <1>6, <3>1 DEF Honest
    <3>3. Reached(c)'
      BY <1>1, <3>1 DEF Reached
    <3> QED BY <3>2, <3>3
  <2> QED BY <1>1, <2>1, <2>2
<1>10. PlacedLow'
  BY <1>1, <1>6, <1>7 DEF ReadInv, PlacedLow, Placed
<1>11. LockedOut'
  BY <1>1, <1>7 DEF ReadInv, LockedOut, Sharing, Locked
<1>12. BatchIsThere'
  BY <1>1, <1>7 DEF ReadInv, BatchIsThere, HasBatch
<1> QED BY <1>8, <1>9, <1>10, <1>11, <1>12 DEF ReadInv

LEMMA ShowReads ==
    ASSUME ReadInv, NEW r \in Reader, Show(r) \/ MoveFails(r)
    PROVE  ReadInv'
<1>1. /\ UNCHANGED <<file, w, lost, cursor, cursors>> /\ rd[r].pc \in HasBatch
      /\ rd' = [rd EXCEPT ![r].pc = "moved"] \/ rd' = [rd EXCEPT ![r] = Gone]
  BY DEF Show, MoveFails, Errs, mail, sends, faults, HasBatch
<1>2. Seen \subseteq Seen'
  BY DEF Show, MoveFails, Seen
<1> QED BY <1>1, <1>2, SeenGrows

(***************************************************************************)
(* No line is skipped.                                                     *)
(***************************************************************************)
LEMMA InitReads == Init => ReadInv
<1> SUFFICES ASSUME Init PROVE ReadInv
  OBVIOUS
<1>1. /\ file = <<>> /\ cursor = NoCursor /\ cursors = {NoCursor} /\ lost = 0
      /\ DOMAIN rd = Reader /\ \A r \in Reader : rd[r] = Gone
  BY DEF Init
<1>2. Gone.pc = "idle" /\ ~Gone.lock /\ Gone.cur = NoCursor /\ Gone.at = 0 /\ Gone.batch \in Seq(Msg)
  BY EmptySeq DEF Gone
<1>3. ReadTypes /\ lost <= MaxLost
  BY <1>1, <1>2, InboxAssumption DEF ReadTypes
<1>4. CursorsErrLow
  BY <1>1 DEF CursorsErrLow
<1>5. PlacedLow /\ LockedOut /\ BatchIsThere
  BY <1>1, <1>2 DEF PlacedLow, LockedOut, Sharing, BatchIsThere, Placed, HasBatch
<1> QED BY <1>3, <1>4, <1>5 DEF ReadInv

\* The steps that are a writer's, or an answer, and leave its lines alone.
LEMMA WriterReads ==
    ASSUME MailInv, ReadInv, NEW m \in Msg,
           Ask(m) \/ GiveUp(m) \/ TrimFails(m) \/ StartLine(m) \/ Sync(m)
           \/ AppendFails(m) \/ RollbackFails(m) \/ Answer(m) \/ SenderGivesUp(m)
    PROVE  ReadInv'
<1>1. UNCHANGED <<file, reads, lost>>
  BY DEF Ask, GiveUp, TrimFails, StartLine, Sync, AppendFails, RollbackFails, Answer,
         SenderGivesUp, Errs, mail, faults
<1>2. \/ UNCHANGED w
      \/ \E pc \in {"waiting", "failed"} :
            w[m].pc \in {"new", "waiting", "held"} /\ w' = [w EXCEPT ![m].pc = pc]
      \/ w[m].pc = "trimmed" /\ w' = [w EXCEPT ![m].pc = "writing"]
      \/ \E pc \in {"filed", "failing"} :
            w[m].pc \in {"writing", "written"} /\ w' = [w EXCEPT ![m].pc = pc]
      \/ w[m].pc = "failing" /\ w' = [w EXCEPT ![m].pc = "left"]
  BY DEF Ask, GiveUp, TrimFails, StartLine, Sync, AppendFails, RollbackFails, Answer,
         SenderGivesUp, Goes
<1>3. \A x \in Msg :
        /\ w'[x].pc \in Unwritten => w[x].pc \in Unwritten
        /\ w'[x].pc \in Holding => w[x].pc \in Holding
        /\ w'[x].pc \in Writing => w[x].pc \in Writing /\ w'[x].len = w[x].len
  <2>1. /\ \A x \in Msg : x # m => w'[x] = w[x]
        /\ w'[m].len = w[m].len
    BY <1>2 DEF MailInv, TypeOK
  <2>2. \/ w'[m].pc = w[m].pc
        \/ w[m].pc \in {"new", "waiting", "held"} /\ w'[m].pc \in {"waiting", "failed"}
        \/ w[m].pc = "trimmed" /\ w'[m].pc = "writing"
        \/ w[m].pc \in {"writing", "written"} /\ w'[m].pc \in {"filed", "failing"}
        \/ w[m].pc = "failing" /\ w'[m].pc = "left"
    BY <1>2 DEF MailInv, TypeOK
  <2> QED BY <2>1, <2>2 DEF Unwritten, Holding, Writing
<1> QED BY <1>1, <1>3, QuietReads

LEMMA KillReads ==
    ASSUME MailInv, ReadInv, NEW P, Kill(P)
    PROVE  ReadInv'
<1>1. UNCHANGED <<file, reads, lost>>
  BY DEF Kill, mail
<1>2. \A x \in Msg : w'[x] = w[x] \/ w'[x].pc = "dead"
  BY DEF Kill, MailInv, TypeOK, WriterPc
<1>3. \A x \in Msg :
        /\ w'[x].pc \in Unwritten => w[x].pc \in Unwritten
        /\ w'[x].pc \in Holding => w[x].pc \in Holding
        /\ w'[x].pc \in Writing => w[x].pc \in Writing /\ w'[x].len = w[x].len
  BY <1>2 DEF Unwritten, Holding, Writing
<1> QED BY <1>1, <1>3, QuietReads

\* A cursor moved without the lock stays so.
LEMMA BareStays ==
    ASSUME bare, [Next]_vars
    PROVE  bare'
<1>1. ASSUME NEW m \in Msg, Writes(m) PROVE bare'
  BY <1>1 DEF Writes, Ask, Take, GiveUp, Trim, TrimFails, StartLine, EndLine, Sync,
     AppendFails, Rollback, RollbackFails, Answer, SenderGivesUp, reads
<1>2. ASSUME NEW r \in Reader, Polls(r) PROVE bare'
  BY <1>2, Zenon DEF Polls, Poll, PollUnlocked, Aim, Place, Read, Move, MoveFails, Show, KillReader
<1>3. ASSUME NEW P, Kill(P) PROVE bare'
  BY <1>3 DEF Kill, reads
<1>4. ASSUME NEW k \in 0..Len(file), Crash(k) PROVE bare'
  BY <1>4 DEF Crash
<1> QED BY <1>1, <1>2, <1>3, <1>4 DEF Next, vars, reads

LEMMA NextReads ==
    ASSUME MaxLost <= 1, MailInv, bare \/ ReadInv, [Next]_vars
    PROVE  bare' \/ ReadInv'
<1>1. CASE bare
  BY <1>1, BareStays
<1>2. CASE ReadInv
  <2>1. ASSUME NEW m \in Msg, Writes(m) PROVE ReadInv'
    BY <1>2, <2>1, WriterReads, TakeReads, TrimReads, EndLineReads, RollbackReads DEF Writes
  <2>2. ASSUME NEW r \in Reader, Polls(r) PROVE bare' \/ ReadInv'
    <3>1. ASSUME Move(r), ~rd[r].lock PROVE bare'
      BY <3>1, Zenon DEF Move
    <3> QED BY <1>2, <2>2, <3>1, PollReads, PlaceReads, ReadReads, MoveReads, ShowReads DEF Polls
  <2>3. ASSUME NEW P, Kill(P) PROVE ReadInv'
    BY <1>2, <2>3, KillReads
  <2>4. ASSUME NEW k \in 0..Len(file), Crash(k) PROVE ReadInv'
    BY <1>2, <2>4, CrashReads
  <2>5. CASE UNCHANGED vars
    BY <1>2, <2>5, QuietReads DEF vars, mail, sends, faults
  <2> QED BY <2>1, <2>2, <2>3, <2>4, <2>5 DEF Next
<1> QED BY <1>1, <1>2

LEMMA ReadsSkipNone ==
    ASSUME MaxLost <= 1, MailInv, ReadInv
    PROVE  NoneLost
<1> SUFFICES ASSUME NEW i \in 1..synced, file[i] \notin passed \cup shown
             PROVE  Offset(cursor, file) < i
  BY DEF NoneLost
<1>1. cursor \in cursors
  BY DEF ReadInv, ReadTypes
<1>2. i \notin 1..Offset(cursor, file) /\ Offset(cursor, file) \in Nat
  BY <1>1, OffsetIsLow DEF Seen
<1> QED BY <1>2

\* No filed line is skipped: until a poll without the writers' lock has moved the
\* cursor, and where the machine's stops lose no more than one line that was never
\* flushed, the next poll starts above no line but those a poll has shown or counted.
\* A cursor that outlived a cut back, a lost line or a lost rename names a line that
\* is no longer where it says, and errs low (cursor.rs, offset): for every number of
\* messages, of pollers and of other faults, also beside polls that read without the
\* lock and failed to move the cursor.
THEOREM NothingIsSkipped ==
    ASSUME MaxLost <= 1
    PROVE  Spec => []NoneSkipped
<1>1. Init => MailInv /\ (bare \/ ReadInv)
  BY InitMail, InitReads
<1>2. MailInv /\ (bare \/ ReadInv) /\ [Next]_vars => MailInv' /\ (bare' \/ ReadInv')
  BY NextMail, NextReads
<1>3. MailInv /\ (bare \/ ReadInv) => NoneSkipped
  BY ReadsSkipNone DEF NoneSkipped
<1> QED BY <1>1, <1>2, <1>3, PTL DEF Spec
=============================================================================
