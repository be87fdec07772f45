------------------------------- MODULE Inbox -------------------------------
(***************************************************************************)
(* One handle's inbox (backend/src/comm): the append every writer makes    *)
(* under the inbox lock (mail/inbox.rs), the verdict its sender gets, from *)
(* its own process or from a daemon it waits for (cli/send.rs, mail/       *)
(* filer.rs), and the poll that shows the lines past the read cursor and   *)
(* moves it (cli/poll.rs, mail/cursor.rs).                                 *)
(*                                                                         *)
(* One action is one system call on the lock, the inbox or the cursor, or  *)
(* one answer.  A process may be killed between any two, a call may fail,  *)
(* and the machine may stop: what was not flushed is then lost.            *)
(***************************************************************************)
EXTENDS Naturals, Sequences, FiniteSets

CONSTANTS
    Msg,         \* the messages sent to the handle, each a different line
    Remote,      \* those filed by the daemon, for a sender that waits for it
    Reader,      \* processes that poll
    AppendsHere, \* the pollers share the writers' lock (appends_here)
    MaxPolls,    \* bound: polls
    MaxKills,    \* bound: kills of a process
    MaxErrors,   \* bound: calls on the inbox, a poller's lock or the cursor that fail
    MaxCrashes,  \* bound: stops of the machine
    MaxLost,     \* bound: whole lines those lose
    None

ASSUME InboxAssumption ==
    /\ IsFiniteSet(Msg) /\ Remote \subseteq Msg /\ AppendsHere \in BOOLEAN
    /\ MaxPolls \in Nat /\ MaxKills \in Nat /\ MaxErrors \in Nat
    /\ MaxCrashes \in Nat /\ MaxLost \in Nat
    /\ None \notin Msg

VARIABLES
    file,     \* the inbox's newline-terminated lines
    torn,     \* bytes follow the last newline
    synced,   \* the lines that are on the disk
    w,        \* the writer of each message
    told,     \* what each sender was told
    cursor,   \* read/<h>.cursor
    cursors,  \* the cursors written so far: its rename is not flushed
    rd,       \* the pollers
    passed,   \* history: lines a poll that read them moved the cursor past
    shown,    \* history: lines that were printed
    bare,     \* history: a poll without the lock has moved the cursor
    polls, kills, errors, crashes, lost

mail   == <<file, torn, synced>>
sends  == <<w, told>>
reads  == <<cursor, cursors, rd, passed, shown, bare, polls>>
faults == <<kills, errors, crashes, lost>>
vars   == <<mail, sends, reads, faults>>

----------------------------------------------------------------------------
WriterPc == {"new", "waiting", "held", "trimmed", "writing", "written", "failing",
             "filed", "failed", "left", "dead"}
Holding  == {"held", "trimmed", "writing", "written", "failing"}
Live     == Holding \cup {"waiting"}

\* `<count> <hash>`: how many lines were shown and which was the last.
Cursor(n, m) == [n |-> n, last |-> m]
NoCursor == Cursor(0, None)

Gone == [pc |-> "idle", lock |-> FALSE, cur |-> NoCursor, at |-> 0, batch |-> <<>>]

LinesOf(f) == {f[i] : i \in 1..Len(f)}
Cut(f, n)  == SubSeq(f, 1, n)
Low(a, b)  == IF a < b THEN a ELSE b

\* The inbox lock: a writer's is exclusive, a poller's shared; the OS drops both
\* with their process.
Locked(m)  == w[m].pc \in Holding
Sharing(r) == rd[r].lock /\ rd[r].pc \in {"open", "aimed", "placed"}

Init ==
    /\ file = <<>> /\ torn = FALSE /\ synced = 0
    /\ w = [m \in Msg |-> [pc |-> "new", len |-> 0]]
    /\ told = [m \in Msg |-> "nothing"]
    /\ cursor = NoCursor /\ cursors = {NoCursor}
    /\ rd = [r \in Reader |-> Gone]
    /\ passed = {} /\ shown = {} /\ bare = FALSE
    /\ polls = 0 /\ kills = 0 /\ errors = 0 /\ crashes = 0 /\ lost = 0

Goes(m, pc) == w' = [w EXCEPT ![m].pc = pc]
Errs == errors < MaxErrors /\ errors' = errors + 1 /\ UNCHANGED <<kills, crashes, lost>>

----------------------------------------------------------------------------
(* The writer: file_here, file_frame_with, append_line.                    *)

\* The route and the registry let the line through, or nothing is appended.
Ask(m) ==
    /\ w[m].pc = "new"
    /\ Goes(m, "waiting") \/ Goes(m, "failed")
    /\ UNCHANGED <<mail, told, reads, faults>>

\* take_lock: taken, or given up after the wait.
Take(m) ==
    /\ w[m].pc = "waiting"
    /\ \A x \in Msg : ~Locked(x)
    /\ \A r \in Reader : ~Sharing(r)
    /\ Goes(m, "held")
    /\ UNCHANGED <<mail, told, reads, faults>>

GiveUp(m) ==
    /\ w[m].pc = "waiting"
    /\ Goes(m, "failed")
    /\ UNCHANGED <<mail, told, reads, faults>>

\* The tail a dead writer left is cut; the length to fall back to is the rest.
Trim(m) ==
    /\ w[m].pc = "held"
    /\ torn' = FALSE
    /\ w' = [w EXCEPT ![m] = [pc |-> "trimmed", len |-> Len(file)]]
    /\ UNCHANGED <<file, synced, told, reads, faults>>

TrimFails(m) ==
    /\ w[m].pc = "held" /\ Errs
    /\ Goes(m, "failed")
    /\ UNCHANGED <<mail, told, reads>>

\* write_all: the line's bytes, then its newline.
StartLine(m) ==
    /\ w[m].pc = "trimmed"
    /\ torn' = TRUE
    /\ Goes(m, "writing")
    /\ UNCHANGED <<file, synced, told, reads, faults>>

EndLine(m) ==
    /\ w[m].pc = "writing"
    /\ file' = Append(file, m) /\ torn' = FALSE
    /\ Goes(m, "written")
    /\ UNCHANGED <<synced, told, reads, faults>>

\* Mutant of Sync: the line is answered for before it is flushed.
SyncLater(m) ==
    /\ w[m].pc = "written"
    /\ Goes(m, "filed")
    /\ UNCHANGED <<mail, told, reads, faults>>

\* The flush is the file's, and so of every line before it; the lock then goes.
Sync(m) ==
    /\ w[m].pc = "written"
    /\ synced' = Len(file)
    /\ Goes(m, "filed")
    /\ UNCHANGED <<file, torn, told, reads, faults>>

AppendFails(m) ==
    /\ w[m].pc \in {"writing", "written"} /\ Errs
    /\ Goes(m, "failing")
    /\ UNCHANGED <<mail, told, reads>>

\* Mutant of Rollback: only a line without its newline is cut.
RollbackTail(m) ==
    /\ w[m].pc = "failing"
    /\ torn' = FALSE
    /\ Goes(m, "failed")
    /\ UNCHANGED <<file, synced, told, reads, faults>>

\* The file goes back to its length after the cut; the lock then goes.
Rollback(m) ==
    /\ w[m].pc = "failing"
    /\ file' = Cut(file, w[m].len) /\ torn' = FALSE /\ synced' = Low(synced, w[m].len)
    /\ Goes(m, "failed")
    /\ UNCHANGED <<told, reads, faults>>

\* A cut that fails is ignored.
RollbackFails(m) ==
    /\ w[m].pc = "failing" /\ Errs
    /\ Goes(m, "left")
    /\ UNCHANGED <<mail, told, reads>>

----------------------------------------------------------------------------
(* The verdict: the process's own word, or the daemon's answer.            *)

Answer(m) ==
    /\ told[m] = "nothing" /\ w[m].pc \in {"filed", "failed", "left"}
    /\ told' = [told EXCEPT ![m] = IF w[m].pc = "filed" THEN "filed" ELSE "failed"]
    /\ UNCHANGED <<mail, w, reads, faults>>

\* FILE_WINDOW passes, or the connection ends; the filing goes on or is yet to
\* begin.  So it is for a guest's forward to the hub and the hub's offer to a link.
SenderGivesUp(m) ==
    /\ m \in Remote /\ told[m] = "nothing"
    /\ told' = [told EXCEPT ![m] = "failed"]
    /\ UNCHANGED <<mail, w, reads, faults>>

----------------------------------------------------------------------------
(* The reader: poll.                                                       *)

\* read_lock: the shared lock.  One that stays held ends the poll with nothing read.
Poll(r) ==
    /\ rd[r].pc = "idle" /\ polls < MaxPolls
    /\ AppendsHere /\ \A m \in Msg : ~Locked(m)
    /\ polls' = polls + 1
    /\ rd' = [rd EXCEPT ![r].pc = "open", ![r].lock = TRUE]
    /\ UNCHANGED <<mail, sends, cursor, cursors, passed, shown, bare, faults>>

\* No lock is taken where this box does not append, and none is had when opening or
\* taking it fails: the poll says so and reads without it.
PollUnlocked(r) ==
    /\ rd[r].pc = "idle" /\ polls < MaxPolls
    /\ IF AppendsHere THEN Errs ELSE UNCHANGED faults
    /\ polls' = polls + 1
    /\ rd' = [rd EXCEPT ![r].pc = "open", ![r].lock = FALSE]
    /\ UNCHANGED <<mail, sends, cursor, cursors, passed, shown, bare>>

\* offset, first half: the cursor file.
Aim(r) ==
    /\ rd[r].pc = "open"
    /\ rd' = [rd EXCEPT ![r].pc = "aimed", ![r].cur = cursor]
    /\ UNCHANGED <<mail, sends, cursor, cursors, passed, shown, bare, polls, faults>>

\* Mutant of Offset: the count alone, as before the hash.
CountAlone(c, f) == IF c.n > Len(f) THEN 0 ELSE c.n

\* offset, second half: where cursor c places a reader of the lines f.
Offset(c, f) ==
    CASE c.n > Len(f) + 1 \/ c = NoCursor -> 0
      [] c.n = Len(f) + 1                 -> Len(f)
      [] OTHER                            -> IF f[c.n] = c.last THEN c.n ELSE c.n - 1

Place(r) ==
    /\ rd[r].pc = "aimed"
    /\ rd' = [rd EXCEPT ![r].pc = "placed", ![r].at = Offset(rd[r].cur, file)]
    /\ UNCHANGED <<mail, sends, cursor, cursors, passed, shown, bare, polls, faults>>

\* The lines, in a read of their own; the lock goes.
Read(r) ==
    /\ rd[r].pc = "placed"
    /\ IF Len(file) > rd[r].at
       THEN rd' = [rd EXCEPT ![r].pc = "read", ![r].batch = file]
       ELSE rd' = [rd EXCEPT ![r] = Gone]
    /\ UNCHANGED <<mail, sends, cursor, cursors, passed, shown, bare, polls, faults>>

\* The lines of its batch a poll shows.
Unseen(r) == {rd[r].batch[i] : i \in rd[r].at + 1..Len(rd[r].batch)}

\* The cursor moves past the batch; a write that fails is a note.
Move(r) ==
    /\ rd[r].pc = "read"
    /\ LET to == Cursor(Len(rd[r].batch), rd[r].batch[Len(rd[r].batch)])
       IN  cursor' = to /\ cursors' = cursors \cup {to}
    /\ passed' = passed \cup Unseen(r)
    /\ bare' = (bare \/ ~rd[r].lock)
    /\ rd' = [rd EXCEPT ![r].pc = "moved"]
    /\ UNCHANGED <<mail, sends, shown, polls, faults>>

MoveFails(r) ==
    /\ rd[r].pc = "read" /\ Errs
    /\ rd' = [rd EXCEPT ![r].pc = "moved"]
    /\ UNCHANGED <<mail, sends, cursor, cursors, passed, shown, bare, polls>>

\* run_in writes what the verb returned, its lines included.
Show(r) ==
    /\ rd[r].pc = "moved"
    /\ shown' = shown \cup Unseen(r)
    /\ rd' = [rd EXCEPT ![r] = Gone]
    /\ UNCHANGED <<mail, sends, cursor, cursors, passed, bare, polls, faults>>

----------------------------------------------------------------------------
(* Faults.                                                                 *)

\* A sender's process, or the daemon with every filing it makes.
Kill(P) ==
    /\ kills < MaxKills /\ kills' = kills + 1
    /\ \E m \in P : w[m].pc \in Live
    /\ w' = [m \in Msg |-> IF m \in P /\ w[m].pc \in Live THEN [w[m] EXCEPT !.pc = "dead"] ELSE w[m]]
    /\ UNCHANGED <<mail, told, reads, errors, crashes, lost>>

KillReader(r) ==
    /\ kills < MaxKills /\ kills' = kills + 1
    /\ rd[r].pc # "idle"
    /\ rd' = [rd EXCEPT ![r] = Gone]
    /\ UNCHANGED <<mail, sends, cursor, cursors, passed, shown, bare, polls, errors, crashes, lost>>

\* The machine stops: k lines are left, and perhaps a part of the next or its NULs;
\* the cursor is any that was written, or its empty file.
Crash(k) ==
    /\ crashes < MaxCrashes /\ crashes' = crashes + 1
    /\ k \in synced..Len(file) /\ lost + (Len(file) - k) <= MaxLost
    /\ lost' = lost + (Len(file) - k)
    /\ file' = Cut(file, k) /\ synced' = k
    /\ torn' \in (IF k < Len(file) \/ torn THEN BOOLEAN ELSE {FALSE})
    /\ w' = [m \in Msg |-> IF w[m].pc \in Live THEN [w[m] EXCEPT !.pc = "dead"] ELSE w[m]]
    /\ cursor' \in cursors
    /\ rd' = [r \in Reader |-> Gone]
    /\ UNCHANGED <<told, cursors, passed, shown, bare, polls, kills, errors>>

----------------------------------------------------------------------------
Writes(m) ==
    \/ Ask(m) \/ Take(m) \/ GiveUp(m) \/ Trim(m) \/ TrimFails(m)
    \/ StartLine(m) \/ EndLine(m) \/ Sync(m) \/ AppendFails(m)
    \/ Rollback(m) \/ RollbackFails(m) \/ Answer(m) \/ SenderGivesUp(m)

Polls(r) ==
    \/ Poll(r) \/ PollUnlocked(r) \/ Aim(r) \/ Place(r) \/ Read(r)
    \/ Move(r) \/ MoveFails(r) \/ Show(r) \/ KillReader(r)

Next ==
    \/ \E m \in Msg : Writes(m)
    \/ \E r \in Reader : Polls(r)
    \/ \E P \in {{m} : m \in Msg \ Remote} \cup {Remote} : Kill(P)
    \/ \E k \in 0..Len(file) : Crash(k)

Spec == Init /\ [][Next]_vars

----------------------------------------------------------------------------
TypeOK ==
    /\ file \in Seq(Msg) /\ torn \in BOOLEAN /\ synced \in 0..Len(file)
    /\ w \in [Msg -> [pc : WriterPc, len : Nat]]
    /\ told \in [Msg -> {"nothing", "filed", "failed"}]

\* A verdict is true.  Who was told "filed" has its line on the disk, whatever
\* writers failed, died or waited after it and however often the machine stopped:
\* no cut reaches it (append_line).  A process that files its own message and says
\* FAILED has left no line, unless its cut back was refused (file_frame's Err).
FiledIsKept ==
    \A m \in Msg : told[m] = "filed" => \E i \in 1..synced : file[i] = m
RefusedIsNotFiled ==
    \A m \in Msg \ Remote : told[m] = "failed" /\ m \in LinesOf(file) => w[m].pc = "left"
VerdictIsTrue == FiledIsKept /\ RefusedIsNotFiled

\* The next poll would start above no filed line but those a poll has shown or
\* counted with its cursor, also where polls read without the lock: the warning such
\* a poll prints, "a line may show twice, none is lost" (read_lock).
NoneLost ==
    \A i \in 1..synced : file[i] \notin passed \cup shown => Offset(cursor, file) < i

\* The same, until a poll without the lock has moved the cursor: whatever was cut back
\* after a reader counted it, or lost from the cursor, the cursor's reading errs low
\* (cursor.rs, offset).
NoneSkipped == bare \/ NoneLost

\* What the cursor is past was shown, once no poll is at work (sotd comm's usage:
\* poll shows the mail past the read cursor, then moves it).
NoneDropped ==
    (\A r \in Reader : rd[r].pc = "idle") =>
        \A i \in 1..synced : file[i] \notin shown => Offset(cursor, file) < i
============================================================================
