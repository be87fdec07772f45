----------------------------- MODULE WindowLease -----------------------------
(***************************************************************************)
(* The window's half of the lease (frontend/src/lease.rs, lease_exit.rs,   *)
(* ui/app/exit.rs): the handshake each host's transport task makes, the    *)
(* holder task that owns a granted stream, the leave the UI thread waits   *)
(* on, and the counts of sessions an earlier close could not end.          *)
(*                                                                         *)
(* Three kinds of actor interleave: the UI thread, the transport task of   *)
(* each host and the holder task of each lease.  One action is one         *)
(* critical section of the book's mutex, or one turn of a task between two *)
(* awaits.  The daemon's end of each stream is the environment: what hold()*)
(* does with each frame (its own state is module DaemonLease).             *)
(***************************************************************************)
EXTENDS Naturals, Sequences, FiniteSets

CONSTANTS
    Host,        \* the hosts dialled over a local pipe (pipe_hosts)
    Daemon,      \* the daemons behind them, as state roots
    Root,        \* [Host -> Daemon]: two labels may name one daemon
    MaxCount,    \* bound: the largest count of sessions not ended
    MaxTries,    \* bound: handshakes started
    MaxLeaves,   \* bound: calls of leave_all
    MaxCuts,     \* bound: streams the daemon's end closed or lost
    Loads,       \* the <<count, leaves>> one behaviour is bounded by
    None

ASSUME WindowAssumption ==
    /\ IsFiniteSet(Host) /\ Root \in [Host -> Daemon]
    /\ MaxCount \in Nat /\ MaxTries \in Nat /\ MaxLeaves \in Nat /\ MaxCuts \in Nat
    /\ Loads \subseteq (0..MaxCount) \X (0..MaxLeaves)
    /\ None \notin Nat /\ None \notin {"close", "keep", "handover"}

VARIABLES
    \* the book, behind its mutex
    standing,  \* Slot::standing
    holder,    \* Slot::holder: the holder task behind the sender
    leaving,   \* Book::leaving
    inflight,  \* Book::inflight
    late,      \* Book::late is Some
    lateQ,     \* what that channel carries: hosts, each with its ack
    owed,      \* Book::owed, 0 where the map has no entry
    \* the tasks
    hs,        \* where the host's handshake is
    cmds,      \* the commands queued to the holder
    ack,       \* the current leave's oneshot of each host
    \* the UI thread
    ui,        \* what it is doing
    lv,        \* the Leaving, or NoLeave
    drawn,     \* the counts the frame being drawn shows
    waits,     \* holders deliver_queued still waits for
    exit,      \* the code the process ended with
    \* the streams and the daemon's end of them
    wire, back, cut, eof, srv, count,
    \* bounds and history
    tries, leaves, cuts,
    closed,    \* history: a close was asked for and taken up
    shown,     \* history: the counts a presented frame has drawn
    told,      \* history: the count the host's last grant carried
    load       \* the bounds of this behaviour, which never change

book   == <<standing, holder, leaving, inflight, late, lateQ, owed>>
tasks  == <<hs, cmds, ack>>
window == <<ui, lv, drawn, waits, exit>>
stream == <<wire, back, cut, eof, srv, count>>
spent  == <<tries, leaves, cuts>>
past   == <<closed, shown, told>>
vars   == <<book, tasks, window, stream, spent, past, load>>

----------------------------------------------------------------------------
Intents   == {"close", "keep", "handover"}
Standings == {"pending", "granted", "foreign", "undetermined", "unsupported", "unreached"}
Counts    == 0..MaxCount
Relaunch  == 75     \* EXIT_UPDATE_RESTART, a relaunch's code

\* A LeaveOutcome, or the oneshot that has none yet.
Outcome(s, n) == [is |-> s, n |-> n]
NoAck    == Outcome("none", 0)
Open     == Outcome("open", 0)
Failed   == Outcome("failed", 0)
TimedOut == Outcome("timed_out", 0)
Replied(n) == Outcome("replied", n)

\* HolderCmd; a leave carries the number of the leave_all that queued it.
Leave(i, id) == [op |-> "leave", intent |-> i, id |-> id, n |-> 0]
NoticeSeen(n) == [op |-> "seen", intent |-> None, id |-> 0, n |-> n]
Written == [op |-> "written", intent |-> None, id |-> 0, n |-> 0]

NoLeave == [phase |-> "none", intent |-> None, code |-> 0, pending |-> {},
            late |-> FALSE, due |-> FALSE, outcome |-> [h \in Host |-> NoAck],
            acks |-> {}, warned |-> FALSE]
NoFrame == [d \in Daemon |-> 0]
NoSrv   == [pc |-> "none", heard |-> None]

Running == exit = None

\* The UI thread is between two events: a frame being drawn is one event, a
\* poll and the stay it asks for another.
UiFree == Running /\ ui = "free" /\ drawn = NoFrame /\ lv.phase # "staying"

\* Leases::held
Held(h) == standing[h] = "granted" /\ holder[h] = "live"

Init ==
    /\ standing = [h \in Host |-> "pending"] /\ holder = [h \in Host |-> "none"]
    /\ leaving = None /\ inflight = 0 /\ late = FALSE /\ lateQ = {}
    /\ owed = [d \in Daemon |-> 0]
    /\ hs = [h \in Host |-> "none"] /\ cmds = [h \in Host |-> <<>>]
    /\ ack = [h \in Host |-> NoAck]
    /\ ui = "free" /\ lv = NoLeave /\ drawn = NoFrame /\ waits = {} /\ exit = None
    /\ wire = [h \in Host |-> <<>>] /\ back = [h \in Host |-> <<>>]
    /\ cut = [h \in Host |-> FALSE] /\ eof = [h \in Host |-> FALSE]
    /\ srv = [h \in Host |-> NoSrv]
    /\ load \in Loads /\ count \in [Daemon -> 0..load[1]]
    /\ tries = 0 /\ leaves = 0 /\ cuts = 0
    /\ closed = FALSE /\ shown = [d \in Daemon |-> {}] /\ told = [h \in Host |-> 0]

----------------------------------------------------------------------------
(* The handshake: before_data_connection, one task per host.               *)

\* Mutant of Begin: a handshake starts whether or not the window leaves.
BeginWhileLeaving(h) ==
    /\ Running /\ hs[h] = "none" /\ ~Held(h) /\ tries < MaxTries
    /\ tries' = tries + 1
    /\ inflight' = inflight + 1
    /\ hs' = [hs EXCEPT ![h] = "asking"]
    /\ standing' = [standing EXCEPT ![h] = "pending"]
    /\ holder' = [holder EXCEPT ![h] = "none"]
    /\ UNCHANGED <<leaving, late, lateQ, owed, cmds, ack, window, stream, leaves, cuts, past, load>>

Begin(h) ==
    /\ Running /\ hs[h] = "none" /\ ~Held(h) /\ tries < MaxTries
    /\ leaving = None
    /\ tries' = tries + 1
    /\ inflight' = inflight + 1
    /\ hs' = [hs EXCEPT ![h] = "asking"]
    /\ standing' = [standing EXCEPT ![h] = "pending"]
    /\ holder' = [holder EXCEPT ![h] = "none"]
    /\ UNCHANGED <<leaving, late, lateQ, owed, cmds, ack, window, stream, leaves, cuts, past, load>>

\* The hello and the request in one write, on a new stream.
Send(h) ==
    /\ Running /\ hs[h] = "asking"
    /\ hs' = [hs EXCEPT ![h] = "sent"]
    /\ srv' = [srv EXCEPT ![h] = [pc |-> "asked", heard |-> None]]
    /\ wire' = [wire EXCEPT ![h] = <<>>] /\ back' = [back EXCEPT ![h] = <<>>]
    /\ cut' = [cut EXCEPT ![h] = FALSE] /\ eof' = [eof EXCEPT ![h] = FALSE]
    /\ UNCHANGED <<book, cmds, ack, window, count, spent, past, load>>

\* Mutant of CountDown: the last handshake leaves the late channel open.
CountDownLeavesLate(h) ==
    /\ hs' = [hs EXCEPT ![h] = "none"]
    /\ inflight' = inflight - 1
    /\ UNCHANGED late

\* Mutant of CountDown: a settled handshake's drop counts it again.
CountDownTwice(h) ==
    /\ hs' = [hs EXCEPT ![h] = "none"]
    /\ inflight' = inflight - 2
    /\ late' = (late /\ inflight > 2)

\* Book::count_down
CountDown(h) ==
    /\ hs' = [hs EXCEPT ![h] = "none"]
    /\ inflight' = inflight - 1
    /\ late' = (late /\ inflight > 1)

\* Mutant of Settle: a grant that settles while the window leaves is only
\* installed.
SettleQuietly(h, s, live) ==
    /\ standing' = [standing EXCEPT ![h] = s]
    /\ holder' = [holder EXCEPT ![h] = IF live THEN "live" ELSE "none"]
    /\ cmds' = [cmds EXCEPT ![h] = <<>>]
    /\ CountDown(h)
    /\ UNCHANGED <<leaving, lateQ, ack>>

\* Handshake::settle: install, and the count down, under one lock.  While a
\* leave waits on it, the handshake gives the leave its one outcome.
Settle(h, s, live) ==
    /\ standing' = [standing EXCEPT ![h] = s]
    /\ holder' = [holder EXCEPT ![h] = IF live THEN "live" ELSE "none"]
    /\ IF leaving # None /\ late
       THEN /\ lateQ' = lateQ \cup {h}
            /\ ack' = [ack EXCEPT ![h] = IF live THEN Open ELSE Failed]
            /\ cmds' = [cmds EXCEPT ![h] = IF live THEN <<Leave(leaving, leaves)>> ELSE <<>>]
       ELSE cmds' = [cmds EXCEPT ![h] = <<>>] /\ UNCHANGED <<lateQ, ack>>
    /\ CountDown(h)
    /\ UNCHANGED leaving

\* self_identity, the connect or the write failed.
AskFails(h) ==
    /\ Running /\ hs[h] = "asking"
    /\ \E s \in {"undetermined", "unreached"} : Settle(h, s, FALSE)
    /\ UNCHANGED <<owed, window, stream, spent, past, load>>

\* Mutant of ReadGrant: the count is published before the holder is.
ReadGrantInTwo(h) ==
    LET reply == Head(back[h]) IN
    /\ Running /\ hs[h] = "sent" /\ back[h] # <<>> /\ reply.op = "granted"
    /\ told' = [told EXCEPT ![h] = reply.n]
    /\ IF reply.n > 0 /\ told[h] # reply.n
       THEN /\ owed' = [owed EXCEPT ![Root[h]] = reply.n]
            /\ UNCHANGED <<standing, holder, leaving, inflight, late, lateQ, tasks, back>>
       ELSE /\ back' = [back EXCEPT ![h] = Tail(@)]
            /\ Settle(h, "granted", TRUE)
            /\ UNCHANGED owed
    /\ UNCHANGED <<window, wire, cut, eof, srv, count, spent, closed, shown, load>>

\* A grant: the count it names and the holder go in under one lock.
ReadGrant(h) ==
    LET reply == Head(back[h]) IN
    /\ Running /\ hs[h] = "sent" /\ back[h] # <<>> /\ reply.op = "granted"
    /\ back' = [back EXCEPT ![h] = Tail(@)]
    /\ owed' = IF reply.n > 0 THEN [owed EXCEPT ![Root[h]] = reply.n] ELSE owed
    /\ told' = [told EXCEPT ![h] = reply.n]
    /\ Settle(h, "granted", TRUE)
    /\ UNCHANGED <<window, wire, cut, eof, srv, count, spent, closed, shown, load>>

\* Every other answer, or the stream's end before one.
ReadRefusal(h) ==
    /\ Running /\ hs[h] = "sent"
    /\ \/ /\ back[h] # <<>> /\ Head(back[h]).op \in Standings \ {"granted"}
          /\ back' = [back EXCEPT ![h] = Tail(@)]
          /\ Settle(h, Head(back[h]).op, FALSE)
       \/ /\ back[h] = <<>> /\ cut[h]
          /\ Settle(h, "unreached", FALSE)
          /\ UNCHANGED back
    /\ eof' = [eof EXCEPT ![h] = TRUE]
    /\ UNCHANGED <<owed, window, wire, cut, srv, count, spent, past, load>>

\* The future dropped: Handshake's Drop counts it down and installs nothing.
Cancel(h) ==
    /\ Running /\ hs[h] # "none"
    /\ CountDown(h)
    /\ eof' = [eof EXCEPT ![h] = TRUE]
    /\ UNCHANGED <<standing, holder, leaving, lateQ, owed, cmds, ack, window,
                   wire, back, cut, srv, count, spent, past, load>>

----------------------------------------------------------------------------
(* The holder task: spawn_holder.                                          *)

\* One command off the queue, in order.
HolderTakes(h) ==
    LET cmd == Head(cmds[h]) IN
    /\ Running /\ holder[h] = "live" /\ cmds[h] # <<>> /\ ~cut[h]
    /\ cmds' = [cmds EXCEPT ![h] = Tail(@)]
    /\ IF cmd.op = "written"
       THEN waits' = waits \ {h} /\ UNCHANGED wire
       ELSE wire' = [wire EXCEPT ![h] = Append(@, cmd)] /\ UNCHANGED waits
    /\ UNCHANGED <<book, hs, ack, ui, lv, drawn, exit, back, cut, eof, srv, count, spent, past, load>>

\* Mutant of HolderReads: any reply answers the leave that waits.
HolderReadsAnyReply(h) ==
    LET reply == Head(back[h]) IN
    /\ Running /\ holder[h] = "live" /\ back[h] # <<>>
    /\ back' = [back EXCEPT ![h] = Tail(@)]
    /\ ack' = IF ack[h] = Open THEN [ack EXCEPT ![h] = Replied(reply.n)] ELSE ack
    /\ UNCHANGED <<book, hs, cmds, window, wire, cut, eof, srv, count, spent, past, load>>

\* A reply resolves the ack of the leave it answers, by request id.
HolderReads(h) ==
    LET reply == Head(back[h]) IN
    /\ Running /\ holder[h] = "live" /\ back[h] # <<>>
    /\ back' = [back EXCEPT ![h] = Tail(@)]
    /\ ack' = IF reply.id = leaves /\ ack[h] = Open
              THEN [ack EXCEPT ![h] = Replied(reply.n)] ELSE ack
    /\ UNCHANGED <<book, hs, cmds, window, wire, cut, eof, srv, count, spent, past, load>>

\* A write failed, or the stream ended: the acks still awaited fail, the
\* commands still queued are dropped with their oneshots.
HolderEnds(h) ==
    /\ Running /\ holder[h] = "live" /\ cut[h]
    /\ holder' = [holder EXCEPT ![h] = "closed"]
    /\ cmds' = [cmds EXCEPT ![h] = <<>>]
    /\ ack' = IF ack[h] = Open THEN [ack EXCEPT ![h] = Failed] ELSE ack
    /\ waits' = waits \ {h}
    /\ eof' = [eof EXCEPT ![h] = TRUE]
    /\ UNCHANGED <<standing, leaving, inflight, late, lateQ, owed, hs, ui, lv, drawn, exit,
                   wire, back, cut, srv, count, spent, past, load>>

----------------------------------------------------------------------------
(* The counts: owed, the frame that draws them, notice_seen.               *)

\* The lines a frame draws: a leave's own line hides the counts owed.
DrawsOwed == lv.phase = "none" \/ (lv.phase = "waiting" /\ lv.intent = "handover")

FrameDraws ==
    /\ UiFree /\ DrawsOwed /\ owed # NoFrame
    /\ drawn' = owed
    /\ UNCHANGED <<book, tasks, ui, lv, waits, exit, stream, spent, past, load>>

\* Mutant of FramePresented: acks what is owed now, not what was drawn.
FramePresentedAcksOwed ==
    /\ Running /\ drawn # NoFrame
    /\ drawn' = NoFrame
    /\ shown' = [d \in Daemon |-> shown[d] \cup ({drawn[d]} \ {0})]
    /\ owed' = NoFrame
    /\ cmds' = [h \in Host |-> IF owed[Root[h]] > 0 /\ Held(h)
                               THEN Append(cmds[h], NoticeSeen(owed[Root[h]])) ELSE cmds[h]]
    /\ UNCHANGED <<standing, holder, leaving, inflight, late, lateQ, hs, ack,
                   ui, lv, waits, exit, stream, spent, closed, told, load>>

\* notice_seen for every count drawn: each stays owed if a newer one came.
FramePresented ==
    /\ Running /\ drawn # NoFrame
    /\ drawn' = NoFrame
    /\ shown' = [d \in Daemon |-> shown[d] \cup ({drawn[d]} \ {0})]
    /\ owed' = [d \in Daemon |-> IF owed[d] = drawn[d] THEN 0 ELSE owed[d]]
    /\ cmds' = [h \in Host |-> IF drawn[Root[h]] > 0 /\ Held(h)
                               THEN Append(cmds[h], NoticeSeen(drawn[Root[h]])) ELSE cmds[h]]
    /\ UNCHANGED <<standing, holder, leaving, inflight, late, lateQ, hs, ack,
                   ui, lv, waits, exit, stream, spent, closed, told, load>>

\* The frame did not present the line whole: nothing is acked.
FrameDropped ==
    /\ Running /\ drawn # NoFrame
    /\ drawn' = NoFrame
    /\ UNCHANGED <<book, tasks, ui, lv, waits, exit, stream, spent, past, load>>

----------------------------------------------------------------------------
(* The leave.                                                              *)

\* end_loop: a nonzero code ends the process at once, a zero the event loop.
Finish(code) ==
    /\ ui' = "ending"
    /\ IF code = 0 THEN UNCHANGED <<exit, eof>>
       ELSE exit' = code /\ eof' = [h \in Host |-> TRUE]

HeldNow == {h \in Host : Held(h)}

\* Mutant of LeaveAll: a handshake in flight is not waited for.
LeaveAllHeldOnly(i, code) ==
    /\ leaves < load[2] /\ leaves' = leaves + 1
    /\ leaving' = i /\ late' = FALSE /\ lateQ' = {}
    /\ cmds' = [h \in Host |-> IF Held(h) THEN Append(cmds[h], Leave(i, leaves')) ELSE cmds[h]]
    /\ ack' = [h \in Host |-> IF Held(h) THEN Open ELSE NoAck]
    /\ lv' = IF HeldNow = {} THEN NoLeave
             ELSE [NoLeave EXCEPT !.phase = "waiting", !.intent = i, !.code = code,
                                  !.pending = HeldNow, !.late = TRUE]

\* Leases::leave_all: every held lease is left, the handshakes in flight are
\* waited for, and a leave before this one is superseded, its acks dropped.
LeaveAll(i, code) ==
    /\ leaves < load[2] /\ leaves' = leaves + 1
    /\ leaving' = i /\ late' = (inflight > 0) /\ lateQ' = {}
    /\ cmds' = [h \in Host |-> IF Held(h) THEN Append(cmds[h], Leave(i, leaves')) ELSE cmds[h]]
    /\ ack' = [h \in Host |-> IF Held(h) THEN Open ELSE NoAck]
    /\ lv' = IF HeldNow = {} /\ inflight = 0 THEN NoLeave
             ELSE [NoLeave EXCEPT !.phase = "waiting", !.intent = i, !.code = code,
                                  !.pending = HeldNow, !.late = TRUE]

\* State::leave: begin_leave, and the exit at once when there is no leave.
Leaves(i, code) ==
    /\ LeaveAll(i, code)
    /\ closed' = (closed \/ i = "close")
    /\ IF lv' = NoLeave THEN Finish(code) ELSE UNCHANGED <<ui, exit, eof>>
    /\ UNCHANGED <<standing, holder, inflight, owed, hs, drawn, waits,
                   wire, back, cut, srv, count, tries, cuts, shown, told, load>>

\* Leaving::settle: the handshakes that settled join the wait.
Joined ==
    IF ~lv.late THEN lv
    ELSE [lv EXCEPT !.pending = @ \cup lateQ, !.late = late,
                    !.due = @ /\ (lateQ = {} \/ lv.intent = "close")]

\* Mutant of MustStay: a Keep exits at its deadline like a Close.
NeverStays(l) == FALSE

\* Leaving::must_stay
MustStay(l) == l.late /\ l.intent # "close"

\* Leases::stay, when it holds: the leave ends and the window stays open.
StayTaken ==
    /\ MustStay(Joined)
    /\ leaving' = None /\ late' = FALSE /\ lateQ' = {}
    /\ lv' = NoLeave
    /\ UNCHANGED <<standing, holder, inflight, owed, hs, cmds, ack, drawn, waits, exit,
                   stream, spent, past, load>>

\* exit_intent, with the leave a Ctrl+Q prompt's Enter starts in place of Ask.
ExitIntent(reason, i) ==
    CASE reason = "relaunch" -> IF i = None THEN "leave" ELSE "ignore"
      [] i = None -> "leave"
      [] (reason = "x" /\ i \in {"keep", "handover"}) \/ (reason = "quit" /\ i = "handover")
             -> "supersede"
      [] OTHER -> "now"

LeaveOf(reason) ==
    CASE reason = "x" -> {"close"} [] reason = "quit" -> {"keep", "close"}
      [] reason = "relaunch" -> {"handover"}

\* A request with no leave in progress.
AsksToLeave(reason) ==
    /\ UiFree /\ ExitIntent(reason, lv.intent) = "leave" /\ leaving = None
    /\ \E i \in LeaveOf(reason) : Leaves(i, IF reason = "relaunch" THEN Relaunch ELSE 0)

\* Mutant of AsksAgain: the new close keeps the leave's code.
AsksAgainWithCode(reason) ==
    /\ UiFree /\ ExitIntent(reason, lv.intent) = "supersede"
    /\ reason = "quit" => ~MustStay(Joined)
    /\ Leaves("close", lv.code)

\* An X during a Keep or a Handover, or a Ctrl+Q during a Handover that no
\* stay takes: a new Close, after the old line.
AsksAgain(reason) ==
    /\ UiFree /\ ExitIntent(reason, lv.intent) = "supersede"
    /\ reason = "quit" => ~MustStay(Joined)
    /\ Leaves("close", 0)

\* A Ctrl+Q while a Keep or a Handover waits on an unanswered request.
AsksAndStays ==
    /\ UiFree /\ lv.phase # "none" /\ lv.intent # "close"
    /\ StayTaken /\ UNCHANGED ui

\* Mutant of Deliver: the exit does not wait for the queued leaves.
DeliverNothing(queues) ==
    /\ ui' = "delivered" /\ waits' = {} /\ cmds' = queues

\* deliver_queued: a receipt behind what each holder has queued.
Deliver(queues) ==
    /\ ui' = "delivering"
    /\ waits' = {h \in Host : holder[h] = "live"}
    /\ cmds' = [h \in Host |-> IF holder[h] = "live" THEN Append(queues[h], Written) ELSE queues[h]]

\* terminal_close: the leave takes the code, then the bounded delivery.
AsksNow(reason) ==
    /\ UiFree /\ ExitIntent(reason, lv.intent) = "now"
    /\ reason = "quit" => ~MustStay(Joined)
    /\ closed' = TRUE
    /\ lv' = [lv EXCEPT !.code = 0]
    /\ Deliver(cmds)
    /\ UNCHANGED <<book, hs, ack, drawn, exit, stream, spent, shown, told, load>>

\* native_close: a macOS Quit outside the dispatcher; no poll follows it.
NativeClose ==
    /\ UiFree /\ leaving = None
    /\ leaves < load[2] /\ leaves' = leaves + 1
    /\ leaving' = "close" /\ late' = (inflight > 0) /\ lateQ' = {}
    /\ Deliver([h \in Host |-> IF Held(h) THEN Append(cmds[h], Leave("close", leaves')) ELSE cmds[h]])
    /\ ack' = [h \in Host |-> IF Held(h) THEN Open ELSE NoAck]
    /\ closed' = TRUE
    /\ UNCHANGED <<standing, holder, inflight, owed, hs, lv, drawn, exit, stream,
                   tries, cuts, shown, told, load>>

\* Every holder has written what was queued, or LEAVE_WRITE_WAIT passed.
Delivered ==
    /\ Running /\ ui = "delivering"
    /\ ui' = IF waits = {} THEN "delivered" ELSE "ending"
    /\ UNCHANGED <<book, tasks, lv, drawn, waits, exit, stream, spent, past, load>>

----------------------------------------------------------------------------
(* The poll: about_to_wait, while the window leaves.                       *)

Polls == Running /\ ui \in {"free", "ending", "delivered"} /\ drawn = NoFrame

\* The wait's bound passed: CLOSE_ACK_WAIT or KEEP_ACK_WAIT.
DeadlinePasses ==
    /\ Running /\ lv.phase = "waiting" /\ ~lv.due
    /\ lv' = [lv EXCEPT !.due = TRUE]
    /\ UNCHANGED <<book, tasks, ui, drawn, waits, exit, stream, spent, past, load>>

\* The leave after the poll has taken what settled and what was answered.
Collected ==
    [Joined EXCEPT !.pending = {h \in @ : ack[h] = Open},
                   !.outcome = [h \in Host |->
                       IF h \in Joined.pending /\ ack[h] # Open THEN ack[h] ELSE @[h]]]

\* Mutant of Waits: the wait has no bound.
WaitsForever(l) == l.pending # {} \/ l.late

Waits(l) == (l.pending # {} \/ l.late) /\ ~l.due

PollWaits ==
    /\ Polls /\ lv.phase = "waiting" /\ Waits(Collected)
    /\ lv' = Collected /\ lateQ' = {}
    /\ UNCHANGED <<standing, holder, leaving, inflight, late, owed, tasks,
                   ui, drawn, waits, exit, stream, spent, past, load>>

\* LeaveStep::Stay: the poll drops the lock before stay takes it.
PollStays ==
    /\ Polls /\ lv.phase = "waiting" /\ ~Waits(Collected) /\ MustStay(Collected)
    /\ lv' = [Collected EXCEPT !.phase = "staying"] /\ lateQ' = {}
    /\ UNCHANGED <<standing, holder, leaving, inflight, late, owed, tasks,
                   ui, drawn, waits, exit, stream, spent, past, load>>

\* Mutant of Stays: the stay stands on what the poll saw.
StaysUnchecked ==
    /\ Polls /\ lv.phase = "staying"
    /\ leaving' = None /\ late' = FALSE /\ lateQ' = {} /\ lv' = NoLeave
    /\ UNCHANGED <<standing, holder, inflight, owed, tasks, ui, drawn, waits, exit,
                   stream, spent, past, load>>

\* stay_open, under the lock again: a grant in between took the leave, and
\* the wait goes on.
Stays ==
    /\ Polls /\ lv.phase = "staying"
    /\ \/ StayTaken
       \/ /\ ~MustStay(Joined)
          /\ lv' = [Joined EXCEPT !.phase = "waiting"] /\ lateQ' = {}
          /\ UNCHANGED <<standing, holder, leaving, inflight, late, owed, tasks,
                         drawn, waits, exit, stream, spent, past, load>>
    /\ UNCHANGED ui

Acked(l) == {h \in Host : l.outcome[h].is = "replied" /\ l.outcome[h].n > 0}

\* leave_report's warnings; a handshake still in flight is one.
Unconfirmed(l) == l.late \/ \E h \in Host : l.outcome[h].is \in {"failed", "timed_out"} \/ h \in l.pending

\* What is still open at the end of the wait timed out.
Final(l) ==
    [l EXCEPT !.pending = {}, !.late = FALSE, !.warned = Unconfirmed(l),
              !.outcome = [h \in Host |-> IF h \in l.pending THEN TimedOut ELSE @[h]]]

\* leave_report's line: the counts, and a close's or a keep's failures.
HasLine(l) == Acked(l) # {} \/ (Unconfirmed(l) /\ l.intent # "handover")

Reports == Polls /\ lv.phase = "waiting" /\ ~Waits(Collected) /\ ~MustStay(Collected)

PollShows ==
    /\ Reports /\ HasLine(Collected)
    /\ lv' = [Final(Collected) EXCEPT !.phase = "shown", !.acks = Acked(Collected)]
    /\ lateQ' = {}
    /\ UNCHANGED <<standing, holder, leaving, inflight, late, owed, tasks,
                   ui, drawn, waits, exit, stream, spent, past, load>>

PollExits ==
    /\ Reports /\ ~HasLine(Collected)
    /\ lv' = Final(Collected) /\ lateQ' = {}
    /\ Finish(lv.code)
    /\ UNCHANGED <<standing, holder, leaving, inflight, late, owed, tasks, drawn, waits,
                   wire, back, cut, srv, count, spent, past, load>>

\* A frame presents the leaving line: its counts are acked to the hosts that
\* reported them, and the hold starts.
LinePresented ==
    /\ UiFree /\ lv.phase = "shown"
    /\ lv' = [lv EXCEPT !.phase = "held", !.acks = {}]
    /\ cmds' = [h \in Host |-> IF h \in lv.acks /\ Held(h)
                               THEN Append(cmds[h], NoticeSeen(lv.outcome[h].n)) ELSE cmds[h]]
    /\ shown' = [d \in Daemon |-> shown[d] \cup {lv.outcome[h].n : h \in {k \in lv.acks : Root[k] = d}}]
    /\ UNCHANGED <<book, hs, ack, ui, drawn, waits, exit, stream, spent, closed, told, load>>

\* The hold passed, or no frame presented the line in time.
LineEnds ==
    /\ Polls /\ lv.phase \in {"shown", "held"}
    /\ Finish(lv.code)
    /\ UNCHANGED <<book, tasks, lv, drawn, waits, wire, back, cut, srv, count, spent, past, load>>

\* The event loop returned, or the backstop thread ended the process: armed
\* with 0, since a nonzero code has ended it already.
ProcessEnds ==
    /\ Running /\ ui \in {"delivering", "delivered", "ending"}
    /\ exit' = 0
    /\ eof' = [h \in Host |-> TRUE]
    /\ UNCHANGED <<book, tasks, ui, lv, drawn, waits, wire, back, cut, srv, count, spent, past, load>>

----------------------------------------------------------------------------
(* The daemon's end of a stream: what hold() does with it.                 *)

\* The answer to the request: a grant carries the count (Leases::notice).
DaemonAnswers(h) ==
    /\ srv[h].pc = "asked"
    /\ \E s \in Standings \ {"pending"} :
          /\ back' = [back EXCEPT ![h] =
                 Append(@, [op |-> s, id |-> 0, n |-> IF s = "granted" THEN count[Root[h]] ELSE 0])]
          /\ srv' = [srv EXCEPT ![h].pc = IF s = "granted" THEN "held" ELSE "none"]
    /\ UNCHANGED <<book, tasks, window, wire, cut, eof, count, spent, past, load>>

\* fe.leaving and fe.notice_seen.  A close that decides answers with the
\* count of the shutdown it began; every other leave with 0.
DaemonReads(h) ==
    LET f == Head(wire[h])
        d == Root[h]
    IN  /\ srv[h].pc \in {"held", "left"} /\ wire[h] # <<>>
        /\ wire' = [wire EXCEPT ![h] = Tail(@)]
        /\ \/ /\ f.op = "leave"
              /\ srv' = [srv EXCEPT ![h] = [pc |-> "left", heard |-> f.intent]]
              /\ \E n \in 0..load[1] :
                    /\ n > 0 => f.intent = "close" /\ n >= count[d]
                    /\ count' = IF n > 0 THEN [count EXCEPT ![d] = n] ELSE count
                    /\ back' = [back EXCEPT ![h] = Append(@, [op |-> "left", id |-> f.id, n |-> n])]
           \/ /\ f.op = "seen"
              /\ count' = IF count[d] = f.n THEN [count EXCEPT ![d] = 0] ELSE count
              /\ UNCHANGED <<srv, back>>
        /\ UNCHANGED <<book, tasks, window, cut, eof, spent, past, load>>

\* The end of the window's half, after every frame before it.
DaemonSeesEnd(h) ==
    /\ srv[h].pc \in {"held", "left"} /\ eof[h] /\ wire[h] = <<>>
    /\ srv' = [srv EXCEPT ![h].pc = "none"]
    /\ UNCHANGED <<book, tasks, window, wire, back, cut, eof, count, spent, past, load>>

\* The daemon ends, or the stream does: frames not read yet are lost.
DaemonCuts(h) ==
    /\ srv[h].pc # "none" /\ ~cut[h] /\ cuts < MaxCuts
    /\ cuts' = cuts + 1
    /\ cut' = [cut EXCEPT ![h] = TRUE]
    /\ wire' = [wire EXCEPT ![h] = <<>>]
    /\ srv' = [srv EXCEPT ![h].pc = "none"]
    /\ UNCHANGED <<book, tasks, window, back, eof, count, tries, leaves, past, load>>

\* A Cleanup of the daemon's own leaves sessions running.
CountGrows(d) ==
    /\ count[d] < load[1] /\ cuts < MaxCuts
    /\ cuts' = cuts + 1
    /\ count' = [count EXCEPT ![d] = @ + 1]
    /\ UNCHANGED <<book, tasks, window, wire, back, cut, eof, srv, tries, leaves, past, load>>

----------------------------------------------------------------------------
Reasons == {"x", "quit", "relaunch"}

Next ==
    \/ \E h \in Host : Begin(h) \/ Send(h) \/ AskFails(h) \/ ReadGrant(h) \/ ReadRefusal(h) \/ Cancel(h)
    \/ \E h \in Host : HolderTakes(h) \/ HolderReads(h) \/ HolderEnds(h)
    \/ FrameDraws \/ FramePresented \/ FrameDropped
    \/ \E r \in Reasons : AsksToLeave(r) \/ AsksAgain(r) \/ AsksNow(r)
    \/ AsksAndStays \/ NativeClose \/ Delivered
    \/ DeadlinePasses \/ PollWaits \/ PollStays \/ Stays \/ PollShows \/ PollExits
    \/ LinePresented \/ LineEnds \/ ProcessEnds
    \/ \E h \in Host : DaemonAnswers(h) \/ DaemonReads(h) \/ DaemonSeesEnd(h) \/ DaemonCuts(h)
    \/ \E d \in Daemon : CountGrows(d)

Spec == Init /\ [][Next]_vars

PollSteps == PollWaits \/ PollStays \/ Stays \/ PollShows \/ PollExits \/ LineEnds

\* The UI thread: about_to_wait polls after every batch of events (WaitUntil
\* wakes it when there is none), so frames never starve the poll; a passed
\* deadline is seen, bounded waits end, the process ends.  The network, the
\* daemons and the user owe nothing.
Fairness ==
    /\ WF_vars(FramePresented \/ FrameDropped)
    /\ WF_vars(DeadlinePasses) /\ SF_vars(PollSteps)
    /\ WF_vars(Delivered) /\ WF_vars(ProcessEnds)

FairSpec == Spec /\ Fairness
----------------------------------------------------------------------------
(* Properties.                                                             *)

CmdType == [op: {"leave", "seen", "written"}, intent: Intents \cup {None}, id: 0..MaxLeaves, n: Counts]
OutcomeType == [is: {"none", "open", "failed", "timed_out", "replied"}, n: Counts]
LeavingType ==
    [phase: {"none", "waiting", "staying", "shown", "held"}, intent: Intents \cup {None},
     code: {0, Relaunch}, pending: SUBSET Host, late: BOOLEAN, due: BOOLEAN,
     outcome: [Host -> OutcomeType], acks: SUBSET Host, warned: BOOLEAN]

\* The book, the tasks, the UI thread and the streams are well typed.
TypeOK ==
    /\ standing \in [Host -> Standings] /\ holder \in [Host -> {"none", "live", "closed"}]
    /\ leaving \in Intents \cup {None} /\ inflight \in Nat
    /\ late \in BOOLEAN /\ lateQ \subseteq Host /\ owed \in [Daemon -> Counts]
    /\ hs \in [Host -> {"none", "asking", "sent"}]
    /\ cmds \in [Host -> Seq(CmdType)] /\ ack \in [Host -> OutcomeType]
    /\ ui \in {"free", "delivering", "delivered", "ending"}
    /\ lv \in LeavingType /\ drawn \in [Daemon -> Counts] /\ waits \subseteq Host
    /\ exit \in {None, 0, Relaunch}
    /\ wire \in [Host -> Seq(CmdType)]
    /\ back \in [Host -> Seq([op: Standings \cup {"left"}, id: 0..MaxLeaves, n: Counts])]
    /\ cut \in [Host -> BOOLEAN] /\ eof \in [Host -> BOOLEAN]
    /\ srv \in [Host -> [pc: {"none", "asked", "held", "left"}, heard: Intents \cup {None}]]
    /\ count \in [Daemon -> Counts]
    /\ tries \in 0..MaxTries /\ leaves \in 0..MaxLeaves /\ cuts \in 0..MaxCuts
    /\ closed \in BOOLEAN /\ shown \in [Daemon -> SUBSET Counts] /\ told \in [Host -> Counts]
    /\ load \in Loads

\* Book::late, "open exactly while a leave waits on a handshake it counted":
\* closed by the lock that settles or drops the last one, and by a stay.
LateIsOpenWhileCounted ==
    /\ inflight = Cardinality({h \in Host : hs[h] # "none"})
    /\ late <=> (leaving # None /\ inflight > 0)

\* A Keep or a Handover never ends the window while a lease request is
\* unanswered: "exiting would drop a request the daemon may still grant, and
\* that grant would start a bounded handover" (must_stay).
KeepDropsNoRequest ==
    (exit # None /\ leaving \in {"keep", "handover"}) => \A h \in Host : hs[h] = "none"

\* The daemon knows, on a stream the window has not closed, of a lease.
Leased(h) == srv[h].pc # "none" /\ ~eof[h]

\* A leave that ends without a warning was heard: every daemon that leases
\* this window has read its last intent, the superseded Keep's and the late
\* grant's daemons too (install, leave_all, the holder's table of replies).
ConfirmedIsHeard ==
    [][ (ui = "free" /\ ui' = "ending" /\ ~lv'.warned)
          => \A h \in Host : Leased(h) => srv[h].heard = leaving' ]_vars

\* No restart code outlives a close (close_now): once a close was asked for,
\* the process ends with 0 on every path, also while it shuts down.
CloseExitsZero == (exit # None /\ closed) => exit = 0

\* A forced exit whose receipts all came has written every leave that was
\* queued when it began: the stream's end never overtakes a queued Close.  A
\* leave of a handshake that settles meanwhile (lateQ) has no receipt it awaits.
DeliveredIsWritten ==
    [][ (ui # "delivered" /\ ui' = "delivered")
          => \A h \in Host \ lateQ' : holder'[h] = "live" =>
                 \A i \in 1..Len(cmds'[h]) : cmds'[h][i].op # "leave" ]_vars

\* A daemon forgets a count only when a frame has drawn that count whole: an
\* older frame's ack never hides a newer count (owed, notice_seen).
NothingAckedUnshown ==
    [][ \A d \in Daemon : (count[d] > 0 /\ count'[d] = 0) => count[d] \in shown[d] ]_vars

AckOnItsWay(h, n) ==
    \/ \E i \in 1..Len(cmds[h]) : cmds[h][i].op = "seen" /\ cmds[h][i].n = n
    \/ \E i \in 1..Len(wire[h]) : wire[h][i].op = "seen" /\ wire[h][i].n = n

\* A count a grant carried is not lost: until the window leaves or the daemon
\* fails, and while the daemon keeps the count, a frame will draw it or its ack
\* is on its way ("a count drawn and acked
\* before its holder was installed would be acked to nobody and stay owed").
CountIsOwedOrAcked ==
    \A h \in Host :
        (cuts = 0 /\ leaves = 0 /\ Running /\ Held(h) /\ told[h] > 0 /\ count[Root[h]] = told[h])
            => owed[Root[h]] = told[h] \/ AckOnItsWay(h, told[h])

\* A leave ends: the window exits, or stays open.
LeaveEnds == (lv.phase # "none") ~> (lv.phase = "none" \/ exit # None)

\* The lease, "held for the window's life, so the daemon knows a window is
\* attached": with one local host, an open window that counts its lease as
\* held has it at the daemon.  (With two, a Keep that stays for one host's
\* unanswered request has already departed the other's: ADR 0050's limit.)
HeldForTheWindowsLife ==
    \A h \in Host : (Running /\ leaving = None /\ Held(h) /\ ~cut[h]) => srv[h].pc = "held"
============================================================================
