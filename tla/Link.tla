-------------------------------- MODULE Link --------------------------------
(***************************************************************************)
(* A window's one-login link (topology/src/link): two channel tables, one  *)
(* at the window and one at the far router, joined by two FIFO pipes.      *)
(*                                                                         *)
(* table[e] is the Rust struct Table behind end e's one lock, and an       *)
(* action is one critical section of it.  A channel's bytes are the        *)
(* positions of its stream: a chunk is the interval lo+1..hi, and the      *)
(* outbound queue holds sent+1..queued.  A waker is a flag: while it is    *)
(* set the task that registered it sleeps.                                 *)
(***************************************************************************)
EXTENDS Naturals, Sequences, FiniteSets

CONSTANTS
    WINDOW, CHUNK,   \* credit of a new channel; bytes of one link.data
    MAX_CHANNELS,    \* channels a router's table holds
    MaxCh,           \* bound: channels opened on the link
    MaxBytes,        \* bound: bytes written on one channel by one end
    Loads,           \* the loads the link may be under, each a LoadType
    None             \* a channel the table does not hold

Ends == {"window", "router"}
Peer(e) == IF e = "window" THEN "router" ELSE "window"
Ch == 0..MaxCh

\* Whose users read and close, whose write, which of the readers keep reading,
\* whether the transport may fail and the window drop its link, and the bounds
\* on channels, bytes and the frames a pipe holds before its writer waits.
LoadType ==
    [active : SUBSET (Ends \X Ch), talkers : SUBSET (Ends \X Ch), readers : SUBSET (Ends \X Ch),
     ends : BOOLEAN, chans : Ch, bytes : 0..MaxBytes, pipe : Nat \ {0}]

Reasons == {"no", "eof", "reset"}

\* A channel's record, with numbers of any size.
ChanRecord ==
    [phase: {"opening", "open", "refused"}, inbound: Seq(Nat \X Nat),
     allowance: Nat, unreturned: Nat, sent: Nat, queued: Nat, credit: Nat,
     peerClosed: Reasons, localClose: Reasons, closeSent: BOOLEAN,
     released: BOOLEAN, cancelled: BOOLEAN,
     readWaker: BOOLEAN, writeWaker: BOOLEAN, openWaker: BOOLEAN]

ASSUME SizesAssumption ==
    /\ WINDOW \in Nat /\ CHUNK \in Nat \ {0} /\ CHUNK <= WINDOW
    /\ MAX_CHANNELS \in Nat \ {0} /\ MaxCh \in Nat /\ MaxBytes \in Nat
    /\ Loads \subseteq LoadType
    /\ None \notin ChanRecord

VARIABLES
    table,    \* per end: Table
    user,     \* per end and channel: what the channel's user is doing
    pipe,     \* per end: the frames on their way to it, oldest first
    task,     \* per end: run(), the reader and the writer in one select
    broken,   \* per end: it found the peer breaking the link's rules
    accepted, \* history, per end and channel: bytes write() accepted
    got,      \* history, per end and channel: bytes read() returned
    load      \* the load of this behaviour, which never changes

vars == <<table, user, pipe, task, broken, accepted, got, load>>

----------------------------------------------------------------------------
ChanType ==
    {c \in ChanRecord :
        /\ c.allowance <= WINDOW /\ c.unreturned <= WINDOW /\ c.credit <= WINDOW
        /\ c.sent <= MaxBytes /\ c.queued <= MaxBytes}

FrameType ==
    [kind: {"open", "opened", "refused"}, ch: Ch]
        \cup [kind: {"credit"}, ch: Ch, bytes: 1..WINDOW]
        \cup [kind: {"data"}, ch: Ch, lo: 0..MaxBytes, hi: 0..MaxBytes]
        \cup [kind: {"close"}, ch: Ch, reason: Reasons \ {"no"}]

TableType ==
    [down: BOOLEAN, chans: [Ch -> ChanType \cup {None}], highest: Ch,
     ops: Seq(FrameType), turn: Ch]

UserType == {"none", "opening", "using", "flushed", "shut", "gone"}

\* Chan::new
NewChan(phase) ==
    LET credit == IF phase = "open" THEN WINDOW ELSE 0
    IN  [phase |-> phase, inbound |-> <<>>, allowance |-> credit, unreturned |-> 0,
         sent |-> 0, queued |-> 0, credit |-> credit,
         peerClosed |-> "no", localClose |-> "no", closeSent |-> FALSE,
         released |-> FALSE, cancelled |-> FALSE,
         readWaker |-> FALSE, writeWaker |-> FALSE, openWaker |-> FALSE]

\* Chan::grant
Granted(c) == [c EXCEPT !.phase = "open", !.credit = WINDOW, !.allowance = WINDOW]

\* Wakers::wake
Woken(c) == [c EXCEPT !.readWaker = FALSE, !.writeWaker = FALSE, !.openWaker = FALSE]

Closed(c) == c.peerClosed # "no" \/ c.localClose # "no"

Finished(c) == c.released /\ (c.closeSent \/ c.peerClosed # "no" \/ c.phase = "refused")

Outbound(c) == c.queued - c.sent
OutboundCleared(c) == [c EXCEPT !.queued = c.sent]

Has(t, ch) == t.chans[ch] # None
Present(t) == {ch \in Ch : Has(t, ch)}
Put(t, ch, c) == [t EXCEPT !.chans[ch] = c]
Queue(t, f) == [t EXCEPT !.ops = Append(@, f)]

\* Table::reap
Reaped(t, ch) == IF Has(t, ch) /\ Finished(t.chans[ch]) THEN Put(t, ch, None) ELSE t

\* Table::new: channel 0 is open from the hello.
NewTable ==
    [down |-> FALSE, chans |-> [ch \in Ch |-> IF ch = 0 THEN NewChan("open") ELSE None],
     highest |-> 0, ops |-> <<>>, turn |-> 0]

Init ==
    /\ table = [e \in Ends |-> NewTable]
    /\ user = [e \in Ends |-> [ch \in Ch |-> IF ch = 0 THEN "using" ELSE "none"]]
    /\ pipe = [e \in Ends |-> <<>>]
    /\ task = [e \in Ends |-> "running"]
    /\ broken = [e \in Ends |-> FALSE]
    /\ accepted = [e \in Ends |-> [ch \in Ch |-> 0]]
    /\ got = [e \in Ends |-> [ch \in Ch |-> 0]]
    /\ load \in Loads

----------------------------------------------------------------------------
(* The peer's frames.                                                      *)

\* Table::known, and the guard of each handler: the frame ends the link.
Violates(e, f) ==
    LET t == table[e]  c == t.chans[f.ch]
    IN  CASE f.kind = "data" ->
                \/ f.ch > t.highest
                \/ Has(t, f.ch) /\ ~Closed(c) /\ ~c.cancelled /\ f.hi - f.lo > c.allowance
          [] f.kind = "credit" ->
                \/ f.ch > t.highest
                \/ Has(t, f.ch) /\ ~Closed(c) /\ c.credit + f.bytes > WINDOW
          [] f.kind = "close" -> f.ch > t.highest
          [] f.kind = "open" -> e # "router" \/ f.ch # t.highest + 1
          [] f.kind \in {"opened", "refused"} ->
                e # "window" \/ ~Has(t, f.ch) \/ c.phase # "opening"

OnData(t, f) ==
    LET c == t.chans[f.ch]
    IN  IF ~Has(t, f.ch) \/ Closed(c) \/ c.cancelled THEN t
        ELSE Put(t, f.ch, [c EXCEPT !.allowance = @ - (f.hi - f.lo),
                                    !.inbound = Append(@, <<f.lo, f.hi>>),
                                    !.readWaker = FALSE])

OnCredit(t, f) ==
    LET c == t.chans[f.ch]
    IN  IF ~Has(t, f.ch) \/ Closed(c) THEN t
        ELSE Put(t, f.ch, [c EXCEPT !.credit = @ + f.bytes])

\* Mutant of OnClose: the channel's waiters are not woken.
OnCloseSilent(t, f) ==
    LET c == t.chans[f.ch]
    IN  IF ~Has(t, f.ch) THEN t
        ELSE IF c.peerClosed # "no" THEN Reaped(t, f.ch)
        ELSE Reaped(Put(t, f.ch, OutboundCleared(
                [c EXCEPT !.peerClosed = f.reason, !.closeSent = TRUE])), f.ch)

OnClose(t, f) ==
    LET c == t.chans[f.ch]
    IN  IF ~Has(t, f.ch) THEN t
        ELSE IF c.peerClosed # "no" THEN Reaped(t, f.ch)
        ELSE Reaped(Put(t, f.ch, Woken(OutboundCleared(
                [c EXCEPT !.peerClosed = f.reason, !.closeSent = TRUE]))), f.ch)

\* Mutant of OnOpenAnswer: an abandoned open's grant is not closed.
OnOpenAnswerKept(t, f) ==
    LET c == t.chans[f.ch]
        a == IF f.kind = "opened" THEN Granted(c) ELSE [c EXCEPT !.phase = "refused"]
    IN  Reaped(Put(t, f.ch, Woken(a)), f.ch)

\* An open its opener gave up on is closed as soon as it is granted.
OnOpenAnswer(t, f) ==
    LET c == t.chans[f.ch]
        a == IF f.kind = "refused" THEN [c EXCEPT !.phase = "refused"]
             ELSE [Granted(c) EXCEPT !.localClose = IF c.released THEN "reset" ELSE @]
    IN  Reaped(Put(t, f.ch, Woken(a)), f.ch)

OnOpenRequest(t, f) ==
    LET raised == [t EXCEPT !.highest = f.ch]
    IN  IF Cardinality(Present(t)) >= MAX_CHANNELS
        THEN Queue(raised, [kind |-> "refused", ch |-> f.ch])
        ELSE Put(raised, f.ch, NewChan("opening"))

OnFrame(t, f) ==
    CASE f.kind = "data"   -> OnData(t, f)
      [] f.kind = "credit" -> OnCredit(t, f)
      [] f.kind = "close"  -> OnClose(t, f)
      [] f.kind = "open"   -> OnOpenRequest(t, f)
      [] f.kind \in {"opened", "refused"} -> OnOpenAnswer(t, f)

\* read_loop: one frame.  A broken rule, and channel 0's close, stop the task.
Deliver(e) ==
    /\ task[e] = "running" /\ pipe[e] # <<>>
    /\ pipe' = [pipe EXCEPT ![e] = Tail(@)]
    /\ LET f == Head(pipe[e])
       IN  IF Violates(e, f)
           THEN /\ broken' = [broken EXCEPT ![e] = TRUE]
                /\ task' = [task EXCEPT ![e] = "stopped"]
                /\ UNCHANGED table
           ELSE /\ table' = [table EXCEPT ![e] = OnFrame(@, f)]
                /\ task' = [task EXCEPT ![e] =
                       IF f.kind = "close" /\ f.ch = 0 /\ Has(table[e], 0)
                       THEN "stopped" ELSE @]
                /\ UNCHANGED broken
    /\ UNCHANGED <<user, accepted, got, load>>

\* connect_channel: the router's connection to its daemon was made or not.
Connected(ch, ok) ==
    LET t == table["router"]  c == t.chans[ch]
    IN  /\ task["router"] = "running" /\ ~t.down
        /\ Has(t, ch) /\ c.phase = "opening"
        /\ table' = [table EXCEPT !["router"] =
               IF ok /\ ~Closed(c)
               THEN Queue(Put(t, ch, Granted(c)), [kind |-> "opened", ch |-> ch])
               ELSE IF ok THEN Put(t, ch, None)
               ELSE Queue(Put(t, ch, None), [kind |-> "refused", ch |-> ch])]
        /\ user' = [user EXCEPT !["router"][ch] = IF ok /\ ~Closed(c) THEN "using" ELSE @]
        /\ UNCHANGED <<pipe, task, broken, accepted, got, load>>

----------------------------------------------------------------------------
(* The writer.                                                             *)

CloseReady(c) ==
    /\ c.localClose # "no" /\ ~c.closeSent
    /\ Outbound(c) = 0 \/ c.localClose = "reset" \/ c.phase # "open"

DataReady(c) ==
    c.phase = "open" /\ ~c.closeSent /\ c.credit > 0 /\ Outbound(c) > 0

Min2(a, b) == IF a <= b THEN a ELSE b

\* The channels with something to say, and the first of them after `turn`.
Ready(t) == {ch \in Present(t) : CloseReady(t.chans[ch]) \/ DataReady(t.chans[ch])}
Distance(t, ch) == IF ch > t.turn THEN ch ELSE ch + MaxCh + 1
NextTurn(t) == CHOOSE ch \in Ready(t) : \A o \in Ready(t) : Distance(t, ch) <= Distance(t, o)

\* Table::next_out, for a channel's turn: what it sends, and the table after.
ChannelFrame(t, ch) ==
    LET c == t.chans[ch]
    IN  IF CloseReady(c) THEN [kind |-> "close", ch |-> ch, reason |-> c.localClose]
        ELSE [kind |-> "data", ch |-> ch, lo |-> c.sent,
              hi |-> c.sent + Min2(Outbound(c), Min2(c.credit, CHUNK))]

ChannelSent(t, ch) ==
    LET c == t.chans[ch]
        n == Min2(Outbound(c), Min2(c.credit, CHUNK))
        u == [t EXCEPT !.turn = ch]
    IN  IF CloseReady(c)
        THEN Reaped(Put(u, ch, Woken(OutboundCleared([c EXCEPT !.closeSent = TRUE]))), ch)
        ELSE Put(u, ch, [c EXCEPT !.sent = @ + n, !.credit = @ - n, !.writeWaker = FALSE])

\* Mutant of OpsFirst: a channel with something to say goes ahead of the ops.
OpsLast(t) == t.ops # <<>> /\ Ready(t) = {}

OpsFirst(t) == t.ops # <<>>

\* write_loop: the link ops first, then the channels in turn.  The close of
\* channel 0 stops the task.
NextOut(e) ==
    LET t == table[e]
    IN  /\ task[e] = "running" /\ ~t.down
        /\ Len(pipe[Peer(e)]) < load.pipe
        /\ \/ /\ OpsFirst(t)
              /\ pipe' = [pipe EXCEPT ![Peer(e)] = Append(@, Head(t.ops))]
              /\ table' = [table EXCEPT ![e].ops = Tail(@)]
              /\ UNCHANGED task
           \/ /\ ~OpsFirst(t) /\ Ready(t) # {}
              /\ LET ch == NextTurn(t)
                     f  == ChannelFrame(t, ch)
                 IN  /\ pipe' = [pipe EXCEPT ![Peer(e)] = Append(@, f)]
                     /\ table' = [table EXCEPT ![e] = ChannelSent(t, ch)]
                     /\ task' = [task EXCEPT ![e] =
                            IF f.kind = "close" /\ ch = 0 THEN "stopped" ELSE @]
        /\ UNCHANGED <<user, broken, accepted, got, load>>

----------------------------------------------------------------------------
(* A channel's user.                                                       *)

Holds(e, ch) ==
    <<e, ch>> \in load.active /\ user[e][ch] \in {"using", "flushed", "shut"}

UserStep(e, ch, c) ==
    /\ table' = [table EXCEPT ![e] = Put(@, ch, c)]
    /\ UNCHANGED <<pipe, task, broken>>

\* Mutant of CreditDue: nothing is handed back before the window is passed.
CreditDueLate(t, c) == c.unreturned > WINDOW /\ ~Closed(c) /\ ~t.down

\* Table::read when bytes wait: n of the oldest chunk, and their credit once
\* CREDIT_STEP (one chunk) of them has gathered.
CreditDue(t, c) == c.unreturned >= CHUNK /\ ~Closed(c) /\ ~t.down

\* Mutant of ReadFrom: a chunk read in part is dropped whole.
ReadFromWhole(c, n) ==
    [c EXCEPT !.unreturned = @ + n, !.inbound = Tail(@)]

ReadFrom(c, n) ==
    LET front == Head(c.inbound)
    IN  [c EXCEPT !.unreturned = @ + n,
                  !.inbound = IF front[1] + n = front[2] THEN Tail(@)
                              ELSE <<<<front[1] + n, front[2]>>>> \o Tail(@)]

\* Mutant of CreditReturned: what was handed back is counted again.
CreditReturnedTwice(t, ch) ==
    LET c == t.chans[ch]
    IN  Queue(Put(t, ch, [c EXCEPT !.allowance = @ + c.unreturned]),
              [kind |-> "credit", ch |-> ch, bytes |-> c.unreturned])

CreditReturned(t, ch) ==
    LET c == t.chans[ch]
    IN  Queue(Put(t, ch, [c EXCEPT !.allowance = @ + c.unreturned, !.unreturned = 0]),
              [kind |-> "credit", ch |-> ch, bytes |-> c.unreturned])

Read(e, ch, n) ==
    LET c == table[e].chans[ch]
        t == Put(table[e], ch, ReadFrom(c, n))
    IN  /\ Holds(e, ch) /\ ~c.cancelled
        /\ c.inbound # <<>> /\ n <= Head(c.inbound)[2] - Head(c.inbound)[1]
        /\ table' = [table EXCEPT ![e] =
               IF CreditDue(t, t.chans[ch]) THEN CreditReturned(t, ch) ELSE t]
        /\ got' = [got EXCEPT ![e][ch] = @ + n]
        /\ UNCHANGED <<user, pipe, task, broken, accepted, load>>

\* Table::read found nothing, no end and no failure: its task sleeps.
ReadWaits(e, ch) ==
    LET c == table[e].chans[ch]
    IN  /\ Holds(e, ch) /\ ~c.cancelled /\ ~c.readWaker
        /\ c.inbound = <<>> /\ ~Closed(c) /\ ~table[e].down
        /\ UserStep(e, ch, [c EXCEPT !.readWaker = TRUE])
        /\ UNCHANGED <<user, accepted, got, load>>

\* Table::write: OUTBOUND_CAP is one chunk.
CanWrite(e, ch) ==
    LET c == table[e].chans[ch]
    IN  /\ <<e, ch>> \in load.talkers /\ user[e][ch] = "using"
        /\ ~c.cancelled /\ ~table[e].down /\ ~Closed(c)
        /\ accepted[e][ch] < load.bytes /\ ~c.writeWaker

Write(e, ch, n) ==
    LET c == table[e].chans[ch]
    IN  /\ CanWrite(e, ch)
        /\ Outbound(c) + n <= CHUNK /\ accepted[e][ch] + n <= load.bytes
        /\ UserStep(e, ch, [c EXCEPT !.queued = @ + n])
        /\ accepted' = [accepted EXCEPT ![e][ch] = @ + n]
        /\ UNCHANGED <<user, got, load>>

WriteWaits(e, ch) ==
    LET c == table[e].chans[ch]
    IN  /\ CanWrite(e, ch) /\ Outbound(c) = CHUNK
        /\ UserStep(e, ch, [c EXCEPT !.writeWaker = TRUE])
        /\ UNCHANGED <<user, accepted, got, load>>

\* poll_shutdown: the flush and the close are two critical sections, and the
\* channel's reader or a cancel may come between them.
Flushed(e, ch) ==
    LET c == table[e].chans[ch]
    IN  Outbound(c) = 0 \/ table[e].down \/ c.cancelled \/ c.peerClosed # "no" \/ c.closeSent

Flush(e, ch) ==
    /\ Holds(e, ch) /\ user[e][ch] = "using"
    /\ LET c == table[e].chans[ch]
       IN  /\ ~c.writeWaker
           /\ \/ /\ Flushed(e, ch)
                 /\ user' = [user EXCEPT ![e][ch] = "flushed"]
                 /\ UNCHANGED table
              \/ /\ ~Flushed(e, ch)
                 /\ table' = [table EXCEPT ![e].chans[ch].writeWaker = TRUE]
                 /\ UNCHANGED user
    /\ UNCHANGED <<pipe, task, broken, accepted, got, load>>

Shutdown(e, ch) ==
    LET c == table[e].chans[ch]
    IN  /\ Holds(e, ch) /\ user[e][ch] = "flushed"
        /\ UserStep(e, ch, [c EXCEPT !.localClose = IF Closed(c) THEN @ ELSE "eof"])
        /\ user' = [user EXCEPT ![e][ch] = "shut"]
        /\ UNCHANGED <<accepted, got, load>>

\* Mutant of Cancel: the peer is told eof although bytes were dropped.
CancelAsEof(ch) ==
    LET c == table["window"].chans[ch]
        d == [c EXCEPT !.cancelled = TRUE,
                       !.localClose = IF ~Closed(c) /\ c.phase = "open" THEN "eof" ELSE @]
    IN  /\ Holds("window", ch) /\ ~c.cancelled
        /\ UserStep("window", ch, Woken(OutboundCleared(d)))
        /\ UNCHANGED <<user, accepted, got, load>>

\* Client::cancel, of the attach worker's blocking face.
Cancel(ch) ==
    LET c == table["window"].chans[ch]
        d == [c EXCEPT !.cancelled = TRUE,
                       !.localClose = IF ~Closed(c) /\ c.phase = "open" THEN "reset" ELSE @]
    IN  /\ Holds("window", ch) /\ ~c.cancelled
        /\ UserStep("window", ch, Woken(OutboundCleared(d)))
        /\ UNCHANGED <<user, accepted, got, load>>

\* Table::release: the last handle is gone.
ReleasedChan(c) ==
    [c EXCEPT !.released = TRUE,
              !.localClose = IF Closed(c) \/ c.phase # "open" THEN @
                             ELSE IF Outbound(c) = 0 THEN "eof" ELSE "reset"]

ReleasedIn(t, ch) == Reaped(Put(t, ch, ReleasedChan(t.chans[ch])), ch)

Release(e, ch) ==
    /\ Holds(e, ch)
    /\ table' = [table EXCEPT ![e] = ReleasedIn(@, ch)]
    /\ user' = [user EXCEPT ![e][ch] = "gone"]
    /\ UNCHANGED <<pipe, task, broken, accepted, got, load>>

\* LinkHandle::begin
BeginOpen ==
    LET t == table["window"]  ch == t.highest + 1
    IN  /\ ~t.down /\ ch <= load.chans
        /\ table' = [table EXCEPT !["window"] =
               Queue(Put([t EXCEPT !.highest = ch], ch, NewChan("opening")),
                     [kind |-> "open", ch |-> ch])]
        /\ user' = [user EXCEPT !["window"][ch] = "opening"]
        /\ UNCHANGED <<pipe, task, broken, accepted, got, load>>

\* Table::poll_open and Opening::finish
PollOpen(ch) ==
    LET t == table["window"]  c == t.chans[ch]
        becomes(u) == user' = [user EXCEPT !["window"][ch] = u]
    IN  /\ user["window"][ch] = "opening" /\ ~c.openWaker
        /\ \/ c.phase = "open" /\ becomes("using") /\ UNCHANGED table
           \/ /\ c.phase = "refused" /\ becomes("gone")
              /\ table' = [table EXCEPT !["window"] =
                     Reaped(Put(t, ch, [c EXCEPT !.released = TRUE]), ch)]
           \/ c.phase = "opening" /\ t.down /\ becomes("gone") /\ UNCHANGED table
           \/ /\ c.phase = "opening" /\ ~t.down
              /\ table' = [table EXCEPT !["window"].chans[ch].openWaker = TRUE]
              /\ UNCHANGED user
        /\ UNCHANGED <<pipe, task, broken, accepted, got, load>>

\* The opener is dropped before its answer (its bound passed, its task ended).
Abandon(ch) ==
    LET c == table["window"].chans[ch]
    IN  /\ user["window"][ch] = "opening"
        /\ table' = [table EXCEPT !["window"] =
               IF c.phase = "opening" THEN Put(@, ch, [c EXCEPT !.released = TRUE])
               ELSE ReleasedIn(@, ch)]
        /\ user' = [user EXCEPT !["window"][ch] = "gone"]
        /\ UNCHANGED <<pipe, task, broken, accepted, got, load>>

----------------------------------------------------------------------------
(* The link's end.                                                         *)

\* Table::end: the first end wins and every waiter wakes.
Ended(t) ==
    [t EXCEPT !.down = TRUE,
              !.chans = [ch \in Ch |-> IF Has(t, ch) THEN Woken(t.chans[ch]) ELSE None]]

\* run(): its select returned an end.
EndLink(e) ==
    /\ task[e] = "stopped" /\ ~table[e].down
    /\ table' = [table EXCEPT ![e] = Ended(@)]
    /\ UNCHANGED <<user, pipe, task, broken, accepted, got, load>>

\* Link::drop: the end first, then the abort of the task.
DropLink ==
    /\ load.ends /\ ~table["window"].down
    /\ table' = [table EXCEPT !["window"] = Ended(@)]
    /\ UNCHANGED <<user, pipe, task, broken, accepted, got, load>>

\* wait_ended, or the abort.
StopTask(e) ==
    /\ task[e] = "running" /\ table[e].down
    /\ task' = [task EXCEPT ![e] = "stopped"]
    /\ UNCHANGED <<table, user, pipe, broken, accepted, got, load>>

\* Mutant of PeerGone: the end of input is ignored while a channel is open.
PeerGoneIfIdle(e) ==
    /\ task[e] = "running" /\ task[Peer(e)] = "stopped" /\ pipe[e] = <<>>
    /\ Present(table[e]) \subseteq {0}
    /\ task' = [task EXCEPT ![e] = "stopped"]
    /\ UNCHANGED <<table, user, pipe, broken, accepted, got, load>>

\* The end of input, once every frame before it is read.
PeerGone(e) ==
    /\ task[e] = "running" /\ task[Peer(e)] = "stopped" /\ pipe[e] = <<>>
    /\ task' = [task EXCEPT ![e] = "stopped"]
    /\ UNCHANGED <<table, user, pipe, broken, accepted, got, load>>

\* A read or write error, or SILENCE_BOUND with no byte.
LinkFails(e) ==
    /\ load.ends /\ task[e] = "running"
    /\ task' = [task EXCEPT ![e] = "stopped"]
    /\ UNCHANGED <<table, user, pipe, broken, accepted, got, load>>

----------------------------------------------------------------------------
Reads(e, ch) == (\E n \in 1..CHUNK : Read(e, ch, n)) \/ ReadWaits(e, ch)

Next ==
    \/ \E e \in Ends : Deliver(e) \/ NextOut(e)
    \/ \E ch \in Ch, ok \in BOOLEAN : Connected(ch, ok)
    \/ \E e \in Ends, ch \in Ch :
          \/ \E n \in 1..CHUNK : Read(e, ch, n)
          \/ ReadWaits(e, ch)
          \/ \E n \in 1..CHUNK : Write(e, ch, n)
          \/ WriteWaits(e, ch)
          \/ Flush(e, ch) \/ Shutdown(e, ch) \/ Release(e, ch)
    \/ \E ch \in Ch : Cancel(ch) \/ PollOpen(ch) \/ Abandon(ch)
    \/ BeginOpen \/ DropLink
    \/ \E e \in Ends : EndLink(e) \/ StopTask(e) \/ PeerGone(e) \/ LinkFails(e)

Spec == Init /\ [][Next]_vars

\* The tasks of both ends run, a connect finishes, an opener polls, and the
\* users in load.readers keep reading.  Nobody else owes a step: a user may stop
\* reading or hold its channel for ever.
Fairness ==
    /\ \A e \in Ends : /\ WF_vars(Deliver(e)) /\ WF_vars(NextOut(e))
                       /\ WF_vars(EndLink(e) \/ StopTask(e) \/ PeerGone(e))
    /\ \A ch \in Ch \ {0} : WF_vars(\E ok \in BOOLEAN : Connected(ch, ok)) /\ WF_vars(PollOpen(ch))
    /\ \A r \in UNION {l.readers : l \in Loads} : WF_vars(r \in load.readers /\ Reads(r[1], r[2]))

FairSpec == Spec /\ Fairness

----------------------------------------------------------------------------
(* Properties.                                                             *)

\* The tables, the pipes and the users are well typed; credit and allowance
\* stay inside the window (u32 arithmetic never wraps).
TypeOK ==
    /\ table \in [Ends -> TableType]
    /\ user \in [Ends -> [Ch -> UserType]]
    /\ pipe \in [Ends -> Seq(FrameType)]
    /\ task \in [Ends -> {"running", "stopped"}]
    /\ broken \in [Ends -> BOOLEAN]
    /\ accepted \in [Ends -> [Ch -> 0..MaxBytes]]
    /\ got \in [Ends -> [Ch -> 0..MaxBytes]]
    /\ load \in Loads

\* Two ends that run this code never break the link's rules, whatever opens,
\* closes, cancels and abandons cross on the wire: no data beyond credit, no
\* credit beyond the window, no frame for a channel never opened, no open out
\* of order, no answer nobody asked for (the Err of every Table::on_*).
NoViolation == \A e \in Ends : ~broken[e]

Buffered(c) ==
    IF c.inbound = <<>> THEN 0 ELSE c.inbound[Len(c.inbound)][2] - c.inbound[1][1]

\* Bytes arrive in the order written, none skipped or repeated, and the
\* reader's queue starts where it stopped (on_data, read).
InOrder ==
    \A e \in Ends : \A ch \in Present(table[e]) :
        LET in == table[e].chans[ch].inbound
        IN  /\ in # <<>> => in[1][1] = got[e][ch]
            /\ \A i \in 1..Len(in) - 1 : in[i][2] = in[i + 1][1]

BothOpen(ch) ==
    \A e \in Ends : /\ Has(table[e], ch) /\ ~Closed(table[e].chans[ch])
                    /\ table[e].chans[ch].phase = "open"

\* Credit is conserved: a sender never may send past what its receiver has
\* room for, and a receiver's queue, what it read and not yet returned, and
\* what it still allows make up one window.
CreditConserved ==
    \A e \in Ends, ch \in Ch : BothOpen(ch) =>
        LET s == table[e].chans[ch]  r == table[Peer(e)].chans[ch]
        IN  /\ s.sent + s.credit <= got[Peer(e)][ch] + Buffered(r) + r.allowance
            /\ Buffered(r) + r.unreturned + r.allowance = WINDOW

\* "eof: its sender is done, after every byte it sent": a receiver that finds
\* the peer's eof and has not closed by itself has every byte accepted there.
EofMeansAll ==
    \A e \in Ends : \A ch \in Present(table[e]) :
        LET c == table[e].chans[ch]
        IN  c.peerClosed = "eof" /\ c.localClose = "no"
              => got[e][ch] + Buffered(c) = accepted[Peer(e)][ch]

\* A stream is whole: what has been read is a prefix of what was written, and an eof
\* ends it only after all of it, whichever cancels and closes cross on the wire.
StreamIsWhole == InOrder /\ EofMeansAll

\* No lost wakeup: a task asleep on a channel would still find nothing to do if it
\* looked (the wakes of on_data, on_close, next_out, cancel and end), but for a reader
\* whose own end was shut down beside it: its Eof waits until that close is sent.
NoLostWakeup ==
    \A e \in Ends : \A ch \in Present(table[e]) :
        LET c == table[e].chans[ch]  down == table[e].down
        IN  /\ c.readWaker => /\ c.inbound = <<>> /\ c.peerClosed = "no"
                              /\ ~c.cancelled /\ ~c.closeSent /\ ~down
            /\ c.writeWaker => Outbound(c) > 0 /\ ~c.cancelled /\ ~down
            /\ c.openWaker => c.phase = "opening" /\ ~down

LinkOver == \E e \in Ends : task[e] = "stopped" \/ table[e].down

\* The receiver closed, cancelled or gave up the channel, or the sender's
\* reset came.
Dropped(e, ch) ==
    LET c == table[e].chans[ch]
    IN  \/ user[e][ch] = "gone"
        \/ Has(table[e], ch) /\ (c.cancelled \/ c.localClose # "no" \/ c.peerClosed = "reset")

\* "a stalled channel never delays another channel": a reader that keeps reading
\* catches up with all its writer wrote, again and again and also after the
\* writer's eof, although every other channel's reader may stop.
WrittenIsRead ==
    []<>(\A w \in load.talkers :
           LET r == Peer(w[1])
           IN  <<r, w[2]>> \in load.readers
                 => got[r][w[2]] = accepted[w[1]][w[2]] \/ Dropped(r, w[2]) \/ LinkOver)

\* No channel leaks: of every channel whose user, or whose abandoned opener, is
\* gone the table is free sooner or later (reap).
ReleasedIsReaped ==
    []<>(LinkOver \/ \A e \in Ends, ch \in Ch : user[e][ch] = "gone" => ~Has(table[e], ch))

\* An end of one side ends the other: no link stays half up.
EndsTogether == (\E e \in Ends : table[e].down) ~> (\A e \in Ends : table[e].down)
============================================================================
