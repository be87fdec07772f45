---------------------------- MODULE Link_proofs ----------------------------
(* Theorems about Link, for every window, chunk, number of channels and     *)
(* load.                                                                    *)
EXTENDS Link, TLAPS, WellFoundedInduction

(***************************************************************************)
(* Shapes: TypeOK without its bounds, which rest on what both ends do.     *)
(***************************************************************************)

\* What the ops hold: no channel's bytes and no close.
Op == [kind: {"open", "opened", "refused"}, ch: Ch] \cup [kind: {"credit"}, ch: Ch, bytes: Nat]

Message == Op
             \cup [kind: {"data"}, ch: Ch, lo: Nat, hi: Nat]
             \cup [kind: {"close"}, ch: Ch, reason: Reasons \ {"no"}]

Shape == [down: BOOLEAN, chans: [Ch -> ChanRecord \cup {None}], highest: Ch,
          ops: Seq(Op), turn: Ch]

Shaped ==
    /\ table \in [Ends -> Shape] /\ user \in [Ends -> [Ch -> UserType]]
    /\ pipe \in [Ends -> Seq(Message)] /\ task \in [Ends -> {"running", "stopped"}]
    /\ broken \in [Ends -> BOOLEAN]
    /\ accepted \in [Ends -> [Ch -> Nat]] /\ got \in [Ends -> [Ch -> Nat]]
    /\ load \in Loads

\* What a channel's user may rely on.
Served(e, c, u) ==
    /\ u \in {"using", "flushed", "shut"} => ~c.released /\ c.phase = "open"
    /\ u = "opening" => ~c.released /\ e = "window"
    /\ e = "window" /\ c.phase # "open" => u \in {"opening", "gone"}
    /\ e = "router" /\ c.phase # "open" => u = "none" /\ ~c.released

\* The ways to close.
Closing(c) ==
    /\ c.closeSent \/ c.cancelled => Closed(c)
    /\ c.localClose # "no" => c.phase = "open"

\* A task that sleeps would find nothing to do.
Asleep(e, c, down) ==
    /\ c.readWaker => /\ c.inbound = <<>> /\ c.peerClosed = "no"
                      /\ ~c.cancelled /\ ~c.closeSent /\ ~down
    /\ c.writeWaker => Outbound(c) > 0 /\ ~c.cancelled /\ ~down
    /\ c.openWaker => e = "window" /\ c.phase = "opening" /\ ~down

\* What was accepted and not cleared is queued; an eof comes after all of it.
Written(c, u, down, n) ==
    /\ c.sent <= c.queued /\ c.queued <= n
    /\ ~Closed(c) => c.queued = n
    /\ c.localClose = "eof" => down \/ c.sent = n
    /\ u = "flushed" => down \/ Closed(c) \/ c.sent = c.queued
    /\ c.phase # "open" => n = 0

Slot(e, c, u, down, n) ==
    IF c = None THEN u \in {"none", "gone"}
    ELSE /\ c \in ChanRecord
         /\ Served(e, c, u) /\ Closing(c) /\ Asleep(e, c, down) /\ Written(c, u, down, n)

Slots == \A e \in Ends, ch \in Ch :
    Slot(e, table[e].chans[ch], user[e][ch], table[e].down, accepted[e][ch])

\* A channel not opened yet.
Fresh == \A e \in Ends, ch \in Ch : ch > table[e].highest =>
    table[e].chans[ch] = None /\ user[e][ch] = "none" /\ accepted[e][ch] = 0 /\ got[e][ch] = 0

LinkInv == Shaped /\ Slots /\ Fresh

(***************************************************************************)
(* Frames, tables and one channel of them.                                 *)
(***************************************************************************)

\* A frame's fields, by its kind.
LEMMA MessageFields ==
    ASSUME NEW f \in Message
    PROVE  /\ f.kind \in {"open", "opened", "refused", "credit", "data", "close"} /\ f.ch \in Ch
           /\ f.kind = "credit" => f.bytes \in Nat
           /\ f.kind = "data" => f.lo \in Nat /\ f.hi \in Nat
           /\ f.kind = "close" => f.reason \in {"eof", "reset"}
BY DEF Message, Op, Reasons

\* Frames are made of fields of their kind.
LEMMA MessagesMade ==
    ASSUME NEW ch \in Ch
    PROVE  /\ \A k \in {"open", "opened", "refused"} : [kind |-> k, ch |-> ch] \in Op
           /\ \A n \in Nat : [kind |-> "credit", ch |-> ch, bytes |-> n] \in Op
           /\ \A f \in Op : f \in Message /\ f.kind \notin {"data", "close"}
           /\ \A lo, hi \in Nat : [kind |-> "data", ch |-> ch, lo |-> lo, hi |-> hi] \in Message
           /\ \A r \in Reasons \ {"no"} : [kind |-> "close", ch |-> ch, reason |-> r] \in Message
BY DEF Message, Op

\* A table that differs from another in one channel and the frames it owes.
Touches(t, s, ch) ==
    /\ s \in Shape /\ s.down = t.down /\ s.highest = t.highest
    /\ \A k \in Ch : k # ch => s.chans[k] = t.chans[k]

LEMMA PutTouches ==
    ASSUME NEW t \in Shape, NEW ch \in Ch, NEW c \in ChanRecord \cup {None}
    PROVE  Touches(t, Put(t, ch, c), ch) /\ Put(t, ch, c).chans[ch] = c /\ Put(t, ch, c).ops = t.ops
BY DEF Put, Shape, Touches

LEMMA QueueTouches ==
    ASSUME NEW t \in Shape, NEW f \in Op, NEW ch \in Ch
    PROVE  /\ Touches(t, Queue(t, f), ch) /\ Queue(t, f).chans = t.chans
           /\ Queue(t, f).ops = Append(t.ops, f)
<1>1. Append(t.ops, f) \in Seq(Op)
  BY DEF Shape
<1> QED BY <1>1 DEF Queue, Shape, Touches

LEMMA TouchesTwice ==
    ASSUME NEW t, NEW s, NEW r, NEW ch, Touches(t, s, ch), Touches(s, r, ch)
    PROVE  Touches(t, r, ch)
BY DEF Touches

LEMMA Reaps ==
    ASSUME NEW t \in Shape, NEW ch \in Ch, NEW e \in Ends, NEW u \in UserType, NEW n,
           Slot(e, t.chans[ch], u, t.down, n)
    PROVE  /\ Touches(t, Reaped(t, ch), ch) /\ Reaped(t, ch).ops = t.ops
           /\ Slot(e, Reaped(t, ch).chans[ch], u, t.down, n)
<1>1. CASE Has(t, ch) /\ Finished(t.chans[ch])
  <2>1. Reaped(t, ch) = Put(t, ch, None)
    BY <1>1 DEF Reaped
  <2>2. u \in {"none", "gone"}
    BY <1>1 DEF Has, Finished, Slot, Served, UserType
  <2> QED BY <2>1, <2>2, PutTouches DEF Slot
<1>2. CASE ~(Has(t, ch) /\ Finished(t.chans[ch]))
  BY <1>2 DEF Reaped, Touches
<1> QED BY <1>1, <1>2

\* The users and the histories, where one channel of one end changes.
Only(f, g, e, ch) == \A d \in Ends, k \in Ch : d # e \/ k # ch => g[d][k] = f[d][k]

LEMMA OnlyOne ==
    ASSUME NEW T, NEW f \in [Ends -> [Ch -> T]], NEW e \in Ends, NEW ch \in Ch, NEW x \in T
    PROVE  /\ Only(f, f, e, ch)
           /\ [f EXCEPT ![e][ch] = x] \in [Ends -> [Ch -> T]]
           /\ Only(f, [f EXCEPT ![e][ch] = x], e, ch) /\ [f EXCEPT ![e][ch] = x][e][ch] = x
BY DEF Only

\* A step of one channel of one end.
LEMMA OneSlot ==
    ASSUME LinkInv, NEW e \in Ends, NEW ch \in Ch, NEW t,
           table' = [table EXCEPT ![e] = t], Touches(table[e], t, ch), ch <= table[e].highest,
           Shaped', Only(user, user', e, ch), Only(accepted, accepted', e, ch), Only(got, got', e, ch),
           Slot(e, t.chans[ch], user'[e][ch], t.down, accepted'[e][ch])
    PROVE  LinkInv'
<1>1. table'[e] = t /\ \A d \in Ends : d # e => table'[d] = table[d]
  BY DEF LinkInv, Shaped
<1>2. Slots'
  <2> SUFFICES ASSUME NEW d \in Ends, NEW k \in Ch
               PROVE  Slot(d, table'[d].chans[k], user'[d][k], table'[d].down, accepted'[d][k])
    BY DEF Slots
  <2>1. CASE d = e /\ k = ch
    BY <1>1, <2>1
  <2>2. CASE d = e /\ k # ch
    BY <1>1, <2>2 DEF LinkInv, Slots, Touches, Only
  <2>3. CASE d # e
    BY <1>1, <2>3 DEF LinkInv, Slots, Only
  <2> QED BY <2>1, <2>2, <2>3
<1>3. Fresh'
  <2> SUFFICES ASSUME NEW d \in Ends, NEW k \in Ch, k > table'[d].highest
               PROVE  table'[d].chans[k] = None /\ user'[d][k] = "none" /\ accepted'[d][k] = 0 /\ got'[d][k] = 0
    BY DEF Fresh
  <2>1. CASE d = e
    <3>0. table[e].highest \in Nat /\ t.highest = table[e].highest /\ ch \in Nat
      BY SizesAssumption DEF Touches, Ch, LinkInv, Shaped, Shape
    <3>1. k > table[e].highest /\ k # ch
      BY <1>1, <2>1, <3>0
    <3> QED BY <1>1, <2>1, <3>1 DEF LinkInv, Fresh, Touches, Only
  <2>2. CASE d # e
    BY <1>1, <2>2 DEF LinkInv, Fresh, Only
  <2> QED BY <2>1, <2>2
<1> QED BY <1>2, <1>3 DEF LinkInv

\* A channel the table holds was opened.
LEMMA HeldIsOpened ==
    ASSUME LinkInv, NEW e \in Ends, NEW ch \in Ch, Has(table[e], ch) \/ user[e][ch] # "none"
    PROVE  ch <= table[e].highest /\ table[e] \in Shape /\ user[e][ch] \in UserType
           /\ accepted[e][ch] \in Nat /\ got[e][ch] \in Nat
           /\ (Has(table[e], ch) => table[e].chans[ch] \in ChanRecord)
<1>1. table[e] \in Shape /\ user[e][ch] \in UserType /\ accepted[e][ch] \in Nat /\ got[e][ch] \in Nat
  BY DEF LinkInv, Shaped
<1>2. ~(ch > table[e].highest)
  BY DEF LinkInv, Fresh, Has
<1>3. ch <= table[e].highest
  BY <1>1, <1>2, SizesAssumption DEF Shape, Ch
<1> QED BY <1>1, <1>3 DEF Has, Shape

\* The record of a channel is not None; the sizes are numbers.
LEMMA SumsOfNumbers == \A a, b \in Nat : a + b \in Nat
OBVIOUS

LEMMA ChansAreNumbers ==
    /\ \A ch \in Ch : ch \in Nat
    /\ \A t \in Shape : t.highest \in Ch /\ t.highest \in Nat
BY SizesAssumption DEF Ch, Shape

LEMMA ChansAreNotNone == \A r \in ChanRecord : r # None
BY SizesAssumption

LEMMA SizesAreNumbers == WINDOW \in Nat /\ CHUNK \in Nat /\ CHUNK > 0
BY SizesAssumption

(***************************************************************************)
(* What each step makes of a channel.                                      *)
(***************************************************************************)

LEMMA WokenSlot ==
    ASSUME NEW e \in Ends, NEW c \in ChanRecord, NEW u \in UserType, NEW down \in BOOLEAN, NEW n \in Nat,
           Served(e, c, u), Closing(c), Written(c, u, down, n)
    PROVE  /\ Slot(e, Woken(c), u, down, n) /\ Woken(c) \in ChanRecord
           /\ Slot(e, Woken(c), u, TRUE, n)
<1>0. Woken(c) \in ChanRecord
  BY DEF Woken, ChanRecord
<1>1. /\ Woken(c).readWaker = FALSE /\ Woken(c).writeWaker = FALSE /\ Woken(c).openWaker = FALSE
  BY DEF Woken, ChanRecord
<1>2. Served(e, Woken(c), u) /\ Closing(Woken(c)) /\ Written(Woken(c), u, down, n) /\ Written(Woken(c), u, TRUE, n)
  BY <1>1 DEF Woken, Served, Closing, Closed, Written, ChanRecord
<1> QED BY <1>0, <1>1, <1>2, ChansAreNotNone DEF Slot, Asleep

\* The steps of a frame's receiver.
LEMMA DataSlot ==
    ASSUME NEW e \in Ends, NEW c \in ChanRecord, NEW u \in UserType, NEW down \in BOOLEAN, NEW n \in Nat,
           NEW a \in Nat, NEW in \in Seq(Nat \X Nat), Slot(e, c, u, down, n), c # None
    PROVE  LET d == [c EXCEPT !.allowance = a, !.inbound = in, !.readWaker = FALSE]
           IN  d \in ChanRecord /\ Slot(e, d, u, down, n)
<1> DEFINE d == [c EXCEPT !.allowance = a, !.inbound = in, !.readWaker = FALSE]
<1>1. d \in ChanRecord
  BY DEF ChanRecord
<1>2. Served(e, d, u) /\ Closing(d) /\ Asleep(e, d, down) /\ Written(d, u, down, n)
  BY DEF Slot, Served, Closing, Closed, Asleep, Outbound, Written, ChanRecord
<1> QED BY <1>1, <1>2, ChansAreNotNone DEF Slot

LEMMA CreditSlot ==
    ASSUME NEW e \in Ends, NEW c \in ChanRecord, NEW u \in UserType, NEW down \in BOOLEAN, NEW n \in Nat,
           NEW b \in Nat, Slot(e, c, u, down, n), c # None
    PROVE  LET d == [c EXCEPT !.credit = @ + b] IN d \in ChanRecord /\ Slot(e, d, u, down, n)
<1> DEFINE d == [c EXCEPT !.credit = @ + b]
<1>1. c.credit + b \in Nat
  BY DEF ChanRecord
<1>2. d \in ChanRecord
  BY <1>1 DEF ChanRecord
<1>3. Served(e, d, u) /\ Closing(d) /\ Asleep(e, d, down) /\ Written(d, u, down, n)
  BY DEF Slot, Served, Closing, Closed, Asleep, Outbound, Written, ChanRecord
<1> QED BY <1>2, <1>3, ChansAreNotNone DEF Slot

\* The end of a channel's sending, by the peer's close or by its own.
LEMMA CloseSlot ==
    ASSUME NEW e \in Ends, NEW c \in ChanRecord, NEW u \in UserType, NEW down \in BOOLEAN, NEW n \in Nat,
           NEW r \in Reasons, r # "no" \/ (r = c.peerClosed /\ c.localClose # "no"), Slot(e, c, u, down, n), c # None,
           c.localClose = "eof" => down \/ c.sent = n
    PROVE  LET d == Woken(OutboundCleared([c EXCEPT !.peerClosed = r, !.closeSent = TRUE]))
           IN  d \in ChanRecord /\ Slot(e, d, u, down, n)
<1> DEFINE b == OutboundCleared([c EXCEPT !.peerClosed = r, !.closeSent = TRUE])
<1>1. b \in ChanRecord
  BY DEF OutboundCleared, ChanRecord
<1>2. Served(e, b, u) /\ Closing(b) /\ Written(b, u, down, n)
  BY DEF OutboundCleared, Slot, Served, Closing, Closed, Written, ChanRecord
<1> HIDE DEF b
<1>3. Woken(b) \in ChanRecord /\ Slot(e, Woken(b), u, down, n)
  BY <1>1, <1>2, WokenSlot
<1> QED BY <1>3 DEF b

\* The answer to an open: at the window the channel had no use yet.
LEMMA AnswerSlot ==
    ASSUME NEW c \in ChanRecord, NEW u \in UserType, NEW down \in BOOLEAN, NEW n \in Nat,
           Slot("window", c, u, down, n), c # None, c.phase = "opening"
    PROVE  LET g == [Granted(c) EXCEPT !.localClose = IF c.released THEN "reset" ELSE @]
               d == [c EXCEPT !.phase = "refused"]
           IN  /\ Woken(g) \in ChanRecord /\ Slot("window", Woken(g), u, down, n)
               /\ Woken(d) \in ChanRecord /\ Slot("window", Woken(d), u, down, n)
<1> DEFINE g == [Granted(c) EXCEPT !.localClose = IF c.released THEN "reset" ELSE @]
           d == [c EXCEPT !.phase = "refused"]
<1>1. g \in ChanRecord /\ d \in ChanRecord
  BY SizesAreNumbers DEF Granted, ChanRecord, Reasons
<1>2. Served("window", g, u) /\ Closing(g) /\ Written(g, u, down, n)
  BY DEF Granted, Slot, Served, Closing, Closed, Written, ChanRecord, UserType
<1>3. Served("window", d, u) /\ Closing(d) /\ Written(d, u, down, n)
  BY DEF Slot, Served, Closing, Closed, Written, ChanRecord
<1> HIDE DEF g, d
<1>4. "window" \in Ends
  BY DEF Ends
<1>5. /\ Woken(g) \in ChanRecord /\ Slot("window", Woken(g), u, down, n)
      /\ Woken(d) \in ChanRecord /\ Slot("window", Woken(d), u, down, n)
  BY <1>1, <1>2, <1>3, <1>4, WokenSlot
<1> QED BY <1>5 DEF g, d

\* A new channel, as its opener and as the far end make it, and the router's
\* grant.
LEMMA NewSlot ==
    ASSUME NEW down \in BOOLEAN
    PROVE  /\ NewChan("opening") \in ChanRecord /\ NewChan("open") \in ChanRecord
           /\ Slot("window", NewChan("opening"), "opening", down, 0)
           /\ Slot("router", NewChan("opening"), "none", down, 0)
           /\ \A e \in Ends : Slot(e, NewChan("open"), "using", down, 0)
<1>1. NewChan("opening") \in ChanRecord /\ NewChan("open") \in ChanRecord
  BY SizesAreNumbers DEF NewChan, ChanRecord, Reasons
<1>2. \A p \in {"opening", "open"} :
        LET c == NewChan(p) IN
        /\ c # None /\ c.phase = p /\ ~c.released /\ ~c.closeSent /\ ~c.cancelled
        /\ ~c.readWaker /\ ~c.writeWaker /\ ~c.openWaker
        /\ c.localClose = "no" /\ c.peerClosed = "no" /\ c.sent = 0 /\ c.queued = 0
  BY <1>1, ChansAreNotNone DEF NewChan
<1>3. \A p \in {"opening", "open"} : NewChan(p) \in ChanRecord
  BY <1>1
<1>4. \A e \in Ends, p \in {"opening", "open"}, u \in {"opening", "none", "using"} :
        Served(e, NewChan(p), u) => Slot(e, NewChan(p), u, down, 0)
  BY <1>2, <1>3 DEF Slot, Closing, Closed, Asleep, Written
<1>5. /\ Served("window", NewChan("opening"), "opening") /\ Served("router", NewChan("opening"), "none")
      /\ \A e \in Ends : Served(e, NewChan("open"), "using")
  BY <1>2 DEF Served
<1> QED BY <1>1, <1>4, <1>5 DEF Ends

LEMMA GrantSlot ==
    ASSUME NEW c \in ChanRecord, NEW u \in UserType, NEW down \in BOOLEAN, NEW n \in Nat,
           Slot("router", c, u, down, n), c # None, c.phase = "opening"
    PROVE  /\ Granted(c) \in ChanRecord /\ Slot("router", Granted(c), "using", down, n)
           /\ u = "none"
<1>1. Granted(c) \in ChanRecord
  BY SizesAreNumbers DEF Granted, ChanRecord
<1>2. /\ Served("router", Granted(c), "using") /\ Closing(Granted(c))
      /\ Asleep("router", Granted(c), down) /\ Written(Granted(c), "using", down, n) /\ u = "none"
  BY DEF Granted, Slot, Served, Closing, Closed, Asleep, Outbound, Written, ChanRecord
<1> QED BY <1>1, <1>2, ChansAreNotNone DEF Slot

\* A channel's turn to send data.
LEMMA SentSlot ==
    ASSUME NEW e \in Ends, NEW c \in ChanRecord, NEW u \in UserType, NEW down \in BOOLEAN, NEW n \in Nat,
           Slot(e, c, u, down, n), c # None, DataReady(c), ~down
    PROVE  LET k == Min2(Outbound(c), Min2(c.credit, CHUNK))
               d == [c EXCEPT !.sent = @ + k, !.credit = @ - k, !.writeWaker = FALSE]
           IN  /\ d \in ChanRecord /\ Slot(e, d, u, down, n) /\ k \in 1..CHUNK /\ c.sent + k <= c.queued
               /\ k <= c.credit
<1> DEFINE k == Min2(Outbound(c), Min2(c.credit, CHUNK))
           d == [c EXCEPT !.sent = @ + k, !.credit = @ - k, !.writeWaker = FALSE]
<1>1. c.sent \in Nat /\ c.queued \in Nat /\ c.credit \in Nat /\ c.sent <= c.queued /\ c.credit > 0 /\ Outbound(c) > 0
  BY DEF Slot, Written, DataReady, ChanRecord
<1>2. k \in 1..CHUNK /\ c.sent + k <= c.queued /\ k <= c.credit
  BY <1>1, SizesAssumption DEF Min2, Outbound
<1> HIDE DEF k
<1>0. c.sent + k \in Nat /\ c.credit - k \in Nat
  BY <1>1, <1>2, SizesAssumption
<1>3. d \in ChanRecord
  BY <1>0 DEF ChanRecord
<1>4. Served(e, d, u) /\ Closing(d)
  BY DEF Slot, Served, Closing, Closed, ChanRecord
<1>5. Asleep(e, d, down)
  BY DEF Slot, Asleep, ChanRecord
<1>6. Written(d, u, down, n)
  <2>1. d.sent = c.sent + k /\ c.sent + k <= c.queued /\ k > 0 /\ c.sent + k > c.sent
    BY <1>1, <1>2 DEF ChanRecord
  <2>2. /\ d.queued = c.queued /\ d.phase = c.phase /\ d.localClose = c.localClose
        /\ d.peerClosed = c.peerClosed
    BY DEF ChanRecord
  <2>3. /\ c.queued <= n /\ (~Closed(c) => c.queued = n) /\ (c.localClose = "eof" => down \/ c.sent = n)
        /\ (u = "flushed" => down \/ Closed(c) \/ c.sent = c.queued) /\ (c.phase # "open" => n = 0)
    BY DEF Slot, Written
  <2>4. Closed(d) = Closed(c)
    BY <2>2 DEF Closed
  <2>5. c.sent < c.queued
    BY <1>1 DEF Outbound
  <2>6. c.localClose # "eof" /\ (u = "flushed" => Closed(c))
    BY <1>1, <2>3, <2>5
  <2> HIDE DEF d
  <2> QED BY <2>1, <2>2, <2>3, <2>4, <2>6 DEF Written
<1> QED BY <1>2, <1>3, <1>4, <1>5, <1>6, ChansAreNotNone DEF Slot, k

\* The steps of a channel's user.

\* What only the reader's count and credit see leaves the rest as it was.
CountsRead(c, d) == \E in \in Seq(Nat \X Nat), k \in Nat, a \in Nat :
    d = [c EXCEPT !.inbound = in, !.unreturned = k, !.allowance = a]

LEMMA ReaderSlot ==
    ASSUME NEW e \in Ends, NEW c \in ChanRecord, NEW u \in UserType, NEW down \in BOOLEAN, NEW n \in Nat,
           Slot(e, c, u, down, n), c # None, ~c.readWaker, NEW d, CountsRead(c, d)
    PROVE  d \in ChanRecord /\ Slot(e, d, u, down, n)
<1>1. PICK in \in Seq(Nat \X Nat), k \in Nat, a \in Nat :
        d = [c EXCEPT !.inbound = in, !.unreturned = k, !.allowance = a]
  BY DEF CountsRead
<1>2. d \in ChanRecord
  BY <1>1 DEF ChanRecord
<1>3. Served(e, d, u) /\ Closing(d) /\ Asleep(e, d, down) /\ Written(d, u, down, n)
  BY <1>1 DEF Slot, Served, Closing, Closed, Asleep, Outbound, Written, ChanRecord
<1> QED BY <1>2, <1>3, ChansAreNotNone DEF Slot

LEMMA ReadWaitsSlot ==
    ASSUME NEW e \in Ends, NEW c \in ChanRecord, NEW u \in UserType, NEW down \in BOOLEAN, NEW n \in Nat,
           Slot(e, c, u, down, n), c # None, c.inbound = <<>>, ~Closed(c), ~down
    PROVE  LET d == [c EXCEPT !.readWaker = TRUE]
           IN  d \in ChanRecord /\ Slot(e, d, u, down, n)
<1> DEFINE d == [c EXCEPT !.readWaker = TRUE]
<1>1. d \in ChanRecord
  BY DEF ChanRecord
<1>2. Served(e, d, u) /\ Closing(d) /\ Asleep(e, d, down) /\ Written(d, u, down, n)
  BY DEF Slot, Served, Closing, Closed, Asleep, Outbound, Written, ChanRecord
<1> QED BY <1>1, <1>2, ChansAreNotNone DEF Slot

LEMMA WriteSlot ==
    ASSUME NEW e \in Ends, NEW c \in ChanRecord, NEW down \in BOOLEAN, NEW n \in Nat, NEW k \in Nat,
           Slot(e, c, "using", down, n), c # None, ~Closed(c), ~c.writeWaker
    PROVE  LET d == [c EXCEPT !.queued = @ + k]
           IN  d \in ChanRecord /\ Slot(e, d, "using", down, n + k)
<1> DEFINE d == [c EXCEPT !.queued = @ + k]
<1>0. c.queued \in Nat /\ c.sent \in Nat /\ c.queued + k \in Nat
  BY DEF ChanRecord
<1>1. d \in ChanRecord
  BY <1>0 DEF ChanRecord
<1>2. Served(e, d, "using") /\ Closing(d) /\ Asleep(e, d, down)
  BY DEF Slot, Served, Closing, Closed, Asleep, Outbound, ChanRecord
<1>3. Written(d, "using", down, n + k)
  BY <1>0 DEF Slot, Served, Closed, Written, ChanRecord
<1> QED BY <1>1, <1>2, <1>3, ChansAreNotNone DEF Slot

LEMMA WriteWaitsSlot ==
    ASSUME NEW e \in Ends, NEW c \in ChanRecord, NEW u \in UserType, NEW down \in BOOLEAN, NEW n \in Nat,
           Slot(e, c, u, down, n), c # None, Outbound(c) # 0, ~c.cancelled, ~down
    PROVE  LET d == [c EXCEPT !.writeWaker = TRUE]
           IN  d \in ChanRecord /\ Slot(e, d, u, down, n)
<1> DEFINE d == [c EXCEPT !.writeWaker = TRUE]
<1>0. c.queued \in Nat /\ c.sent \in Nat /\ Outbound(c) > 0
  BY DEF ChanRecord, Slot, Written, Outbound
<1>1. d \in ChanRecord
  BY DEF ChanRecord
<1>2. Served(e, d, u) /\ Closing(d) /\ Asleep(e, d, down) /\ Written(d, u, down, n)
  BY <1>0 DEF Slot, Served, Closing, Closed, Asleep, Outbound, Written, ChanRecord
<1> QED BY <1>1, <1>2, ChansAreNotNone DEF Slot

LEMMA ShutdownSlot ==
    ASSUME NEW e \in Ends, NEW c \in ChanRecord, NEW down \in BOOLEAN, NEW n \in Nat,
           Slot(e, c, "flushed", down, n), c # None
    PROVE  LET d == [c EXCEPT !.localClose = IF Closed(c) THEN @ ELSE "eof"]
           IN  d \in ChanRecord /\ Slot(e, d, "shut", down, n)
<1> DEFINE d == [c EXCEPT !.localClose = IF Closed(c) THEN @ ELSE "eof"]
<1>1. d \in ChanRecord
  BY DEF ChanRecord, Reasons
<1>2. Served(e, d, "shut") /\ Closing(d) /\ Asleep(e, d, down)
  BY DEF Slot, Served, Closing, Closed, Asleep, Outbound, ChanRecord
<1>3. Written(d, "shut", down, n)
  BY DEF Slot, Served, Closed, Written, ChanRecord
<1> QED BY <1>1, <1>2, <1>3, ChansAreNotNone DEF Slot

LEMMA CancelSlot ==
    ASSUME NEW e \in Ends, NEW c \in ChanRecord, NEW u \in UserType, NEW down \in BOOLEAN, NEW n \in Nat,
           Slot(e, c, u, down, n), c # None, u \in {"using", "flushed", "shut"}
    PROVE  LET d == [c EXCEPT !.cancelled = TRUE,
                              !.localClose = IF ~Closed(c) /\ c.phase = "open" THEN "reset" ELSE @]
               w == Woken(OutboundCleared(d))
           IN  w \in ChanRecord /\ Slot(e, w, u, down, n)
<1> DEFINE b == OutboundCleared([c EXCEPT !.cancelled = TRUE,
                       !.localClose = IF ~Closed(c) /\ c.phase = "open" THEN "reset" ELSE @])
<1>1. b \in ChanRecord
  BY DEF OutboundCleared, ChanRecord, Reasons
<1>2. Served(e, b, u) /\ Closing(b) /\ Written(b, u, down, n)
  BY DEF OutboundCleared, Slot, Served, Closing, Closed, Written, ChanRecord
<1> HIDE DEF b
<1>3. Woken(b) \in ChanRecord /\ Slot(e, Woken(b), u, down, n)
  BY <1>1, <1>2, WokenSlot
<1> QED BY <1>3 DEF b

LEMMA ReleasedSlot ==
    ASSUME NEW e \in Ends, NEW c \in ChanRecord, NEW u \in UserType, NEW down \in BOOLEAN, NEW n \in Nat,
           Slot(e, c, u, down, n), c # None, e = "window" \/ c.phase = "open"
    PROVE  ReleasedChan(c) \in ChanRecord /\ Slot(e, ReleasedChan(c), "gone", down, n)
<1> DEFINE d == ReleasedChan(c)
<1>1. d \in ChanRecord
  <2> DEFINE r == IF Closed(c) \/ c.phase # "open" THEN c.localClose
                  ELSE IF Outbound(c) = 0 THEN "eof" ELSE "reset"
  <2>1. r \in Reasons
    BY DEF Reasons, ChanRecord
  <2>2. d = [c EXCEPT !.released = TRUE, !.localClose = r]
    BY DEF ReleasedChan
  <2> HIDE DEF r, d
  <2> QED BY <2>1, <2>2 DEF ChanRecord
<1>0. c.queued \in Nat /\ c.sent \in Nat
  BY DEF ChanRecord
<1>2. Served(e, d, "gone") /\ Closing(d) /\ Asleep(e, d, down)
  BY <1>0 DEF ReleasedChan, Slot, Served, Closing, Closed, Asleep, Outbound, ChanRecord, Ends
<1>3. Written(d, "gone", down, n)
  BY <1>0 DEF ReleasedChan, Slot, Closed, Written, Outbound, ChanRecord
<1> QED BY <1>1, <1>2, <1>3, ChansAreNotNone DEF Slot

\* An opener's steps.
LEMMA OpenerSlot ==
    ASSUME NEW c \in ChanRecord, NEW down \in BOOLEAN, NEW n \in Nat,
           Slot("window", c, "opening", down, n), c # None
    PROVE  /\ c.phase = "open" => Slot("window", c, "using", down, n)
           /\ Slot("window", c, "gone", down, n)
           /\ LET d == [c EXCEPT !.released = TRUE]
              IN  d \in ChanRecord /\ (c.phase # "open" => Slot("window", d, "gone", down, n))
           /\ LET d == [c EXCEPT !.openWaker = TRUE]
              IN  d \in ChanRecord
                  /\ (c.phase = "opening" /\ ~down => Slot("window", d, "opening", down, n))
<1>1. (c.phase = "open" => Slot("window", c, "using", down, n)) /\ Slot("window", c, "gone", down, n)
  BY DEF Slot, Served, Written, UserType
<1>2. LET d == [c EXCEPT !.released = TRUE]
      IN  d \in ChanRecord /\ (c.phase # "open" => Slot("window", d, "gone", down, n))
  <2> DEFINE d == [c EXCEPT !.released = TRUE]
  <2>1. d \in ChanRecord
    BY DEF ChanRecord
  <2>2. c.phase # "open" => /\ Served("window", d, "gone") /\ Closing(d) /\ Asleep("window", d, down)
                            /\ Written(d, "gone", down, n)
    BY DEF Slot, Served, Closing, Closed, Asleep, Outbound, Written, ChanRecord
  <2> QED BY <2>1, <2>2, ChansAreNotNone DEF Slot
<1>3. LET d == [c EXCEPT !.openWaker = TRUE]
      IN  d \in ChanRecord
          /\ (c.phase = "opening" /\ ~down => Slot("window", d, "opening", down, n))
  <2> DEFINE d == [c EXCEPT !.openWaker = TRUE]
  <2>1. d \in ChanRecord
    BY DEF ChanRecord
  <2>2. c.phase = "opening" /\ ~down =>
          /\ Served("window", d, "opening") /\ Closing(d) /\ Asleep("window", d, down)
          /\ Written(d, "opening", down, n)
    BY DEF Slot, Served, Closing, Closed, Asleep, Outbound, Written, ChanRecord
  <2> QED BY <2>1, <2>2, ChansAreNotNone DEF Slot
<1> QED BY <1>1, <1>2, <1>3

(***************************************************************************)
(* Every step keeps LinkInv.                                               *)
(***************************************************************************)

PipesTyped == /\ pipe \in [Ends -> Seq(Message)] /\ task \in [Ends -> {"running", "stopped"}]
              /\ broken \in [Ends -> BOOLEAN]

\* A step that changes no table, user or history.
LEMMA NoTable ==
    ASSUME LinkInv, UNCHANGED <<table, user, accepted, got, load>>, PipesTyped'
    PROVE  LinkInv'
BY DEF LinkInv, Shaped, Slots, Slot, Fresh, PipesTyped

LEMMA AtMostOne ==
    ASSUME NEW T, NEW f \in [Ends -> [Ch -> T]], NEW e \in Ends, NEW ch \in Ch, NEW g,
           g = f \/ \E x \in T : g = [f EXCEPT ![e][ch] = x]
    PROVE  g \in [Ends -> [Ch -> T]] /\ Only(f, g, e, ch)
BY DEF Only

LEMMA Histories ==
    ASSUME LinkInv
    PROVE  /\ table \in [Ends -> Shape] /\ user \in [Ends -> [Ch -> UserType]]
           /\ accepted \in [Ends -> [Ch -> Nat]] /\ got \in [Ends -> [Ch -> Nat]] /\ PipesTyped
BY DEF LinkInv, Shaped, PipesTyped

\* A step of one channel and its user.
LEMMA ChannelStep ==
    ASSUME LinkInv, NEW e \in Ends, NEW ch \in Ch, NEW t,
           table' = [table EXCEPT ![e] = t], Touches(table[e], t, ch), ch <= table[e].highest,
           user' = user \/ \E u \in UserType : user' = [user EXCEPT ![e][ch] = u],
           accepted' = accepted \/ \E a \in Nat : accepted' = [accepted EXCEPT ![e][ch] = a],
           got' = got \/ \E g \in Nat : got' = [got EXCEPT ![e][ch] = g],
           PipesTyped', load' = load,
           Slot(e, t.chans[ch], user'[e][ch], t.down, accepted'[e][ch])
    PROVE  LinkInv'
<1>1. user' \in [Ends -> [Ch -> UserType]] /\ Only(user, user', e, ch)
  BY AtMostOne, Histories
<1>2. accepted' \in [Ends -> [Ch -> Nat]] /\ Only(accepted, accepted', e, ch)
  BY AtMostOne, Histories
<1>3. got' \in [Ends -> [Ch -> Nat]] /\ Only(got, got', e, ch)
  BY AtMostOne, Histories
<1>4. table' \in [Ends -> Shape] /\ load' \in Loads
  BY DEF LinkInv, Shaped, Touches
<1>5. Shaped'
  BY <1>1, <1>2, <1>3, <1>4 DEF Shaped, PipesTyped
<1> QED BY <1>1, <1>2, <1>3, <1>5, OneSlot

\* A new channel's step.
OpensChannel(e, ch, t) ==
    /\ e \in Ends /\ ch \in Ch /\ ch = table[e].highest + 1
    /\ t \in Shape /\ t.highest = ch /\ t.down = table[e].down
    /\ table' = [table EXCEPT ![e] = t]
    /\ \A k \in Ch : k # ch => t.chans[k] = table[e].chans[k]
    /\ user' = user \/ \E u \in UserType : user' = [user EXCEPT ![e][ch] = u]
    /\ PipesTyped' /\ UNCHANGED <<accepted, got, load>>
    /\ Slot(e, t.chans[ch], user'[e][ch], t.down, 0)

LEMMA ChannelOpens ==
    ASSUME LinkInv, NEW e, NEW ch, NEW t, OpensChannel(e, ch, t)
    PROVE  LinkInv'
<1> /\ e \in Ends /\ ch \in Ch /\ ch = table[e].highest + 1 /\ t \in Shape /\ t.highest = ch
    /\ table' = [table EXCEPT ![e] = t] /\ t.down = table[e].down
    /\ \A k \in Ch : k # ch => t.chans[k] = table[e].chans[k]
    /\ user' = user \/ \E u \in UserType : user' = [user EXCEPT ![e][ch] = u]
    /\ PipesTyped' /\ UNCHANGED <<accepted, got, load>>
    /\ Slot(e, t.chans[ch], user'[e][ch], t.down, 0)
  BY DEF OpensChannel
<1>0. table[e].highest \in Nat /\ ch \in Nat /\ \A k \in Ch : k \in Nat
  BY SizesAssumption DEF LinkInv, Shaped, Shape, Ch
<1>1. user' \in [Ends -> [Ch -> UserType]] /\ Only(user, user', e, ch)
  BY AtMostOne, Histories
<1>2. /\ table' \in [Ends -> Shape] /\ load' \in Loads
      /\ table'[e] = t /\ \A d \in Ends : d # e => table'[d] = table[d]
  BY DEF LinkInv, Shaped
<1>3. Shaped'
  BY <1>1, <1>2 DEF LinkInv, Shaped, PipesTyped
<1>4. accepted[e][ch] = 0 /\ accepted' = accepted /\ got' = got
  BY <1>0 DEF LinkInv, Fresh
<1>5. Slots'
  <2> SUFFICES ASSUME NEW d \in Ends, NEW k \in Ch
               PROVE  Slot(d, table'[d].chans[k], user'[d][k], table'[d].down, accepted'[d][k])
    BY DEF Slots
  <2>1. CASE d = e /\ k = ch
    BY <1>2, <1>4, <2>1
  <2>2. CASE d = e /\ k # ch
    BY <1>1, <1>2, <1>4, <2>2 DEF LinkInv, Slots, Only
  <2>3. CASE d # e
    BY <1>1, <1>2, <1>4, <2>3 DEF LinkInv, Slots, Only
  <2> QED BY <2>1, <2>2, <2>3
<1>6. Fresh'
  <2> SUFFICES ASSUME NEW d \in Ends, NEW k \in Ch, k > table'[d].highest
               PROVE  table'[d].chans[k] = None /\ user'[d][k] = "none" /\ accepted'[d][k] = 0 /\ got'[d][k] = 0
    BY DEF Fresh
  <2>1. CASE d = e
    <3>1. k > table[e].highest /\ k # ch
      BY <1>0, <1>2, <2>1
    <3> QED BY <1>1, <1>2, <1>4, <2>1, <3>1 DEF LinkInv, Fresh, Only
  <2>2. CASE d # e
    BY <1>1, <1>2, <1>4, <2>2 DEF LinkInv, Fresh, Only
  <2> QED BY <2>1, <2>2
<1> QED BY <1>3, <1>5, <1>6 DEF LinkInv

\* The frame at the head of a pipe.
LEMMA HeadOfPipe ==
    ASSUME LinkInv, NEW e \in Ends, pipe[e] # <<>>
    PROVE  Head(pipe[e]) \in Message /\ Tail(pipe[e]) \in Seq(Message)
BY DEF LinkInv, Shaped

LEMMA PutSlot ==
    ASSUME NEW t \in Shape, NEW ch \in Ch, NEW c \in ChanRecord, NEW e \in Ends, NEW u \in UserType, NEW n \in Nat,
           Slot(e, c, u, t.down, n)
    PROVE  /\ Touches(t, Put(t, ch, c), ch) /\ Slot(e, Put(t, ch, c).chans[ch], u, Put(t, ch, c).down, n)
           /\ Touches(t, Reaped(Put(t, ch, c), ch), ch)
           /\ Slot(e, Reaped(Put(t, ch, c), ch).chans[ch], u, Reaped(Put(t, ch, c), ch).down, n)
<1> DEFINE s == Put(t, ch, c)
<1>1. Touches(t, s, ch) /\ s.chans[ch] = c
  BY PutTouches
<1>2. s \in Shape /\ s.down = t.down
  BY <1>1 DEF Touches
<1> HIDE DEF s
<1>3. /\ Touches(s, Reaped(s, ch), ch) /\ Slot(e, Reaped(s, ch).chans[ch], u, s.down, n)
  BY <1>1, <1>2, Reaps
<1>4. Reaped(s, ch).down = s.down
  BY <1>3 DEF Touches
<1>5. Touches(t, Reaped(s, ch), ch)
  BY <1>1, <1>3, TouchesTwice
<1>6. /\ Touches(t, s, ch) /\ Slot(e, s.chans[ch], u, s.down, n)
      /\ Touches(t, Reaped(s, ch), ch) /\ Slot(e, Reaped(s, ch).chans[ch], u, Reaped(s, ch).down, n)
  BY <1>1, <1>2, <1>3, <1>4, <1>5
<1> QED BY <1>6 DEF s

\* A frame of an open channel, or the answer to an open.
LEMMA FrameSlot ==
    ASSUME LinkInv, NEW e \in Ends, NEW f \in Message, ~Violates(e, f), f.kind # "open"
    PROVE  LET t == OnFrame(table[e], f)
           IN  /\ Touches(table[e], t, f.ch) /\ f.ch <= table[e].highest
               /\ Slot(e, t.chans[f.ch], user[e][f.ch], t.down, accepted[e][f.ch])
<1> DEFINE t == table[e]
           c == t.chans[f.ch]
           u == user[e][f.ch]
           n == accepted[e][f.ch]
           Done(s) == Touches(t, s, f.ch) /\ f.ch <= t.highest /\ Slot(e, s.chans[f.ch], u, s.down, n)
<1>0. /\ f.ch \in Ch /\ f.ch \in Nat /\ t \in Shape /\ t.highest \in Nat /\ t.down \in BOOLEAN
      /\ u \in UserType /\ n \in Nat /\ (Has(t, f.ch) => c \in ChanRecord /\ c # None)
      /\ Slot(e, c, u, t.down, n)
  <2>1. f.ch \in Ch
    BY MessageFields
  <2>2. t \in Shape /\ u \in UserType /\ n \in Nat
    BY <2>1, Histories
  <2>3. t.highest \in Ch /\ t.down \in BOOLEAN /\ (Has(t, f.ch) => c \in ChanRecord /\ c # None)
    BY <2>1, <2>2 DEF Shape, Has
  <2>4. Slot(e, c, u, t.down, n)
    BY <2>1 DEF LinkInv, Slots
  <2> QED BY <2>1, <2>2, <2>3, <2>4, SizesAssumption DEF Ch
<1>1. Has(t, f.ch) => f.ch <= t.highest
  BY <1>0, HeldIsOpened
<1>2. Touches(t, t, f.ch)
  BY <1>0 DEF Touches
<1>3. CASE f.kind = "data"
  <2>0. f.lo \in Nat /\ f.hi \in Nat
    BY <1>3, MessageFields
  <2>1. /\ f.ch <= t.highest
        /\ Has(t, f.ch) /\ ~Closed(c) /\ ~c.cancelled => ~(f.hi - f.lo > c.allowance)
    <3>1. /\ ~(f.ch > t.highest)
          /\ ~(Has(t, f.ch) /\ ~Closed(c) /\ ~c.cancelled /\ f.hi - f.lo > c.allowance)
      BY <1>3, Zenon DEF Violates
    <3>2. t.highest \in Nat /\ f.ch \in Nat
      BY <1>0, Zenon
    <3> HIDE DEF t, c
    <3> QED BY <3>1, <3>2
  <2>2. CASE ~Has(t, f.ch) \/ Closed(c) \/ c.cancelled
    BY <1>0, <1>2, <1>3, <2>1, <2>2 DEF OnFrame, OnData
  <2>3. CASE ~(~Has(t, f.ch) \/ Closed(c) \/ c.cancelled)
    <3>0. c \in ChanRecord /\ c # None /\ Slot(e, c, u, t.down, n)
      BY <1>0, <2>3
    <3>a. c.allowance \in Nat /\ ~(f.hi - f.lo > c.allowance)
      BY <3>0, <2>1, <2>3 DEF ChanRecord
    <3>1. f.hi - f.lo <= c.allowance
      BY <3>a, <2>0
    <3> DEFINE a == c.allowance - (f.hi - f.lo)
               in == Append(c.inbound, <<f.lo, f.hi>>)
               d == [c EXCEPT !.allowance = a, !.inbound = in, !.readWaker = FALSE]
    <3>2. a \in Nat
      BY <2>0, <3>a, <3>1
    <3>3. in \in Seq(Nat \X Nat)
      BY <2>0, <3>0 DEF ChanRecord
    <3>4. OnFrame(t, f) = Put(t, f.ch, d)
      BY <1>3, <2>3 DEF OnFrame, OnData
    <3> HIDE DEF a, in
    <3>5. d \in ChanRecord /\ Slot(e, d, u, t.down, n)
      <4> HIDE DEF t, c, u, n
      <4> QED BY <1>0, <3>0, <3>2, <3>3, DataSlot
    <3> HIDE DEF d
    <3> QED BY <1>0, <2>1, <3>4, <3>5, PutSlot
  <2> QED BY <2>2, <2>3
<1>4. CASE f.kind = "credit"
  <2>1. f.bytes \in Nat /\ f.ch <= t.highest
    BY <1>0, <1>4, MessageFields DEF Violates
  <2>2. CASE ~Has(t, f.ch) \/ Closed(c)
    BY <1>0, <1>2, <1>4, <2>1, <2>2 DEF OnFrame, OnCredit
  <2>3. CASE ~(~Has(t, f.ch) \/ Closed(c))
    <3> DEFINE d == [c EXCEPT !.credit = @ + f.bytes]
    <3>2. d \in ChanRecord /\ Slot(e, d, u, t.down, n)
      BY <1>0, <2>1, <2>3, CreditSlot
    <3>3. OnFrame(t, f) = Put(t, f.ch, d)
      BY <1>4, <2>3 DEF OnFrame, OnCredit
    <3> HIDE DEF d
    <3> QED BY <1>0, <2>1, <3>2, <3>3, PutSlot
  <2> QED BY <2>2, <2>3
<1>5. CASE f.kind = "close"
  <2>1. f.reason \in {"eof", "reset"} /\ f.ch <= t.highest
    BY <1>0, <1>5, MessageFields DEF Violates
  <2>2. CASE ~Has(t, f.ch)
    BY <1>0, <1>2, <1>5, <2>1, <2>2 DEF OnFrame, OnClose
  <2>3. CASE Has(t, f.ch) /\ c.peerClosed # "no"
    <3>1. OnFrame(t, f) = Reaped(t, f.ch)
      BY <1>5, <2>3 DEF OnFrame, OnClose
    <3>2. /\ Touches(t, Reaped(t, f.ch), f.ch) /\ Slot(e, Reaped(t, f.ch).chans[f.ch], u, t.down, n)
      <4>1. Slot(e, t.chans[f.ch], u, t.down, n)
        BY <1>0
      <4> HIDE DEF t, c, u, n
      <4> QED BY <1>0, <4>1, Reaps
    <3> QED BY <2>1, <3>1, <3>2 DEF Touches
  <2>4. CASE Has(t, f.ch) /\ ~(c.peerClosed # "no")
    <3> DEFINE d == Woken(OutboundCleared([c EXCEPT !.peerClosed = f.reason, !.closeSent = TRUE]))
    <3>0. c.localClose = "eof" => t.down \/ c.sent = n
      BY <1>0, <2>4 DEF Slot, Written
    <3>1. f.reason \in Reasons /\ f.reason # "no"
      BY <2>1 DEF Reasons
    <3>2. d \in ChanRecord /\ Slot(e, d, u, t.down, n)
      BY <1>0, <2>4, <3>0, <3>1, CloseSlot
    <3>3. OnFrame(t, f) = Reaped(Put(t, f.ch, d), f.ch)
      BY <1>5, <2>4 DEF OnFrame, OnClose
    <3> HIDE DEF d
    <3> QED BY <1>0, <2>1, <3>2, <3>3, PutSlot
  <2> QED BY <2>2, <2>3, <2>4
<1>6. CASE f.kind \in {"opened", "refused"}
  <2>1. e = "window" /\ Has(t, f.ch) /\ c.phase = "opening"
    BY <1>6 DEF Violates
  <2> DEFINE g == [Granted(c) EXCEPT !.localClose = IF c.released THEN "reset" ELSE @]
             r == [c EXCEPT !.phase = "refused"]
  <2>2. /\ Woken(g) \in ChanRecord /\ Slot("window", Woken(g), u, t.down, n)
        /\ Woken(r) \in ChanRecord /\ Slot("window", Woken(r), u, t.down, n)
    BY <1>0, <2>1, AnswerSlot
  <2>3. \/ OnFrame(t, f) = Reaped(Put(t, f.ch, Woken(g)), f.ch)
        \/ OnFrame(t, f) = Reaped(Put(t, f.ch, Woken(r)), f.ch)
    BY <1>6 DEF OnFrame, OnOpenAnswer
  <2> HIDE DEF g, r
  <2> QED BY <1>0, <1>1, <2>1, <2>2, <2>3, PutSlot
<1>7. f.kind \in {"opened", "refused", "credit", "data", "close"}
  BY MessageFields
<1> QED BY <1>3, <1>4, <1>5, <1>6, <1>7

\* Taking a frame off a pipe and putting one on a pipe keep their types.
LEMMA PipesKept ==
    ASSUME LinkInv, NEW e \in Ends
    PROVE  /\ \A s \in Seq(Message) : [pipe EXCEPT ![e] = s] \in [Ends -> Seq(Message)]
           /\ \A f \in Message : [pipe EXCEPT ![e] = Append(@, f)] \in [Ends -> Seq(Message)]
           /\ \A x \in {"running", "stopped"} : [task EXCEPT ![e] = x] \in [Ends -> {"running", "stopped"}]
           /\ \A b \in BOOLEAN : [broken EXCEPT ![e] = b] \in [Ends -> BOOLEAN]
           /\ task[e] \in {"running", "stopped"} /\ pipe[e] \in Seq(Message) /\ Peer(e) \in Ends
BY DEF LinkInv, Shaped, Peer, Ends

LEMMA DeliverKeeps ==
    ASSUME LinkInv, NEW e \in Ends, Deliver(e)
    PROVE  LinkInv'
<1> DEFINE f == Head(pipe[e])
           t == OnFrame(table[e], f)
<1>1. f \in Message /\ f.ch \in Ch
  BY HeadOfPipe, MessageFields DEF Deliver
<1>2. PipesTyped'
  <2>1. pipe' \in [Ends -> Seq(Message)]
    BY HeadOfPipe, PipesKept DEF Deliver
  <2>2. \/ UNCHANGED task
        \/ task' = [task EXCEPT ![e] = "stopped"]
        \/ task' = [task EXCEPT ![e] = @]
    BY DEF Deliver
  <2>3. task' \in [Ends -> {"running", "stopped"}]
    BY <2>2, PipesKept, Histories DEF PipesTyped
  <2>4. broken' \in [Ends -> BOOLEAN]
    <3>1. UNCHANGED broken \/ broken' = [broken EXCEPT ![e] = TRUE]
      BY DEF Deliver
    <3> QED BY <3>1, PipesKept, Histories DEF PipesTyped
  <2> QED BY <2>1, <2>3, <2>4 DEF PipesTyped
<1>3. CASE Violates(e, f)
  BY <1>2, <1>3, NoTable DEF Deliver
<1>4. CASE ~Violates(e, f)
  <2>1. table' = [table EXCEPT ![e] = t] /\ UNCHANGED <<user, accepted, got, load>>
    BY <1>4 DEF Deliver
  <2>2. CASE f.kind # "open"
    <3>1. /\ Touches(table[e], t, f.ch) /\ f.ch <= table[e].highest
          /\ Slot(e, t.chans[f.ch], user[e][f.ch], t.down, accepted[e][f.ch])
      BY <1>1, <1>4, <2>2, FrameSlot
    <3> HIDE DEF t, f
    <3> QED BY <1>1, <1>2, <2>1, <3>1, ChannelStep
  <2>3. CASE f.kind = "open"
    <3> DEFINE raised == [table[e] EXCEPT !.highest = f.ch]
               r == [kind |-> "refused", ch |-> f.ch]
    <3>1. e = "router" /\ f.ch = table[e].highest + 1
      BY <1>4, <2>3 DEF Violates
    <3>2. raised \in Shape /\ raised.highest = f.ch /\ raised.chans = table[e].chans /\ raised.down = table[e].down
      BY <1>1, Histories DEF Shape
    <3>3. t = Queue(raised, r) \/ t = Put(raised, f.ch, NewChan("opening"))
      BY <2>3 DEF OnFrame, OnOpenRequest
    <3>4. r \in Op
      BY <1>1, MessagesMade
    <3>5. /\ table[e].chans[f.ch] = None /\ user[e][f.ch] = "none" /\ table[e].down \in BOOLEAN
          /\ f.ch > table[e].highest
      <4>1. f.ch > table[e].highest
        BY <1>1, <3>1, SizesAssumption, Histories DEF Shape, Ch
      <4> QED BY <1>1, <4>1, Histories DEF LinkInv, Fresh, Shape
    <3> HIDE DEF raised, r
    <3>6. /\ Touches(raised, Queue(raised, r), f.ch) /\ Queue(raised, r).chans = raised.chans
          /\ Touches(raised, Put(raised, f.ch, NewChan("opening")), f.ch)
          /\ Put(raised, f.ch, NewChan("opening")).chans[f.ch] = NewChan("opening")
      <4>1. NewChan("opening") \in ChanRecord /\ f.ch \in Ch
        BY <1>1, <3>5, NewSlot
      <4> HIDE DEF f
      <4>2. Touches(raised, Queue(raised, r), f.ch) /\ Queue(raised, r).chans = raised.chans
        BY <3>2, <3>4, <4>1, QueueTouches
      <4>3. /\ Touches(raised, Put(raised, f.ch, NewChan("opening")), f.ch)
            /\ Put(raised, f.ch, NewChan("opening")).chans[f.ch] = NewChan("opening")
        BY <3>2, <4>1, PutTouches
      <4> QED BY <4>2, <4>3
    <3>7. Slot(e, t.chans[f.ch], "none", t.down, 0)
      <4>1. CASE t = Queue(raised, r)
        BY <3>2, <3>5, <3>6, <4>1 DEF Slot
      <4>2. CASE t = Put(raised, f.ch, NewChan("opening"))
        BY <3>1, <3>2, <3>5, <3>6, <4>2, NewSlot DEF Touches
      <4> QED BY <3>3, <4>1, <4>2
    <3>8. /\ t \in Shape /\ t.highest = f.ch /\ t.down = table[e].down
          /\ \A k \in Ch : k # f.ch => t.chans[k] = table[e].chans[k]
      BY <3>2, <3>3, <3>6 DEF Touches
    <3>9. /\ Slot(e, t.chans[f.ch], user'[e][f.ch], t.down, 0) /\ user' = user
          /\ UNCHANGED <<accepted, got, load>>
      BY <2>1, <3>5, <3>7
    <3> HIDE DEF t
    <3> DEFINE ch == f.ch
    <3>10. /\ ch \in Ch /\ ch = table[e].highest + 1 /\ t \in Shape /\ t.highest = ch
           /\ table' = [table EXCEPT ![e] = t] /\ t.down = table[e].down
           /\ \A k \in Ch : k # ch => t.chans[k] = table[e].chans[k]
           /\ Slot(e, t.chans[ch], user'[e][ch], t.down, 0)
      BY <1>1, <2>1, <3>1, <3>8, <3>9
    <3>11. user' = user /\ UNCHANGED <<accepted, got, load>> /\ PipesTyped'
      BY <1>2, <3>9
    <3> HIDE DEF ch, f
    <3>12. OpensChannel(e, ch, t)
      BY <3>10, <3>11 DEF OpensChannel
    <3> QED BY <3>12, ChannelOpens
  <2> QED BY <2>2, <2>3
<1> QED BY <1>3, <1>4

LEMMA ConnectedKeeps ==
    ASSUME LinkInv, NEW ch \in Ch, NEW ok \in BOOLEAN, Connected(ch, ok)
    PROVE  LinkInv'
<1> DEFINE e == "router"
           t == table[e]
           c == t.chans[ch]
           opened == [kind |-> "opened", ch |-> ch]
           refused == [kind |-> "refused", ch |-> ch]
           s == IF ok /\ ~Closed(c) THEN Queue(Put(t, ch, Granted(c)), opened)
                ELSE IF ok THEN Put(t, ch, None)
                ELSE Queue(Put(t, ch, None), refused)
<1>1. /\ e \in Ends /\ Has(t, ch) /\ c.phase = "opening" /\ table' = [table EXCEPT ![e] = s]
      /\ user' = [user EXCEPT ![e][ch] = IF ok /\ ~Closed(c) THEN "using" ELSE user[e][ch]]
      /\ UNCHANGED <<pipe, task, broken, accepted, got, load>>
  BY DEF Connected, Ends
<1>2. /\ t \in Shape /\ c \in ChanRecord /\ c # None /\ ch <= t.highest
      /\ user[e][ch] \in UserType /\ accepted[e][ch] \in Nat /\ t.down \in BOOLEAN
  BY <1>1, HeldIsOpened DEF Has, Shape
<1>3. Slot(e, c, user[e][ch], t.down, accepted[e][ch])
  BY <1>1 DEF LinkInv, Slots
<1>4. /\ Granted(c) \in ChanRecord /\ Slot(e, Granted(c), "using", t.down, accepted[e][ch])
      /\ user[e][ch] = "none"
  BY <1>1, <1>2, <1>3, GrantSlot
<1>5. opened \in Op /\ refused \in Op
  BY MessagesMade
<1>6. PipesTyped'
  BY <1>1, Histories DEF PipesTyped
<1>7. user'[e][ch] = IF ok /\ ~Closed(c) THEN "using" ELSE "none"
  BY <1>1, <1>4, Histories
<1> HIDE DEF t, c, opened, refused
<1>8. \A d \in {Granted(c), None}, f \in {opened, refused} :
        /\ Touches(t, Put(t, ch, d), ch) /\ Put(t, ch, d).chans[ch] = d
        /\ Touches(t, Queue(Put(t, ch, d), f), ch) /\ Queue(Put(t, ch, d), f).chans[ch] = d
  <2> TAKE d \in {Granted(c), None}, f \in {opened, refused}
  <2>1. Touches(t, Put(t, ch, d), ch) /\ Put(t, ch, d).chans[ch] = d
    BY <1>2, <1>4, PutTouches
  <2>2. Put(t, ch, d) \in Shape /\ f \in Op
    BY <2>1, <1>5 DEF Touches
  <2>3. Touches(Put(t, ch, d), Queue(Put(t, ch, d), f), ch) /\ Queue(Put(t, ch, d), f).chans = Put(t, ch, d).chans
    BY <2>2, QueueTouches
  <2> QED BY <2>1, <2>3, TouchesTwice
<1>9. Touches(t, s, ch) /\ s.chans[ch] = IF ok /\ ~Closed(c) THEN Granted(c) ELSE None
  BY <1>8
<1>10. s.down = t.down
  BY <1>9 DEF Touches
<1> HIDE DEF s
<1>11. Slot(e, s.chans[ch], user'[e][ch], s.down, accepted'[e][ch])
  BY <1>1, <1>4, <1>7, <1>9, <1>10 DEF Slot
<1>12. \E u \in UserType : user' = [user EXCEPT ![e][ch] = u]
  BY <1>1, <1>2 DEF UserType
<1> QED BY <1>1, <1>2, <1>6, <1>9, <1>11, <1>12, ChannelStep DEF t

\* A nonempty set of numbers has a least one, so next_out finds a channel.
NumbersBelow == {p \in Nat \X Nat : p[1] < p[2]}

LEMMA LeastNumber ==
    ASSUME NEW S \in SUBSET Nat, S # {}
    PROVE  \E m \in S : \A k \in S : m <= k
<1>1. IsWellFoundedOn(NumbersBelow, Nat)
  BY NatLessThanWellFounded DEF OpToRel, NumbersBelow
<1>2. PICK m \in S : \A k \in S : ~(<<k, m>> \in NumbersBelow)
  BY <1>1, WFMin
<1>3. \A k \in S : m <= k
  <2> TAKE k \in S
  <2>1. m \in Nat /\ k \in Nat /\ ~(k < m)
    BY <1>2 DEF NumbersBelow
  <2> QED BY <2>1
<1> QED BY <1>3

LEMMA NextTurnIsReady ==
    ASSUME NEW t \in Shape, Ready(t) # {}
    PROVE  /\ NextTurn(t) \in Ch /\ Has(t, NextTurn(t))
           /\ CloseReady(t.chans[NextTurn(t)]) \/ DataReady(t.chans[NextTurn(t)])
<1> DEFINE D == {Distance(t, ch) : ch \in Ready(t)}
<1>1. Ready(t) \subseteq Ch
  BY DEF Ready, Present
<1>2. D \in SUBSET Nat /\ D # {}
  BY <1>1, SizesAssumption DEF Distance, Ch
<1>3. PICK m \in D : \A k \in D : m <= k
  <2> HIDE DEF D
  <2> QED BY <1>2, LeastNumber
<1>4. \E ch \in Ready(t) : \A o \in Ready(t) : Distance(t, ch) <= Distance(t, o)
  <2>1. PICK ch \in Ready(t) : m = Distance(t, ch)
    BY <1>3
  <2>2. \A o \in Ready(t) : Distance(t, o) \in D
    OBVIOUS
  <2> QED BY <1>3, <2>1, <2>2
<1>5. NextTurn(t) \in Ready(t)
  BY <1>4 DEF NextTurn
<1> QED BY <1>1, <1>5 DEF Ready, Present

\* A channel's turn.
LEMMA TurnSlot ==
    ASSUME LinkInv, NEW e \in Ends, NEW ch \in Ch, Has(table[e], ch), ~table[e].down,
           CloseReady(table[e].chans[ch]) \/ DataReady(table[e].chans[ch])
    PROVE  LET t == ChannelSent(table[e], ch)
           IN  /\ Touches(table[e], t, ch) /\ ChannelFrame(table[e], ch) \in Message
               /\ Slot(e, t.chans[ch], user[e][ch], t.down, accepted[e][ch])
<1> DEFINE t == table[e]
           c == t.chans[ch]
           u == user[e][ch]
           n == accepted[e][ch]
           v == [t EXCEPT !.turn = ch]
<1>0. t \in Shape /\ c \in ChanRecord /\ c # None /\ u \in UserType /\ n \in Nat /\ t.down \in BOOLEAN
  BY HeldIsOpened DEF Has, Shape
<1>1. Slot(e, c, u, t.down, n)
  BY DEF LinkInv, Slots
<1>2. v \in Shape /\ v.chans = t.chans /\ v.down = t.down /\ Touches(t, v, ch)
  BY <1>0 DEF Shape, Touches
<1>3. CASE CloseReady(c)
  <2> DEFINE d == Woken(OutboundCleared([c EXCEPT !.closeSent = TRUE]))
             p == Woken(OutboundCleared([c EXCEPT !.peerClosed = c.peerClosed, !.closeSent = TRUE]))
  <2>1. ChannelSent(t, ch) = Reaped(Put(v, ch, d), ch)
    BY <1>3 DEF ChannelSent
  <2>2. [c EXCEPT !.closeSent = TRUE] = [c EXCEPT !.peerClosed = c.peerClosed, !.closeSent = TRUE]
    BY <1>0 DEF ChanRecord
  <2>3. c.peerClosed \in Reasons /\ c.localClose # "no" /\ (c.localClose = "eof" => t.down \/ c.sent = n)
    BY <1>0, <1>1, <1>3 DEF ChanRecord, CloseReady, Slot, Written
  <2>4. p \in ChanRecord /\ Slot(e, p, u, t.down, n)
    BY <1>0, <1>1, <2>3, CloseSlot
  <2>5. d \in ChanRecord /\ Slot(e, d, u, v.down, n)
    BY <1>2, <2>2, <2>4
  <2> HIDE DEF d, p, v
  <2>6. /\ Touches(v, ChannelSent(t, ch), ch)
        /\ Slot(e, ChannelSent(t, ch).chans[ch], u, ChannelSent(t, ch).down, n)
    BY <1>0, <1>2, <2>1, <2>5, PutSlot
  <2>7. ChannelFrame(t, ch) = [kind |-> "close", ch |-> ch, reason |-> c.localClose]
    BY <1>3 DEF ChannelFrame
  <2>8. ChannelFrame(t, ch) \in Message
    <3>1. c.localClose \in Reasons \ {"no"}
      BY <1>0, <2>3 DEF ChanRecord
    <3> QED BY <2>7, <3>1, MessagesMade
  <2> QED BY <1>2, <2>6, <2>8, TouchesTwice
<1>4. CASE ~CloseReady(c)
  <2> DEFINE k == Min2(Outbound(c), Min2(c.credit, CHUNK))
             d == [c EXCEPT !.sent = @ + k, !.credit = @ - k, !.writeWaker = FALSE]
  <2>1. ChannelSent(t, ch) = Put(v, ch, d)
    BY <1>4 DEF ChannelSent
  <2>2. /\ d \in ChanRecord /\ Slot(e, d, u, t.down, n) /\ k \in 1..CHUNK
    BY <1>0, <1>1, <1>4, SentSlot
  <2>3. ChannelFrame(t, ch) = [kind |-> "data", ch |-> ch, lo |-> c.sent, hi |-> c.sent + k]
    BY <1>4 DEF ChannelFrame
  <2> HIDE DEF k, d, v
  <2>a. c.sent \in Nat /\ k \in Nat
    BY <1>0, <2>2, SizesAssumption DEF ChanRecord
  <2>4. c.sent \in Nat /\ c.sent + k \in Nat
    BY <2>a
  <2>5. ChannelFrame(t, ch) \in Message
    BY <2>3, <2>4, MessagesMade
  <2>6. /\ Touches(v, ChannelSent(t, ch), ch)
        /\ Slot(e, ChannelSent(t, ch).chans[ch], u, ChannelSent(t, ch).down, n)
    BY <1>0, <1>2, <2>1, <2>2, PutSlot
  <2> QED BY <1>2, <2>5, <2>6, TouchesTwice
<1> QED BY <1>3, <1>4

LEMMA NextOutKeeps ==
    ASSUME LinkInv, NEW e \in Ends, NextOut(e)
    PROVE  LinkInv'
<1> DEFINE t == table[e]
<1>0. t \in Shape /\ Peer(e) \in Ends /\ UNCHANGED <<user, broken, accepted, got, load>> /\ ~t.down
  BY Histories, PipesKept DEF NextOut
<1>1. CASE /\ OpsFirst(t)
           /\ pipe' = [pipe EXCEPT ![Peer(e)] = Append(@, Head(t.ops))]
           /\ table' = [table EXCEPT ![e].ops = Tail(@)]
           /\ UNCHANGED task
  <2> DEFINE s == [t EXCEPT !.ops = Tail(@)]
  <2>0. Head(t.ops) \in Op /\ Tail(t.ops) \in Seq(Op)
    BY <1>0, <1>1 DEF OpsFirst, Shape
  <2>1. Head(t.ops) \in Message
    BY <2>0 DEF Message
  <2>2. s \in Shape /\ s.chans = t.chans /\ s.down = t.down /\ s.highest = t.highest
    BY <1>0, <2>0 DEF Shape
  <2>3. table' = [table EXCEPT ![e] = s]
    BY <1>1
  <2>4. PipesTyped'
    BY <1>0, <1>1, <2>1, PipesKept, Histories DEF PipesTyped
  <2>a. t.highest \in Ch
    BY <1>0 DEF Shape
  <2>b. 0 \in Ch /\ 0 <= t.highest
    BY <2>a, SizesAssumption DEF Ch
  <2>5. 0 \in Ch /\ 0 <= t.highest /\ Touches(t, s, 0)
    BY <2>b, <2>2 DEF Touches
  <2>6. Slot(e, s.chans[0], user'[e][0], s.down, accepted'[e][0])
    BY <1>0, <2>2, <2>5 DEF LinkInv, Slots
  <2> HIDE DEF s
  <2> QED BY <1>0, <2>3, <2>4, <2>5, <2>6, ChannelStep
<1>2. CASE /\ Ready(t) # {}
           /\ LET ch == NextTurn(t)
                  f  == ChannelFrame(t, ch)
              IN  /\ pipe' = [pipe EXCEPT ![Peer(e)] = Append(@, f)]
                  /\ table' = [table EXCEPT ![e] = ChannelSent(t, ch)]
                  /\ task' = [task EXCEPT ![e] = IF f.kind = "close" /\ ch = 0 THEN "stopped" ELSE @]
  <2> DEFINE ch == NextTurn(t)
             s  == ChannelSent(t, ch)
  <2>1. ch \in Ch /\ Has(t, ch) /\ (CloseReady(t.chans[ch]) \/ DataReady(t.chans[ch]))
    BY <1>0, <1>2, NextTurnIsReady
  <2>2. /\ pipe' = [pipe EXCEPT ![Peer(e)] = Append(@, ChannelFrame(t, ch))]
        /\ table' = [table EXCEPT ![e] = s]
        /\ \/ task' = [task EXCEPT ![e] = "stopped"]
           \/ task' = [task EXCEPT ![e] = @]
    BY <1>2
  <2> HIDE DEF ch
  <2>3. /\ Touches(t, s, ch) /\ ChannelFrame(t, ch) \in Message
        /\ Slot(e, s.chans[ch], user[e][ch], s.down, accepted[e][ch])
    BY <1>0, <2>1, TurnSlot
  <2>4. ch <= t.highest
    BY <2>1, HeldIsOpened
  <2>5. PipesTyped'
    BY <1>0, <2>2, <2>3, PipesKept, Histories DEF PipesTyped
  <2> HIDE DEF s
  <2> QED BY <1>0, <2>1, <2>2, <2>3, <2>4, <2>5, ChannelStep
<1> QED BY <1>1, <1>2 DEF NextOut

\* A channel whose user has it is in the table, open and not released.
LEMMA UsersChannel ==
    ASSUME LinkInv, NEW e \in Ends, NEW ch \in Ch, user[e][ch] \in {"using", "flushed", "shut", "opening"}
    PROVE  LET t == table[e]  c == t.chans[ch]
           IN  /\ t \in Shape /\ Has(t, ch) /\ c \in ChanRecord /\ c # None /\ t.down \in BOOLEAN
               /\ user[e][ch] \in UserType /\ accepted[e][ch] \in Nat /\ got[e][ch] \in Nat
               /\ ch <= t.highest /\ Slot(e, c, user[e][ch], t.down, accepted[e][ch]) /\ ~c.released
               /\ user[e][ch] # "opening" => c.phase = "open"
               /\ user[e][ch] = "opening" => e = "window"
<1>1. Slot(e, table[e].chans[ch], user[e][ch], table[e].down, accepted[e][ch])
  BY DEF LinkInv, Slots
<1>2. Has(table[e], ch)
  BY <1>1 DEF Slot, Has
<1>3. table[e] \in Shape /\ table[e].down \in BOOLEAN
  BY Histories DEF Shape
<1> QED BY <1>1, <1>2, <1>3, HeldIsOpened DEF Slot, Served, Has

\* A step that puts a channel back changed, with its user's state and count.
LEMMA PutKeeps ==
    ASSUME LinkInv, NEW e \in Ends, NEW ch \in Ch, Has(table[e], ch),
           NEW c \in ChanRecord, table' = [table EXCEPT ![e] = Put(table[e], ch, c)],
           UNCHANGED <<pipe, task, broken, load>>,
           user' = user \/ \E u \in UserType : user' = [user EXCEPT ![e][ch] = u],
           accepted' = accepted \/ \E a \in Nat : accepted' = [accepted EXCEPT ![e][ch] = a],
           got' = got \/ \E g \in Nat : got' = [got EXCEPT ![e][ch] = g],
           Slot(e, c, user'[e][ch], table[e].down, accepted'[e][ch])
    PROVE  LinkInv'
<1> DEFINE s == Put(table[e], ch, c)
<1>1. table[e] \in Shape /\ ch <= table[e].highest
  BY HeldIsOpened
<1>2. Touches(table[e], s, ch) /\ s.chans[ch] = c
  BY <1>1, PutTouches
<1>3. Slot(e, s.chans[ch], user'[e][ch], s.down, accepted'[e][ch])
  BY <1>2 DEF Touches
<1>4. PipesTyped'
  BY Histories DEF PipesTyped
<1> HIDE DEF s
<1> QED BY <1>1, <1>2, <1>3, <1>4, ChannelStep DEF s

\* A queue whose oldest chunk is read in part or whole.
FrontRead(q, k) == IF Head(q)[1] + k = Head(q)[2] THEN Tail(q)
                   ELSE <<<<Head(q)[1] + k, Head(q)[2]>>>> \o Tail(q)

LEMMA FrontReadType ==
    ASSUME NEW q \in Seq(Nat \X Nat), q # <<>>, NEW k \in Nat
    PROVE  FrontRead(q, k) \in Seq(Nat \X Nat)
<1>1. Head(q) \in Nat \X Nat /\ Tail(q) \in Seq(Nat \X Nat)
  OBVIOUS
<1>2. Head(q)[1] \in Nat /\ Head(q)[2] \in Nat
  BY <1>1
<1>3. Head(q)[1] + k \in Nat
  BY <1>2
<1> DEFINE x == <<Head(q)[1] + k, Head(q)[2]>>
<1>4. x \in Nat \X Nat
  BY <1>2, <1>3
<1> HIDE DEF x
<1>5. <<x>> \o Tail(q) \in Seq(Nat \X Nat)
  <2>1. <<x>> \in Seq(Nat \X Nat)
    BY <1>4
  <2>2. Tail(q) \in Seq(Nat \X Nat)
    BY <1>1
  <2> QED BY <2>1, <2>2
<1> QED BY <1>1, <1>5 DEF FrontRead, x

LEMMA ReadKeeps ==
    ASSUME LinkInv, NEW e \in Ends, NEW ch \in Ch, NEW k \in 1..CHUNK, Read(e, ch, k)
    PROVE  LinkInv'
<1> DEFINE t == table[e]
           c == t.chans[ch]
           n == accepted[e][ch]
           in == FrontRead(c.inbound, k)
           d == ReadFrom(c, k)
           s == Put(t, ch, d)
<1>0. /\ t \in Shape /\ Has(t, ch) /\ c \in ChanRecord /\ c # None /\ t.down \in BOOLEAN
      /\ user[e][ch] \in UserType /\ n \in Nat /\ got[e][ch] \in Nat
      /\ ch <= t.highest /\ Slot(e, c, user[e][ch], t.down, n)
      /\ c.inbound # <<>> /\ k \in Nat
      /\ got' = [got EXCEPT ![e][ch] = @ + k] /\ UNCHANGED <<user, pipe, task, broken, accepted, load>>
  BY UsersChannel, SizesAssumption DEF Read, Holds
<1>1. c.inbound \in Seq(Nat \X Nat) /\ c.unreturned \in Nat /\ c.allowance \in Nat
  BY <1>0 DEF ChanRecord
<1>2. k \in Nat /\ got[e][ch] \in Nat
  BY <1>0
<1>4. in \in Seq(Nat \X Nat)
  BY <1>0, <1>1, <1>2, FrontReadType
<1>5. ~c.readWaker
  BY <1>0 DEF Slot, Asleep
<1>6. c.unreturned + k \in Nat /\ got[e][ch] + k \in Nat
  BY <1>1, <1>2, SumsOfNumbers
<1>7. d = [c EXCEPT !.inbound = in, !.unreturned = c.unreturned + k, !.allowance = c.allowance]
  <2>1. d = [c EXCEPT !.unreturned = c.unreturned + k, !.inbound = in]
    BY DEF ReadFrom, FrontRead
  <2> HIDE DEF d, in
  <2> QED BY <1>0, <2>1 DEF ChanRecord
<1> HIDE DEF in, d
<1>8. d \in ChanRecord /\ Slot(e, d, user[e][ch], t.down, n)
  <2>1. CountsRead(c, d)
    BY <1>1, <1>4, <1>6, <1>7 DEF CountsRead
  <2> HIDE DEF t, c, n
  <2> QED BY <1>0, <1>5, <2>1, ReaderSlot
<1>9. \E g \in Nat : got' = [got EXCEPT ![e][ch] = g]
  <2>1. got' = [got EXCEPT ![e][ch] = got[e][ch] + k]
    BY <1>0
  <2> QED BY <1>6, <2>1
<1>10. PipesTyped'
  BY <1>0, Histories DEF PipesTyped
<1>11. d.inbound = in /\ d.readWaker = c.readWaker /\ d # None
  <2>1. d.inbound = in /\ d.readWaker = c.readWaker
    BY <1>0, <1>7 DEF ChanRecord
  <2> QED BY <1>8, <2>1, ChansAreNotNone
<1>12. s \in Shape /\ s.chans[ch] = d /\ Touches(t, s, ch) /\ s.down = t.down
  <2> HIDE DEF t, c, n
  <2>1. Touches(t, s, ch) /\ s.chans[ch] = d
    BY <1>0, <1>8, PutTouches
  <2> QED BY <2>1 DEF Touches
<1>13. CASE ~CreditDue(s, s.chans[ch])
  <2>1. table' = [table EXCEPT ![e] = s]
    BY <1>13 DEF Read, d
  <2> QED BY <1>0, <1>8, <1>9, <2>1, PutKeeps
<1>14. CASE CreditDue(s, s.chans[ch])
  <2> DEFINE b == [d EXCEPT !.inbound = in, !.unreturned = 0, !.allowance = d.allowance + d.unreturned]
             m == [kind |-> "credit", ch |-> ch, bytes |-> d.unreturned]
             r == CreditReturned(s, ch)
  <2>1. table' = [table EXCEPT ![e] = r]
    BY <1>14 DEF Read, d
  <2>2. d.unreturned \in Nat /\ d.allowance \in Nat /\ d.allowance + d.unreturned \in Nat /\ d.inbound = in
    BY <1>8, <1>11 DEF ChanRecord
  <2>3. [d EXCEPT !.allowance = @ + d.unreturned, !.unreturned = 0] = b
    BY <1>8, <2>2 DEF ChanRecord
  <2>4. b \in ChanRecord /\ Slot(e, b, user[e][ch], t.down, n)
    <3>1. CountsRead(d, b) /\ ~d.readWaker
      BY <1>4, <1>5, <1>11, <2>2 DEF CountsRead
    <3> HIDE DEF t, c, n, b
    <3> QED BY <1>0, <1>8, <1>11, <3>1, ReaderSlot
  <2>5. r = Queue(Put(s, ch, b), m)
    BY <1>12, <2>3 DEF CreditReturned
  <2>6. m \in Op
    BY <2>2, MessagesMade
  <2> HIDE DEF b, m
  <2>7. Touches(s, Put(s, ch, b), ch) /\ Put(s, ch, b).chans[ch] = b
    BY <1>12, <2>4, PutTouches
  <2>8. Touches(Put(s, ch, b), r, ch) /\ r.chans[ch] = b
    BY <2>5, <2>6, <2>7, QueueTouches DEF Touches
  <2>9. Touches(t, r, ch) /\ r.down = t.down
    BY <1>12, <2>7, <2>8, TouchesTwice DEF Touches
  <2> HIDE DEF r, s
  <2>10. Slot(e, r.chans[ch], user'[e][ch], r.down, accepted'[e][ch])
    BY <1>0, <2>4, <2>8, <2>9
  <2> QED BY <1>0, <1>9, <1>10, <2>1, <2>9, <2>10, ChannelStep
<1> QED BY <1>13, <1>14

LEMMA WaitsKeep ==
    ASSUME LinkInv, NEW e \in Ends, NEW ch \in Ch, ReadWaits(e, ch) \/ WriteWaits(e, ch)
    PROVE  LinkInv'
<1> DEFINE c == table[e].chans[ch]
           r == [c EXCEPT !.readWaker = TRUE]
           w == [c EXCEPT !.writeWaker = TRUE]
<1>1. user[e][ch] \in {"using", "flushed", "shut"} /\ UNCHANGED <<user, pipe, task, broken, accepted, got, load>>
  BY DEF ReadWaits, WriteWaits, UserStep, Holds, CanWrite
<1>2. /\ table[e] \in Shape /\ Has(table[e], ch) /\ c \in ChanRecord /\ c # None /\ table[e].down \in BOOLEAN
      /\ user[e][ch] \in UserType /\ accepted[e][ch] \in Nat
      /\ Slot(e, c, user[e][ch], table[e].down, accepted[e][ch])
  BY <1>1, UsersChannel
<1>3. CASE ReadWaits(e, ch)
  <2>1. c.inbound = <<>> /\ ~Closed(c) /\ ~table[e].down /\ table' = [table EXCEPT ![e] = Put(table[e], ch, r)]
    BY <1>3 DEF ReadWaits, UserStep
  <2>2. r \in ChanRecord /\ Slot(e, r, user[e][ch], table[e].down, accepted[e][ch])
    BY <1>2, <2>1, ReadWaitsSlot
  <2> HIDE DEF r
  <2> QED BY <1>1, <1>2, <2>1, <2>2, PutKeeps
<1>4. CASE WriteWaits(e, ch)
  <2>1. /\ Outbound(c) # 0 /\ ~c.cancelled /\ ~table[e].down
        /\ table' = [table EXCEPT ![e] = Put(table[e], ch, w)]
    BY <1>4, SizesAssumption DEF WriteWaits, CanWrite, UserStep
  <2>2. w \in ChanRecord /\ Slot(e, w, user[e][ch], table[e].down, accepted[e][ch])
    BY <1>2, <2>1, WriteWaitsSlot
  <2> HIDE DEF w
  <2> QED BY <1>1, <1>2, <2>1, <2>2, PutKeeps
<1> QED BY <1>3, <1>4

LEMMA WriteKeeps ==
    ASSUME LinkInv, NEW e \in Ends, NEW ch \in Ch, NEW k \in 1..CHUNK, Write(e, ch, k)
    PROVE  LinkInv'
<1> DEFINE c == table[e].chans[ch]
           d == [c EXCEPT !.queued = @ + k]
           n == accepted[e][ch]
<1>1. /\ user[e][ch] = "using" /\ ~Closed(c) /\ ~c.writeWaker /\ k \in Nat
      /\ table' = [table EXCEPT ![e] = Put(table[e], ch, d)]
      /\ accepted' = [accepted EXCEPT ![e][ch] = n + k] /\ UNCHANGED <<user, pipe, task, broken, got, load>>
  BY SizesAssumption DEF Write, CanWrite, UserStep
<1>2. /\ Has(table[e], ch) /\ c \in ChanRecord /\ c # None /\ table[e].down \in BOOLEAN
      /\ n \in Nat /\ Slot(e, c, "using", table[e].down, n)
  BY <1>1, UsersChannel
<1>3. d \in ChanRecord /\ Slot(e, d, "using", table[e].down, n + k)
  BY <1>1, <1>2, WriteSlot
<1>4. n + k \in Nat
  BY <1>1, <1>2
<1>5. accepted'[e][ch] = n + k
  BY <1>1, Histories
<1> HIDE DEF c, d, n
<1>6. \E a \in Nat : accepted' = [accepted EXCEPT ![e][ch] = a]
  BY <1>1, <1>4
<1>7. Slot(e, d, user'[e][ch], table[e].down, accepted'[e][ch])
  BY <1>1, <1>3, <1>5
<1> QED BY <1>1, <1>2, <1>3, <1>6, <1>7, PutKeeps

LEMMA FlushKeeps ==
    ASSUME LinkInv, NEW e \in Ends, NEW ch \in Ch, Flush(e, ch)
    PROVE  LinkInv'
<1> DEFINE t == table[e]
           c == t.chans[ch]
           n == accepted[e][ch]
           w == [c EXCEPT !.writeWaker = TRUE]
<1>1. user[e][ch] = "using" /\ UNCHANGED <<pipe, task, broken, accepted, got, load>>
  BY DEF Flush
<1>2. /\ t \in Shape /\ Has(t, ch) /\ c \in ChanRecord /\ c # None /\ t.down \in BOOLEAN
      /\ n \in Nat /\ Slot(e, c, "using", t.down, n) /\ ch <= t.highest
  BY <1>1, UsersChannel
<1>3. PipesTyped'
  BY <1>1, Histories DEF PipesTyped
<1>4. CASE Flushed(e, ch) /\ user' = [user EXCEPT ![e][ch] = "flushed"] /\ UNCHANGED table
  <2>1. c.sent \in Nat /\ c.queued \in Nat
    BY <1>2 DEF ChanRecord
  <2>2. t.down \/ Closed(c) \/ c.sent = c.queued
    BY <1>2, <1>4, <2>1 DEF Flushed, Closed, Slot, Closing, Outbound
  <2>3. Slot(e, c, "flushed", t.down, n)
    BY <1>2, <2>2 DEF Slot, Served, Written
  <2>4. /\ user' = [user EXCEPT ![e][ch] = "flushed"] /\ user'[e][ch] = "flushed" /\ "flushed" \in UserType
        /\ table' = [table EXCEPT ![e] = t] /\ Touches(t, t, ch)
    BY <1>2, <1>4, Histories DEF UserType, Touches
  <2> QED BY <1>1, <1>2, <1>3, <2>3, <2>4, ChannelStep
<1>5. CASE ~Flushed(e, ch) /\ table' = [table EXCEPT ![e].chans[ch].writeWaker = TRUE] /\ UNCHANGED user
  <2>1. Outbound(c) # 0 /\ ~c.cancelled /\ ~t.down
    BY <1>5 DEF Flushed
  <2>2. w \in ChanRecord /\ Slot(e, w, "using", t.down, n)
    <3>1. "using" \in UserType
      BY DEF UserType
    <3> QED BY <1>2, <2>1, <3>1, WriteWaitsSlot
  <2>3. table' = [table EXCEPT ![e] = Put(t, ch, w)]
    BY <1>5 DEF Put
  <2>4. Slot(e, w, user'[e][ch], t.down, accepted'[e][ch])
    BY <1>1, <1>5, <2>2
  <2>5. UNCHANGED <<user, pipe, task, broken, accepted, got, load>> /\ Has(table[e], ch)
    BY <1>1, <1>2, <1>5
  <2> HIDE DEF w, c, n
  <2> QED BY <2>2, <2>3, <2>4, <2>5, PutKeeps
<1> QED BY <1>4, <1>5 DEF Flush

LEMMA ShutdownKeeps ==
    ASSUME LinkInv, NEW e \in Ends, NEW ch \in Ch, Shutdown(e, ch)
    PROVE  LinkInv'
<1> DEFINE c == table[e].chans[ch]
           d == [c EXCEPT !.localClose = IF Closed(c) THEN @ ELSE "eof"]
<1>1. /\ user[e][ch] = "flushed" /\ table' = [table EXCEPT ![e] = Put(table[e], ch, d)]
      /\ user' = [user EXCEPT ![e][ch] = "shut"] /\ UNCHANGED <<pipe, task, broken, accepted, got, load>>
  BY DEF Shutdown, UserStep
<1>2. /\ Has(table[e], ch) /\ c \in ChanRecord /\ c # None /\ table[e].down \in BOOLEAN
      /\ accepted[e][ch] \in Nat /\ Slot(e, c, "flushed", table[e].down, accepted[e][ch])
  BY <1>1, UsersChannel
<1>3. d \in ChanRecord /\ Slot(e, d, "shut", table[e].down, accepted[e][ch])
  BY <1>2, ShutdownSlot
<1>4. user'[e][ch] = "shut" /\ "shut" \in UserType
  BY <1>1, Histories DEF UserType
<1> HIDE DEF c, d
<1> QED BY <1>1, <1>2, <1>3, <1>4, PutKeeps

LEMMA CancelKeeps ==
    ASSUME LinkInv, NEW ch \in Ch, Cancel(ch)
    PROVE  LinkInv'
<1> DEFINE e == "window"
           c == table[e].chans[ch]
           d == [c EXCEPT !.cancelled = TRUE,
                          !.localClose = IF ~Closed(c) /\ c.phase = "open" THEN "reset" ELSE @]
           w == Woken(OutboundCleared(d))
<1>1. /\ e \in Ends /\ user[e][ch] \in {"using", "flushed", "shut"}
      /\ table' = [table EXCEPT ![e] = Put(table[e], ch, w)]
      /\ UNCHANGED <<user, pipe, task, broken, accepted, got, load>>
  BY DEF Cancel, UserStep, Holds, Ends
<1> HIDE DEF e
<1>2. /\ Has(table[e], ch) /\ c \in ChanRecord /\ c # None /\ table[e].down \in BOOLEAN
      /\ user[e][ch] \in UserType /\ accepted[e][ch] \in Nat
      /\ Slot(e, c, user[e][ch], table[e].down, accepted[e][ch])
  BY <1>1, UsersChannel
<1>3. w \in ChanRecord /\ Slot(e, w, user[e][ch], table[e].down, accepted[e][ch])
  BY <1>1, <1>2, CancelSlot
<1> HIDE DEF c, w
<1> QED BY <1>1, <1>2, <1>3, PutKeeps

\* The reap of a channel put back changed.
LEMMA ReapKeeps ==
    ASSUME LinkInv, NEW e \in Ends, NEW ch \in Ch, Has(table[e], ch), NEW c \in ChanRecord,
           table' = [table EXCEPT ![e] = Reaped(Put(table[e], ch, c), ch)],
           UNCHANGED <<pipe, task, broken, accepted, got, load>>,
           NEW u \in UserType, user' = [user EXCEPT ![e][ch] = u],
           Slot(e, c, u, table[e].down, accepted[e][ch])
    PROVE  LinkInv'
<1> DEFINE s == Reaped(Put(table[e], ch, c), ch)
<1>1. table[e] \in Shape /\ ch <= table[e].highest /\ accepted[e][ch] \in Nat
  BY HeldIsOpened
<1>2. Touches(table[e], s, ch) /\ Slot(e, s.chans[ch], u, s.down, accepted[e][ch])
  BY <1>1, PutSlot
<1>3. user'[e][ch] = u /\ PipesTyped'
  BY Histories DEF PipesTyped
<1> HIDE DEF s
<1>4. table' = [table EXCEPT ![e] = s]
  BY DEF s
<1> QED BY <1>1, <1>2, <1>3, <1>4, ChannelStep

LEMMA ReleaseKeeps ==
    ASSUME LinkInv, NEW e \in Ends, NEW ch \in Ch, Release(e, ch)
    PROVE  LinkInv'
<1> DEFINE c == table[e].chans[ch]
<1>1. /\ user[e][ch] \in {"using", "flushed", "shut"}
      /\ table' = [table EXCEPT ![e] = Reaped(Put(table[e], ch, ReleasedChan(c)), ch)]
      /\ user' = [user EXCEPT ![e][ch] = "gone"] /\ UNCHANGED <<pipe, task, broken, accepted, got, load>>
  BY DEF Release, ReleasedIn, Holds
<1>2. /\ Has(table[e], ch) /\ c \in ChanRecord /\ c # None /\ table[e].down \in BOOLEAN /\ c.phase = "open"
      /\ user[e][ch] \in UserType /\ accepted[e][ch] \in Nat
      /\ Slot(e, c, user[e][ch], table[e].down, accepted[e][ch])
  BY <1>1, UsersChannel
<1>3. ReleasedChan(c) \in ChanRecord /\ Slot(e, ReleasedChan(c), "gone", table[e].down, accepted[e][ch])
  BY <1>2, ReleasedSlot
<1>4. "gone" \in UserType
  BY DEF UserType
<1> HIDE DEF c
<1> QED BY <1>1, <1>2, <1>3, <1>4, ReapKeeps

LEMMA BeginOpenKeeps ==
    ASSUME LinkInv, BeginOpen
    PROVE  LinkInv'
<1> DEFINE e == "window"
           t == table[e]
           ch == t.highest + 1
           raised == [t EXCEPT !.highest = ch]
           f == [kind |-> "open", ch |-> ch]
           s == Queue(Put(raised, ch, NewChan("opening")), f)
<1>1. /\ e \in Ends /\ ch <= load.chans /\ table' = [table EXCEPT ![e] = s]
      /\ user' = [user EXCEPT ![e][ch] = "opening"] /\ UNCHANGED <<pipe, task, broken, accepted, got, load>>
  BY DEF BeginOpen, Ends
<1>2. t \in Shape /\ load \in LoadType
  BY <1>1, Histories, SizesAssumption DEF LinkInv, Shaped
<1>3. t.highest \in Ch /\ load.chans \in Ch /\ t.down \in BOOLEAN
  BY <1>2 DEF Shape, LoadType
<1>4. ch \in Ch
  BY <1>1, <1>3, SizesAssumption DEF Ch
<1>5. raised \in Shape /\ raised.highest = ch /\ raised.chans = t.chans /\ raised.down = t.down
  BY <1>2, <1>4 DEF Shape
<1>6. f \in Op /\ NewChan("opening") \in ChanRecord
  BY <1>4, MessagesMade, NewSlot
<1> HIDE DEF raised, f, ch
<1>7. Touches(raised, Put(raised, ch, NewChan("opening")), ch) /\ Put(raised, ch, NewChan("opening")).chans[ch] = NewChan("opening")
  BY <1>4, <1>5, <1>6, PutTouches
<1>8. Touches(Put(raised, ch, NewChan("opening")), s, ch) /\ s.chans[ch] = NewChan("opening")
  BY <1>4, <1>6, <1>7, QueueTouches DEF Touches
<1>9. Touches(raised, s, ch)
  BY <1>7, <1>8, TouchesTwice
<1>10. /\ s \in Shape /\ s.highest = ch /\ s.down = t.down
       /\ \A k \in Ch : k # ch => s.chans[k] = t.chans[k]
  BY <1>5, <1>9 DEF Touches
<1> HIDE DEF s
<1>11. user'[e][ch] = "opening" /\ PipesTyped' /\ "opening" \in UserType
  BY <1>1, <1>4, Histories DEF PipesTyped, UserType
<1>12. Slot(e, s.chans[ch], user'[e][ch], s.down, 0)
  BY <1>3, <1>8, <1>10, <1>11, NewSlot
<1>13. ch = table[e].highest + 1
  BY DEF ch
<1>14. \E u \in UserType : user' = [user EXCEPT ![e][ch] = u]
  BY <1>1, <1>11
<1>15. /\ e \in Ends /\ table' = [table EXCEPT ![e] = s] /\ UNCHANGED <<accepted, got, load>>
       /\ PipesTyped'
  BY <1>1, <1>11
<1> HIDE DEF e
<1>16. OpensChannel(e, ch, s)
  BY <1>4, <1>10, <1>12, <1>13, <1>14, <1>15 DEF OpensChannel
<1> QED BY <1>16, ChannelOpens

LEMMA PollOpenKeeps ==
    ASSUME LinkInv, NEW ch \in Ch, PollOpen(ch)
    PROVE  LinkInv'
<1> DEFINE e == "window"
           t == table[e]
           c == t.chans[ch]
           n == accepted[e][ch]
           r == [c EXCEPT !.released = TRUE]
           w == [c EXCEPT !.openWaker = TRUE]
<1>1. e \in Ends /\ user[e][ch] = "opening" /\ UNCHANGED <<pipe, task, broken, accepted, got, load>>
  BY DEF PollOpen, Ends
<1>2. /\ t \in Shape /\ Has(t, ch) /\ c \in ChanRecord /\ c # None /\ t.down \in BOOLEAN
      /\ n \in Nat /\ Slot(e, c, "opening", t.down, n) /\ ch <= t.highest
  BY <1>1, UsersChannel
<1>3. PipesTyped'
  BY <1>1, Histories DEF PipesTyped
<1>4. /\ c.phase = "open" => Slot(e, c, "using", t.down, n)
      /\ Slot(e, c, "gone", t.down, n)
      /\ r \in ChanRecord /\ (c.phase # "open" => Slot(e, r, "gone", t.down, n))
      /\ w \in ChanRecord /\ (c.phase = "opening" /\ ~t.down => Slot(e, w, "opening", t.down, n))
  BY <1>2, OpenerSlot
<1>5. "using" \in UserType /\ "gone" \in UserType
  BY DEF UserType
<1>6. CASE /\ UNCHANGED table
           /\ \/ c.phase = "open" /\ user' = [user EXCEPT ![e][ch] = "using"]
              \/ user' = [user EXCEPT ![e][ch] = "gone"]
  <2>1. table' = [table EXCEPT ![e] = t] /\ Touches(t, t, ch)
    BY <1>2, <1>6, Histories DEF Touches
  <2>2. PICK u \in UserType : user' = [user EXCEPT ![e][ch] = u] /\ Slot(e, c, u, t.down, n)
    BY <1>4, <1>5, <1>6
  <2>3. user'[e][ch] = u
    BY <1>1, <2>2, Histories
  <2> HIDE DEF e
  <2> QED BY <1>1, <1>2, <1>3, <2>1, <2>2, <2>3, ChannelStep
<1>7. CASE /\ c.phase = "refused" /\ user' = [user EXCEPT ![e][ch] = "gone"]
           /\ table' = [table EXCEPT ![e] = Reaped(Put(t, ch, r), ch)]
  <2>1. Slot(e, r, "gone", t.down, n)
    BY <1>4, <1>7
  <2> HIDE DEF e, r
  <2> QED BY <1>1, <1>2, <1>4, <1>5, <1>7, <2>1, ReapKeeps
<1>8. CASE /\ c.phase = "opening" /\ ~t.down /\ UNCHANGED user
           /\ table' = [table EXCEPT ![e].chans[ch].openWaker = TRUE]
  <2>1. table' = [table EXCEPT ![e] = Put(t, ch, w)]
    BY <1>8 DEF Put
  <2>2. Slot(e, w, user'[e][ch], t.down, accepted'[e][ch])
    BY <1>1, <1>4, <1>8
  <2>3. /\ UNCHANGED <<user, pipe, task, broken, accepted, got, load>> /\ Has(table[e], ch)
        /\ e \in Ends /\ w \in ChanRecord
    BY <1>1, <1>2, <1>4, <1>8
  <2> HIDE DEF e, w, c, n, r
  <2> QED BY <2>1, <2>2, <2>3, PutKeeps
<1> QED BY <1>6, <1>7, <1>8 DEF PollOpen

LEMMA AbandonKeeps ==
    ASSUME LinkInv, NEW ch \in Ch, Abandon(ch)
    PROVE  LinkInv'
<1> DEFINE e == "window"
           t == table[e]
           c == t.chans[ch]
           n == accepted[e][ch]
           r == [c EXCEPT !.released = TRUE]
<1>1. /\ e \in Ends /\ user[e][ch] = "opening" /\ UNCHANGED <<pipe, task, broken, accepted, got, load>>
      /\ user' = [user EXCEPT ![e][ch] = "gone"]
      /\ table' = [table EXCEPT ![e] = IF c.phase = "opening" THEN Put(t, ch, r) ELSE ReleasedIn(t, ch)]
  BY DEF Abandon, Ends
<1>2. /\ t \in Shape /\ Has(t, ch) /\ c \in ChanRecord /\ c # None /\ t.down \in BOOLEAN
      /\ n \in Nat /\ Slot(e, c, "opening", t.down, n)
  BY <1>1, UsersChannel
<1>3. "gone" \in UserType /\ "opening" \in UserType /\ user'[e][ch] = "gone"
  BY <1>1, Histories DEF UserType
<1>4. CASE c.phase = "opening"
  <2>1. r \in ChanRecord /\ Slot(e, r, "gone", t.down, n)
    BY <1>2, <1>4, OpenerSlot
  <2>2. table' = [table EXCEPT ![e] = Put(t, ch, r)]
    BY <1>1, <1>4
  <2>3. Slot(e, r, user'[e][ch], t.down, accepted'[e][ch])
    BY <1>1, <1>3, <2>1
  <2> HIDE DEF e, r
  <2> QED BY <1>1, <1>2, <1>3, <2>1, <2>2, <2>3, PutKeeps
<1>5. CASE c.phase # "opening"
  <2>1. ReleasedChan(c) \in ChanRecord /\ Slot(e, ReleasedChan(c), "gone", t.down, n)
    BY <1>1, <1>2, <1>3, ReleasedSlot
  <2>2. table' = [table EXCEPT ![e] = Reaped(Put(t, ch, ReleasedChan(c)), ch)]
    BY <1>1, <1>5 DEF ReleasedIn
  <2> HIDE DEF e
  <2> QED BY <1>1, <1>2, <1>3, <2>1, <2>2, ReapKeeps
<1> QED BY <1>4, <1>5

\* The end of a table wakes every channel of it.
LEMMA EndKeeps ==
    ASSUME LinkInv, NEW e \in Ends, table' = [table EXCEPT ![e] = Ended(@)],
           UNCHANGED <<user, pipe, task, broken, accepted, got, load>>
    PROVE  LinkInv'
<1> DEFINE t == table[e]
           s == Ended(t)
<1>0. t \in Shape
  BY Histories
<1>1. \A ch \in Ch : /\ s.chans[ch] \in ChanRecord \cup {None} /\ (Has(s, ch) => Has(t, ch))
                     /\ Slot(e, s.chans[ch], user[e][ch], TRUE, accepted[e][ch])
  <2> TAKE ch \in Ch
  <2> DEFINE c == t.chans[ch]
  <2>1. /\ Slot(e, c, user[e][ch], t.down, accepted[e][ch]) /\ user[e][ch] \in UserType
        /\ accepted[e][ch] \in Nat /\ t.down \in BOOLEAN /\ c \in ChanRecord \cup {None}
    BY <1>0, Histories DEF LinkInv, Slots, Shape
  <2>2. s.chans[ch] = IF Has(t, ch) THEN Woken(c) ELSE None
    BY <1>0 DEF Ended, Shape
  <2>3. CASE Has(t, ch)
    <3>1. Woken(c) \in ChanRecord /\ Slot(e, Woken(c), user[e][ch], TRUE, accepted[e][ch])
      BY <2>1, <2>3, WokenSlot DEF Slot, Has
    <3> QED BY <2>2, <2>3, <3>1
  <2>4. CASE ~Has(t, ch)
    BY <2>1, <2>2, <2>4 DEF Slot, Has
  <2> QED BY <2>3, <2>4
<1>2. s \in Shape /\ s.down = TRUE /\ s.highest = t.highest
  <2> DEFINE new == [ch \in Ch |-> IF Has(t, ch) THEN Woken(t.chans[ch]) ELSE None]
  <2>1. s = [t EXCEPT !.down = TRUE, !.chans = new]
    BY DEF Ended
  <2>2. s.chans = new
    BY <1>0, <2>1 DEF Shape
  <2>3. new \in [Ch -> ChanRecord \cup {None}]
    BY <1>1, <2>2
  <2> HIDE DEF new, s
  <2> QED BY <1>0, <2>1, <2>3 DEF Shape
<1> HIDE DEF s
<1>3. table' = [table EXCEPT ![e] = s]
  BY DEF s
<1>4. table'[e] = s /\ (\A d \in Ends : d # e => table'[d] = table[d]) /\ table' \in [Ends -> Shape]
  BY <1>2, <1>3, Histories
<1>5. Shaped'
  BY <1>4 DEF LinkInv, Shaped
<1>6. Slots'
  <2> SUFFICES ASSUME NEW d \in Ends, NEW k \in Ch
               PROVE  Slot(d, table'[d].chans[k], user'[d][k], table'[d].down, accepted'[d][k])
    BY DEF Slots
  <2>1. CASE d = e
    BY <1>1, <1>2, <1>4, <2>1
  <2>2. CASE d # e
    BY <1>4, <2>2 DEF LinkInv, Slots
  <2> QED BY <2>1, <2>2
<1>7. Fresh'
  <2> SUFFICES ASSUME NEW d \in Ends, NEW k \in Ch, k > table'[d].highest
               PROVE  table'[d].chans[k] = None /\ user'[d][k] = "none" /\ accepted'[d][k] = 0 /\ got'[d][k] = 0
    BY DEF Fresh
  <2>1. CASE d = e
    BY <1>1, <1>2, <1>4, <2>1 DEF LinkInv, Fresh, Has
  <2>2. CASE d # e
    BY <1>4, <2>2 DEF LinkInv, Fresh
  <2> QED BY <2>1, <2>2
<1> QED BY <1>5, <1>6, <1>7 DEF LinkInv

LEMMA TaskKeeps ==
    ASSUME LinkInv, NEW e \in Ends, StopTask(e) \/ PeerGone(e) \/ LinkFails(e)
    PROVE  LinkInv'
<1>1. UNCHANGED <<table, user, pipe, broken, accepted, got, load>> /\ task' = [task EXCEPT ![e] = "stopped"]
  BY DEF StopTask, PeerGone, LinkFails
<1>2. PipesTyped'
  BY <1>1, PipesKept, Histories DEF PipesTyped
<1> QED BY <1>1, <1>2, NoTable

LEMMA InitLinkInv == Init => LinkInv
<1> SUFFICES ASSUME Init PROVE LinkInv
  OBVIOUS
<1>0. 0 \in Ch /\ \A ch \in Ch : ch \in Nat
  BY SizesAssumption DEF Ch
<1>1. NewChan("open") \in ChanRecord /\ \A e \in Ends : Slot(e, NewChan("open"), "using", FALSE, 0)
  BY NewSlot
<1>2. /\ NewTable \in Shape /\ NewTable.down = FALSE /\ NewTable.highest = 0
      /\ \A ch \in Ch : NewTable.chans[ch] = IF ch = 0 THEN NewChan("open") ELSE None
  <2> DEFINE new == [ch \in Ch |-> IF ch = 0 THEN NewChan("open") ELSE None]
  <2>1. NewTable = [down |-> FALSE, chans |-> new, highest |-> 0, ops |-> <<>>, turn |-> 0]
    BY DEF NewTable
  <2>2. new \in [Ch -> ChanRecord \cup {None}] /\ \A ch \in Ch : new[ch] = IF ch = 0 THEN NewChan("open") ELSE None
    BY <1>1
  <2>3. <<>> \in Seq(Op)
    OBVIOUS
  <2> HIDE DEF new
  <2> QED BY <1>0, <2>1, <2>2, <2>3 DEF Shape
<1>3. \A e \in Ends, ch \in Ch :
        /\ table[e] = NewTable /\ user[e][ch] = IF ch = 0 THEN "using" ELSE "none"
        /\ accepted[e][ch] = 0 /\ got[e][ch] = 0
  BY DEF Init
<1>4. Shaped
  <2>1. table \in [Ends -> Shape]
    BY <1>2 DEF Init
  <2>2. user \in [Ends -> [Ch -> UserType]] /\ task \in [Ends -> {"running", "stopped"}]
    BY DEF Init, UserType
  <2>3. broken \in [Ends -> BOOLEAN] /\ load \in Loads
    BY DEF Init
  <2>4. accepted \in [Ends -> [Ch -> Nat]] /\ got \in [Ends -> [Ch -> Nat]]
    BY DEF Init
  <2>5. pipe \in [Ends -> Seq(Message)]
    BY DEF Init
  <2> QED BY <2>1, <2>2, <2>3, <2>4, <2>5 DEF Shaped
<1>5. Slots
  <2> SUFFICES ASSUME NEW e \in Ends, NEW ch \in Ch
               PROVE  Slot(e, table[e].chans[ch], user[e][ch], table[e].down, accepted[e][ch])
    BY DEF Slots
  <2>1. CASE ch = 0
    <3>1. /\ table[e].chans[ch] = NewChan("open") /\ user[e][ch] = "using"
          /\ table[e].down = FALSE /\ accepted[e][ch] = 0
      BY <1>2, <1>3, <2>1
    <3> QED BY <1>1, <3>1
  <2>2. CASE ch # 0
    BY <1>2, <1>3, <2>2 DEF Slot
  <2> QED BY <2>1, <2>2
<1>6. Fresh
  <2> SUFFICES ASSUME NEW e \in Ends, NEW ch \in Ch, ch > table[e].highest
               PROVE  table[e].chans[ch] = None /\ user[e][ch] = "none" /\ accepted[e][ch] = 0 /\ got[e][ch] = 0
    BY DEF Fresh
  <2>1. ch # 0
    BY <1>0, <1>2, <1>3
  <2> QED BY <1>2, <1>3, <2>1
<1> QED BY <1>4, <1>5, <1>6 DEF LinkInv

LEMMA NextLinkInv == LinkInv /\ [Next]_vars => LinkInv'
<1> SUFFICES ASSUME LinkInv, [Next]_vars PROVE LinkInv'
  OBVIOUS
<1>1. CASE \E e \in Ends : Deliver(e) \/ NextOut(e)
  BY <1>1, DeliverKeeps, NextOutKeeps
<1>2. CASE \E ch \in Ch, ok \in BOOLEAN : Connected(ch, ok)
  BY <1>2, ConnectedKeeps
<1>3. CASE \E e \in Ends, ch \in Ch :
             \/ \E n \in 1..CHUNK : Read(e, ch, n)
             \/ ReadWaits(e, ch)
             \/ \E n \in 1..CHUNK : Write(e, ch, n)
             \/ WriteWaits(e, ch)
             \/ Flush(e, ch) \/ Shutdown(e, ch) \/ Release(e, ch)
  BY <1>3, ReadKeeps, WaitsKeep, WriteKeeps, FlushKeeps, ShutdownKeeps, ReleaseKeeps
<1>4. CASE \E ch \in Ch : Cancel(ch) \/ PollOpen(ch) \/ Abandon(ch)
  BY <1>4, CancelKeeps, PollOpenKeeps, AbandonKeeps
<1>5. CASE BeginOpen
  BY <1>5, BeginOpenKeeps
<1>6. CASE DropLink
  BY <1>6, EndKeeps DEF DropLink, Ends
<1>7. CASE \E e \in Ends : EndLink(e) \/ StopTask(e) \/ PeerGone(e) \/ LinkFails(e)
  BY <1>7, EndKeeps, TaskKeeps DEF EndLink
<1>8. CASE UNCHANGED vars
  BY <1>8, Histories, NoTable DEF vars, PipesTyped
<1> QED BY <1>1, <1>2, <1>3, <1>4, <1>5, <1>6, <1>7, <1>8 DEF Next

\* LinkInv holds throughout: it is inductive.
LEMMA LinkInvHolds == Spec => []LinkInv
BY InitLinkInv, NextLinkInv, PTL DEF Spec

\* No lost wakeup: a task asleep on a channel would still find nothing to do
\* if it looked, whatever arrives, closes, cancels, abandons or ends between
\* its look and its sleep (read, write, poll_open and the wakes of on_data,
\* on_close, next_out, cancel and end).  A reader whose own end was shut down
\* beside it is woken when that close is sent.
THEOREM NoTaskSleepsThrough == Spec => []NoLostWakeup
<1>1. LinkInv => NoLostWakeup
  <2> SUFFICES ASSUME LinkInv, NEW e \in Ends, NEW ch \in Present(table[e])
               PROVE  LET c == table[e].chans[ch]  down == table[e].down
                      IN  /\ c.readWaker => /\ c.inbound = <<>> /\ c.peerClosed = "no"
                                            /\ ~c.cancelled /\ ~c.closeSent /\ ~down
                          /\ c.writeWaker => Outbound(c) > 0 /\ ~c.cancelled /\ ~down
                          /\ c.openWaker => c.phase = "opening" /\ ~down
    BY DEF NoLostWakeup
  <2> QED BY DEF LinkInv, Slots, Slot, Asleep, Present, Has
<1> QED BY <1>1, LinkInvHolds, PTL
=============================================================================
