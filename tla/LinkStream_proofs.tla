------------------------ MODULE LinkStream_proofs ------------------------
(* That a stream of Link is whole, that its credit is conserved and that no *)
(* end breaks the link's rules, for every window, chunk, number of channels *)
(* and load.                                                                *)
EXTENDS Link_proofs

\* A queue of chunks that starts where its reader stopped and has no gap.
Chain(q, g) == /\ q # <<>> => q[1][1] = g
               /\ \A i \in 1..Len(q) - 1 : q[i][2] = q[i + 1][1]

\* Where a channel's next byte belongs.
Position(c, g) == IF c # None /\ c.inbound # <<>> THEN c.inbound[Len(c.inbound)][2] ELSE g

\* The channel, if any, that keeps what arrives for it, or is not opened yet.
Takes(c) == c # None /\ ~Closed(c) /\ ~c.cancelled
Waiting(p, ch) == Takes(table[p].chans[ch]) \/ ch > table[p].highest

\* The channel's last frame is on its way, or was.
SentClose(e, ch) == ch <= table[e].highest /\ (Has(table[e], ch) => table[e].chans[ch].closeSent)

\* The receiver's end of a stream.
Received(p, ch) ==
    LET c == table[p].chans[ch]
    IN  Has(table[p], ch) =>
          /\ Chain(c.inbound, got[p][ch])
          /\ c.peerClosed = "eof" =>
               /\ SentClose(Peer(p), ch)
               /\ c.localClose = "no" => Position(c, got[p][ch]) = accepted[Peer(p)][ch]

\* The stream in the pipe: m[i] is its place before the pipe's i-th frame.
Marks(p, ch, m) ==
    LET e == Peer(p)  last == Len(pipe[p]) + 1
    IN  /\ m \in [1..last -> Nat]
        /\ task[p] = "running" /\ Waiting(p, ch) => m[1] = Position(table[p].chans[ch], got[p][ch])
        /\ Has(table[e], ch) => m[last] = table[e].chans[ch].sent
        /\ ch > table[e].highest => m[last] = 0
        /\ \A i \in 1..Len(pipe[p]) :
             LET f == pipe[p][i]
             IN  /\ f.ch = ch /\ f.kind = "data" => m[i] = f.lo /\ m[i + 1] = f.hi
                 /\ ~(f.ch = ch /\ f.kind = "data") => m[i + 1] = m[i]
                 /\ f.ch = ch /\ f.kind = "close" =>
                      SentClose(e, ch) /\ (f.reason = "eof" => m[i] = accepted[e][ch])

Flow(p, ch) == \E m : Marks(p, ch, m)

StreamInv == \A p \in Ends, ch \in Ch : Received(p, ch) /\ Flow(p, ch)

(***************************************************************************)
(* What a step that leaves the pipes alone does to a stream's two ends.    *)
(***************************************************************************)

\* A stream that was closed stays so, and nothing more is written to it.
StaysClosed(e, ch) == SentClose(e, ch) => SentClose(e, ch)' /\ accepted'[e][ch] = accepted[e][ch]

QuietSender(e, ch) ==
    /\ StaysClosed(e, ch)
    /\ Has(table'[e], ch) => \/ Has(table[e], ch) /\ table'[e].chans[ch].sent = table[e].chans[ch].sent
                             \/ ch > table[e].highest /\ table'[e].chans[ch].sent = 0
    /\ ch > table'[e].highest => ch > table[e].highest

QuietReceiver(p, ch) ==
    LET c == table[p].chans[ch]  d == table'[p].chans[ch]
    IN  /\ Waiting(p, ch)' => Waiting(p, ch) /\ Position(d, got'[p][ch]) = Position(c, got[p][ch])
        /\ Has(table'[p], ch) => Chain(d.inbound, got'[p][ch])
        /\ Has(table'[p], ch) /\ d.peerClosed = "eof" =>
             /\ Has(table[p], ch) /\ c.peerClosed = "eof"
             /\ d.localClose = "no" =>
                  c.localClose = "no" /\ Position(d, got'[p][ch]) = Position(c, got[p][ch])

LEMMA PeerFacts ==
    \A e \in Ends : Peer(e) \in Ends /\ Peer(Peer(e)) = e /\ Peer(e) # e
BY DEF Peer, Ends

LEMMA ReceivedKept ==
    ASSUME NEW p \in Ends, NEW ch \in Ch, Received(p, ch),
           StaysClosed(Peer(p), ch), QuietReceiver(p, ch)
    PROVE  Received(p, ch)'
<1> DEFINE c == table[p].chans[ch]
           d == table'[p].chans[ch]
<1> SUFFICES ASSUME Has(table'[p], ch)
             PROVE  /\ Chain(d.inbound, got'[p][ch])
                    /\ d.peerClosed = "eof" =>
                         /\ SentClose(Peer(p), ch)'
                         /\ d.localClose = "no" => Position(d, got'[p][ch]) = accepted'[Peer(p)][ch]
  BY DEF Received, Has
<1>1. Chain(d.inbound, got'[p][ch])
  BY DEF QuietReceiver
<1>2. ASSUME d.peerClosed = "eof"
      PROVE  /\ SentClose(Peer(p), ch)'
             /\ d.localClose = "no" => Position(d, got'[p][ch]) = accepted'[Peer(p)][ch]
  <2>1. /\ Has(table[p], ch) /\ c.peerClosed = "eof"
        /\ d.localClose = "no" => c.localClose = "no" /\ Position(d, got'[p][ch]) = Position(c, got[p][ch])
    BY <1>2 DEF QuietReceiver
  <2>2. SentClose(Peer(p), ch) /\ (c.localClose = "no" => Position(c, got[p][ch]) = accepted[Peer(p)][ch])
    BY <2>1 DEF Received
  <2>3. SentClose(Peer(p), ch)' /\ accepted'[Peer(p)][ch] = accepted[Peer(p)][ch]
    BY <2>2 DEF StaysClosed
  <2> QED BY <2>1, <2>2, <2>3
<1> QED BY <1>1, <1>2

LEMMA FlowKept ==
    ASSUME NEW p \in Ends, NEW ch \in Ch, Flow(p, ch), QuietSender(Peer(p), ch), QuietReceiver(p, ch),
           pipe'[p] = pipe[p], task'[p] = "running" => task[p] = "running"
    PROVE  Flow(p, ch)'
<1> DEFINE e == Peer(p)
<1>1. PICK m : Marks(p, ch, m)
  BY DEF Flow
<1>2. m \in [1..Len(pipe'[p]) + 1 -> Nat]
  BY <1>1 DEF Marks
<1>3. task'[p] = "running" /\ Waiting(p, ch)' => m[1] = Position(table'[p].chans[ch], got'[p][ch])
  BY <1>1 DEF Marks, QuietReceiver
<1>4. /\ Has(table'[e], ch) => m[Len(pipe'[p]) + 1] = table'[e].chans[ch].sent
      /\ ch > table'[e].highest => m[Len(pipe'[p]) + 1] = 0
  BY <1>1 DEF Marks, QuietSender
<1>5. ASSUME NEW i \in 1..Len(pipe'[p])
      PROVE  LET f == pipe'[p][i]
             IN  /\ f.ch = ch /\ f.kind = "data" => m[i] = f.lo /\ m[i + 1] = f.hi
                 /\ ~(f.ch = ch /\ f.kind = "data") => m[i + 1] = m[i]
                 /\ f.ch = ch /\ f.kind = "close" =>
                      SentClose(e, ch)' /\ (f.reason = "eof" => m[i] = accepted'[e][ch])
  BY <1>1, <1>5 DEF Marks, QuietSender, StaysClosed
<1>6. Marks(p, ch, m)'
  BY <1>2, <1>3, <1>4, <1>5 DEF Marks, Has
<1> QED BY <1>6 DEF Flow

LEMMA StreamKept ==
    ASSUME StreamInv, \A p \in Ends, ch \in Ch : QuietSender(p, ch) /\ QuietReceiver(p, ch),
           pipe' = pipe, \A p \in Ends : task'[p] = "running" => task[p] = "running"
    PROVE  StreamInv'
<1> SUFFICES ASSUME NEW p \in Ends, NEW ch \in Ch PROVE Received(p, ch)' /\ Flow(p, ch)'
  BY DEF StreamInv
<1> QED BY PeerFacts, ReceivedKept, FlowKept DEF StreamInv, QuietSender

\* A channel before and after a step that leaves its place in both streams.
Steady(c, g, d, h) ==
    d # None =>
      /\ c # None /\ d.sent = c.sent /\ (c.closeSent => d.closeSent) /\ (Takes(d) => Takes(c))
      /\ Position(d, h) = Position(c, g) /\ Chain(d.inbound, h)
      /\ d.peerClosed = "eof" => c.peerClosed = "eof" /\ (d.localClose = "no" => c.localClose = "no")

\* What nobody touched is quiet.
LEMMA UntouchedQuiet ==
    ASSUME StreamInv, NEW d \in Ends, NEW k \in Ch,
           table'[d].chans[k] = table[d].chans[k], table'[d].highest = table[d].highest,
           accepted'[d][k] = accepted[d][k], got'[d][k] = got[d][k]
    PROVE  QuietSender(d, k) /\ QuietReceiver(d, k)
<1>1. QuietSender(d, k)
  BY DEF QuietSender, StaysClosed, SentClose, Has
<1>2. Received(d, k)
  BY DEF StreamInv
<1>3. QuietReceiver(d, k)
  BY <1>2 DEF QuietReceiver, Received, Waiting, Has
<1> QED BY <1>1, <1>3

LEMMA SteadyQuiet ==
    ASSUME LinkInv, NEW e \in Ends, NEW ch \in Ch, ch <= table[e].highest,
           table'[e].highest = table[e].highest,
           SentClose(e, ch) => accepted'[e][ch] = accepted[e][ch],
           Steady(table[e].chans[ch], got[e][ch], table'[e].chans[ch], got'[e][ch])
    PROVE  QuietSender(e, ch) /\ QuietReceiver(e, ch)
<1>1. table[e].highest \in Nat /\ ch \in Nat
  BY Histories, SizesAssumption DEF Shape, Ch
<1>2. ~(ch > table[e].highest)
  BY <1>1
<1>3. QuietSender(e, ch)
  BY <1>1, <1>2 DEF QuietSender, StaysClosed, SentClose, Steady, Has
<1>4. QuietReceiver(e, ch)
  BY <1>1, <1>2 DEF QuietReceiver, Waiting, Steady, Has, Takes
<1> QED BY <1>3, <1>4

LEMMA OneQuiet ==
    ASSUME LinkInv, StreamInv, NEW e \in Ends, NEW ch \in Ch, NEW t,
           table' = [table EXCEPT ![e] = t], Touches(table[e], t, ch), ch <= table[e].highest,
           Only(accepted, accepted', e, ch), Only(got, got', e, ch),
           SentClose(e, ch) => accepted'[e][ch] = accepted[e][ch],
           Steady(table[e].chans[ch], got[e][ch], t.chans[ch], got'[e][ch])
    PROVE  \A d \in Ends, k \in Ch : QuietSender(d, k) /\ QuietReceiver(d, k)
<1> TAKE d \in Ends, k \in Ch
<1>1. table'[e] = t /\ \A x \in Ends : x # e => table'[x] = table[x]
  BY Histories
<1>2. CASE d # e \/ k # ch
  <2>1. /\ table'[d].chans[k] = table[d].chans[k] /\ table'[d].highest = table[d].highest
        /\ accepted'[d][k] = accepted[d][k] /\ got'[d][k] = got[d][k]
    BY <1>1, <1>2 DEF Touches, Only
  <2> QED BY <2>1, UntouchedQuiet
<1>3. CASE d = e /\ k = ch
  <2>1. table'[e].highest = table[e].highest
    BY <1>1 DEF Touches
  <2> QED BY <1>1, <1>3, <2>1, SteadyQuiet
<1> QED BY <1>2, <1>3

\* A channel that is opened.
AddsChannel(e, ch, t) ==
    /\ e \in Ends /\ ch \in Ch /\ ch = table[e].highest + 1 /\ t \in Shape
    /\ table' = [table EXCEPT ![e] = t] /\ t.highest = ch
    /\ \A k \in Ch : k # ch => t.chans[k] = table[e].chans[k]
    /\ UNCHANGED <<accepted, got>> /\ t.chans[ch] \in {None, NewChan("opening")}

LEMMA OpensQuiet ==
    ASSUME LinkInv, StreamInv, NEW e, NEW ch, NEW t, AddsChannel(e, ch, t)
    PROVE  \A d \in Ends, k \in Ch : QuietSender(d, k) /\ QuietReceiver(d, k)
<1> /\ e \in Ends /\ ch \in Ch /\ ch = table[e].highest + 1 /\ t \in Shape
    /\ table' = [table EXCEPT ![e] = t] /\ t.highest = ch
    /\ \A k \in Ch : k # ch => t.chans[k] = table[e].chans[k]
    /\ UNCHANGED <<accepted, got>> /\ t.chans[ch] \in {None, NewChan("opening")}
  BY DEF AddsChannel
<1> TAKE d \in Ends, k \in Ch
<1>1. table'[e] = t /\ \A x \in Ends : x # e => table'[x] = table[x]
  BY Histories
<1>0. table[e].highest \in Nat /\ ch \in Nat /\ k \in Nat /\ ch > table[e].highest
  <2>1. table[e].highest \in Nat /\ ch \in Nat /\ k \in Nat
    BY Histories, ChansAreNumbers
  <2> QED BY <2>1
<1>2. CASE d # e
  BY <1>1, <1>2, UntouchedQuiet
<1>3. CASE d = e /\ k # ch
  <2>1. k > t.highest => k > table[e].highest
    BY <1>0
  <2>2. table'[e].chans[k] = table[e].chans[k] /\ table'[e].highest = ch
    BY <1>1, <1>3
  <2>3. k <= table[e].highest => k <= ch
    BY <1>0
  <2>4. QuietSender(e, k)
    BY <1>1, <2>1, <2>2, <2>3 DEF QuietSender, StaysClosed, SentClose, Has
  <2>5. Received(e, k)
    BY DEF StreamInv
  <2>6. QuietReceiver(e, k)
    BY <1>1, <2>1, <2>2, <2>5 DEF QuietReceiver, Received, Waiting, Has
  <2> QED BY <1>3, <2>4, <2>6
<1>4. CASE d = e /\ k = ch
  <2>1. table[e].chans[ch] = None /\ ~(ch <= table[e].highest)
    BY <1>0 DEF LinkInv, Fresh
  <2>2. LET c == NewChan("opening") IN
        c.sent = 0 /\ c.inbound = <<>> /\ c.peerClosed = "no"
    BY DEF NewChan
  <2>3. QuietSender(e, ch)
    BY <1>0, <1>1, <2>1, <2>2 DEF QuietSender, StaysClosed, SentClose, Has
  <2>4. Position(t.chans[ch], got[e][ch]) = got[e][ch] /\ Position(None, got[e][ch]) = got[e][ch]
    BY <2>2 DEF Position
  <2>5. Chain(<<>>, got[e][ch])
    BY DEF Chain
  <2>6. QuietReceiver(e, ch)
    BY <1>0, <1>1, <2>1, <2>2, <2>4, <2>5 DEF QuietReceiver, Waiting, Has
  <2> QED BY <1>4, <2>3, <2>6
<1> QED BY <1>2, <1>3, <1>4

LEMMA SteadyFlags ==
    ASSUME NEW c, NEW d, NEW g, c # None, Chain(c.inbound, g), d.inbound = c.inbound, d.sent = c.sent,
           c.closeSent => d.closeSent, c.cancelled => d.cancelled, d.peerClosed = c.peerClosed,
           d.localClose = "no" => c.localClose = "no"
    PROVE  Steady(c, g, d, g)
BY DEF Steady, Takes, Closed, Position

(***************************************************************************)
(* Every step keeps StreamInv.                                             *)
(***************************************************************************)

\* A channel the table holds, as its streams see it.
LEMMA HeldChannel ==
    ASSUME LinkInv, StreamInv, NEW e \in Ends, NEW ch \in Ch, Has(table[e], ch)
    PROVE  LET c == table[e].chans[ch]
           IN  /\ table[e] \in Shape /\ c \in ChanRecord /\ c # None /\ Chain(c.inbound, got[e][ch])
               /\ ch <= table[e].highest /\ got[e][ch] \in Nat /\ accepted[e][ch] \in Nat
               /\ (c.closeSent => Closed(c)) /\ (c.cancelled => Closed(c))
<1>1. Received(e, ch) /\ Slot(e, table[e].chans[ch], user[e][ch], table[e].down, accepted[e][ch])
  BY DEF StreamInv, LinkInv, Slots
<1>2. Chain(table[e].chans[ch].inbound, got[e][ch])
  BY <1>1 DEF Received
<1> QED BY <1>1, <1>2, HeldIsOpened DEF Has, Slot, Closing

\* A step of one channel that leaves its queue and what it sent alone.
LEMMA FlagsKeep ==
    ASSUME LinkInv, StreamInv, NEW e \in Ends, NEW ch \in Ch, Has(table[e], ch), NEW t,
           table' = [table EXCEPT ![e] = t], Touches(table[e], t, ch),
           UNCHANGED <<pipe, got>>, Only(accepted, accepted', e, ch),
           SentClose(e, ch) => accepted'[e][ch] = accepted[e][ch],
           \A p \in Ends : task'[p] = "running" => task[p] = "running",
           LET c == table[e].chans[ch]  d == t.chans[ch]
           IN  d = None \/ /\ d.inbound = c.inbound /\ d.sent = c.sent
                           /\ (c.closeSent => d.closeSent) /\ (c.cancelled => d.cancelled)
                           /\ d.peerClosed = c.peerClosed /\ (d.localClose = "no" => c.localClose = "no")
    PROVE  StreamInv'
<1> DEFINE c == table[e].chans[ch]
           d == t.chans[ch]
<1>1. c # None /\ Chain(c.inbound, got[e][ch]) /\ ch <= table[e].highest
  BY HeldChannel
<1>2. Steady(c, got[e][ch], d, got[e][ch])
  <2>1. CASE d = None
    BY <2>1 DEF Steady
  <2>2. CASE d # None
    BY <1>1, <2>2, SteadyFlags
  <2> QED BY <2>1, <2>2
<1>3. Only(got, got', e, ch) /\ got'[e][ch] = got[e][ch]
  BY DEF Only
<1>4. \A x \in Ends, k \in Ch : QuietSender(x, k) /\ QuietReceiver(x, k)
  BY <1>1, <1>2, <1>3, OneQuiet
<1> QED BY <1>4, StreamKept

\* The same of a channel put back, reaped or not.
LEMMA PutFlagsKeep ==
    ASSUME LinkInv, StreamInv, NEW e \in Ends, NEW ch \in Ch, Has(table[e], ch),
           NEW d \in ChanRecord \cup {None},
           \/ table' = [table EXCEPT ![e] = Put(table[e], ch, d)]
           \/ table' = [table EXCEPT ![e] = Reaped(Put(table[e], ch, d), ch)],
           UNCHANGED <<pipe, got, task>>, Only(accepted, accepted', e, ch),
           SentClose(e, ch) => accepted'[e][ch] = accepted[e][ch],
           LET c == table[e].chans[ch]
           IN  d = None \/ /\ d.inbound = c.inbound /\ d.sent = c.sent
                           /\ (c.closeSent => d.closeSent) /\ (c.cancelled => d.cancelled)
                           /\ d.peerClosed = c.peerClosed /\ (d.localClose = "no" => c.localClose = "no")
    PROVE  StreamInv'
<1> DEFINE s == Put(table[e], ch, d)
           r == Reaped(s, ch)
           n == Put(s, ch, None)
<1>0. table[e] \in Shape
  BY Histories
<1>1. Touches(table[e], s, ch) /\ s.chans[ch] = d /\ s \in Shape
  BY <1>0, PutTouches DEF Touches
<1>2. Touches(s, n, ch) /\ n.chans[ch] = None
  BY <1>1, PutTouches
<1>3. Touches(table[e], n, ch)
  BY <1>1, <1>2, TouchesTwice
<1>4. r = s \/ r = n
  BY DEF Reaped
<1>5. PICK t \in {s, n} : table' = [table EXCEPT ![e] = t]
  BY <1>4
<1>6. Touches(table[e], t, ch) /\ (t.chans[ch] = d \/ t.chans[ch] = None)
  BY <1>1, <1>2, <1>3
<1> HIDE DEF s, r, n
<1> QED BY <1>5, <1>6, FlagsKeep

LEMMA NoAccept ==
    ASSUME accepted' = accepted, NEW e \in Ends, NEW ch \in Ch
    PROVE  Only(accepted, accepted', e, ch) /\ (SentClose(e, ch) => accepted'[e][ch] = accepted[e][ch])
BY DEF Only

LEMMA WaitsStream ==
    ASSUME LinkInv, StreamInv, NEW e \in Ends, NEW ch \in Ch,
           ReadWaits(e, ch) \/ WriteWaits(e, ch) \/ Flush(e, ch)
    PROVE  StreamInv'
<1> DEFINE c == table[e].chans[ch]
           r == [c EXCEPT !.readWaker = TRUE]
           w == [c EXCEPT !.writeWaker = TRUE]
<1>1. user[e][ch] \in {"using", "flushed", "shut"} /\ UNCHANGED <<pipe, task, accepted, got>>
  BY DEF ReadWaits, WriteWaits, Flush, UserStep, Holds, CanWrite
<1>2. Has(table[e], ch) /\ c \in ChanRecord /\ table[e] \in Shape
  BY <1>1, UsersChannel
<1>3. \/ table' = [table EXCEPT ![e] = Put(table[e], ch, r)]
      \/ table' = [table EXCEPT ![e] = Put(table[e], ch, w)]
      \/ table' = table
  BY DEF ReadWaits, WriteWaits, Flush, UserStep, Put
<1>4. \A d \in {r, w} : /\ d \in ChanRecord /\ d.inbound = c.inbound /\ d.sent = c.sent
                        /\ d.closeSent = c.closeSent /\ d.cancelled = c.cancelled
                        /\ d.peerClosed = c.peerClosed /\ d.localClose = c.localClose
  <2>1. /\ r \in ChanRecord /\ r.inbound = c.inbound /\ r.sent = c.sent
        /\ r.closeSent = c.closeSent /\ r.cancelled = c.cancelled
        /\ r.peerClosed = c.peerClosed /\ r.localClose = c.localClose
    BY <1>2 DEF ChanRecord
  <2>2. /\ w \in ChanRecord /\ w.inbound = c.inbound /\ w.sent = c.sent
        /\ w.closeSent = c.closeSent /\ w.cancelled = c.cancelled
        /\ w.peerClosed = c.peerClosed /\ w.localClose = c.localClose
    BY <1>2 DEF ChanRecord
  <2> HIDE DEF r, w, c
  <2> QED BY <2>1, <2>2
<1>5. CASE table' = table
  <2>1. \A p \in Ends, k \in Ch : QuietSender(p, k) /\ QuietReceiver(p, k)
    BY <1>1, <1>5, UntouchedQuiet
  <2> QED BY <1>1, <2>1, StreamKept
<1>6. CASE table' # table
  <2>1. PICK d \in {r, w} : table' = [table EXCEPT ![e] = Put(table[e], ch, d)]
    BY <1>3, <1>6
  <2>2. /\ d \in ChanRecord /\ d.inbound = c.inbound /\ d.sent = c.sent
        /\ (c.closeSent => d.closeSent) /\ (c.cancelled => d.cancelled)
        /\ d.peerClosed = c.peerClosed /\ (d.localClose = "no" => c.localClose = "no")
    BY <1>4, <2>1
  <2>3. Only(accepted, accepted', e, ch) /\ (SentClose(e, ch) => accepted'[e][ch] = accepted[e][ch])
    BY <1>1, NoAccept
  <2>4. table' = [table EXCEPT ![e] = Put(table[e], ch, d)]
    BY <2>1
  <2> HIDE DEF r, w
  <2> QED BY <1>1, <1>2, <2>2, <2>3, <2>4, PutFlagsKeep
<1> QED BY <1>5, <1>6

LEMMA WriteStream ==
    ASSUME LinkInv, StreamInv, NEW e \in Ends, NEW ch \in Ch, NEW k \in 1..CHUNK, Write(e, ch, k)
    PROVE  StreamInv'
<1> DEFINE c == table[e].chans[ch]
           d == [c EXCEPT !.queued = @ + k]
<1>1. /\ user[e][ch] = "using" /\ ~Closed(c) /\ k \in Nat
      /\ table' = [table EXCEPT ![e] = Put(table[e], ch, d)]
      /\ accepted' = [accepted EXCEPT ![e][ch] = @ + k] /\ UNCHANGED <<pipe, task, got>>
  BY SizesAssumption DEF Write, CanWrite, UserStep
<1>2. Has(table[e], ch) /\ c \in ChanRecord
  BY <1>1, UsersChannel
<1>3. ~SentClose(e, ch)
  BY <1>1, <1>2, HeldChannel DEF SentClose
<1>4. c.queued \in Nat /\ c.queued + k \in Nat
  <2>1. c.queued \in Nat /\ k \in Nat
    BY <1>1, <1>2 DEF ChanRecord
  <2> QED BY <2>1
<1>5. /\ d \in ChanRecord /\ d.inbound = c.inbound /\ d.sent = c.sent
      /\ d.closeSent = c.closeSent /\ d.cancelled = c.cancelled
      /\ d.peerClosed = c.peerClosed /\ d.localClose = c.localClose
  BY <1>2, <1>4 DEF ChanRecord
<1>6. Only(accepted, accepted', e, ch)
  BY <1>1, Histories DEF Only
<1> HIDE DEF d
<1> QED BY <1>1, <1>2, <1>3, <1>5, <1>6, PutFlagsKeep

LEMMA UserClosesStream ==
    ASSUME LinkInv, StreamInv, NEW e \in Ends, NEW ch \in Ch,
           Shutdown(e, ch) \/ Release(e, ch) \/ (e = "window" /\ Cancel(ch))
    PROVE  StreamInv'
<1> DEFINE c == table[e].chans[ch]
           a == [c EXCEPT !.localClose = IF Closed(c) THEN @ ELSE "eof"]
           b == Woken(OutboundCleared([c EXCEPT !.cancelled = TRUE,
                         !.localClose = IF ~Closed(c) /\ c.phase = "open" THEN "reset" ELSE @]))
           r == ReleasedChan(c)
<1>1. user[e][ch] \in {"using", "flushed", "shut"} /\ UNCHANGED <<pipe, task, accepted, got>>
  BY DEF Shutdown, Release, Cancel, UserStep, Holds
<1>2. /\ Has(table[e], ch) /\ c \in ChanRecord /\ c # None /\ table[e].down \in BOOLEAN
      /\ user[e][ch] \in UserType /\ accepted[e][ch] \in Nat /\ c.phase = "open"
      /\ Slot(e, c, user[e][ch], table[e].down, accepted[e][ch])
  BY <1>1, UsersChannel
<1>3. CASE Shutdown(e, ch)
  <2>1. table' = [table EXCEPT ![e] = Put(table[e], ch, a)]
    BY <1>3 DEF Shutdown, UserStep
  <2>2. /\ a \in ChanRecord /\ a.inbound = c.inbound /\ a.sent = c.sent
        /\ a.closeSent = c.closeSent /\ a.cancelled = c.cancelled
        /\ a.peerClosed = c.peerClosed /\ (a.localClose = "no" => c.localClose = "no")
    BY <1>2 DEF ChanRecord, Reasons, Closed
  <2> HIDE DEF a
  <2> QED BY <1>1, <1>2, <2>1, <2>2, NoAccept, PutFlagsKeep
<1>4. CASE e = "window" /\ Cancel(ch)
  <2>1. table' = [table EXCEPT ![e] = Put(table[e], ch, b)]
    BY <1>4 DEF Cancel, UserStep
  <2>2. b \in ChanRecord
    BY <1>1, <1>2, CancelSlot
  <2>3. /\ b.inbound = c.inbound /\ b.sent = c.sent
        /\ (c.closeSent => b.closeSent) /\ (c.cancelled => b.cancelled)
        /\ b.peerClosed = c.peerClosed /\ (b.localClose = "no" => c.localClose = "no")
    BY <1>2 DEF ChanRecord, Woken, OutboundCleared
  <2> HIDE DEF b
  <2> QED BY <1>1, <1>2, <2>1, <2>2, <2>3, NoAccept, PutFlagsKeep
<1>5. CASE Release(e, ch)
  <2>1. table' = [table EXCEPT ![e] = Reaped(Put(table[e], ch, r), ch)]
    BY <1>5 DEF Release, ReleasedIn
  <2>2. r \in ChanRecord
    BY <1>2, ReleasedSlot
  <2>3. /\ r.inbound = c.inbound /\ r.sent = c.sent
        /\ (c.closeSent => r.closeSent) /\ (c.cancelled => r.cancelled)
        /\ r.peerClosed = c.peerClosed /\ (r.localClose = "no" => c.localClose = "no")
    BY <1>2 DEF ChanRecord, ReleasedChan
  <2> HIDE DEF r
  <2> QED BY <1>1, <1>2, <2>1, <2>2, <2>3, NoAccept, PutFlagsKeep
<1> QED BY <1>3, <1>4, <1>5

LEMMA FrontReadChain ==
    ASSUME NEW q \in Seq(Nat \X Nat), q # <<>>, NEW g \in Nat, NEW k \in Nat, Chain(q, g)
    PROVE  LET r == FrontRead(q, k)
           IN  Chain(r, g + k) /\ (IF r # <<>> THEN r[Len(r)][2] ELSE g + k) = q[Len(q)][2]
<1>1. /\ Head(q) = q[1] /\ q[1][1] = g /\ Len(q) \in Nat /\ Len(q) >= 1
      /\ \A i \in 1..Len(q) : q[i] \in Nat \X Nat /\ q[i][1] \in Nat /\ q[i][2] \in Nat
  BY DEF Chain
<1>2. \A i \in 1..Len(q) - 1 : q[i][2] = q[i + 1][1]
  BY DEF Chain
<1>3. Len(Tail(q)) = Len(q) - 1 /\ \A i \in 1..Len(q) - 1 : Tail(q)[i] = q[i + 1]
  BY <1>1
<1>4. Tail(q) \in Seq(Nat \X Nat)
  BY <1>1
<1>5. CASE q[1][1] + k = q[1][2]
  <2> DEFINE r == Tail(q)
  <2>1. FrontRead(q, k) = r
    BY <1>1, <1>5 DEF FrontRead
  <2>2. q[1][2] = g + k
    BY <1>1, <1>5
  <2>a. r \in Seq(Nat \X Nat) /\ Len(r) = Len(q) - 1 /\ \A i \in 1..Len(q) - 1 : r[i] = q[i + 1]
    BY <1>3, <1>4
  <2> HIDE DEF r
  <2>3. CASE Len(q) = 1
    <3>1. Len(r) = 0
      BY <2>3, <2>a
    <3>2. r = <<>>
      BY <2>a, <3>1
    <3>3. Chain(<<>>, g + k)
      BY DEF Chain
    <3> QED BY <2>1, <2>2, <2>3, <3>2, <3>3
  <2>4. CASE Len(q) # 1
    <3> DEFINE n == Len(q)
    <3>a. n \in Nat /\ n >= 1 /\ n # 1
      BY <1>1, <2>4
    <3> HIDE DEF n
    <3>b. n - 1 \in Nat /\ n - 1 >= 1 /\ 1 \in 1..n - 1 /\ n - 1 \in 1..n - 1 /\ n - 1 + 1 = n /\ n - 1 # 0
      BY <3>a
    <3>0. /\ Len(q) - 1 \in Nat /\ 1 \in 1..Len(q) - 1 /\ Len(q) - 1 \in 1..Len(q) - 1
          /\ Len(q) - 1 + 1 = Len(q) /\ Len(q) - 1 # 0
      BY <3>b DEF n
    <3>c. r[1] = q[1 + 1] /\ q[1][2] = q[1 + 1][1]
      BY <1>2, <2>a, <3>0
    <3>d. r[Len(q) - 1] = q[Len(q) - 1 + 1]
      BY <2>a, <3>0
    <3>1. r[1] = q[2] /\ q[1][2] = q[2][1] /\ r[Len(q) - 1] = q[Len(q)]
      BY <3>0, <3>c, <3>d
    <3>2. Len(r) = Len(q) - 1 /\ r # <<>>
      BY <2>a, <3>0
    <3>3. ASSUME NEW i \in 1..Len(r) - 1 PROVE r[i][2] = r[i + 1][1]
      <4>1. i \in 1..Len(q) - 1 /\ i + 1 \in 1..Len(q) - 1
        BY <1>1, <3>2
      <4> QED BY <1>2, <2>a, <4>1
    <3>4. Chain(r, g + k) /\ r[Len(r)][2] = q[Len(q)][2]
      BY <2>2, <3>1, <3>2, <3>3 DEF Chain
    <3> QED BY <2>1, <3>2, <3>4
  <2> QED BY <2>3, <2>4
<1>6. CASE q[1][1] + k # q[1][2]
  <2> DEFINE x == <<q[1][1] + k, q[1][2]>>
             s == Tail(q)
             r == <<x>> \o s
  <2>1. FrontRead(q, k) = r
    BY <1>1, <1>6 DEF FrontRead
  <2>2. x \in Nat \X Nat /\ x[1] = g + k /\ x[2] = q[1][2]
    <3>1. q[1][1] + k \in Nat /\ 1 \in 1..Len(q)
      BY <1>1
    <3> QED BY <1>1, <3>1
  <2> HIDE DEF x, s
  <2>3. Len(r) = Len(q) /\ r[1] = x /\ \A i \in 2..Len(q) : r[i] = s[i - 1]
    BY <1>1, <1>3, <1>4, <2>2 DEF s
  <2>4. \A i \in 2..Len(q) : r[i] = q[i]
    <3> TAKE i \in 2..Len(q)
    <3>0. Len(q) \in Nat
      BY <1>1
    <3> DEFINE l == Len(q)
    <3> HIDE DEF l
    <3>1. i - 1 \in 1..Len(q) - 1 /\ (i - 1) + 1 = i
      <4>1. l \in Nat /\ i \in 2..l
        BY <3>0 DEF l
      <4>2. i - 1 \in 1..l - 1 /\ (i - 1) + 1 = i
        BY <4>1
      <4> QED BY <4>2 DEF l
    <3>2. s[i - 1] = q[(i - 1) + 1]
      BY <1>3, <3>1 DEF s
    <3> QED BY <2>3, <3>1, <3>2
  <2>5. \A i \in 1..Len(q) : r[i][2] = q[i][2]
    <3> TAKE i \in 1..Len(q)
    <3>1. i = 1 \/ i \in 2..Len(q)
      BY <1>1
    <3> QED BY <2>2, <2>3, <2>4, <3>1
  <2>6. ASSUME NEW i \in 1..Len(r) - 1 PROVE r[i][2] = r[i + 1][1]
    <3> DEFINE l == Len(q)
    <3>0. l \in Nat /\ i \in 1..l - 1
      BY <1>1, <2>3
    <3> HIDE DEF l
    <3>2. i \in 1..l /\ i \in 1..l - 1 /\ i + 1 \in 2..l
      BY <3>0
    <3>1. i \in 1..Len(q) /\ i \in 1..Len(q) - 1 /\ i + 1 \in 2..Len(q)
      BY <3>2 DEF l
    <3> QED BY <1>2, <2>4, <2>5, <3>1
  <2>7. Len(q) \in 1..Len(q) /\ Len(r) # 0
    BY <1>1, <2>3
  <2> HIDE DEF r
  <2>8. Chain(r, g + k) /\ r # <<>> /\ r[Len(r)][2] = q[Len(q)][2]
    <3>1. r # <<>>
      BY <2>7
    <3> QED BY <2>2, <2>3, <2>5, <2>6, <2>7, <3>1 DEF Chain
  <2> QED BY <2>1, <2>8
<1> QED BY <1>5, <1>6

LEMMA ReadStream ==
    ASSUME LinkInv, StreamInv, NEW e \in Ends, NEW ch \in Ch, NEW k \in 1..CHUNK, Read(e, ch, k)
    PROVE  StreamInv'
<1> DEFINE t == table[e]
           c == t.chans[ch]
           g == got[e][ch]
           d == ReadFrom(c, k)
           s == Put(t, ch, d)
           b == [d EXCEPT !.allowance = @ + d.unreturned, !.unreturned = 0]
           m == [kind |-> "credit", ch |-> ch, bytes |-> d.unreturned]
<1>1. /\ user[e][ch] \in {"using", "flushed", "shut"} /\ c.inbound # <<>> /\ k \in Nat /\ ~c.cancelled
      /\ got' = [got EXCEPT ![e][ch] = @ + k] /\ UNCHANGED <<pipe, task, accepted>>
      /\ table' = [table EXCEPT ![e] = IF CreditDue(s, s.chans[ch]) THEN CreditReturned(s, ch) ELSE s]
  BY SizesAssumption DEF Read, Holds
<1>2. /\ t \in Shape /\ Has(t, ch) /\ c \in ChanRecord /\ c # None /\ ch <= t.highest
      /\ g \in Nat /\ Chain(c.inbound, g)
  BY <1>1, UsersChannel, HeldChannel
<1>3. c.inbound \in Seq(Nat \X Nat) /\ c.unreturned \in Nat /\ c.allowance \in Nat
  BY <1>2 DEF ChanRecord
<1>4. d = [c EXCEPT !.unreturned = c.unreturned + k, !.inbound = FrontRead(c.inbound, k)]
  BY DEF ReadFrom, FrontRead
<1>5. FrontRead(c.inbound, k) \in Seq(Nat \X Nat) /\ c.unreturned + k \in Nat
  <2>1. c.unreturned + k \in Nat
    BY <1>1, <1>3, SumsOfNumbers
  <2> QED BY <1>1, <1>3, <2>1, FrontReadType
<1> HIDE DEF d
<1>6. /\ d \in ChanRecord /\ d # None /\ d.unreturned \in Nat /\ d.allowance \in Nat
      /\ d.inbound = FrontRead(c.inbound, k) /\ d.sent = c.sent /\ d.closeSent = c.closeSent
      /\ d.cancelled = c.cancelled /\ d.peerClosed = c.peerClosed /\ d.localClose = c.localClose
  <2> DEFINE in == FrontRead(c.inbound, k)
             a == c.unreturned + k
             x == [c EXCEPT !.inbound = in, !.unreturned = a, !.allowance = c.allowance]
  <2>1. d = [c EXCEPT !.unreturned = a, !.inbound = in]
    BY <1>4
  <2>2. in \in Seq(Nat \X Nat) /\ a \in Nat
    BY <1>5
  <2> HIDE DEF in, a
  <2>3. d = x
    BY <1>2, <2>1 DEF ChanRecord
  <2>4. /\ x.inbound = in /\ x.sent = c.sent /\ x.closeSent = c.closeSent
        /\ x.cancelled = c.cancelled /\ x.peerClosed = c.peerClosed /\ x.localClose = c.localClose
        /\ x.unreturned = a /\ x.allowance = c.allowance
    BY <1>2 DEF ChanRecord
  <2>6. x \in ChanRecord
    BY <1>2, <1>3, <2>2 DEF ChanRecord
  <2> HIDE DEF x
  <2>5. /\ d \in ChanRecord /\ d # None /\ d.unreturned \in Nat /\ d.allowance \in Nat
        /\ d.inbound = in /\ d.sent = c.sent /\ d.closeSent = c.closeSent
        /\ d.cancelled = c.cancelled /\ d.peerClosed = c.peerClosed /\ d.localClose = c.localClose
    BY <1>3, <2>2, <2>3, <2>4, <2>6, ChansAreNotNone
  <2> QED BY <2>5 DEF in
<1>8. d.allowance + d.unreturned \in Nat /\ 0 \in Nat
  BY <1>6
<1>9. /\ b \in ChanRecord /\ b # None /\ b.inbound = d.inbound /\ b.sent = d.sent /\ b.closeSent = d.closeSent
      /\ b.cancelled = d.cancelled /\ b.peerClosed = d.peerClosed /\ b.localClose = d.localClose
  <2> DEFINE a == d.allowance + d.unreturned
             x == [d EXCEPT !.inbound = d.inbound, !.unreturned = 0, !.allowance = a]
  <2>1. b = [d EXCEPT !.allowance = a, !.unreturned = 0] /\ a \in Nat
    BY <1>8
  <2>2. d.inbound \in Seq(Nat \X Nat)
    BY <1>6 DEF ChanRecord
  <2> HIDE DEF a, b
  <2>3. b = x
    BY <1>6, <2>1 DEF ChanRecord
  <2>4. /\ x.inbound = d.inbound /\ x.sent = d.sent /\ x.closeSent = d.closeSent
        /\ x.cancelled = d.cancelled /\ x.peerClosed = d.peerClosed /\ x.localClose = d.localClose
    BY <1>6 DEF ChanRecord
  <2>5. x \in ChanRecord
    BY <1>6, <2>1, <2>2 DEF ChanRecord
  <2> HIDE DEF x
  <2> QED BY <2>3, <2>4, <2>5, ChansAreNotNone
<1>10. Touches(t, s, ch) /\ s.chans[ch] = d /\ s \in Shape
  <2>1. t \in Shape /\ d \in ChanRecord
    BY <1>2, <1>6
  <2> HIDE DEF t, b
  <2> QED BY <2>1, PutTouches DEF Touches
<1>11. CreditReturned(s, ch) = Queue(Put(s, ch, b), m)
  BY <1>10 DEF CreditReturned
<1>12. m \in Op
  BY <1>6, MessagesMade
<1> HIDE DEF b, m, s
<1>13. Touches(s, Put(s, ch, b), ch) /\ Put(s, ch, b).chans[ch] = b /\ Put(s, ch, b) \in Shape
  BY <1>9, <1>10, PutTouches DEF Touches
<1>14. Touches(Put(s, ch, b), CreditReturned(s, ch), ch) /\ CreditReturned(s, ch).chans[ch] = b
  BY <1>11, <1>12, <1>13, QueueTouches
<1>15. Touches(t, CreditReturned(s, ch), ch)
  BY <1>10, <1>13, <1>14, TouchesTwice
<1>16. PICK r : /\ table' = [table EXCEPT ![e] = r] /\ Touches(t, r, ch) /\ r.chans[ch] \in {b, d}
  BY <1>1, <1>10, <1>14, <1>15
<1>17. /\ Chain(FrontRead(c.inbound, k), g + k)
       /\ Position(d, g + k) = Position(c, g)
  <2>1. /\ c.inbound \in Seq(Nat \X Nat) /\ c.inbound # <<>> /\ Chain(c.inbound, g) /\ g \in Nat
        /\ k \in Nat
    BY <1>1, <1>2, <1>3
  <2> DEFINE q == c.inbound
             z == FrontRead(q, k)
  <2> HIDE DEF g
  <2>2. Chain(z, g + k) /\ (IF z # <<>> THEN z[Len(z)][2] ELSE g + k) = q[Len(q)][2]
    BY <2>1, FrontReadChain
  <2>3. d.inbound = z /\ d # None /\ c # None
    BY <1>2, <1>6
  <2> HIDE DEF z, c
  <2>4. Position(d, g + k) = Position(c, g)
    BY <2>1, <2>2, <2>3 DEF Position
  <2> QED BY <2>2, <2>4 DEF z
<1>18. \A x \in {b, d} : Steady(c, g, x, g + k)
  <2> TAKE x \in {b, d}
  <2>1. /\ x # None /\ x.inbound = FrontRead(c.inbound, k) /\ x.sent = c.sent /\ x.closeSent = c.closeSent
        /\ x.cancelled = c.cancelled /\ x.peerClosed = c.peerClosed /\ x.localClose = c.localClose
        /\ Position(x, g + k) = Position(d, g + k)
    BY <1>6, <1>9 DEF Position
  <2> QED BY <1>2, <1>17, <2>1 DEF Steady, Takes, Closed
<1>19. got'[e][ch] = g + k /\ Only(got, got', e, ch)
  BY <1>1, Histories DEF Only
<1>20. Steady(table[e].chans[ch], got[e][ch], r.chans[ch], got'[e][ch])
  BY <1>16, <1>18, <1>19
<1>21. Only(accepted, accepted', e, ch) /\ (SentClose(e, ch) => accepted'[e][ch] = accepted[e][ch])
  BY <1>1, NoAccept
<1> HIDE DEF t, c, g
<1>22. \A x \in Ends, y \in Ch : QuietSender(x, y) /\ QuietReceiver(x, y)
  BY <1>2, <1>16, <1>19, <1>20, <1>21, OneQuiet DEF t
<1> QED BY <1>1, <1>22, StreamKept

LEMMA ConnectedStream ==
    ASSUME LinkInv, StreamInv, NEW ch \in Ch, NEW ok \in BOOLEAN, Connected(ch, ok)
    PROVE  StreamInv'
<1> DEFINE e == "router"
           t == table[e]
           c == t.chans[ch]
           f == [kind |-> IF ok /\ ~Closed(c) THEN "opened" ELSE "refused", ch |-> ch]
           d == IF ok /\ ~Closed(c) THEN Granted(c) ELSE None
           s == Put(t, ch, d)
<1>1. /\ e \in Ends /\ Has(t, ch) /\ UNCHANGED <<pipe, task, accepted, got>>
      /\ table' = [table EXCEPT ![e] = s] \/ table' = [table EXCEPT ![e] = Queue(s, f)]
  BY DEF Connected, Ends
<1>2. /\ t \in Shape /\ c \in ChanRecord /\ c # None
  BY <1>1, HeldChannel
<1>3. f \in Op
  BY MessagesMade
<1>4. /\ Granted(c) \in ChanRecord /\ Granted(c).inbound = c.inbound /\ Granted(c).sent = c.sent
      /\ Granted(c).closeSent = c.closeSent /\ Granted(c).cancelled = c.cancelled
      /\ Granted(c).peerClosed = c.peerClosed /\ Granted(c).localClose = c.localClose
  BY <1>2, SizesAssumption DEF ChanRecord, Granted
<1>5. d = None \/ d = Granted(c)
  OBVIOUS
<1> HIDE DEF d, f
<1>6. Touches(t, s, ch) /\ s.chans[ch] = d /\ s \in Shape
  <2>1. t \in Shape /\ d \in ChanRecord \cup {None} /\ ch \in Ch
    BY <1>2, <1>4, <1>5
  <2> HIDE DEF t, c
  <2> QED BY <2>1, PutTouches DEF Touches
<1>7. Touches(s, Queue(s, f), ch) /\ Queue(s, f).chans[ch] = d
  BY <1>3, <1>6, QueueTouches
<1>8. Touches(t, Queue(s, f), ch)
  BY <1>6, <1>7, TouchesTwice
<1>9. PICK r : table' = [table EXCEPT ![e] = r] /\ Touches(t, r, ch) /\ r.chans[ch] = d
  BY <1>1, <1>6, <1>7, <1>8
<1>10. \/ r.chans[ch] = None
       \/ /\ r.chans[ch].inbound = c.inbound /\ r.chans[ch].sent = c.sent
          /\ (c.closeSent => r.chans[ch].closeSent) /\ (c.cancelled => r.chans[ch].cancelled)
          /\ r.chans[ch].peerClosed = c.peerClosed /\ (r.chans[ch].localClose = "no" => c.localClose = "no")
  BY <1>4, <1>5, <1>9
<1>11. Only(accepted, accepted', e, ch) /\ (SentClose(e, ch) => accepted'[e][ch] = accepted[e][ch])
  BY <1>1, NoAccept
<1> HIDE DEF e, s
<1> QED BY <1>1, <1>9, <1>10, <1>11, FlagsKeep

LEMMA OpenerStream ==
    ASSUME LinkInv, StreamInv, NEW ch \in Ch, PollOpen(ch) \/ Abandon(ch)
    PROVE  StreamInv'
<1> DEFINE e == "window"
           c == table[e].chans[ch]
           r == [c EXCEPT !.released = TRUE]
           w == [c EXCEPT !.openWaker = TRUE]
           x == ReleasedChan(c)
<1>1. /\ e \in Ends /\ user[e][ch] = "opening" /\ UNCHANGED <<pipe, task, accepted, got>>
      /\ \/ table' = table
         \/ \E d \in {r, w, x} : \/ table' = [table EXCEPT ![e] = Put(table[e], ch, d)]
                                 \/ table' = [table EXCEPT ![e] = Reaped(Put(table[e], ch, d), ch)]
  <2>1. e \in Ends /\ user[e][ch] = "opening" /\ UNCHANGED <<pipe, task, accepted, got>>
    BY DEF PollOpen, Abandon, Ends
  <2>2. CASE PollOpen(ch)
    <3>1. \/ table' = table
          \/ table' = [table EXCEPT ![e] = Put(table[e], ch, w)]
          \/ table' = [table EXCEPT ![e] = Reaped(Put(table[e], ch, r), ch)]
      BY <2>2 DEF PollOpen, Put
    <3> QED BY <2>1, <3>1
  <2>3. CASE Abandon(ch)
    <3>1. \/ table' = [table EXCEPT ![e] = Put(table[e], ch, r)]
          \/ table' = [table EXCEPT ![e] = Reaped(Put(table[e], ch, x), ch)]
      BY <2>3 DEF Abandon, ReleasedIn
    <3> QED BY <2>1, <3>1
  <2> QED BY <2>1, <2>2, <2>3
<1>2. /\ Has(table[e], ch) /\ c \in ChanRecord /\ c # None /\ table[e].down \in BOOLEAN
      /\ accepted[e][ch] \in Nat /\ user[e][ch] \in UserType
      /\ Slot(e, c, user[e][ch], table[e].down, accepted[e][ch])
  BY <1>1, UsersChannel
<1>3. x \in ChanRecord
  BY <1>1, <1>2, ReleasedSlot
<1>4. \A d \in {r, w, x} :
        /\ d \in ChanRecord /\ d.inbound = c.inbound /\ d.sent = c.sent
        /\ (c.closeSent => d.closeSent) /\ (c.cancelled => d.cancelled)
        /\ d.peerClosed = c.peerClosed /\ (d.localClose = "no" => c.localClose = "no")
  <2>1. \A d \in {r, w} :
          /\ d \in ChanRecord /\ d.inbound = c.inbound /\ d.sent = c.sent
          /\ (c.closeSent => d.closeSent) /\ (c.cancelled => d.cancelled)
          /\ d.peerClosed = c.peerClosed /\ (d.localClose = "no" => c.localClose = "no")
    <3>1. /\ r \in ChanRecord /\ r.inbound = c.inbound /\ r.sent = c.sent
          /\ (c.closeSent => r.closeSent) /\ (c.cancelled => r.cancelled)
          /\ r.peerClosed = c.peerClosed /\ (r.localClose = "no" => c.localClose = "no")
      BY <1>2 DEF ChanRecord
    <3>2. /\ w \in ChanRecord /\ w.inbound = c.inbound /\ w.sent = c.sent
          /\ (c.closeSent => w.closeSent) /\ (c.cancelled => w.cancelled)
          /\ w.peerClosed = c.peerClosed /\ (w.localClose = "no" => c.localClose = "no")
      BY <1>2 DEF ChanRecord
    <3> HIDE DEF r, w, c
    <3> QED BY <3>1, <3>2
  <2>2. /\ x.inbound = c.inbound /\ x.sent = c.sent
        /\ (c.closeSent => x.closeSent) /\ (c.cancelled => x.cancelled)
        /\ x.peerClosed = c.peerClosed /\ (x.localClose = "no" => c.localClose = "no")
    BY <1>2 DEF ChanRecord, ReleasedChan
  <2> QED BY <1>3, <2>1, <2>2
<1>5. CASE table' = table
  <2>1. \A p \in Ends, k \in Ch : QuietSender(p, k) /\ QuietReceiver(p, k)
    BY <1>1, <1>5, UntouchedQuiet
  <2> QED BY <1>1, <2>1, StreamKept
<1>6. CASE table' # table
  <2>1. PICK d \in {r, w, x} : \/ table' = [table EXCEPT ![e] = Put(table[e], ch, d)]
                               \/ table' = [table EXCEPT ![e] = Reaped(Put(table[e], ch, d), ch)]
    BY <1>1, <1>6
  <2>2. /\ d \in ChanRecord /\ d.inbound = c.inbound /\ d.sent = c.sent
        /\ (c.closeSent => d.closeSent) /\ (c.cancelled => d.cancelled)
        /\ d.peerClosed = c.peerClosed /\ (d.localClose = "no" => c.localClose = "no")
    BY <1>4, <2>1
  <2>3. Only(accepted, accepted', e, ch) /\ (SentClose(e, ch) => accepted'[e][ch] = accepted[e][ch])
    BY <1>1, NoAccept
  <2> HIDE DEF e, r, w, x
  <2> QED BY <1>1, <1>2, <2>1, <2>2, <2>3, PutFlagsKeep
<1> QED BY <1>5, <1>6

LEMMA BeginOpenStream ==
    ASSUME LinkInv, StreamInv, BeginOpen
    PROVE  StreamInv'
<1> DEFINE e == "window"
           t == table[e]
           ch == t.highest + 1
           raised == [t EXCEPT !.highest = ch]
           f == [kind |-> "open", ch |-> ch]
           c == NewChan("opening")
           s == Queue(Put(raised, ch, c), f)
<1>1. /\ e \in Ends /\ ch <= load.chans /\ table' = [table EXCEPT ![e] = s]
      /\ UNCHANGED <<pipe, task, accepted, got>>
  BY DEF BeginOpen, Ends
<1>2. t \in Shape /\ load \in LoadType
  BY <1>1, Histories, SizesAssumption DEF LinkInv, Shaped
<1>3. t.highest \in Ch /\ load.chans \in Ch
  BY <1>2 DEF Shape, LoadType
<1>4. ch \in Ch
  BY <1>1, <1>3, SizesAssumption DEF Ch
<1>5. raised \in Shape /\ raised.highest = ch /\ raised.chans = t.chans
  BY <1>2, <1>4 DEF Shape
<1>6. f \in Op /\ c \in ChanRecord
  BY <1>4, MessagesMade, NewSlot
<1> HIDE DEF raised, f, ch, c
<1>7. Touches(raised, Put(raised, ch, c), ch) /\ Put(raised, ch, c).chans[ch] = c
  BY <1>4, <1>5, <1>6, PutTouches
<1>8. Touches(Put(raised, ch, c), s, ch) /\ s.chans[ch] = c
  BY <1>4, <1>6, <1>7, QueueTouches DEF Touches
<1>9. Touches(raised, s, ch)
  BY <1>7, <1>8, TouchesTwice
<1>10. /\ s \in Shape /\ s.highest = ch /\ s.chans[ch] \in {None, NewChan("opening")}
       /\ \A k \in Ch : k # ch => s.chans[k] = t.chans[k]
  BY <1>5, <1>8, <1>9 DEF Touches, c
<1> HIDE DEF s
<1>11. ch = table[e].highest + 1
  BY DEF ch
<1> HIDE DEF e
<1>12. \A d \in Ends, k \in Ch : QuietSender(d, k) /\ QuietReceiver(d, k)
  <2>1. AddsChannel(e, ch, s)
    BY <1>1, <1>4, <1>10, <1>11 DEF AddsChannel
  <2> QED BY <2>1, OpensQuiet
<1> QED BY <1>1, <1>12, StreamKept

LEMMA EndStream ==
    ASSUME LinkInv, StreamInv, NEW e \in Ends, table' = [table EXCEPT ![e] = Ended(@)],
           UNCHANGED <<pipe, task, accepted, got>>
    PROVE  StreamInv'
<1> DEFINE t == table[e]
           s == Ended(t)
<1>0. t \in Shape /\ table'[e] = s /\ \A x \in Ends : x # e => table'[x] = table[x]
  BY Histories
<1>1. s.highest = t.highest /\ \A k \in Ch : s.chans[k] = IF Has(t, k) THEN Woken(t.chans[k]) ELSE None
  BY <1>0 DEF Ended, Shape
<1> HIDE DEF s
<1>2. ASSUME NEW d \in Ends, NEW k \in Ch PROVE QuietSender(d, k) /\ QuietReceiver(d, k)
  <2>1. CASE d # e
    BY <1>0, <2>1, UntouchedQuiet
  <2>2. CASE d = e /\ ~Has(t, k)
    <3>1. table'[d].chans[k] = table[d].chans[k] /\ table'[d].highest = table[d].highest
      BY <1>0, <1>1, <2>2 DEF Has
    <3> QED BY <3>1, UntouchedQuiet
  <2>3. CASE d = e /\ Has(t, k)
    <3> DEFINE c == t.chans[k]
               w == s.chans[k]
    <3>1. c # None /\ c \in ChanRecord /\ Chain(c.inbound, got[e][k]) /\ k <= table[e].highest
      BY <2>3, HeldChannel DEF Has
    <3>2. /\ w.inbound = c.inbound /\ w.sent = c.sent /\ w.closeSent = c.closeSent
          /\ w.cancelled = c.cancelled /\ w.peerClosed = c.peerClosed /\ w.localClose = c.localClose
      BY <1>1, <2>3, <3>1 DEF Woken, ChanRecord
    <3>3. Steady(c, got[e][k], w, got[e][k])
      BY <3>1, <3>2, SteadyFlags
    <3>4. SentClose(e, k) => accepted'[e][k] = accepted[e][k]
      OBVIOUS
    <3> HIDE DEF c, w
    <3>5. QuietSender(e, k) /\ QuietReceiver(e, k)
      BY <1>0, <1>1, <2>3, <3>1, <3>3, SteadyQuiet DEF c, w
    <3> QED BY <2>3, <3>5
  <2> QED BY <2>1, <2>2, <2>3
<1> QED BY <1>2, StreamKept

(***************************************************************************)
(* A frame leaves a pipe or enters one.                                    *)
(***************************************************************************)

LEMMA Shifted ==
    ASSUME LinkInv, NEW p \in Ends, NEW ch \in Ch, NEW m, Marks(p, ch, m), pipe[p] # <<>>,
           pipe'[p] = Tail(pipe[p]), QuietSender(Peer(p), ch),
           task'[p] = "running" /\ Waiting(p, ch)' => m[2] = Position(table'[p].chans[ch], got'[p][ch])
    PROVE  Flow(p, ch)'
<1> DEFINE e == Peer(p)
           q == pipe[p]
           n == Len(q)
           r == pipe'[p]
<1>1. q \in Seq(Message) /\ n \in Nat /\ n >= 1
  BY Histories DEF PipesTyped
<1>2. Len(r) = n - 1 /\ \A i \in 1..n - 1 : r[i] = q[i + 1]
  BY <1>1
<1>3. m \in [1..n + 1 -> Nat]
  BY DEF Marks
<1> HIDE DEF n, r, q
<1>4. Len(r) + 1 = n /\ n - 1 \in Nat /\ 1 \in 1..Len(r) + 1 /\ n \in 1..Len(r) + 1
  BY <1>1, <1>2
<1> PICK w : w = [i \in 1..Len(r) + 1 |-> m[i + 1]]
  OBVIOUS
<1>5. \A i \in 1..Len(r) + 1 : i + 1 \in 1..n + 1 /\ m[i + 1] \in Nat /\ w[i] = m[i + 1]
  <2> TAKE i \in 1..Len(r) + 1
  <2>1. i + 1 \in 1..n + 1
    BY <1>1, <1>4
  <2> QED BY <1>3, <2>1
<1>6. w \in [1..Len(r) + 1 -> Nat] /\ w[1] = m[2] /\ w[Len(r) + 1] = m[n + 1]
  <2>1. w[1] = m[1 + 1] /\ w[n] = m[n + 1]
    BY <1>4, <1>5
  <2> QED BY <1>4, <1>5, <2>1
<1>7. /\ Has(table'[e], ch) => w[Len(r) + 1] = table'[e].chans[ch].sent
      /\ ch > table'[e].highest => w[Len(r) + 1] = 0
  BY <1>6 DEF Marks, QuietSender, n, q
<1>8. ASSUME NEW i \in 1..Len(r)
      PROVE  LET f == r[i]
             IN  /\ f.ch = ch /\ f.kind = "data" => w[i] = f.lo /\ w[i + 1] = f.hi
                 /\ ~(f.ch = ch /\ f.kind = "data") => w[i + 1] = w[i]
                 /\ f.ch = ch /\ f.kind = "close" =>
                      SentClose(e, ch)' /\ (f.reason = "eof" => w[i] = accepted'[e][ch])
  <2>1. /\ i \in 1..n - 1 /\ i + 1 \in 1..n /\ i \in 1..Len(r) + 1 /\ i + 1 \in 1..Len(r) + 1
    BY <1>1, <1>2, <1>4
  <2>2. r[i] = q[i + 1] /\ w[i] = m[i + 1] /\ w[i + 1] = m[(i + 1) + 1]
    BY <1>2, <1>5, <2>1
  <2>3. LET f == q[i + 1]
        IN  /\ f.ch = ch /\ f.kind = "data" => m[i + 1] = f.lo /\ m[(i + 1) + 1] = f.hi
            /\ ~(f.ch = ch /\ f.kind = "data") => m[(i + 1) + 1] = m[i + 1]
            /\ f.ch = ch /\ f.kind = "close" =>
                 SentClose(e, ch) /\ (f.reason = "eof" => m[i + 1] = accepted[e][ch])
    BY <2>1 DEF Marks, n, q
  <2>4. StaysClosed(e, ch)
    BY DEF QuietSender
  <2> QED BY <2>2, <2>3, <2>4 DEF StaysClosed
<1>9. Marks(p, ch, w)'
  <2>1. task'[p] = "running" /\ Waiting(p, ch)' => w[1] = Position(table'[p].chans[ch], got'[p][ch])
    BY <1>6
  <2> QED BY <1>6, <1>7, <1>8, <2>1 DEF Marks, Has, r
<1> QED BY <1>9 DEF Flow

LEMMA Extended ==
    ASSUME LinkInv, NEW p \in Ends, NEW ch \in Ch, NEW m, Marks(p, ch, m), NEW f \in Message,
           pipe'[p] = Append(pipe[p], f), QuietReceiver(p, ch), StaysClosed(Peer(p), ch),
           task'[p] = "running" => task[p] = "running",
           NEW hi \in Nat, Has(table'[Peer(p)], ch) => hi = table'[Peer(p)].chans[ch].sent,
           ch > table'[Peer(p)].highest => hi = 0,
           LET last == m[Len(pipe[p]) + 1]
           IN  /\ f.ch = ch /\ f.kind = "data" => last = f.lo /\ hi = f.hi
               /\ ~(f.ch = ch /\ f.kind = "data") => hi = last
               /\ f.ch = ch /\ f.kind = "close" =>
                    SentClose(Peer(p), ch)' /\ (f.reason = "eof" => last = accepted'[Peer(p)][ch])
    PROVE  Flow(p, ch)'
<1> DEFINE e == Peer(p)
           q == pipe[p]
           n == Len(q)
           r == pipe'[p]
<1>1. q \in Seq(Message) /\ n \in Nat
  BY Histories DEF PipesTyped
<1>2. Len(r) = n + 1 /\ r[n + 1] = f /\ \A i \in 1..n : r[i] = q[i]
  BY <1>1
<1>3. m \in [1..n + 1 -> Nat]
  BY DEF Marks
<1> HIDE DEF n, r, q
<1> PICK w : w = [i \in 1..Len(r) + 1 |-> IF i = n + 2 THEN hi ELSE m[i]]
  OBVIOUS
<1>4. \A i \in 1..n + 1 : i \in 1..Len(r) + 1 /\ i # n + 2 /\ w[i] = m[i]
  <2> TAKE i \in 1..n + 1
  <2>1. i \in 1..Len(r) + 1 /\ i # n + 2
    BY <1>1, <1>2
  <2> QED BY <2>1
<1>5. Len(r) + 1 = n + 2 /\ n + 2 \in 1..Len(r) + 1 /\ 1 \in 1..n + 1 /\ n + 1 \in 1..n + 1 /\ (n + 1) + 1 = n + 2
  BY <1>1, <1>2
<1>6. w \in [1..Len(r) + 1 -> Nat]
  <2>1. \A i \in 1..Len(r) + 1 : i = n + 2 \/ i \in 1..n + 1
    BY <1>1, <1>2
  <2> QED BY <1>3, <2>1
<1>7. w[1] = m[1] /\ w[n + 2] = hi /\ w[n + 1] = m[n + 1]
  BY <1>4, <1>5
<1>8. task'[p] = "running" /\ Waiting(p, ch)' => w[1] = Position(table'[p].chans[ch], got'[p][ch])
  BY <1>7 DEF Marks, QuietReceiver
<1>9. ASSUME NEW i \in 1..Len(r)
      PROVE  LET g == r[i]
             IN  /\ g.ch = ch /\ g.kind = "data" => w[i] = g.lo /\ w[i + 1] = g.hi
                 /\ ~(g.ch = ch /\ g.kind = "data") => w[i + 1] = w[i]
                 /\ g.ch = ch /\ g.kind = "close" =>
                      SentClose(e, ch)' /\ (g.reason = "eof" => w[i] = accepted'[e][ch])
  <2>1. CASE i = n + 1
    <3>1. r[i] = f /\ w[i] = m[n + 1] /\ w[i + 1] = hi
      BY <1>2, <1>5, <1>7, <2>1
    <3> QED BY <3>1 DEF n, q
  <2>2. CASE i # n + 1
    <3>1. i \in 1..n /\ i \in 1..n + 1 /\ i + 1 \in 1..n + 1
      BY <1>1, <1>2, <2>2
    <3>2. r[i] = q[i] /\ w[i] = m[i] /\ w[i + 1] = m[i + 1]
      BY <1>2, <1>4, <3>1
    <3>3. LET g == q[i]
          IN  /\ g.ch = ch /\ g.kind = "data" => m[i] = g.lo /\ m[i + 1] = g.hi
              /\ ~(g.ch = ch /\ g.kind = "data") => m[i + 1] = m[i]
              /\ g.ch = ch /\ g.kind = "close" =>
                   SentClose(e, ch) /\ (g.reason = "eof" => m[i] = accepted[e][ch])
      BY <3>1 DEF Marks, n, q
    <3> QED BY <3>2, <3>3 DEF StaysClosed
  <2> QED BY <2>1, <2>2
<1>10. /\ Has(table'[e], ch) => w[Len(r) + 1] = table'[e].chans[ch].sent
       /\ ch > table'[e].highest => w[Len(r) + 1] = 0
  BY <1>5, <1>7
<1>11. Marks(p, ch, w)'
  BY <1>6, <1>8, <1>9, <1>10 DEF Marks, Has, r
<1> QED BY <1>11 DEF Flow

\* A channel's turn, as its stream sees it.
LEMMA TurnStream ==
    ASSUME LinkInv, NEW e \in Ends, NEW ch \in Ch, Has(table[e], ch), ~table[e].down,
           CloseReady(table[e].chans[ch]) \/ DataReady(table[e].chans[ch])
    PROVE  LET c == table[e].chans[ch]
               d == ChannelSent(table[e], ch).chans[ch]
               f == ChannelFrame(table[e], ch)
           IN  /\ f.ch = ch /\ f.kind \in {"data", "close"}
               /\ d # None => /\ d.inbound = c.inbound /\ (c.closeSent => d.closeSent)
                              /\ d.cancelled = c.cancelled /\ d.peerClosed = c.peerClosed
                              /\ d.localClose = c.localClose
               /\ f.kind = "data" => f.lo = c.sent /\ (d # None => f.hi = d.sent)
               /\ f.kind = "close" => /\ d # None => d.closeSent /\ d.sent = c.sent
                                      /\ f.reason = "eof" => c.sent = accepted[e][ch]
<1> DEFINE t == table[e]
           c == t.chans[ch]
           v == [t EXCEPT !.turn = ch]
<1>1. t \in Shape /\ c \in ChanRecord /\ v \in Shape /\ v.chans = t.chans
  BY HeldIsOpened DEF Has, Shape
<1>2. Slot(e, c, user[e][ch], t.down, accepted[e][ch]) /\ c # None
  BY DEF LinkInv, Slots, Has
<1>3. CASE CloseReady(c)
  <2> DEFINE d == Woken(OutboundCleared([c EXCEPT !.closeSent = TRUE]))
  <2>1. ChannelFrame(t, ch) = [kind |-> "close", ch |-> ch, reason |-> c.localClose]
    BY <1>3 DEF ChannelFrame
  <2>2. c.localClose = "eof" => c.sent = accepted[e][ch]
    BY <1>2 DEF Slot, Written
  <2>3. ChannelSent(t, ch) = Reaped(Put(v, ch, d), ch)
    BY <1>3 DEF ChannelSent
  <2>4. /\ d \in ChanRecord /\ d.inbound = c.inbound /\ d.closeSent = TRUE /\ d.sent = c.sent
        /\ d.cancelled = c.cancelled /\ d.peerClosed = c.peerClosed /\ d.localClose = c.localClose
    BY <1>1 DEF Woken, OutboundCleared, ChanRecord
  <2> HIDE DEF d, v
  <2>5. Put(v, ch, d) \in Shape /\ Put(v, ch, d).chans[ch] = d
    BY <1>1, <2>4, PutTouches DEF Touches
  <2>6. ChannelSent(t, ch).chans[ch] \in {d, None}
    <3>1. Put(Put(v, ch, d), ch, None).chans[ch] = None
      BY <2>5, PutTouches
    <3> QED BY <2>3, <2>5, <3>1 DEF Reaped
  <2>7. LET f == ChannelFrame(t, ch) IN f.ch = ch /\ f.kind = "close" /\ f.reason = c.localClose
    BY <2>1
  <2> QED BY <2>2, <2>4, <2>6, <2>7
<1>4. CASE ~CloseReady(c)
  <2> DEFINE k == Min2(Outbound(c), Min2(c.credit, CHUNK))
             d == [c EXCEPT !.sent = @ + k, !.credit = @ - k, !.writeWaker = FALSE]
  <2>1. ChannelSent(t, ch) = Put(v, ch, d)
    BY <1>4 DEF ChannelSent
  <2>2. ChannelFrame(t, ch) = [kind |-> "data", ch |-> ch, lo |-> c.sent, hi |-> c.sent + k]
    BY <1>4 DEF ChannelFrame
  <2>3. d \in ChanRecord
    <3>1. user[e][ch] \in UserType /\ t.down \in BOOLEAN /\ accepted[e][ch] \in Nat
      BY <1>1, Histories DEF Shape
    <3>2. /\ c \in ChanRecord /\ c # None /\ DataReady(c) /\ ~t.down
          /\ Slot(e, c, user[e][ch], t.down, accepted[e][ch])
      BY <1>1, <1>2, <1>4
    <3> HIDE DEF t, c
    <3> QED BY <3>1, <3>2, SentSlot
  <2> HIDE DEF k
  <2>4. /\ d.inbound = c.inbound /\ d.closeSent = c.closeSent /\ d.sent = c.sent + k
        /\ d.cancelled = c.cancelled /\ d.peerClosed = c.peerClosed /\ d.localClose = c.localClose
    BY <1>1 DEF ChanRecord
  <2> HIDE DEF d, v
  <2>5. ChannelSent(t, ch).chans[ch] = d
    BY <1>1, <2>1, <2>3, PutTouches
  <2>6. LET f == ChannelFrame(t, ch)
        IN  f.ch = ch /\ f.kind = "data" /\ f.lo = c.sent /\ f.hi = c.sent + k
    BY <2>2
  <2> QED BY <2>4, <2>5, <2>6
<1> QED BY <1>3, <1>4

\* What a frame sent does to a channel's stream: its place before and after.
Sends(e, ch, f, last, hi) ==
    /\ hi \in Nat /\ (Has(table'[e], ch) => hi = table'[e].chans[ch].sent)
    /\ ch > table'[e].highest => hi = 0
    /\ f.ch = ch /\ f.kind = "data" => last = f.lo /\ hi = f.hi
    /\ ~(f.ch = ch /\ f.kind = "data") => hi = last
    /\ f.ch = ch /\ f.kind = "close" =>
         SentClose(e, ch)' /\ (f.reason = "eof" => last = accepted'[e][ch])

LEMMA SentStream ==
    ASSUME LinkInv, StreamInv, NEW e \in Ends, NEW f \in Message,
           pipe' = [pipe EXCEPT ![Peer(e)] = Append(@, f)],
           \A x \in Ends : task'[x] = "running" => task[x] = "running",
           \A x \in Ends, k \in Ch : StaysClosed(x, k) /\ QuietReceiver(x, k),
           \A k \in Ch : QuietSender(Peer(e), k),
           \A k \in Ch, last \in Nat :
              (Has(table[e], k) => last = table[e].chans[k].sent) /\ (k > table[e].highest => last = 0)
                => \E hi : Sends(e, k, f, last, hi)
    PROVE  StreamInv'
<1> SUFFICES ASSUME NEW x \in Ends, NEW k \in Ch PROVE Received(x, k)' /\ Flow(x, k)'
  BY DEF StreamInv
<1> DEFINE p == Peer(e)
<1>1. /\ p \in Ends /\ p # e /\ Peer(p) = e /\ Peer(x) \in Ends /\ (x = p \/ x = e)
      /\ pipe'[e] = pipe[e] /\ pipe'[p] = Append(pipe[p], f) /\ pipe[p] \in Seq(Message)
  BY PeerFacts, Histories DEF PipesTyped, Peer, Ends
<1>2. Received(x, k)'
  BY <1>1, ReceivedKept DEF StreamInv
<1>3. CASE x = e
  BY <1>1, <1>2, <1>3, FlowKept DEF StreamInv
<1>4. CASE x = p
  <2>1. PICK m : Marks(p, k, m)
    BY <1>1 DEF StreamInv, Flow
  <2> DEFINE last == m[Len(pipe[p]) + 1]
  <2>2. last \in Nat
    <3>1. m \in [1..Len(pipe[p]) + 1 -> Nat]
      BY <2>1 DEF Marks
    <3>2. Len(pipe[p]) \in Nat
      BY <1>1
    <3>3. Len(pipe[p]) + 1 \in 1..Len(pipe[p]) + 1
      BY <3>2
    <3> QED BY <3>1, <3>3
  <2>3. (Has(table[e], k) => last = table[e].chans[k].sent) /\ (k > table[e].highest => last = 0)
    BY <1>1, <2>1 DEF Marks
  <2> HIDE DEF last
  <2>4. PICK hi : Sends(e, k, f, last, hi)
    BY <2>2, <2>3
  <2>5. /\ hi \in Nat /\ (Has(table'[e], k) => hi = table'[e].chans[k].sent)
        /\ k > table'[e].highest => hi = 0
        /\ f.ch = k /\ f.kind = "data" => last = f.lo /\ hi = f.hi
        /\ ~(f.ch = k /\ f.kind = "data") => hi = last
        /\ f.ch = k /\ f.kind = "close" =>
             SentClose(e, k)' /\ (f.reason = "eof" => last = accepted'[e][k])
    BY <2>4 DEF Sends
  <2> HIDE DEF p
  <2>6. Flow(p, k)'
    BY <1>1, <2>1, <2>5, Extended DEF last
  <2> QED BY <1>2, <1>4, <2>6
<1> QED BY <1>1, <1>2, <1>3, <1>4

LEMMA NextOutStream ==
    ASSUME LinkInv, StreamInv, NEW e \in Ends, NextOut(e)
    PROVE  StreamInv'
<1> DEFINE t == table[e]
<1>0. t \in Shape /\ Peer(e) \in Ends /\ Peer(e) # e /\ UNCHANGED <<accepted, got>> /\ ~t.down
  BY PeerFacts, Histories DEF NextOut
<1>1. CASE /\ OpsFirst(t)
           /\ pipe' = [pipe EXCEPT ![Peer(e)] = Append(@, Head(t.ops))]
           /\ table' = [table EXCEPT ![e].ops = Tail(@)]
           /\ UNCHANGED task
  <2> DEFINE f == Head(t.ops)
  <2>1. f \in Op /\ f \in Message /\ f.kind \notin {"data", "close"}
    <3>1. f \in Op
      BY <1>0, <1>1 DEF OpsFirst, Shape
    <3> HIDE DEF f
    <3> QED BY <3>1 DEF Op, Message
  <2>2. \A x \in Ends : table'[x].chans = table[x].chans /\ table'[x].highest = table[x].highest
    BY <1>0, <1>1, Histories DEF Shape
  <2>3. \A x \in Ends, k \in Ch : QuietSender(x, k) /\ QuietReceiver(x, k)
    BY <1>0, <2>2, UntouchedQuiet
  <2>4. ASSUME NEW k \in Ch, NEW last \in Nat, Has(table[e], k) => last = table[e].chans[k].sent,
               k > table[e].highest => last = 0
        PROVE  Sends(e, k, f, last, last)
    BY <2>1, <2>2, <2>4 DEF Sends, Has
  <2> HIDE DEF f
  <2>5. pipe' = [pipe EXCEPT ![Peer(e)] = Append(@, f)]
    BY <1>1 DEF f
  <2> QED BY <1>0, <1>1, <2>1, <2>3, <2>4, <2>5, SentStream DEF QuietSender
<1>2. CASE /\ Ready(t) # {}
           /\ LET ch == NextTurn(t)
                  f  == ChannelFrame(t, ch)
              IN  /\ pipe' = [pipe EXCEPT ![Peer(e)] = Append(@, f)]
                  /\ table' = [table EXCEPT ![e] = ChannelSent(t, ch)]
                  /\ task' = [task EXCEPT ![e] = IF f.kind = "close" /\ ch = 0 THEN "stopped" ELSE @]
  <2>0. NextTurn(t) \in Ch
    BY <1>0, <1>2, NextTurnIsReady
  <2> PICK ch \in Ch : ch = NextTurn(t)
    BY <2>0
  <2> DEFINE s  == ChannelSent(t, ch)
             f  == ChannelFrame(t, ch)
             c  == t.chans[ch]
             d  == s.chans[ch]
  <2>1. Has(t, ch) /\ (CloseReady(t.chans[ch]) \/ DataReady(t.chans[ch]))
    BY <1>0, <1>2, NextTurnIsReady
  <2>2. /\ pipe' = [pipe EXCEPT ![Peer(e)] = Append(@, f)]
        /\ table' = [table EXCEPT ![e] = s]
        /\ \/ task' = [task EXCEPT ![e] = "stopped"]
           \/ task' = [task EXCEPT ![e] = @]
    BY <1>2
  <2>3. Touches(t, s, ch) /\ f \in Message
    BY <1>0, <2>1, TurnSlot
  <2>4. /\ f.ch = ch /\ f.kind \in {"data", "close"}
        /\ d # None => /\ d.inbound = c.inbound /\ (c.closeSent => d.closeSent)
                       /\ d.cancelled = c.cancelled /\ d.peerClosed = c.peerClosed
                       /\ d.localClose = c.localClose
        /\ f.kind = "data" => f.lo = c.sent /\ (d # None => f.hi = d.sent)
        /\ f.kind = "close" => /\ d # None => d.closeSent /\ d.sent = c.sent
                               /\ f.reason = "eof" => c.sent = accepted[e][ch]
    BY <1>0, <2>1, TurnStream
  <2>5. c # None /\ c \in ChanRecord /\ Chain(c.inbound, got[e][ch]) /\ ch <= t.highest
    BY <2>1, HeldChannel
  <2>6. f.kind = "data" => f.hi \in Nat
    BY <2>3, MessageFields
  <2>7. table'[e] = s /\ (\A x \in Ends : x # e => table'[x] = table[x]) /\ s.highest = t.highest
    BY <2>2, <2>3, Histories DEF Touches
  <2> HIDE DEF s, f
  <2>8. ASSUME NEW x \in Ends, NEW k \in Ch, x # e \/ k # ch PROVE QuietSender(x, k) /\ QuietReceiver(x, k)
    <3>1. table'[x].chans[k] = table[x].chans[k] /\ table'[x].highest = table[x].highest
      BY <2>3, <2>7, <2>8 DEF Touches
    <3> QED BY <1>0, <3>1, UntouchedQuiet
  <2>9. StaysClosed(e, ch) /\ QuietReceiver(e, ch)
    <3>0. t.highest \in Nat /\ ch \in Nat
      BY <1>0, <2>1, SizesAssumption DEF Shape, Ch
    <3>1. ~(ch > t.highest)
      BY <2>5, <3>0
    <3>2. StaysClosed(e, ch)
      BY <1>0, <2>4, <2>5, <2>7 DEF StaysClosed, SentClose, Has
    <3>3. d # None => Position(d, got[e][ch]) = Position(c, got[e][ch]) /\ (Takes(d) => Takes(c))
      BY <2>4, <2>5 DEF Position, Takes, Closed
    <3>4. QuietReceiver(e, ch)
      BY <1>0, <2>4, <2>5, <2>7, <3>1, <3>3 DEF QuietReceiver, Waiting, Has, Takes
    <3> QED BY <3>2, <3>4
  <2>10. ASSUME NEW k \in Ch, NEW last \in Nat, Has(table[e], k) => last = table[e].chans[k].sent,
                k > table[e].highest => last = 0
         PROVE  \E hi : Sends(e, k, f, last, hi)
    <3>1. CASE k # ch
      <4>1. s.chans[k] = t.chans[k]
        BY <2>3, <3>1 DEF Touches, s
      <4>2. Sends(e, k, f, last, last)
        BY <2>4, <2>7, <2>10, <3>1, <4>1 DEF Sends, Has
      <4> QED BY <4>2
    <3>2. CASE k = ch
      <4>0. t.highest \in Nat /\ ch \in Nat
        BY <1>0, <2>1, SizesAssumption DEF Shape, Ch
      <4>1. ~(ch > t.highest) /\ last = c.sent
        BY <2>1, <2>5, <2>10, <3>2, <4>0
      <4>2. CASE f.kind = "data"
        <5>1. Sends(e, ch, f, last, f.hi)
          BY <2>4, <2>6, <2>7, <4>1, <4>2 DEF Sends, Has
        <5> QED BY <3>2, <5>1
      <4>3. CASE f.kind = "close"
        <5>1. SentClose(e, ch)'
          BY <2>4, <2>5, <2>7, <4>3 DEF SentClose, Has
        <5>2. Sends(e, ch, f, last, last)
          BY <1>0, <2>4, <2>7, <4>1, <4>3, <5>1 DEF Sends, Has
        <5> QED BY <3>2, <5>2
      <4> QED BY <2>4, <4>2, <4>3
    <3> QED BY <3>1, <3>2
  <2>11. \A x \in Ends, k \in Ch : StaysClosed(x, k) /\ QuietReceiver(x, k)
    BY <2>8, <2>9 DEF QuietSender
  <2>12. \A k \in Ch : QuietSender(Peer(e), k)
    BY <1>0, <2>8
  <2>13. \A x \in Ends : task'[x] = "running" => task[x] = "running"
    BY <2>2, Histories DEF PipesTyped
  <2> QED BY <2>2, <2>3, <2>10, <2>11, <2>12, <2>13, SentStream
<1> QED BY <1>1, <1>2 DEF NextOut

\* The frame at the head of a pipe, in the stream it belongs to.
LEMMA HeadMarks ==
    ASSUME LinkInv, NEW p \in Ends, NEW ch \in Ch, NEW m, Marks(p, ch, m), pipe[p] # <<>>,
           NEW f, f = Head(pipe[p])
    PROVE  /\ f.ch = ch /\ f.kind = "data" => m[1] = f.lo /\ m[2] = f.hi
           /\ ~(f.ch = ch /\ f.kind = "data") => m[2] = m[1]
           /\ f.ch = ch /\ f.kind = "close" =>
                SentClose(Peer(p), ch) /\ (f.reason = "eof" => m[1] = accepted[Peer(p)][ch])
<1>1. pipe[p] \in Seq(Message) /\ f = pipe[p][1] /\ 1 \in 1..Len(pipe[p])
  <2>1. pipe[p] \in Seq(Message)
    BY Histories DEF PipesTyped
  <2> QED BY <2>1
<1>2. /\ f.ch = ch /\ f.kind = "data" => m[1] = f.lo /\ m[1 + 1] = f.hi
      /\ ~(f.ch = ch /\ f.kind = "data") => m[1 + 1] = m[1]
      /\ f.ch = ch /\ f.kind = "close" =>
           SentClose(Peer(p), ch) /\ (f.reason = "eof" => m[1] = accepted[Peer(p)][ch])
  BY <1>1 DEF Marks
<1> QED BY <1>2

LEMMA TakenStream ==
    ASSUME LinkInv, StreamInv, NEW e \in Ends, pipe[e] # <<>>,
           pipe' = [pipe EXCEPT ![e] = Tail(@)],
           \A x \in Ends : task'[x] = "running" => task[x] = "running",
           \A x \in Ends, k \in Ch : QuietSender(x, k),
           \A k \in Ch : QuietReceiver(Peer(e), k),
           \A k \in Ch : Received(e, k)',
           \A k \in Ch : \A m : Marks(e, k, m) =>
              (task'[e] = "running" /\ Waiting(e, k)' => m[2] = Position(table'[e].chans[k], got'[e][k]))
    PROVE  StreamInv'
<1> SUFFICES ASSUME NEW x \in Ends, NEW k \in Ch PROVE Received(x, k)' /\ Flow(x, k)'
  BY DEF StreamInv
<1>1. /\ Peer(e) \in Ends /\ Peer(e) # e /\ Peer(Peer(e)) = e /\ Peer(x) \in Ends /\ (x = Peer(e) \/ x = e)
      /\ pipe'[e] = Tail(pipe[e]) /\ \A y \in Ends : y # e => pipe'[y] = pipe[y]
  BY PeerFacts, Histories DEF PipesTyped, Peer, Ends
<1>2. CASE x = e
  <2>1. PICK m : Marks(e, k, m)
    BY DEF StreamInv, Flow
  <2>2. QuietSender(Peer(e), k)
    BY <1>1
  <2>3. task'[e] = "running" /\ Waiting(e, k)' => m[2] = Position(table'[e].chans[k], got'[e][k])
    BY <2>1
  <2>4. Flow(e, k)'
    BY <1>1, <2>1, <2>2, <2>3, Shifted
  <2> QED BY <1>2, <2>4
<1>3. CASE x = Peer(e)
  <2>1. Received(x, k) /\ Flow(x, k) /\ QuietReceiver(x, k) /\ QuietSender(Peer(x), k)
    BY <1>1, <1>3 DEF StreamInv
  <2>2. Received(x, k)'
    BY <2>1, ReceivedKept DEF QuietSender
  <2>3. Flow(x, k)'
    BY <1>1, <1>3, <2>1, FlowKept
  <2> QED BY <2>2, <2>3
<1> QED BY <1>1, <1>2, <1>3

\* A frame that no stream gets anything from.
LEMMA TakenQuietly ==
    ASSUME LinkInv, StreamInv, NEW e \in Ends, pipe[e] # <<>>,
           pipe' = [pipe EXCEPT ![e] = Tail(@)],
           \A x \in Ends : task'[x] = "running" => task[x] = "running",
           \A x \in Ends, k \in Ch : QuietSender(x, k) /\ QuietReceiver(x, k),
           NEW f, f = Head(pipe[e]),
           \A k \in Ch : f.kind = "data" /\ f.ch = k /\ Waiting(e, k)' => task'[e] # "running"
    PROVE  StreamInv'
<1>1. Peer(e) \in Ends
  BY PeerFacts
<1>2. \A k \in Ch : Received(e, k)'
  BY <1>1, ReceivedKept DEF StreamInv, QuietSender
<1>3. ASSUME NEW k \in Ch, NEW m, Marks(e, k, m), task'[e] = "running", Waiting(e, k)'
      PROVE  m[2] = Position(table'[e].chans[k], got'[e][k])
  <2>1. m[2] = m[1]
    BY <1>3, HeadMarks
  <2>2. Waiting(e, k) /\ Position(table'[e].chans[k], got'[e][k]) = Position(table[e].chans[k], got[e][k])
    BY <1>3 DEF QuietReceiver
  <2>3. m[1] = Position(table[e].chans[k], got[e][k])
    BY <1>3, <2>2 DEF Marks
  <2> QED BY <2>1, <2>2, <2>3
<1> QED BY <1>1, <1>2, <1>3, TakenStream

\* A frame of an open channel, or the answer to an open, is taken from its pipe.
FrameTaken(e, f, ch) ==
    /\ ch = f.ch /\ ~Violates(e, f) /\ f.kind # "open" /\ pipe[e] # <<>> /\ f = Head(pipe[e])
    /\ table' = [table EXCEPT ![e] = OnFrame(table[e], f)] /\ pipe' = [pipe EXCEPT ![e] = Tail(@)]
    /\ UNCHANGED <<accepted, got>> /\ \A x \in Ends : task'[x] = "running" => task[x] = "running"

LEMMA FrameQuiet ==
    ASSUME LinkInv, StreamInv, NEW e \in Ends, NEW f \in Message, NEW ch \in Ch, FrameTaken(e, f, ch)
    PROVE  /\ table'[e] = OnFrame(table[e], f) /\ table'[e].highest = table[e].highest
           /\ ch <= table[e].highest /\ ~(ch > table[e].highest)
           /\ \A x \in Ends, k \in Ch : x # e \/ k # ch => QuietSender(x, k) /\ QuietReceiver(x, k)
           /\ Steady(table[e].chans[ch], got[e][ch], table'[e].chans[ch], got[e][ch]) =>
                QuietSender(e, ch) /\ QuietReceiver(e, ch)
<1> USE DEF FrameTaken
<1> DEFINE t == OnFrame(table[e], f)
<1>1. Touches(table[e], t, ch) /\ ch <= table[e].highest
  BY FrameSlot
<1> HIDE DEF t
<1>2. table'[e] = t /\ (\A x \in Ends : x # e => table'[x] = table[x]) /\ table'[e].highest = table[e].highest
  BY <1>1, Histories DEF Touches, t
<1>3. ~(ch > table[e].highest)
  <2>1. table[e].highest \in Nat /\ ch \in Nat
    BY Histories, ChansAreNumbers
  <2> QED BY <1>1, <2>1
<1>4. ASSUME NEW x \in Ends, NEW k \in Ch, x # e \/ k # ch PROVE QuietSender(x, k) /\ QuietReceiver(x, k)
  <2>1. table'[x].chans[k] = table[x].chans[k] /\ table'[x].highest = table[x].highest
    BY <1>1, <1>2, <1>4 DEF Touches
  <2> QED BY <2>1, UntouchedQuiet
<1>5. ASSUME Steady(table[e].chans[ch], got[e][ch], table'[e].chans[ch], got[e][ch])
      PROVE  QuietSender(e, ch) /\ QuietReceiver(e, ch)
  BY <1>1, <1>2, <1>5, SteadyQuiet
<1> QED BY <1>1, <1>2, <1>3, <1>4, <1>5 DEF t

LEMMA ChainAppend ==
    ASSUME NEW q \in Seq(Nat \X Nat), NEW g \in Nat, NEW lo \in Nat, NEW hi \in Nat, Chain(q, g),
           lo = IF q # <<>> THEN q[Len(q)][2] ELSE g
    PROVE  LET r == Append(q, <<lo, hi>>)
           IN  Chain(r, g) /\ r # <<>> /\ r[Len(r)][2] = hi
<1> DEFINE x == <<lo, hi>>
           r == Append(q, x)
           n == Len(q)
<1>1. /\ n \in Nat /\ Len(r) = n + 1 /\ r[n + 1] = x /\ x[1] = lo /\ x[2] = hi
      /\ \A i \in 1..n : r[i] = q[i]
  OBVIOUS
<1>2. \A i \in 1..n - 1 : q[i][2] = q[i + 1][1]
  BY DEF Chain
<1> HIDE DEF x
<1>3. q = <<>> <=> n = 0
  OBVIOUS
<1>a. q # <<>> => q[1][1] = g
  BY DEF Chain
<1> HIDE DEF r, n
<1>b. Len(r) # 0 /\ Len(r) \in Nat
  BY <1>1
<1>4. r # <<>> /\ Len(r) \in Nat
  BY <1>b
<1>5. r[1][1] = g
  <2>1. CASE n = 0
    BY <1>1, <1>3, <2>1
  <2>2. CASE n # 0
    <3>1. 1 \in 1..n
      BY <1>1, <2>2
    <3> QED BY <1>1, <1>3, <1>a, <2>2, <3>1
  <2> QED BY <2>1, <2>2
<1>6. ASSUME NEW i \in 1..Len(r) - 1 PROVE r[i][2] = r[i + 1][1]
  <2>0. i \in 1..n
    BY <1>1
  <2>1. CASE i = n
    <3>1. n # 0 /\ q # <<>>
      BY <1>1, <1>3, <2>0, <2>1
    <3>2. r[n] = q[n] /\ q[n][2] = lo
      BY <1>1, <2>0, <2>1, <3>1 DEF n
    <3> QED BY <1>1, <2>1, <3>2
  <2>2. CASE i # n
    <3>1. i \in 1..n - 1 /\ i + 1 \in 1..n
      BY <1>1, <2>0, <2>2
    <3> QED BY <1>1, <1>2, <2>0, <3>1
  <2> QED BY <2>1, <2>2
<1>7. Chain(r, g)
  BY <1>5, <1>6 DEF Chain
<1>8. r[Len(r)][2] = hi
  BY <1>1
<1> QED BY <1>4, <1>7, <1>8 DEF r, x

LEMMA DataStream ==
    ASSUME LinkInv, StreamInv, NEW e \in Ends, NEW f \in Message, NEW ch \in Ch, FrameTaken(e, f, ch),
           f.kind = "data", task[e] = "running"
    PROVE  StreamInv'
<1> DEFINE t == table[e]
           c == t.chans[ch]
           g == got[e][ch]
<1>1. /\ table'[e] = OnFrame(t, f) /\ table'[e].highest = t.highest /\ ~(ch > t.highest)
      /\ \A x \in Ends, k \in Ch : x # e \/ k # ch => QuietSender(x, k) /\ QuietReceiver(x, k)
      /\ Steady(c, g, table'[e].chans[ch], g) => QuietSender(e, ch) /\ QuietReceiver(e, ch)
  BY FrameQuiet
<1>0. ch = f.ch /\ ~Violates(e, f) /\ f.kind # "open" /\ UNCHANGED <<accepted, got>>
  BY DEF FrameTaken
<1>p. /\ pipe[e] # <<>> /\ f = Head(pipe[e]) /\ pipe' = [pipe EXCEPT ![e] = Tail(@)]
      /\ \A x \in Ends : task'[x] = "running" => task[x] = "running"
  BY DEF FrameTaken
<1>2. CASE ~Takes(c)
  <2>1. table'[e] = t
    BY <1>0, <1>1, <1>2 DEF OnFrame, OnData, Takes, Has
  <2>2. QuietSender(e, ch) /\ QuietReceiver(e, ch)
    BY <1>0, <2>1, UntouchedQuiet
  <2>3. ~Waiting(e, ch)'
    BY <1>1, <1>2, <2>1 DEF Waiting
  <2>4. \A x \in Ends, k \in Ch : QuietSender(x, k) /\ QuietReceiver(x, k)
    BY <1>1, <2>2
  <2> QED BY <1>0, <2>3, <2>4, <1>p, TakenQuietly
<1>3. CASE Takes(c)
  <2> DEFINE in == Append(c.inbound, <<f.lo, f.hi>>)
             d == [c EXCEPT !.allowance = @ - (f.hi - f.lo), !.inbound = in, !.readWaker = FALSE]
  <2>1. Has(t, ch) /\ Waiting(e, ch) /\ ~Closed(c)
    BY <1>3 DEF Takes, Has, Waiting
  <2>2. c \in ChanRecord /\ c # None /\ t \in Shape /\ Chain(c.inbound, g) /\ g \in Nat
    BY <2>1, HeldChannel
  <2>3. f.lo \in Nat /\ f.hi \in Nat /\ c.inbound \in Seq(Nat \X Nat)
    BY <2>2, MessageFields DEF ChanRecord
  <2>4. OnFrame(t, f) = Put(t, ch, d)
    BY <1>0, <1>3, <2>1 DEF OnFrame, OnData, Takes
  <2> HIDE DEF in
  <2>6. /\ d.inbound = in /\ d.sent = c.sent /\ d.closeSent = c.closeSent
        /\ d.cancelled = c.cancelled /\ d.peerClosed = c.peerClosed /\ d.localClose = c.localClose
    BY <2>2 DEF ChanRecord
  <2> HIDE DEF d
  <2>5. table'[e].chans[ch] = d
    <3> HIDE DEF t, c
    <3> QED BY <1>1, <2>2, <2>4 DEF Put, Shape
  <2>7. ASSUME NEW m, Marks(e, ch, m) PROVE f.lo = Position(c, g) /\ m[2] = f.hi
    <3>1. m[1] = f.lo /\ m[2] = f.hi
      BY <1>0, <2>7, <1>p, HeadMarks
    <3>2. m[1] = Position(c, g)
      BY <2>1, <2>7 DEF Marks
    <3> QED BY <3>1, <3>2
  <2>8. f.lo = Position(c, g)
    BY <2>7 DEF StreamInv, Flow
  <2>9. Chain(in, g) /\ in # <<>> /\ in[Len(in)][2] = f.hi
    <3> DEFINE q == c.inbound
               lo == f.lo
               hi == f.hi
    <3>1. lo = IF q # <<>> THEN q[Len(q)][2] ELSE g
      BY <2>2, <2>8 DEF Position
    <3>2. q \in Seq(Nat \X Nat) /\ g \in Nat /\ lo \in Nat /\ hi \in Nat /\ Chain(q, g) /\ in = Append(q, <<lo, hi>>)
      BY <2>2, <2>3 DEF in
    <3> HIDE DEF q, lo, hi, g
    <3>3. Chain(in, g) /\ in # <<>> /\ in[Len(in)][2] = hi
      BY <3>1, <3>2, ChainAppend
    <3> QED BY <3>3 DEF hi
  <2>10. got'[e][ch] = g
    BY <1>0
  <2>11. Position(table'[e].chans[ch], g) = f.hi \/ table'[e].chans[ch] = None
    BY <2>5, <2>6, <2>9 DEF Position
  <2>12. QuietSender(e, ch)
    BY <1>0, <1>1, <2>1, <2>5, <2>6 DEF QuietSender, StaysClosed, SentClose, Has
  <2>13. Received(e, ch)'
    <3>1. c.peerClosed = "no"
      BY <2>1 DEF Closed
    <3> QED BY <1>0, <2>5, <2>6, <2>9, <3>1 DEF Received
  <2>14. ASSUME NEW m, Marks(e, ch, m), Waiting(e, ch)'
         PROVE  m[2] = Position(table'[e].chans[ch], got'[e][ch])
    BY <1>0, <1>1, <2>7, <2>11, <2>14 DEF Waiting, Takes
  <2>15. Peer(e) \in Ends /\ Peer(e) # e
    BY PeerFacts
  <2>16. \A k \in Ch : k # ch => Received(e, k)'
    BY <1>1, <2>15, ReceivedKept DEF StreamInv, QuietSender
  <2>17. ASSUME NEW k \in Ch, NEW m, Marks(e, k, m), Waiting(e, k)', k # ch
         PROVE  m[2] = Position(table'[e].chans[k], got'[e][k])
    <3>1. m[2] = m[1]
      BY <1>0, <2>17, <1>p, HeadMarks
    <3>2. Waiting(e, k) /\ Position(table'[e].chans[k], got'[e][k]) = Position(table[e].chans[k], got[e][k])
      BY <1>1, <2>17 DEF QuietReceiver
    <3> QED BY <2>17, <3>1, <3>2 DEF Marks
  <2>18. \A x \in Ends, k \in Ch : QuietSender(x, k)
    BY <1>1, <2>12
  <2>19. \A k \in Ch : QuietReceiver(Peer(e), k)
    BY <1>1, <2>15
  <2>20. \A k \in Ch : Received(e, k)'
    BY <2>13, <2>16
  <2>21. \A k \in Ch : \A m : Marks(e, k, m) =>
            (task'[e] = "running" /\ Waiting(e, k)' => m[2] = Position(table'[e].chans[k], got'[e][k]))
    BY <2>14, <2>17
  <2> QED BY <2>18, <2>19, <2>20, <2>21, <1>p, TakenStream
<1> QED BY <1>2, <1>3

\* The peer's first close of a channel the table holds.
LEMMA FirstCloseStream ==
    ASSUME LinkInv, StreamInv, NEW e \in Ends, NEW f \in Message, NEW ch \in Ch, FrameTaken(e, f, ch),
           f.kind = "close", task[e] = "running", Has(table[e], ch), table[e].chans[ch].peerClosed = "no"
    PROVE  StreamInv'
<1> DEFINE t == table[e]
           c == t.chans[ch]
           g == got[e][ch]
<1>1. /\ table'[e] = OnFrame(t, f) /\ table'[e].highest = t.highest /\ ~(ch > t.highest) /\ ch <= t.highest
      /\ \A x \in Ends, k \in Ch : x # e \/ k # ch => QuietSender(x, k) /\ QuietReceiver(x, k)
  BY FrameQuiet
<1>0. ch = f.ch /\ ~Violates(e, f) /\ f.kind # "open" /\ UNCHANGED <<accepted, got>>
  BY DEF FrameTaken
<1>p. /\ pipe[e] # <<>> /\ f = Head(pipe[e]) /\ pipe' = [pipe EXCEPT ![e] = Tail(@)]
      /\ \A x \in Ends : task'[x] = "running" => task[x] = "running"
  BY DEF FrameTaken
<1> DEFINE z == OutboundCleared([c EXCEPT !.peerClosed = f.reason, !.closeSent = TRUE])
           d == Woken(z)
           y == table'[e].chans[ch]
<1>2. c \in ChanRecord /\ c # None /\ t \in Shape /\ Chain(c.inbound, g) /\ (c.cancelled => Closed(c))
  BY HeldChannel
<1>3. f.reason \in {"eof", "reset"}
  BY MessageFields
<1>4. /\ d \in ChanRecord /\ d.inbound = c.inbound /\ d.sent = c.sent /\ d.closeSent = TRUE
      /\ d.cancelled = c.cancelled /\ d.peerClosed = f.reason /\ d.localClose = c.localClose
  <2>1. /\ z \in ChanRecord /\ z.inbound = c.inbound /\ z.sent = c.sent /\ z.closeSent = TRUE
        /\ z.cancelled = c.cancelled /\ z.peerClosed = f.reason /\ z.localClose = c.localClose
    <3> HIDE DEF c
    <3> QED BY <1>2, <1>3 DEF ChanRecord, Reasons, OutboundCleared
  <2> HIDE DEF z
  <2> QED BY <2>1 DEF ChanRecord, Woken
<1>5. OnFrame(t, f) = Reaped(Put(t, ch, d), ch)
  BY <1>0 DEF OnFrame, OnClose
<1> HIDE DEF d, z
<1>6. y \in {d, None}
  <2>1. Put(t, ch, d) \in Shape /\ Put(t, ch, d).chans[ch] = d
    <3> HIDE DEF t
    <3> QED BY <1>2, <1>4, PutTouches DEF Touches
  <2>2. Put(Put(t, ch, d), ch, None).chans[ch] = None
    BY <2>1, PutTouches
  <2> QED BY <1>1, <1>5, <2>1, <2>2 DEF Reaped
<1>7. QuietSender(e, ch)
  BY <1>0, <1>1, <1>4, <1>6 DEF QuietSender, StaysClosed, SentClose, Has
<1>8. Peer(e) \in Ends /\ Peer(e) # e
  BY PeerFacts
<1>9. Received(e, ch)'
  <2> SUFFICES ASSUME y # None
               PROVE  /\ Chain(y.inbound, got'[e][ch])
                      /\ y.peerClosed = "eof" =>
                           /\ SentClose(Peer(e), ch)'
                           /\ y.localClose = "no" => Position(y, got'[e][ch]) = accepted'[Peer(e)][ch]
    BY DEF Received, Has
  <2>1. y = d
    BY <1>6
  <2>2. Chain(y.inbound, got'[e][ch])
    BY <1>0, <1>2, <1>4, <2>1
  <2>3. PICK m : Marks(e, ch, m)
    BY DEF StreamInv, Flow
  <2>4. SentClose(Peer(e), ch) /\ (f.reason = "eof" => m[1] = accepted[Peer(e)][ch])
    BY <1>0, <2>3, <1>p, HeadMarks
  <2>5. SentClose(Peer(e), ch)'
    BY <1>1, <1>8, <2>4 DEF QuietSender, StaysClosed
  <2>6. ASSUME f.reason = "eof", c.localClose = "no"
        PROVE  Position(y, got'[e][ch]) = accepted'[Peer(e)][ch]
    <3>1. Waiting(e, ch)
      BY <1>2, <2>6 DEF Waiting, Takes, Closed
    <3>2. m[1] = Position(c, g)
      BY <2>3, <3>1 DEF Marks
    <3>3. Position(y, g) = Position(c, g)
      <4> HIDE DEF y, c, g
      <4> QED BY <1>2, <1>4, <2>1 DEF Position
    <3> QED BY <1>0, <2>4, <2>6, <3>2, <3>3
  <2> QED BY <1>4, <2>1, <2>2, <2>5, <2>6
<1>10. ASSUME NEW k \in Ch, NEW m, Marks(e, k, m), task'[e] = "running", Waiting(e, k)'
       PROVE  m[2] = Position(table'[e].chans[k], got'[e][k])
  <2>1. k # ch
    BY <1>1, <1>3, <1>4, <1>6, <1>10 DEF Waiting, Takes, Closed
  <2>2. m[2] = m[1]
    BY <1>10, <1>p, HeadMarks
  <2>3. Waiting(e, k) /\ Position(table'[e].chans[k], got'[e][k]) = Position(table[e].chans[k], got[e][k])
    BY <1>1, <1>10, <2>1 DEF QuietReceiver
  <2> QED BY <1>10, <2>2, <2>3 DEF Marks
<1>11. \A k \in Ch : Received(e, k)'
  <2>1. \A k \in Ch : k # ch => Received(e, k)'
    BY <1>1, <1>8, ReceivedKept DEF StreamInv, QuietSender
  <2> QED BY <1>9, <2>1
<1>12. (\A x \in Ends, k \in Ch : QuietSender(x, k)) /\ (\A k \in Ch : QuietReceiver(Peer(e), k))
  BY <1>1, <1>7, <1>8
<1> QED BY <1>10, <1>11, <1>12, <1>p, TakenStream

\* The other frames of an open channel leave its place in both streams.
LEMMA OtherFrameStream ==
    ASSUME LinkInv, StreamInv, NEW e \in Ends, NEW f \in Message, NEW ch \in Ch, FrameTaken(e, f, ch),
           f.kind # "data", f.kind = "close" => ~Has(table[e], ch) \/ table[e].chans[ch].peerClosed # "no"
    PROVE  StreamInv'
<1> DEFINE t == table[e]
           c == t.chans[ch]
           g == got[e][ch]
<1>1. /\ table'[e] = OnFrame(t, f)
      /\ \A x \in Ends, k \in Ch : x # e \/ k # ch => QuietSender(x, k) /\ QuietReceiver(x, k)
      /\ Steady(c, g, table'[e].chans[ch], g) => QuietSender(e, ch) /\ QuietReceiver(e, ch)
  BY FrameQuiet
<1>0. ch = f.ch /\ ~Violates(e, f) /\ f.kind # "open" /\ UNCHANGED <<accepted, got>>
  BY DEF FrameTaken
<1>p. /\ pipe[e] # <<>> /\ f = Head(pipe[e]) /\ pipe' = [pipe EXCEPT ![e] = Tail(@)]
      /\ \A x \in Ends : task'[x] = "running" => task[x] = "running"
  BY DEF FrameTaken
<1> DEFINE y == table'[e].chans[ch]
<1>2. t \in Shape /\ f.kind \in {"opened", "refused", "credit", "close"}
  BY <1>0, Histories, MessageFields
<1>3. CASE ~Has(t, ch)
  <2>1. table'[e] = t
    BY <1>0, <1>1, <1>2, <1>3 DEF OnFrame, OnCredit, OnClose, Violates
  <2>2. Steady(c, g, y, g)
    BY <1>3, <2>1 DEF Steady, Has
  <2>3. \A x \in Ends, k \in Ch : QuietSender(x, k) /\ QuietReceiver(x, k)
    BY <1>1, <2>2
  <2> QED BY <2>3, <1>p, TakenQuietly
<1>4. CASE Has(t, ch)
  <2>1. c \in ChanRecord /\ c # None /\ Chain(c.inbound, g)
    BY <1>4, HeldChannel
  <2> DEFINE a == [Granted(c) EXCEPT !.localClose = IF c.released THEN "reset" ELSE @]
             b == [c EXCEPT !.phase = "refused"]
             h == [c EXCEPT !.credit = @ + f.bytes]
             Same(d) == /\ d.inbound = c.inbound /\ d.sent = c.sent /\ d.closeSent = c.closeSent
                        /\ d.cancelled = c.cancelled /\ d.peerClosed = c.peerClosed
                        /\ (d.localClose = "no" => c.localClose = "no")
  <2>2. \E d \in {c, Woken(a), Woken(b), h} :
          \/ OnFrame(t, f) = Put(t, ch, d)
          \/ OnFrame(t, f) = Reaped(Put(t, ch, d), ch)
    <3>1. Put(t, ch, c) = t
      BY <1>2 DEF Put, Shape
    <3>2. CASE f.kind = "credit"
      <4>1. OnFrame(t, f) = t \/ OnFrame(t, f) = Put(t, ch, h)
        BY <1>0, <3>2 DEF OnFrame, OnCredit
      <4> QED BY <3>1, <4>1
    <3>3. CASE f.kind = "close"
      <4>1. OnFrame(t, f) = Reaped(t, ch)
        BY <1>0, <1>4, <3>3 DEF OnFrame, OnClose
      <4> QED BY <3>1, <4>1
    <3>4. CASE f.kind \in {"opened", "refused"}
      <4>1. OnFrame(t, f) = Reaped(Put(t, ch, Woken(a)), ch) \/ OnFrame(t, f) = Reaped(Put(t, ch, Woken(b)), ch)
        BY <1>0, <3>4 DEF OnFrame, OnOpenAnswer
      <4> QED BY <4>1
    <3> QED BY <1>2, <3>2, <3>3, <3>4
  <2>3. \A d \in {c, Woken(a), Woken(b), h} : Same(d)
    <3>1. Same(c)
      OBVIOUS
    <3>2. Same(h)
      BY <2>1 DEF ChanRecord
    <3>3. Same(Woken(b))
      BY <2>1 DEF ChanRecord, Woken
    <3>4. Same(Woken(a))
      BY <2>1 DEF ChanRecord, Woken, Granted
    <3> HIDE DEF a, b, h, Same
    <3> QED BY <3>1, <3>2, <3>3, <3>4
  <2> HIDE DEF a, b, h, Same
  <2>4. PICK d : /\ Same(d)
                 /\ \/ OnFrame(t, f) = Put(t, ch, d)
                    \/ OnFrame(t, f) = Reaped(Put(t, ch, d), ch)
    BY <2>2, <2>3
  <2>5. y \in {d, None}
    <3>1. \A s \in {Put(t, ch, d), Put(Put(t, ch, d), ch, None)} : s.chans[ch] \in {d, None}
      <4>1. t.chans \in [Ch -> ChanRecord \cup {None}]
        BY <1>2 DEF Shape
      <4>2. Put(t, ch, d).chans[ch] = d
        <5> HIDE DEF t
        <5> QED BY <1>2, <4>1 DEF Put, Shape
      <4>3. Put(Put(t, ch, d), ch, None).chans[ch] = None
        <5> HIDE DEF t
        <5> QED BY <1>2, <4>1 DEF Put, Shape
      <4> QED BY <4>2, <4>3
    <3> QED BY <1>1, <2>4, <3>1 DEF Reaped
  <2>6. Steady(c, g, y, g)
    <3>1. CASE y = None
      BY <3>1 DEF Steady
    <3>2. CASE y = d
      BY <2>1, <2>4, <3>2, SteadyFlags DEF Same
    <3> QED BY <2>5, <3>1, <3>2
  <2>7. \A x \in Ends, k \in Ch : QuietSender(x, k) /\ QuietReceiver(x, k)
    BY <1>1, <2>6
  <2> QED BY <2>7, <1>p, TakenQuietly
<1> QED BY <1>3, <1>4

\* The far end's new channel, or its refusal for want of room.
LEMMA OpenRequestStream ==
    ASSUME LinkInv, StreamInv, NEW e \in Ends, NEW f \in Message, NEW ch \in Ch, ch = f.ch,
           ~Violates(e, f), f.kind = "open", pipe[e] # <<>>, f = Head(pipe[e]),
           table' = [table EXCEPT ![e] = OnFrame(table[e], f)], pipe' = [pipe EXCEPT ![e] = Tail(@)],
           UNCHANGED <<accepted, got>>, \A x \in Ends : task'[x] = "running" => task[x] = "running"
    PROVE  StreamInv'
<1> DEFINE t == table[e]
           raised == [t EXCEPT !.highest = ch]
           c == NewChan("opening")
           r == [kind |-> "refused", ch |-> ch]
<1>1. ch = t.highest + 1
  BY DEF Violates
<1>2. t \in Shape /\ raised \in Shape /\ raised.highest = ch /\ raised.chans = t.chans
  BY Histories DEF Shape
<1>3. r \in Op /\ c \in ChanRecord
  BY MessagesMade, NewSlot
<1>4. OnFrame(t, f) \in {Queue(raised, r), Put(raised, ch, c)}
  BY DEF OnFrame, OnOpenRequest
<1>5. t.chans[ch] = None
  <2>1. ch > t.highest
    <3>1. t.highest \in Nat
      BY <1>2, ChansAreNumbers
    <3> QED BY <1>1, <3>1
  <2> QED BY <2>1 DEF LinkInv, Fresh
<1> HIDE DEF raised, c, r
<1>6. /\ Touches(raised, Queue(raised, r), ch) /\ Queue(raised, r).chans = raised.chans
      /\ Touches(raised, Put(raised, ch, c), ch) /\ Put(raised, ch, c).chans[ch] = c
  BY <1>2, <1>3, PutTouches, QueueTouches
<1>7. PICK s : s \in {Queue(raised, r), Put(raised, ch, c)} /\ table' = [table EXCEPT ![e] = s]
  BY <1>4
<1>8. /\ s \in Shape /\ s.highest = ch /\ s.chans[ch] \in {None, NewChan("opening")}
      /\ \A k \in Ch : k # ch => s.chans[k] = t.chans[k]
  BY <1>2, <1>5, <1>6, <1>7 DEF Touches, c
<1>9. \A x \in Ends, k \in Ch : QuietSender(x, k) /\ QuietReceiver(x, k)
  <2>1. AddsChannel(e, ch, s)
    BY <1>1, <1>7, <1>8 DEF AddsChannel
  <2> QED BY <2>1, OpensQuiet
<1> QED BY <1>9, TakenQuietly

LEMMA DeliverStream ==
    ASSUME LinkInv, StreamInv, NEW e \in Ends, Deliver(e)
    PROVE  StreamInv'
<1>1. /\ task[e] = "running" /\ pipe[e] # <<>> /\ pipe' = [pipe EXCEPT ![e] = Tail(@)]
      /\ UNCHANGED <<accepted, got>>
  BY DEF Deliver
<1>2. PICK f \in Message : f = Head(pipe[e])
  BY <1>1, HeadOfPipe
<1>3. PICK ch \in Ch : ch = f.ch
  BY MessageFields
<1>4. \A x \in Ends : task'[x] = "running" => task[x] = "running"
  BY <1>1, Histories DEF Deliver, PipesTyped
<1>5. CASE Violates(e, f)
  <2>1. table' = table /\ task'[e] = "stopped"
    BY <1>1, <1>2, <1>5, Histories DEF Deliver, PipesTyped
  <2>2. \A x \in Ends, k \in Ch : QuietSender(x, k) /\ QuietReceiver(x, k)
    BY <1>1, <2>1, UntouchedQuiet
  <2> QED BY <1>1, <1>2, <1>4, <2>1, <2>2, TakenQuietly
<1>6. CASE ~Violates(e, f)
  <2>1. table' = [table EXCEPT ![e] = OnFrame(table[e], f)]
    BY <1>2, <1>6 DEF Deliver
  <2>2. CASE f.kind = "open"
    BY <1>1, <1>2, <1>3, <1>4, <1>6, <2>1, <2>2, OpenRequestStream
  <2>3. CASE f.kind # "open"
    <3>1. FrameTaken(e, f, ch)
      BY <1>1, <1>2, <1>3, <1>4, <1>6, <2>1, <2>3 DEF FrameTaken
    <3>2. CASE f.kind = "data"
      BY <1>1, <3>1, <3>2, DataStream
    <3>3. CASE f.kind = "close" /\ Has(table[e], ch) /\ table[e].chans[ch].peerClosed = "no"
      BY <1>1, <3>1, <3>3, FirstCloseStream
    <3>4. CASE f.kind # "data" /\ ~(f.kind = "close" /\ Has(table[e], ch) /\ table[e].chans[ch].peerClosed = "no")
      BY <3>1, <3>4, OtherFrameStream
    <3> QED BY <3>2, <3>3, <3>4
  <2> QED BY <2>2, <2>3
<1> QED BY <1>5, <1>6

LEMMA TaskStream ==
    ASSUME LinkInv, StreamInv, NEW e \in Ends, StopTask(e) \/ PeerGone(e) \/ LinkFails(e)
    PROVE  StreamInv'
<1>1. UNCHANGED <<table, pipe, accepted, got>> /\ task' = [task EXCEPT ![e] = "stopped"]
  BY DEF StopTask, PeerGone, LinkFails
<1>2. \A x \in Ends, k \in Ch : QuietSender(x, k) /\ QuietReceiver(x, k)
  BY <1>1, UntouchedQuiet
<1>3. \A x \in Ends : task'[x] = "running" => task[x] = "running"
  BY <1>1, Histories DEF PipesTyped
<1> QED BY <1>1, <1>2, <1>3, StreamKept

LEMMA InitStreamInv == Init => StreamInv
<1> SUFFICES ASSUME Init, NEW p \in Ends, NEW ch \in Ch PROVE Received(p, ch) /\ Flow(p, ch)
  BY DEF StreamInv
<1>1. Peer(p) \in Ends
  BY PeerFacts
<1>2. /\ \A e \in Ends : /\ table[e].chans[ch] \in {None, NewChan("open")} /\ table[e].highest = 0
      /\ \A e \in Ends : accepted[e][ch] = 0 /\ got[e][ch] = 0 /\ pipe[e] = <<>>
  BY DEF Init, NewTable
<1>3. LET c == NewChan("open") IN c.inbound = <<>> /\ c.sent = 0 /\ c.peerClosed = "no"
  BY DEF NewChan
<1>4. Chain(<<>>, 0)
  BY DEF Chain
<1>5. Received(p, ch)
  BY <1>2, <1>3, <1>4 DEF Received, Has
<1>6. Position(table[p].chans[ch], got[p][ch]) = 0
  BY <1>2, <1>3 DEF Position
<1>7. PICK m : m = [i \in 1..1 |-> 0]
  OBVIOUS
<1>8. m \in [1..Len(pipe[p]) + 1 -> Nat] /\ m[1] = 0 /\ Len(pipe[p]) = 0
  BY <1>2, <1>7
<1>9. Marks(p, ch, m)
  BY <1>1, <1>2, <1>3, <1>6, <1>8 DEF Marks, Has
<1> QED BY <1>5, <1>9 DEF Flow

LEMMA NextStreamInv == LinkInv /\ StreamInv /\ [Next]_vars => StreamInv'
<1> SUFFICES ASSUME LinkInv, StreamInv, [Next]_vars PROVE StreamInv'
  OBVIOUS
<1>1. CASE \E e \in Ends : Deliver(e) \/ NextOut(e)
  BY <1>1, DeliverStream, NextOutStream
<1>2. CASE \E ch \in Ch, ok \in BOOLEAN : Connected(ch, ok)
  BY <1>2, ConnectedStream
<1>3. CASE \E e \in Ends, ch \in Ch :
             \/ \E n \in 1..CHUNK : Read(e, ch, n)
             \/ ReadWaits(e, ch)
             \/ \E n \in 1..CHUNK : Write(e, ch, n)
             \/ WriteWaits(e, ch)
             \/ Flush(e, ch) \/ Shutdown(e, ch) \/ Release(e, ch)
  BY <1>3, ReadStream, WaitsStream, WriteStream, UserClosesStream
<1>4. CASE \E ch \in Ch : Cancel(ch) \/ PollOpen(ch) \/ Abandon(ch)
  <2>1. "window" \in Ends
    BY DEF Ends
  <2> QED BY <1>4, <2>1, UserClosesStream, OpenerStream
<1>5. CASE BeginOpen
  BY <1>5, BeginOpenStream
<1>6. CASE DropLink
  BY <1>6, EndStream DEF DropLink, Ends
<1>7. CASE \E e \in Ends : EndLink(e) \/ StopTask(e) \/ PeerGone(e) \/ LinkFails(e)
  BY <1>7, EndStream, TaskStream DEF EndLink
<1>8. CASE UNCHANGED vars
  <2>1. \A x \in Ends, k \in Ch : QuietSender(x, k) /\ QuietReceiver(x, k)
    BY <1>8, UntouchedQuiet DEF vars
  <2> QED BY <1>8, <2>1, StreamKept DEF vars
<1> QED BY <1>1, <1>2, <1>3, <1>4, <1>5, <1>6, <1>7, <1>8 DEF Next

\* A gapless queue holds the bytes between where its reader stopped and its
\* channel's position.
LEMMA HeldBytes ==
    ASSUME LinkInv, StreamInv, NEW e \in Ends, NEW ch \in Ch, Has(table[e], ch)
    PROVE  got[e][ch] + Buffered(table[e].chans[ch]) = Position(table[e].chans[ch], got[e][ch])
<1> DEFINE c == table[e].chans[ch]
           g == got[e][ch]
           q == c.inbound
<1>1. c \in ChanRecord /\ c # None /\ Chain(q, g) /\ g \in Nat
  BY HeldChannel
<1>2. q \in Seq(Nat \X Nat)
  BY <1>1 DEF ChanRecord
<1>3. CASE q = <<>>
  BY <1>1, <1>3 DEF Position, Buffered
<1>4. CASE q # <<>>
  <2>1. q[1][1] = g
    BY <1>1, <1>4 DEF Chain
  <2>2. q[Len(q)] \in Nat \X Nat
    BY <1>2, <1>4
  <2>3. q[Len(q)][2] \in Nat
    BY <2>2
  <2>4. Buffered(c) = q[Len(q)][2] - q[1][1] /\ Position(c, g) = q[Len(q)][2]
    BY <1>1, <1>4 DEF Position, Buffered
  <2> HIDE DEF q, c, g
  <2>5. g + Buffered(c) = Position(c, g)
    BY <1>1, <2>1, <2>3, <2>4
  <2> QED BY <2>5 DEF q, c, g
<1> QED BY <1>3, <1>4

\* A stream is whole, whichever cancels, closes and failures cross on the wire:
\* bytes arrive in the order written, none skipped or repeated, and an eof ends
\* them only after all that was accepted (write, next_out, on_data, read,
\* on_close, shutdown, release, cancel).
THEOREM StreamsAreWhole == Spec => []StreamIsWhole
<1>1. Spec => [](LinkInv /\ StreamInv)
  BY InitLinkInv, NextLinkInv, InitStreamInv, NextStreamInv, PTL DEF Spec
<1>2. LinkInv /\ StreamInv => StreamIsWhole
  <2> SUFFICES ASSUME LinkInv, StreamInv, NEW e \in Ends, NEW ch \in Ch, Has(table[e], ch)
               PROVE  LET c == table[e].chans[ch]
                      IN  /\ c.inbound # <<>> => c.inbound[1][1] = got[e][ch]
                          /\ \A i \in 1..Len(c.inbound) - 1 : c.inbound[i][2] = c.inbound[i + 1][1]
                          /\ c.peerClosed = "eof" /\ c.localClose = "no"
                               => got[e][ch] + Buffered(c) = accepted[Peer(e)][ch]
    BY DEF StreamIsWhole, InOrder, EofMeansAll, Present
  <2>1. Received(e, ch)
    BY DEF StreamInv
  <2> QED BY <2>1, HeldBytes DEF Received, Chain
<1> QED BY <1>1, <1>2, PTL

(***************************************************************************)
(* Credit: the frames on their way to an end, replayed.                    *)
(***************************************************************************)

\* What was said to an end p of a channel: the answer to its open, of which
\* the router is told the last channel opened instead; the place in its stream;
\* and how far p may send.
Tally == [top: Nat, pos: Nat, lim: Nat]

Below(a, z) == a.top <= z.top /\ a.pos <= z.pos /\ a.lim <= z.lim

Known(p, ch, a) == IF p = "router" THEN ch <= a.top ELSE a.top = 1

Becomes(b, top, pos, lim) == b.top = top /\ b.pos = pos /\ b.lim = lim

\* A frame that keeps the rules, and the tally before and after it.
Moves(p, ch, a, f, b) ==
    /\ f.kind = "open" => p = "router" /\ f.ch = a.top + 1 /\ Becomes(b, f.ch, a.pos, a.lim)
    /\ f.kind # "open" /\ f.ch # ch => Becomes(b, a.top, a.pos, a.lim)
    /\ f.kind \in {"opened", "refused"} /\ f.ch = ch =>
         /\ p = "window" /\ a.top = 0
         /\ Becomes(b, IF f.kind = "opened" THEN 1 ELSE 2, a.pos, a.lim)
    /\ f.kind = "data" /\ f.ch = ch =>
         Known(p, ch, a) /\ a.pos = f.lo /\ f.lo <= f.hi /\ Becomes(b, a.top, f.hi, a.lim)
    /\ f.kind = "credit" /\ f.ch = ch =>
         Known(p, ch, a) /\ Becomes(b, a.top, a.pos, a.lim + f.bytes)
    /\ f.kind = "close" /\ f.ch = ch => Known(p, ch, a) /\ Becomes(b, a.top, a.pos, a.lim)

\* The frames of q take p's tally of a channel from a to z, never beyond z.
Walk(p, ch, q, a, z) ==
    \E m \in [1..Len(q) + 1 -> Tally] :
        /\ m[1] = a /\ m[Len(q) + 1] = z
        /\ \A i \in 1..Len(q) : Moves(p, ch, m[i], q[i], m[i + 1]) /\ Below(m[i], z)

\* Every frame of a channel is its open.
Asks(q, ch) == \A i \in 1..Len(q) : q[i].ch = ch => q[i].kind = "open"

LEMMA BelowFacts ==
    /\ \A a \in Tally : Below(a, a)
    /\ \A a, b, z \in Tally : Below(a, b) /\ Below(b, z) => Below(a, z)
BY DEF Below, Tally

LEMMA WalkEnds ==
    ASSUME NEW p, NEW ch, NEW q \in Seq(Message), NEW a, NEW z, Walk(p, ch, q, a, z)
    PROVE  a \in Tally /\ z \in Tally /\ Below(a, z)
<1>1. PICK m \in [1..Len(q) + 1 -> Tally] :
        /\ m[1] = a /\ m[Len(q) + 1] = z
        /\ \A i \in 1..Len(q) : Moves(p, ch, m[i], q[i], m[i + 1]) /\ Below(m[i], z)
  BY DEF Walk
<1>2. Len(q) \in Nat
  OBVIOUS
<1>3. 1 \in 1..Len(q) + 1 /\ Len(q) + 1 \in 1..Len(q) + 1
  BY <1>2
<1>4. a \in Tally /\ z \in Tally
  BY <1>1, <1>3
<1>5. CASE Len(q) = 0
  <2>1. a = z
    BY <1>1, <1>5
  <2> QED BY <1>4, <2>1, BelowFacts
<1>6. CASE Len(q) # 0
  <2>1. 1 \in 1..Len(q)
    BY <1>2, <1>6
  <2> QED BY <1>1, <1>4, <2>1
<1> QED BY <1>5, <1>6

LEMMA WalkSends ==
    ASSUME NEW p, NEW ch, NEW q \in Seq(Message), NEW a, NEW z, Walk(p, ch, q, a, z),
           NEW f \in Message, NEW b \in Tally, Moves(p, ch, z, f, b), Below(z, b)
    PROVE  Walk(p, ch, Append(q, f), a, b)
<1> DEFINE n == Len(q)
           r == Append(q, f)
<1>1. PICK m \in [1..n + 1 -> Tally] :
        /\ m[1] = a /\ m[n + 1] = z
        /\ \A i \in 1..n : Moves(p, ch, m[i], q[i], m[i + 1]) /\ Below(m[i], z)
  BY DEF Walk
<1>2. n \in Nat /\ Len(r) = n + 1 /\ r[n + 1] = f /\ \A i \in 1..n : r[i] = q[i]
  OBVIOUS
<1>a. z \in Tally
  BY WalkEnds
<1> HIDE DEF n, r
<1> DEFINE w == [i \in 1..n + 2 |-> IF i = n + 2 THEN b ELSE m[i]]
<1>3. /\ n + 2 \in 1..n + 2 /\ 1 \in 1..n + 1 /\ n + 1 \in 1..n + 1 /\ (n + 1) + 1 = n + 2
      /\ \A i \in 1..n + 1 : i \in 1..n + 2 /\ i # n + 2
      /\ \A i \in 1..n + 2 : i = n + 2 \/ i \in 1..n + 1
      /\ \A i \in 1..n : i \in 1..n + 1 /\ i + 1 \in 1..n + 1
      /\ \A i \in 1..n + 1 : i = n + 1 \/ i \in 1..n
  BY <1>2
<1>4. w \in [1..n + 2 -> Tally] /\ w[n + 2] = b /\ \A i \in 1..n + 1 : w[i] = m[i]
  BY <1>1, <1>3
<1> HIDE DEF w
<1>5. ASSUME NEW i \in 1..n + 1
      PROVE  Moves(p, ch, w[i], r[i], w[i + 1]) /\ Below(w[i], b)
  <2>1. CASE i = n + 1
    <3>1. w[i] = z /\ r[i] = f /\ w[i + 1] = b
      BY <1>1, <1>2, <1>3, <1>4, <2>1
    <3> QED BY <3>1
  <2>2. CASE i \in 1..n
    <3>1. w[i] = m[i] /\ r[i] = q[i] /\ w[i + 1] = m[i + 1] /\ m[i] \in Tally
      BY <1>1, <1>2, <1>3, <1>4, <2>2
    <3>2. Moves(p, ch, m[i], q[i], m[i + 1]) /\ Below(m[i], z)
      BY <1>1, <2>2
    <3> QED BY <1>a, <3>1, <3>2, BelowFacts
  <2> QED BY <1>3, <2>1, <2>2
<1>6. w[1] = a /\ Len(r) + 1 = n + 2 /\ w[Len(r) + 1] = b /\ Len(r) = n + 1
  BY <1>1, <1>2, <1>3, <1>4
<1>7. Walk(p, ch, r, a, b)
  BY <1>4, <1>5, <1>6 DEF Walk
<1> QED BY <1>7 DEF r

LEMMA WalkTakes ==
    ASSUME NEW p, NEW ch, NEW q \in Seq(Message), q # <<>>, NEW a, NEW z, Walk(p, ch, q, a, z)
    PROVE  \E b \in Tally : Moves(p, ch, a, Head(q), b) /\ Walk(p, ch, Tail(q), b, z)
<1> DEFINE n == Len(q) - 1
           r == Tail(q)
<1>1. PICK m \in [1..Len(q) + 1 -> Tally] :
        /\ m[1] = a /\ m[Len(q) + 1] = z
        /\ \A i \in 1..Len(q) : Moves(p, ch, m[i], q[i], m[i + 1]) /\ Below(m[i], z)
  BY DEF Walk
<1>2. n \in Nat /\ Len(q) = n + 1 /\ Len(r) = n /\ \A i \in 1..n : r[i] = q[i + 1]
  OBVIOUS
<1>a. Head(q) = q[1]
  OBVIOUS
<1> HIDE DEF n, r
<1> DEFINE w == [i \in 1..n + 1 |-> m[i + 1]]
<1>3. /\ \A i \in 1..n + 1 : i + 1 \in 1..n + 2
      /\ \A i \in 1..n : i \in 1..n + 1 /\ i + 1 \in 1..n + 1
      /\ 1 \in 1..n + 1 /\ n + 1 \in 1..n + 1 /\ 1 + 1 = 2 /\ (n + 1) + 1 = n + 2
  BY <1>2
<1>4. w \in [1..n + 1 -> Tally] /\ \A i \in 1..n + 1 : w[i] = m[i + 1]
  <2>1. m \in [1..n + 2 -> Tally]
    BY <1>1, <1>2, <1>3
  <2> QED BY <1>3, <2>1
<1> HIDE DEF w
<1>5. \A i \in 1..n + 1 : Moves(p, ch, m[i], q[i], m[i + 1]) /\ Below(m[i], z)
  BY <1>1, <1>2
<1>6. ASSUME NEW i \in 1..n
      PROVE  Moves(p, ch, w[i], r[i], w[i + 1]) /\ Below(w[i], z)
  <2>1. w[i] = m[i + 1] /\ r[i] = q[i + 1] /\ w[i + 1] = m[(i + 1) + 1] /\ i + 1 \in 1..n + 1
    BY <1>2, <1>3, <1>4
  <2> QED BY <1>5, <2>1
<1>7. w[1] = m[2] /\ w[n + 1] = z /\ m[2] \in Tally
  BY <1>1, <1>2, <1>3, <1>4
<1>8. Walk(p, ch, r, m[2], z)
  BY <1>2, <1>4, <1>6, <1>7 DEF Walk
<1>9. Moves(p, ch, a, Head(q), m[2])
  BY <1>1, <1>3, <1>5, <1>a
<1> QED BY <1>7, <1>8, <1>9 DEF r

LEMMA AsksSteps ==
    ASSUME NEW q \in Seq(Message), NEW ch \in Ch
    PROVE  /\ q # <<>> /\ Asks(q, ch) => Asks(Tail(q), ch) /\ (Head(q).ch = ch => Head(q).kind = "open")
           /\ \A f \in Message : Asks(q, ch) /\ (f.ch = ch => f.kind = "open") => Asks(Append(q, f), ch)
<1>1. ASSUME q # <<>>, Asks(q, ch)
      PROVE  Asks(Tail(q), ch) /\ (Head(q).ch = ch => Head(q).kind = "open")
  <2>1. /\ Len(Tail(q)) = Len(q) - 1 /\ \A i \in 1..Len(q) - 1 : Tail(q)[i] = q[i + 1] /\ i + 1 \in 1..Len(q)
        /\ 1 \in 1..Len(q) /\ Head(q) = q[1]
    BY <1>1
  <2> QED BY <1>1, <2>1 DEF Asks
<1>2. ASSUME NEW f \in Message, Asks(q, ch), f.ch = ch => f.kind = "open"
      PROVE  Asks(Append(q, f), ch)
  <2>1. /\ Len(Append(q, f)) = Len(q) + 1 /\ \A i \in 1..Len(q) : Append(q, f)[i] = q[i]
        /\ Append(q, f)[Len(q) + 1] = f
        /\ \A i \in 1..Len(q) + 1 : i \in 1..Len(q) \/ i = Len(q) + 1
    OBVIOUS
  <2> QED BY <1>2, <2>1 DEF Asks
<1> QED BY <1>1, <1>2

(***************************************************************************)
(* The two ends of a channel's flow.                                       *)
(***************************************************************************)

\* What is on its way to an end: the frames in its pipe and those its peer owes.
Wire(p) == pipe[p] \o table[Peer(p)].ops

\* Not answered by the router yet; still in the table, or not opened yet.
Unanswered(e, ch) == ch > table[e].highest \/ (Has(table[e], ch) /\ table[e].chans[ch].phase = "opening")
Alive(e, ch) == Has(table[e], ch) \/ ch > table[e].highest
Opened(e, ch) == Has(table[e], ch) /\ table[e].chans[ch].phase = "open"
Refused(e, ch) == Has(table[e], ch) /\ table[e].chans[ch].phase = "refused"

\* What an end sent and may send, and the place up to which it has room, counted
\* from the start of the stream.
SentBy(e, ch) == IF Has(table[e], ch) THEN table[e].chans[ch].sent ELSE 0
Spend(e, ch) == IF Opened(e, ch) THEN table[e].chans[ch].sent + table[e].chans[ch].credit ELSE WINDOW
Place(e, ch) == Position(table[e].chans[ch], got[e][ch])
Room(e, ch) == IF Opened(e, ch) THEN Place(e, ch) + table[e].chans[ch].allowance ELSE WINDOW

\* What end d knows of what p is told.
TopAt(p, d, ch, a) ==
    IF p = "router" THEN a.top = table[d].highest
    ELSE /\ a.top = 0 <=> Unanswered(d, ch)
         /\ Opened(d, ch) => a.top = 1
         /\ Refused(d, ch) => a.top = 2

\* The tally where the frames end, at p, where they start, at its peer, and what
\* p has room for and will have sent when they have all come.
Start(p, ch, a) ==
    /\ TopAt(p, p, ch, a)
    /\ Waiting(p, ch) => a.pos = Place(p, ch)
    /\ Alive(p, ch) => Spend(p, ch) <= a.lim

Finish(p, ch, z) ==
    /\ TopAt(p, Peer(p), ch, z)
    /\ Alive(Peer(p), ch) => z.pos = SentBy(Peer(p), ch) /\ z.lim = Room(Peer(p), ch)

Bound(p, ch, z) == Alive(p, ch) => z.pos <= Room(p, ch) /\ z.lim <= SentBy(p, ch) + WINDOW

Flowing(p, ch) == \E a, z \in Tally :
    Walk(p, ch, Wire(p), a, z) /\ Start(p, ch, a) /\ Finish(p, ch, z) /\ Bound(p, ch, z)

\* A receiver's window: what it holds, what it read and has not returned, and
\* what it allows.  No channel is in use before it is open.
Local(e, ch) ==
    LET c == table[e].chans[ch]
    IN  Has(table[e], ch) =>
          /\ c.phase = "open" => Place(e, ch) + c.unreturned + c.allowance = got[e][ch] + WINDOW
          /\ \A i \in 1..Len(c.inbound) : c.inbound[i][2] <= Place(e, ch)
          /\ c.phase # "open" => c.inbound = <<>> /\ got[e][ch] = 0 /\ c.unreturned = 0 /\ c.peerClosed = "no"
          /\ e = "router" => c.phase # "refused"

\* Nothing is said to the router of a channel it has not answered.
Unasked(ch) == Unanswered("window", ch) => Asks(Wire("router"), ch)

FlowInv == \A p \in Ends, ch \in Ch : Local(p, ch) /\ Flowing(p, ch) /\ Unasked(ch)

CreditInv == FlowInv /\ NoViolation

LEMMA WiresTyped ==
    ASSUME LinkInv, NEW p \in Ends
    PROVE  /\ pipe[p] \in Seq(Message) /\ table[p].ops \in Seq(Op) /\ table[p].ops \in Seq(Message)
           /\ Wire(p) \in Seq(Message)
<1>1. pipe[p] \in Seq(Message) /\ table[p].ops \in Seq(Op) /\ table[Peer(p)].ops \in Seq(Op)
  BY PeerFacts, Histories DEF PipesTyped, Shape
<1>2. \A q \in Seq(Op) : q \in Seq(Message)
  BY DEF Message
<1> QED BY <1>1, <1>2 DEF Wire

\* What a step leaves of an end's part in the flows.
Even(e, k) ==
    /\ Alive(e, k)' => /\ Alive(e, k) /\ SentBy(e, k)' = SentBy(e, k)
                       /\ Spend(e, k)' = Spend(e, k) /\ Room(e, k)' = Room(e, k)
    /\ Waiting(e, k)' => Waiting(e, k) /\ Place(e, k)' = Place(e, k)

NoAnswer(e, k) == (Opened(e, k)' => Opened(e, k)) /\ (Refused(e, k)' => Refused(e, k))

Calm(e, k) ==
    /\ Even(e, k) /\ NoAnswer(e, k)
    /\ table'[e].highest = table[e].highest
    /\ Unanswered(e, k)' <=> Unanswered(e, k)

KeepsStart(p, k) == \A a \in Tally : Start(p, k, a) => Start(p, k, a)'
KeepsFinish(p, k) == \A z \in Tally : Finish(p, k, z) => Finish(p, k, z)'
KeepsBound(p, k) == \A z \in Tally : Bound(p, k, z) => Bound(p, k, z)'

LEMMA PlaceTyped ==
    ASSUME LinkInv, NEW e \in Ends, NEW ch \in Ch
    PROVE  Place(e, ch) \in Nat
<1> DEFINE c == table[e].chans[ch]
           q == c.inbound
<1>1. got[e][ch] \in Nat /\ table[e] \in Shape
  BY Histories
<1>2. c \in ChanRecord \cup {None}
  BY <1>1 DEF Shape
<1>3. CASE c # None /\ q # <<>>
  <2>1. q \in Seq(Nat \X Nat)
    BY <1>2, <1>3 DEF ChanRecord
  <2>2. q[Len(q)] \in Nat \X Nat
    BY <1>3, <2>1
  <2>3. q[Len(q)][2] \in Nat
    BY <2>2
  <2> QED BY <1>3, <2>3 DEF Place, Position
<1>4. CASE ~(c # None /\ q # <<>>)
  BY <1>1, <1>4 DEF Place, Position
<1> QED BY <1>3, <1>4

LEMMA EndTyped ==
    ASSUME LinkInv, NEW e \in Ends, NEW ch \in Ch
    PROVE  /\ SentBy(e, ch) \in Nat /\ Spend(e, ch) \in Nat /\ Place(e, ch) \in Nat /\ Room(e, ch) \in Nat
           /\ table[e].highest \in Nat /\ ch \in Nat /\ got[e][ch] \in Nat
           /\ Has(table[e], ch) => ch <= table[e].highest /\ ~(ch > table[e].highest)
<1> DEFINE c == table[e].chans[ch]
<1>1. got[e][ch] \in Nat /\ table[e] \in Shape /\ table[e].highest \in Nat /\ ch \in Nat
  BY Histories, ChansAreNumbers
<1>2. Has(table[e], ch) => c \in ChanRecord /\ ch <= table[e].highest /\ ~(ch > table[e].highest)
  <2>1. Has(table[e], ch) => c \in ChanRecord /\ ch <= table[e].highest
    BY HeldIsOpened
  <2> QED BY <1>1, <2>1
<1>3. Has(table[e], ch) => c.sent \in Nat /\ c.credit \in Nat /\ c.allowance \in Nat
  BY <1>2 DEF ChanRecord
<1>4. SentBy(e, ch) \in Nat
  BY <1>3 DEF SentBy
<1>5. Spend(e, ch) \in Nat /\ Room(e, ch) \in Nat
  <2>1. Opened(e, ch) => c.sent + c.credit \in Nat /\ Place(e, ch) + c.allowance \in Nat
    BY <1>3, PlaceTyped, SumsOfNumbers DEF Opened
  <2> QED BY <2>1, SizesAreNumbers DEF Spend, Room
<1> QED BY <1>1, <1>2, <1>4, <1>5, PlaceTyped

LEMMA EvenKeeps ==
    ASSUME LinkInv, NEW e \in Ends, NEW k \in Ch, Even(e, k)
    PROVE  /\ KeepsBound(e, k)
           /\ \A a, b \in Tally : Start(e, k, a) /\ b.pos = a.pos /\ a.lim <= b.lim /\ TopAt(e, e, k, b)' => Start(e, k, b)'
           /\ \A z, y \in Tally : /\ Finish(Peer(e), k, z) /\ y.pos = z.pos /\ y.lim = z.lim
                                  /\ TopAt(Peer(e), e, k, y)'
                                  => Finish(Peer(e), k, y)'
<1>1. KeepsBound(e, k)
  BY DEF KeepsBound, Bound, Even, NoAnswer
<1>2. ASSUME NEW a \in Tally, NEW b \in Tally, Start(e, k, a), b.pos = a.pos, a.lim <= b.lim, TopAt(e, e, k, b)'
      PROVE  Start(e, k, b)'
  <2>1. Waiting(e, k)' => b.pos = Place(e, k)'
    BY <1>2 DEF Start, Even, NoAnswer
  <2>2. Alive(e, k)' => Spend(e, k)' <= b.lim
    <3>1. Alive(e, k)' => Spend(e, k)' <= a.lim /\ Spend(e, k)' \in Nat
      BY <1>2, EndTyped DEF Start, Even, NoAnswer
    <3> QED BY <1>2, <3>1 DEF Tally
  <2> QED BY <1>2, <2>1, <2>2 DEF Start
<1>3. ASSUME NEW z \in Tally, NEW y \in Tally, Finish(Peer(e), k, z), y.pos = z.pos, y.lim = z.lim,
             TopAt(Peer(e), e, k, y)'
      PROVE  Finish(Peer(e), k, y)'
  <2>1. Peer(Peer(e)) = e
    BY PeerFacts
  <2>2. Alive(e, k)' => y.pos = SentBy(e, k)' /\ y.lim = Room(e, k)'
    BY <1>3, <2>1 DEF Finish, Even, NoAnswer
  <2> QED BY <1>3, <2>1, <2>2 DEF Finish
<1> QED BY <1>1, <1>2, <1>3

LEMMA CalmKeeps ==
    ASSUME LinkInv, NEW e \in Ends, NEW k \in Ch, Calm(e, k)
    PROVE  KeepsStart(e, k) /\ KeepsFinish(Peer(e), k) /\ KeepsBound(e, k)
<1>0. Peer(Peer(e)) = e /\ Peer(e) \in Ends /\ Even(e, k)
  BY PeerFacts DEF Calm
<1>1. ASSUME NEW a \in Tally, NEW p \in Ends, TopAt(p, e, k, a) PROVE TopAt(p, e, k, a)'
  BY <1>1 DEF TopAt, Calm, Even, NoAnswer
<1>2. KeepsStart(e, k)
  <2>1. ASSUME NEW a \in Tally, Start(e, k, a) PROVE Start(e, k, a)'
    <3>1. TopAt(e, e, k, a)' /\ a.lim <= a.lim
      BY <1>1, <2>1 DEF Start, Tally
    <3> QED BY <1>0, <2>1, <3>1, EvenKeeps
  <2> QED BY <2>1 DEF KeepsStart
<1>3. KeepsFinish(Peer(e), k)
  <2>1. ASSUME NEW z \in Tally, Finish(Peer(e), k, z) PROVE Finish(Peer(e), k, z)'
    <3>1. TopAt(Peer(e), e, k, z)'
      BY <1>0, <1>1, <2>1 DEF Finish
    <3> QED BY <1>0, <2>1, <3>1, EvenKeeps
  <2> QED BY <2>1 DEF KeepsFinish
<1> QED BY <1>0, <1>2, <1>3, EvenKeeps

LEMMA FlowStands ==
    ASSUME NEW p \in Ends, NEW k \in Ch, Flowing(p, k), Wire(p)' = Wire(p),
           KeepsStart(p, k), KeepsFinish(p, k), KeepsBound(p, k)
    PROVE  Flowing(p, k)'
<1>1. PICK a, z \in Tally :
        Walk(p, k, Wire(p), a, z) /\ Start(p, k, a) /\ Finish(p, k, z) /\ Bound(p, k, z)
  BY DEF Flowing
<1>2. Start(p, k, a)' /\ Finish(p, k, z)' /\ Bound(p, k, z)'
  BY <1>1 DEF KeepsStart, KeepsFinish, KeepsBound
<1>3. Walk(p, k, Wire(p), a, z)'
  <2>1. Walk(p, k, Wire(p)', a, z)
    BY <1>1
  <2> QED BY <2>1 DEF Walk, Moves, Known, Becomes, Below
<1> QED BY <1>2, <1>3 DEF Flowing

LEMMA FlowSends ==
    ASSUME LinkInv, NEW p \in Ends, NEW k \in Ch, Flowing(p, k), NEW f \in Message,
           Wire(p)' = Append(Wire(p), f), KeepsStart(p, k),
           \A a, z \in Tally : Start(p, k, a) /\ Finish(p, k, z) /\ Bound(p, k, z) /\ Below(a, z) =>
             \E b \in Tally : Moves(p, k, z, f, b) /\ Below(z, b) /\ Finish(p, k, b)' /\ Bound(p, k, b)'
    PROVE  Flowing(p, k)'
<1>1. PICK a, z \in Tally :
        Walk(p, k, Wire(p), a, z) /\ Start(p, k, a) /\ Finish(p, k, z) /\ Bound(p, k, z)
  BY DEF Flowing
<1>0. Wire(p) \in Seq(Message)
  BY WiresTyped
<1>2. PICK b \in Tally : Moves(p, k, z, f, b) /\ Below(z, b) /\ Finish(p, k, b)' /\ Bound(p, k, b)'
  BY <1>0, <1>1, WalkEnds
<1>3. Walk(p, k, Append(Wire(p), f), a, b)
  BY <1>0, <1>1, <1>2, WalkSends
<1>4. Walk(p, k, Wire(p), a, b)'
  <2>1. Walk(p, k, Wire(p)', a, b)
    BY <1>3
  <2> QED BY <2>1 DEF Walk, Moves, Known, Becomes, Below
<1>5. Start(p, k, a)'
  BY <1>1 DEF KeepsStart
<1> QED BY <1>2, <1>4, <1>5 DEF Flowing

LEMMA FlowTakes ==
    ASSUME LinkInv, NEW p \in Ends, NEW k \in Ch, Flowing(p, k), Wire(p) # <<>>, Wire(p)' = Tail(Wire(p)),
           \A a, b, z \in Tally :
             /\ Start(p, k, a) /\ Finish(p, k, z) /\ Bound(p, k, z)
             /\ Moves(p, k, a, Head(Wire(p)), b) /\ Below(a, z) /\ Below(b, z)
             => Start(p, k, b)' /\ Finish(p, k, z)' /\ Bound(p, k, z)'
    PROVE  Flowing(p, k)'
<1>1. PICK a, z \in Tally :
        Walk(p, k, Wire(p), a, z) /\ Start(p, k, a) /\ Finish(p, k, z) /\ Bound(p, k, z)
  BY DEF Flowing
<1>0. Wire(p) \in Seq(Message) /\ Tail(Wire(p)) \in Seq(Message)
  BY WiresTyped
<1>2. PICK b \in Tally : Moves(p, k, a, Head(Wire(p)), b) /\ Walk(p, k, Tail(Wire(p)), b, z)
  BY <1>0, <1>1, WalkTakes
<1>3. Below(a, z) /\ Below(b, z)
  BY <1>0, <1>1, <1>2, WalkEnds
<1>4. Start(p, k, b)' /\ Finish(p, k, z)' /\ Bound(p, k, z)'
  BY <1>1, <1>2, <1>3
<1>5. Walk(p, k, Wire(p), b, z)'
  <2>1. Walk(p, k, Wire(p)', b, z)
    BY <1>2
  <2> QED BY <2>1 DEF Walk, Moves, Known, Becomes, Below
<1> QED BY <1>4, <1>5 DEF Flowing

\* A frame of another channel that is no open, sent or taken.
LEMMA FlowPasses ==
    ASSUME LinkInv, NEW p \in Ends, NEW k \in Ch, Flowing(p, k), NEW f \in Message, f.kind # "open", f.ch # k,
           \/ Wire(p)' = Append(Wire(p), f)
           \/ Wire(p) # <<>> /\ f = Head(Wire(p)) /\ Wire(p)' = Tail(Wire(p)),
           KeepsStart(p, k), KeepsFinish(p, k), KeepsBound(p, k)
    PROVE  Flowing(p, k)'
<1>1. f.kind \in {"opened", "refused", "credit", "data", "close"}
  BY MessageFields
<1>2. \A a \in Tally : Moves(p, k, a, f, a)
  BY <1>1 DEF Moves, Becomes
<1>3. \A a, b \in Tally : Moves(p, k, a, f, b) => b = a
  BY DEF Moves, Becomes, Tally
<1>4. CASE Wire(p)' = Append(Wire(p), f)
  <2>1. ASSUME NEW a \in Tally, NEW z \in Tally, Start(p, k, a), Finish(p, k, z), Bound(p, k, z), Below(a, z)
        PROVE  Moves(p, k, z, f, z) /\ Below(z, z) /\ Finish(p, k, z)' /\ Bound(p, k, z)'
    BY <1>2, <2>1, BelowFacts DEF KeepsFinish, KeepsBound
  <2> HIDE DEF Tally
  <2> QED BY <1>4, <2>1, FlowSends
<1>5. CASE Wire(p) # <<>> /\ f = Head(Wire(p)) /\ Wire(p)' = Tail(Wire(p))
  <2>1. ASSUME NEW a \in Tally, NEW b \in Tally, NEW z \in Tally, Start(p, k, a), Finish(p, k, z), Bound(p, k, z),
               Moves(p, k, a, Head(Wire(p)), b), Below(a, z), Below(b, z)
        PROVE  Start(p, k, b)' /\ Finish(p, k, z)' /\ Bound(p, k, z)'
    BY <1>3, <1>5, <2>1 DEF KeepsStart, KeepsFinish, KeepsBound
  <2> QED BY <1>5, <2>1, FlowTakes
<1> QED BY <1>4, <1>5

(***************************************************************************)
(* Steps that leave every flow alone.                                      *)
(***************************************************************************)

Settled(e, k) == Calm(e, k) /\ Local(e, k)'

LEMMA UntouchedSettled ==
    ASSUME FlowInv, NEW e \in Ends, NEW k \in Ch,
           table'[e].chans[k] = table[e].chans[k], table'[e].highest = table[e].highest,
           got'[e][k] = got[e][k]
    PROVE  Settled(e, k)
<1>1. /\ Has(table'[e], k) <=> Has(table[e], k)
      /\ Place(e, k)' = Place(e, k)
  BY DEF Has, Place
<1>2. Calm(e, k)
  BY <1>1 DEF Calm, Even, NoAnswer, Alive, SentBy, Spend, Room, Opened, Refused, Unanswered, Waiting
<1>3. Local(e, k)'
  BY <1>1 DEF FlowInv, Local
<1> QED BY <1>2, <1>3 DEF Settled

\* A channel's record before and after a step that leaves its counts alone.
Flags(c, d) ==
    \/ d = None /\ c.phase # "opening"
    \/ /\ d # None /\ d.phase = c.phase /\ d.inbound = c.inbound
       /\ d.allowance = c.allowance /\ d.unreturned = c.unreturned
       /\ d.sent = c.sent /\ d.credit = c.credit /\ (Takes(d) => Takes(c))
       /\ d.peerClosed = c.peerClosed \/ c.phase = "open"

LEMMA FlagsSettled ==
    ASSUME LinkInv, FlowInv, NEW e \in Ends, NEW ch \in Ch, Has(table[e], ch),
           table'[e].highest = table[e].highest, got'[e][ch] = got[e][ch],
           Flags(table[e].chans[ch], table'[e].chans[ch])
    PROVE  Settled(e, ch)
<1> DEFINE c == table[e].chans[ch]
           d == table'[e].chans[ch]
<1>1. c # None /\ ch <= table[e].highest /\ ch \in Nat /\ table[e].highest \in Nat
  <2>1. ch <= table[e].highest /\ table[e] \in Shape
    BY HeldIsOpened
  <2> QED BY <2>1, ChansAreNumbers DEF Has
<1>2. ~(ch > table[e].highest)
  BY <1>1
<1>3. CASE d = None /\ c.phase # "opening"
  <2>1. Calm(e, ch)
    BY <1>1, <1>2, <1>3 DEF Calm, Even, NoAnswer, Alive, Opened, Refused, Unanswered, Waiting, Takes, Has
  <2>2. Local(e, ch)'
    BY <1>3 DEF Local, Has
  <2> QED BY <2>1, <2>2 DEF Settled
<1>4. CASE /\ d # None /\ d.phase = c.phase /\ d.inbound = c.inbound
           /\ d.allowance = c.allowance /\ d.unreturned = c.unreturned
           /\ d.sent = c.sent /\ d.credit = c.credit /\ (Takes(d) => Takes(c))
           /\ d.peerClosed = c.peerClosed \/ c.phase = "open"
  <2>1. Place(e, ch)' = Place(e, ch)
    BY <1>1, <1>4 DEF Place, Position
  <2>2. Has(table'[e], ch) /\ Has(table[e], ch)
    BY <1>4 DEF Has
  <2>3. Calm(e, ch)
    BY <1>2, <1>4, <2>1, <2>2 DEF Calm, Even, NoAnswer, Alive, Opened, Refused, Unanswered, Waiting, SentBy, Spend, Room
  <2>4. Local(e, ch)'
    BY <1>4, <2>1, <2>2 DEF Local, FlowInv
  <2> QED BY <2>3, <2>4 DEF Settled
<1> QED BY <1>3, <1>4 DEF Flags

LEMMA SettledStep ==
    ASSUME LinkInv, FlowInv, \A e \in Ends, k \in Ch : Settled(e, k), \A p \in Ends : Wire(p)' = Wire(p)
    PROVE  FlowInv'
<1> SUFFICES ASSUME NEW p \in Ends, NEW k \in Ch PROVE Local(p, k)' /\ Flowing(p, k)' /\ Unasked(k)'
  BY DEF FlowInv
<1>1. Peer(p) \in Ends /\ Peer(Peer(p)) = p
  BY PeerFacts
<1>2. KeepsStart(p, k) /\ KeepsBound(p, k) /\ KeepsFinish(p, k)
  BY <1>1, CalmKeeps DEF Settled
<1>3. Flowing(p, k)'
  BY <1>2, FlowStands DEF FlowInv
<1>4. "window" \in Ends /\ "router" \in Ends
  BY DEF Ends
<1>5. Unasked(k)'
  <2>1. Unanswered("window", k)' <=> Unanswered("window", k)
    BY <1>4 DEF Settled, Calm, Even, NoAnswer
  <2>2. Asks(Wire("router"), k) <=> Asks(Wire("router")', k)
    BY <1>4
  <2> QED BY <1>4, <2>1, <2>2 DEF Unasked, FlowInv, Asks
<1> QED BY <1>3, <1>5 DEF Settled

LEMMA WiresStand ==
    ASSUME UNCHANGED pipe, \A e \in Ends : table'[e].ops = table[e].ops
    PROVE  \A p \in Ends : Wire(p)' = Wire(p)
BY PeerFacts DEF Wire

\* A step of one channel.
LEMMA OneSettled ==
    ASSUME LinkInv, FlowInv, NEW e \in Ends, NEW ch \in Ch, NEW t,
           table' = [table EXCEPT ![e] = t], Touches(table[e], t, ch), Only(got, got', e, ch)
    PROVE  \A d \in Ends, k \in Ch : d # e \/ k # ch => Settled(d, k)
<1> TAKE d \in Ends, k \in Ch
<1> HAVE d # e \/ k # ch
<1>1. table'[e] = t /\ \A x \in Ends : x # e => table'[x] = table[x]
  BY Histories
<1>2. table'[d].chans[k] = table[d].chans[k] /\ table'[d].highest = table[d].highest /\ got'[d][k] = got[d][k]
  BY <1>1 DEF Touches, Only
<1> QED BY <1>2, UntouchedSettled

\* A channel put back, reaped or not, with its counts as they were.
LEMMA PutSettled ==
    ASSUME LinkInv, FlowInv, NEW e \in Ends, NEW ch \in Ch, Has(table[e], ch),
           NEW d \in ChanRecord \cup {None}, UNCHANGED <<pipe, got>>,
           \/ table' = [table EXCEPT ![e] = Put(table[e], ch, d)]
           \/ /\ table' = [table EXCEPT ![e] = Reaped(Put(table[e], ch, d), ch)]
              /\ table[e].chans[ch].phase # "opening",
           Flags(table[e].chans[ch], d)
    PROVE  FlowInv'
<1> DEFINE s == Put(table[e], ch, d)
           r == Reaped(s, ch)
           n == Put(s, ch, None)
           c == table[e].chans[ch]
<1>0. table[e] \in Shape
  BY Histories
<1>1. Touches(table[e], s, ch) /\ s.chans[ch] = d /\ s \in Shape /\ s.ops = table[e].ops
  BY <1>0, PutTouches DEF Touches
<1>2. Touches(s, n, ch) /\ n.chans[ch] = None /\ n.ops = s.ops
  BY <1>1, PutTouches
<1>3. Touches(table[e], n, ch)
  BY <1>1, <1>2, TouchesTwice
<1>4. r = s \/ r = n
  BY DEF Reaped
<1>5. PICK t \in {s, n} : table' = [table EXCEPT ![e] = t] /\ (t = n => t = s \/ c.phase # "opening")
  BY <1>4
<1>6. Touches(table[e], t, ch) /\ t.ops = table[e].ops /\ Flags(c, t.chans[ch])
  BY <1>1, <1>2, <1>3, <1>5 DEF Flags
<1> HIDE DEF s, r, n
<1>7. table'[e] = t /\ \A x \in Ends : x # e => table'[x] = table[x]
  BY <1>5, Histories
<1>8. \A x \in Ends : table'[x].ops = table[x].ops
  BY <1>6, <1>7
<1>9. Only(got, got', e, ch)
  BY DEF Only
<1>10. Settled(e, ch)
  BY <1>6, <1>7, FlagsSettled DEF Touches
<1>11. \A x \in Ends, k \in Ch : x # e \/ k # ch => Settled(x, k)
  BY <1>5, <1>6, <1>9, OneSettled
<1>12. \A x \in Ends, k \in Ch : Settled(x, k)
  BY <1>10, <1>11
<1> QED BY <1>8, <1>12, WiresStand, SettledStep

\* The users' steps that move no credit.
\* A record whose counts a user's step leaves alone, and which it may close or cancel.
Touched(c, d) ==
    /\ d.phase = c.phase /\ d.inbound = c.inbound /\ d.allowance = c.allowance /\ d.unreturned = c.unreturned
    /\ d.sent = c.sent /\ d.credit = c.credit /\ d.peerClosed = c.peerClosed
    /\ (c.cancelled => d.cancelled) /\ (c.localClose # "no" => d.localClose # "no")

LEMMA TouchedFlags ==
    ASSUME NEW c \in ChanRecord, NEW d \in ChanRecord, Touched(c, d)
    PROVE  Flags(c, d)
BY ChansAreNotNone DEF Touched, Flags, Takes, Closed

LEMMA UserSettled ==
    ASSUME LinkInv, FlowInv, NEW e \in Ends, NEW ch \in Ch,
           \/ ReadWaits(e, ch) \/ WriteWaits(e, ch) \/ Flush(e, ch) \/ Shutdown(e, ch) \/ Release(e, ch)
           \/ e = "window" /\ Cancel(ch)
           \/ \E n \in 1..CHUNK : Write(e, ch, n)
    PROVE  FlowInv'
<1> DEFINE c == table[e].chans[ch]
           r == [c EXCEPT !.readWaker = TRUE]
           w == [c EXCEPT !.writeWaker = TRUE]
           a == [c EXCEPT !.localClose = IF Closed(c) THEN @ ELSE "eof"]
           b == Woken(OutboundCleared([c EXCEPT !.cancelled = TRUE,
                         !.localClose = IF ~Closed(c) /\ c.phase = "open" THEN "reset" ELSE @]))
           x == ReleasedChan(c)
<1>1. user[e][ch] \in {"using", "flushed", "shut"} /\ UNCHANGED <<pipe, got>>
  BY DEF ReadWaits, WriteWaits, Write, Flush, Shutdown, Release, Cancel, UserStep, Holds, CanWrite
<1>2. /\ Has(table[e], ch) /\ c \in ChanRecord /\ c # None /\ table[e].down \in BOOLEAN
      /\ accepted[e][ch] \in Nat /\ user[e][ch] \in UserType
      /\ Slot(e, c, user[e][ch], table[e].down, accepted[e][ch])
  BY <1>1, UsersChannel
<1>3. c.phase = "open"
  BY <1>1, <1>2 DEF Slot, Served
<1>4. /\ r \in ChanRecord /\ Flags(c, r) /\ w \in ChanRecord /\ Flags(c, w)
      /\ \A n \in Nat : [c EXCEPT !.queued = n] \in ChanRecord /\ Flags(c, [c EXCEPT !.queued = n])
  <2> HIDE DEF c
  <2>1. r \in ChanRecord /\ w \in ChanRecord /\ \A n \in Nat : [c EXCEPT !.queued = n] \in ChanRecord
    BY <1>2 DEF ChanRecord
  <2>2. Touched(c, r) /\ Touched(c, w)
    BY <1>2 DEF Touched, ChanRecord
  <2>3. \A n \in Nat : Touched(c, [c EXCEPT !.queued = n])
    BY <1>2 DEF Touched, ChanRecord
  <2> QED BY <1>2, <2>1, <2>2, <2>3, TouchedFlags
<1>5. a \in ChanRecord /\ Flags(c, a)
  <2> HIDE DEF c
  <2>1. a \in ChanRecord
    BY <1>2 DEF ChanRecord, Reasons
  <2>2. Touched(c, a)
    BY <1>2 DEF Touched, Closed, ChanRecord
  <2> QED BY <1>2, <2>1, <2>2, TouchedFlags
<1>6. b \in ChanRecord /\ Flags(c, b)
  <2>1. b \in ChanRecord
    BY <1>1, <1>2, CancelSlot
  <2> HIDE DEF c
  <2>2. Touched(c, b)
    BY <1>2 DEF Touched, Closed, ChanRecord, Woken, OutboundCleared
  <2> QED BY <1>2, <2>1, <2>2, TouchedFlags
<1>7. x \in ChanRecord /\ Flags(c, x)
  <2>1. x \in ChanRecord
    BY <1>2, <1>3, ReleasedSlot
  <2> HIDE DEF c
  <2>2. Touched(c, x)
    BY <1>2 DEF Touched, Closed, ChanRecord, ReleasedChan
  <2> QED BY <1>2, <2>1, <2>2, TouchedFlags
<1>8. \/ table' = table
      \/ \E d \in ChanRecord : /\ Flags(c, d)
                               /\ \/ table' = [table EXCEPT ![e] = Put(table[e], ch, d)]
                                  \/ table' = [table EXCEPT ![e] = Reaped(Put(table[e], ch, d), ch)]
  <2>1. CASE ReadWaits(e, ch) \/ WriteWaits(e, ch) \/ Flush(e, ch)
    <3>1. \/ table' = [table EXCEPT ![e] = Put(table[e], ch, r)]
          \/ table' = [table EXCEPT ![e] = Put(table[e], ch, w)]
          \/ table' = table
      BY <2>1 DEF ReadWaits, WriteWaits, Flush, UserStep, Put
    <3> QED BY <1>4, <3>1
  <2>2. CASE Shutdown(e, ch)
    <3>1. table' = [table EXCEPT ![e] = Put(table[e], ch, a)]
      BY <2>2 DEF Shutdown, UserStep
    <3> QED BY <1>5, <3>1
  <2>3. CASE e = "window" /\ Cancel(ch)
    <3>1. table' = [table EXCEPT ![e] = Put(table[e], ch, b)]
      BY <2>3 DEF Cancel, UserStep
    <3> QED BY <1>6, <3>1
  <2>4. CASE Release(e, ch)
    <3>1. table' = [table EXCEPT ![e] = Reaped(Put(table[e], ch, x), ch)]
      BY <2>4 DEF Release, ReleasedIn
    <3> QED BY <1>7, <3>1
  <2>5. CASE \E n \in 1..CHUNK : Write(e, ch, n)
    <3>1. PICK n \in 1..CHUNK : table' = [table EXCEPT ![e] = Put(table[e], ch, [c EXCEPT !.queued = @ + n])]
      BY <2>5 DEF Write, UserStep
    <3>2. c.queued \in Nat /\ n \in Nat
      BY <1>2 DEF ChanRecord
    <3>3. c.queued + n \in Nat
      BY <3>2
    <3> QED BY <1>4, <3>1, <3>3
  <2> QED BY <2>1, <2>2, <2>3, <2>4, <2>5
<1> HIDE DEF c, r, w, a, b, x
<1>9. CASE table' = table
  <2>1. \A d \in Ends, k \in Ch : Settled(d, k)
    BY <1>1, <1>9, UntouchedSettled
  <2>2. \A d \in Ends : table'[d].ops = table[d].ops
    BY <1>9
  <2> QED BY <1>1, <2>1, <2>2, WiresStand, SettledStep
<1>10. CASE table' # table
  <2>1. PICK d \in ChanRecord : /\ Flags(c, d)
                                /\ \/ table' = [table EXCEPT ![e] = Put(table[e], ch, d)]
                                   \/ table' = [table EXCEPT ![e] = Reaped(Put(table[e], ch, d), ch)]
    BY <1>8, <1>10
  <2> QED BY <1>1, <1>2, <1>3, <2>1, PutSettled DEF c
<1> QED BY <1>9, <1>10

LEMMA OpenerSettled ==
    ASSUME LinkInv, FlowInv, NEW ch \in Ch, PollOpen(ch) \/ Abandon(ch)
    PROVE  FlowInv'
<1> DEFINE e == "window"
           c == table[e].chans[ch]
           r == [c EXCEPT !.released = TRUE]
           w == [c EXCEPT !.openWaker = TRUE]
           x == ReleasedChan(c)
<1>1. /\ e \in Ends /\ user[e][ch] = "opening" /\ UNCHANGED <<pipe, got>>
  BY DEF PollOpen, Abandon, Ends
<1>2. /\ Has(table[e], ch) /\ c \in ChanRecord /\ c # None /\ table[e].down \in BOOLEAN
      /\ accepted[e][ch] \in Nat /\ user[e][ch] \in UserType
      /\ Slot(e, c, user[e][ch], table[e].down, accepted[e][ch])
  BY <1>1, UsersChannel
<1>3. x \in ChanRecord
  BY <1>1, <1>2, ReleasedSlot
<1>4. /\ r \in ChanRecord /\ Flags(c, r) /\ w \in ChanRecord /\ Flags(c, w) /\ Flags(c, x)
  <2> HIDE DEF c
  <2>1. r \in ChanRecord /\ w \in ChanRecord
    BY <1>2 DEF ChanRecord
  <2>2. Touched(c, r) /\ Touched(c, w)
    BY <1>2 DEF Touched, ChanRecord
  <2>3. Touched(c, x)
    BY <1>2 DEF Touched, Closed, ChanRecord, ReleasedChan
  <2> QED BY <1>2, <1>3, <2>1, <2>2, <2>3, TouchedFlags
<1>5. \/ table' = table
      \/ \E d \in ChanRecord : /\ Flags(c, d)
                               /\ \/ table' = [table EXCEPT ![e] = Put(table[e], ch, d)]
                                  \/ /\ table' = [table EXCEPT ![e] = Reaped(Put(table[e], ch, d), ch)]
                                     /\ c.phase # "opening"
  <2>1. CASE PollOpen(ch)
    <3>1. \/ table' = table
          \/ table' = [table EXCEPT ![e] = Put(table[e], ch, w)]
          \/ /\ table' = [table EXCEPT ![e] = Reaped(Put(table[e], ch, r), ch)] /\ c.phase = "refused"
      BY <2>1 DEF PollOpen, Put
    <3> QED BY <1>4, <3>1
  <2>2. CASE Abandon(ch)
    <3>1. \/ table' = [table EXCEPT ![e] = Put(table[e], ch, r)]
          \/ table' = [table EXCEPT ![e] = Reaped(Put(table[e], ch, x), ch)] /\ c.phase # "opening"
      BY <2>2 DEF Abandon, ReleasedIn
    <3> QED BY <1>3, <1>4, <3>1
  <2> QED BY <2>1, <2>2
<1> HIDE DEF e, c, r, w, x
<1>6. CASE table' = table
  <2>1. \A d \in Ends, k \in Ch : Settled(d, k)
    BY <1>1, <1>6, UntouchedSettled
  <2>2. \A d \in Ends : table'[d].ops = table[d].ops
    BY <1>6
  <2> QED BY <1>1, <2>1, <2>2, WiresStand, SettledStep
<1>7. CASE table' # table
  <2>1. PICK d \in ChanRecord : /\ Flags(c, d)
                                /\ \/ table' = [table EXCEPT ![e] = Put(table[e], ch, d)]
                                   \/ /\ table' = [table EXCEPT ![e] = Reaped(Put(table[e], ch, d), ch)]
                                      /\ c.phase # "opening"
    BY <1>5, <1>7
  <2> QED BY <1>1, <1>2, <2>1, PutSettled DEF c
<1> QED BY <1>6, <1>7

LEMMA EndSettled ==
    ASSUME LinkInv, FlowInv, NEW e \in Ends, table' = [table EXCEPT ![e] = Ended(@)],
           UNCHANGED <<pipe, got>>
    PROVE  FlowInv'
<1> DEFINE t == table[e]
           s == Ended(t)
<1>0. t \in Shape /\ table'[e] = s /\ \A x \in Ends : x # e => table'[x] = table[x]
  BY Histories
<1>1. /\ s.highest = t.highest /\ s.ops = t.ops
      /\ \A k \in Ch : s.chans[k] = IF Has(t, k) THEN Woken(t.chans[k]) ELSE None
  BY <1>0 DEF Ended, Shape
<1> HIDE DEF s
<1>2. ASSUME NEW d \in Ends, NEW k \in Ch PROVE Settled(d, k)
  <2>1. CASE d # e
    BY <1>0, <2>1, UntouchedSettled
  <2>2. CASE d = e /\ ~Has(t, k)
    <3>1. table'[d].chans[k] = table[d].chans[k] /\ table'[d].highest = table[d].highest
      BY <1>0, <1>1, <2>2 DEF Has
    <3> QED BY <3>1, UntouchedSettled
  <2>3. CASE d = e /\ Has(t, k)
    <3> DEFINE c == t.chans[k]
    <3>1. c \in ChanRecord /\ Woken(c) \in ChanRecord
      <4>1. c \in ChanRecord
        BY <2>3, HeldIsOpened
      <4> QED BY <4>1 DEF Woken, ChanRecord
    <3>2. Flags(c, Woken(c))
      BY <3>1, ChansAreNotNone DEF Flags, Takes, Closed, Woken, ChanRecord
    <3>3. s.chans[k] = Woken(c) /\ s.highest = t.highest
      BY <1>1, <2>3
    <3> HIDE DEF c
    <3>4. Settled(e, k)
      BY <1>0, <2>3, <3>2, <3>3, FlagsSettled DEF c
    <3> QED BY <2>3, <3>4
  <2> QED BY <2>1, <2>2, <2>3
<1>3. \A x \in Ends : table'[x].ops = table[x].ops
  BY <1>0, <1>1
<1> QED BY <1>2, <1>3, WiresStand, SettledStep

(***************************************************************************)
(* What the flows say of a channel's two ends.                             *)
(***************************************************************************)

LEMMA FlowEnds ==
    ASSUME LinkInv, FlowInv, NEW p \in Ends, NEW k \in Ch
    PROVE  \E a, z \in Tally : /\ Start(p, k, a) /\ Finish(p, k, z) /\ Bound(p, k, z)
                               /\ a.top <= z.top /\ a.pos <= z.pos /\ a.lim <= z.lim
<1>1. Flowing(p, k) /\ Wire(p) \in Seq(Message)
  BY WiresTyped DEF FlowInv
<1> QED BY <1>1, WalkEnds DEF Flowing, Below

\* A sender's credit is backed by its receiver's room, and a receiver holds no
\* more than was sent.
LEMMA CreditIsBacked ==
    ASSUME LinkInv, FlowInv, NEW e \in Ends, NEW k \in Ch, Alive(e, k), Alive(Peer(e), k)
    PROVE  /\ Spend(e, k) <= Room(Peer(e), k)
           /\ Waiting(e, k) => Place(e, k) <= SentBy(Peer(e), k)
<1>1. PICK a, z \in Tally : /\ Start(e, k, a) /\ Finish(e, k, z)
                            /\ a.top <= z.top /\ a.pos <= z.pos /\ a.lim <= z.lim
  BY FlowEnds
<1>2. Spend(e, k) <= a.lim /\ z.lim = Room(Peer(e), k)
  BY <1>1 DEF Start, Finish
<1>3. z.pos = SentBy(Peer(e), k) /\ (Waiting(e, k) => a.pos = Place(e, k))
  BY <1>1 DEF Start, Finish
<1>4. Spend(e, k) \in Nat /\ Place(e, k) \in Nat
  BY EndTyped
<1>5. a.lim \in Nat /\ z.lim \in Nat /\ a.pos \in Nat /\ z.pos \in Nat
  BY DEF Tally
<1> QED BY <1>1, <1>2, <1>3, <1>4, <1>5

\* The router knows of no channel the window has not opened, and has not answered
\* one that it still connects.
LEMMA RouterFollows ==
    ASSUME LinkInv, FlowInv, NEW k \in Ch
    PROVE  /\ table["router"].highest <= table["window"].highest
           /\ Unanswered("router", k) => Unanswered("window", k)
<1>0. "router" \in Ends /\ "window" \in Ends /\ Peer("router") = "window" /\ Peer("window") = "router"
  BY DEF Ends, Peer
<1>1. PICK a, z \in Tally : Start("router", k, a) /\ Finish("router", k, z) /\ a.top <= z.top
  BY <1>0, FlowEnds
<1>2. table["router"].highest <= table["window"].highest
  BY <1>0, <1>1 DEF Start, Finish, TopAt
<1>3. PICK b, y \in Tally : Start("window", k, b) /\ Finish("window", k, y) /\ b.top <= y.top
  BY <1>0, FlowEnds
<1>4. (b.top = 0 <=> Unanswered("window", k)) /\ (y.top = 0 <=> Unanswered("router", k))
  BY <1>0, <1>3 DEF Start, Finish, TopAt
<1>5. b.top \in Nat /\ y.top \in Nat
  BY DEF Tally
<1>6. y.top = 0 => b.top = 0
  BY <1>3, <1>5
<1> QED BY <1>2, <1>4, <1>6

\* An end in whose table a channel is open may speak of it.
LEMMA MaySpeak ==
    ASSUME LinkInv, FlowInv, NEW e \in Ends, NEW k \in Ch, Opened(e, k), NEW z \in Tally, Finish(Peer(e), k, z)
    PROVE  Known(Peer(e), k, z)
<1>1. TopAt(Peer(e), e, k, z) /\ (Peer(e) = "router" => e = "window")
  BY PeerFacts DEF Finish, Peer, Ends
<1>2. k <= table[e].highest
  BY EndTyped DEF Opened
<1> QED BY <1>1, <1>2 DEF Known, TopAt

(***************************************************************************)
(* A frame is sent.                                                        *)
(***************************************************************************)

LEMMA WireGains ==
    ASSUME LinkInv, NEW e \in Ends, NEW f \in Message, pipe'[Peer(e)] = pipe[Peer(e)],
           table'[e].ops = Append(table[e].ops, f)
    PROVE  Wire(Peer(e))' = Append(Wire(Peer(e)), f)
<1> DEFINE q == pipe[Peer(e)]
           r == table[e].ops
<1>1. q \in Seq(Message) /\ r \in Seq(Message) /\ Peer(e) \in Ends /\ Peer(Peer(e)) = e
  BY PeerFacts, WiresTyped
<1>2. Wire(Peer(e)) = q \o r /\ Wire(Peer(e))' = q \o Append(r, f)
  BY <1>1 DEF Wire
<1> HIDE DEF q, r
<1>3. q \o Append(r, f) = Append(q \o r, f)
  BY <1>1
<1> QED BY <1>2, <1>3

\* A channel that is opened, or refused.
LEMMA OpensEven ==
    ASSUME LinkInv, FlowInv, NEW e, NEW ch, NEW t, AddsChannel(e, ch, t)
    PROVE  /\ table'[e] = t /\ (\A x \in Ends, k \in Ch : x # e => table'[x] = table[x] /\ Settled(x, k))
           /\ Unanswered(e, ch) /\ (t.chans[ch] = None => ~Alive(e, ch)' /\ ~Unanswered(e, ch)')
           /\ \A k \in Ch : /\ Even(e, k) /\ NoAnswer(e, k) /\ Local(e, k)'
                            /\ k # ch \/ t.chans[ch] # None => (Unanswered(e, k)' <=> Unanswered(e, k))
<1> /\ e \in Ends /\ ch \in Ch /\ ch = table[e].highest + 1 /\ t \in Shape
    /\ table' = [table EXCEPT ![e] = t] /\ t.highest = ch
    /\ \A k \in Ch : k # ch => t.chans[k] = table[e].chans[k]
    /\ UNCHANGED <<accepted, got>> /\ t.chans[ch] \in {None, NewChan("opening")}
  BY DEF AddsChannel
<1>1. table'[e] = t /\ \A x \in Ends : x # e => table'[x] = table[x]
  BY Histories
<1>2. \A x \in Ends, k \in Ch : x # e => Settled(x, k)
  BY <1>1, UntouchedSettled
<1>3. table[e].highest \in Nat /\ ch \in Nat /\ ch > table[e].highest /\ ~(ch > ch)
  <2>1. table[e].highest \in Nat /\ ch \in Nat
    BY Histories, ChansAreNumbers
  <2> QED BY <2>1
<1>4. table[e].chans[ch] = None /\ got[e][ch] = 0
  BY <1>3 DEF LinkInv, Fresh
<1>5. Unanswered(e, ch) /\ (t.chans[ch] = None => ~Alive(e, ch)' /\ ~Unanswered(e, ch)')
  BY <1>1, <1>3 DEF Unanswered, Alive, Has
<1>6. ASSUME NEW k \in Ch, k # ch PROVE Even(e, k) /\ NoAnswer(e, k) /\ Local(e, k)' /\ (Unanswered(e, k)' <=> Unanswered(e, k))
  <2>1. table'[e].chans[k] = table[e].chans[k]
    BY <1>1, <1>6
  <2>2. k > table'[e].highest <=> k > table[e].highest
    <3>1. k \in Nat
      BY ChansAreNumbers
    <3> QED BY <1>1, <1>3, <1>6, <3>1
  <2>3. Place(e, k)' = Place(e, k) /\ (Has(table'[e], k) <=> Has(table[e], k))
    BY <2>1 DEF Place, Has
  <2>4. Even(e, k) /\ NoAnswer(e, k) /\ (Unanswered(e, k)' <=> Unanswered(e, k))
    BY <2>1, <2>2, <2>3 DEF Even, NoAnswer, Alive, SentBy, Spend, Room, Opened, Refused, Unanswered, Waiting
  <2>5. Local(e, k)'
    BY <2>1, <2>3 DEF FlowInv, Local
  <2> QED BY <2>4, <2>5
<1>7. CASE t.chans[ch] = None
  <2>1. Even(e, ch) /\ NoAnswer(e, ch) /\ Local(e, ch)'
    BY <1>1, <1>3, <1>7 DEF Even, NoAnswer, Local, Alive, Opened, Refused, Waiting, Takes, Has
  <2> QED BY <1>1, <1>2, <1>5, <1>6, <1>7, <2>1
<1>8. CASE t.chans[ch] # None
  <2> DEFINE c == NewChan("opening")
  <2>1. /\ t.chans[ch] = c /\ c # None /\ c.phase = "opening" /\ c.inbound = <<>> /\ c.sent = 0
        /\ c.unreturned = 0 /\ c.peerClosed = "no"
    BY <1>8 DEF NewChan
  <2> HIDE DEF c
  <2>2. Place(e, ch)' = Place(e, ch)
    BY <1>1, <1>4, <2>1 DEF Place, Position
  <2>3. Has(table'[e], ch) /\ ~Has(table[e], ch)
    BY <1>1, <1>4, <2>1 DEF Has
  <2>4. Even(e, ch) /\ NoAnswer(e, ch)
    BY <1>1, <1>3, <2>1, <2>2, <2>3 DEF Even, NoAnswer, Alive, SentBy, Spend, Room, Opened, Refused, Waiting
  <2>5. Local(e, ch)'
    <3>1. Len(c.inbound) = 0
      BY <2>1
    <3> QED BY <1>1, <1>4, <2>1, <3>1 DEF Local
  <2>6. Unanswered(e, ch)'
    BY <1>1, <2>1, <2>3 DEF Unanswered
  <2> QED BY <1>1, <1>2, <1>5, <1>6, <2>1, <2>4, <2>5, <2>6
<1> QED BY <1>7, <1>8

LEMMA BeginOpenFlow ==
    ASSUME LinkInv, FlowInv, BeginOpen
    PROVE  FlowInv'
<1> DEFINE e == "window"
           t == table[e]
           ch == t.highest + 1
           raised == [t EXCEPT !.highest = ch]
           f == [kind |-> "open", ch |-> ch]
           c == NewChan("opening")
           s == Queue(Put(raised, ch, c), f)
<1>1. /\ e \in Ends /\ ch <= load.chans /\ table' = [table EXCEPT ![e] = s]
      /\ UNCHANGED <<pipe, task, accepted, got>>
  BY DEF BeginOpen, Ends
<1>2. t \in Shape /\ load \in LoadType
  BY <1>1, Histories, SizesAssumption DEF LinkInv, Shaped
<1>3. t.highest \in Ch /\ load.chans \in Ch
  BY <1>2 DEF Shape, LoadType
<1>4. ch \in Ch
  BY <1>1, <1>3, SizesAssumption DEF Ch
<1>5. raised \in Shape /\ raised.highest = ch /\ raised.chans = t.chans /\ raised.ops = t.ops
  BY <1>2, <1>4 DEF Shape
<1>6. f \in Op /\ c \in ChanRecord /\ f \in Message /\ f.kind = "open" /\ f.ch = ch
  BY <1>4, MessagesMade, NewSlot
<1>0. c # None
  BY <1>6, ChansAreNotNone
<1> HIDE DEF raised, f, ch, c
<1>7. /\ Touches(raised, Put(raised, ch, c), ch) /\ Put(raised, ch, c).chans[ch] = c
      /\ Put(raised, ch, c).ops = t.ops
  BY <1>4, <1>5, <1>6, PutTouches
<1>8. Touches(Put(raised, ch, c), s, ch) /\ s.chans[ch] = c /\ s.ops = Append(t.ops, f)
  BY <1>4, <1>6, <1>7, QueueTouches DEF Touches
<1>9. Touches(raised, s, ch)
  BY <1>7, <1>8, TouchesTwice
<1>10. /\ s \in Shape /\ s.highest = ch /\ s.chans[ch] \in {None, NewChan("opening")}
       /\ \A k \in Ch : k # ch => s.chans[k] = t.chans[k]
  BY <1>5, <1>8, <1>9 DEF Touches, c
<1> HIDE DEF s
<1>11. ch = table[e].highest + 1
  BY DEF ch
<1>12. AddsChannel(e, ch, s)
  BY <1>1, <1>4, <1>10, <1>11 DEF AddsChannel
<1>13. /\ table'[e] = s /\ (\A x \in Ends, k \in Ch : x # e => table'[x] = table[x] /\ Settled(x, k))
       /\ \A k \in Ch : Even(e, k) /\ NoAnswer(e, k) /\ Local(e, k)' /\ (Unanswered(e, k)' <=> Unanswered(e, k))
  BY <1>0, <1>8, <1>12, OpensEven
<1>14. "router" \in Ends /\ Peer("router") = "window" /\ Peer("window") = "router"
  BY DEF Ends, Peer
<1>15. Wire("router")' = Append(Wire("router"), f) /\ Wire("window")' = Wire("window")
  <2>1. Wire(Peer(e))' = Append(Wire(Peer(e)), f)
    BY <1>1, <1>6, <1>8, <1>13, WireGains
  <2>2. table'["router"] = table["router"]
    BY <1>4, <1>13, <1>14
  <2> QED BY <1>1, <1>14, <2>1, <2>2 DEF Wire
<1>16. ASSUME NEW k \in Ch PROVE Flowing("window", k)'
  <2>1. KeepsFinish("window", k)
    BY <1>13, <1>14, CalmKeeps DEF Settled
  <2>2. KeepsStart("window", k)
    <3>1. ASSUME NEW a \in Tally, Start("window", k, a) PROVE Start("window", k, a)'
      <4>1. TopAt("window", "window", k, a)'
        BY <1>13, <3>1 DEF Start, TopAt, Even, NoAnswer
      <4>2. a.lim <= a.lim
        BY DEF Tally
      <4> QED BY <1>1, <1>13, <3>1, <4>1, <4>2, EvenKeeps
    <3> QED BY <3>1 DEF KeepsStart
  <2>3. KeepsBound("window", k)
    BY <1>1, <1>13, EvenKeeps
  <2> QED BY <1>1, <1>15, <2>1, <2>2, <2>3, FlowStands DEF FlowInv
<1>17. ASSUME NEW k \in Ch PROVE Flowing("router", k)'
  <2>1. KeepsStart("router", k) /\ KeepsBound("router", k)
    BY <1>13, <1>14, CalmKeeps DEF Settled
  <2>2. ASSUME NEW a \in Tally, NEW z \in Tally, Start("router", k, a), Finish("router", k, z), Bound("router", k, z)
        PROVE  \E b \in Tally : Moves("router", k, z, f, b) /\ Below(z, b) /\ Finish("router", k, b)' /\ Bound("router", k, b)'
    <3>1. PICK b \in Tally : b.top = ch /\ b.pos = z.pos /\ b.lim = z.lim
      <4>1. [top |-> ch, pos |-> z.pos, lim |-> z.lim] \in Tally
        BY <1>4, ChansAreNumbers DEF Tally
      <4> QED BY <4>1
    <3>2. z.top = t.highest /\ t.highest \in Nat
      BY <1>2, <1>14, <2>2, ChansAreNumbers DEF Finish, TopAt
    <3>3. ch = z.top + 1
      BY <1>11, <3>2
    <3>4. Moves("router", k, z, f, b)
      BY <1>6, <3>1, <3>3 DEF Moves, Becomes
    <3>5. Below(z, b)
      BY <3>1, <3>2, <3>3 DEF Below, Tally
    <3>6. TopAt("router", "window", k, b)'
      BY <1>10, <1>13, <3>1 DEF TopAt
    <3>7. Finish("router", k, b)'
      BY <1>1, <1>13, <1>14, <2>2, <3>1, <3>6, EvenKeeps
    <3>8. Bound("router", k, b)'
      BY <2>1, <2>2, <3>1 DEF KeepsBound, Bound
    <3> QED BY <3>4, <3>5, <3>7, <3>8
  <2> HIDE DEF Tally
  <2> QED BY <1>6, <1>14, <1>15, <2>1, <2>2, FlowSends DEF FlowInv
<1>18. ASSUME NEW k \in Ch PROVE Unasked(k)'
  <2>1. Unanswered("window", k)' => Asks(Wire("router"), k)
    BY <1>13 DEF FlowInv, Unasked, Ends
  <2>2. Asks(Wire("router"), k) => Asks(Append(Wire("router"), f), k)
    BY <1>6, <1>14, WiresTyped, AsksSteps
  <2>3. Asks(Wire("router")', k) <=> Asks(Wire("router"), k)'
    BY DEF Asks
  <2> QED BY <1>15, <2>1, <2>2, <2>3 DEF Unasked
<1> HIDE DEF e
<1>19. \A p \in Ends, k \in Ch : Local(p, k)'
  BY <1>13 DEF Settled
<1>20. \A p \in Ends, k \in Ch : Flowing(p, k)'
  BY <1>16, <1>17 DEF Ends
<1> QED BY <1>18, <1>19, <1>20 DEF FlowInv

\* A frame of a channel that one step sends to the peer.
LEMMA SendsStep ==
    ASSUME LinkInv, FlowInv, NEW e \in Ends, NEW ch \in Ch, NEW f \in Message, f.ch = ch, f.kind # "open",
           Wire(Peer(e))' = Append(Wire(Peer(e)), f), Wire(e)' = Wire(e),
           \A x \in Ends, k \in Ch : x # e \/ k # ch => Settled(x, k),
           Local(e, ch)', Flowing(e, ch)', Flowing(Peer(e), ch)', e = "window" => ~Unanswered(e, ch)'
    PROVE  FlowInv'
<1>0. Peer(e) \in Ends /\ Peer(e) # e /\ Peer(Peer(e)) = e /\ \A x \in Ends : x = e \/ x = Peer(e)
  BY PeerFacts DEF Peer, Ends
<1>1. ASSUME NEW x \in Ends, NEW k \in Ch PROVE Local(x, k)'
  BY <1>1 DEF Settled
<1>2. ASSUME NEW k \in Ch, k # ch PROVE Flowing(e, k)' /\ Flowing(Peer(e), k)'
  <2>1. /\ KeepsStart(e, k) /\ KeepsFinish(e, k) /\ KeepsBound(e, k)
        /\ KeepsStart(Peer(e), k) /\ KeepsFinish(Peer(e), k) /\ KeepsBound(Peer(e), k)
    BY <1>0, <1>2, CalmKeeps DEF Settled
  <2>2. Flowing(e, k)'
    BY <1>2, <2>1, FlowStands DEF FlowInv
  <2>3. Flowing(Peer(e), k)'
    BY <1>0, <1>2, <2>1, FlowPasses DEF FlowInv
  <2> QED BY <2>2, <2>3
<1>3. ASSUME NEW x \in Ends, NEW k \in Ch PROVE Flowing(x, k)'
  BY <1>0, <1>2
<1>4. "window" \in Ends /\ "router" \in Ends /\ Peer("router") = "window" /\ Peer("window") = "router"
  BY DEF Ends, Peer
<1>5. ASSUME NEW k \in Ch, Unanswered("window", k)' PROVE Asks(Wire("router")', k)
  <2>1. "window" # e \/ k # ch
    BY <1>5
  <2>2. Unanswered("window", k)
    BY <1>4, <1>5, <2>1 DEF Settled, Calm
  <2>3. Asks(Wire("router"), k)
    BY <1>4, <2>2 DEF FlowInv, Unasked
  <2>4. CASE e = "router"
    BY <2>3, <2>4
  <2>5. CASE e = "window"
    <3>1. f.ch # k
      BY <2>1, <2>5
    <3>2. Asks(Append(Wire("router"), f), k)
      BY <1>4, <2>3, <3>1, WiresTyped, AsksSteps
    <3> QED BY <1>4, <2>5, <3>2
  <2> QED BY <2>4, <2>5 DEF Ends
<1>6. \A k \in Ch : Unasked(k)'
  BY <1>5 DEF Unasked, Asks
<1> QED BY <1>1, <1>3, <1>6 DEF FlowInv

\* What a reader leaves of a queue ends where its chunks ended.
LEMMA FrontReadEnds ==
    ASSUME NEW q \in Seq(Nat \X Nat), q # <<>>, NEW k \in Nat, NEW n \in Nat,
           \A i \in 1..Len(q) : q[i][2] <= n
    PROVE  \A i \in 1..Len(FrontRead(q, k)) : FrontRead(q, k)[i][2] <= n
<1>1. /\ Len(q) \in Nat /\ Len(q) >= 1 /\ Head(q) = q[1] /\ Tail(q) \in Seq(Nat \X Nat)
      /\ Len(Tail(q)) = Len(q) - 1 /\ \A i \in 1..Len(q) - 1 : Tail(q)[i] = q[i + 1] /\ i + 1 \in 1..Len(q)
      /\ 1 \in 1..Len(q)
  OBVIOUS
<1>2. CASE FrontRead(q, k) = Tail(q)
  BY <1>1, <1>2
<1>3. CASE FrontRead(q, k) # Tail(q)
  <2> DEFINE x == <<Head(q)[1] + k, Head(q)[2]>>
             r == <<x>> \o Tail(q)
  <2>1. FrontRead(q, k) = r
    BY <1>3 DEF FrontRead
  <2>2. x[2] = q[1][2]
    BY <1>1
  <2> HIDE DEF x
  <2>3. Len(r) = Len(q) /\ r[1] = x /\ \A i \in 2..Len(q) : r[i] = Tail(q)[i - 1]
    BY <1>1
  <2> DEFINE l == Len(q)
  <2>4. \A i \in 1..l : i = 1 \/ (i \in 2..l /\ i - 1 \in 1..l - 1)
    BY <1>1
  <2> HIDE DEF r
  <2>5. ASSUME NEW i \in 1..l PROVE r[i][2] <= n
    <3>1. CASE i = 1
      BY <1>1, <2>2, <2>3, <3>1
    <3>2. CASE i # 1
      <4>1. r[i] = Tail(q)[i - 1] /\ i - 1 \in 1..l - 1
        BY <2>3, <2>4, <3>2
      <4>2. Tail(q)[i - 1] = q[(i - 1) + 1] /\ (i - 1) + 1 \in 1..l
        BY <1>1, <4>1
      <4> QED BY <4>1, <4>2
    <3> QED BY <3>1, <3>2
  <2> QED BY <2>1, <2>3, <2>5
<1> QED BY <1>2, <1>3

\* A channel's record after a read, and what is owed to the peer for it.
ReadLeaves(c, k, d) ==
    /\ d \in ChanRecord /\ d.inbound = FrontRead(c.inbound, k) /\ d.phase = c.phase
    /\ d.sent = c.sent /\ d.credit = c.credit /\ d.cancelled = c.cancelled
    /\ d.peerClosed = c.peerClosed /\ d.localClose = c.localClose

Repaid(ch, n) == [kind |-> "credit", ch |-> ch, bytes |-> n]

LEMMA ReadChannel ==
    ASSUME LinkInv, NEW e \in Ends, NEW ch \in Ch, NEW k \in 1..CHUNK, Read(e, ch, k)
    PROVE  LET c == table[e].chans[ch]
               n == c.unreturned + k
           IN  \E t : /\ table' = [table EXCEPT ![e] = t] /\ Touches(table[e], t, ch)
                      /\ ReadLeaves(c, k, t.chans[ch])
                      /\ \/ /\ t.ops = table[e].ops
                            /\ t.chans[ch].unreturned = n /\ t.chans[ch].allowance = c.allowance
                         \/ /\ t.ops = Append(table[e].ops, Repaid(ch, n)) /\ ~Closed(c)
                            /\ t.chans[ch].unreturned = 0 /\ t.chans[ch].allowance = c.allowance + n
<1> DEFINE s == table[e]
           c == s.chans[ch]
           in == FrontRead(c.inbound, k)
           n == c.unreturned + k
           d == [c EXCEPT !.unreturned = n, !.inbound = in]
           b == [d EXCEPT !.allowance = @ + d.unreturned, !.unreturned = 0]
           p == Put(s, ch, d)
           m == Repaid(ch, n)
<1>1. /\ user[e][ch] \in {"using", "flushed", "shut"} /\ c.inbound # <<>> /\ k \in Nat
      /\ table' = [table EXCEPT ![e] = IF CreditDue(p, p.chans[ch]) THEN CreditReturned(p, ch) ELSE p]
  <2> DEFINE r == ReadFrom(c, k)
             q == Put(s, ch, r)
  <2>1. /\ user[e][ch] \in {"using", "flushed", "shut"} /\ c.inbound # <<>> /\ k \in Nat
        /\ table' = [table EXCEPT ![e] = IF CreditDue(q, q.chans[ch]) THEN CreditReturned(q, ch) ELSE q]
    BY SizesAssumption DEF Read, Holds
  <2>2. r = d
    BY DEF ReadFrom, FrontRead
  <2> HIDE DEF r, d
  <2>3. q = p
    BY <2>2
  <2> HIDE DEF q, p, c
  <2> QED BY <2>1, <2>3
<1>2. s \in Shape /\ Has(s, ch) /\ c \in ChanRecord /\ c # None
  BY <1>1, UsersChannel
<1>3. c.inbound \in Seq(Nat \X Nat) /\ c.unreturned \in Nat /\ c.allowance \in Nat
  BY <1>2 DEF ChanRecord
<1>4. in \in Seq(Nat \X Nat) /\ n \in Nat /\ c.allowance + n \in Nat
  <2>1. n \in Nat
    BY <1>1, <1>3, SumsOfNumbers
  <2> QED BY <1>1, <1>3, <2>1, FrontReadType, SumsOfNumbers
<1> HIDE DEF in, n
<1>5. ReadLeaves(c, k, d) /\ d.unreturned = n /\ d.allowance = c.allowance
  <2>1. /\ d \in ChanRecord /\ d.inbound = in /\ d.phase = c.phase /\ d.sent = c.sent /\ d.credit = c.credit
        /\ d.cancelled = c.cancelled /\ d.peerClosed = c.peerClosed /\ d.localClose = c.localClose
        /\ d.unreturned = n /\ d.allowance = c.allowance
    BY <1>2, <1>4 DEF ChanRecord
  <2> HIDE DEF d
  <2> QED BY <2>1 DEF ReadLeaves, in
<1>6. ReadLeaves(c, k, b) /\ b.unreturned = 0 /\ b.allowance = c.allowance + n
  <2>1. d \in ChanRecord /\ d.unreturned = n /\ d.allowance = c.allowance /\ c.allowance + n \in Nat /\ 0 \in Nat
    BY <1>4, <1>5 DEF ReadLeaves
  <2> HIDE DEF d, c
  <2>2. /\ b \in ChanRecord /\ b.inbound = d.inbound /\ b.phase = d.phase /\ b.sent = d.sent /\ b.credit = d.credit
        /\ b.cancelled = d.cancelled /\ b.peerClosed = d.peerClosed /\ b.localClose = d.localClose
        /\ b.unreturned = 0 /\ b.allowance = c.allowance + n
    BY <2>1 DEF ChanRecord
  <2> HIDE DEF b
  <2> QED BY <1>5, <2>2 DEF ReadLeaves
<1>7. Touches(s, p, ch) /\ p.chans[ch] = d /\ p.ops = s.ops /\ p \in Shape
  <2>1. s \in Shape /\ d \in ChanRecord
    BY <1>2, <1>5 DEF ReadLeaves
  <2> HIDE DEF s, b
  <2> QED BY <2>1, PutTouches DEF Touches
<1>8. CreditReturned(p, ch) = Queue(Put(p, ch, b), m)
  BY <1>5, <1>7 DEF CreditReturned, Repaid
<1>9. m \in Op
  BY <1>4, MessagesMade DEF Repaid
<1>10. Closed(d) <=> Closed(c)
  BY <1>5 DEF ReadLeaves, Closed
<1> HIDE DEF b, m, p, d
<1>11. /\ Touches(p, Put(p, ch, b), ch) /\ Put(p, ch, b).chans[ch] = b /\ Put(p, ch, b) \in Shape
       /\ Put(p, ch, b).ops = p.ops
  BY <1>6, <1>7, PutTouches DEF Touches, ReadLeaves
<1>12. /\ Touches(Put(p, ch, b), CreditReturned(p, ch), ch) /\ CreditReturned(p, ch).chans[ch] = b
       /\ CreditReturned(p, ch).ops = Append(s.ops, m)
  <2> DEFINE y == Put(p, ch, b)
  <2>1. y \in Shape /\ y.chans[ch] = b /\ y.ops = s.ops /\ CreditReturned(p, ch) = Queue(y, m)
    BY <1>7, <1>8, <1>11
  <2> HIDE DEF y
  <2>2. Touches(y, Queue(y, m), ch) /\ Queue(y, m).chans = y.chans /\ Queue(y, m).ops = Append(y.ops, m)
    BY <1>9, <2>1, QueueTouches
  <2>3. Touches(y, CreditReturned(p, ch), ch) /\ CreditReturned(p, ch).chans[ch] = b
        /\ CreditReturned(p, ch).ops = Append(s.ops, m)
    BY <2>1, <2>2
  <2> QED BY <2>3 DEF y
<1>13. Touches(s, CreditReturned(p, ch), ch)
  BY <1>7, <1>11, <1>12, TouchesTwice
<1> DEFINE After(t) ==
             /\ table' = [table EXCEPT ![e] = t] /\ Touches(s, t, ch)
             /\ ReadLeaves(c, k, t.chans[ch])
             /\ \/ /\ t.ops = s.ops
                   /\ t.chans[ch].unreturned = c.unreturned + k /\ t.chans[ch].allowance = c.allowance
                \/ /\ t.ops = Append(s.ops, Repaid(ch, c.unreturned + k)) /\ ~Closed(c)
                   /\ t.chans[ch].unreturned = 0 /\ t.chans[ch].allowance = c.allowance + (c.unreturned + k)
<1>14. ASSUME CreditDue(p, p.chans[ch]) PROVE \E t : After(t)
  <2>1. ~Closed(c)
    BY <1>7, <1>10, <1>14 DEF CreditDue
  <2>2. After(CreditReturned(p, ch))
    BY <1>1, <1>6, <1>12, <1>13, <1>14, <2>1 DEF m, n
  <2> QED BY <2>2
<1>15. ASSUME ~CreditDue(p, p.chans[ch]) PROVE \E t : After(t)
  <2>1. After(p)
    BY <1>1, <1>5, <1>7, <1>15 DEF n
  <2> QED BY <2>1
<1>16. \E t : After(t)
  <2> HIDE DEF After
  <2> QED BY <1>14, <1>15
<1> QED BY <1>16

LEMMA ReadFlow ==
    ASSUME LinkInv, StreamInv, FlowInv, NEW e \in Ends, NEW ch \in Ch, NEW k \in 1..CHUNK, Read(e, ch, k)
    PROVE  FlowInv'
<1> DEFINE c == table[e].chans[ch]
           n == c.unreturned + k
           g == got[e][ch]
<1>1. /\ user[e][ch] \in {"using", "flushed", "shut"} /\ c.inbound # <<>> /\ k \in Nat /\ ~c.cancelled
      /\ got' = [got EXCEPT ![e][ch] = @ + k] /\ UNCHANGED pipe
      /\ k <= Head(c.inbound)[2] - Head(c.inbound)[1]
  BY SizesAssumption DEF Read, Holds
<1>2. /\ Has(table[e], ch) /\ c \in ChanRecord /\ c # None /\ g \in Nat /\ Chain(c.inbound, g)
      /\ Slot(e, c, user[e][ch], table[e].down, accepted[e][ch])
  BY <1>1, UsersChannel, HeldChannel
<1>3. c.phase = "open"
  BY <1>1, <1>2 DEF Slot, Served
<1>4. Opened(e, ch) /\ Alive(e, ch) /\ Local(e, ch)
  BY <1>2, <1>3 DEF Opened, Alive, FlowInv
<1>5. c.inbound \in Seq(Nat \X Nat) /\ c.unreturned \in Nat /\ c.allowance \in Nat /\ n \in Nat
  <2>1. c.inbound \in Seq(Nat \X Nat) /\ c.unreturned \in Nat /\ c.allowance \in Nat
    BY <1>2 DEF ChanRecord
  <2> QED BY <1>1, <2>1, SumsOfNumbers
<1>6. PICK t : /\ table' = [table EXCEPT ![e] = t] /\ Touches(table[e], t, ch)
               /\ ReadLeaves(c, k, t.chans[ch])
               /\ \/ /\ t.ops = table[e].ops
                     /\ t.chans[ch].unreturned = n /\ t.chans[ch].allowance = c.allowance
                  \/ /\ t.ops = Append(table[e].ops, Repaid(ch, n)) /\ ~Closed(c)
                     /\ t.chans[ch].unreturned = 0 /\ t.chans[ch].allowance = c.allowance + n
  BY ReadChannel
<1> DEFINE d == t.chans[ch]
<1>7. /\ table'[e] = t /\ (\A x \in Ends : x # e => table'[x] = table[x]) /\ t.highest = table[e].highest
      /\ got'[e][ch] = g + k /\ Only(got, got', e, ch)
  BY <1>1, <1>6, Histories DEF Only, Touches
<1>8. \A x \in Ends, y \in Ch : x # e \/ y # ch => Settled(x, y)
  BY <1>6, <1>7, OneSettled
<1>9. /\ d # None /\ d \in ChanRecord /\ d.inbound = FrontRead(c.inbound, k) /\ d.phase = "open"
      /\ d.sent = c.sent /\ d.credit = c.credit /\ d.cancelled = c.cancelled
      /\ d.peerClosed = c.peerClosed /\ d.localClose = c.localClose
  BY <1>3, <1>6, ChansAreNotNone DEF ReadLeaves
<1>10. Place(e, ch)' = Place(e, ch)
  <2> DEFINE q == c.inbound
             z == FrontRead(q, k)
  <2>1. q \in Seq(Nat \X Nat) /\ q # <<>> /\ Chain(q, g) /\ g \in Nat /\ k \in Nat
    BY <1>1, <1>2, <1>5
  <2>2. d.inbound = z /\ d # None /\ c # None
    BY <1>2, <1>9
  <2> HIDE DEF z, q, g
  <2>3. (IF z # <<>> THEN z[Len(z)][2] ELSE g + k) = q[Len(q)][2]
    BY <2>1, FrontReadChain DEF z
  <2> HIDE DEF c, d
  <2>4. Position(d, g + k) = Position(c, g)
    BY <2>1, <2>2, <2>3 DEF Position, q
  <2> QED BY <1>7, <2>4 DEF Place, c, d, g
<1>11. Place(e, ch) \in Nat /\ g + k <= Place(e, ch)
  <2> DEFINE q == c.inbound
  <2>0. Place(e, ch) \in Nat
    BY PlaceTyped
  <2>1. q \in Seq(Nat \X Nat) /\ q # <<>> /\ q[1][1] = g
    BY <1>1, <1>2, <1>5 DEF Chain
  <2>a. k <= Head(q)[2] - Head(q)[1] /\ (\A i \in 1..Len(q) : q[i][2] <= Place(e, ch)) /\ k \in Nat /\ g \in Nat
    BY <1>1, <1>2, <1>4 DEF Local
  <2> HIDE DEF q, g
  <2>2. Head(q) = q[1] /\ q[1] \in Nat \X Nat /\ 1 \in 1..Len(q)
    BY <2>1
  <2>3. q[1][1] \in Nat /\ q[1][2] \in Nat
    BY <2>2
  <2>4. q[1][2] <= Place(e, ch)
    BY <2>2, <2>a
  <2>5. k <= q[1][2] - q[1][1]
    BY <2>2, <2>a
  <2> QED BY <2>0, <2>1, <2>3, <2>4, <2>5, <2>a
<1>12. \A i \in 1..Len(d.inbound) : d.inbound[i][2] <= Place(e, ch)
  <2>1. \A i \in 1..Len(c.inbound) : c.inbound[i][2] <= Place(e, ch)
    BY <1>2, <1>4 DEF Local
  <2> DEFINE q == c.inbound
  <2>2. q \in Seq(Nat \X Nat) /\ q # <<>> /\ \A i \in 1..Len(q) : q[i][2] <= Place(e, ch)
    BY <1>1, <1>5, <2>1
  <2> HIDE DEF q
  <2>3. \A i \in 1..Len(FrontRead(q, k)) : FrontRead(q, k)[i][2] <= Place(e, ch)
    BY <1>1, <1>11, <2>2, FrontReadEnds
  <2> QED BY <1>9, <2>3 DEF q
<1>13. Place(e, ch) + c.unreturned + c.allowance = g + WINDOW
  BY <1>2, <1>3, <1>4 DEF Local
<1>14. Opened(e, ch)' /\ Has(table'[e], ch) /\ Alive(e, ch)'
  BY <1>7, <1>9 DEF Opened, Has, Alive
<1>15. /\ SentBy(e, ch)' = SentBy(e, ch) /\ Spend(e, ch)' = Spend(e, ch)
       /\ Room(e, ch) = Place(e, ch) + c.allowance /\ Room(e, ch)' = Place(e, ch) + d.allowance
  BY <1>2, <1>4, <1>7, <1>9, <1>10, <1>14 DEF SentBy, Spend, Room
<1>16. (Waiting(e, ch)' => Waiting(e, ch)) /\ (Unanswered(e, ch)' <=> Unanswered(e, ch)) /\ ~Refused(e, ch)'
  BY <1>2, <1>3, <1>7, <1>9, <1>14 DEF Waiting, Takes, Closed, Unanswered, Opened, Refused
<1>17. ASSUME d.allowance + d.unreturned = c.allowance + n PROVE Local(e, ch)'
  <2>1. d.allowance \in Nat /\ d.unreturned \in Nat
    BY <1>9 DEF ChanRecord
  <2>2. Place(e, ch)' + d.unreturned + d.allowance = (g + k) + WINDOW
    <3>a. d.allowance + d.unreturned = c.allowance + (c.unreturned + k)
      BY <1>17
    <3> DEFINE p == Place(e, ch)
               v == d.unreturned
               b == d.allowance
    <3>b. p \in Nat /\ g \in Nat /\ k \in Nat /\ c.unreturned \in Nat /\ c.allowance \in Nat /\ v \in Nat /\ b \in Nat
          /\ WINDOW \in Nat
      BY <1>1, <1>2, <1>5, <1>11, <2>1, SizesAreNumbers
    <3>c. p + c.unreturned + c.allowance = g + WINDOW /\ b + v = c.allowance + (c.unreturned + k)
      BY <1>13, <3>a
    <3> HIDE DEF d, c, g, p, v, b
    <3>1. p + v + b = (g + k) + WINDOW
      BY <3>b, <3>c
    <3> QED BY <1>10, <3>1 DEF p, v, b
  <2> HIDE DEF d
  <2> QED BY <1>7, <1>9, <1>10, <1>12, <2>2 DEF Local, d
<1> HIDE DEF d, c, g, n
<1>18. CASE t.ops = table[e].ops /\ d.unreturned = n /\ d.allowance = c.allowance
  <2>1. Calm(e, ch)
    BY <1>4, <1>7, <1>10, <1>14, <1>15, <1>16, <1>18 DEF Calm, Even, NoAnswer
  <2>2. Local(e, ch)'
    BY <1>5, <1>17, <1>18
  <2>3. \A x \in Ends, y \in Ch : Settled(x, y)
    BY <1>8, <2>1, <2>2 DEF Settled
  <2>4. \A x \in Ends : table'[x].ops = table[x].ops
    BY <1>7, <1>18
  <2> QED BY <1>1, <2>3, <2>4, WiresStand, SettledStep
<1>19. CASE /\ t.ops = Append(table[e].ops, Repaid(ch, n)) /\ ~Closed(c)
            /\ d.unreturned = 0 /\ d.allowance = c.allowance + n
  <2> DEFINE f == Repaid(ch, n)
             p == Peer(e)
  <2>1. f \in Message /\ f.kind = "credit" /\ f.ch = ch /\ f.bytes = n
    BY <1>5, MessagesMade DEF Repaid
  <2>2. p \in Ends /\ p # e /\ Peer(p) = e
    BY PeerFacts
  <2> HIDE DEF f
  <2>3. Wire(p)' = Append(Wire(p), f)
    BY <1>1, <1>7, <1>19, <2>1, WireGains DEF f
  <2>4. Wire(e)' = Wire(e)
    BY <1>1, <1>7, <2>2 DEF Wire
  <2> HIDE DEF p
  <2>5. Local(e, ch)'
    BY <1>5, <1>17, <1>19
  <2>6. Room(e, ch)' = Room(e, ch) + n /\ Room(e, ch)' = (g + k) + WINDOW /\ Room(e, ch) \in Nat
    <3>1. d.allowance \in Nat /\ 0 \in Nat
      BY <1>9 DEF ChanRecord
    <3> DEFINE r == Place(e, ch)
               b == d.allowance
    <3>2. /\ r \in Nat /\ g \in Nat /\ k \in Nat /\ c.unreturned \in Nat /\ c.allowance \in Nat /\ b \in Nat
          /\ WINDOW \in Nat /\ n \in Nat
      BY <1>1, <1>2, <1>5, <1>11, <3>1, SizesAreNumbers
    <3>3. /\ r + c.unreturned + c.allowance = g + WINDOW /\ b = c.allowance + n /\ n = c.unreturned + k
          /\ Room(e, ch) = r + c.allowance /\ Room(e, ch)' = r + b
      BY <1>13, <1>15, <1>19 DEF n
    <3> HIDE DEF r, b
    <3> QED BY <3>2, <3>3
  <2>7. Settled(p, ch)
    BY <1>8, <2>2
  <2>8. KeepsStart(p, ch) /\ KeepsFinish(e, ch) /\ KeepsBound(p, ch)
    BY <2>2, <2>7, CalmKeeps DEF Settled
  <2>9. ASSUME NEW x \in {"window", "router"}, NEW a \in Tally, TopAt(x, e, ch, a) PROVE TopAt(x, e, ch, a)'
    BY <1>4, <1>7, <1>16, <2>9 DEF TopAt
  <2>10. KeepsStart(e, ch)
    BY <1>4, <1>10, <1>15, <1>16, <2>9 DEF KeepsStart, Start, Ends
  <2>11. KeepsBound(e, ch)
    <3> SUFFICES ASSUME NEW z \in Tally, Bound(e, ch, z) PROVE Bound(e, ch, z)'
      BY DEF KeepsBound
    <3>1. z.pos <= Room(e, ch) /\ z.lim <= SentBy(e, ch) + WINDOW /\ z.pos \in Nat
      BY <1>4 DEF Bound, Tally
    <3>2. z.pos <= Room(e, ch)'
      BY <1>5, <2>6, <3>1
    <3> QED BY <1>15, <3>1, <3>2 DEF Bound
  <2>12. Flowing(e, ch)'
    BY <2>4, <2>8, <2>10, <2>11, FlowStands DEF FlowInv
  <2>13. Alive(p, ch) => g + k <= SentBy(p, ch)
    <3>1. Waiting(e, ch)
      BY <1>1, <1>2, <1>19 DEF Waiting, Takes, c
    <3>2. Alive(p, ch) => Place(e, ch) <= SentBy(p, ch)
      BY <1>4, <3>1, CreditIsBacked DEF p
    <3>3. SentBy(p, ch) \in Nat
      BY <2>2, EndTyped
    <3> QED BY <1>1, <1>2, <1>11, <3>2, <3>3
  <2>14. ASSUME NEW z \in Tally, Finish(p, ch, z), Bound(p, ch, z)
         PROVE  \E b \in Tally : Moves(p, ch, z, f, b) /\ Below(z, b) /\ Finish(p, ch, b)' /\ Bound(p, ch, b)'
    <3>0. z.top \in Nat /\ z.pos \in Nat /\ z.lim \in Nat /\ z.lim + n \in Nat
      BY <1>5, SumsOfNumbers DEF Tally
    <3>1. PICK b \in Tally : b.top = z.top /\ b.pos = z.pos /\ b.lim = z.lim + n
      <4>1. [top |-> z.top, pos |-> z.pos, lim |-> z.lim + n] \in Tally
        BY <3>0 DEF Tally
      <4> QED BY <4>1
    <3>2. Known(p, ch, z)
      BY <1>4, <2>14, MaySpeak DEF p
    <3>3. Moves(p, ch, z, f, b)
      BY <2>1, <3>1, <3>2 DEF Moves, Becomes
    <3>4. Below(z, b)
      BY <1>5, <3>0, <3>1 DEF Below
    <3>5. TopAt(p, e, ch, b)'
      <4>1. TopAt(p, e, ch, z)
        BY <2>2, <2>14 DEF Finish
      <4>2. TopAt(p, e, ch, z)'
        BY <2>2, <2>9, <4>1 DEF Ends
      <4> QED BY <3>1, <4>2 DEF TopAt
    <3>6. z.pos = SentBy(e, ch) /\ z.lim = Room(e, ch)
      BY <1>4, <2>2, <2>14 DEF Finish
    <3>7. Finish(p, ch, b)'
      BY <1>15, <2>2, <2>6, <3>1, <3>5, <3>6 DEF Finish
    <3>8. ASSUME Alive(p, ch)' PROVE b.pos <= Room(p, ch)' /\ b.lim <= SentBy(p, ch)' + WINDOW
      <4>1. Alive(p, ch) /\ Room(p, ch)' = Room(p, ch) /\ SentBy(p, ch)' = SentBy(p, ch)
        BY <2>7, <3>8 DEF Settled, Calm, Even, NoAnswer
      <4>2. z.pos <= Room(p, ch)
        BY <2>14, <4>1 DEF Bound
      <4>3. b.lim = (g + k) + WINDOW /\ g + k <= SentBy(p, ch)
        BY <2>6, <2>13, <3>1, <3>6, <4>1
      <4>4. SentBy(p, ch) \in Nat
        BY <2>2, EndTyped
      <4> QED BY <1>1, <1>2, <3>1, <4>1, <4>2, <4>3, <4>4, SizesAreNumbers
    <3> QED BY <3>3, <3>4, <3>7, <3>8 DEF Bound
  <2>15. Flowing(p, ch)'
    <3> HIDE DEF Tally
    <3> QED BY <2>1, <2>2, <2>3, <2>8, <2>14, FlowSends DEF FlowInv
  <2>16. ~Unanswered(e, ch)'
    BY <1>2, <1>3, <1>4, <1>16, EndTyped DEF Unanswered, c
  <2> QED BY <1>8, <2>1, <2>3, <2>4, <2>5, <2>12, <2>15, <2>16, SendsStep DEF p
<1> QED BY <1>6, <1>18, <1>19 DEF d

\* The router answers an open: it granted the channel, or it does not hold it.
LEMMA AnswerSent ==
    ASSUME LinkInv, FlowInv, NEW ch \in Ch, Unanswered("router", ch), NEW f \in Message, f.ch = ch,
           f.kind \in {"opened", "refused"},
           Wire("window")' = Append(Wire("window"), f),
           NoAnswer("router", ch) \/ f.kind = "opened", ~Unanswered("router", ch)', ~Refused("router", ch)',
           Even("router", ch), Settled("window", ch)
    PROVE  Flowing("window", ch)'
<1> DEFINE top == IF f.kind = "opened" THEN 1 ELSE 2
<1>1. "router" \in Ends /\ "window" \in Ends /\ Peer("router") = "window" /\ Peer("window") = "router"
  BY DEF Ends, Peer
<1>2. KeepsStart("window", ch) /\ KeepsBound("window", ch)
  BY <1>1, CalmKeeps DEF Settled
<1>3. Opened("router", ch)' => f.kind = "opened"
  <2>1. ~Opened("router", ch)
    BY <1>1, EndTyped DEF Unanswered, Opened
  <2> QED BY <2>1 DEF NoAnswer
<1>4. ASSUME NEW z \in Tally, Finish("window", ch, z), Bound("window", ch, z)
      PROVE  \E b \in Tally : /\ Moves("window", ch, z, f, b) /\ Below(z, b)
                              /\ Finish("window", ch, b)' /\ Bound("window", ch, b)'
  <2>1. PICK b \in Tally : b.top = top /\ b.pos = z.pos /\ b.lim = z.lim
    <3>1. [top |-> top, pos |-> z.pos, lim |-> z.lim] \in Tally
      BY DEF Tally
    <3> QED BY <3>1
  <2>2. z.top = 0
    BY <1>1, <1>4 DEF Finish, TopAt
  <2>3. Moves("window", ch, z, f, b)
    BY <2>1, <2>2 DEF Moves, Becomes
  <2>4. Below(z, b)
    BY <2>1, <2>2 DEF Below, Tally
  <2>5. TopAt("window", "router", ch, b)'
    BY <1>3, <2>1 DEF TopAt
  <2>6. Finish("window", ch, b)'
    BY <1>1, <1>4, <2>1, <2>5, EvenKeeps
  <2>7. Bound("window", ch, b)'
    BY <1>2, <1>4, <2>1 DEF KeepsBound, Bound
  <2> QED BY <2>3, <2>4, <2>6, <2>7
<1> HIDE DEF Tally
<1> QED BY <1>1, <1>2, <1>4, FlowSends DEF FlowInv

\* A connect that is made grants the channel; one that is not refuses it.
LEMMA ConnectedTable ==
    ASSUME LinkInv, FlowInv, NEW ch \in Ch, NEW ok \in BOOLEAN, Connected(ch, ok)
    PROVE  LET c == table["router"].chans[ch]
               f == [kind |-> IF ok THEN "opened" ELSE "refused", ch |-> ch]
           IN  /\ Has(table["router"], ch) /\ c \in ChanRecord /\ c.phase = "opening" /\ c.sent = 0
               /\ \E t : /\ table' = [table EXCEPT !["router"] = t] /\ Touches(table["router"], t, ch)
                         /\ t.ops = Append(table["router"].ops, f)
                         /\ t.chans[ch] = IF ok THEN Granted(c) ELSE None
<1> DEFINE e == "router"
           t == table[e]
           c == t.chans[ch]
           f == [kind |-> IF ok THEN "opened" ELSE "refused", ch |-> ch]
           d == IF ok THEN Granted(c) ELSE None
           s == Put(t, ch, d)
<1>1. e \in Ends /\ Has(t, ch) /\ c.phase = "opening"
  BY DEF Connected, Ends
<1>2. /\ t \in Shape /\ c \in ChanRecord /\ c # None
  BY <1>1, HeldIsOpened DEF Has
<1>3. c.sent = 0 /\ c.localClose = "no"
  <2>1. Slot(e, c, user[e][ch], t.down, accepted[e][ch])
    BY <1>1 DEF LinkInv, Slots
  <2>2. c.sent \in Nat /\ c.queued \in Nat /\ c.sent <= c.queued /\ c.queued <= 0
    BY <1>1, <1>2, <2>1 DEF Slot, Written, ChanRecord
  <2> QED BY <1>1, <1>2, <2>1, <2>2 DEF Slot, Closing
<1>4. ~Closed(c)
  BY <1>1, <1>3 DEF FlowInv, Local, Closed
<1>5. table' = [table EXCEPT ![e] = Queue(s, f)]
  BY <1>4 DEF Connected
<1>6. f \in Op
  BY MessagesMade
<1>7. Granted(c) \in ChanRecord
  BY <1>2, SizesAssumption DEF ChanRecord, Granted
<1> HIDE DEF f, e, d
<1>8. Touches(t, s, ch) /\ s.chans[ch] = d /\ s \in Shape /\ s.ops = t.ops
  <2>1. t \in Shape /\ d \in ChanRecord \cup {None}
    BY <1>2, <1>7 DEF d
  <2> HIDE DEF t, c
  <2> QED BY <2>1, PutTouches DEF Touches
<1>9. Touches(s, Queue(s, f), ch) /\ Queue(s, f).chans = s.chans /\ Queue(s, f).ops = Append(s.ops, f)
  BY <1>6, <1>8, QueueTouches
<1>10. Touches(t, Queue(s, f), ch) /\ Queue(s, f).chans[ch] = d /\ Queue(s, f).ops = Append(t.ops, f)
  BY <1>8, <1>9, TouchesTwice
<1> QED BY <1>1, <1>2, <1>3, <1>5, <1>10 DEF e, d, f

LEMMA ConnectedFlow ==
    ASSUME LinkInv, FlowInv, NEW ch \in Ch, NEW ok \in BOOLEAN, Connected(ch, ok)
    PROVE  FlowInv'
<1> DEFINE e == "router"
           c == table[e].chans[ch]
           f == [kind |-> IF ok THEN "opened" ELSE "refused", ch |-> ch]
<1>1. /\ e \in Ends /\ "window" \in Ends /\ Peer(e) = "window" /\ Peer("window") = e
      /\ UNCHANGED <<pipe, got>>
  BY DEF Connected, Ends, Peer
<1>2. /\ Has(table[e], ch) /\ c \in ChanRecord /\ c.phase = "opening" /\ c.sent = 0
  BY ConnectedTable
<1>3. PICK t : /\ table' = [table EXCEPT ![e] = t] /\ Touches(table[e], t, ch)
               /\ t.ops = Append(table[e].ops, f) /\ t.chans[ch] = IF ok THEN Granted(c) ELSE None
  BY ConnectedTable
<1>4. f \in Message /\ f.ch = ch /\ f.kind \in {"opened", "refused"} /\ (ok <=> f.kind = "opened")
  BY MessagesMade
<1> HIDE DEF f
<1>5. /\ table'[e] = t /\ (\A x \in Ends : x # e => table'[x] = table[x]) /\ t.highest = table[e].highest
  BY <1>1, <1>3, Histories DEF Touches
<1>6. Only(got, got', e, ch)
  BY <1>1 DEF Only
<1> HIDE DEF e
<1>7. \A x \in Ends, k \in Ch : x # e \/ k # ch => Settled(x, k)
  BY <1>1, <1>3, <1>6, OneSettled
<1>8. /\ ch <= table[e].highest /\ ~(ch > table[e].highest)
  BY <1>1, <1>2, EndTyped
<1>9. /\ got[e][ch] = 0 /\ c.inbound = <<>> /\ c.unreturned = 0 /\ c.peerClosed = "no" /\ Place(e, ch) = 0
  BY <1>1, <1>2 DEF FlowInv, Local, Place, Position
<1> DEFINE d == Granted(c)
<1>10. /\ d.phase = "open" /\ d.inbound = c.inbound /\ d.credit = WINDOW /\ d.allowance = WINDOW
       /\ d.unreturned = c.unreturned /\ d.sent = c.sent /\ (Takes(d) => Takes(c)) /\ d # None /\ c # None
  <2>1. /\ d.phase = "open" /\ d.inbound = c.inbound /\ d.credit = WINDOW /\ d.allowance = WINDOW
        /\ d.unreturned = c.unreturned /\ d.sent = c.sent /\ d.cancelled = c.cancelled
        /\ d.peerClosed = c.peerClosed /\ d.localClose = c.localClose /\ d \in ChanRecord
    BY <1>2, SizesAssumption DEF ChanRecord, Granted
  <2> HIDE DEF d
  <2> QED BY <1>2, <2>1, ChansAreNotNone DEF Takes, Closed
<1> HIDE DEF d, c
<1>11. ok => t.chans[ch] = d
  BY <1>3 DEF d, c
<1>12. ~ok => t.chans[ch] = None
  BY <1>3
<1>13. Place(e, ch)' = 0
  BY <1>1, <1>5, <1>9, <1>10, <1>11, <1>12 DEF Place, Position
<1>14. Even(e, ch) /\ Local(e, ch)' /\ ~Unanswered(e, ch)' /\ ~Refused(e, ch)'
  <2>1. CASE ok
    <3>1. Opened(e, ch)' /\ ~Opened(e, ch) /\ Has(table'[e], ch)
      BY <1>2, <1>5, <1>10, <1>11, <2>1 DEF Opened, Has, c
    <3>2. SentBy(e, ch)' = 0 /\ SentBy(e, ch) = 0
      BY <1>2, <1>5, <1>10, <1>11, <2>1, <3>1 DEF SentBy, c
    <3>3. Spend(e, ch)' = WINDOW /\ Room(e, ch)' = WINDOW
      <4>1. Spend(e, ch)' = 0 + WINDOW /\ Room(e, ch)' = 0 + WINDOW
        BY <1>2, <1>5, <1>10, <1>11, <1>13, <2>1, <3>1 DEF Spend, Room, c
      <4> QED BY <4>1, SizesAreNumbers
    <3>4. Spend(e, ch) = WINDOW /\ Room(e, ch) = WINDOW
      BY <3>1 DEF Spend, Room
    <3>5. Alive(e, ch)
      BY <1>2 DEF Alive
    <3>6. Waiting(e, ch)' => Waiting(e, ch)
      BY <1>5, <1>8, <1>10, <1>11, <2>1 DEF Waiting, c
    <3>7. Even(e, ch)
      BY <1>9, <1>13, <3>2, <3>3, <3>4, <3>5, <3>6 DEF Even
    <3>8. ~Unanswered(e, ch)' /\ ~Refused(e, ch)'
      BY <1>5, <1>8, <1>10, <1>11, <2>1 DEF Unanswered, Refused
    <3>9. Local(e, ch)'
      <4>1. 0 + 0 + WINDOW = 0 + WINDOW /\ Len(c.inbound) = 0
        BY <1>9, SizesAreNumbers
      <4> QED BY <1>1, <1>5, <1>9, <1>10, <1>11, <1>13, <2>1, <4>1 DEF Local
    <3> QED BY <3>7, <3>8, <3>9
  <2>2. CASE ~ok
    <3>1. ~Has(table'[e], ch) /\ ~Alive(e, ch)' /\ ~Waiting(e, ch)'
      BY <1>5, <1>8, <1>12, <2>2 DEF Has, Alive, Waiting, Takes
    <3> QED BY <1>5, <1>8, <3>1 DEF Even, Local, Unanswered, Refused
  <2> QED BY <2>1, <2>2
<1>15. NoAnswer(e, ch) \/ f.kind = "opened"
  <2>1. CASE ~ok
    BY <1>5, <1>12, <2>1 DEF NoAnswer, Opened, Refused, Has
  <2> QED BY <1>4, <2>1
<1>16. Unanswered(e, ch)
  BY <1>2 DEF Unanswered, c
<1>17. Wire("window")' = Append(Wire("window"), f) /\ Wire(e)' = Wire(e)
  <2>1. Wire("window")' = Append(Wire("window"), f)
    BY <1>1, <1>3, <1>4, <1>5, WireGains
  <2>2. "window" # e
    BY DEF e
  <2> QED BY <1>1, <1>5, <2>1, <2>2 DEF Wire
<1>18. Settled("window", ch)
  BY <1>1, <1>7 DEF e
<1>19. Flowing("window", ch)'
  BY <1>4, <1>14, <1>15, <1>16, <1>17, <1>18, AnswerSent DEF e
<1>20. Flowing(e, ch)'
  <2>1. KeepsFinish(e, ch)
    BY <1>1, <1>18, CalmKeeps DEF Settled
  <2>2. KeepsBound(e, ch)
    BY <1>1, <1>14, EvenKeeps
  <2>3. KeepsStart(e, ch)
    <3>1. ASSUME NEW a \in Tally, Start(e, ch, a) PROVE Start(e, ch, a)'
      <4>1. TopAt(e, e, ch, a)' /\ a.lim <= a.lim
        BY <1>5, <3>1 DEF TopAt, Start, e, Tally
      <4> QED BY <1>1, <1>14, <3>1, <4>1, EvenKeeps
    <3> QED BY <3>1 DEF KeepsStart
  <2> QED BY <1>1, <1>17, <2>1, <2>2, <2>3, FlowStands DEF FlowInv
<1> QED BY <1>1, <1>4, <1>7, <1>14, <1>17, <1>19, <1>20, SendsStep DEF e

\* A frame owed that goes into the pipe leaves the wire as it was.
LEMMA OpGoes ==
    ASSUME NEW q \in Seq(Message), NEW r \in Seq(Message), r # <<>>
    PROVE  Append(q, Head(r)) \o Tail(r) = q \o r
OBVIOUS

LEMMA NothingOwed ==
    ASSUME NEW q \in Seq(Message)
    PROVE  q \o <<>> = q
OBVIOUS

\* A channel's turn: what it sends, and its counts after.
DataLeaves(c, k, d) ==
    /\ d # None /\ d.phase = c.phase /\ d.inbound = c.inbound /\ d.sent = c.sent + k
    /\ d.credit \in Nat /\ d.sent \in Nat /\ d.sent + d.credit = c.sent + c.credit
    /\ d.allowance = c.allowance /\ d.unreturned = c.unreturned /\ (Takes(d) => Takes(c))
    /\ d.peerClosed = c.peerClosed

LEMMA TurnCounts ==
    ASSUME LinkInv, NEW e \in Ends, NEW ch \in Ch, Has(table[e], ch), ~table[e].down,
           CloseReady(table[e].chans[ch]) \/ DataReady(table[e].chans[ch])
    PROVE  LET c == table[e].chans[ch]
               s == ChannelSent(table[e], ch)
               f == ChannelFrame(table[e], ch)
           IN  /\ f.ch = ch /\ f \in Message /\ Touches(table[e], s, ch) /\ s.ops = table[e].ops
               /\ c.phase = "open" /\ c \in ChanRecord
               /\ \/ f.kind = "close" /\ Flags(c, s.chans[ch])
                  \/ /\ f.kind = "data" /\ f.lo = c.sent
                     /\ \E k \in Nat : /\ f.hi = c.sent + k /\ k <= c.credit
                                       /\ DataLeaves(c, k, s.chans[ch])
<1> DEFINE t == table[e]
           c == t.chans[ch]
           v == [t EXCEPT !.turn = ch]
           s == ChannelSent(t, ch)
           f == ChannelFrame(t, ch)
<1>1. /\ t \in Shape /\ c \in ChanRecord /\ c # None /\ v \in Shape /\ v.chans = t.chans /\ v.ops = t.ops
      /\ user[e][ch] \in UserType /\ t.down \in BOOLEAN /\ accepted[e][ch] \in Nat
  BY HeldIsOpened, Histories DEF Has, Shape
<1>2. Slot(e, c, user[e][ch], t.down, accepted[e][ch])
  BY DEF LinkInv, Slots
<1>3. c.phase = "open"
  BY <1>1, <1>2 DEF Slot, Closing, CloseReady, DataReady
<1>4. Touches(t, s, ch) /\ f \in Message
  BY TurnSlot
<1>5. CASE CloseReady(c)
  <2> DEFINE d == Woken(OutboundCleared([c EXCEPT !.closeSent = TRUE]))
  <2>1. f = [kind |-> "close", ch |-> ch, reason |-> c.localClose] /\ s = Reaped(Put(v, ch, d), ch)
    BY <1>5 DEF ChannelFrame, ChannelSent
  <2>2. f.kind = "close" /\ f.ch = ch
    BY <2>1
  <2>3. /\ d \in ChanRecord /\ d.inbound = c.inbound /\ d.sent = c.sent /\ d.phase = c.phase
        /\ d.cancelled = c.cancelled /\ d.peerClosed = c.peerClosed /\ d.localClose = c.localClose
        /\ d.allowance = c.allowance /\ d.unreturned = c.unreturned /\ d.credit = c.credit
    BY <1>1 DEF Woken, OutboundCleared, ChanRecord
  <2> HIDE DEF d, v, f, s
  <2>4. Flags(c, d) /\ Flags(c, None)
    BY <1>1, <1>3, <2>3, ChansAreNotNone DEF Flags, Takes, Closed
  <2>5. Put(v, ch, d) \in Shape /\ Put(v, ch, d).chans[ch] = d /\ Put(v, ch, d).ops = v.ops
    BY <1>1, <2>3, PutTouches DEF Touches
  <2>6. s.chans[ch] \in {d, None} /\ s.ops = t.ops
    <3>1. Put(Put(v, ch, d), ch, None).chans[ch] = None /\ Put(Put(v, ch, d), ch, None).ops = Put(v, ch, d).ops
      BY <2>5, PutTouches
    <3> QED BY <1>1, <2>1, <2>5, <3>1 DEF Reaped
  <2> QED BY <1>1, <1>3, <1>4, <2>2, <2>4, <2>6 DEF f, s
<1>6. CASE ~CloseReady(c)
  <2> DEFINE k == Min2(Outbound(c), Min2(c.credit, CHUNK))
             d == [c EXCEPT !.sent = @ + k, !.credit = @ - k, !.writeWaker = FALSE]
  <2>1. s = Put(v, ch, d) /\ f = [kind |-> "data", ch |-> ch, lo |-> c.sent, hi |-> c.sent + k]
    BY <1>6 DEF ChannelSent, ChannelFrame
  <2>2. d \in ChanRecord /\ k \in 1..CHUNK /\ k <= c.credit
    <3>1. DataReady(c) /\ ~t.down
      BY <1>6
    <3> HIDE DEF t, c, k
    <3> QED BY <1>1, <1>2, <3>1, SentSlot DEF k
  <2> HIDE DEF k
  <2>3. f.kind = "data" /\ f.ch = ch /\ f.lo = c.sent /\ f.hi = c.sent + k
    BY <2>1
  <2>4. /\ d.inbound = c.inbound /\ d.sent = c.sent + k /\ d.phase = c.phase /\ d.credit = c.credit - k
        /\ d.cancelled = c.cancelled /\ d.peerClosed = c.peerClosed /\ d.localClose = c.localClose
        /\ d.allowance = c.allowance /\ d.unreturned = c.unreturned
    BY <1>1 DEF ChanRecord
  <2> HIDE DEF d, v, f, s
  <2>5. c.sent \in Nat /\ c.credit \in Nat /\ k \in Nat /\ d.credit \in Nat /\ d.sent \in Nat
    <3>1. k \in Nat
      BY <2>2, SizesAreNumbers
    <3>2. \A r \in ChanRecord : r.sent \in Nat /\ r.credit \in Nat
      BY DEF ChanRecord
    <3> QED BY <1>1, <2>2, <3>1, <3>2
  <2>6. d.sent + d.credit = c.sent + c.credit
    BY <2>2, <2>4, <2>5
  <2>7. DataLeaves(c, k, d)
    BY <1>1, <2>2, <2>4, <2>5, <2>6, ChansAreNotNone DEF DataLeaves, Takes, Closed
  <2>8. s.chans[ch] = d /\ s.ops = t.ops
    BY <1>1, <2>1, <2>2, PutTouches
  <2> QED BY <1>1, <1>3, <1>4, <2>2, <2>3, <2>5, <2>7, <2>8 DEF f, s
<1> QED BY <1>5, <1>6

\* A channel's turn, in the flows.
LEMMA CloseTurnFlow ==
    ASSUME LinkInv, FlowInv, NEW e \in Ends, NEW ch \in Ch, NEW f \in Message, f.ch = ch, f.kind = "close",
           Opened(e, ch), Wire(Peer(e))' = Append(Wire(Peer(e)), f), Wire(e)' = Wire(e),
           \A x \in Ends, k \in Ch : Settled(x, k)
    PROVE  FlowInv'
<1>1. Peer(e) \in Ends /\ Peer(e) # e /\ Peer(Peer(e)) = e
  BY PeerFacts DEF Peer, Ends
<1>2. /\ KeepsStart(e, ch) /\ KeepsFinish(e, ch) /\ KeepsBound(e, ch)
      /\ KeepsStart(Peer(e), ch) /\ KeepsFinish(Peer(e), ch) /\ KeepsBound(Peer(e), ch)
  BY <1>1, CalmKeeps DEF Settled
<1>3. Flowing(e, ch)'
  BY <1>2, FlowStands DEF FlowInv
<1>4. ASSUME NEW z \in Tally, Finish(Peer(e), ch, z), Bound(Peer(e), ch, z)
      PROVE  Moves(Peer(e), ch, z, f, z) /\ Below(z, z) /\ Finish(Peer(e), ch, z)' /\ Bound(Peer(e), ch, z)'
  <2>1. Known(Peer(e), ch, z)
    BY <1>4, MaySpeak
  <2>2. Moves(Peer(e), ch, z, f, z)
    BY <2>1 DEF Moves, Becomes
  <2> QED BY <1>2, <1>4, <2>2, BelowFacts DEF KeepsFinish, KeepsBound
<1>5. Flowing(Peer(e), ch)'
  <2> HIDE DEF Tally
  <2> QED BY <1>1, <1>2, <1>4, FlowSends DEF FlowInv
<1>6. ~Unanswered(e, ch)'
  <2>1. ~Unanswered(e, ch)
    BY EndTyped DEF Opened, Unanswered
  <2> QED BY <2>1 DEF Settled, Calm
<1> QED BY <1>3, <1>5, <1>6, SendsStep DEF Settled

LEMMA DataTurnFlow ==
    ASSUME LinkInv, FlowInv, NEW e \in Ends, NEW ch \in Ch, NEW f \in Message, f.ch = ch, f.kind = "data",
           Opened(e, ch), Wire(Peer(e))' = Append(Wire(Peer(e)), f), Wire(e)' = Wire(e),
           \A x \in Ends, k \in Ch : x # e \/ k # ch => Settled(x, k),
           table'[e].highest = table[e].highest, got' = got, f.lo = table[e].chans[ch].sent,
           NEW n \in Nat, f.hi = table[e].chans[ch].sent + n, n <= table[e].chans[ch].credit,
           DataLeaves(table[e].chans[ch], n, table'[e].chans[ch]), table[e].chans[ch] \in ChanRecord
    PROVE  FlowInv'
<1> DEFINE c == table[e].chans[ch]
           d == table'[e].chans[ch]
           p == Peer(e)
<1>1. p \in Ends /\ p # e /\ Peer(p) = e
  BY PeerFacts DEF Peer, Ends
<1>2. /\ d # None /\ c # None /\ c.phase = "open" /\ d.phase = "open" /\ d.inbound = c.inbound /\ d.sent = c.sent + n
      /\ d.credit \in Nat /\ d.sent \in Nat /\ d.sent + d.credit = c.sent + c.credit
      /\ d.allowance = c.allowance /\ d.unreturned = c.unreturned /\ (Takes(d) => Takes(c))
      /\ d.peerClosed = c.peerClosed
  BY DEF DataLeaves, Opened, Has
<1>3. c.sent \in Nat /\ c.credit \in Nat
  BY DEF ChanRecord
<1>4. Has(table[e], ch) /\ Has(table'[e], ch) /\ Alive(e, ch) /\ Alive(e, ch)' /\ Opened(e, ch)'
  BY <1>2 DEF Has, Alive, Opened
<1>5. ch <= table[e].highest /\ ~(ch > table[e].highest)
  BY <1>4, EndTyped
<1>6. Place(e, ch)' = Place(e, ch)
  BY <1>2 DEF Place, Position
<1> HIDE DEF p
<1>7. /\ SentBy(e, ch) = c.sent /\ SentBy(e, ch)' = c.sent + n
      /\ Spend(e, ch)' = Spend(e, ch) /\ Spend(e, ch) = c.sent + c.credit /\ Room(e, ch)' = Room(e, ch)
  BY <1>2, <1>4, <1>6 DEF SentBy, Spend, Room
<1>8. (Waiting(e, ch)' => Waiting(e, ch)) /\ ~Unanswered(e, ch) /\ ~Unanswered(e, ch)' /\ ~Refused(e, ch)'
  BY <1>2, <1>5 DEF Waiting, Unanswered, Refused
<1>9. Local(e, ch)'
  <2>1. Local(e, ch)
    BY DEF FlowInv
  <2> QED BY <1>2, <1>4, <1>6, <2>1 DEF Local
<1>10. ASSUME NEW x \in Ends, NEW a \in Tally, TopAt(x, e, ch, a) PROVE TopAt(x, e, ch, a)'
  BY <1>8, <1>10 DEF TopAt
<1> HIDE DEF c, d
<1>11. Settled(p, ch)
  BY <1>1
<1>12. KeepsStart(p, ch) /\ KeepsFinish(e, ch) /\ KeepsBound(p, ch)
  BY <1>1, <1>11, CalmKeeps DEF Settled
<1>13. KeepsStart(e, ch)
  BY <1>4, <1>6, <1>7, <1>8, <1>10 DEF KeepsStart, Start
<1>14. KeepsBound(e, ch)
  <2> SUFFICES ASSUME NEW z \in Tally, Bound(e, ch, z) PROVE Bound(e, ch, z)'
    BY DEF KeepsBound
  <2>1. z.pos <= Room(e, ch) /\ z.lim <= c.sent + WINDOW /\ z.lim \in Nat
    BY <1>4, <1>7 DEF Bound, Tally
  <2>2. z.lim <= (c.sent + n) + WINDOW
    BY <1>3, <2>1, SizesAreNumbers
  <2> QED BY <1>7, <2>1, <2>2 DEF Bound
<1>15. Flowing(e, ch)'
  BY <1>12, <1>13, <1>14, FlowStands DEF FlowInv
<1>16. Alive(p, ch) => c.sent + n <= Room(p, ch)
  <2>1. Alive(p, ch) => c.sent + c.credit <= Room(p, ch)
    BY <1>4, <1>7, CreditIsBacked DEF p
  <2>2. Room(p, ch) \in Nat
    BY <1>1, EndTyped
  <2>3. n <= c.credit
    BY DEF c
  <2> QED BY <1>3, <2>1, <2>2, <2>3
<1>17. ASSUME NEW z \in Tally, Finish(p, ch, z), Bound(p, ch, z)
       PROVE  \E b \in Tally : Moves(p, ch, z, f, b) /\ Below(z, b) /\ Finish(p, ch, b)' /\ Bound(p, ch, b)'
  <2>0. z.top \in Nat /\ z.pos \in Nat /\ z.lim \in Nat /\ c.sent + n \in Nat
    BY <1>3, SumsOfNumbers DEF Tally
  <2>1. PICK b \in Tally : b.top = z.top /\ b.pos = c.sent + n /\ b.lim = z.lim
    <3>1. [top |-> z.top, pos |-> c.sent + n, lim |-> z.lim] \in Tally
      BY <2>0 DEF Tally
    <3> QED BY <3>1
  <2>2. Known(p, ch, z)
    BY <1>17, MaySpeak DEF p
  <2>3. z.pos = c.sent /\ z.lim = Room(e, ch)
    BY <1>1, <1>4, <1>7, <1>17 DEF Finish
  <2>4. f.lo <= f.hi /\ f.lo = z.pos /\ f.hi = b.pos
    <3>1. f.lo = c.sent /\ f.hi = c.sent + n
      BY DEF c
    <3> QED BY <1>3, <2>1, <2>3, <3>1
  <2>5. Moves(p, ch, z, f, b)
    BY <2>1, <2>2, <2>4 DEF Moves, Becomes
  <2>6. Below(z, b)
    BY <1>3, <2>0, <2>1, <2>3 DEF Below
  <2>7. TopAt(p, e, ch, b)'
    <3>1. TopAt(p, e, ch, z)'
      BY <1>1, <1>10, <1>17 DEF Finish
    <3> QED BY <2>1, <3>1 DEF TopAt
  <2>8. Finish(p, ch, b)'
    BY <1>1, <1>7, <2>1, <2>3, <2>7 DEF Finish
  <2>9. Bound(p, ch, b)'
    <3>1. ASSUME Alive(p, ch)' PROVE Alive(p, ch) /\ Room(p, ch)' = Room(p, ch) /\ SentBy(p, ch)' = SentBy(p, ch)
      BY <1>11, <3>1 DEF Settled, Calm, Even
    <3> QED BY <1>16, <1>17, <2>1, <3>1 DEF Bound
  <2> QED BY <2>5, <2>6, <2>8, <2>9
<1>18. Flowing(p, ch)'
  <2> HIDE DEF Tally
  <2> QED BY <1>1, <1>12, <1>17, FlowSends DEF FlowInv, p
<1> QED BY <1>8, <1>9, <1>15, <1>18, SendsStep DEF p

LEMMA NextOutFlow ==
    ASSUME LinkInv, FlowInv, NEW e \in Ends, NextOut(e)
    PROVE  FlowInv'
<1> DEFINE t == table[e]
           p == Peer(e)
<1>0. t \in Shape /\ p \in Ends /\ p # e /\ Peer(p) = e /\ got' = got /\ ~t.down
  BY PeerFacts, Histories DEF NextOut, Peer, Ends
<1>a. pipe[p] \in Seq(Message) /\ t.ops \in Seq(Message)
  BY <1>0, WiresTyped
<1>1. CASE /\ OpsFirst(t)
           /\ pipe' = [pipe EXCEPT ![p] = Append(@, Head(t.ops))]
           /\ table' = [table EXCEPT ![e].ops = Tail(@)]
  <2>1. /\ \A x \in Ends : table'[x].chans = table[x].chans /\ table'[x].highest = table[x].highest
        /\ table'[e].ops = Tail(t.ops) /\ table'[p] = table[p]
        /\ pipe'[p] = Append(pipe[p], Head(t.ops)) /\ pipe'[e] = pipe[e]
    BY <1>0, <1>1, Histories DEF Shape, PipesTyped
  <2>2. \A x \in Ends, k \in Ch : Settled(x, k)
    BY <1>0, <2>1, UntouchedSettled
  <2>3. Wire(e)' = Wire(e)
    BY <2>1 DEF Wire
  <2>4. Wire(p)' = Wire(p)
    <3>1. Append(pipe[p], Head(t.ops)) \o Tail(t.ops) = pipe[p] \o t.ops
      BY <1>1, <1>a, OpGoes DEF OpsFirst
    <3> HIDE DEF p
    <3> QED BY <1>0, <2>1, <3>1 DEF Wire
  <2>5. \A x \in Ends : x = e \/ x = p
    BY DEF Ends, Peer
  <2> HIDE DEF p
  <2> QED BY <2>2, <2>3, <2>4, <2>5, SettledStep
<1>2. CASE /\ ~OpsFirst(t) /\ Ready(t) # {}
           /\ LET ch == NextTurn(t)
                  f  == ChannelFrame(t, ch)
              IN  /\ pipe' = [pipe EXCEPT ![p] = Append(@, f)]
                  /\ table' = [table EXCEPT ![e] = ChannelSent(t, ch)]
  <2>0. NextTurn(t) \in Ch
    BY <1>0, <1>2, NextTurnIsReady
  <2> PICK ch \in Ch : ch = NextTurn(t)
    BY <2>0
  <2> DEFINE s == ChannelSent(t, ch)
             f == ChannelFrame(t, ch)
             c == t.chans[ch]
  <2>1. Has(t, ch) /\ (CloseReady(c) \/ DataReady(c))
    BY <1>0, <1>2, NextTurnIsReady
  <2>2. pipe' = [pipe EXCEPT ![p] = Append(@, f)] /\ table' = [table EXCEPT ![e] = s] /\ t.ops = <<>>
    BY <1>2 DEF OpsFirst
  <2>3. /\ f.ch = ch /\ f \in Message /\ Touches(t, s, ch) /\ s.ops = t.ops /\ c.phase = "open" /\ c \in ChanRecord
        /\ \/ f.kind = "close" /\ Flags(c, s.chans[ch])
           \/ /\ f.kind = "data" /\ f.lo = c.sent
              /\ \E k \in Nat : f.hi = c.sent + k /\ k <= c.credit /\ DataLeaves(c, k, s.chans[ch])
    BY <1>0, <2>1, TurnCounts
  <2> HIDE DEF s, f
  <2>4. /\ table'[e] = s /\ table'[p] = table[p] /\ s.highest = t.highest
        /\ pipe'[p] = Append(pipe[p], f) /\ pipe'[e] = pipe[e]
    BY <1>0, <2>2, <2>3, Histories DEF PipesTyped, Touches
  <2>5. Opened(e, ch) /\ Only(got, got', e, ch)
    BY <1>0, <2>1, <2>3 DEF Opened, Only
  <2>6. \A x \in Ends, k \in Ch : x # e \/ k # ch => Settled(x, k)
    BY <2>2, <2>3, <2>5, OneSettled
  <2> HIDE DEF p
  <2>7. Wire(e)' = Wire(e) /\ Wire(p)' = Append(Wire(p), f)
    <3>1. pipe[p] \o <<>> = pipe[p]
      BY <1>a, NothingOwed
    <3>2. Append(pipe[p], f) \in Seq(Message)
      BY <1>a, <2>3
    <3>3. Append(pipe[p], f) \o <<>> = Append(pipe[p], f)
      BY <3>2, NothingOwed
    <3> QED BY <1>0, <2>2, <2>3, <2>4, <3>1, <3>3 DEF Wire, p
  <2>8. CASE f.kind = "close" /\ Flags(c, s.chans[ch])
    <3>1. Settled(e, ch)
      BY <1>0, <2>1, <2>4, <2>8, FlagsSettled
    <3>2. \A x \in Ends, k \in Ch : Settled(x, k)
      BY <2>6, <3>1
    <3> QED BY <2>3, <2>5, <2>7, <2>8, <3>2, CloseTurnFlow DEF p
  <2>9. CASE f.kind = "data" /\ f.lo = c.sent
             /\ \E k \in Nat : f.hi = c.sent + k /\ k <= c.credit /\ DataLeaves(c, k, s.chans[ch])
    <3>1. PICK k \in Nat : f.hi = c.sent + k /\ k <= c.credit /\ DataLeaves(c, k, s.chans[ch])
      BY <2>9
    <3> QED BY <1>0, <2>3, <2>4, <2>5, <2>6, <2>7, <2>9, <3>1, DataTurnFlow DEF p
  <2> QED BY <2>3, <2>8, <2>9
<1> QED BY <1>1, <1>2 DEF NextOut

(***************************************************************************)
(* A frame is taken.                                                       *)
(***************************************************************************)

LEMMA WireHead ==
    ASSUME LinkInv, NEW e \in Ends, pipe[e] # <<>>
    PROVE  /\ Wire(e) \in Seq(Message) /\ Wire(e) # <<>> /\ Head(Wire(e)) = Head(pipe[e])
           /\ Tail(Wire(e)) = Tail(pipe[e]) \o table[Peer(e)].ops
<1> DEFINE q == pipe[e]
           r == table[Peer(e)].ops
<1>1. q \in Seq(Message) /\ r \in Seq(Message) /\ q # <<>> /\ Wire(e) = q \o r
  BY PeerFacts, WiresTyped DEF Wire
<1> HIDE DEF q, r
<1>2. q \o r \in Seq(Message) /\ q \o r # <<>> /\ Head(q \o r) = Head(q) /\ Tail(q \o r) = Tail(q) \o r
  BY <1>1
<1> QED BY <1>1, <1>2 DEF q, r

\* The frame at the head of a pipe keeps the rules.
LEMMA HeadMoves ==
    ASSUME LinkInv, FlowInv, NEW e \in Ends, NEW k \in Ch, pipe[e] # <<>>
    PROVE  \E a, b, z \in Tally : /\ Start(e, k, a) /\ Finish(e, k, z) /\ Bound(e, k, z)
                                  /\ Moves(e, k, a, Head(pipe[e]), b) /\ Below(b, z)
<1>1. Wire(e) \in Seq(Message) /\ Wire(e) # <<>> /\ Head(Wire(e)) = Head(pipe[e])
  BY WireHead
<1>2. PICK a, z \in Tally :
        Walk(e, k, Wire(e), a, z) /\ Start(e, k, a) /\ Finish(e, k, z) /\ Bound(e, k, z)
  BY DEF FlowInv, Flowing
<1>3. PICK b \in Tally : Moves(e, k, a, Head(Wire(e)), b) /\ Walk(e, k, Tail(Wire(e)), b, z)
  BY <1>1, <1>2, WalkTakes
<1>4. Tail(Wire(e)) \in Seq(Message)
  BY <1>1
<1>5. Below(b, z)
  BY <1>3, <1>4, WalkEnds
<1> HIDE DEF Tally
<1> QED BY <1>1, <1>2, <1>3, <1>5

\* What is said of a channel to an end that has it finds it open.
LEMMA SpokenIsOpen ==
    ASSUME LinkInv, FlowInv, NEW e \in Ends, pipe[e] # <<>>, NEW f \in Message, f = Head(pipe[e]),
           NEW ch \in Ch, f.ch = ch, f.kind \in {"data", "credit", "close"}
    PROVE  /\ ch <= table[e].highest /\ ~(ch > table[e].highest) /\ ~Unanswered(e, ch)
           /\ Has(table[e], ch) => Opened(e, ch)
<1>1. PICK a, b, z \in Tally : Start(e, ch, a) /\ Moves(e, ch, a, f, b)
  BY HeadMoves
<1>2. Known(e, ch, a)
  BY <1>1 DEF Moves
<1>3. ch \in Nat /\ table[e].highest \in Nat
  BY EndTyped
<1>4. CASE e = "window"
  <2>1. a.top = 1 /\ (a.top = 0 <=> Unanswered(e, ch)) /\ (Refused(e, ch) => a.top = 2)
    BY <1>1, <1>2, <1>4 DEF Known, Start, TopAt
  <2>2. ~Unanswered(e, ch) /\ ~Refused(e, ch)
    BY <2>1
  <2>3. Has(table[e], ch) => table[e].chans[ch] \in ChanRecord
    BY HeldIsOpened
  <2> QED BY <1>3, <2>2, <2>3 DEF Unanswered, Refused, Opened, ChanRecord
<1>5. CASE e = "router"
  <2>1. ch <= table[e].highest /\ ~(ch > table[e].highest)
    BY <1>1, <1>2, <1>3, <1>5 DEF Known, Start, TopAt
  <2>2. ~Unanswered(e, ch)
    <3>1. SUFFICES ASSUME Unanswered(e, ch) PROVE FALSE
      OBVIOUS
    <3>2. Unanswered("window", ch)
      BY <1>5, <3>1, RouterFollows
    <3>3. Asks(Wire("router"), ch)
      BY <1>5, <3>2 DEF FlowInv, Unasked
    <3>4. Head(Wire("router")).kind = "open"
      BY <1>5, <3>3, WireHead, AsksSteps
    <3> QED BY <1>5, <3>4, WireHead
  <2>3. Has(table[e], ch) => table[e].chans[ch] \in ChanRecord /\ table[e].chans[ch].phase # "refused"
    BY <1>5, HeldIsOpened DEF FlowInv, Local
  <2> QED BY <2>1, <2>2, <2>3 DEF Unanswered, Opened, ChanRecord
<1> QED BY <1>4, <1>5 DEF Ends

\* No frame breaks the link's rules.
LEMMA NeverViolates ==
    ASSUME LinkInv, FlowInv, NEW e \in Ends, pipe[e] # <<>>
    PROVE  ~Violates(e, Head(pipe[e]))
<1> SUFFICES ASSUME NEW f \in Message, f = Head(pipe[e]) PROVE ~Violates(e, f)
  BY HeadOfPipe
<1>1. PICK ch \in Ch : ch = f.ch
  BY MessageFields
<1> DEFINE t == table[e]
           c == t.chans[ch]
<1>2. PICK a, b, z \in Tally :
        Start(e, ch, a) /\ Finish(e, ch, z) /\ Bound(e, ch, z) /\ Moves(e, ch, a, f, b) /\ Below(b, z)
  BY <1>1, HeadMoves
<1>3. /\ a.pos \in Nat /\ a.lim \in Nat /\ b.pos \in Nat /\ b.lim \in Nat /\ z.pos \in Nat /\ z.lim \in Nat
      /\ a.top \in Nat /\ b.top \in Nat /\ z.top \in Nat
      /\ b.top <= z.top /\ b.pos <= z.pos /\ b.lim <= z.lim
  BY <1>2 DEF Tally, Below
<1>4. f.kind \in {"data", "credit", "close"} => /\ ~(ch > t.highest) /\ (Has(t, ch) => Opened(e, ch))
  BY <1>1, SpokenIsOpen
<1>5. Has(t, ch) => /\ c \in ChanRecord /\ c # None /\ Alive(e, ch)
                    /\ c.allowance \in Nat /\ c.sent \in Nat /\ c.credit \in Nat
  <2>1. Has(t, ch) => c \in ChanRecord
    BY <1>1, HeldIsOpened
  <2> QED BY <2>1 DEF ChanRecord, Has, Alive
<1>6. CASE f.kind = "data"
  <2>1. f.lo \in Nat /\ f.hi \in Nat /\ a.pos = f.lo /\ b.pos = f.hi
    BY <1>1, <1>2, <1>6, MessageFields DEF Moves, Becomes
  <2>2. ASSUME Has(t, ch), ~Closed(c), ~c.cancelled PROVE ~(f.hi - f.lo > c.allowance)
    <3>1. a.pos = Place(e, ch)
      BY <1>2, <1>5, <2>2 DEF Start, Waiting, Takes
    <3>2. z.pos <= Place(e, ch) + c.allowance
      BY <1>2, <1>4, <1>5, <1>6, <2>2 DEF Bound, Room
    <3>3. f.lo \in Nat /\ f.hi \in Nat /\ c.allowance \in Nat /\ f.hi <= z.pos /\ z.pos <= f.lo + c.allowance /\ z.pos \in Nat
      BY <1>3, <1>5, <2>1, <2>2, <3>1, <3>2
    <3> HIDE DEF c
    <3> QED BY <3>3
  <2> QED BY <1>1, <1>4, <1>6, <2>2 DEF Violates
<1>7. CASE f.kind = "credit"
  <2>1. f.bytes \in Nat /\ b.lim = a.lim + f.bytes
    BY <1>1, <1>2, <1>7, MessageFields DEF Moves, Becomes
  <2>2. ASSUME Has(t, ch) PROVE ~(c.credit + f.bytes > WINDOW)
    <3>1. Opened(e, ch) /\ Alive(e, ch)
      BY <1>4, <1>5, <1>7, <2>2
    <3>2. c.sent + c.credit <= a.lim
      BY <1>2, <3>1 DEF Start, Spend
    <3>3. z.lim <= c.sent + WINDOW
      BY <1>2, <2>2, <3>1 DEF Bound, SentBy
    <3> DEFINE u == a.lim
               y == z.lim
    <3>4. /\ c.sent \in Nat /\ c.credit \in Nat /\ f.bytes \in Nat /\ u \in Nat /\ y \in Nat /\ WINDOW \in Nat
          /\ c.sent + c.credit <= u /\ u + f.bytes <= y /\ y <= c.sent + WINDOW
      BY <1>3, <1>5, <2>1, <2>2, <3>2, <3>3, SizesAreNumbers
    <3> HIDE DEF c, u, y
    <3> QED BY <3>4
  <2> QED BY <1>1, <1>4, <1>7, <2>2 DEF Violates
<1>8. CASE f.kind = "close"
  BY <1>1, <1>4, <1>8 DEF Violates
<1>9. CASE f.kind = "open"
  BY <1>2, <1>9 DEF Violates, Moves, Start, TopAt
<1>10. CASE f.kind \in {"opened", "refused"}
  <2>1. e = "window" /\ a.top = 0 /\ b.top # 0
    BY <1>1, <1>2, <1>10 DEF Moves, Becomes
  <2>2. Unanswered("window", ch)
    BY <1>2, <2>1 DEF Start, TopAt
  <2>3. z.top # 0
    BY <1>3, <2>1
  <2>4. ~Unanswered("router", ch)
    BY <1>2, <2>1, <2>3 DEF Finish, TopAt, Peer
  <2>5. ~(ch > table["window"].highest)
    <3>1. ~(ch > table["router"].highest)
      BY <2>4 DEF Unanswered
    <3>2. table["router"].highest <= table["window"].highest
      BY <1>1, RouterFollows
    <3>3. ch \in Nat /\ table["router"].highest \in Nat /\ table["window"].highest \in Nat
      BY <1>1, EndTyped DEF Ends
    <3> QED BY <3>1, <3>2, <3>3
  <2>6. Has(t, ch) /\ c.phase = "opening"
    BY <2>1, <2>2, <2>5 DEF Unanswered
  <2> QED BY <1>1, <1>10, <2>1, <2>6 DEF Violates
<1> QED BY <1>6, <1>7, <1>8, <1>9, <1>10, MessageFields

\* A frame of a channel owes the peer nothing.
LEMMA FrameOps ==
    ASSUME NEW t \in Shape, NEW f \in Message, f.kind # "open"
    PROVE  OnFrame(t, f).ops = t.ops
<1>1. \A c, d : Put(t, f.ch, c).ops = t.ops /\ Put(Put(t, f.ch, c), f.ch, d).ops = t.ops
  BY DEF Put, Shape
<1>2. \A c : Reaped(Put(t, f.ch, c), f.ch).ops = t.ops
  BY <1>1 DEF Reaped
<1>3. Reaped(t, f.ch).ops = t.ops
  BY <1>1 DEF Reaped
<1>4. CASE f.kind = "data"
  BY <1>1, <1>4 DEF OnFrame, OnData
<1>5. CASE f.kind = "credit"
  BY <1>1, <1>5 DEF OnFrame, OnCredit
<1>6. CASE f.kind = "close"
  BY <1>2, <1>3, <1>6 DEF OnFrame, OnClose
<1>7. CASE f.kind \in {"opened", "refused"}
  BY <1>2, <1>7 DEF OnFrame, OnOpenAnswer
<1> QED BY <1>4, <1>5, <1>6, <1>7, MessageFields

LEMMA TakenFrame ==
    ASSUME LinkInv, FlowInv, NEW e \in Ends, NEW f \in Message, NEW ch \in Ch, FrameTaken(e, f, ch)
    PROVE  /\ table'[e] = OnFrame(table[e], f) /\ table'[e].highest = table[e].highest
           /\ ch <= table[e].highest /\ ~(ch > table[e].highest)
           /\ \A x \in Ends, k \in Ch : x # e \/ k # ch => Settled(x, k)
           /\ Wire(e) # <<>> /\ Head(Wire(e)) = f /\ Wire(e)' = Tail(Wire(e)) /\ Wire(Peer(e))' = Wire(Peer(e))
           /\ table[e] \in Shape
<1> USE DEF FrameTaken
<1> DEFINE t == OnFrame(table[e], f)
           p == Peer(e)
<1>1. Touches(table[e], t, ch) /\ ch <= table[e].highest
  BY FrameSlot
<1>2. t.ops = table[e].ops /\ table[e] \in Shape
  BY FrameOps, Histories
<1> HIDE DEF t
<1>3. table'[e] = t /\ (\A x \in Ends : x # e => table'[x] = table[x]) /\ table'[e].highest = table[e].highest
  BY <1>1, Histories DEF Touches, t
<1>4. ~(ch > table[e].highest)
  <2>1. table[e].highest \in Nat /\ ch \in Nat
    BY Histories, ChansAreNumbers
  <2> QED BY <1>1, <2>1
<1>5. Only(got, got', e, ch)
  BY DEF Only
<1>6. \A x \in Ends, k \in Ch : x # e \/ k # ch => Settled(x, k)
  <2>1. table' = [table EXCEPT ![e] = t]
    BY DEF t
  <2> HIDE DEF FrameTaken
  <2> QED BY <1>1, <1>5, <2>1, OneSettled
<1>7. p \in Ends /\ p # e /\ Peer(p) = e
  BY PeerFacts DEF Peer, Ends
<1> HIDE DEF p
<1>8. pipe'[e] = Tail(pipe[e]) /\ pipe'[p] = pipe[p] /\ table'[p] = table[p]
  BY <1>3, <1>7, Histories DEF PipesTyped
<1>9. Wire(e)' = Tail(pipe[e]) \o table[p].ops /\ Wire(p)' = Wire(p)
  BY <1>2, <1>3, <1>7, <1>8 DEF Wire, p
<1>10. Wire(e) # <<>> /\ Head(Wire(e)) = f /\ Wire(e)' = Tail(Wire(e))
  BY <1>9, WireHead DEF p
<1> QED BY <1>1, <1>2, <1>3, <1>4, <1>6, <1>9, <1>10 DEF t, p

\* A frame of a channel that one step takes.
LEMMA TakesStep ==
    ASSUME LinkInv, FlowInv, NEW e \in Ends, NEW f \in Message, NEW ch \in Ch, FrameTaken(e, f, ch),
           Local(e, ch)', Flowing(e, ch)', Flowing(Peer(e), ch)',
           e = "window" /\ Unanswered(e, ch)' => Unanswered(e, ch)
    PROVE  FlowInv'
<1>0. Peer(e) \in Ends /\ Peer(e) # e /\ Peer(Peer(e)) = e /\ \A x \in Ends : x = e \/ x = Peer(e)
  BY PeerFacts DEF Peer, Ends
<1>f. f.ch = ch /\ f.kind # "open"
  BY DEF FrameTaken
<1>t. /\ \A x \in Ends, k \in Ch : x # e \/ k # ch => Settled(x, k)
      /\ Wire(e) # <<>> /\ Head(Wire(e)) = f /\ Wire(e)' = Tail(Wire(e)) /\ Wire(Peer(e))' = Wire(Peer(e))
  BY TakenFrame
<1>1. ASSUME NEW x \in Ends, NEW k \in Ch PROVE Local(x, k)'
  BY <1>1, <1>t DEF Settled
<1>2. ASSUME NEW k \in Ch, k # ch PROVE Flowing(e, k)' /\ Flowing(Peer(e), k)'
  <2>1. /\ KeepsStart(e, k) /\ KeepsFinish(e, k) /\ KeepsBound(e, k)
        /\ KeepsStart(Peer(e), k) /\ KeepsFinish(Peer(e), k) /\ KeepsBound(Peer(e), k)
    BY <1>0, <1>2, <1>t, CalmKeeps DEF Settled
  <2>2. Flowing(Peer(e), k)'
    BY <1>0, <1>t, <2>1, FlowStands DEF FlowInv
  <2>3. Flowing(e, k)'
    BY <1>2, <1>f, <1>t, <2>1, FlowPasses DEF FlowInv
  <2> QED BY <2>2, <2>3
<1>3. ASSUME NEW x \in Ends, NEW k \in Ch PROVE Flowing(x, k)'
  BY <1>0, <1>2
<1>4. "window" \in Ends /\ "router" \in Ends /\ Peer("router") = "window" /\ Peer("window") = "router"
  BY DEF Ends, Peer
<1>5. ASSUME NEW k \in Ch, Unanswered("window", k)' PROVE Asks(Wire("router")', k)
  <2>2. Unanswered("window", k)
    BY <1>4, <1>5, <1>t DEF Settled, Calm
  <2>3. Asks(Wire("router"), k)
    BY <1>4, <2>2 DEF FlowInv, Unasked
  <2>4. CASE e = "router"
    BY <1>4, <1>t, <2>3, <2>4, WiresTyped, AsksSteps
  <2>5. CASE e = "window"
    BY <1>4, <1>t, <2>3, <2>5
  <2> QED BY <2>4, <2>5 DEF Ends
<1>6. \A k \in Ch : Unasked(k)'
  BY <1>5 DEF Unasked, Asks
<1> QED BY <1>1, <1>3, <1>6 DEF FlowInv

\* A frame that leaves every flow's ends where they were, but for the place its
\* taker is at and how far it may send.
LEMMA TakesCalmly ==
    ASSUME LinkInv, FlowInv, NEW e \in Ends, NEW f \in Message, NEW ch \in Ch, FrameTaken(e, f, ch),
           Settled(e, ch), f.kind \in {"data", "credit", "close"}, f.kind = "data" => ~Waiting(e, ch)'
    PROVE  FlowInv'
<1>1. Peer(e) \in Ends /\ Peer(e) # e /\ Peer(Peer(e)) = e
  BY PeerFacts DEF Peer, Ends
<1>2. /\ \A x \in Ends, k \in Ch : x # e \/ k # ch => Settled(x, k)
      /\ Wire(e) # <<>> /\ Head(Wire(e)) = f /\ Wire(e)' = Tail(Wire(e)) /\ Wire(Peer(e))' = Wire(Peer(e))
  BY TakenFrame
<1>3. /\ KeepsStart(e, ch) /\ KeepsFinish(e, ch) /\ KeepsBound(e, ch)
      /\ KeepsStart(Peer(e), ch) /\ KeepsFinish(Peer(e), ch) /\ KeepsBound(Peer(e), ch)
  BY <1>1, <1>2, CalmKeeps DEF Settled
<1>4. Flowing(Peer(e), ch)'
  BY <1>1, <1>2, <1>3, FlowStands DEF FlowInv
<1>5. ASSUME NEW a \in Tally, NEW b \in Tally, NEW z \in Tally, Start(e, ch, a), Finish(e, ch, z), Bound(e, ch, z),
             Moves(e, ch, a, f, b)
      PROVE  Start(e, ch, b)' /\ Finish(e, ch, z)' /\ Bound(e, ch, z)'
  <2>1. Start(e, ch, a)'
    BY <1>3, <1>5 DEF KeepsStart
  <2>2. f.ch = ch
    BY DEF FrameTaken
  <2>3. b.top = a.top /\ (f.kind # "data" => b.pos = a.pos)
    BY <1>5, <2>2 DEF Moves, Becomes
  <2>4. b.lim = a.lim \/ (f.kind = "credit" /\ b.lim = a.lim + f.bytes)
    BY <1>5, <2>2 DEF Moves, Becomes
  <2>5. a.lim \in Nat /\ b.lim \in Nat /\ (f.kind = "credit" => f.bytes \in Nat)
    BY MessageFields DEF Tally
  <2>6. a.lim <= b.lim
    BY <2>4, <2>5
  <2>7. TopAt(e, e, ch, b)'
    BY <2>1, <2>3 DEF Start, TopAt
  <2>8. Waiting(e, ch)' => b.pos = Place(e, ch)'
    BY <2>1, <2>3 DEF Start
  <2>9. Alive(e, ch)' => Spend(e, ch)' <= b.lim
    <3>1. Alive(e, ch)' => Spend(e, ch)' <= a.lim /\ Spend(e, ch)' \in Nat
      BY <2>1, EndTyped DEF Start, Settled, Calm, Even
    <3> QED BY <2>5, <2>6, <3>1
  <2> QED BY <1>3, <1>5, <2>7, <2>8, <2>9 DEF KeepsFinish, KeepsBound, Start
<1>6. Flowing(e, ch)'
  <2> HIDE DEF Tally
  <2> QED BY <1>2, <1>5, FlowTakes DEF FlowInv
<1> QED BY <1>4, <1>6, TakesStep DEF Settled, Calm

\* A frame that finds its channel gone, closed or cancelled.
LEMMA IgnoredFlow ==
    ASSUME LinkInv, FlowInv, NEW e \in Ends, NEW f \in Message, NEW ch \in Ch, FrameTaken(e, f, ch),
           f.kind \in {"data", "credit", "close"}, table'[e].chans[ch] = table[e].chans[ch],
           f.kind = "data" => ~Takes(table[e].chans[ch])
    PROVE  FlowInv'
<1>1. table'[e].highest = table[e].highest /\ ~(ch > table[e].highest)
  BY TakenFrame
<1>2. Settled(e, ch)
  BY <1>1, UntouchedSettled DEF FrameTaken
<1>3. f.kind = "data" => ~Waiting(e, ch)'
  BY <1>1 DEF Waiting
<1> QED BY <1>2, <1>3, TakesCalmly

LEMMA CloseTakenFlow ==
    ASSUME LinkInv, FlowInv, NEW e \in Ends, NEW f \in Message, NEW ch \in Ch, FrameTaken(e, f, ch),
           f.kind = "close"
    PROVE  FlowInv'
<1> DEFINE t == table[e]
           c == t.chans[ch]
           d == Woken(OutboundCleared([c EXCEPT !.peerClosed = f.reason, !.closeSent = TRUE]))
<1>1. /\ table'[e] = OnFrame(t, f) /\ table'[e].highest = t.highest /\ t \in Shape
  BY TakenFrame
<1>2. f.ch = ch /\ pipe[e] # <<>> /\ f = Head(pipe[e]) /\ UNCHANGED got
  BY DEF FrameTaken
<1>3. OnFrame(t, f) = OnClose(t, f)
  BY DEF OnFrame
<1>4. CASE ~Has(t, ch)
  <2>1. table'[e] = t
    BY <1>1, <1>2, <1>3, <1>4 DEF OnClose
  <2> QED BY <2>1, IgnoredFlow
<1>5. CASE Has(t, ch)
  <2>1. c \in ChanRecord /\ c # None /\ c.phase = "open"
    BY <1>2, <1>5, HeldIsOpened, SpokenIsOpen DEF Opened, Has
  <2>2. f.reason \in {"eof", "reset"}
    BY MessageFields
  <2>3. /\ d \in ChanRecord /\ d.inbound = c.inbound /\ d.sent = c.sent /\ d.phase = c.phase
        /\ d.peerClosed = f.reason /\ d.allowance = c.allowance /\ d.unreturned = c.unreturned /\ d.credit = c.credit
    <3> HIDE DEF c
    <3> QED BY <2>1, <2>2 DEF ChanRecord, Reasons, OutboundCleared, Woken
  <2> HIDE DEF d
  <2>4. Flags(c, d) /\ Flags(c, c) /\ Flags(c, None)
    BY <2>1, <2>2, <2>3, ChansAreNotNone DEF Flags, Takes, Closed
  <2>5. \A s \in {t, Put(t, ch, d)} : /\ s.chans[ch] \in {c, d}
                                      /\ Put(s, ch, None).chans[ch] = None
    <3>1. Put(t, ch, d) \in Shape /\ Put(t, ch, d).chans[ch] = d
      <4> HIDE DEF t
      <4> QED BY <1>1, <2>3, PutTouches DEF Touches
    <3>2. Put(t, ch, None).chans[ch] = None /\ Put(Put(t, ch, d), ch, None).chans[ch] = None
      <4> HIDE DEF t
      <4> QED BY <1>1, <3>1, PutTouches
    <3> QED BY <3>1, <3>2
  <2>6. \E s \in {t, Put(t, ch, d)} : table'[e] = s \/ table'[e] = Put(s, ch, None)
    BY <1>1, <1>2, <1>3, <1>5 DEF OnClose, Reaped, d
  <2>7. table'[e].chans[ch] \in {c, d, None}
    BY <2>5, <2>6
  <2>8. Flags(c, table'[e].chans[ch])
    BY <2>4, <2>7
  <2>9. Settled(e, ch)
    BY <1>1, <1>2, <1>5, <2>8, FlagsSettled
  <2> QED BY <2>9, TakesCalmly
<1> QED BY <1>4, <1>5

LEMMA CreditTakenFlow ==
    ASSUME LinkInv, FlowInv, NEW e \in Ends, NEW f \in Message, NEW ch \in Ch, FrameTaken(e, f, ch),
           f.kind = "credit"
    PROVE  FlowInv'
<1> DEFINE t == table[e]
           c == t.chans[ch]
           d == [c EXCEPT !.credit = @ + f.bytes]
<1>1. /\ table'[e] = OnFrame(t, f) /\ table'[e].highest = t.highest /\ t \in Shape /\ ~(ch > t.highest)
  BY TakenFrame
<1>2. f.ch = ch /\ pipe[e] # <<>> /\ f = Head(pipe[e]) /\ UNCHANGED got
  BY DEF FrameTaken
<1>3. OnFrame(t, f) = OnCredit(t, f)
  BY DEF OnFrame
<1>4. CASE ~Has(t, ch) \/ Closed(c)
  <2>1. table'[e] = t
    BY <1>1, <1>2, <1>3, <1>4 DEF OnCredit
  <2> QED BY <2>1, IgnoredFlow
<1>5. CASE Has(t, ch) /\ ~Closed(c)
  <2>1. c \in ChanRecord /\ c # None /\ Opened(e, ch) /\ c.phase = "open"
    BY <1>2, <1>5, HeldIsOpened, SpokenIsOpen DEF Opened, Has
  <2>2. f.bytes \in Nat /\ c.credit \in Nat /\ c.sent \in Nat
    BY <2>1, MessageFields DEF ChanRecord
  <2>3. c.credit + f.bytes \in Nat
    BY <2>2, SumsOfNumbers
  <2>4. /\ d \in ChanRecord /\ d.inbound = c.inbound /\ d.sent = c.sent /\ d.phase = c.phase /\ d.credit = c.credit + f.bytes
        /\ d.peerClosed = c.peerClosed /\ d.localClose = c.localClose /\ d.cancelled = c.cancelled
        /\ d.allowance = c.allowance /\ d.unreturned = c.unreturned
    <3> HIDE DEF c
    <3> QED BY <2>1, <2>3 DEF ChanRecord
  <2>a. d # None
    BY <2>4, ChansAreNotNone
  <2> HIDE DEF d
  <2>5. table'[e].chans[ch] = d
    <3>1. table'[e] = Put(t, ch, d)
      BY <1>1, <1>2, <1>3, <1>5 DEF OnCredit, d
    <3> HIDE DEF t
    <3> QED BY <1>1, <2>4, <3>1, PutTouches
  <2>6. Opened(e, ch)' /\ Has(table'[e], ch) /\ Alive(e, ch) /\ ~Unanswered(e, ch) /\ ~Unanswered(e, ch)' /\ ~Refused(e, ch)'
    BY <1>1, <1>5, <2>1, <2>4, <2>5, <2>a DEF Opened, Has, Alive, Unanswered, Refused
  <2>7. Place(e, ch)' = Place(e, ch)
    BY <1>2, <2>1, <2>4, <2>5, <2>a DEF Place, Position
  <2>8. /\ SentBy(e, ch)' = SentBy(e, ch) /\ Room(e, ch)' = Room(e, ch)
        /\ Spend(e, ch)' = c.sent + (c.credit + f.bytes) /\ Spend(e, ch) = c.sent + c.credit
    BY <1>5, <2>1, <2>4, <2>5, <2>6, <2>7 DEF SentBy, Room, Spend
  <2>9. Waiting(e, ch)' => Waiting(e, ch)
    BY <1>1, <2>1, <2>4, <2>5 DEF Waiting, Takes, Closed
  <2>10. Local(e, ch)'
    <3>1. Local(e, ch)
      BY DEF FlowInv
    <3> QED BY <1>2, <1>5, <2>4, <2>5, <2>6, <2>7, <3>1 DEF Local
  <2>11. ASSUME NEW x \in Ends, NEW a \in Tally, TopAt(x, e, ch, a) PROVE TopAt(x, e, ch, a)'
    BY <1>1, <2>1, <2>6, <2>11 DEF TopAt
  <2>12. Peer(e) \in Ends /\ Peer(e) # e /\ Peer(Peer(e)) = e
    BY PeerFacts DEF Peer, Ends
  <2>t. /\ \A x \in Ends, k \in Ch : x # e \/ k # ch => Settled(x, k)
        /\ Wire(e) # <<>> /\ Head(Wire(e)) = f /\ Wire(e)' = Tail(Wire(e)) /\ Wire(Peer(e))' = Wire(Peer(e))
    BY TakenFrame
  <2>13. KeepsStart(Peer(e), ch) /\ KeepsFinish(e, ch) /\ KeepsBound(Peer(e), ch)
    BY <2>12, <2>t, CalmKeeps DEF Settled
  <2>14. KeepsFinish(Peer(e), ch)
    BY <2>6, <2>8, <2>11, <2>12 DEF KeepsFinish, Finish
  <2>15. KeepsBound(e, ch)
    BY <2>6, <2>8 DEF KeepsBound, Bound
  <2> HIDE DEF c, t
  <2>16. ASSUME NEW a \in Tally, NEW b \in Tally, Start(e, ch, a), Moves(e, ch, a, f, b)
         PROVE  Start(e, ch, b)'
    <3>1. b.top = a.top /\ b.pos = a.pos /\ b.lim = a.lim + f.bytes /\ a.lim \in Nat
      BY <1>2, <2>16 DEF Moves, Becomes, Tally
    <3>2. TopAt(e, e, ch, b)'
      <4>1. TopAt(e, e, ch, a)'
        BY <2>11, <2>16 DEF Start
      <4> QED BY <3>1, <4>1 DEF TopAt
    <3>3. Waiting(e, ch)' => b.pos = Place(e, ch)'
      BY <2>7, <2>9, <2>16, <3>1 DEF Start
    <3>4. c.sent + c.credit <= a.lim
      BY <2>6, <2>8, <2>16 DEF Start
    <3>5. c.sent + (c.credit + f.bytes) <= b.lim
      BY <2>2, <3>1, <3>4
    <3> QED BY <2>8, <3>2, <3>3, <3>5 DEF Start
  <2>17. Flowing(e, ch)'
    <3> HIDE DEF Tally
    <3> QED BY <2>13, <2>15, <2>16, <2>t, FlowTakes DEF FlowInv, KeepsFinish, KeepsBound
  <2>18. Flowing(Peer(e), ch)'
    BY <2>12, <2>13, <2>14, <2>t, FlowStands DEF FlowInv
  <2> QED BY <2>6, <2>10, <2>17, <2>18, TakesStep
<1> QED BY <1>4, <1>5

LEMMA DataTakenFlow ==
    ASSUME LinkInv, FlowInv, NEW e \in Ends, NEW f \in Message, NEW ch \in Ch, FrameTaken(e, f, ch),
           f.kind = "data"
    PROVE  FlowInv'
<1> DEFINE t == table[e]
           c == t.chans[ch]
           left == c.allowance - (f.hi - f.lo)
           in == Append(c.inbound, <<f.lo, f.hi>>)
           d == [c EXCEPT !.allowance = @ - (f.hi - f.lo), !.inbound = in, !.readWaker = FALSE]
<1>1. /\ table'[e] = OnFrame(t, f) /\ table'[e].highest = t.highest /\ t \in Shape /\ ~(ch > t.highest)
  BY TakenFrame
<1>2. f.ch = ch /\ pipe[e] # <<>> /\ f = Head(pipe[e]) /\ UNCHANGED got /\ ~Violates(e, f)
  BY DEF FrameTaken
<1>3. OnFrame(t, f) = OnData(t, f)
  BY DEF OnFrame
<1>4. CASE ~Takes(c)
  <2>1. table'[e] = t
    BY <1>1, <1>2, <1>3, <1>4 DEF OnData, Takes, Has
  <2> QED BY <1>4, <2>1, IgnoredFlow
<1>5. CASE Takes(c)
  <2>0. Has(t, ch) /\ Waiting(e, ch) /\ ~Closed(c) /\ ~c.cancelled
    BY <1>5 DEF Takes, Has, Waiting
  <2>1. c \in ChanRecord /\ c # None /\ Opened(e, ch) /\ c.phase = "open"
    BY <1>2, <2>0, HeldIsOpened, SpokenIsOpen DEF Opened, Has
  <2>2. /\ f.lo \in Nat /\ f.hi \in Nat /\ c.allowance \in Nat /\ c.unreturned \in Nat /\ c.sent \in Nat
        /\ c.inbound \in Seq(Nat \X Nat) /\ got[e][ch] \in Nat /\ WINDOW \in Nat
    BY <2>1, MessageFields, SizesAreNumbers, EndTyped DEF ChanRecord
  <2>3. f.lo <= f.hi /\ Place(e, ch) = f.lo
    <3>1. PICK a, b, z \in Tally : Start(e, ch, a) /\ Moves(e, ch, a, f, b)
      BY <1>2, HeadMoves
    <3> QED BY <1>2, <2>0, <3>1 DEF Start, Moves
  <2>4. ~(f.hi - f.lo > c.allowance)
    BY <1>2, <2>0 DEF Violates
  <2>5. left \in Nat /\ f.hi + left = f.lo + c.allowance
    <3> DEFINE lo == f.lo
               hi == f.hi
               al == c.allowance
    <3>1. lo \in Nat /\ hi \in Nat /\ al \in Nat /\ lo <= hi /\ ~(hi - lo > al) /\ left = al - (hi - lo)
      BY <2>2, <2>3, <2>4
    <3> HIDE DEF lo, hi, al, left
    <3>2. left \in Nat /\ hi + left = lo + al
      BY <3>1
    <3> QED BY <3>2 DEF lo, hi, al
  <2>6. in \in Seq(Nat \X Nat) /\ in # <<>> /\ in[Len(in)][2] = f.hi
    <3> DEFINE q == c.inbound
               x == <<f.lo, f.hi>>
    <3>1. q \in Seq(Nat \X Nat) /\ x \in Nat \X Nat /\ in = Append(q, x) /\ x[2] = f.hi
      BY <2>2
    <3> HIDE DEF q, x, in
    <3>2. Append(q, x) \in Seq(Nat \X Nat) /\ Append(q, x) # <<>> /\ Append(q, x)[Len(Append(q, x))] = x
      BY <3>1
    <3> QED BY <3>1, <3>2
  <2>7. /\ d \in ChanRecord /\ d.inbound = in /\ d.sent = c.sent /\ d.phase = c.phase /\ d.credit = c.credit
        /\ d.peerClosed = c.peerClosed /\ d.localClose = c.localClose /\ d.cancelled = c.cancelled
        /\ d.allowance = left /\ d.unreturned = c.unreturned
    <3>1. d = [c EXCEPT !.allowance = left, !.inbound = in, !.readWaker = FALSE]
      OBVIOUS
    <3> HIDE DEF c, in, left, d
    <3> QED BY <2>1, <2>5, <2>6, <3>1 DEF ChanRecord
  <2>a. d # None
    BY <2>7, ChansAreNotNone
  <2>8. table'[e].chans[ch] = d
    <3>1. table'[e] = Put(t, ch, d)
      BY <1>1, <1>2, <1>3, <2>0 DEF OnData
    <3> HIDE DEF t, d
    <3> QED BY <1>1, <2>7, <3>1, PutTouches
  <2> HIDE DEF d, in, left
  <2>9. Opened(e, ch)' /\ Has(table'[e], ch) /\ Alive(e, ch) /\ ~Unanswered(e, ch) /\ ~Unanswered(e, ch)' /\ ~Refused(e, ch)'
    BY <1>1, <2>0, <2>1, <2>7, <2>8, <2>a DEF Opened, Has, Alive, Unanswered, Refused
  <2>10. Place(e, ch)' = f.hi
    BY <2>6, <2>7, <2>8, <2>a DEF Place, Position
  <2>11. SentBy(e, ch)' = SentBy(e, ch) /\ Spend(e, ch)' = Spend(e, ch) /\ Room(e, ch)' = Room(e, ch)
    <3>1. Room(e, ch)' = f.hi + left /\ Room(e, ch) = f.lo + c.allowance
      BY <2>1, <2>3, <2>7, <2>8, <2>9, <2>10 DEF Room
    <3> QED BY <2>0, <2>1, <2>5, <2>7, <2>8, <2>9, <3>1 DEF SentBy, Spend
  <2>12. Local(e, ch)'
    <3>1. /\ f.lo + c.unreturned + c.allowance = got[e][ch] + WINDOW
          /\ \A i \in 1..Len(c.inbound) : c.inbound[i][2] <= f.lo
      BY <2>0, <2>1, <2>3 DEF FlowInv, Local
    <3>2. f.hi + c.unreturned + left = got[e][ch] + WINDOW
      <4> DEFINE lo == f.lo
                 hi == f.hi
                 al == c.allowance
                 un == c.unreturned
                 s == got[e][ch] + WINDOW
      <4>0. s \in Nat
        BY <2>2, SumsOfNumbers
      <4>1. /\ lo \in Nat /\ hi \in Nat /\ al \in Nat /\ un \in Nat /\ left \in Nat /\ s \in Nat
            /\ lo + un + al = s /\ hi + left = lo + al
        <5> HIDE DEF s
        <5> QED BY <2>2, <2>5, <3>1, <4>0 DEF s
      <4> HIDE DEF lo, hi, al, un, s
      <4>2. hi + un + left = s
        BY <4>1
      <4> QED BY <4>2 DEF hi, un, s
    <3>3. \A i \in 1..Len(in) : in[i][2] <= f.hi
      <4> DEFINE q == c.inbound
                 x == <<f.lo, f.hi>>
                 n == Len(q)
      <4>1. /\ q \in Seq(Nat \X Nat) /\ in = Append(q, x) /\ x \in Nat \X Nat /\ x[2] = f.hi
            /\ \A i \in 1..n : q[i][2] <= f.lo
        BY <2>2, <3>1 DEF in
      <4> HIDE DEF q, x
      <4>a. n \in Nat /\ \A i \in 1..n : q[i] \in Nat \X Nat
        BY <4>1
      <4>2. Len(in) = n + 1 /\ in[n + 1] = x /\ \A i \in 1..n : in[i] = q[i]
        BY <4>1
      <4> HIDE DEF n
      <4>3. \A i \in 1..n : q[i][2] \in Nat
        BY <4>a
      <4>4. \A i \in 1..n : q[i][2] <= f.hi
        BY <2>2, <2>3, <4>1, <4>3
      <4>5. \A i \in 1..n + 1 : i \in 1..n \/ i = n + 1
        BY <4>a
      <4>6. f.hi <= f.hi
        BY <2>2
      <4> QED BY <4>1, <4>2, <4>4, <4>5, <4>6
    <3> QED BY <1>2, <2>1, <2>7, <2>8, <2>10, <3>2, <3>3 DEF Local
  <2>13. ASSUME NEW x \in Ends, NEW a \in Tally, TopAt(x, e, ch, a) PROVE TopAt(x, e, ch, a)'
    BY <1>1, <2>1, <2>9, <2>13 DEF TopAt
  <2>14. Peer(e) \in Ends /\ Peer(e) # e /\ Peer(Peer(e)) = e
    BY PeerFacts DEF Peer, Ends
  <2>t. /\ \A x \in Ends, k \in Ch : x # e \/ k # ch => Settled(x, k)
        /\ Wire(e) # <<>> /\ Head(Wire(e)) = f /\ Wire(e)' = Tail(Wire(e)) /\ Wire(Peer(e))' = Wire(Peer(e))
    BY TakenFrame
  <2>15. KeepsStart(Peer(e), ch) /\ KeepsFinish(e, ch) /\ KeepsBound(Peer(e), ch)
    BY <2>14, <2>t, CalmKeeps DEF Settled
  <2>16. KeepsFinish(Peer(e), ch)
    BY <2>9, <2>11, <2>13, <2>14 DEF KeepsFinish, Finish
  <2>17. KeepsBound(e, ch)
    BY <2>9, <2>11 DEF KeepsBound, Bound
  <2> HIDE DEF c, t
  <2>18. ASSUME NEW a \in Tally, NEW b \in Tally, Start(e, ch, a), Moves(e, ch, a, f, b)
         PROVE  Start(e, ch, b)'
    <3>1. b.top = a.top /\ b.pos = f.hi /\ b.lim = a.lim
      BY <1>2, <2>18 DEF Moves, Becomes
    <3>2. TopAt(e, e, ch, b)'
      <4>1. TopAt(e, e, ch, a)'
        BY <2>13, <2>18 DEF Start
      <4> QED BY <3>1, <4>1 DEF TopAt
    <3>3. Spend(e, ch)' <= b.lim
      BY <2>9, <2>11, <2>18, <3>1 DEF Start
    <3> QED BY <2>10, <3>1, <3>2, <3>3 DEF Start
  <2>19. Flowing(e, ch)'
    <3> HIDE DEF Tally
    <3> QED BY <2>15, <2>17, <2>18, <2>t, FlowTakes DEF FlowInv, KeepsFinish, KeepsBound
  <2>20. Flowing(Peer(e), ch)'
    BY <2>14, <2>15, <2>16, <2>t, FlowStands DEF FlowInv
  <2> QED BY <2>9, <2>12, <2>19, <2>20, TakesStep
<1> QED BY <1>4, <1>5

\* The window's record of a channel once its open is answered.
LEMMA AnsweredChan ==
    ASSUME LinkInv, FlowInv, NEW f \in Message, NEW ch \in Ch, FrameTaken("window", f, ch),
           f.kind \in {"opened", "refused"}
    PROVE  LET c == table["window"].chans[ch]
               y == table'["window"].chans[ch]
           IN  /\ Has(table["window"], ch) /\ c \in ChanRecord /\ c.phase = "opening" /\ Takes(c)
               /\ got["window"][ch] = 0 /\ c.inbound = <<>> /\ c.sent = 0
               /\ y # None =>
                    /\ y.phase = (IF f.kind = "opened" THEN "open" ELSE "refused")
                    /\ y.phase = "open" => y.credit = WINDOW /\ y.allowance = WINDOW
                    /\ y.inbound = <<>> /\ y.sent = 0 /\ y.unreturned = 0 /\ y.peerClosed = "no"
<1> DEFINE e == "window"
           t == table[e]
           c == t.chans[ch]
           g == [Granted(c) EXCEPT !.localClose = IF c.released THEN "reset" ELSE @]
           r == [c EXCEPT !.phase = "refused"]
<1>1. e \in Ends /\ f.ch = ch /\ ~Violates(e, f) /\ table'[e] = OnFrame(t, f) /\ t \in Shape
  BY TakenFrame DEF FrameTaken, Ends
<1>2. Has(t, ch) /\ c.phase = "opening"
  BY <1>1 DEF Violates
<1>3. c \in ChanRecord /\ c # None
  BY <1>1, <1>2, HeldIsOpened DEF Has
<1>4. Slot(e, c, user[e][ch], t.down, accepted[e][ch])
  BY <1>1 DEF LinkInv, Slots
<1>5. c.sent = 0
  <2>1. c.sent \in Nat /\ c.queued \in Nat /\ c.sent <= c.queued /\ c.queued <= 0
    BY <1>2, <1>3, <1>4 DEF Slot, Written, ChanRecord
  <2> QED BY <2>1
<1>6. got[e][ch] = 0 /\ c.inbound = <<>> /\ c.unreturned = 0 /\ c.peerClosed = "no"
  BY <1>1, <1>2 DEF FlowInv, Local
<1>7. Takes(c)
  BY <1>2, <1>3, <1>4, <1>6 DEF Takes, Slot, Closing, Closed
<1>8. /\ Woken(g) \in ChanRecord /\ Woken(g).phase = "open" /\ Woken(g).credit = WINDOW /\ Woken(g).allowance = WINDOW
      /\ Woken(g).inbound = c.inbound /\ Woken(g).sent = c.sent /\ Woken(g).unreturned = c.unreturned
      /\ Woken(g).peerClosed = c.peerClosed
  <2> HIDE DEF c
  <2> QED BY <1>3, SizesAreNumbers DEF ChanRecord, Woken, Granted, Reasons
<1>9. /\ Woken(r) \in ChanRecord /\ Woken(r).phase = "refused"
      /\ Woken(r).inbound = c.inbound /\ Woken(r).sent = c.sent /\ Woken(r).unreturned = c.unreturned
      /\ Woken(r).peerClosed = c.peerClosed
  <2> HIDE DEF c
  <2> QED BY <1>3 DEF ChanRecord, Woken
<1> DEFINE d == IF f.kind = "opened" THEN Woken(g) ELSE Woken(r)
<1>10. OnFrame(t, f) = Reaped(Put(t, ch, d), ch)
  BY <1>1 DEF OnFrame, OnOpenAnswer
<1>11. d \in ChanRecord
  BY <1>8, <1>9
<1> HIDE DEF g, r
<1>12. /\ d.phase = (IF f.kind = "opened" THEN "open" ELSE "refused")
       /\ d.phase = "open" => d.credit = WINDOW /\ d.allowance = WINDOW
       /\ d.inbound = <<>> /\ d.sent = 0 /\ d.unreturned = 0 /\ d.peerClosed = "no"
  BY <1>5, <1>6, <1>8, <1>9
<1> HIDE DEF d
<1>13. table'[e].chans[ch] \in {d, None}
  <2>1. Put(t, ch, d) \in Shape /\ Put(t, ch, d).chans[ch] = d
    <3> HIDE DEF t
    <3> QED BY <1>1, <1>11, PutTouches DEF Touches
  <2>2. Put(Put(t, ch, d), ch, None).chans[ch] = None
    <3> HIDE DEF t
    <3> QED BY <2>1, PutTouches
  <2> QED BY <1>1, <1>10, <2>1, <2>2 DEF Reaped
<1> QED BY <1>2, <1>3, <1>5, <1>6, <1>7, <1>12, <1>13

LEMMA AnswerTakenFlow ==
    ASSUME LinkInv, FlowInv, NEW e \in Ends, NEW f \in Message, NEW ch \in Ch, FrameTaken(e, f, ch),
           f.kind \in {"opened", "refused"}
    PROVE  FlowInv'
<1> DEFINE c == table[e].chans[ch]
           y == table'[e].chans[ch]
<1>1. e = "window" /\ f.ch = ch /\ UNCHANGED got
  BY DEF FrameTaken, Violates
<1>2. /\ "router" \in Ends /\ "window" \in Ends /\ Peer(e) = "router" /\ Peer("router") = "window"
      /\ "router" # e
  BY <1>1 DEF Ends, Peer
<1>3. /\ Has(table[e], ch) /\ c \in ChanRecord /\ c.phase = "opening" /\ Takes(c)
      /\ got[e][ch] = 0 /\ c.inbound = <<>> /\ c.sent = 0
      /\ y # None => /\ y.phase = (IF f.kind = "opened" THEN "open" ELSE "refused")
                     /\ y.phase = "open" => y.credit = WINDOW /\ y.allowance = WINDOW
                     /\ y.inbound = <<>> /\ y.sent = 0 /\ y.unreturned = 0 /\ y.peerClosed = "no"
  BY <1>1, AnsweredChan
<1>4. /\ table'[e].highest = table[e].highest /\ ~(ch > table[e].highest)
      /\ \A x \in Ends, k \in Ch : x # e \/ k # ch => Settled(x, k)
      /\ Wire(e) # <<>> /\ Head(Wire(e)) = f /\ Wire(e)' = Tail(Wire(e)) /\ Wire(Peer(e))' = Wire(Peer(e))
  BY TakenFrame
<1>5. Settled("router", ch)
  BY <1>2, <1>4
<1>6. Place(e, ch) = 0 /\ Place(e, ch)' = 0
  BY <1>1, <1>3 DEF Place, Position
<1>7. /\ Opened(e, ch)' => f.kind = "opened"
      /\ Refused(e, ch)' => f.kind = "refused"
      /\ ~Unanswered(e, ch)' /\ Unanswered(e, ch) /\ Waiting(e, ch) /\ ~Opened(e, ch) /\ Alive(e, ch)
  BY <1>3, <1>4 DEF Opened, Refused, Unanswered, Waiting, Alive, Has
<1> HIDE DEF c, y
<1>8. Even(e, ch)
  <2>1. Alive(e, ch)' => Has(table'[e], ch) /\ y # None
    BY <1>4 DEF Alive, Has, y
  <2>2. SentBy(e, ch) = 0 /\ (Alive(e, ch)' => SentBy(e, ch)' = 0)
    BY <1>3, <2>1 DEF SentBy, c, y
  <2>3. Spend(e, ch) = WINDOW /\ Room(e, ch) = WINDOW
    BY <1>7 DEF Spend, Room
  <2>4. Alive(e, ch)' => Spend(e, ch)' = WINDOW /\ Room(e, ch)' = WINDOW
    <3>1. 0 + WINDOW = WINDOW
      BY SizesAreNumbers
    <3>2. Alive(e, ch)' /\ Opened(e, ch)' => Spend(e, ch)' = 0 + WINDOW /\ Room(e, ch)' = 0 + WINDOW
      BY <1>3, <1>6, <2>1 DEF Spend, Room, Opened, y
    <3>3. ~Opened(e, ch)' => Spend(e, ch)' = WINDOW /\ Room(e, ch)' = WINDOW
      BY DEF Spend, Room
    <3> QED BY <3>1, <3>2, <3>3
  <2> QED BY <1>6, <1>7, <2>2, <2>3, <2>4 DEF Even
<1>9. Local(e, ch)'
  <2>1. 0 + 0 + WINDOW = 0 + WINDOW /\ Len(<<>>) = 0
    BY SizesAreNumbers
  <2>2. y # None => Len(y.inbound) = 0
    BY <1>3, <2>1
  <2>3. Has(table'[e], ch) => y # None
    BY DEF Has, y
  <2> QED BY <1>1, <1>2, <1>3, <1>6, <2>1, <2>2, <2>3 DEF Local, y
<1>10. /\ KeepsStart("router", ch) /\ KeepsBound("router", ch) /\ KeepsFinish(e, ch) /\ KeepsBound(e, ch)
  BY <1>1, <1>2, <1>5, <1>8, CalmKeeps, EvenKeeps DEF Settled
<1>11. KeepsFinish("router", ch)
  <2>1. ASSUME NEW z \in Tally, Finish("router", ch, z) PROVE Finish("router", ch, z)'
    <3>1. TopAt("router", e, ch, z)'
      BY <1>1, <1>2, <1>4, <2>1 DEF Finish, TopAt
    <3> QED BY <1>1, <1>2, <1>8, <2>1, <3>1, EvenKeeps
  <2> QED BY <2>1 DEF KeepsFinish
<1>12. ASSUME NEW a \in Tally, NEW b \in Tally, Start(e, ch, a), Moves(e, ch, a, f, b)
       PROVE  Start(e, ch, b)'
  <2>1. b.top = (IF f.kind = "opened" THEN 1 ELSE 2) /\ b.pos = a.pos /\ b.lim = a.lim
    BY <1>1, <1>12 DEF Moves, Becomes
  <2>2. TopAt(e, e, ch, b)'
    BY <1>1, <1>7, <2>1 DEF TopAt
  <2>3. a.lim <= b.lim
    BY <2>1 DEF Tally
  <2> QED BY <1>8, <1>12, <2>1, <2>2, <2>3, EvenKeeps
<1>13. Flowing(e, ch)'
  <2> HIDE DEF Tally
  <2> QED BY <1>4, <1>10, <1>12, FlowTakes DEF FlowInv, KeepsFinish, KeepsBound
<1>14. Flowing("router", ch)'
  BY <1>2, <1>4, <1>10, <1>11, FlowStands DEF FlowInv
<1> QED BY <1>2, <1>7, <1>9, <1>13, <1>14, TakesStep

\* The router's new channel, or its refusal for want of room.
LEMMA OpenTakenFlow ==
    ASSUME LinkInv, FlowInv, NEW e \in Ends, NEW f \in Message, NEW ch \in Ch, ch = f.ch,
           ~Violates(e, f), f.kind = "open", pipe[e] # <<>>, f = Head(pipe[e]),
           table' = [table EXCEPT ![e] = OnFrame(table[e], f)], pipe' = [pipe EXCEPT ![e] = Tail(@)],
           UNCHANGED <<accepted, got>>
    PROVE  FlowInv'
<1> DEFINE t == table[e]
           raised == [t EXCEPT !.highest = ch]
           c == NewChan("opening")
           r == [kind |-> "refused", ch |-> ch]
<1>1. ch = t.highest + 1 /\ e = "router"
  BY DEF Violates
<1>2. t \in Shape /\ raised \in Shape /\ raised.highest = ch /\ raised.chans = t.chans /\ raised.ops = t.ops
  BY Histories DEF Shape
<1>3. r \in Op /\ r \in Message /\ c \in ChanRecord /\ r.kind = "refused" /\ r.ch = ch
  BY MessagesMade, NewSlot
<1>a. c # None
  BY <1>3, ChansAreNotNone
<1>4. OnFrame(t, f) \in {Queue(raised, r), Put(raised, ch, c)}
  BY DEF OnFrame, OnOpenRequest
<1>5. t.chans[ch] = None
  <2>1. ch > t.highest
    <3>1. t.highest \in Nat
      BY <1>2, ChansAreNumbers
    <3> QED BY <1>1, <3>1
  <2> QED BY <2>1 DEF LinkInv, Fresh
<1> HIDE DEF raised, c, r
<1>6. /\ Touches(raised, Queue(raised, r), ch) /\ Queue(raised, r).chans = raised.chans
      /\ Queue(raised, r).ops = Append(t.ops, r)
      /\ Touches(raised, Put(raised, ch, c), ch) /\ Put(raised, ch, c).chans[ch] = c
      /\ Put(raised, ch, c).ops = t.ops
  BY <1>2, <1>3, PutTouches, QueueTouches
<1>7. PICK s : s \in {Queue(raised, r), Put(raised, ch, c)} /\ table' = [table EXCEPT ![e] = s]
  BY <1>4
<1>8. /\ s \in Shape /\ s.highest = ch /\ s.chans[ch] \in {None, NewChan("opening")}
      /\ \A k \in Ch : k # ch => s.chans[k] = t.chans[k]
  BY <1>2, <1>5, <1>6, <1>7 DEF Touches, c
<1>9. \/ s.chans[ch] # None /\ s.ops = t.ops
      \/ s.chans[ch] = None /\ s.ops = Append(t.ops, r)
  BY <1>2, <1>5, <1>6, <1>7, <1>a
<1>10. AddsChannel(e, ch, s)
  BY <1>1, <1>7, <1>8 DEF AddsChannel
<1>11. /\ table'[e] = s /\ (\A x \in Ends, k \in Ch : x # e => table'[x] = table[x] /\ Settled(x, k))
       /\ Unanswered(e, ch) /\ (s.chans[ch] = None => ~Alive(e, ch)' /\ ~Unanswered(e, ch)')
       /\ \A k \in Ch : /\ Even(e, k) /\ NoAnswer(e, k) /\ Local(e, k)'
                        /\ k # ch \/ s.chans[ch] # None => (Unanswered(e, k)' <=> Unanswered(e, k))
  BY <1>10, OpensEven
<1>12. /\ "window" \in Ends /\ Peer(e) = "window" /\ Peer("window") = e /\ "window" # e
  BY <1>1 DEF Ends, Peer
<1>13. table'["window"] = table["window"] /\ \A k \in Ch : Settled("window", k)
  BY <1>11, <1>12
<1>14. pipe'[e] = Tail(pipe[e]) /\ pipe'["window"] = pipe["window"]
  BY <1>12, Histories DEF PipesTyped
<1> HIDE DEF t
<1>15. Wire(e) \in Seq(Message) /\ Wire(e) # <<>> /\ Head(Wire(e)) = f /\ Wire(e)' = Tail(Wire(e))
  BY <1>12, <1>13, <1>14, WireHead DEF Wire
<1>16. \/ s.chans[ch] # None /\ Wire("window")' = Wire("window")
       \/ s.chans[ch] = None /\ Wire("window")' = Append(Wire("window"), r)
  <2>1. CASE s.chans[ch] # None /\ s.ops = t.ops
    BY <1>11, <1>12, <1>14, <2>1 DEF Wire, t
  <2>2. CASE s.chans[ch] = None /\ s.ops = Append(t.ops, r)
    <3>1. table'[e].ops = Append(table[e].ops, r)
      BY <1>11, <2>2 DEF t
    <3>2. Wire("window")' = Append(Wire("window"), r)
      BY <1>3, <1>12, <1>14, <3>1, WireGains
    <3> QED BY <2>2, <3>2
  <2> QED BY <1>9, <2>1, <2>2
<1>17. \A k \in Ch : /\ KeepsStart("window", k) /\ KeepsBound("window", k) /\ KeepsFinish(e, k) /\ KeepsBound(e, k)
  BY <1>11, <1>12, <1>13, CalmKeeps, EvenKeeps DEF Settled
<1>18. ASSUME NEW k \in Ch PROVE Flowing(e, k)'
  <2>1. ASSUME NEW a \in Tally, NEW b \in Tally, Start(e, k, a), Moves(e, k, a, f, b)
        PROVE  Start(e, k, b)'
    <3>1. b.top = ch /\ b.pos = a.pos /\ b.lim = a.lim
      BY <2>1 DEF Moves, Becomes
    <3>2. TopAt(e, e, k, b)'
      BY <1>1, <1>8, <1>11, <3>1 DEF TopAt
    <3>3. a.lim <= b.lim
      BY <3>1 DEF Tally
    <3> QED BY <1>11, <2>1, <3>1, <3>2, <3>3, EvenKeeps
  <2> HIDE DEF Tally
  <2> QED BY <1>15, <1>17, <2>1, FlowTakes DEF FlowInv, KeepsFinish, KeepsBound
<1>19. ASSUME NEW k \in Ch, k # ch \/ s.chans[ch] # None PROVE KeepsFinish("window", k)
  <2>1. ASSUME NEW z \in Tally, Finish("window", k, z) PROVE Finish("window", k, z)'
    <3>1. TopAt("window", e, k, z)'
      BY <1>11, <1>12, <1>19, <2>1 DEF Finish, TopAt, NoAnswer
    <3> QED BY <1>11, <1>12, <2>1, <3>1, EvenKeeps
  <2> QED BY <2>1 DEF KeepsFinish
<1>20. ASSUME NEW k \in Ch PROVE Flowing("window", k)'
  <2>1. CASE s.chans[ch] # None
    BY <1>12, <1>16, <1>17, <1>19, <2>1, FlowStands DEF FlowInv
  <2>2. CASE s.chans[ch] = None /\ k # ch
    BY <1>3, <1>12, <1>16, <1>17, <1>19, <2>2, FlowPasses DEF FlowInv
  <2>3. CASE s.chans[ch] = None /\ k = ch
    <3>1. ~Refused(e, ch)' /\ ~Unanswered(e, ch)'
      BY <1>11, <2>3 DEF Refused, Has
    <3> QED BY <1>1, <1>3, <1>11, <1>13, <1>16, <2>3, <3>1, AnswerSent
  <2> QED BY <2>1, <2>2, <2>3
<1>21. ASSUME NEW k \in Ch, Unanswered("window", k)' PROVE Asks(Wire("router")', k)
  <2>1. Unanswered("window", k)
    BY <1>13, <1>21 DEF Settled, Calm
  <2>2. Asks(Wire("router"), k)
    BY <1>12, <2>1 DEF FlowInv, Unasked
  <2> QED BY <1>1, <1>15, <2>2, AsksSteps
<1>22. \A k \in Ch : Unasked(k)'
  BY <1>21 DEF Unasked, Asks
<1>23. ASSUME NEW x \in Ends, NEW k \in Ch PROVE Local(x, k)' /\ Flowing(x, k)'
  BY <1>1, <1>11, <1>13, <1>18, <1>20 DEF Ends, Settled
<1> QED BY <1>22, <1>23 DEF FlowInv

LEMMA DeliverFlow ==
    ASSUME LinkInv, FlowInv, NEW e \in Ends, Deliver(e)
    PROVE  FlowInv' /\ broken' = broken
<1>1. /\ task[e] = "running" /\ pipe[e] # <<>> /\ pipe' = [pipe EXCEPT ![e] = Tail(@)]
      /\ UNCHANGED <<accepted, got>>
  BY DEF Deliver
<1>2. PICK f \in Message : f = Head(pipe[e])
  BY <1>1, HeadOfPipe
<1>3. PICK ch \in Ch : ch = f.ch
  BY MessageFields
<1>4. \A x \in Ends : task'[x] = "running" => task[x] = "running"
  BY <1>1, Histories DEF Deliver, PipesTyped
<1>5. ~Violates(e, f)
  BY <1>1, <1>2, NeverViolates
<1>6. table' = [table EXCEPT ![e] = OnFrame(table[e], f)] /\ broken' = broken
  BY <1>2, <1>5 DEF Deliver
<1>7. CASE f.kind = "open"
  BY <1>1, <1>2, <1>3, <1>5, <1>6, <1>7, OpenTakenFlow
<1>8. CASE f.kind # "open"
  <2>1. FrameTaken(e, f, ch)
    BY <1>1, <1>2, <1>3, <1>4, <1>5, <1>6, <1>8 DEF FrameTaken
  <2>2. f.kind \in {"data", "credit", "close", "opened", "refused"}
    BY <1>8, MessageFields
  <2>3. FlowInv'
    BY <2>1, <2>2, DataTakenFlow, CreditTakenFlow, CloseTakenFlow, AnswerTakenFlow
  <2> QED BY <1>6, <2>3
<1> QED BY <1>7, <1>8

LEMMA InitFlow == Init => FlowInv
<1> SUFFICES ASSUME Init, NEW p \in Ends, NEW k \in Ch PROVE Local(p, k) /\ Flowing(p, k) /\ Unasked(k)
  BY DEF FlowInv
<1> DEFINE c == NewChan("open")
<1>0. Peer(p) \in Ends /\ k \in Nat /\ 0 \in Nat /\ WINDOW \in Nat
  BY PeerFacts, ChansAreNumbers, SizesAreNumbers
<1>1. \A e \in Ends : /\ table[e].chans[k] = (IF k = 0 THEN NewChan("open") ELSE None) /\ table[e].highest = 0
                      /\ table[e].ops = <<>> /\ got[e][k] = 0 /\ pipe[e] = <<>>
  BY DEF Init, NewTable
<1>2. /\ c.inbound = <<>> /\ c.sent = 0 /\ c.peerClosed = "no" /\ c.phase = "open" /\ c.unreturned = 0
      /\ c.credit = WINDOW /\ c.allowance = WINDOW
  BY DEF NewChan
<1>3. c # None
  BY NewSlot, ChansAreNotNone
<1> HIDE DEF c
<1>4. \A e \in Ends : /\ Has(table[e], k) <=> k = 0
                      /\ Opened(e, k) <=> k = 0
                      /\ ~Refused(e, k) /\ Alive(e, k) /\ (Unanswered(e, k) <=> k # 0)
  <2>1. k > 0 <=> k # 0
    BY <1>0
  <2> QED BY <1>1, <1>2, <1>3, <2>1 DEF Has, Opened, Refused, Alive, Unanswered, c
<1>5. \A e \in Ends : Place(e, k) = 0 /\ SentBy(e, k) = 0
  BY <1>1, <1>2, <1>4 DEF Place, Position, SentBy, c
<1>6. \A e \in Ends : Spend(e, k) = WINDOW /\ Room(e, k) = WINDOW
  <2>1. 0 + WINDOW = WINDOW
    BY <1>0
  <2> QED BY <1>1, <1>2, <1>4, <1>5, <2>1 DEF Spend, Room, c
<1>7. Local(p, k)
  <2>1. 0 + 0 + WINDOW = 0 + WINDOW /\ Len(<<>>) = 0
    BY <1>0
  <2> QED BY <1>1, <1>2, <1>4, <1>5, <2>1 DEF Local, c
<1>8. \A e \in Ends : Wire(e) = <<>> /\ Len(Wire(e)) = 0
  <2>1. <<>> \o <<>> = <<>> /\ Len(<<>>) = 0
    OBVIOUS
  <2> QED BY <1>1, <2>1, PeerFacts DEF Wire
<1>9. Unasked(k)
  BY <1>8 DEF Unasked, Asks, Ends
<1>10. PICK a \in Tally : a.top = (IF p = "router" \/ k # 0 THEN 0 ELSE 1) /\ a.pos = 0 /\ a.lim = WINDOW
  <2>1. [top |-> IF p = "router" \/ k # 0 THEN 0 ELSE 1, pos |-> 0, lim |-> WINDOW] \in Tally
    BY <1>0 DEF Tally
  <2> QED BY <2>1
<1>11. Walk(p, k, Wire(p), a, a)
  <2>1. PICK m : m = [i \in 1..1 |-> a]
    OBVIOUS
  <2>2. m \in [1..Len(Wire(p)) + 1 -> Tally] /\ m[1] = a /\ m[Len(Wire(p)) + 1] = a
    BY <1>8, <2>1
  <2> QED BY <1>8, <2>2 DEF Walk
<1>12. \A d \in Ends : TopAt(p, d, k, a)
  BY <1>1, <1>4, <1>10 DEF TopAt
<1>13. Start(p, k, a) /\ Finish(p, k, a) /\ Bound(p, k, a)
  <2>1. WINDOW <= WINDOW /\ 0 <= WINDOW /\ WINDOW <= 0 + WINDOW
    BY <1>0
  <2> QED BY <1>0, <1>5, <1>6, <1>10, <1>12, <2>1 DEF Start, Finish, Bound
<1> QED BY <1>7, <1>9, <1>11, <1>13 DEF Flowing

LEMMA NextFlow == LinkInv /\ StreamInv /\ FlowInv /\ [Next]_vars => FlowInv' /\ (NoViolation => NoViolation')
<1> SUFFICES ASSUME LinkInv, StreamInv, FlowInv, [Next]_vars PROVE FlowInv' /\ broken' = broken
  BY DEF NoViolation
<1>w. "window" \in Ends
  BY DEF Ends
<1>1. CASE \E e \in Ends : Deliver(e)
  BY <1>1, DeliverFlow
<1>2. CASE \E e \in Ends : NextOut(e)
  BY <1>2, NextOutFlow DEF NextOut
<1>3. CASE \E ch \in Ch, ok \in BOOLEAN : Connected(ch, ok)
  BY <1>3, ConnectedFlow DEF Connected
<1>4. CASE \E e \in Ends, ch \in Ch : \E n \in 1..CHUNK : Read(e, ch, n)
  <2>1. PICK e \in Ends, ch \in Ch, n \in 1..CHUNK : Read(e, ch, n)
    BY <1>4
  <2>2. broken' = broken
    BY <2>1 DEF Read
  <2> QED BY <2>1, <2>2, ReadFlow
<1>5. CASE \E e \in Ends, ch \in Ch :
             \/ ReadWaits(e, ch)
             \/ \E n \in 1..CHUNK : Write(e, ch, n)
             \/ WriteWaits(e, ch)
             \/ Flush(e, ch) \/ Shutdown(e, ch) \/ Release(e, ch)
  <2>1. FlowInv'
    BY <1>5, UserSettled
  <2>2. broken' = broken
    <3>1. PICK e \in Ends, ch \in Ch :
            \/ ReadWaits(e, ch)
            \/ \E n \in 1..CHUNK : Write(e, ch, n)
            \/ WriteWaits(e, ch)
            \/ Flush(e, ch) \/ Shutdown(e, ch) \/ Release(e, ch)
      BY <1>5
    <3>2. CASE ReadWaits(e, ch) \/ WriteWaits(e, ch)
      BY <3>2 DEF ReadWaits, WriteWaits, UserStep
    <3>3. CASE \E n \in 1..CHUNK : Write(e, ch, n)
      BY <3>3 DEF Write, UserStep
    <3>4. CASE Flush(e, ch) \/ Release(e, ch)
      BY <3>4 DEF Flush, Release
    <3>5. CASE Shutdown(e, ch)
      BY <3>5 DEF Shutdown, UserStep
    <3> QED BY <3>1, <3>2, <3>3, <3>4, <3>5
  <2> QED BY <2>1, <2>2
<1>6. CASE \E ch \in Ch : Cancel(ch) \/ PollOpen(ch) \/ Abandon(ch)
  <2>1. FlowInv'
    BY <1>6, <1>w, UserSettled, OpenerSettled
  <2>2. broken' = broken
    BY <1>6 DEF Cancel, PollOpen, Abandon, UserStep
  <2> QED BY <2>1, <2>2
<1>7. CASE BeginOpen
  BY <1>7, BeginOpenFlow DEF BeginOpen
<1>8. CASE DropLink
  BY <1>8, <1>w, EndSettled DEF DropLink
<1>9. CASE \E e \in Ends : EndLink(e)
  BY <1>9, EndSettled DEF EndLink
<1>10. CASE UNCHANGED vars \/ \E e \in Ends : StopTask(e) \/ PeerGone(e) \/ LinkFails(e)
  <2>1. UNCHANGED <<table, pipe, got, broken>>
    BY <1>10 DEF StopTask, PeerGone, LinkFails, vars
  <2>2. \A x \in Ends, k \in Ch : Settled(x, k)
    BY <2>1, UntouchedSettled
  <2> QED BY <2>1, <2>2, WiresStand, SettledStep
<1> QED BY <1>1, <1>2, <1>3, <1>4, <1>5, <1>6, <1>7, <1>8, <1>9, <1>10 DEF Next

LEMMA CreditInvHolds == Spec => [](LinkInv /\ StreamInv /\ CreditInv)
<1>1. Init => LinkInv /\ StreamInv /\ CreditInv
  BY InitLinkInv, InitStreamInv, InitFlow DEF CreditInv, NoViolation, Init
<1>2. LinkInv /\ StreamInv /\ CreditInv /\ [Next]_vars => LinkInv' /\ StreamInv' /\ CreditInv'
  BY NextLinkInv, NextStreamInv, NextFlow DEF CreditInv
<1> QED BY <1>1, <1>2, PTL DEF Spec

\* Two ends that run this code never break the link's rules, whatever opens,
\* closes, cancels, abandons and failures cross on the wire, and however many
\* channels and bytes the link carries: no data beyond what was allowed, no credit
\* beyond the window, no frame for a channel never opened, no open out of order
\* and no answer nobody asked for (the Err of every Table::on_*).
THEOREM TheRulesAreKept == Spec => []NoViolation
BY CreditInvHolds, PTL DEF CreditInv

\* Credit is conserved on every channel open at both ends: what its sender sent
\* and may send never passes what the receiver read, holds and has room for, and
\* what the receiver holds, read and has not returned, and allows, is one window
\* (next_out, on_data, read, on_credit, Chan::grant).
THEOREM CreditIsConserved == Spec => []CreditConserved
<1>1. LinkInv /\ StreamInv /\ CreditInv => CreditConserved
  <2> SUFFICES ASSUME LinkInv, StreamInv, FlowInv, NEW e \in Ends, NEW ch \in Ch, BothOpen(ch)
               PROVE  LET s == table[e].chans[ch]  r == table[Peer(e)].chans[ch]
                      IN  /\ s.sent + s.credit <= got[Peer(e)][ch] + Buffered(r) + r.allowance
                          /\ Buffered(r) + r.unreturned + r.allowance = WINDOW
    BY DEF CreditConserved, CreditInv
  <2> DEFINE p == Peer(e)
             r == table[p].chans[ch]
             g == got[p][ch]
             n == Buffered(r)
             room == r.allowance
             un == r.unreturned
             place == Place(p, ch)
             spend == Spend(e, ch)
  <2>1. p \in Ends /\ Peer(p) = e
    BY PeerFacts
  <2>2. Opened(e, ch) /\ Opened(p, ch) /\ Alive(e, ch) /\ Alive(p, ch)
    BY <2>1 DEF BothOpen, Opened, Alive
  <2>3. g + n = place
    BY <2>1, <2>2, HeldBytes DEF Place, Opened
  <2>4. place + un + room = g + WINDOW
    BY <2>1, <2>2 DEF FlowInv, Local, Opened
  <2>5. spend <= place + room /\ spend = table[e].chans[ch].sent + table[e].chans[ch].credit
    BY <2>1, <2>2, CreditIsBacked DEF Room, Spend
  <2>6. r \in ChanRecord
    BY <2>1, <2>2, HeldIsOpened DEF Opened
  <2>7. /\ un \in Nat /\ room \in Nat /\ g \in Nat /\ place \in Nat /\ WINDOW \in Nat
        /\ Chain(r.inbound, g)
    BY <2>1, <2>2, <2>6, EndTyped, SizesAreNumbers, HeldChannel DEF ChanRecord, Opened
  <2>8. n \in Int
    <3> DEFINE q == r.inbound
    <3>1. q \in Seq(Nat \X Nat)
      BY <2>6 DEF ChanRecord
    <3>2. n = IF q = <<>> THEN 0 ELSE q[Len(q)][2] - q[1][1]
      BY DEF Buffered
    <3> HIDE DEF q, n
    <3>3. q # <<>> => q[Len(q)] \in Nat \X Nat /\ q[1] \in Nat \X Nat
      BY <3>1
    <3>4. q # <<>> => q[Len(q)][2] \in Nat /\ q[1][1] \in Nat
      BY <3>3
    <3> QED BY <3>2, <3>4
  <2> HIDE DEF p, r, g, n, room, un, place, spend
  <2>9. spend <= g + n + room /\ n + un + room = WINDOW
    <3>1. n + un + room = WINDOW
      BY <2>3, <2>4, <2>7, <2>8
    <3> QED BY <2>3, <2>5, <3>1
  <2> QED BY <2>5, <2>9 DEF p, r, g, n, room, un
<1> QED BY <1>1, CreditInvHolds, PTL
=============================================================================
