-------------------------- MODULE DaemonEnd_proofs --------------------------
(* Theorems about DaemonEnd, for every set of children and callers of exit  *)
(* and every load.  Each invariant below is what one of the properties      *)
(* needs to be inductive.                                                   *)
EXTENDS DaemonEnd, TLAPS

(***************************************************************************)
(* The types the invariants need.                                          *)
(***************************************************************************)
LeadType == [st : {"unborn", "running", "zombie", "reaped"}, asked : BOOLEAN]

EndTypes ==
    /\ trees \in SUBSET Child
    /\ own \in [Child -> OwnerPc]
    /\ lead \in [Child -> LeadType]
    /\ kid \in [Child -> {"none", "alive", "killed", "zombie", "gone"}]
    /\ guard \in [pc : {"watching", "draining", "listing", "killing", "gone"},
                  leads : SUBSET Child, kids : SUBSET Child, late : BOOLEAN]

(***************************************************************************)
(* Why no request is stray.                                                *)
(***************************************************************************)
Keeping == {"owning", "seen", "killing", "dropping", "removing"}
Unreaped == {"running", "zombie"}

\* A registered tree's owner has not let go of its child, and while the daemon
\* lives no child is reaped before its owner is done with it.  What the guard has
\* listed it has not reaped, and it lists only after the daemon.
RegisteredIsKept == \A c \in trees : own[c] \in Keeping
KeptIsUnreaped ==
    Up => \A c \in Child :
            own[c] \in Keeping \cup {"created", "reaping", "lastreap", "letgo", "orphaned"}
              => lead[c].st \in Unreaped
ListedIsUnreaped ==
    /\ guard.pc # "watching" => ~Up
    /\ guard.pc # "killing" => guard.leads = {} /\ guard.kids = {}
    /\ \A c \in guard.leads : lead[c].st \in Unreaped
    /\ \A c \in guard.kids : kid[c] \in {"alive", "killed", "zombie"}

StrayInv == EndTypes /\ RegisteredIsKept /\ KeptIsUnreaped /\ ListedIsUnreaped /\ ~stray

(***************************************************************************)
(* Why the fire misses no child.                                           *)
(***************************************************************************)
Answered == fire \in {"ok", "failed"}

\* A creation holds the mutex to its end; once the fire is published none begins,
\* so none is under way when it has answered.
CreatorHolds == \A c \in Child : own[c] \in {"creating", "created"} => mutex = c
FireIsPublished == fire \in {"published", "ok", "failed"} => fired
NoneIsComing == Answered => \A c \in Child : own[c] \notin {"creating", "created"}

\* What runs unasked is registered, about to be, or let go of.
Unborn == \A c \in Child : own[c] \in {"idle", "creating", "refused"} => lead[c].st = "unborn"
UnaskedIsKnown ==
    \A c \in Child : lead[c].st = "running" /\ ~lead[c].asked =>
        c \in trees \/ own[c] \in LetGo \cup {"created"}

FireInv == /\ CreatorHolds /\ FireIsPublished /\ NoneIsComing /\ Unborn /\ UnaskedIsKnown
           /\ fire = "ok" => trees = {}

(***************************************************************************)
(* Why a retired chat stays stopped.                                       *)
(***************************************************************************)
ChatType == [begin : {"none", "locked", "registered", "done"}, listed : BOOLEAN,
             phase : {"off", "starting", "running", "stopping"},
             task : {"none", "starting", "made", "failed", "ended"}, aborted : BOOLEAN,
             service : {"none", "up", "stopping", "gone"}]

ChatInv ==
    /\ chat \in ChatType
    /\ retire \in [taken : BOOLEAN, pc : {"none", "asking", "waiting", "done"}]
    /\ chat.listed => chat.begin \in {"registered", "done"}
    /\ retire.pc # "none" => chat.listed
    /\ retire.pc \in {"waiting", "done"} =>
         chat.begin = "done" /\ chat.phase \notin {"starting", "running"}

(***************************************************************************)
(* Requests.                                                               *)
(***************************************************************************)

\* A request leaves every leader in its state, and one that was delivered is known
\* by the leader; it is stray only if a leader it names was reaped.
LEMMA RequestAsks ==
    ASSUME lead \in [Child -> LeadType], NEW C \in SUBSET Child, NEW out \in [C -> Outcome],
           Request(C, out)
    PROVE  /\ lead' \in [Child -> LeadType]
           /\ \A c \in Child : lead'[c].st = lead[c].st /\ (lead[c].asked => lead'[c].asked)
           /\ \A c \in C : out[c] = "done" /\ lead[c].st = "running" => lead'[c].asked
           /\ (\A c \in C : lead[c].st \in Unreaped) /\ ~stray => ~stray'
<1>1. \A c \in C : Delivered(lead[c], out[c]) \in LeadType
  BY DEF Delivered, LeadType
<1>2. \A c \in C : /\ Delivered(lead[c], out[c]).st = lead[c].st
                   /\ lead[c].asked => Delivered(lead[c], out[c]).asked
                   /\ out[c] = "done" /\ lead[c].st = "running"
                        => Delivered(lead[c], out[c]).asked
  BY DEF Delivered, LeadType
<1>3. lead' = [c \in Child |-> IF c \in C THEN Delivered(lead[c], out[c]) ELSE lead[c]]
  BY DEF Request
<1>4. stray' = (stray \/ \E c \in C : lead[c].st = "reaped")
  BY DEF Request
<1> QED BY <1>1, <1>2, <1>3, <1>4 DEF Unreaped

\* The same for the request of one tree, as its owner makes it.
LEMMA OneRequestAsks ==
    ASSUME lead \in [Child -> LeadType], NEW c \in Child, NEW how \in Outcome,
           Request({c}, [x \in {c} |-> how])
    PROVE  /\ lead' \in [Child -> LeadType]
           /\ \A x \in Child : lead'[x].st = lead[x].st /\ (lead[x].asked => lead'[x].asked)
           /\ how = "done" /\ lead[c].st = "running" => lead'[c].asked
           /\ lead[c].st \in Unreaped /\ ~stray => ~stray'
<1> DEFINE out == [x \in {c} |-> how]
<1>1. {c} \in SUBSET Child /\ out \in [{c} -> Outcome] /\ out[c] = how
  OBVIOUS
<1>2. Request({c}, out)
  OBVIOUS
<1> HIDE DEF out
<1> QED BY <1>1, <1>2, RequestAsks

\* Held::release moves the owner and takes the tree out of the registry together;
\* a tree it leaves registered leaves its owner where the failure puts it.
LEMMA ReleaseAsks ==
    ASSUME EndTypes, NEW c \in Child, NEW ok \in OwnerPc, NEW bad \in OwnerPc,
           Release(c, ok, bad)
    PROVE  /\ lead' \in [Child -> LeadType] /\ own' \in [Child -> OwnerPc]
           /\ \A x \in Child : lead'[x].st = lead[x].st /\ (lead[x].asked => lead'[x].asked)
           /\ \A x \in Child : x # c => own'[x] = own[x]
           /\ \/ /\ own'[c] = ok /\ trees' = trees \ {c}
                 /\ c \in trees /\ lead[c].st = "running" => lead'[c].asked
              \/ own'[c] = bad /\ trees' = trees
           /\ (c \in trees => lead[c].st \in Unreaped) /\ ~stray => ~stray'
<1>1. CASE c \notin trees
  <2>1. own' = [own EXCEPT ![c] = ok] /\ lead' = lead /\ trees' = trees /\ stray' = stray
    BY <1>1 DEF Release, Goes, NoRequest, asks
  <2> QED BY <1>1, <2>1 DEF EndTypes
<1>2. CASE c \in trees
  <2>1. PICK how \in Outcome :
          /\ Request({c}, [x \in {c} |-> how])
          /\ IF how = "done" THEN trees' = trees \ {c} /\ Goes(c, ok)
                             ELSE Goes(c, bad) /\ UNCHANGED trees
    BY <1>2 DEF Release
  <2>2. /\ lead' \in [Child -> LeadType]
        /\ \A x \in Child : lead'[x].st = lead[x].st /\ (lead[x].asked => lead'[x].asked)
        /\ how = "done" /\ lead[c].st = "running" => lead'[c].asked
        /\ lead[c].st \in Unreaped /\ ~stray => ~stray'
    BY <2>1, OneRequestAsks DEF EndTypes
  <2>3. CASE how = "done"
    <3>1. own' = [own EXCEPT ![c] = ok] /\ trees' = trees \ {c}
      BY <2>1, <2>3 DEF Goes
    <3>2. lead[c].st = "running" => lead'[c].asked
      BY <2>2, <2>3
    <3>3. own' \in [Child -> OwnerPc] /\ own'[c] = ok /\ \A x \in Child : x # c => own'[x] = own[x]
      BY <3>1 DEF EndTypes
    <3>4. (c \in trees => lead[c].st \in Unreaped) /\ ~stray => ~stray'
      BY <1>2, <2>2
    <3> QED BY <2>2, <3>1, <3>2, <3>3, <3>4
  <2>4. CASE how # "done"
    BY <1>2, <2>1, <2>2, <2>4 DEF EndTypes, Goes
  <2> QED BY <2>3, <2>4
<1> QED BY <1>1, <1>2

(***************************************************************************)
(* No request is stray.                                                    *)
(***************************************************************************)
\* The strengthening is an invariant.
LEMMA StrayInvHolds == Spec => []StrayInv
<1>1. Init => StrayInv
  BY DEF Init, StrayInv, EndTypes, LeadType, OwnerPc, RegisteredIsKept, KeptIsUnreaped,
         ListedIsUnreaped, Keeping, Up
<1>2. StrayInv /\ [Next]_vars => StrayInv'
  <2> SUFFICES ASSUME StrayInv, [Next]_vars PROVE StrayInv'
    OBVIOUS
  <2> USE DEF StrayInv, Keeping, Unreaped
  <2>1. ASSUME NEW c \in Child, Owner(c) PROVE StrayInv'
    <3>1. Up /\ Up' /\ guard' = guard /\ kid' = kid
      BY <2>1 DEF Owner, Reserve, Create, Fill, SeeExit, Ask, Reap, ReapFails, Drop, DropKills,
                  DropHeld, Remove, LetItGo, Release, procs, Up
    <3>2. guard.leads = {} /\ guard.kids = {}
      BY <3>1 DEF ListedIsUnreaped
    <3>3. ListedIsUnreaped'
      BY <3>1, <3>2 DEF ListedIsUnreaped
    <3>4. CASE Reserve(c)
      BY <3>1, <3>3, <3>4 DEF Reserve, Goes, procs, asks, EndTypes, RegisteredIsKept,
            KeptIsUnreaped, OwnerPc, LetGo
    <3>5. CASE Create(c)
      <4>1. /\ own[c] = "creating" /\ trees' = trees /\ stray' = stray /\ c \notin trees
            /\ \/ own' = [own EXCEPT ![c] = "created"] /\ lead' = [lead EXCEPT ![c].st = "running"]
               \/ own' = [own EXCEPT ![c] = "refused"] /\ lead' = lead
        BY <3>5 DEF Create, Goes, asks, RegisteredIsKept
      <4>2. [lead[c] EXCEPT !.st = "running"] \in LeadType
        BY DEF EndTypes, LeadType
      <4>3. "created" \in OwnerPc /\ "refused" \in OwnerPc
        BY DEF OwnerPc
      <4>4. lead' \in [Child -> LeadType]
        BY <4>1, <4>2 DEF EndTypes
      <4>5. own' \in [Child -> OwnerPc]
        BY <4>1, <4>3 DEF EndTypes
      <4>6. trees \in SUBSET Child /\ stray' = FALSE
        BY <4>1 DEF EndTypes
      <4>7. \A x \in Child : x # c => own'[x] = own[x] /\ lead'[x] = lead[x]
        BY <4>1 DEF EndTypes
      <4>8. own'[c] \notin Keeping /\ (own'[c] = "created" => lead'[c].st = "running")
        BY <4>1 DEF EndTypes, LeadType
      <4>9. own'[c] \in {"created", "refused"}
        BY <4>1 DEF EndTypes
      <4>10. RegisteredIsKept'
        BY <4>1, <4>6, <4>7 DEF RegisteredIsKept
      <4>11. KeptIsUnreaped'
        BY <3>1, <4>7, <4>8, <4>9 DEF KeptIsUnreaped
      <4> QED BY <3>1, <3>3, <4>1, <4>4, <4>5, <4>6, <4>10, <4>11 DEF EndTypes
    <3>6. CASE Fill(c)
      BY <3>1, <3>3, <3>6 DEF Fill, Goes, procs, asks, EndTypes, RegisteredIsKept,
            KeptIsUnreaped, OwnerPc, LetGo
    <3>7. CASE SeeExit(c)
      BY <3>1, <3>3, <3>7 DEF SeeExit, Goes, procs, asks, signal, EndTypes, RegisteredIsKept,
            KeptIsUnreaped, OwnerPc, LetGo
    <3>8. CASE Reap(c)
      BY <3>1, <3>3, <3>8 DEF Reap, Reaped, Goes, asks, signal, EndTypes, RegisteredIsKept,
            KeptIsUnreaped, OwnerPc, LetGo, LeadType
    <3>9. CASE ReapFails(c)
      BY <3>1, <3>3, <3>9 DEF ReapFails, Goes, procs, asks, signal, EndTypes, RegisteredIsKept,
            KeptIsUnreaped, OwnerPc, LetGo
    <3>10. CASE Drop(c)
      BY <3>1, <3>3, <3>10 DEF Drop, Goes, procs, asks, signal, EndTypes, RegisteredIsKept,
            KeptIsUnreaped, OwnerPc, LetGo
    <3>11. ASSUME NEW ok \in {"reaping", "lastreap", "letgo", "left"},
                  NEW bad \in {"owning", "dropping", "removing"},
                  own[c] \in Keeping, Release(c, ok, bad)
           PROVE  StrayInv'
      <4>1. ok \in OwnerPc /\ bad \in OwnerPc
        BY DEF OwnerPc, LetGo
      <4>2. c \in trees => lead[c].st \in Unreaped
        BY <3>1, <3>11 DEF KeptIsUnreaped
      <4> QED BY <3>1, <3>3, <3>11, <4>1, <4>2, ReleaseAsks
              DEF EndTypes, RegisteredIsKept, KeptIsUnreaped
    <3>12. CASE Ask(c)
      BY <3>11, <3>12 DEF Ask
    <3>13. CASE DropKills(c)
      BY <3>11, <3>13 DEF DropKills
    <3>14. CASE DropHeld(c)
      BY <3>11, <3>14 DEF DropHeld, Freed
    <3>15. CASE Remove(c)
      <4>1. /\ own' = [own EXCEPT ![c] = Freed(c)] /\ trees' = trees \ {c}
            /\ Freed(c) \in {"left", "letgo"} /\ own[c] = "removing"
        BY <3>15 DEF Remove, Goes, Freed
      <4>2. /\ lead' \in [Child -> LeadType] /\ ~stray'
            /\ \A x \in Child : lead'[x].st = lead[x].st
        <5>1. CASE c \in trees
          BY <3>1, <3>15, <5>1, OneRequestAsks DEF Remove, EndTypes, RegisteredIsKept,
                KeptIsUnreaped
        <5>2. CASE c \notin trees
          BY <3>15, <5>2 DEF Remove, NoRequest, asks, EndTypes
        <5> QED BY <5>1, <5>2
      <4> QED BY <3>1, <3>3, <4>1, <4>2 DEF EndTypes, RegisteredIsKept, KeptIsUnreaped,
                OwnerPc, LetGo
    <3>16. CASE LetItGo(c)
      <4>1. /\ own' = [own EXCEPT ![c] = "orphaned"] /\ trees' = trees /\ own[c] = "letgo"
        BY <3>16 DEF LetItGo, Goes, signal
      <4>2. /\ lead' \in [Child -> LeadType] /\ ~stray'
            /\ \A x \in Child : lead'[x].st = lead[x].st
        <5>1. PICK how \in {"done", "none"} : Request({c}, [x \in {c} |-> how])
          BY <3>16 DEF LetItGo
        <5>2. how \in Outcome
          BY DEF Outcome
        <5>3. lead \in [Child -> LeadType] /\ lead[c].st \in Unreaped /\ ~stray
          BY <3>1, <4>1 DEF EndTypes, KeptIsUnreaped
        <5>4. /\ lead' \in [Child -> LeadType] /\ \A x \in Child : lead'[x].st = lead[x].st
              /\ (lead[c].st \in Unreaped /\ ~stray => ~stray')
          BY <5>1, <5>2, <5>3, OneRequestAsks
        <5> QED BY <5>3, <5>4
      <4> QED BY <3>1, <3>3, <4>1, <4>2 DEF EndTypes, RegisteredIsKept, KeptIsUnreaped,
                OwnerPc, LetGo
    <3> QED BY <2>1, <3>4, <3>5, <3>6, <3>7, <3>8, <3>9, <3>10, <3>12, <3>13, <3>14, <3>15,
               <3>16 DEF Owner
  <2>2. ASSUME NEW c \in Child, LeaderExits(c) PROVE StrayInv'
    <3>1. /\ lead' = [lead EXCEPT ![c].st = "zombie"] /\ lead[c].st = "running"
          /\ UNCHANGED <<trees, own, kid, guard, daemon, stray>>
      BY <2>2 DEF LeaderExits, signal, asks
    <3>2. lead' \in [Child -> LeadType] /\ \A x \in Child : x # c => lead'[x] = lead[x]
      BY <3>1 DEF EndTypes, LeadType
    <3>3. lead'[c].st = "zombie"
      BY <3>1 DEF EndTypes, LeadType
    <3> QED BY <3>1, <3>2, <3>3 DEF EndTypes, RegisteredIsKept, KeptIsUnreaped,
              ListedIsUnreaped, Up
  <2>3. ASSUME NEW c \in Child, KidStarts(c) \/ KidExits(c) PROVE StrayInv'
    <3>1. /\ kid' \in [Child -> {"none", "alive", "killed", "zombie", "gone"}]
          /\ \A x \in Child : kid[x] \in {"alive", "killed", "zombie"}
                                => kid'[x] \in {"alive", "killed", "zombie"}
          /\ UNCHANGED <<trees, own, lead, guard, daemon, stray>>
      BY <2>3 DEF KidStarts, KidExits, signal, asks, EndTypes
    <3> QED BY <3>1 DEF EndTypes, RegisteredIsKept, KeptIsUnreaped, ListedIsUnreaped, Up
  <2>4. CASE FireTrees
    <3>1. PICK out \in [trees -> Outcome] :
            Request(trees, out) /\ trees' = {c \in trees : out[c] # "done"}
      BY <2>4 DEF FireTrees
    <3>2. Up /\ UNCHANGED <<own, kid, guard, daemon>>
      BY <2>4 DEF FireTrees
    <3>3. \A c \in trees : lead[c].st \in Unreaped
      BY <3>2 DEF EndTypes, RegisteredIsKept, KeptIsUnreaped
    <3>4. /\ lead' \in [Child -> LeadType] /\ ~stray'
          /\ \A x \in Child : lead'[x].st = lead[x].st
      BY <3>1, <3>3, RequestAsks DEF EndTypes
    <3> QED BY <3>1, <3>2, <3>4 DEF EndTypes, RegisteredIsKept, KeptIsUnreaped,
              ListedIsUnreaped, Up
  <2>5. CASE Killed \/ Exit
    BY <2>5 DEF Killed, Exit, signal, procs, asks, EndTypes, RegisteredIsKept, KeptIsUnreaped,
                ListedIsUnreaped, Up
  <2>6. CASE GuardWatches \/ DrainReaps
    <3>1. /\ guard.leads = {} /\ guard.kids = {} /\ ReapAll
          /\ guard'.leads = {} /\ guard'.kids = {}
          /\ guard'.pc # "watching" => ~Up
          /\ guard' \in [pc : {"watching", "draining", "listing", "killing", "gone"},
                         leads : SUBSET Child, kids : SUBSET Child, late : BOOLEAN]
          /\ UNCHANGED <<trees, own, daemon, stray>>
      BY <2>6 DEF GuardWatches, DrainReaps, ListedIsUnreaped, EndTypes, signal, asks
    <3>2. /\ lead' \in [Child -> LeadType]
          /\ kid' \in [Child -> {"none", "alive", "killed", "zombie", "gone"}]
          /\ Up => lead' = lead
      BY <3>1 DEF ReapAll, LeadIsMine, EndTypes, LeadType
    <3> QED BY <3>1, <3>2 DEF EndTypes, RegisteredIsKept, KeptIsUnreaped, ListedIsUnreaped, Up
  <2>7. CASE DrainLists
    BY <2>7 DEF DrainLists, LeadIsMine, KidIsMine, signal, procs, asks, EndTypes,
                RegisteredIsKept, KeptIsUnreaped, ListedIsUnreaped, Up
  <2>8. CASE DrainKills
    <3>1. /\ ~Up /\ UNCHANGED <<trees, own, daemon>>
          /\ guard'.leads = {} /\ guard'.kids = {} /\ guard'.pc # "watching"
          /\ guard' \in [pc : {"watching", "draining", "listing", "killing", "gone"},
                         leads : SUBSET Child, kids : SUBSET Child, late : BOOLEAN]
      BY <2>8 DEF DrainKills, ListedIsUnreaped, EndTypes, signal
    <3>2. /\ lead' \in [Child -> LeadType]
          /\ kid' \in [Child -> {"none", "alive", "killed", "zombie", "gone"}]
      BY <2>8 DEF DrainKills, Delivered, EndTypes, LeadType
    <3>3. ~stray'
      BY <2>8 DEF DrainKills, ListedIsUnreaped
    <3> QED BY <3>1, <3>2, <3>3 DEF EndTypes, RegisteredIsKept, KeptIsUnreaped,
              ListedIsUnreaped, Up
  <2>9. CASE DrainBound
    BY <2>9 DEF DrainBound, signal, procs, asks, EndTypes, RegisteredIsKept, KeptIsUnreaped,
                ListedIsUnreaped, Up
  <2>10. ASSUME UNCHANGED <<trees, own, lead, kid, guard, daemon, stray>> PROVE StrayInv'
    BY <2>10 DEF EndTypes, RegisteredIsKept, KeptIsUnreaped, ListedIsUnreaped, Up
  <2>11. CASE Chat \/ (\E k \in Caller : Claim(k)) \/ Publish \/ AskStop \/ WaitRetired
              \/ Retire \/ RetireEnds \/ FireStarts \/ FireWaitEnds \/ UNCHANGED vars
    BY <2>10, <2>11 DEF Chat, ChatBegins, ChatRegisters, ChatStarts, StartEnds, StartLands,
          ServiceEnds, Claim, Publish, AskStop, WaitRetired, Retire, RetireEnds, FireStarts,
          FireWaitEnds, vars, signal, procs, asks
  <2> QED BY <2>1, <2>2, <2>3, <2>4, <2>5, <2>6, <2>7, <2>8, <2>9, <2>11
          DEF Next, Terminal, Guard
<1> QED BY <1>1, <1>2, PTL DEF Spec

\* No request, of an owner, the fire, a drop, Tokio or the guard, goes to a pid that
\* was reaped, for any number of children and any requests refused (signal.rs, guard.rs).
THEOREM RequestsAreNeverStray == Spec => []NoStrayRequest
<1>1. StrayInv => NoStrayRequest
  BY DEF StrayInv, NoStrayRequest
<1> QED BY <1>1, StrayInvHolds, PTL

(***************************************************************************)
(* The fire misses no child.                                               *)
(***************************************************************************)

\* A step that leaves the registry, the owners and the fire alone keeps the
\* invariant if no leader starts to run or forgets it was asked.
LEMMA FireInvKept ==
    ASSUME FireInv, UNCHANGED <<fired, trees, mutex, own, fire>>,
           \A x \in Child : /\ lead'[x].st = "running" => lead[x].st = "running"
                            /\ lead[x].st = "unborn" => lead'[x].st = "unborn"
                            /\ lead[x].asked => lead'[x].asked
    PROVE  FireInv'
BY DEF FireInv, CreatorHolds, FireIsPublished, NoneIsComing, Answered, Unborn, UnaskedIsKnown

LEMMA FireInvHolds == Spec => []FireInv
<1>1. Init => FireInv
  BY DEF Init, FireInv, CreatorHolds, FireIsPublished, NoneIsComing, Answered, Unborn,
         UnaskedIsKnown
<1>2. StrayInv /\ FireInv /\ [Next]_vars => FireInv'
  <2> SUFFICES ASSUME StrayInv, FireInv, [Next]_vars PROVE FireInv'
    OBVIOUS
  <2>0. EndTypes /\ RegisteredIsKept
    BY DEF StrayInv
  <2> USE DEF FireInv, CreatorHolds, FireIsPublished, NoneIsComing, Answered, Unborn,
              UnaskedIsKnown
  <2>1. ASSUME NEW c \in Child, Owner(c) PROVE FireInv'
    <3>1. CASE Reserve(c)
      <4>1. UNCHANGED <<fired, trees, lead, fire>> /\ own[c] = "idle" /\ mutex = None
        BY <3>1 DEF Reserve, procs, ends
      <4>2. \A x \in Child : own[x] \notin {"creating", "created"}
        BY <4>1, DaemonEndAssumption DEF None
      <4>3. CASE fired \/ shut
        BY <2>0, <3>1, <4>1, <4>2, <4>3 DEF Reserve, Goes, EndTypes, LetGo
      <4>4. CASE ~(fired \/ shut)
        <5>1. own' = [own EXCEPT ![c] = "creating"] /\ mutex' = c
          BY <3>1, <4>4 DEF Reserve, Goes
        <5>2. ~Answered'
          BY <4>1, <4>4
        <5>3. own'[c] = "creating" /\ \A x \in Child : x # c => own'[x] = own[x]
          BY <2>0, <5>1 DEF EndTypes
        <5>4. UnaskedIsKnown'
          BY <4>1, <5>3 DEF LetGo
        <5> QED BY <4>1, <4>2, <4>4, <5>1, <5>2, <5>3, <5>4
      <4> QED BY <4>3, <4>4
    <3>2. CASE Create(c)
      <4>1. UNCHANGED <<fired, trees, fire>> /\ \A x \in Child : x # c => own'[x] = own[x]
        BY <2>0, <3>2 DEF Create, Goes, ends, EndTypes
      <4>2. CASE own'[c] = "created"
        <5>1. lead' = [lead EXCEPT ![c].st = "running"] /\ mutex' = mutex /\ own[c] = "creating"
          BY <2>0, <3>2, <4>2 DEF Create, Goes, EndTypes
        <5>2. \A x \in Child : x # c => lead'[x] = lead[x]
          BY <2>0, <5>1 DEF EndTypes, LeadType
        <5> QED BY <4>1, <4>2, <5>1, <5>2
      <4>3. CASE own'[c] = "refused"
        <5>1. lead' = lead /\ mutex' = None /\ own[c] = "creating"
          BY <2>0, <3>2, <4>3 DEF Create, Goes, EndTypes
        <5> QED BY <4>1, <4>3, <5>1
      <4> QED BY <2>0, <3>2, <4>2, <4>3 DEF Create, Goes, EndTypes
    <3>3. CASE Fill(c)
      BY <2>0, <3>3 DEF Fill, Goes, procs, ends, EndTypes, OwnerPc, LetGo, LeadType
    <3>4. CASE SeeExit(c) \/ ReapFails(c) \/ Drop(c)
      BY <2>0, <3>4 DEF SeeExit, ReapFails, Drop, Goes, signal, procs, ends, EndTypes, LetGo
    <3>5. CASE Reap(c)
      <4>1. /\ lead' = [lead EXCEPT ![c].st = "reaped"] /\ own' = [own EXCEPT ![c] = "done"]
            /\ UNCHANGED <<fired, trees, mutex, fire>>
        BY <3>5 DEF Reap, Reaped, Goes, signal, ends
      <4>2. lead'[c].st = "reaped" /\ \A x \in Child : x # c => lead'[x] = lead[x]
        BY <2>0, <4>1 DEF EndTypes, LeadType
      <4> QED BY <2>0, <4>1, <4>2 DEF EndTypes
    <3>6. ASSUME NEW ok \in {"reaping", "lastreap", "letgo", "left"},
                 NEW bad \in {"owning", "dropping", "removing"},
                 own[c] \in Keeping, Release(c, ok, bad)
          PROVE  FireInv'
      <4>1. ok \in OwnerPc /\ bad \in OwnerPc
        BY DEF OwnerPc, LetGo
      <4>2. UNCHANGED <<fired, mutex, fire>>
        BY <3>6 DEF Release, ends
      <4>3. \A x \in Child : lead[x].asked \in BOOLEAN /\ lead'[x].asked \in BOOLEAN
        BY <2>0, <3>6, <4>1, ReleaseAsks DEF EndTypes, LeadType
      <4> QED BY <2>0, <3>6, <4>1, <4>2, <4>3, ReleaseAsks DEF Keeping, LetGo
    <3>7. CASE Ask(c)
      BY <3>6, <3>7 DEF Ask, Keeping
    <3>8. CASE DropKills(c)
      BY <3>6, <3>8 DEF DropKills, Keeping
    <3>9. CASE DropHeld(c)
      BY <3>6, <3>9 DEF DropHeld, Freed, Keeping
    <3>10. CASE Remove(c)
      <4>1. /\ own' = [own EXCEPT ![c] = Freed(c)] /\ trees' = trees \ {c}
            /\ Freed(c) \in LetGo /\ own[c] = "removing"
            /\ UNCHANGED <<fired, mutex, fire>>
        BY <3>10 DEF Remove, Goes, Freed, LetGo, ends
      <4>2. \A x \in Child : lead'[x].st = lead[x].st /\ (lead[x].asked => lead'[x].asked)
        <5>1. CASE c \in trees
          <6>1. PICK how \in Outcome : Request({c}, [x \in {c} |-> how])
            BY <3>10, <5>1 DEF Remove
          <6>2. lead \in [Child -> LeadType]
            BY <2>0 DEF EndTypes
          <6> QED BY <6>1, <6>2, OneRequestAsks
        <5>2. CASE c \notin trees
          BY <3>10, <5>2 DEF Remove, NoRequest
        <5> QED BY <5>1, <5>2
      <4> QED BY <2>0, <4>1, <4>2 DEF EndTypes, LetGo
    <3>11. CASE LetItGo(c)
      <4>1. /\ own' = [own EXCEPT ![c] = "orphaned"] /\ own[c] = "letgo"
            /\ UNCHANGED <<fired, trees, mutex, fire>>
        BY <3>11 DEF LetItGo, Goes, signal, ends
      <4>2. \A x \in Child : lead'[x].st = lead[x].st /\ (lead[x].asked => lead'[x].asked)
        <5>1. PICK how \in {"done", "none"} : Request({c}, [x \in {c} |-> how])
          BY <3>11 DEF LetItGo
        <5>2. how \in Outcome
          BY DEF Outcome
        <5>3. lead \in [Child -> LeadType]
          BY <2>0 DEF EndTypes
        <5> QED BY <5>1, <5>2, <5>3, OneRequestAsks
      <4> QED BY <2>0, <4>1, <4>2 DEF EndTypes, LetGo
    <3> QED BY <2>1, <3>1, <3>2, <3>3, <3>4, <3>5, <3>7, <3>8, <3>9, <3>10, <3>11 DEF Owner
  <2>2. ASSUME NEW c \in Child, LeaderExits(c) PROVE FireInv'
    <3>1. /\ lead' = [lead EXCEPT ![c].st = "zombie"] /\ lead[c].st = "running"
          /\ UNCHANGED <<fired, trees, mutex, own, fire>>
      BY <2>2 DEF LeaderExits, signal, ends
    <3>2. \A x \in Child : /\ lead'[x].st = IF x = c THEN "zombie" ELSE lead[x].st
                           /\ lead'[x].asked = lead[x].asked
      BY <2>0, <3>1 DEF EndTypes, LeadType
    <3> QED BY <3>1, <3>2, FireInvKept
  <2>3. CASE FireTrees
    <3>1. PICK out \in [trees -> Outcome] :
            Request(trees, out) /\ trees' = {c \in trees : out[c] # "done"}
      BY <2>3 DEF FireTrees
    <3>2. /\ UNCHANGED <<own, fired, mutex>> /\ fire = "published" /\ mutex = None
          /\ fire' = IF trees' = {} THEN "ok" ELSE "failed"
      BY <2>3 DEF FireTrees
    <3>3. \A c \in Child : own[c] \notin {"creating", "created"}
      BY <3>2, DaemonEndAssumption DEF None
    <3>4. /\ \A x \in Child : lead'[x].st = lead[x].st /\ (lead[x].asked => lead'[x].asked)
          /\ \A c \in trees : out[c] = "done" /\ lead[c].st = "running" => lead'[c].asked
      BY <2>0, <3>1, RequestAsks DEF EndTypes
    <3> QED BY <3>1, <3>2, <3>3, <3>4
  <2>4. CASE Publish
    BY <2>4 DEF Publish, procs
  <2>5. CASE FireStarts
    BY <2>5 DEF FireStarts, signal, procs
  <2>6. CASE GuardWatches \/ DrainReaps
    <3>1. UNCHANGED <<fired, trees, mutex, own, fire>> /\ ReapAll
      BY <2>6 DEF GuardWatches, DrainReaps, signal, ends
    <3>2. \A x \in Child : /\ lead'[x].st = "running" => lead[x].st = "running"
                           /\ lead[x].st = "unborn" => lead'[x].st = "unborn"
                           /\ lead[x].asked => lead'[x].asked
      BY <2>0, <3>1 DEF ReapAll, LeadIsMine, EndTypes, LeadType
    <3> QED BY <3>1, <3>2, FireInvKept
  <2>7. CASE DrainKills
    <3>1. UNCHANGED <<fired, trees, mutex, own, fire>>
      BY <2>7 DEF DrainKills, signal, ends
    <3>2. \A x \in Child : /\ lead'[x].st = lead[x].st
                           /\ lead[x].asked => lead'[x].asked
      BY <2>0, <2>7 DEF DrainKills, Delivered, EndTypes, LeadType
    <3> QED BY <3>1, <3>2, FireInvKept
  <2>8. ASSUME UNCHANGED <<fired, trees, mutex, own, fire, lead>> PROVE FireInv'
    BY <2>8, FireInvKept
  <2>9. CASE \/ \E c \in Child : KidStarts(c) \/ KidExits(c)
             \/ Chat \/ (\E k \in Caller : Claim(k)) \/ AskStop \/ WaitRetired \/ Retire
             \/ RetireEnds \/ FireWaitEnds \/ Exit \/ Killed \/ DrainLists \/ DrainBound
             \/ UNCHANGED vars
    BY <2>8, <2>9 DEF KidStarts, KidExits, Chat, ChatBegins, ChatRegisters, ChatStarts,
          StartEnds, StartLands, ServiceEnds, Claim, AskStop, WaitRetired, Retire, RetireEnds,
          FireWaitEnds, Exit, Killed, DrainLists, DrainBound, vars, signal, procs, ends
  <2> QED BY <2>1, <2>2, <2>3, <2>4, <2>5, <2>6, <2>7, <2>9 DEF Next, Terminal, Guard
<1> QED BY <1>1, <1>2, StrayInvHolds, PTL DEF Spec

\* When the fire has answered, every leader that still runs was asked, or is
\* still registered after a refusal, or was let go by an owner whose requests were
\* all refused: for any number of children, creations and refusals (fire, reserve).
THEOREM TheFireMissesNone == Spec => []FireMissesNone
<1>1. FireInv => FireMissesNone
  BY DEF FireInv, FireMissesNone, NoneIsComing, Answered, UnaskedIsKnown
<1> QED BY <1>1, FireInvHolds, PTL

(***************************************************************************)
(* A retired chat stays stopped.                                           *)
(***************************************************************************)

\* Whatever begin, the start task and the retire thread do in whatever order, the
\* chat neither starts nor runs once retirement asked it to stop (begin's phase
\* lock, request_stop).
THEOREM ARetiredChatStaysStopped == Spec => []RetiredStaysStopped
<1>1. Init => ChatInv
  BY DEF Init, ChatInv, ChatType
<1>2. ChatInv /\ [Next]_vars => ChatInv'
  <2> SUFFICES ASSUME ChatInv, [Next]_vars PROVE ChatInv'
    OBVIOUS
  <2>1. CASE ChatBegins
    BY <2>1 DEF ChatBegins, ChatInv, ChatType
  <2>2. CASE ChatRegisters
    BY <2>2 DEF ChatRegisters, ChatInv, ChatType
  <2>3. CASE ChatStarts
    BY <2>3 DEF ChatStarts, ChatInv, ChatType
  <2>4. CASE StartEnds
    BY <2>4 DEF StartEnds, ChatInv, ChatType
  <2>5. CASE StartLands
    <3> DEFINE mine == chat.phase = "starting"
               phase == CASE mine /\ chat.task = "made"   -> "running"
                          [] mine /\ chat.task = "failed" -> "off"
                          [] OTHER                        -> chat.phase
               service == CASE chat.task = "failed" -> chat.service
                            [] mine                 -> "up"
                            [] OTHER                -> "stopping"
    <3>1. /\ retire' = retire
          /\ chat' = [chat EXCEPT !.task = "ended", !.phase = phase, !.service = service]
      BY <2>5 DEF StartLands
    <3>2. /\ phase \in {"off", "starting", "running", "stopping"}
          /\ phase \in {"starting", "running"} => chat.phase \in {"starting", "running"}
      BY DEF ChatInv, ChatType
    <3>3. service \in {"none", "up", "stopping", "gone"}
      BY DEF ChatInv, ChatType
    <3> HIDE DEF phase, service
    <3>4. chat' \in ChatType
      BY <3>1, <3>2, <3>3 DEF ChatInv, ChatType
    <3>5. chat'.begin = chat.begin /\ chat'.listed = chat.listed /\ chat'.phase = phase
      BY <3>1 DEF ChatInv, ChatType
    <3> QED BY <3>1, <3>2, <3>4, <3>5 DEF ChatInv
  <2>6. CASE ServiceEnds
    BY <2>6 DEF ServiceEnds, ChatInv, ChatType
  <2>7. CASE Retire
    <3>1. chat' = chat
      BY <2>7 DEF Retire
    <3>2. CASE chat.listed /\ retire' = [taken |-> TRUE, pc |-> "asking"]
      BY <3>1, <3>2 DEF ChatInv, ChatType
    <3>3. CASE retire' = [retire EXCEPT !.taken = TRUE]
      <4>1. /\ retire'.pc = retire.pc
            /\ retire' \in [taken : BOOLEAN, pc : {"none", "asking", "waiting", "done"}]
        BY <3>3 DEF ChatInv, ChatType
      <4> QED BY <3>1, <4>1 DEF ChatInv, ChatType
    <3> QED BY <2>7, <3>2, <3>3 DEF Retire
  <2>8. CASE AskStop
    BY <2>8 DEF AskStop, Locked, ChatInv, ChatType
  <2>9. CASE WaitRetired
    BY <2>9 DEF WaitRetired, ChatInv, ChatType
  <2>10. ASSUME UNCHANGED <<chat, retire>> PROVE ChatInv'
    BY <2>10 DEF ChatInv, ChatType
  <2>11. ASSUME NEW c \in Child, Owner(c) \/ LeaderExits(c) \/ KidStarts(c) \/ KidExits(c)
         PROVE  ChatInv'
    BY <2>10, <2>11 DEF Owner, Reserve, Create, Fill, SeeExit, Ask, Reap, ReapFails, Drop,
          DropKills, DropHeld, Remove, LetItGo, Release, LeaderExits, KidStarts, KidExits, retires
  <2>12. CASE \/ (\E k \in Caller : Claim(k)) \/ Publish \/ FireTrees \/ RetireEnds \/ FireStarts
              \/ FireWaitEnds \/ Exit \/ Killed \/ Guard \/ DrainBound \/ UNCHANGED vars
    BY <2>10, <2>12 DEF Claim, Publish, FireTrees, RetireEnds, FireStarts, FireWaitEnds, Exit,
          Killed, Guard, GuardWatches, DrainReaps, DrainLists, DrainKills, DrainBound, vars, retires
  <2> QED BY <2>1, <2>2, <2>3, <2>4, <2>5, <2>6, <2>7, <2>8, <2>9, <2>11, <2>12
          DEF Next, Chat, Terminal
<1>3. ChatInv => RetiredStaysStopped
  BY DEF ChatInv, RetiredStaysStopped
<1> QED BY <1>1, <1>2, <1>3, PTL DEF Spec
=============================================================================
