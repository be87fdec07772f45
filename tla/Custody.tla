------------------------------ MODULE Custody ------------------------------
(***************************************************************************)
(* What the window lease promises about this computer's sessions, with no  *)
(* daemon in it: a session set is held by a window, lingers for a bounded  *)
(* time, is kept open-ended, or is being ended.  Daemon kills and restarts *)
(* are not steps of this specification: they must be invisible in it.      *)
(***************************************************************************)
EXTENDS Naturals

CONSTANTS HandoverBound, MaxClock, None

VARIABLES
    clock, custody, until,
    intent,  \* what last decided who keeps the sessions
    turn     \* flips at each decision of a window and each finished end

cvars == <<clock, custody, until, intent, turn>>

Custodies == {"held", "bounded", "kept", "ending"}

Until(now) == IF now + HandoverBound <= MaxClock THEN now + HandoverBound ELSE MaxClock

Init == clock = 0 /\ custody = "kept" /\ until = None
        /\ intent = "ended" /\ turn = FALSE

Lapsed == custody = "bounded" /\ until <= clock

\* A window takes the sessions: any number may, until their end begins.
Take ==
    /\ custody # "ending"
    /\ custody' = "held" /\ until' = None /\ intent' = "held"
    /\ UNCHANGED <<clock, turn>>

\* The last window is gone and asked for nothing more than a handover.
Leave ==
    /\ custody # "ending"
    /\ custody' = "bounded" /\ until' = Until(clock) /\ intent' = "handover"
    /\ turn' = ~turn
    /\ UNCHANGED clock

\* The windows' daemon was lost with them still there: bounded, once.
Lost ==
    /\ custody = "held"
    /\ custody' = "bounded" /\ until' = Until(clock) /\ intent' = "lost"
    /\ UNCHANGED <<clock, turn>>

\* The last window asked to keep: the one way to an open end.
Keep ==
    /\ custody # "ending"
    /\ custody' = "kept" /\ until' = None /\ intent' = "keep"
    /\ turn' = ~turn
    /\ UNCHANGED clock

\* The last window closed.
Close ==
    /\ custody' = "ending" /\ until' = None /\ intent' = "close"
    /\ turn' = ~turn
    /\ UNCHANGED clock

\* A deadline passed with no window: their end begins.
Expire ==
    /\ Lapsed
    /\ custody' = "ending" /\ until' = None
    /\ UNCHANGED <<clock, intent, turn>>

\* The machine restarted: whatever a window held or a deadline bounded ends.
Reboot ==
    /\ custody' = "ending" /\ until' = None
    /\ UNCHANGED <<clock, intent, turn>>

\* While their end is under way windows come and go, and none takes the
\* sessions back.
Ending ==
    /\ custody = "ending" \/ Lapsed
    /\ UNCHANGED <<clock, custody, until>>
    /\ intent' \in {"held", "handover", "keep", "close", "ended"}
    /\ turn' \in BOOLEAN

\* Their end is done; windows that came meanwhile hold, or left, the next ones.
Ended ==
    /\ custody = "ending" \/ Lapsed
    /\ \/ custody' = "held" /\ until' = None /\ intent' = "held"
       \/ /\ custody' = "bounded" /\ until' \in 0..Until(clock)
          /\ intent' = "handover"
       \/ custody' = "kept" /\ until' = None /\ intent' \in {"keep", "ended"}
    /\ turn' = ~turn
    /\ UNCHANGED clock

Advance ==
    /\ clock < MaxClock /\ clock' = clock + 1
    /\ UNCHANGED <<custody, until, intent, turn>>

Next ==
    \/ Take \/ Leave \/ Lost \/ Keep \/ Close
    \/ Expire \/ Reboot \/ Ending \/ Ended \/ Advance

Spec == Init /\ [][Next]_cvars
============================================================================
