--------------------------------- MODULE Scan ---------------------------------
(***************************************************************************)
(* What a scan promises, whatever the engine does inside: every target     *)
(* waits, is connected to once, and gets its final finish callback once;   *)
(* at most Cap connections are open; an IPV4TargetSet is gone through one  *)
(* host after the other, and a host is handed to step_done with the report *)
(* of its last port, no sooner and no later.                               *)
(*                                                                         *)
(* AsyncEngine implements this specification (ScanImplemented there);      *)
(* SavedState builds on it.                                                *)
(***************************************************************************)
EXTENDS Integers, FiniteSets

CONSTANTS
    All,            \* the targets of the scan: pairs of an address and a port
    TracksPorts,    \* TRUE for IPV4TargetSet
    Cap             \* connections allowed

VARIABLES
    waiting,    \* targets not drawn yet
    flying,     \* targets with a connection
    reported,   \* targets whose finish callback was called for good
    flagged     \* hosts handed to step_done

scan == <<waiting, flying, reported, flagged>>

OfHost(h) == {t \in All : t[1] = h}
HostsOf(S) == {t[1] : t \in S}

\* Hosts that have nothing left to report when R is reported.
Complete(R) == {h \in HostsOf(All) : OfHost(h) \subseteq R}

ScanInit == waiting = All /\ flying = {} /\ reported = {} /\ flagged = {}

\* Only one host is partly drawn: the others are not begun, or exhausted.
InOrder(t) ==
    TracksPorts =>
        \A h \in HostsOf(waiting) \ {t[1]} : OfHost(h) \subseteq waiting

\* A connection to t is opened.
Launch(t) ==
    /\ t \in waiting /\ InOrder(t)
    /\ Cardinality(flying) < Cap
    /\ waiting' = waiting \ {t} /\ flying' = flying \cup {t}
    /\ UNCHANGED <<reported, flagged>>

\* The connection to t is over.
Report(t) ==
    /\ t \in flying
    /\ flying' = flying \ {t} /\ reported' = reported \cup {t}
    /\ flagged' = IF TracksPorts
                  THEN flagged \cup (Complete(reported') \cap {t[1]})
                  ELSE flagged
    /\ UNCHANGED waiting

\* connect() failed at once: t never had a connection.
Refuse(t) ==
    /\ ~TracksPorts
    /\ t \in waiting
    /\ waiting' = waiting \ {t} /\ reported' = reported \cup {t}
    /\ UNCHANGED <<flying, flagged>>

ScanNext == \E t \in All : Launch(t) \/ Report(t) \/ Refuse(t)

ScanSpec == ScanInit /\ [][ScanNext]_scan
=============================================================================
