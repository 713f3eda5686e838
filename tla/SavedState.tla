------------------------------ MODULE SavedState ------------------------------
(***************************************************************************)
(* A scan over an IPV4TargetSet that is saved, interrupted and resumed:    *)
(* save_state and restore_state (src/src/target_set.cpp), the autosave of  *)
(* the engine (src/src/engine.cpp, end of do_async_scan), an exception     *)
(* raised by a callback (src/bindings/python), and the process being       *)
(* killed at any point, also while the file is written.                    *)
(*                                                                         *)
(* The scan itself is the module Scan, which AsyncEngine implements; its   *)
(* variables are the memory of one process.  Nothing but the file outlives *)
(* a process.                                                              *)
(*                                                                         *)
(* leeloo, which keeps the walk over the addresses (_rand_v4), is not part *)
(* of the repository.  From how it is used: a restored walk goes through   *)
(* every host whose step was not done when it was saved, in any order; the *)
(* host it starts at is the saved one or any of those.                     *)
(***************************************************************************)
EXTENDS Scan

CONSTANTS
    MaxStarts,  \* bound: times the process is started
    NoHost,     \* the walk over the hosts is at its end
    NoFile, Truncated

Hosts == HostsOf(All)
Ports == {t[2] : t \in All}

\* The file: the steps done, the host of the current step, and the ports of it
\* that _rand_port has not drawn. lost is a history field, see below.
States == [done : SUBSET Hosts, host : Hosts \cup {NoHost},
           left : SUBSET Ports, lost : SUBSET All]

ASSUME SavedStateAssumption ==
    /\ TracksPorts
    /\ All # {} /\ All = Hosts \X Ports
    /\ Cap \in Nat /\ MaxStarts \in Nat
    /\ NoHost \notin Hosts
    /\ NoFile \notin States /\ Truncated \notin States

VARIABLES
    mode,   \* "off": no process; "running"; "saving": between the two halves
            \* of save_state; "raised": a callback's exception left launch();
            \* "over": do_async_scan returned
    cur,    \* the host of _rand_v4's current step
    file,   \* the file of auto_save_state and save_state
    starts, \* times the process was started
    \* history
    after,  \* the mode to go back to when the file is written
    ever,   \* targets whose finish callback ran, in any process
    missed, \* ports of the first host that a resumed scan does not draw
    lost    \* what was in flight when the state that was resumed was saved, and
            \* the one that one came from

vars == <<scan, mode, cur, file, starts, after, ever, missed, lost>>

\* Ports of the current step still to draw. Past the last host _rand_port was
\* initialised again and nothing drawn from it.
Left == IF cur = NoHost THEN Ports
        ELSE {t[2] : t \in {u \in waiting : u[1] = cur}}

Init ==
    /\ ScanInit
    /\ mode = "off" /\ cur = NoHost /\ file = NoFile /\ starts = 0
    /\ after = "off" /\ ever = {} /\ missed = {} /\ lost = {}

---------------------------------------------------------------------------
(* Starting a process.                                                    *)

\* launch(): IPV4TargetSet::init starts the walk from nothing, whatever a
\* restore_state before it read. Without a process the memory is that of a
\* fresh one.
launch ==
    /\ mode = "off" /\ starts < MaxStarts
    /\ cur' \in Hosts
    /\ mode' = "running" /\ starts' = starts + 1
    /\ UNCHANGED <<scan, file, after, ever, missed, lost>>

\* Fault: the host the walk was at is restored as done.
Fault_restore_state ==
    /\ mode = "off" /\ starts < MaxStarts /\ file \in States
    /\ waiting' = {t \in All : t[1] \notin file.done \cup {file.host}}
    /\ UNCHANGED <<flying, reported>>
    /\ flagged' = file.done \cup ({file.host} \ {NoHost})
    /\ cur' = file.host /\ missed' = {} /\ lost' = file.lost
    /\ mode' = "running" /\ starts' = starts + 1
    /\ UNCHANGED <<file, after, ever>>

\* restore_state followed by launch_shrd(), which does not initialise the
\* walk. Reading an absent or a truncated file throws. The host h the walk
\* starts at gets the ports that were left when the state was saved.
restore_state ==
    /\ mode = "off" /\ starts < MaxStarts /\ file \in States
    /\ \E h \in (Hosts \ file.done) \cup {file.host} :
          /\ cur' = h
          /\ missed' = {t \in OfHost(h) : t[2] \notin file.left}
          /\ lost' = IF h = file.host THEN file.lost ELSE All
          /\ waiting' = {t \in All : t[1] \notin file.done \cup {h}}
                        \cup {t \in OfHost(h) : t[2] \in file.left}
    /\ flagged' = file.done
    /\ mode' = "running" /\ starts' = starts + 1
    /\ UNCHANGED <<flying, reported, file, after, ever>>

---------------------------------------------------------------------------
(* The scan.                                                              *)

memory == <<mode, file, starts, after, missed, lost>>

\* Fault: the target stays in the walk.
Fault_next_target(t) ==
    /\ mode = "running" /\ t \in waiting
    /\ Cardinality(flying) < Cap
    /\ flying' = flying \cup {t}
    /\ cur' = t[1]
    /\ UNCHANGED <<waiting, reported, flagged, memory, ever>>

\* next_target: the ports of the current host, then another host.
next_target(t) ==
    /\ mode = "running"
    /\ (\E u \in waiting : u[1] = cur) => t[1] = cur
    /\ Launch(t)
    /\ cur' = t[1]
    /\ UNCHANGED <<memory, ever>>

\* next_target returned end.
next_target_end ==
    /\ mode = "running" /\ waiting = {} /\ cur # NoHost
    /\ cur' = NoHost
    /\ UNCHANGED <<scan, memory, ever>>

\* Fault: the host is handed to step_done with the report before the last.
Fault_socket_finished(t) ==
    /\ mode = "running" /\ t \in flying
    /\ flying' = flying \ {t} /\ reported' = reported \cup {t}
    /\ flagged' = flagged \cup (IF Cardinality(OfHost(t[1]) \ reported') < 2
                                THEN {t[1]} ELSE {})
    /\ ever' = ever \cup {t}
    /\ UNCHANGED <<waiting, memory, cur>>

\* socket_finished: the finish callback, then target_finished.
socket_finished(t) ==
    /\ mode = "running"
    /\ Report(t)
    /\ ever' = ever \cup {t}
    /\ UNCHANGED <<memory, cur>>

\* A callback raised: the exception leaves launch(). X is the target whose
\* finish callback it was, if it was one: target_finished has not run then.
callback_raises ==
    /\ mode = "running" /\ mode' = "raised"
    /\ \E X \in {{}} \cup {{t} : t \in flying} : ever' = ever \cup X
    /\ UNCHANGED <<scan, cur, file, starts, after, missed, lost>>

\* The scan ends with no connection left. (It may end before that, see the
\* run ends_too_early.)
scan_over ==
    /\ mode = "running" /\ waiting = {} /\ flying = {} /\ cur = NoHost
    /\ mode' = "over"
    /\ UNCHANGED <<scan, cur, file, starts, after, ever, missed, lost>>

---------------------------------------------------------------------------
(* Saving, and being killed.                                              *)

\* When save_state may be called: at the end of a pass, once the period given to
\* auto_save_state is over (the first pass included: _last_save is 0); by the
\* user, in a callback or after launch() returned or raised.
save_due == mode \in {"running", "raised", "over"}

\* save_state: the file is opened, which empties it ...
save_state_open ==
    /\ save_due
    /\ mode' = "saving" /\ after' = mode
    /\ file' = Truncated
    /\ UNCHANGED <<scan, cur, starts, ever, missed, lost>>

\* Fault: the ports are saved as if the host had just been begun, though the
\* walk is past it.
Fault_save_state_left ==
    /\ mode = "saving" /\ mode' = after
    /\ file' = [done |-> flagged, host |-> cur, left |-> Ports,
                lost |-> lost \cup flying]
    /\ UNCHANGED <<scan, cur, starts, after, ever, missed, lost>>

\* Fault: the walk over the ports is saved one step too far.
Fault_save_state_skips ==
    /\ mode = "saving" /\ mode' = after
    /\ \E X \in {{}} \cup {{p} : p \in Left} :
          file' = [done |-> flagged, host |-> cur, left |-> Left \ X,
                   lost |-> lost \cup flying]
    /\ UNCHANGED <<scan, cur, starts, after, ever, missed, lost>>

\* ... and the state is written.
save_state_write ==
    /\ mode = "saving" /\ mode' = after
    /\ file' = [done |-> flagged, host |-> cur, left |-> Left,
                lost |-> lost \cup flying]
    /\ UNCHANGED <<scan, cur, starts, after, ever, missed, lost>>

\* The process is killed, or exits after launch() raised or returned.
killed ==
    /\ mode \in {"running", "saving", "raised", "over"}
    /\ mode' = "off" /\ after' = "off"
    /\ waiting' = All /\ flying' = {} /\ reported' = {} /\ flagged' = {}
    /\ cur' = NoHost /\ missed' = {} /\ lost' = {}
    /\ UNCHANGED <<file, starts, ever>>

Rest == mode = "off" /\ starts = MaxStarts /\ UNCHANGED vars

Next ==
    \/ launch \/ restore_state
    \/ \E t \in All : next_target(t) \/ socket_finished(t)
    \/ next_target_end \/ callback_raises \/ scan_over
    \/ save_state_open \/ save_state_write \/ killed \/ Rest

Spec == Init /\ [][Next]_vars

---------------------------------------------------------------------------
(* Properties.                                                            *)

Modes == {"off", "running", "saving", "raised", "over"}

\* Type invariant; a process has a target in one place only.
TypeOK ==
    /\ waiting \subseteq All /\ flying \subseteq All /\ reported \subseteq All
    /\ waiting \cap flying = {} /\ waiting \cap reported = {}
    /\ flying \cap reported = {}
    /\ flagged \subseteq Hosts
    /\ mode \in Modes /\ after \in Modes
    /\ cur \in Hosts \cup {NoHost}
    /\ file \in States \cup {NoFile, Truncated}
    /\ starts \in 0 .. MaxStarts
    /\ ever \subseteq All /\ missed \subseteq All /\ lost \subseteq All

\* Over any number of crashes, resumptions and raising callbacks, a host that
\* the walk or the file says is done has had a finish callback for every one
\* of its targets, in this process or an earlier one: what a resumed scan
\* leaves out needs no scanning.
FlagsSound ==
    \A h \in flagged \cup (IF file \in States THEN file.done ELSE {}) :
        OfHost(h) \subseteq ever

\* A resumed scan does not go again through a host that was done: nothing of
\* such a host waits or flies.
DoneHostsRest == HostsOf(waiting \cup flying) \cap flagged = {}

\* What a resumed scan will never report, by itself or through an earlier
\* process, belongs to one host: the one its walk started at, whose ports the
\* saved walk had already drawn. Earlier cuts do not add up.
OnlyFirstHostCut ==
    mode \in {"running", "over"} =>
        All \ ever \subseteq waiting \cup flying \cup missed

\* As long as the walks are resumed at the host they were saved at, a target is
\* only lost when its connection was open while the state was saved: a state
\* saved with nothing in flight loses nothing.
LossesWereInFlight ==
    mode \in {"running", "over"} =>
        All \ ever \subseteq waiting \cup flying \cup lost
=============================================================================
