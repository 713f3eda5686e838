--------------------------- MODULE SavedStateProofs ---------------------------
(***************************************************************************)
(* For any hosts, ports, number of connections and number of starts: what  *)
(* a resumed scan leaves out was reported, or is a port of the host it     *)
(* resumed at.                                                             *)
(***************************************************************************)
EXTENDS SavedState, TLAPS

\* A process that was not started has the memory of a fresh one.
FreshInv ==
    mode = "off" => waiting = All /\ flying = {} /\ reported = {} /\ flagged = {}

\* save_state returns to a running scan, or to one that is over or raised.
AfterInv == mode = "saving" => after \in {"running", "raised", "over"}

\* The same facts as in the properties, in every mode: saving and raising keep
\* the memory, and the file is written from it.
ReportedInv == reported \subseteq ever
CutInv == All \ ever \subseteq waiting \cup flying \cup missed
LossInv == All \ ever \subseteq waiting \cup flying \cup lost

\* What the properties need of the file: the host of the walk has no port left
\* if it is done, and those it has not left are reported or noted as lost.
FileInv ==
    file \in States =>
        /\ file.host \in file.done => file.left = {}
        /\ \A t \in OfHost(file.host) :
              t[2] \notin file.left /\ t \notin ever => t \in file.lost

IInv ==
    /\ TypeOK /\ FlagsSound /\ DoneHostsRest
    /\ FreshInv /\ AfterInv /\ ReportedInv /\ CutInv /\ LossInv /\ FileInv

---------------------------------------------------------------------------
\* Every target is one of its host, and has its port.
LEMMA PairOf ==
    ASSUME NEW t \in All
    PROVE  t[1] \in Hosts /\ t[2] \in Ports /\ t = <<t[1], t[2]>>
<1>1. All = Hosts \X Ports
  BY SavedStateAssumption
<1> QED
  BY <1>1

\* The initial state: no process, no file.
LEMMA InitIInv == Init => IInv
<1> SUFFICES ASSUME Init PROVE IInv
  OBVIOUS
<1> USE SavedStateAssumption DEF Init, ScanInit
<1>1. TypeOK
  BY DEF TypeOK, Modes
<1>2. FlagsSound /\ FileInv
  BY DEF FlagsSound, FileInv
<1>3. DoneHostsRest /\ FreshInv /\ AfterInv /\ ReportedInv /\ CutInv /\ LossInv
  BY DEF DoneHostsRest, FreshInv, AfterInv, ReportedInv, CutInv, LossInv
<1> QED
  BY <1>1, <1>2, <1>3 DEF IInv

---------------------------------------------------------------------------
(* Starting a process.                                                    *)

LEMMA LaunchStep == ASSUME IInv, launch PROVE IInv'
<1> USE DEF IInv, launch, scan
<1>1. TypeOK'
  BY SavedStateAssumption DEF TypeOK, Modes
<1>2. FlagsSound' /\ FileInv'
  BY DEF FlagsSound, FileInv, TypeOK
<1>3. DoneHostsRest' /\ FreshInv' /\ AfterInv' /\ ReportedInv' /\ CutInv' /\ LossInv'
  BY DEF DoneHostsRest, FreshInv, AfterInv, ReportedInv, CutInv, LossInv
<1> QED
  BY <1>1, <1>2, <1>3

\* The hosts the file says are done have been reported; of the others all
\* targets wait, but for the one the walk starts at.
LEMMA RestoreStep == ASSUME IInv, restore_state PROVE IInv'
<1>1. PICK h \in (Hosts \ file.done) \cup {file.host} :
          /\ cur' = h
          /\ missed' = {t \in OfHost(h) : t[2] \notin file.left}
          /\ lost' = IF h = file.host THEN file.lost ELSE All
          /\ waiting' = {t \in All : t[1] \notin file.done \cup {h}}
                        \cup {t \in OfHost(h) : t[2] \in file.left}
  BY DEF restore_state
<1>2. /\ mode = "off" /\ file \in States /\ starts < MaxStarts
      /\ flagged' = file.done /\ mode' = "running" /\ starts' = starts + 1
      /\ UNCHANGED <<flying, reported, file, after, ever>>
  BY DEF restore_state
<1>3. flying' = {} /\ reported' = {}
  BY <1>2 DEF IInv, FreshInv
<1>4. /\ file.done \subseteq Hosts /\ file.host \in Hosts \cup {NoHost}
      /\ file.left \subseteq Ports /\ file.lost \subseteq All
  BY <1>2 DEF States
<1>5. \A d \in file.done : OfHost(d) \subseteq ever
  BY <1>2 DEF IInv, FlagsSound
<1>6. /\ file.host \in file.done => file.left = {}
      /\ \A t \in OfHost(file.host) :
            t[2] \notin file.left /\ t \notin ever => t \in file.lost
  BY <1>2 DEF IInv, FileInv
<1>7. TypeOK'
  <2>1. waiting' \subseteq All /\ missed' \subseteq All /\ lost' \subseteq All
    BY <1>1, <1>4 DEF OfHost
  <2>2. starts' \in 0 .. MaxStarts
    BY <1>2, SavedStateAssumption DEF IInv, TypeOK
  <2>3. cur' \in Hosts \cup {NoHost}
    BY <1>1, <1>4
  <2>4. flagged' \subseteq Hosts
    BY <1>2, <1>4
  <2>5. after' \in Modes /\ mode' \in Modes /\ ever' \subseteq All
        /\ file' \in States \cup {NoFile, Truncated}
    BY <1>2 DEF IInv, TypeOK, Modes
  <2> QED
    BY <1>3, <2>1, <2>2, <2>3, <2>4, <2>5 DEF TypeOK
<1>8. FlagsSound'
  BY <1>2, <1>5 DEF FlagsSound
<1>9. DoneHostsRest'
  <2> SUFFICES ASSUME NEW t \in waiting' PROVE t[1] \notin file.done
    BY <1>2, <1>3 DEF DoneHostsRest, HostsOf
  <2>1. CASE t[1] \notin file.done \cup {h}
    BY <2>1
  <2>2. CASE t \in OfHost(h) /\ t[2] \in file.left
    BY <1>1, <1>6, <2>2 DEF OfHost
  <2> QED
    BY <1>1, <2>1, <2>2
<1>10. FreshInv' /\ AfterInv' /\ ReportedInv' /\ FileInv'
  BY <1>2, <1>3, <1>6 DEF FreshInv, AfterInv, ReportedInv, FileInv, OfHost
<1>11. \A t \in All \ ever : t \in waiting' \/ (t \in OfHost(h) /\ t[2] \notin file.left)
  BY <1>1, <1>5, PairOf DEF OfHost
<1>12. CutInv'
  BY <1>1, <1>2, <1>11 DEF CutInv
<1>13. LossInv'
  BY <1>1, <1>2, <1>6, <1>11 DEF LossInv
<1> QED
  BY <1>7, <1>8, <1>9, <1>10, <1>12, <1>13 DEF IInv

---------------------------------------------------------------------------
(* The scan.                                                              *)

LEMMA NextTargetStep ==
    ASSUME IInv, NEW t \in All, next_target(t) PROVE IInv'
<1> USE DEF next_target, Launch, memory
<1>1. TypeOK'
  BY PairOf DEF IInv, TypeOK
<1>2. FlagsSound' /\ FileInv'
  BY DEF IInv, FlagsSound, FileInv
<1>3. DoneHostsRest'
  BY DEF IInv, DoneHostsRest, HostsOf
<1>4. FreshInv' /\ AfterInv' /\ ReportedInv'
  BY DEF IInv, FreshInv, AfterInv, ReportedInv
<1>5. CutInv' /\ LossInv'
  BY DEF IInv, CutInv, LossInv
<1> QED
  BY <1>1, <1>2, <1>3, <1>4, <1>5 DEF IInv

\* A host is flagged with its last report: nothing of it waits or flies.
LEMMA SocketFinishedStep ==
    ASSUME IInv, NEW t \in All, socket_finished(t) PROVE IInv'
<1>1. /\ mode = "running" /\ t \in flying
      /\ flying' = flying \ {t} /\ reported' = reported \cup {t}
      /\ flagged' = flagged \cup (Complete(reported') \cap {t[1]})
      /\ ever' = ever \cup {t}
      /\ UNCHANGED <<waiting, cur>> /\ UNCHANGED memory
  BY SavedStateAssumption DEF socket_finished, Report
<1>2. UNCHANGED <<mode, file, starts, after, missed, lost>>
  BY <1>1 DEF memory
<1>3. TypeOK'
  <2>1. flagged' \subseteq Hosts
    BY <1>1, PairOf DEF IInv, TypeOK
  <2> QED
    BY <1>1, <1>2, <2>1 DEF IInv, TypeOK
<1>4. ReportedInv'
  BY <1>1 DEF IInv, ReportedInv
<1>5. FlagsSound'
  <2>1. \A h \in Complete(reported') : OfHost(h) \subseteq ever'
    BY <1>4 DEF ReportedInv, Complete
  <2> QED
    BY <1>1, <1>2, <2>1 DEF IInv, FlagsSound
<1>6. DoneHostsRest'
  <2> SUFFICES ASSUME NEW u \in waiting' \cup flying' PROVE u[1] \notin flagged'
    BY DEF DoneHostsRest, HostsOf
  <2>1. u[1] \notin flagged
    BY <1>1 DEF IInv, DoneHostsRest, HostsOf
  <2>2. u \notin reported' /\ u \in All
    BY <1>1 DEF IInv, TypeOK
  <2>3. u[1] \notin Complete(reported')
    BY <2>2 DEF Complete, OfHost
  <2> QED
    BY <1>1, <2>1, <2>3
<1>7. FreshInv' /\ AfterInv' /\ FileInv'
  BY <1>1, <1>2 DEF IInv, FreshInv, AfterInv, FileInv
<1>8. CutInv' /\ LossInv'
  BY <1>1, <1>2 DEF IInv, CutInv, LossInv
<1> QED
  BY <1>3, <1>4, <1>5, <1>6, <1>7, <1>8 DEF IInv

\* The steps that change none of the scan's variables nor the file; ever may
\* grow.
LEMMA QuietStep ==
    ASSUME IInv, UNCHANGED <<scan, file, missed, lost>>,
           mode # "off", mode' \in {"running", "raised", "over"},
           cur' \in {cur, NoHost}, starts' = starts, after' = after,
           ever \subseteq ever', ever' \subseteq All
    PROVE  IInv'
<1> USE DEF scan
<1>1. TypeOK'
  BY DEF IInv, TypeOK, Modes
<1>2. FlagsSound' /\ FileInv'
  BY DEF IInv, FlagsSound, FileInv
<1>3. DoneHostsRest' /\ FreshInv' /\ AfterInv' /\ ReportedInv'
  BY DEF IInv, DoneHostsRest, FreshInv, AfterInv, ReportedInv
<1>4. CutInv' /\ LossInv'
  BY DEF IInv, CutInv, LossInv
<1> QED
  BY <1>1, <1>2, <1>3, <1>4 DEF IInv

---------------------------------------------------------------------------
(* Saving, and being killed.                                              *)

LEMMA OpenStep == ASSUME IInv, save_state_open PROVE IInv'
<1> USE DEF save_state_open, save_due, scan
<1>1. TypeOK'
  BY DEF IInv, TypeOK, Modes
<1>2. FlagsSound' /\ FileInv'
  BY SavedStateAssumption DEF IInv, FlagsSound, FileInv
<1>3. DoneHostsRest' /\ FreshInv' /\ AfterInv' /\ ReportedInv'
  BY DEF IInv, DoneHostsRest, FreshInv, AfterInv, ReportedInv
<1>4. CutInv' /\ LossInv'
  BY DEF IInv, CutInv, LossInv
<1> QED
  BY <1>1, <1>2, <1>3, <1>4 DEF IInv

\* What is written: the ports of the host that are not left were drawn, so they
\* are reported, in flight, or lost already.
LEMMA WriteStep == ASSUME IInv, save_state_write PROVE IInv'
<1>1. /\ mode = "saving" /\ mode' = after
      /\ file' = [done |-> flagged, host |-> cur, left |-> Left,
                  lost |-> lost \cup flying]
      /\ UNCHANGED <<cur, starts, after, ever, missed, lost>>
      /\ UNCHANGED <<waiting, flying, reported, flagged>>
  BY DEF save_state_write, scan
<1>2. after \in {"running", "raised", "over"}
  BY <1>1 DEF IInv, AfterInv
<1>3. Left \subseteq Ports
  BY PairOf DEF IInv, TypeOK, Left
<1>4. file' \in States
  BY <1>1, <1>3 DEF IInv, TypeOK, States
<1>5. /\ file'.done = flagged /\ file'.host = cur /\ file'.left = Left
      /\ file'.lost = lost \cup flying
  BY <1>1
<1>6. TypeOK'
  BY <1>1, <1>4 DEF IInv, TypeOK
<1>7. FlagsSound'
  BY <1>1, <1>5 DEF IInv, FlagsSound
<1>8. DoneHostsRest' /\ FreshInv' /\ AfterInv' /\ ReportedInv'
  BY <1>1, <1>2 DEF IInv, DoneHostsRest, FreshInv, AfterInv, ReportedInv
<1>9. CutInv' /\ LossInv'
  BY <1>1 DEF IInv, CutInv, LossInv
<1>10. cur \in flagged => Left = {}
  BY SavedStateAssumption DEF IInv, DoneHostsRest, HostsOf, TypeOK, Left
<1>11. \A t \in OfHost(cur) :
          t[2] \notin Left /\ t \notin ever => t \in lost \cup flying
  <2> SUFFICES ASSUME NEW t \in OfHost(cur), t[2] \notin Left, t \notin ever
               PROVE  t \in lost \cup flying
    OBVIOUS
  <2>1. t \in All /\ t[1] = cur /\ cur # NoHost
    BY PairOf, SavedStateAssumption DEF OfHost
  <2>2. t \notin waiting
    BY <2>1 DEF Left
  <2> QED
    BY <2>1, <2>2 DEF IInv, LossInv
<1>12. FileInv'
  BY <1>1, <1>5, <1>10, <1>11 DEF FileInv, OfHost
<1> QED
  BY <1>6, <1>7, <1>8, <1>9, <1>12 DEF IInv

LEMMA KilledStep == ASSUME IInv, killed PROVE IInv'
<1> USE DEF killed
<1>1. TypeOK'
  BY DEF IInv, TypeOK, Modes
<1>2. FlagsSound' /\ FileInv'
  BY DEF IInv, FlagsSound, FileInv
<1>3. DoneHostsRest' /\ FreshInv' /\ AfterInv' /\ ReportedInv'
  BY DEF IInv, DoneHostsRest, FreshInv, AfterInv, ReportedInv
<1>4. CutInv' /\ LossInv'
  BY DEF CutInv, LossInv
<1> QED
  BY <1>1, <1>2, <1>3, <1>4 DEF IInv

---------------------------------------------------------------------------
LEMMA NextIInv == IInv /\ [Next]_vars => IInv'
<1> SUFFICES ASSUME IInv, [Next]_vars PROVE IInv'
  OBVIOUS
<1>1. CASE launch
  BY <1>1, LaunchStep
<1>2. CASE restore_state
  BY <1>2, RestoreStep
<1>3. ASSUME NEW t \in All, next_target(t) PROVE IInv'
  BY <1>3, NextTargetStep
<1>4. ASSUME NEW t \in All, socket_finished(t) PROVE IInv'
  BY <1>4, SocketFinishedStep
<1>5. CASE next_target_end
  BY <1>5, QuietStep DEF next_target_end, memory, IInv, TypeOK
<1>6. CASE callback_raises
  <2>1. ever \subseteq ever' /\ ever' \subseteq All
    BY <1>6 DEF callback_raises, IInv, TypeOK
  <2> QED
    BY <1>6, <2>1, QuietStep DEF callback_raises
<1>7. CASE scan_over
  BY <1>7, QuietStep DEF scan_over, IInv, TypeOK
<1>8. CASE save_state_open
  BY <1>8, OpenStep
<1>9. CASE save_state_write
  BY <1>9, WriteStep
<1>10. CASE killed
  BY <1>10, KilledStep
<1>11. CASE UNCHANGED vars
  <2> USE <1>11 DEF vars, scan
  <2>1. TypeOK' /\ FlagsSound' /\ DoneHostsRest'
    BY DEF IInv, TypeOK, FlagsSound, DoneHostsRest
  <2>2. FreshInv' /\ AfterInv' /\ ReportedInv' /\ CutInv' /\ LossInv' /\ FileInv'
    BY DEF IInv, FreshInv, AfterInv, ReportedInv, CutInv, LossInv, FileInv
  <2> QED
    BY <2>1, <2>2 DEF IInv
<1>12. CASE Rest
  BY <1>11, <1>12 DEF Rest
<1> QED
  BY <1>1, <1>2, <1>3, <1>4, <1>5, <1>6, <1>7, <1>8, <1>9, <1>10, <1>11, <1>12
     DEF Next

LEMMA AlwaysIInv == Spec => []IInv
  BY InitIInv, NextIInv, PTL DEF Spec

\* A process holds every target in one place, and the file is well formed.
THEOREM TypeCorrect == Spec => []TypeOK
<1>1. IInv => TypeOK
  BY DEF IInv
<1> QED
  BY <1>1, AlwaysIInv, PTL

\* target_finished and step_done, over any number of crashes and resumptions:
\* a host that is marked done has had a finish callback for each of its targets.
THEOREM DoneHostsReported == Spec => []FlagsSound
<1>1. IInv => FlagsSound
  BY DEF IInv
<1> QED
  BY <1>1, AlwaysIInv, PTL

\* restore_state never brings back a target of a host that is done, even when
\* the walk was saved on that host.
THEOREM DoneHostsStayDone == Spec => []DoneHostsRest
<1>1. IInv => DoneHostsRest
  BY DEF IInv
<1> QED
  BY <1>1, AlwaysIInv, PTL

\* What save_state and restore_state cost: targets of the one host a scan was
\* resumed at, however many resumptions there were before.
THEOREM OneHostCut == Spec => []OnlyFirstHostCut
<1>1. IInv => OnlyFirstHostCut
  BY DEF IInv, CutInv, OnlyFirstHostCut
<1> QED
  BY <1>1, AlwaysIInv, PTL

\* And of these only the ones that were connected while the state was saved, if
\* the walk is resumed at the saved host.
THEOREM OnlyInFlightLost == Spec => []LossesWereInFlight
<1>1. IInv => LossesWereInFlight
  BY DEF IInv, LossInv, LossesWereInFlight
<1> QED
  BY <1>1, AlwaysIInv, PTL
=============================================================================
