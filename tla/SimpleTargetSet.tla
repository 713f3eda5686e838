--------------------------- MODULE SimpleTargetSet ---------------------------
(***************************************************************************)
(* SimpleTargetSet, and RepeatableTargetSet<SimpleTargetSet>               *)
(* (src/src/include/ns/target_set.h): an std::set of targets with an       *)
(* iterator _it on the next one to return.  The user's callbacks run       *)
(* between two calls of next_target and may add and remove targets while   *)
(* the scan goes through the set.                                          *)
(***************************************************************************)
EXTENDS Integers

CONSTANTS
    MaxTarget,  \* targets are numbered in the order of Target::operator<
    Repeatable  \* TRUE for RepeatableTargetSet<SimpleTargetSet>

ASSUME SetAssumption == MaxTarget \in Nat /\ Repeatable \in BOOLEAN

Targets == 1 .. MaxTarget
End == MaxTarget + 1    \* _targets.end(), and Target::end()
Null == 0               \* _it before init()

VARIABLES
    targets,    \* _targets
    it,         \* _it
    out,        \* what next_target returned last
    steady,     \* history: in the set since the pass began
    seen        \* history: returned since the pass began

vars == <<targets, it, out, steady, seen>>

\* n is the first position of S at or after from: an element or end().
IsNext(n, S, from) ==
    /\ n \in S \cup {End} /\ n >= from
    /\ \A t \in S : t >= from => n <= t

---------------------------------------------------------------------------
Init ==
    /\ targets = {} /\ it = Null /\ out = Null /\ steady = {} /\ seen = {}

\* add_target: the iterator is moved only when it was at the end.
add_target(t) ==
    /\ targets' = targets \cup {t}
    /\ it' = IF it = End THEN t ELSE it
    /\ UNCHANGED <<out, steady, seen>>

\* Fault: the iterator is left on the erased target.
Fault_remove_target(t) ==
    /\ t \in targets
    /\ targets' = targets \ {t}
    /\ steady' = steady \ {t}
    /\ UNCHANGED <<it, out, seen>>

\* remove_target: an iterator on the target is moved on before it is erased.
remove_target(t) ==
    /\ t \in targets
    /\ targets' = targets \ {t}
    /\ IF it = t THEN IsNext(it', targets, t + 1) ELSE UNCHANGED it
    /\ steady' = steady \ {t}
    /\ UNCHANGED <<out, seen>>

\* init(), by Engine::launch, at first and after a scan that reached the end.
init ==
    /\ it = Null \/ out = End
    /\ IsNext(it', targets, 1)
    /\ steady' = targets /\ seen' = {}
    /\ UNCHANGED <<targets, out>>

\* Fault: the end is not tested for.
Fault_next_target_past_end ==
    /\ it # Null
    /\ out' = it
    /\ IF it = End THEN it' = it + 1 ELSE IsNext(it', targets, it + 1)
    /\ seen' = seen \cup {it}
    /\ UNCHANGED <<targets, steady>>

\* next_target before the end.
next_target ==
    /\ it \in targets
    /\ out' = it
    /\ IsNext(it', targets, it + 1)
    /\ seen' = seen \cup {it}
    /\ UNCHANGED <<targets, steady>>

\* next_target at the end of a SimpleTargetSet, or of an empty set.
next_target_end ==
    /\ it = End /\ (Repeatable => targets = {})
    /\ out' = End
    /\ UNCHANGED <<targets, it, steady, seen>>

\* Faults: the first target of the new pass is not returned; there is no
\* second try.
Fault_repeat_skips ==
    /\ Repeatable /\ it = End
    /\ IsNext(it', targets, 2)
    /\ out' = it' /\ seen' = {}
    /\ steady' = targets
    /\ UNCHANGED targets

Fault_repeat_ends ==
    /\ Repeatable /\ it = End /\ targets # {}
    /\ out' = End
    /\ UNCHANGED <<targets, it, steady, seen>>

\* RepeatableTargetSet::next_target at the end: init() and another try.
next_target_repeat ==
    /\ Repeatable /\ it = End
    /\ \E t \in targets :
          /\ IsNext(t, targets, 1)
          /\ IsNext(it', targets, t + 1)
          /\ out' = t /\ seen' = {t}
    /\ steady' = targets
    /\ UNCHANGED targets

Call == next_target \/ next_target_end \/ next_target_repeat

Adding == \E t \in Targets : add_target(t)

Next == Adding \/ (\E t \in Targets : remove_target(t)) \/ init \/ Call

Spec == Init /\ [][Next]_vars

\* The engine calls next_target in every pass that has a free socket.
FairSpec == Spec /\ WF_vars(Call)

---------------------------------------------------------------------------
\* Type invariant: _it is never incremented past the end.
TypeOK ==
    /\ targets \subseteq Targets /\ steady \subseteq targets /\ seen \subseteq Targets
    /\ it \in Targets \cup {Null, End} /\ out \in Targets \cup {Null, End}

\* _it never points at an element that was erased, whatever the callbacks
\* add and remove: next_target dereferences it.
IteratorValid == it \in targets \cup {Null, End}

\* The targets behind the iterator that were in the set during the whole
\* pass were returned: adding and removing others makes the scan skip none of
\* them, and next_target says end only after all of them.
SteadyReturned == it # Null => \A t \in steady : t < it => t \in seen

\* Once the callbacks stop adding targets, a RepeatableTargetSet returns every
\* target it holds again and again.
RoundRobin ==
    (<>[][~Adding]_vars) =>
        \A t \in Targets : (<>[](it # Null /\ t \in targets)) => []<>(out = t)
=============================================================================
