------------------------ MODULE SimpleTargetSetProofs ------------------------
(***************************************************************************)
(* For a set of any size, the iterator of a SimpleTargetSet stays valid    *)
(* and a pass over it returns every target that was there all along.       *)
(***************************************************************************)
EXTENDS SimpleTargetSet, TLAPS

\* The inductive invariant: the iterator has to be valid for the step of
\* next_target to be a step over one target and no more.
SetInv == TypeOK /\ IteratorValid /\ SteadyReturned

\* IsNext finds the first position at or after another: nothing lies between.
LEMMA NextSkipsNone ==
    \A S \in SUBSET Targets : \A from \in Int : \A n :
        IsNext(n, S, from) => /\ n \in S \cup {End} /\ n \in Int
                              /\ \A t \in S : t < n => t < from
  BY SetAssumption DEF Targets, End, IsNext

\* Every operation keeps the invariant.
LEMMA SetStep ==
    ASSUME SetInv, Next
    PROVE  SetInv'
  <1> USE SetAssumption DEF Targets, End, Null
  <1>0. targets \in SUBSET Targets
    BY DEF SetInv, TypeOK
  <1>1. ASSUME NEW t \in Targets, add_target(t) PROVE SetInv'
    BY <1>1 DEF SetInv, add_target, TypeOK, IteratorValid, SteadyReturned
  <1>2. ASSUME NEW t \in Targets, remove_target(t) PROVE SetInv'
    <2>1. CASE it = t
      <3>1. IsNext(it', targets, t + 1)
        BY <1>2, <2>1 DEF remove_target
      <3>2. /\ it' \in targets \cup {End} /\ it' \in Int
            /\ \A u \in targets : u < it' => u < t + 1
        BY <3>1, <1>0, t + 1 \in Int, NextSkipsNone
      <3>3. it' # t
        BY <3>1 DEF IsNext
      <3> QED
        BY <1>2, <2>1, <3>2, <3>3
           DEF SetInv, remove_target, TypeOK, IteratorValid, SteadyReturned
    <2>2. CASE it # t
      BY <1>2, <2>2
         DEF SetInv, remove_target, TypeOK, IteratorValid, SteadyReturned
    <2> QED
      BY <2>1, <2>2
  <1>3. ASSUME init PROVE SetInv'
    <2>1. /\ it' \in targets \cup {End} /\ it' \in Int
          /\ \A u \in targets : u < it' => u < 1
      BY <1>3, <1>0, 1 \in Int, NextSkipsNone DEF init
    <2> QED
      BY <1>3, <2>1 DEF SetInv, init, TypeOK, IteratorValid, SteadyReturned
  <1>4. ASSUME next_target PROVE SetInv'
    <2>1. it \in Int
      BY <1>4 DEF next_target, SetInv, TypeOK
    <2>2. /\ it' \in targets \cup {End} /\ it' \in Int
          /\ \A u \in targets : u < it' => u < it + 1
      BY <1>4, <2>1, <1>0, it + 1 \in Int, NextSkipsNone
         DEF next_target
    <2>3. \A u \in steady : u < it' => u \in seen'
      BY <1>4, <2>1, <2>2 DEF next_target, SetInv, TypeOK, SteadyReturned
    <2> QED
      BY <1>4, <2>2, <2>3
         DEF SetInv, next_target, TypeOK, IteratorValid, SteadyReturned
  <1>5. ASSUME next_target_end PROVE SetInv'
    BY <1>5 DEF SetInv, next_target_end, TypeOK, IteratorValid, SteadyReturned
  <1>6. ASSUME next_target_repeat PROVE SetInv'
    <2>1. PICK t \in targets : /\ IsNext(t, targets, 1)
                               /\ IsNext(it', targets, t + 1)
                               /\ out' = t /\ seen' = {t}
      BY <1>6 DEF next_target_repeat
    <2>2. t \in Int
      BY DEF SetInv, TypeOK
    <2>3. \A u \in targets : u < t => u < 1
      BY <2>1, <1>0, 1 \in Int, NextSkipsNone
    <2>4. /\ it' \in targets \cup {End} /\ it' \in Int
          /\ \A u \in targets : u < it' => u < t + 1
      BY <2>1, <2>2, <1>0, t + 1 \in Int, NextSkipsNone
    <2>5. \A u \in targets : u < it' => u = t
      BY <2>2, <2>3, <2>4 DEF SetInv, TypeOK
    <2> QED
      BY <1>6, <2>1, <2>4, <2>5
         DEF SetInv, next_target_repeat, TypeOK, IteratorValid, SteadyReturned
  <1> QED
    BY <1>1, <1>2, <1>3, <1>4, <1>5, <1>6 DEF Next, Adding, Call

\* The invariant holds throughout every scan.
THEOREM SetSafety == Spec => []SetInv
  <1>1. Init => SetInv
    BY SetAssumption
       DEF Init, SetInv, TypeOK, IteratorValid, SteadyReturned, Targets, End, Null
  <1>2. SetInv /\ UNCHANGED vars => SetInv'
    BY DEF SetInv, TypeOK, IteratorValid, SteadyReturned, vars
  <1>3. SetInv /\ [Next]_vars => SetInv'
    BY <1>2, SetStep
  <1> QED
    BY <1>1, <1>3, PTL DEF Spec

\* next_target and remove_target never increment _it past the end.
THEOREM SetTypeCorrect == Spec => []TypeOK
  BY SetSafety, PTL DEF SetInv

\* next_target never dereferences an erased element.
THEOREM IteratorAlwaysValid == Spec => []IteratorValid
  BY SetSafety, PTL DEF SetInv

\* Adding and removing targets makes a pass skip none of the others.
THEOREM NoneSkipped == Spec => []SteadyReturned
  BY SetSafety, PTL DEF SetInv
=============================================================================
