-------------------------- MODULE AsyncEngineSafety --------------------------
(***************************************************************************)
(* What holds of AsyncEngine when it is used the way most scanners use it: *)
(* no reconnection, triggers armed by the callbacks of their own           *)
(* connection, and as many descriptors as sockets.  Each of the three      *)
(* conditions is needed: the runs reconnect_cap and dirty_then_timeout     *)
(* show what happens without the first two, and without the third          *)
(* socket() may fail, which free_socks_no_fd ends in an assertion.         *)
(***************************************************************************)
EXTENDS AsyncEngineProofs, FiniteSetTheorems

RegularUse == ~UsesReconnect /\ ~DirtyMayEnd /\ MaxBudget <= MaxFds

\* The sockets that timed out are known, and there are none outside
\* process_dirty_and_timeouts.
ExpiredKnown ==
    /\ expired \subseteq Known
    /\ pc \notin {"process", "timeouts"} => expired = {}

NoReconnect == \A s \in Fds : lvl4[s] # NoSM => ~lvl4[s].reconnect

\* Conservation without counting: a target waits in one place at most, is in
\* flight on one socket at most, and was reported iff it is neither.
Placed ==
    /\ todo \cap queue = {} /\ todo \cap later = {} /\ queue \cap later = {}
    /\ \A s \in Fds : starget[s] # NoTarget =>
          /\ starget[s] \in Targets
          /\ ~Waiting(starget[s]) /\ reported[starget[s]] = 0
    /\ \A s, f \in Fds : starget[s] = starget[f] /\ starget[s] # NoTarget => s = f
    /\ \A t \in Targets : Waiting(t) => reported[t] = 0
    /\ \A t \in Base \cup Added :
          ~Waiting(t) /\ (\A s \in Fds : starget[s] # t) => reported[t] = 1

Counted ==
    /\ avail + Cardinality(Open) = budget
    /\ nlaunched = ndone + Cardinality(Open)
    /\ budget <= MaxBudget

\* The inductive invariant.
SafeInv ==
    /\ LookupInv /\ NeverAborted /\ MapsAgree /\ Counted /\ ExpiredKnown
    /\ NoReconnect /\ Placed

---------------------------------------------------------------------------
(* Counting descriptors.                                                  *)

LEMMA FdsFinite == IsFiniteSet(Fds) /\ Cardinality(Fds) = MaxFds
  BY FS_Interval, ConstantAssumption DEF Fds

LEMMA OpenFinite == IsFiniteSet(Open) /\ Cardinality(Open) \in Nat
  BY FdsFinite, FS_Subset, FS_CardinalityType DEF Open

\* Closing an open descriptor leaves one open descriptor less.
LEMMA CloseOne ==
    ASSUME TypeKernel, NEW s \in Open, st' = [st EXCEPT ![s] = "closed"]
    PROVE  Cardinality(Open') = Cardinality(Open) - 1
PROOF
  <1>1. Open' = Open \ {s}
    BY DEF Open, TypeKernel
  <1> QED
    BY <1>1, OpenFinite, FS_RemoveElement

\* Opening a closed one leaves one more.
LEMMA OpenOne ==
    ASSUME TypeKernel, NEW s \in Fds \ Open, NEW x \in ConnStates \ {"closed"},
           st' = [st EXCEPT ![s] = x]
    PROVE  Cardinality(Open') = Cardinality(Open) + 1
PROOF
  <1>1. Open' = Open \cup {s} /\ s \notin Open
    BY DEF Open, TypeKernel
  <1> QED
    BY <1>1, OpenFinite, FS_AddElement

\* A callback moves targets only from those not added yet to the queue, and
\* raises the sockets available by what it raises the allowance.
LEMMA CallbackExact ==
    ASSUME TypeCounts, TypeTargets, NEW q \in SUBSET Targets, NEW av \in Nat,
           NEW inc \in Nat, callback(q, av, inc), budget <= MaxBudget
    PROVE  /\ avail' + budget = budget' + av + inc
           /\ budget' <= MaxBudget
           /\ queue' \cup later' = q \cup later
           /\ q \subseteq queue' /\ later' \subseteq later
           /\ queue' \cap later' \subseteq q \cap later
PROOF
  <1>1. PICK X \in SUBSET later : queue' = q \cup X /\ later' = later \ X
    BY DEF callback
  <1>2. PICK a \in Nat : /\ avail' = a + inc /\ budget' = budget + (a - av)
                         /\ budget' <= MaxBudget
    BY ConstantAssumption DEF callback, ensure_available_sockets, TypeCounts
  <1>3. avail' + budget = budget' + av + inc
    BY <1>2 DEF TypeCounts
  <1> QED
    BY <1>1, <1>2, <1>3

---------------------------------------------------------------------------
(* What a callback and the end of a socket keep.                          *)

\* A callback that leaves the maps alone keeps every target in its place.
LEMMA CallbackPlaced ==
    ASSUME SafeInv, callback(queue, avail, 0),
           UNCHANGED <<todo, starget, reported>>
    PROVE  Placed'
PROOF
  <1>1. /\ queue' \cup later' = queue \cup later
        /\ queue' \cap later' \subseteq queue \cap later
    BY CallbackExact DEF SafeInv, LookupInv, TypeOK, TypeCounts, TypeTargets,
                         Counted
  <1>2. \A t : Waiting(t)' = Waiting(t)
    BY <1>1 DEF Waiting
  <1> QED
    BY <1>1, <1>2 DEF SafeInv, Placed

LEMMA CallbackCounted ==
    ASSUME SafeInv, callback(queue, avail, 0), Open' = Open,
           UNCHANGED <<nlaunched, ndone>>
    PROVE  Counted'
PROOF
  <1>1. avail' + budget = budget' + avail + 0 /\ budget' <= MaxBudget
    BY CallbackExact DEF SafeInv, LookupInv, TypeOK, TypeCounts, TypeTargets,
                         Counted
  <1>2. avail \in Nat /\ avail' \in Nat /\ budget \in Nat /\ budget' \in Nat
    BY CallbackType DEF SafeInv, LookupInv, TypeOK, TypeCounts, TypeTargets
  <1> QED
    BY <1>1, <1>2, OpenFinite DEF SafeInv, Counted

\* Finishing an open socket reports its target once and gives the socket back.
LEMMA FinishSafe ==
    ASSUME SafeInv, NEW s \in Open,
           socket_finished(s, starget[s], queue, avail),
           UNCHANGED <<todo, nlaunched>>
    PROVE  MapsAgree' /\ Counted' /\ NoReconnect' /\ Placed'
PROOF
  <1> USE DEF SafeInv, LookupInv, TypeOK
  <1> DEFINE t == starget[s]
  <1>1. s \in Fds /\ t \in Targets /\ t # NoTarget
    BY ConstantAssumption DEF Open, MapsAgree, TypeMaps
  <1>2. /\ st' = [st EXCEPT ![s] = "closed"]
        /\ peer' = [peer EXCEPT ![s] = NoTarget]
        /\ interest' = [interest EXCEPT ![s] = "none"]
        /\ lvl4' = [lvl4 EXCEPT ![s] = NoSM]
        /\ starget' = [starget EXCEPT ![s] = NoTarget]
        /\ reported' = [reported EXCEPT ![t] = @ + 1]
        /\ ndone' = ndone + 1 /\ callback(queue, avail, 1)
    BY DEF socket_finished, free_socket
  <1>3. MapsAgree'
    BY <1>1, <1>2 DEF MapsAgree, TypeMaps, TypeKernel
  <1>4. NoReconnect'
    BY <1>1, <1>2 DEF NoReconnect, TypeMaps
  <1>5. /\ avail' + budget = budget' + avail + 1 /\ budget' <= MaxBudget
        /\ queue' \cup later' = queue \cup later
        /\ queue' \cap later' \subseteq queue \cap later
    BY <1>2, CallbackExact DEF TypeCounts, TypeTargets, Counted
  <1>6. avail' \in Nat /\ budget' \in Nat
    BY <1>2, CallbackType DEF TypeCounts, TypeTargets
  <1>7. Counted'
    <2>1. Cardinality(Open') = Cardinality(Open) - 1 /\ Cardinality(Open) \in Nat
      BY <1>2, CloseOne, OpenFinite
    <2> QED
      BY <1>2, <1>5, <1>6, <2>1 DEF Counted, TypeCounts
  <1>8. Placed'
    <2>1. \A u : Waiting(u)' = Waiting(u)
      BY <1>5 DEF Waiting
    <2>2. /\ \A f \in Fds \ {s} : starget'[f] = starget[f] /\ starget[f] # t
          /\ starget'[s] = NoTarget
      BY <1>1, <1>2 DEF Placed, TypeMaps
    <2>3. /\ \A u \in Targets \ {t} : reported'[u] = reported[u]
          /\ reported'[t] = 1
      BY <1>1, <1>2 DEF Placed, TypeCounts
    <2>4. \A f \in Fds : starget'[f] # NoTarget =>
             /\ starget'[f] \in Targets
             /\ ~Waiting(starget'[f]) /\ reported'[starget'[f]] = 0
      BY <2>2, <2>3 DEF Placed
    <2>5. \A u \in Base \cup Added :
            ~Waiting(u) /\ (\A f \in Fds : starget'[f] # u) => reported'[u] = 1
      BY <2>2, <2>3, ConstantAssumption DEF Placed
    <2>6. ~Waiting(t)
      BY <1>1 DEF Placed
    <2>7. \A u \in Targets : Waiting(u) => reported'[u] = 0
      BY <2>3, <2>6 DEF Placed
    <2>8. \A g, f \in Fds : starget'[g] = starget'[f] /\ starget'[g] # NoTarget => g = f
      BY <2>2 DEF Placed
    <2> QED
      BY <1>5, <2>1, <2>4, <2>5, <2>7, <2>8 DEF Placed
  <1> QED
    BY <1>3, <1>4, <1>7, <1>8

---------------------------------------------------------------------------
(* The inductive step, given LookupInv'.                                  *)

\* There is a free descriptor whenever process_free_socks needs one.
LEMMA FreeDescriptor ==
    ASSUME SafeInv, RegularUse, pc = "free", slots > 0
    PROVE  Open # Fds
PROOF
  <1>1. avail \in Nat /\ avail > 0 /\ budget \in Nat
    BY DEF SafeInv, LookupInv, SlotsBacked, TypeOK, TypeCounts, TypeLoop
  <1>2. Cardinality(Open) \in Nat /\ Cardinality(Open) < budget
        /\ budget <= MaxBudget
    BY <1>1, OpenFinite DEF SafeInv, Counted
  <1> QED
    BY <1>1, <1>2, FdsFinite, ConstantAssumption DEF RegularUse

\* Steps that only move the main loop.
LEMMA SafeLoopSteps ==
    ASSUME SafeInv, RegularUse, LookupInv',
           \/ free_socks_full \/ free_socks_end \/ free_socks_would_block
           \/ free_socks_no_fd \/ epoll_wait \/ epoll_wait_eintr
           \/ events_done \/ dirty_done \/ timeouts_done \/ scan_over
           \/ \E s \in Fds : expire_missing(s)
    PROVE  SafeInv'
PROOF
  <1>1. ~free_socks_no_fd
    BY FreeDescriptor DEF free_socks_no_fd
  <1>2. ~\E s \in Fds : expire_missing(s)
    BY DEF expire_missing, IsLowest, SafeInv, ExpiredKnown, Known, LookupInv,
           MapsPaired
  <1>3. /\ UNCHANGED <<maps, kernel, avail, nlaunched, ndone, todo, queue,
                       later, budget, reported>>
        /\ pc' # "aborted" /\ expired' = expired
        /\ pc \notin {"process", "timeouts"} => pc' \notin {"process", "timeouts"}
        /\ pc = "timeouts" => expired = {}
        /\ pc = "process" => pc' = "timeouts"
    BY <1>1, <1>2
       DEF free_socks_full, free_socks_end, free_socks_would_block, epoll_wait,
           epoll_wait_eintr, events_done, dirty_done, timeouts_done, scan_over,
           tset
  <1>4. MapsAgree' /\ Counted' /\ NoReconnect'
    BY <1>3 DEF SafeInv, MapsAgree, Counted, NoReconnect, Open, maps, kernel
  <1>5. Placed'
    BY <1>3 DEF SafeInv, Placed, Waiting, maps
  <1>6. ExpiredKnown' /\ NeverAborted'
    BY <1>3 DEF SafeInv, ExpiredKnown, NeverAborted, Known, maps
  <1> QED
    BY <1>4, <1>5, <1>6 DEF SafeInv

\* Steps that finish an open socket. A socket that timed out is still there
\* when its turn comes: process_buffer ended none in between.
LEMMA SafeFinishSteps ==
    ASSUME SafeInv, RegularUse, LookupInv', NEW s \in Fds,
           \/ connecting_finished(s) \/ connected_finished(s)
           \/ dirty_finished(s) \/ expire(s)
    PROVE  SafeInv'
PROOF
  <1>1. ~dirty_finished(s)
    BY DEF RegularUse, dirty_finished
  <1>2. /\ socket_finished(s, starget[s], queue, avail)
        /\ UNCHANGED <<todo, nlaunched, pc>>
        /\ \/ s \in batch /\ pc = "events" /\ expired' = expired
           \/ s \in expired /\ pc = "timeouts" /\ expired' = expired \ {s}
    BY <1>1 DEF connecting_finished, connected_finished, expire, next_event,
                IsLowest
  <1>3. s \in Open
    BY <1>2 DEF SafeInv, LookupInv, WorkLists, ExpiredKnown, Known, MapsAgree,
                Open
  <1>4. MapsAgree' /\ Counted' /\ NoReconnect' /\ Placed'
    BY <1>2, <1>3, FinishSafe
  <1>5. NeverAborted'
    BY <1>2 DEF NeverAborted
  <1>6. ExpiredKnown'
    <2>1. lvl4' = [lvl4 EXCEPT ![s] = NoSM]
      BY <1>2 DEF socket_finished, free_socket
    <2>2. \A f \in Fds \ {s} : lvl4'[f] = lvl4[f]
      BY <2>1 DEF SafeInv, LookupInv, TypeOK, TypeMaps
    <2> QED
      BY <1>2, <2>2 DEF SafeInv, ExpiredKnown, Known
  <1> QED
    BY <1>4, <1>5, <1>6 DEF SafeInv

\* Steps that keep a socket going.
LEMMA SafeKeepSteps ==
    ASSUME SafeInv, RegularUse, LookupInv', NEW s \in Fds,
           \/ connecting_connected(s) \/ connected_data(s) \/ dirty_processed(s)
    PROVE  SafeInv'
PROOF
  <1> USE DEF SafeInv, LookupInv, TypeOK
  <1>1. /\ callback(queue, avail, 0)
        /\ UNCHANGED <<todo, starget, peer, reported, nlaunched, ndone, pc,
                       expired>>
        /\ s \in batch \/ s \in dirty
    BY DEF connecting_connected, connected_data, dirty_processed, next_event,
           next_dirty, kernel, IsLowest
  <1>2. lvl4[s] # NoSM /\ st[s] # "closed" /\ interest[s] # "none"
    BY <1>1 DEF WorkLists, Open, Known, MapsAgree
  <1>3. PICK sm \in Lvl4SM : /\ lvl4' = [lvl4 EXCEPT ![s] = sm]
                             /\ sm.reconnect => UsesReconnect
    BY DEF connecting_connected, connected_data, dirty_processed, after_callback
  <1>4. \A f \in Fds : /\ (lvl4'[f] = NoSM) = (lvl4[f] = NoSM)
                       /\ (st'[f] = "closed") = (st[f] = "closed")
                       /\ (interest'[f] = "none") = (interest[f] = "none")
    <2>1. \A f \in Fds : (lvl4'[f] = NoSM) = (lvl4[f] = NoSM)
      BY <1>2, <1>3, NullAssumption DEF TypeMaps
    <2>2. \A f \in Fds : (st'[f] = "closed") = (st[f] = "closed")
      BY DEF connecting_connected, connected_data, dirty_processed, kernel,
             TypeKernel
    <2>3. \A f \in Fds : (interest'[f] = "none") = (interest[f] = "none")
      BY <1>2 DEF connecting_connected, connected_data, dirty_processed, kernel,
                  TypeKernel
    <2> QED
      BY <2>1, <2>2, <2>3
  <1>5. MapsAgree'
    BY <1>1, <1>4 DEF MapsAgree
  <1>6. Open' = Open /\ Known' = Known
    BY <1>4 DEF Open, Known
  <1>7. Counted' /\ Placed'
    BY <1>1, <1>6, CallbackCounted, CallbackPlaced
  <1>8. NoReconnect'
    BY <1>3 DEF RegularUse, NoReconnect, TypeMaps
  <1>9. ExpiredKnown' /\ NeverAborted'
    BY <1>1, <1>6 DEF ExpiredKnown, NeverAborted
  <1> QED
    BY <1>5, <1>7, <1>8, <1>9

\* A target drawn from the set waited in one place, had not been launched and
\* had not been reported.
LEMMA DrawnTarget ==
    ASSUME SafeInv, NEW t \in next_targets
    PROVE  /\ t \in Targets /\ t # NoTarget /\ Waiting(t) /\ reported[t] = 0
           /\ t \notin later
           /\ \A s \in Fds : starget[s] # t
PROOF
  <1>1. t \in todo \/ t \in queue
    BY DEF next_targets
  <1>2. t \in Targets
    BY <1>1 DEF SafeInv, LookupInv, TypeOK, TypeTargets
  <1> QED
    BY <1>1, <1>2, ConstantAssumption DEF SafeInv, Placed, Waiting

\* A launch takes an available socket and a waiting target.
LEMMA SafeLaunch ==
    ASSUME SafeInv, RegularUse, LookupInv', NEW s \in Fds, NEW t \in Targets,
           free_socks_launch(t, s)
    PROVE  SafeInv'
PROOF
  <1> USE DEF SafeInv, LookupInv, TypeOK
  <1>1. s \in Fds \ Open /\ pc = "free" /\ slots > 0 /\ t \in next_targets
    BY DEF free_socks_launch, IsLowest, next_target
  <1>2. starget[s] = NoTarget /\ lvl4[s] = NoSM /\ st[s] = "closed"
    BY <1>1 DEF Open, MapsAgree
  <1>3. /\ t # NoTarget /\ Waiting(t) /\ reported[t] = 0 /\ t \notin later
        /\ \A f \in Fds : starget[f] # t
    BY <1>1, DrawnTarget
  <1>4. PICK x \in ConnStates \ {"closed"} : st' = [st EXCEPT ![s] = x]
    BY DEF free_socks_launch, ConnStates
  <1>5. /\ peer' = [peer EXCEPT ![s] = t]
        /\ starget' = [starget EXCEPT ![s] = t]
        /\ interest' = [interest EXCEPT ![s] = "out"]
        /\ lvl4' = [lvl4 EXCEPT ![s] = new_lvl4_sm(s)]
        /\ queue' = queue \ {t} /\ todo' = todo \ {t}
        /\ avail' = avail - 1 /\ nlaunched' = nlaunched + 1
        /\ UNCHANGED <<pc, expired, ndone, later, budget, reported>>
    BY <1>2 DEF free_socks_launch, new_starget, next_target
  <1>6. new_lvl4_sm(s) # NoSM
    BY NewEntries
  <1>7. MapsAgree'
    BY <1>3, <1>4, <1>5, <1>6 DEF MapsAgree, TypeMaps, TypeKernel
  <1>8. Counted'
    <2>1. Cardinality(Open') = Cardinality(Open) + 1 /\ Cardinality(Open) \in Nat
      BY <1>1, <1>4, OpenOne, OpenFinite
    <2> QED
      BY <1>5, <2>1 DEF Counted, TypeCounts
  <1>9. NoReconnect'
    <2>1. new_lvl4_sm(s).reconnect = FALSE
      BY <1>2 DEF new_lvl4_sm
    <2> QED
      BY <1>5, <2>1 DEF NoReconnect, TypeMaps
  <1>10. ExpiredKnown' /\ NeverAborted'
    BY <1>1, <1>5 DEF ExpiredKnown, NeverAborted
  <1>11. Placed'
    <2> DEFINE W(u) == Waiting(u) /\ u # t
    <2>1. \A u : (u \in todo' \/ u \in queue' \/ u \in later') = W(u)
      BY <1>3, <1>5 DEF Waiting
    <2>2. starget'[s] = t /\ \A f \in Fds \ {s} : starget'[f] = starget[f]
      BY <1>5 DEF TypeMaps
    <2>3. \A f \in Fds : starget'[f] # NoTarget =>
             /\ starget'[f] \in Targets
             /\ ~W(starget'[f]) /\ reported[starget'[f]] = 0
      BY <1>3, <2>2 DEF Placed
    <2>4. \A g, f \in Fds : starget'[g] = starget'[f] /\ starget'[g] # NoTarget => g = f
      BY <1>3, <2>2 DEF Placed
    <2>5. \A u \in Base \cup Added :
            ~W(u) /\ (\A f \in Fds : starget'[f] # u) => reported[u] = 1
      BY <1>2, <1>3, <2>2, ConstantAssumption DEF Placed
    <2>6. \A u \in Targets : W(u) => reported[u] = 0
      BY DEF Placed
    <2>7. todo' \cap queue' = {} /\ todo' \cap later' = {} /\ queue' \cap later' = {}
      BY <1>5 DEF Placed
    <2> HIDE DEF W
    <2> QED
      BY <1>5, <2>1, <2>3, <2>4, <2>5, <2>6, <2>7 DEF Placed, Waiting
  <1> QED
    BY <1>7, <1>8, <1>9, <1>10, <1>11

\* A launch that fails at once reports its target and keeps the socket.
LEMMA SafeSyncError ==
    ASSUME SafeInv, RegularUse, LookupInv', NEW s \in Fds, NEW t \in Targets,
           free_socks_sync_error(t, s)
    PROVE  SafeInv'
PROOF
  <1> USE DEF SafeInv, LookupInv, TypeOK
  <1>1. s \in Fds \ Open /\ pc = "free" /\ slots > 0 /\ t \in next_targets
    BY DEF free_socks_sync_error, IsLowest
  <1>2. /\ starget[s] = NoTarget /\ lvl4[s] = NoSM /\ st[s] = "closed"
        /\ peer[s] = NoTarget /\ interest[s] = "none"
    BY <1>1 DEF Open, MapsAgree
  <1>3. /\ t # NoTarget /\ Waiting(t) /\ reported[t] = 0 /\ t \notin later
        /\ \A f \in Fds : starget[f] # t
    BY <1>1, DrawnTarget
  <1>4. /\ socket_finished(s, t, queue \ {t}, avail - 1)
        /\ todo' = todo \ {t} /\ nlaunched' = nlaunched + 1
        /\ UNCHANGED <<pc, expired>>
    BY <1>2 DEF free_socks_sync_error, new_starget, loop
  <1>5. UNCHANGED <<st, peer, interest, lvl4, starget>>
    BY <1>2, <1>4 DEF socket_finished, free_socket, TypeMaps, TypeKernel
  <1>6. /\ reported' = [reported EXCEPT ![t] = @ + 1] /\ ndone' = ndone + 1
        /\ callback(queue \ {t}, avail - 1, 1)
    BY <1>4 DEF socket_finished
  <1>7. avail - 1 \in Nat /\ queue \ {t} \in SUBSET Targets
    BY <1>1 DEF SlotsBacked, TypeCounts, TypeLoop, TypeTargets
  <1>8. /\ avail' + budget = budget' + (avail - 1) + 1 /\ budget' <= MaxBudget
        /\ queue' \cup later' = (queue \ {t}) \cup later
        /\ queue' \cap later' \subseteq (queue \ {t}) \cap later
    BY <1>6, <1>7, CallbackExact DEF TypeCounts, TypeTargets, Counted
  <1>9. avail' \in Nat /\ budget' \in Nat
    BY <1>6, <1>7, CallbackType
  <1>10. Counted'
    <2>1. Open' = Open /\ Cardinality(Open) \in Nat
      BY <1>5, OpenFinite DEF Open
    <2>2. avail' + Cardinality(Open) = budget'
      <3>1. avail \in Nat /\ budget \in Nat /\ avail + Cardinality(Open) = budget
        BY DEF Counted, TypeCounts
      <3> QED
        BY ONLY <1>8, <1>9, <2>1, <3>1
    <2>3. nlaunched' = ndone' + Cardinality(Open)
      BY <1>4, <1>6, <2>1 DEF Counted, TypeCounts
    <2> QED
      BY <1>8, <2>1, <2>2, <2>3 DEF Counted
  <1>11. MapsAgree' /\ NoReconnect' /\ ExpiredKnown' /\ NeverAborted'
    BY <1>1, <1>4, <1>5 DEF MapsAgree, NoReconnect, ExpiredKnown, NeverAborted
  <1>12. Placed'
    <2> DEFINE W(u) == Waiting(u) /\ u # t
    <2>1. \A u : (u \in todo' \/ u \in queue' \/ u \in later') = W(u)
      BY <1>3, <1>4, <1>8 DEF Waiting
    <2>2. /\ \A u \in Targets \ {t} : reported'[u] = reported[u]
          /\ reported'[t] = 1
      BY <1>3, <1>6 DEF TypeCounts
    <2>3. \A f \in Fds : starget[f] # NoTarget =>
             /\ starget[f] \in Targets
             /\ ~W(starget[f]) /\ reported'[starget[f]] = 0
      BY <1>3, <2>2 DEF Placed
    <2>4. \A u \in Base \cup Added :
            ~W(u) /\ (\A f \in Fds : starget[f] # u) => reported'[u] = 1
      BY <2>2, ConstantAssumption DEF Placed
    <2>5. \A u \in Targets : W(u) => reported'[u] = 0
      BY <2>2 DEF Placed
    <2>6. todo' \cap queue' = {} /\ todo' \cap later' = {} /\ queue' \cap later' = {}
      BY <1>3, <1>4, <1>8 DEF Placed
    <2>7. \A g, f \in Fds : starget[g] = starget[f] /\ starget[g] # NoTarget => g = f
      BY DEF Placed
    <2> HIDE DEF W
    <2> QED
      BY <1>5, <2>1, <2>3, <2>4, <2>5, <2>6, <2>7 DEF Placed, Waiting
  <1> QED
    BY <1>10, <1>11, <1>12

\* The pass over the connections, the end of a pass, dropped events, the
\* network and the clock.
LEMMA SafeOtherSteps ==
    ASSUME SafeInv, RegularUse, LookupInv',
           \/ dirty_scan \/ scan_goes_on \/ Network \/ Tick \/ UNCHANGED vars
           \/ \E s \in Fds : event_ignored(s)
    PROVE  SafeInv'
PROOF
  <1> USE DEF SafeInv, LookupInv, TypeOK
  <1>1. /\ UNCHANGED <<starget, peer, interest, todo, reported, nlaunched, ndone>>
        /\ pc' # "aborted"
    BY DEF dirty_scan, scan_goes_on, Network, NetConnected, NetRefused,
           NetData, NetClose, NetError, NetStep, Tick, event_ignored,
           next_event, vars, loop, maps, tset, kernel, NeverAborted
  <1>2. \/ callback(queue, avail, 0)
        \/ UNCHANGED <<queue, later, avail, budget>>
    BY DEF dirty_scan, scan_goes_on, Network, NetConnected, NetRefused,
           NetData, NetClose, NetError, NetStep, Tick, event_ignored, vars,
           loop, maps, tset
  <1>3. \A f \in Fds : (st'[f] = "closed") = (st[f] = "closed")
    BY DEF dirty_scan, scan_goes_on, Network, NetConnected, NetRefused,
           NetData, NetClose, NetError, NetStep, Tick, event_ignored, vars,
           kernel, TypeKernel
  <1>4. \A f \in Fds : /\ (lvl4'[f] = NoSM) = (lvl4[f] = NoSM)
                       /\ lvl4[f] # NoSM => lvl4'[f].reconnect = lvl4[f].reconnect
    <2>1. \A f \in Fds : (lvl4'[f] = NoSM) = (lvl4[f] = NoSM)
      BY <1>1, <1>3 DEF MapsPaired, MapsAgree
    <2>2. CASE dirty_scan
      <3>1. PICK E \in SUBSET Known :
              lvl4' = [s \in Fds |->
                         IF lvl4[s] = NoSM THEN NoSM
                         ELSE [lvl4[s] EXCEPT !.reprocess = FALSE,
                                 !.wage = IF s \notin E /\ watch_due(s)
                                          THEN 0 ELSE @]]
        BY <2>2 DEF dirty_scan
      <3>2. \A x \in Lvl4SM : \A w :
               [x EXCEPT !.reprocess = FALSE, !.wage = w].reconnect = x.reconnect
        BY DEF Lvl4SM
      <3>3. \A f \in Fds : lvl4[f] # NoSM => lvl4'[f].reconnect = lvl4[f].reconnect
        BY <3>1, <3>2 DEF TypeMaps
      <3> QED
        BY <2>1, <3>3
    <2>3. CASE Tick
      <3>1. \A x \in Lvl4SM : [x EXCEPT !.age = older(@, MaxAge),
                                 !.wage = older(@, WatchTimeout)].reconnect = x.reconnect
        BY DEF Lvl4SM
      <3>2. \A f \in Fds : lvl4[f] # NoSM => lvl4'[f].reconnect = lvl4[f].reconnect
        BY <2>3, <3>1 DEF Tick, TypeMaps
      <3> QED
        BY <2>1, <3>2
    <2>4. CASE scan_goes_on \/ Network \/ UNCHANGED vars \/ \E s \in Fds : event_ignored(s)
      BY <2>4 DEF scan_goes_on, Network, NetConnected, NetRefused, NetData,
                  NetClose, NetError, NetStep, event_ignored, vars, maps
    <2> QED
      BY <2>2, <2>3, <2>4
  <1>5. Open' = Open /\ Known' = Known
    BY <1>3, <1>4 DEF Open, Known
  <1>6. MapsAgree' /\ NoReconnect'
    BY <1>1, <1>3, <1>4 DEF MapsAgree, NoReconnect
  <1>7. Counted' /\ Placed'
    <2>1. CASE callback(queue, avail, 0)
      BY <2>1, <1>1, <1>5, CallbackCounted, CallbackPlaced
    <2>2. CASE UNCHANGED <<queue, later, avail, budget>>
      BY <2>2, <1>1, <1>5 DEF Counted, Placed, Waiting
    <2> QED
      BY <1>2, <2>1, <2>2
  <1>8. ExpiredKnown'
    <2>1. CASE dirty_scan
      BY <1>5, <2>1 DEF dirty_scan, ExpiredKnown
    <2>2. CASE ~dirty_scan
      <3>1. expired' = expired /\ (pc' = pc \/ (pc = "check" /\ pc' = "wait"))
        BY <2>2 DEF scan_goes_on, Network, NetConnected, NetRefused, NetData,
                    NetClose, NetError, NetStep, Tick, event_ignored,
                    next_event, vars, loop
      <3> QED
        BY <1>5, <3>1 DEF ExpiredKnown
    <2> QED
      BY <2>1, <2>2
  <1>9. NeverAborted'
    BY <1>1 DEF NeverAborted
  <1> QED
    BY <1>6, <1>7, <1>8, <1>9

\* No reconnection takes place.
LEMMA SafeNoReconnect ==
    ASSUME SafeInv, NEW s \in Fds, NEW n \in Fds, connected_reconnect(s, n)
    PROVE  FALSE
  BY DEF SafeInv, LookupInv, WorkLists, MapsPaired, Open, NoReconnect,
         connected_reconnect, next_event

---------------------------------------------------------------------------
(* The theorems.                                                          *)

LEMMA SafeInit == ASSUME RegularUse PROVE Init => SafeInv
PROOF
  <1> SUFFICES ASSUME Init
               PROVE  SafeInv
    OBVIOUS
  <1>1. LookupInv
    BY LookupInit
  <1>2. Open = {} /\ Cardinality(Open) = 0
    BY FS_EmptySet DEF Init, Open
  <1>3. Counted
    BY <1>2, ConstantAssumption DEF Init, Counted
  <1>4. Placed
    BY ConstantAssumption DEF Init, Placed, Waiting
  <1>5. NeverAborted /\ MapsAgree /\ ExpiredKnown /\ NoReconnect
    BY DEF Init, NeverAborted, MapsAgree, ExpiredKnown, NoReconnect
  <1> QED
    BY <1>1, <1>3, <1>4, <1>5 DEF SafeInv

LEMMA SafeStep == ASSUME RegularUse PROVE SafeInv /\ [Next]_vars => SafeInv'
PROOF
  <1> SUFFICES ASSUME SafeInv, [Next]_vars
               PROVE  SafeInv'
    OBVIOUS
  <1>1. LookupInv'
    BY LookupStep DEF SafeInv
  <1>2. CASE process_free_socks
    BY <1>1, <1>2, SafeLoopSteps, SafeLaunch, SafeSyncError DEF process_free_socks
  <1>3. CASE process_events
    BY <1>1, <1>3, SafeLoopSteps, SafeFinishSteps, SafeKeepSteps,
       SafeOtherSteps, SafeNoReconnect
       DEF process_events, process_connecting_ready, process_connected_ready
  <1>4. CASE process_dirty_and_timeouts
    BY <1>1, <1>4, SafeLoopSteps, SafeFinishSteps, SafeKeepSteps, SafeOtherSteps
       DEF process_dirty_and_timeouts
  <1>5. CASE scan_over \/ epoll_wait_eintr
    BY <1>1, <1>5, SafeLoopSteps
  <1>6. CASE scan_goes_on \/ Network \/ Tick \/ Terminated \/ UNCHANGED vars
    BY <1>1, <1>6, SafeOtherSteps DEF Terminated
  <1> QED
    BY <1>2, <1>3, <1>4, <1>5, <1>6 DEF Next, Engine

\* Under regular use the inductive invariant holds of every behaviour.
THEOREM SafeSafety == ASSUME RegularUse PROVE Spec => []SafeInv
PROOF
  <1>1. Init => SafeInv
    BY SafeInit
  <1>2. SafeInv /\ [Next]_vars => SafeInv'
    BY SafeStep
  <1> QED
    BY <1>1, <1>2, PTL DEF Spec

\* Under regular use no assertion of the engine fails.
THEOREM NoAssertionFails == ASSUME RegularUse PROVE Spec => []NeverAborted
PROOF
  <1>1. SafeInv => NeverAborted
    BY DEF SafeInv
  <1> QED
    BY <1>1, SafeSafety, PTL

\* Under regular use the maps, epoll and the kernel agree: a result is always
\* attributed to the target it came from.
THEOREM MapsAlwaysAgree == ASSUME RegularUse PROVE Spec => []MapsAgree
PROOF
  <1>1. SafeInv => MapsAgree
    BY DEF SafeInv
  <1> QED
    BY <1>1, SafeSafety, PTL

\* Under regular use no socket is leaked or given back twice.
THEOREM SocketsAccounted == ASSUME RegularUse PROVE Spec => []Accounting
PROOF
  <1>1. SafeInv => Accounting
    BY DEF SafeInv, Counted, Accounting
  <1> QED
    BY <1>1, SafeSafety, PTL

\* Under regular use no target is lost, launched twice or reported twice.
THEOREM TargetsConserved == ASSUME RegularUse PROVE Spec => []Conservation
PROOF
  <1>1. SafeInv => Conservation
    <2> SUFFICES ASSUME SafeInv, NEW t \in Base \cup Added
                 PROVE  reported[t] + Cardinality(LiveOf(t))
                          + (IF Waiting(t) THEN 1 ELSE 0) = 1
      BY DEF Conservation
    <2>1. t \in Targets /\ t # NoTarget
      BY ConstantAssumption
    <2>2. CASE \A s \in Fds : starget[s] # t
      <3>1. LiveOf(t) = {}
        BY <2>2 DEF LiveOf
      <3>2. Cardinality(LiveOf(t)) = 0
        BY <3>1, FS_EmptySet
      <3> QED
        BY <2>1, <2>2, <3>2 DEF SafeInv, Placed
    <2>3. CASE \E s \in Fds : starget[s] = t
      <3>1. PICK s \in Fds : starget[s] = t
        BY <2>3
      <3>2. LiveOf(t) = {s}
        BY <2>1, <3>1 DEF LiveOf, SafeInv, Placed
      <3>3. Cardinality(LiveOf(t)) = 1
        BY <3>2, FS_Singleton
      <3> QED
        BY <2>1, <3>1, <3>3 DEF SafeInv, Placed
    <2> QED
      BY <2>2, <2>3
  <1> QED
    BY <1>1, SafeSafety, PTL
=============================================================================
