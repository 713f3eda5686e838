-------------------------- MODULE AsyncEngineProofs --------------------------
(***************************************************************************)
(* What holds of AsyncEngine for every value of its constants: every set   *)
(* of targets, every number of sockets and descriptors, every behaviour of *)
(* the callbacks.                                                          *)
(***************************************************************************)
EXTENDS AsyncEngine, TLAPS

\* A descriptor is in both maps or in neither, and in both while it is open.
MapsPaired ==
    /\ \A s \in Fds : (lvl4[s] = NoSM) = (starget[s] = NoTarget)
    /\ \A s \in Fds : st[s] # "closed" => lvl4[s] # NoSM
    /\ \A s \in Fds : (st[s] = "closed") = (interest[s] = "none")

\* The work lists are empty outside the pieces of the loop that use them, and
\* hold descriptors the handlers will find.
WorkLists ==
    /\ batch \subseteq Open
    /\ dirty \subseteq Known
    /\ pc # "events" => batch = {}
    /\ pc # "process" => dirty = {}

\* The inductive invariant.
LookupInv == TypeOK /\ SlotsBacked /\ MapsPaired /\ WorkLists

USE DEF ip, port

---------------------------------------------------------------------------
(* What the helpers of the actions leave.                                 *)

\* A callback keeps the counts natural and never lowers what is available.
LEMMA CallbackType ==
    ASSUME TypeCounts, TypeTargets, NEW q \in SUBSET Targets, NEW av \in Nat,
           NEW inc \in Nat, callback(q, av, inc)
    PROVE  /\ avail' \in Nat /\ avail' >= av + inc /\ budget' \in Nat
           /\ queue' \subseteq Targets /\ later' \subseteq Targets
  BY ConstantAssumption
     DEF TypeCounts, TypeTargets, callback, ensure_available_sockets

LEMMA HostSmType ==
    ASSUME TypeHosts, NEW h \in Hosts
    PROVE  host_sm(h) \in HostSM
  BY DEF TypeHosts, host_sm, HostSM

LEMMA TargetFinishedType ==
    ASSUME TypeHosts, NEW t \in Targets, target_finished(t)
    PROVE  hosts' \in [Hosts -> HostSM \cup {NoHost}] /\ stepsDone' \subseteq Hosts
PROOF
  <1> DEFINE sm == [host_sm(t[1]) EXCEPT !.done = @ + 1]
  <1>1. t[1] \in Hosts
    BY DEF Targets
  <1>2. host_sm(t[1]) \in HostSM
    BY <1>1, HostSmType
  <1>3. sm \in HostSM
    BY <1>2 DEF HostSM
  <1>4. sm.step \in Hosts \cup {Garbage}
    BY <1>3 DEF HostSM
  <1> HIDE DEF sm
  <1> QED
    BY <1>1, <1>3, <1>4 DEF target_finished, TypeHosts, sm

\* After socket_finished the socket is gone from the kernel and the maps, and
\* nothing else is.
LEMMA SocketFinishedType ==
    ASSUME TypeCounts, TypeTargets, TypeHosts, TypeMaps, TypeKernel,
           NEW s \in Fds, NEW t \in Targets, NEW q \in SUBSET Targets,
           NEW av \in Nat, socket_finished(s, t, q, av)
    PROVE  /\ avail' \in Nat /\ avail' >= av + 1 /\ budget' \in Nat
           /\ ndone' \in Nat /\ reported' \in [Targets -> Nat]
           /\ queue' \subseteq Targets /\ later' \subseteq Targets
           /\ hosts' \in [Hosts -> HostSM \cup {NoHost}] /\ stepsDone' \subseteq Hosts
           /\ TypeMaps' /\ TypeKernel'
PROOF
  <1>1. /\ avail' \in Nat /\ avail' >= av + 1 /\ budget' \in Nat
        /\ queue' \subseteq Targets /\ later' \subseteq Targets
    BY CallbackType DEF socket_finished
  <1>2. hosts' \in [Hosts -> HostSM \cup {NoHost}] /\ stepsDone' \subseteq Hosts
    BY TargetFinishedType DEF socket_finished
  <1>3. ndone' \in Nat /\ reported' \in [Targets -> Nat]
    BY DEF socket_finished, TypeCounts
  <1>4. TypeMaps' /\ TypeKernel'
    BY DEF socket_finished, free_socket, TypeMaps, TypeKernel, ConnStates
  <1> QED
    BY <1>1, <1>2, <1>3, <1>4

LEMMA SocketFinishedMaps ==
    ASSUME TypeMaps, TypeKernel, MapsPaired, NEW s \in Fds, NEW t, NEW q,
           NEW av, socket_finished(s, t, q, av)
    PROVE  /\ MapsPaired'
           /\ Known \ {s} \subseteq Known' /\ Open \ {s} \subseteq Open'
  BY DEF socket_finished, free_socket, TypeMaps, TypeKernel, MapsPaired, Known,
         Open

LEMMA Numbers ==
    MaxAge \in Nat /\ WatchTimeout \in 0 .. MaxAge /\ NSockets \in Nat
  BY ConstantAssumption

LEMMA Lvl4SMFields ==
    ASSUME NEW x \in Lvl4SM
    PROVE  x.age \in 0 .. MaxAge /\ x.wage \in 0 .. MaxAge
  BY DEF Lvl4SM

\* The entries create_socket leaves are never missing ones.
LEMMA NewEntries ==
    ASSUME TypeMaps, NEW s \in Fds, NEW t \in Targets
    PROVE  /\ new_lvl4_sm(s) \in Lvl4SM /\ new_lvl4_sm(s) # NoSM
           /\ new_starget(s, t) \in Targets /\ new_starget(s, t) # NoTarget
PROOF
  <1>1. \A x \in Lvl4SM : [x EXCEPT !.age = 0] \in Lvl4SM
    BY ConstantAssumption DEF Lvl4SM
  <1>2. [age |-> 0, wage |-> 0, reconnect |-> FALSE, reprocess |-> FALSE] \in Lvl4SM
    BY ConstantAssumption DEF Lvl4SM
  <1>3. new_lvl4_sm(s) \in Lvl4SM
    BY <1>1, <1>2 DEF TypeMaps, new_lvl4_sm
  <1> QED
    BY <1>3, ConstantAssumption, NullAssumption DEF TypeMaps, new_starget

LEMMA NextTargetsType ==
    ASSUME TypeTargets
    PROVE  next_targets \subseteq Targets
  BY DEF TypeTargets, next_targets
---------------------------------------------------------------------------
(* The inductive step.                                                    *)

\* Steps that only move the main loop keep the invariant.
LEMMA LoopSteps ==
    ASSUME LookupInv,
           \/ free_socks_full \/ free_socks_end \/ free_socks_would_block
           \/ free_socks_no_fd \/ epoll_wait \/ epoll_wait_eintr
           \/ events_done \/ dirty_done \/ timeouts_done \/ scan_over
           \/ \E s \in Fds : expire_missing(s)
    PROVE  LookupInv'
PROOF
  <1> USE DEF LookupInv, TypeOK, TypeLoop, TypeCounts, TypeMaps, TypeHosts, TypeTargets, TypeKernel, SlotsBacked,
              MapsPaired, WorkLists, Known, Open, PCs, maps, tset, kernel, loop
  <1>1. CASE free_socks_full
    BY <1>1 DEF free_socks_full
  <1>2. CASE free_socks_end
    BY <1>2 DEF free_socks_end
  <1>3. CASE free_socks_would_block
    BY <1>3 DEF free_socks_would_block
  <1>4. CASE free_socks_no_fd
    BY <1>4 DEF free_socks_no_fd, assert_fails
  <1>5. CASE epoll_wait
    BY <1>5 DEF epoll_wait, Ready
  <1>6. CASE epoll_wait_eintr
    BY <1>6 DEF epoll_wait_eintr
  <1>7. CASE events_done
    BY <1>7 DEF events_done
  <1>8. CASE dirty_done
    BY <1>8 DEF dirty_done
  <1>9. CASE timeouts_done
    BY <1>9 DEF timeouts_done
  <1>10. CASE scan_over
    BY <1>10 DEF scan_over
  <1>11. CASE \E s \in Fds : expire_missing(s)
    BY <1>11 DEF expire_missing, assert_fails
  <1> QED
    BY <1>1, <1>2, <1>3, <1>4, <1>5, <1>6, <1>7, <1>8, <1>9, <1>10, <1>11

\* Steps that finish a socket keep the invariant: only that socket's entries
\* go, and no work list holds it any more.
LEMMA FinishSteps ==
    ASSUME LookupInv, NEW s \in Fds,
           \/ connecting_finished(s) \/ connected_finished(s)
           \/ dirty_finished(s) \/ expire(s)
           \/ \E t \in Targets : free_socks_sync_error(t, s)
    PROVE  LookupInv'
PROOF
  <1> USE DEF LookupInv, TypeOK
  <1>1. ASSUME NEW t \in Targets, NEW q \in SUBSET Targets, NEW av \in Nat,
               socket_finished(s, t, q, av), TypeLoop', nlaunched' \in Nat,
               todo' \subseteq Targets, cur' \in Hosts \cup {Garbage},
               WorkLists', SlotsBacked'
        PROVE  LookupInv'
    <2>1. TypeCounts' /\ TypeHosts' /\ TypeTargets' /\ TypeMaps' /\ TypeKernel'
      BY <1>1, SocketFinishedType DEF TypeCounts, TypeHosts, TypeTargets
    <2>2. MapsPaired'
      BY <1>1, SocketFinishedMaps
    <2> QED
      BY <1>1, <2>1, <2>2
  <1>2. ASSUME NEW t \in Targets, NEW q \in SUBSET Targets, NEW av \in Nat,
               socket_finished(s, t, q, av)
        PROVE  Known \ {s} \subseteq Known' /\ Open \ {s} \subseteq Open'
    BY <1>2, SocketFinishedMaps
  <1>3. ASSUME starget[s] # NoTarget
        PROVE  starget[s] \in Targets
    BY <1>3 DEF TypeMaps
  <1>4. avail \in Nat /\ queue \in SUBSET Targets
    BY DEF TypeCounts, TypeTargets
  <1>5. CASE connecting_finished(s) \/ connected_finished(s)
    <2>1. /\ s \in batch /\ pc = "events" /\ socket_finished(s, starget[s], queue, avail)
          /\ batch' = batch \ {s}
          /\ UNCHANGED <<pc, dirty, expired, idle, noneValid, ended, slots,
                         nlaunched, todo, cur>>
      BY <1>5 DEF connecting_finished, connected_finished, next_event
    <2>2. starget[s] \in Targets
      BY <1>3, <2>1 DEF WorkLists, Open, MapsPaired
    <2>3. TypeLoop' /\ nlaunched' \in Nat /\ todo' \subseteq Targets
          /\ cur' \in Hosts \cup {Garbage} /\ SlotsBacked'
      BY <2>1 DEF TypeLoop, TypeCounts, TypeTargets, TypeHosts, SlotsBacked
    <2>4. WorkLists'
      BY <1>2, <1>4, <2>1, <2>2 DEF WorkLists
    <2> QED
      BY <1>1, <1>4, <2>1, <2>2, <2>3, <2>4
  <1>6. CASE dirty_finished(s)
    <2>1. /\ s \in dirty /\ pc = "process" /\ socket_finished(s, starget[s], queue, avail)
          /\ dirty' = dirty \ {s}
          /\ UNCHANGED <<pc, batch, expired, idle, noneValid, ended, slots,
                         nlaunched, todo, cur>>
      BY <1>6 DEF dirty_finished, next_dirty, IsLowest
    <2>2. starget[s] \in Targets
      BY <1>3, <2>1 DEF WorkLists, Known, MapsPaired
    <2>3. TypeLoop' /\ nlaunched' \in Nat /\ todo' \subseteq Targets
          /\ cur' \in Hosts \cup {Garbage} /\ SlotsBacked'
      BY <2>1 DEF TypeLoop, TypeCounts, TypeTargets, TypeHosts, SlotsBacked
    <2>4. WorkLists'
      BY <1>2, <1>4, <2>1, <2>2 DEF WorkLists
    <2> QED
      BY <1>1, <1>4, <2>1, <2>2, <2>3, <2>4
  <1>7. CASE expire(s)
    <2>1. /\ pc = "timeouts" /\ socket_finished(s, starget[s], queue, avail)
          /\ expired' = expired \ {s}
          /\ UNCHANGED <<pc, batch, dirty, idle, noneValid, ended, slots,
                         nlaunched, todo, cur>>
      BY <1>7 DEF expire
    <2>2. starget[s] \in Targets
      BY <1>3, <1>7 DEF expire
    <2>3. TypeLoop' /\ nlaunched' \in Nat /\ todo' \subseteq Targets
          /\ cur' \in Hosts \cup {Garbage} /\ SlotsBacked'
      BY <2>1 DEF TypeLoop, TypeCounts, TypeTargets, TypeHosts, SlotsBacked
    <2>4. WorkLists'
      BY <2>1 DEF WorkLists
    <2> QED
      BY <1>1, <1>4, <2>1, <2>2, <2>3, <2>4
  <1>8. CASE \E t \in Targets : free_socks_sync_error(t, s)
    <2>1. PICK t \in Targets : free_socks_sync_error(t, s)
      BY <1>8
    <2>2. /\ pc = "free" /\ slots > 0 /\ t \in next_targets
          /\ socket_finished(s, new_starget(s, t), queue \ {t}, avail - 1)
          /\ todo' = todo \ {t} /\ nlaunched' = nlaunched + 1
          /\ cur' \in {ip(t), cur} /\ UNCHANGED loop
      BY <2>1 DEF free_socks_sync_error
    <2>3. avail - 1 \in Nat
      BY <2>2 DEF SlotsBacked, TypeCounts, TypeLoop
    <2>4. new_starget(s, t) \in Targets
      BY NewEntries
    <2>5. TypeLoop' /\ nlaunched' \in Nat /\ todo' \subseteq Targets
      BY <2>2 DEF TypeLoop, TypeCounts, TypeTargets, loop
    <2>6. cur' \in Hosts \cup {Garbage}
      BY <2>2 DEF TypeHosts, Targets
    <2>7. SlotsBacked'
      <3>1. avail' \in Nat /\ avail' >= (avail - 1) + 1
        BY <1>4, <2>2, <2>3, <2>4, SocketFinishedType
      <3> QED
        BY <2>2, <3>1 DEF SlotsBacked, TypeCounts, TypeLoop, loop
    <2>8. WorkLists'
      BY <2>2 DEF WorkLists, loop
    <2>9. queue \ {t} \in SUBSET Targets
      BY <1>4
    <2> QED
      BY <1>1, <2>2, <2>3, <2>4, <2>5, <2>6, <2>7, <2>8, <2>9
  <1> QED
    BY <1>5, <1>6, <1>7, <1>8

\* Steps that keep a socket going keep the invariant.
LEMMA KeepSteps ==
    ASSUME LookupInv, NEW s \in Fds,
           \/ connecting_connected(s) \/ connected_data(s) \/ event_ignored(s)
           \/ dirty_processed(s)
    PROVE  LookupInv'
PROOF
  <1> USE DEF LookupInv, TypeOK
  <1>1. avail \in Nat /\ queue \in SUBSET Targets
    BY DEF TypeCounts, TypeTargets
  <1>2. ASSUME callback(queue, avail, 0)
        PROVE  /\ avail' \in Nat /\ avail' >= avail /\ budget' \in Nat
               /\ queue' \subseteq Targets /\ later' \subseteq Targets
    BY <1>1, <1>2, CallbackType
  <1>3. ASSUME lvl4[s] # NoSM
        PROVE  /\ lvl4[s] \in Lvl4SM /\ starget[s] \in Targets
               /\ ip(starget[s]) \in Hosts /\ host_sm(ip(starget[s])) \in HostSM
    <2>1. lvl4[s] \in Lvl4SM /\ starget[s] \in Targets
      BY <1>3 DEF TypeMaps, MapsPaired
    <2>2. ip(starget[s]) \in Hosts
      BY <2>1 DEF Targets
    <2> QED
      BY <2>1, <2>2, HostSmType
  <1>4. ASSUME NEW sm \in Lvl4SM, lvl4[s] # NoSM,
               lvl4' = [lvl4 EXCEPT ![s] = sm], UNCHANGED starget
        PROVE  TypeMaps' /\ Known' = Known
               /\ \A f \in Fds : (lvl4'[f] = NoSM) = (lvl4[f] = NoSM)
    BY <1>4, NullAssumption DEF TypeMaps, Known
  <1>5. CASE connecting_connected(s)
    <2>1. s \in batch /\ pc = "events" /\ lvl4[s] # NoSM /\ st[s] # "closed"
      BY <1>5 DEF connecting_connected, next_event, WorkLists, Open, MapsPaired
    <2>2. PICK sm \in Lvl4SM : lvl4' = [lvl4 EXCEPT ![s] = sm]
      BY <1>5 DEF connecting_connected, after_callback
    <2>3. TypeMaps' /\ Known' = Known
          /\ \A f \in Fds : (lvl4'[f] = NoSM) = (lvl4[f] = NoSM)
      BY <1>4, <1>5, <2>1, <2>2 DEF connecting_connected
    <2>4. TypeCounts' /\ TypeTargets' /\ SlotsBacked'
      BY <1>2, <1>5, <2>1
         DEF connecting_connected, next_event, TypeCounts, TypeTargets, SlotsBacked
    <2>5. TypeHosts'
      BY <1>3, <1>5, <2>1 DEF connecting_connected, next_event, TypeHosts
    <2>6. TypeKernel' /\ TypeLoop'
      BY <1>5, <2>1 DEF connecting_connected, next_event, TypeKernel, TypeLoop
    <2>7. MapsPaired'
      BY <1>5, <2>1, <2>3 DEF connecting_connected, MapsPaired, TypeKernel
    <2>8. WorkLists'
      BY <1>5, <2>1, <2>3 DEF connecting_connected, next_event, WorkLists, Open
    <2> QED
      BY <2>3, <2>4, <2>5, <2>6, <2>7, <2>8
  <1>6. CASE connected_data(s)
    <2>1. s \in batch /\ pc = "events" /\ lvl4[s] # NoSM /\ st[s] # "closed"
      BY <1>6 DEF connected_data, next_event, WorkLists, Open, MapsPaired
    <2>2. PICK sm \in Lvl4SM : lvl4' = [lvl4 EXCEPT ![s] = sm]
      BY <1>6 DEF connected_data, after_callback
    <2>3. TypeMaps' /\ Known' = Known
          /\ \A f \in Fds : (lvl4'[f] = NoSM) = (lvl4[f] = NoSM)
      BY <1>4, <1>6, <2>1, <2>2 DEF connected_data
    <2>4. TypeCounts' /\ TypeTargets' /\ SlotsBacked'
      BY <1>2, <1>6, <2>1
         DEF connected_data, next_event, TypeCounts, TypeTargets, SlotsBacked
    <2>5. TypeHosts'
      BY <1>3, <1>6, <2>1 DEF connected_data, next_event, TypeHosts
    <2>6. TypeKernel' /\ TypeLoop'
      BY <1>6, <2>1 DEF connected_data, next_event, TypeKernel, TypeLoop, ConnStates
    <2>7. MapsPaired' /\ Open' = Open
      BY <1>6, <2>1, <2>3 DEF connected_data, MapsPaired, TypeKernel, Open
    <2>8. WorkLists'
      BY <1>6, <2>1, <2>3, <2>7 DEF connected_data, next_event, WorkLists
    <2> QED
      BY <2>3, <2>4, <2>5, <2>6, <2>7, <2>8
  <1>7. CASE event_ignored(s)
    BY <1>7 DEF event_ignored, next_event, TypeLoop, TypeCounts, TypeMaps,
                TypeHosts, TypeTargets, TypeKernel, SlotsBacked, MapsPaired,
                WorkLists, Known, Open, maps, kernel
  <1>8. CASE dirty_processed(s)
    <2>1. s \in dirty /\ pc = "process" /\ lvl4[s] # NoSM
      BY <1>8 DEF dirty_processed, next_dirty, IsLowest, WorkLists, Known
    <2>2. PICK sm \in Lvl4SM : lvl4' = [lvl4 EXCEPT ![s] = sm]
      BY <1>8 DEF dirty_processed, after_callback
    <2>3. TypeMaps' /\ Known' = Known
          /\ \A f \in Fds : (lvl4'[f] = NoSM) = (lvl4[f] = NoSM)
      BY <1>4, <1>8, <2>1, <2>2 DEF dirty_processed
    <2>4. TypeCounts' /\ TypeTargets' /\ SlotsBacked'
      BY <1>2, <1>8, <2>1
         DEF dirty_processed, next_dirty, TypeCounts, TypeTargets, SlotsBacked
    <2>5. TypeHosts'
      BY <1>3, <1>8, <2>1 DEF dirty_processed, next_dirty, TypeHosts
    <2>6. TypeKernel' /\ TypeLoop'
      BY <1>8, <2>1 DEF dirty_processed, next_dirty, TypeKernel, TypeLoop, kernel
    <2>7. MapsPaired' /\ Open' = Open
      BY <1>8, <2>1, <2>3 DEF dirty_processed, MapsPaired, Open, kernel
    <2>8. WorkLists'
      BY <1>8, <2>1, <2>3, <2>7 DEF dirty_processed, next_dirty, WorkLists
    <2> QED
      BY <2>3, <2>4, <2>5, <2>6, <2>7, <2>8
  <1> QED
    BY <1>5, <1>6, <1>7, <1>8

\* Steps that open a socket keep the invariant: entries are inserted at the
\* descriptor the kernel returned, and a descriptor that was closed for a
\* reconnection is not in the list of pending events.
LEMMA OpenSteps ==
    ASSUME LookupInv, NEW s \in Fds,
           \/ \E t \in Targets : free_socks_launch(t, s)
           \/ \E n \in Fds : connected_reconnect(s, n)
    PROVE  LookupInv'
PROOF
  <1> USE DEF LookupInv, TypeOK
  <1>1. CASE \E t \in Targets : free_socks_launch(t, s)
    <2>1. PICK t \in Targets : free_socks_launch(t, s)
      BY <1>1
    <2> USE DEF free_socks_launch
    <2>2. /\ new_lvl4_sm(s) \in Lvl4SM /\ new_lvl4_sm(s) # NoSM
          /\ new_starget(s, t) \in Targets /\ new_starget(s, t) # NoTarget
      BY NewEntries
    <2>3. cur' \in Hosts \cup {Garbage} /\ TypeTargets'
      BY <2>1 DEF next_target, TypeHosts, TypeTargets, Targets
    <2>4. TypeHosts'
      <3>1. t[1] \in Hosts /\ host_sm(t[1]) \in HostSM
        BY HostSmType DEF Targets
      <3>2. [host_sm(t[1]) EXCEPT !.step = cur'] \in HostSM
        BY <3>1, <2>3 DEF HostSM
      <3> QED
        BY <2>1, <2>3, <3>1, <3>2 DEF init_host_sm, TypeHosts
    <2>5. TypeLoop' /\ TypeCounts' /\ SlotsBacked'
      BY <2>1 DEF TypeLoop, TypeCounts, SlotsBacked
    <2>6. TypeMaps' /\ TypeKernel'
      BY <2>1, <2>2 DEF TypeMaps, TypeKernel, ConnStates
    <2>7. MapsPaired'
      BY <2>1, <2>2 DEF MapsPaired, TypeMaps, TypeKernel
    <2>8. WorkLists'
      BY <2>1, <2>2 DEF WorkLists, TypeMaps, TypeKernel
    <2> QED
      BY <2>3, <2>4, <2>5, <2>6, <2>7, <2>8
  <1>2. CASE \E n \in Fds : connected_reconnect(s, n)
    <2>1. PICK n \in Fds : connected_reconnect(s, n)
      BY <1>2
    <2> USE DEF connected_reconnect
    <2>2. s \in batch /\ pc = "events" /\ lvl4[s] # NoSM /\ starget[s] \in Targets
      BY <2>1 DEF next_event, WorkLists, Open, MapsPaired, TypeMaps
    <2>3. /\ new_lvl4_sm(n) \in Lvl4SM /\ new_lvl4_sm(n) # NoSM
          /\ new_starget(n, starget[s]) \in Targets
          /\ new_starget(n, starget[s]) # NoTarget
      BY <2>2, NewEntries
    <2>4. /\ avail' \in Nat /\ avail' >= avail /\ budget' \in Nat
          /\ queue' \subseteq Targets /\ later' \subseteq Targets
      <3>1. avail \in Nat /\ queue \in SUBSET Targets
        BY DEF TypeCounts, TypeTargets
      <3> QED
        BY <2>1, <3>1, CallbackType
    <2>5. TypeCounts' /\ TypeTargets' /\ TypeHosts' /\ TypeLoop' /\ SlotsBacked'
      BY <2>1, <2>2, <2>4
         DEF next_event, TypeCounts, TypeTargets, TypeHosts, TypeLoop, SlotsBacked
    <2>6. PICK x \in ConnStates \ {"closed"} :
             st' = [st EXCEPT ![s] = "closed", ![n] = x]
      BY <2>1 DEF ConnStates
    <2>7. TypeMaps'
      BY <2>1, <2>3 DEF TypeMaps
    <2>8. TypeKernel'
      BY <2>1, <2>2, <2>6 DEF TypeKernel, ConnStates
    <2>9. /\ \A f \in Fds \ {n} : lvl4'[f] = lvl4[f] /\ starget'[f] = starget[f]
          /\ lvl4'[n] # NoSM /\ starget'[n] # NoTarget
      BY <2>1, <2>3 DEF TypeMaps
    <2>10. /\ \A f \in Fds \ {n} : f # s => st'[f] = st[f] /\ interest'[f] = interest[f]
           /\ st'[n] # "closed" /\ interest'[n] = "out"
           /\ s # n => st'[s] = "closed" /\ interest'[s] = "none"
      BY <2>1, <2>6 DEF TypeKernel
    <2>11. MapsPaired'
      <3>1. \A f \in Fds : (lvl4'[f] = NoSM) = (starget'[f] = NoTarget)
        BY <2>9 DEF MapsPaired
      <3>2. \A f \in Fds : st'[f] # "closed" => lvl4'[f] # NoSM
        BY <2>9, <2>10 DEF MapsPaired
      <3>3. \A f \in Fds : (st'[f] = "closed") = (interest'[f] = "none")
        BY <2>10 DEF MapsPaired
      <3> QED
        BY <3>1, <3>2, <3>3 DEF MapsPaired
    <2>12. WorkLists'
      <3>1. batch' = batch \ {s} /\ pc' = pc /\ dirty' = {} /\ batch \subseteq Open
        BY <2>1, <2>2 DEF next_event, WorkLists
      <3> QED
        BY <2>2, <2>10, <3>1 DEF WorkLists, Open
    <2> QED
      BY <2>5, <2>7, <2>8, <2>11, <2>12
  <1> QED
    BY <1>1, <1>2

\* The pass over the connections, the end of a pass of the main loop, the
\* network and the clock keep the invariant.
LEMMA OtherSteps ==
    ASSUME LookupInv, dirty_scan \/ scan_goes_on \/ Network \/ Tick \/ UNCHANGED vars
    PROVE  LookupInv'
PROOF
  <1> USE DEF LookupInv, TypeOK
  <1>1. ASSUME callback(queue, avail, 0)
        PROVE  /\ avail' \in Nat /\ avail' >= avail /\ budget' \in Nat
               /\ queue' \subseteq Targets /\ later' \subseteq Targets
    <2>1. avail \in Nat /\ queue \in SUBSET Targets
      BY DEF TypeCounts, TypeTargets
    <2> QED
      BY <1>1, <2>1, CallbackType
  <1>2. CASE dirty_scan
    <2> USE <1>2 DEF dirty_scan
    <2>1. TypeCounts' /\ TypeTargets' /\ SlotsBacked'
      BY <1>1 DEF TypeCounts, TypeTargets, SlotsBacked
    <2>2. PICK E \in SUBSET Known :
            lvl4' = [s \in Fds |->
                       IF lvl4[s] = NoSM THEN NoSM
                       ELSE [lvl4[s] EXCEPT !.reprocess = FALSE,
                               !.wage = IF s \notin E /\ watch_due(s)
                                        THEN 0 ELSE @]]
      OBVIOUS
    <2>3. \A x \in Lvl4SM : \A w \in 0 .. MaxAge :
             [x EXCEPT !.reprocess = FALSE, !.wage = w] \in Lvl4SM
      BY DEF Lvl4SM
    <2>4. \A s \in Fds : lvl4[s] # NoSM => lvl4'[s] \in Lvl4SM
      <3> SUFFICES ASSUME NEW s \in Fds, lvl4[s] # NoSM
                   PROVE  lvl4'[s] \in Lvl4SM
        OBVIOUS
      <3>1. lvl4[s] \in Lvl4SM
        BY DEF TypeMaps
      <3>2. lvl4[s].wage \in 0 .. MaxAge /\ 0 \in 0 .. MaxAge
        <4>1. 0 \in 0 .. MaxAge
          BY ONLY Numbers
        <4>2. \A x \in Lvl4SM : x.wage \in 0 .. MaxAge
          BY Lvl4SMFields
        <4> QED
          BY ONLY <3>1, <4>1, <4>2
      <3>3. PICK w \in 0 .. MaxAge :
              lvl4'[s] = [lvl4[s] EXCEPT !.reprocess = FALSE, !.wage = w]
        BY <2>2, <3>2
      <3> QED
        BY ONLY <2>3, <3>1, <3>3
    <2>5. \A s \in Fds : (lvl4'[s] = NoSM) = (lvl4[s] = NoSM)
      BY <2>2, <2>4, NullAssumption
    <2>6. TypeMaps'
      <3>1. \A s \in Fds : lvl4'[s] \in Lvl4SM \cup {NoSM}
        BY <2>2, <2>4
      <3> QED
        BY <2>2, <3>1 DEF TypeMaps
    <2>7. MapsPaired' /\ Known' = Known /\ Open' = Open
      BY <2>5 DEF MapsPaired, Known, Open, kernel
    <2>8. TypeLoop' /\ TypeHosts' /\ TypeKernel'
      BY DEF TypeLoop, TypeHosts, TypeKernel, PCs, Known, kernel
    <2>9. WorkLists'
      BY <2>7 DEF WorkLists
    <2> QED
      BY <2>1, <2>6, <2>7, <2>8, <2>9
  <1>3. CASE scan_goes_on
    <2> USE <1>3 DEF scan_goes_on
    <2>1. TypeCounts' /\ TypeTargets' /\ SlotsBacked'
      BY <1>1 DEF TypeCounts, TypeTargets, SlotsBacked
    <2> QED
      BY <2>1 DEF TypeLoop, PCs, TypeHosts, TypeMaps, TypeKernel, MapsPaired,
                  WorkLists, Known, Open, maps, kernel
  <1>4. CASE Network
    <2>1. PICK s \in Fds, x \in ConnStates \ {"closed"} :
             /\ st[s] # "closed" /\ st' = [st EXCEPT ![s] = x]
             /\ UNCHANGED <<loop, maps, hosts, stepsDone, avail, nlaunched,
                            ndone, tset, peer, interest, budget, reported>>
      BY <1>4 DEF Network, NetConnected, NetRefused, NetData, NetClose,
                  NetError, NetStep, ConnStates
    <2> QED
      BY <2>1 DEF TypeLoop, TypeCounts, TypeMaps, TypeHosts, TypeTargets,
                  TypeKernel, SlotsBacked, MapsPaired, WorkLists, Known, Open,
                  loop, maps, tset
  <1>5. CASE Tick
    <2> USE <1>5 DEF Tick
    <2>1. \A x \in Lvl4SM : [x EXCEPT !.age = older(@, MaxAge),
                                      !.wage = older(@, WatchTimeout)] \in Lvl4SM
      <3> SUFFICES ASSUME NEW x \in Lvl4SM
                   PROVE  [x EXCEPT !.age = older(@, MaxAge),
                                    !.wage = older(@, WatchTimeout)] \in Lvl4SM
        OBVIOUS
      <3>1. older(x.age, MaxAge) \in 0 .. MaxAge
            /\ older(x.wage, WatchTimeout) \in 0 .. MaxAge
        <4>2. \A a \in 0 .. MaxAge : older(a, WatchTimeout) \in 0 .. MaxAge
          BY ONLY Numbers DEF older
        <4>3. \A a \in 0 .. MaxAge : older(a, MaxAge) \in 0 .. MaxAge
          BY ONLY Numbers DEF older
        <4>4. x.age \in 0 .. MaxAge /\ x.wage \in 0 .. MaxAge
          BY Lvl4SMFields
        <4> QED
          BY ONLY <4>2, <4>3, <4>4
      <3> QED
        BY <3>1 DEF Lvl4SM
    <2>2. \A s \in Fds : /\ lvl4[s] # NoSM => lvl4'[s] \in Lvl4SM
                         /\ lvl4[s] = NoSM => lvl4'[s] = NoSM
      BY <2>1 DEF TypeMaps
    <2>3. TypeMaps'
      <3>1. \A s \in Fds : lvl4'[s] \in Lvl4SM \cup {NoSM}
        BY <2>2
      <3> QED
        BY <3>1 DEF TypeMaps
    <2>4. \A s \in Fds : (lvl4'[s] = NoSM) = (lvl4[s] = NoSM)
      BY <2>2, NullAssumption
    <2>5. MapsPaired' /\ Known' = Known /\ Open' = Open
      BY <2>4 DEF MapsPaired, Known, Open, kernel
    <2> QED
      BY <2>3, <2>5
         DEF TypeLoop, TypeCounts, TypeHosts, TypeTargets, TypeKernel,
             SlotsBacked, WorkLists, loop, tset, kernel
  <1>6. CASE UNCHANGED vars
    BY <1>6 DEF vars, TypeLoop, TypeCounts, TypeMaps, TypeHosts, TypeTargets,
                TypeKernel, SlotsBacked, MapsPaired, WorkLists, Known, Open,
                loop, maps, tset, kernel
  <1> QED
    BY <1>2, <1>3, <1>4, <1>5, <1>6

---------------------------------------------------------------------------
(* The theorems without assumptions on the use of the engine.             *)

LEMMA LookupInit == Init => LookupInv
PROOF
  <1> SUFFICES ASSUME Init
               PROVE  LookupInv
    OBVIOUS
  <1> USE DEF Init
  <1>1. TypeLoop /\ TypeCounts /\ SlotsBacked
    <2>1. TypeLoop
      BY Numbers DEF TypeLoop, PCs
    <2>2. TypeCounts
      BY Numbers DEF TypeCounts
    <2>3. SlotsBacked
      BY Numbers DEF SlotsBacked
    <2> QED
      BY <2>1, <2>2, <2>3
  <1>2. TypeMaps /\ TypeHosts /\ TypeTargets
    BY ConstantAssumption DEF TypeMaps, TypeHosts, TypeTargets
  <1>3. TypeKernel
    BY DEF TypeKernel, ConnStates
  <1>4. MapsPaired /\ WorkLists
    BY DEF MapsPaired, WorkLists
  <1> QED
    BY <1>1, <1>2, <1>3, <1>4 DEF LookupInv, TypeOK

LEMMA LookupStep == LookupInv /\ [Next]_vars => LookupInv'
PROOF
  <1> SUFFICES ASSUME LookupInv, [Next]_vars
               PROVE  LookupInv'
    OBVIOUS
  <1>1. CASE process_free_socks
    BY <1>1, LoopSteps, FinishSteps, OpenSteps DEF process_free_socks
  <1>2. CASE process_events
    BY <1>2, LoopSteps, FinishSteps, OpenSteps, KeepSteps
       DEF process_events, process_connecting_ready, process_connected_ready
  <1>3. CASE process_dirty_and_timeouts
    BY <1>3, LoopSteps, FinishSteps, KeepSteps, OtherSteps
       DEF process_dirty_and_timeouts
  <1>4. CASE scan_over \/ epoll_wait_eintr
    BY <1>4, LoopSteps
  <1>5. CASE scan_goes_on \/ Network \/ Tick \/ Terminated \/ UNCHANGED vars
    BY <1>5, OtherSteps DEF Terminated
  <1> QED
    BY <1>1, <1>2, <1>3, <1>4, <1>5 DEF Next, Engine

\* The inductive invariant holds of every behaviour of the engine.
THEOREM LookupSafety == Spec => []LookupInv
PROOF
  <1>1. Init => LookupInv
    BY LookupInit
  <1>2. LookupInv /\ [Next]_vars => LookupInv'
    BY LookupStep
  <1> QED
    BY <1>1, <1>2, PTL DEF Spec

\* Type correctness: in particular _avail_socks never wraps below zero.
THEOREM TypeCorrect == Spec => []TypeOK
PROOF
  <1>1. LookupInv => TypeOK
    BY DEF LookupInv
  <1> QED
    BY <1>1, LookupSafety, PTL

\* The assertion of create_socket on _avail_socks holds in process_free_socks.
THEOREM AssertAvailable == Spec => []SlotsBacked
PROOF
  <1>1. LookupInv => SlotsBacked
    BY DEF LookupInv
  <1> QED
    BY <1>1, LookupSafety, PTL

\* The handlers of process_events and the loop over to_process find the
\* sockets they look up, whatever the callbacks and the peers do.
THEOREM LookupsAlwaysFound == Spec => []LookupsFound
PROOF
  <1>1. LookupInv => LookupsFound
    BY DEF LookupInv, WorkLists, MapsPaired, LookupsFound, Known, Open, TypeOK,
           TypeLoop
  <1> QED
    BY <1>1, LookupSafety, PTL
=============================================================================
