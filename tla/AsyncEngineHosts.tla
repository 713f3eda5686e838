--------------------------- MODULE AsyncEngineHosts ---------------------------
(***************************************************************************)
(* The per-host bookkeeping of AsyncEngine, and the refinement of Scan.    *)
(*                                                                         *)
(* An IPV4TargetSet counts the ports a host has answered in its HostSM and *)
(* hands the host to step_done when the count reaches the number of ports. *)
(* The count, the step index and the moment the HostSM is created and      *)
(* destroyed have to match the connections really in flight: HostInv says  *)
(* how, and the rest follows from it.                                      *)
(***************************************************************************)
EXTENDS AsyncEngineSafety

\* How an IPV4TargetSet is used: it enumerates every port of every host, no
\* callback adds targets to it, and connect() never fails at once.  A target
\* whose connect() fails at once is finished before init_host_sm gave its
\* HostSM a step, and one that was added is given the step of another host.
StepUse ==
    TracksPorts =>
        /\ ~SyncErrors /\ Added = {}
        /\ \E H \in SUBSET Hosts, P \in SUBSET Ports : Base = H \X P

All == Base \cup Added
BaseOf(h) == {t \in Base : ip(t) = h}
Reported == {t \in Targets : reported[t] > 0}

\* Only targets of the set are ever waiting, in flight or reported.
FromSet ==
    /\ todo \subseteq Base /\ queue \subseteq Added /\ later \subseteq Added
    /\ \A s \in Fds : starget[s] # NoTarget => starget[s] \in All
    /\ Reported \subseteq All

\* A SimpleTargetSet has its HostSM freed at every finish, but a callback of
\* another connection to the host creates it again: there is none without a
\* connection.
HostsInUse ==
    \A h \in Hosts : hosts[h] # NoHost =>
        \E s \in Fds : starget[s] # NoTarget /\ ip(starget[s]) = h

\* The HostSM of h is there from the first launch to the last report, counts
\* the reports and holds the step of h; h was handed to step_done iff all its
\* targets are reported.
HostExact(h) ==
    /\ (hosts[h] = NoHost) <=>
          (BaseOf(h) \subseteq todo \/ BaseOf(h) \subseteq Reported)
    /\ hosts[h] # NoHost =>
          hosts[h] = [done |-> Cardinality(BaseOf(h) \cap Reported), step |-> h]
    /\ (h \in stepsDone) <=> (BaseOf(h) # {} /\ BaseOf(h) \subseteq Reported)

\* Only the host of the current step is partly drawn.
OneStep ==
    \A h \in Hosts \ {cur} :
        BaseOf(h) \subseteq todo \/ BaseOf(h) \cap todo = {}

HostInv ==
    /\ FromSet
    /\ ~TracksPorts => stepsDone = {} /\ HostsInUse
    /\ TracksPorts => /\ \A h \in Hosts : HostExact(h)
                      /\ OneStep
                      /\ ended => todo = {}
    /\ pc = "done" => ended

---------------------------------------------------------------------------
(* The steps, by what they do to the targets.                             *)

\* Steps a target does not notice: a callback may have added targets, or the
\* HostSM of a connection may have been looked up.
Quiet ==
    /\ UNCHANGED <<todo, starget, reported, stepsDone>>
    /\ queue' \cup later' = queue \cup later
    /\ \/ hosts' = hosts
       \/ \E s \in Open :
             hosts' = [hosts EXCEPT ![ip(starget[s])] = host_sm(ip(starget[s]))]
    /\ cur' = cur \/ todo = {}
    /\ ended' => ended \/ todo = {}
    /\ pc' = "done" => ended'

Finishes(s) ==
    /\ socket_finished(s, starget[s], queue, avail)
    /\ UNCHANGED <<todo, cur, ended, pc>>

LEMMA CallbackQuiet ==
    ASSUME SafeInv, callback(queue, avail, 0)
    PROVE  queue' \cup later' = queue \cup later
  BY CallbackExact DEF SafeInv, LookupInv, TypeOK, TypeCounts, TypeTargets,
                       Counted

LEMMA QuietLoopSteps ==
    ASSUME SafeInv, RegularUse, pc = "done" => ended,
           \/ free_socks_full \/ free_socks_end \/ free_socks_would_block
           \/ free_socks_no_fd \/ epoll_wait \/ epoll_wait_eintr
           \/ events_done \/ dirty_done \/ timeouts_done \/ scan_over
           \/ Network \/ Tick \/ UNCHANGED vars
           \/ \E s \in Fds : expire_missing(s) \/ event_ignored(s)
    PROVE  Quiet
PROOF
  <1>1. CASE free_socks_end
    <2>1. todo = {}
      BY <1>1 DEF free_socks_end, next_targets
    <2> QED
      BY <1>1, <2>1 DEF free_socks_end, maps, Quiet
  <1>2. CASE scan_over
    BY <1>2 DEF scan_over, maps, tset, Quiet
  <1>3. CASE \/ free_socks_full \/ free_socks_would_block \/ free_socks_no_fd
             \/ epoll_wait \/ epoll_wait_eintr \/ events_done \/ dirty_done
             \/ timeouts_done \/ \E s \in Fds : expire_missing(s)
    <2>1. UNCHANGED <<todo, starget, reported, stepsDone, queue, later, hosts,
                      cur>>
      BY <1>3 DEF free_socks_full, free_socks_would_block, free_socks_no_fd,
                  epoll_wait, epoll_wait_eintr, events_done, dirty_done,
                  timeouts_done, expire_missing, assert_fails, maps, tset
    <2>2. pc' # "done" /\ (ended' = ended \/ ended' = FALSE)
      BY <1>3 DEF free_socks_full, free_socks_would_block, free_socks_no_fd,
                  epoll_wait, epoll_wait_eintr, events_done, dirty_done,
                  timeouts_done, expire_missing, assert_fails
    <2> QED
      BY <2>1, <2>2 DEF Quiet
  <1>4. CASE Network \/ Tick \/ UNCHANGED vars
             \/ \E s \in Fds : event_ignored(s)
    <2>1. UNCHANGED <<todo, starget, reported, stepsDone, queue, later, hosts,
                      cur, pc, ended>>
      BY <1>4 DEF Network, NetConnected, NetRefused, NetData, NetClose,
                  NetError, NetStep, Tick, event_ignored, next_event, vars,
                  loop, maps, tset
    <2> QED
      BY <2>1 DEF Quiet
  <1> QED
    BY <1>1, <1>2, <1>3, <1>4

LEMMA QuietCallbackSteps ==
    ASSUME SafeInv,
           \/ dirty_scan \/ scan_goes_on
           \/ \E s \in Fds : \/ connecting_connected(s) \/ connected_data(s)
                             \/ dirty_processed(s)
    PROVE  Quiet
PROOF
  <1>1. CASE dirty_scan \/ scan_goes_on
    <2>1. /\ UNCHANGED <<todo, starget, reported, stepsDone, hosts, cur, ended>>
          /\ pc' # "done"
          /\ callback(queue, avail, 0) \/ UNCHANGED <<queue, later>>
      BY <1>1 DEF dirty_scan, scan_goes_on, maps
    <2> QED
      BY <2>1, CallbackQuiet DEF Quiet
  <1>2. ASSUME NEW s \in Fds,
               connecting_connected(s) \/ connected_data(s) \/ dirty_processed(s)
        PROVE  Quiet
    <2>1. /\ UNCHANGED <<todo, starget, reported, stepsDone, cur, ended>>
          /\ pc' = pc /\ pc # "done" /\ callback(queue, avail, 0)
          /\ hosts' = [hosts EXCEPT ![ip(starget[s])] = host_sm(ip(starget[s]))]
          /\ s \in batch \cup dirty
      BY <1>2 DEF connecting_connected, connected_data, dirty_processed,
                  next_event, next_dirty, IsLowest
    <2>2. s \in Open
      BY <2>1 DEF SafeInv, LookupInv, WorkLists, MapsAgree, Known, Open
    <2> QED
      BY <2>1, <2>2, CallbackQuiet DEF Quiet
  <1> QED
    BY <1>1, <1>2

\* Under regular use a step draws a target, finishes an open socket, or is
\* quiet.
LEMMA StepCases ==
    ASSUME SafeInv, RegularUse, pc = "done" => ended, [Next]_vars
    PROVE  \/ Quiet
           \/ \E s \in Open : Finishes(s)
           \/ \E t \in Targets, s \in Fds :
                 free_socks_launch(t, s) \/ free_socks_sync_error(t, s)
PROOF
  <1>1. ASSUME NEW s \in Fds,
               \/ connecting_finished(s) \/ connected_finished(s)
               \/ dirty_finished(s) \/ expire(s)
        PROVE  s \in Open /\ Finishes(s)
    <2>1. ~dirty_finished(s)
      BY DEF RegularUse, dirty_finished
    <2>2. Finishes(s) /\ (s \in batch \/ s \in expired)
      BY <1>1, <2>1 DEF connecting_finished, connected_finished, expire,
                        next_event, IsLowest, Finishes
    <2> QED
      BY <2>2 DEF SafeInv, LookupInv, WorkLists, ExpiredKnown, Known, MapsAgree,
                  Open
  <1>2. CASE process_free_socks
    BY <1>2, QuietLoopSteps DEF process_free_socks
  <1>3. CASE process_events
    BY <1>1, <1>3, QuietLoopSteps, QuietCallbackSteps, SafeNoReconnect
       DEF process_events, process_connecting_ready, process_connected_ready
  <1>4. CASE process_dirty_and_timeouts
    BY <1>1, <1>4, QuietLoopSteps, QuietCallbackSteps
       DEF process_dirty_and_timeouts
  <1>5. CASE scan_over \/ epoll_wait_eintr \/ Network \/ Tick \/ Terminated
             \/ UNCHANGED vars
    BY <1>5, QuietLoopSteps DEF Terminated
  <1>6. CASE scan_goes_on
    BY <1>6, QuietCallbackSteps
  <1> QED
    BY <1>2, <1>3, <1>4, <1>5, <1>6 DEF Next, Engine

---------------------------------------------------------------------------
(* Counting the ports of a host.                                          *)

LEMMA BaseOfFinite ==
    ASSUME NEW h \in Hosts
    PROVE  IsFiniteSet(BaseOf(h))
PROOF
  <1> DEFINE f == [t \in BaseOf(h) |-> port(t)]
  <1>1. f \in Injection(BaseOf(h), Ports)
    BY ConstantAssumption DEF Injection, IsInjective, BaseOf, Targets, ip, port
  <1> HIDE DEF f
  <1> QED
    BY <1>1, FS_Injection, ConstantAssumption

\* Every host an IPV4TargetSet enumerates has as many targets as there are
\* ports: what ports_count has to be for target_finished to be right.
LEMMA PortsOfHost ==
    ASSUME StepUse, TracksPorts, NEW h \in Hosts, BaseOf(h) # {}
    PROVE  Cardinality(BaseOf(h)) = ports_count
PROOF
  <1> DEFINE f == [t \in BaseOf(h) |-> port(t)]
             Q == {port(t) : t \in Base}
  <1>1. f \in Injection(BaseOf(h), Q)
    BY ConstantAssumption DEF Injection, IsInjective, BaseOf, Targets, ip, port
  <1>2. f \in Surjection(BaseOf(h), Q)
    <2>1. PICK H \in SUBSET Hosts, P \in SUBSET Ports : Base = H \X P
      BY DEF StepUse
    <2>2. h \in H
      BY <2>1 DEF BaseOf, ip
    <2>3. ASSUME NEW p \in Q
          PROVE  \E t \in BaseOf(h) : f[t] = p
      <3>1. p \in P
        BY <2>1 DEF port
      <3>2. <<h, p>> \in BaseOf(h)
        BY <2>1, <2>2, <3>1 DEF BaseOf, ip
      <3> QED
        BY <3>2 DEF port
    <2> QED
      BY <1>1, <2>3 DEF Surjection, Injection
  <1> HIDE DEF f
  <1>3. Cardinality(Q) = Cardinality(BaseOf(h))
    BY <1>1, <1>2, BaseOfFinite, FS_Surjection
  <1> QED
    BY <1>3 DEF ports_count

---------------------------------------------------------------------------
(* Finishing a connection.                                                *)

\* What an open socket stands for: a target of the set that neither waits nor
\* was reported.
LEMMA OpenTarget ==
    ASSUME SafeInv, HostInv, NEW s \in Open
    PROVE  /\ s \in Fds /\ starget[s] \in Targets /\ starget[s] # NoTarget
           /\ starget[s] \in All /\ ip(starget[s]) \in Hosts
           /\ ~Waiting(starget[s]) /\ starget[s] \notin Reported
PROOF
  <1>1. s \in Fds /\ starget[s] # NoTarget
    BY DEF Open, SafeInv, MapsAgree
  <1>2. starget[s] \in Targets /\ ~Waiting(starget[s]) /\ reported[starget[s]] = 0
    BY <1>1 DEF SafeInv, Placed
  <1> QED
    BY <1>1, <1>2 DEF HostInv, FromSet, Reported, Targets, ip

\* One more target is reported, and nothing else of the set changes.
LEMMA FinishTargets ==
    ASSUME SafeInv, HostInv, NEW s \in Open, Finishes(s)
    PROVE  /\ Reported' = Reported \cup {starget[s]}
           /\ starget' = [starget EXCEPT ![s] = NoTarget]
           /\ queue' \cup later' = queue \cup later
           /\ target_finished(starget[s])
PROOF
  <1>1. starget[s] \in Targets /\ reported \in [Targets -> Nat]
    BY OpenTarget DEF SafeInv, LookupInv, TypeOK, TypeCounts
  <1>2. /\ reported' = [reported EXCEPT ![starget[s]] = @ + 1]
        /\ callback(queue, avail, 1)
        /\ starget' = [starget EXCEPT ![s] = NoTarget]
        /\ target_finished(starget[s])
    BY DEF Finishes, socket_finished, free_socket
  <1>3. Reported' = Reported \cup {starget[s]}
    BY <1>1, <1>2 DEF Reported
  <1>4. queue' \cup later' = queue \cup later
    BY <1>2, CallbackExact DEF SafeInv, LookupInv, TypeOK, TypeCounts,
                               TypeTargets, Counted
  <1> QED
    BY <1>2, <1>3, <1>4

\* target_finished of an IPV4TargetSet: the last port frees the HostSM and
\* hands its host to step_done, any other one is counted.
LEMMA HostCounts ==
    ASSUME SafeInv, HostInv, StepUse, TracksPorts, NEW s \in Open, Finishes(s)
    PROVE  LET h == ip(starget[s]) IN
           IF BaseOf(h) \subseteq Reported'
           THEN /\ hosts' = [hosts EXCEPT ![h] = NoHost]
                /\ stepsDone' = stepsDone \cup {h}
           ELSE /\ hosts' = [hosts EXCEPT ![h] =
                      [done |-> Cardinality(BaseOf(h) \cap Reported'), step |-> h]]
                /\ stepsDone' = stepsDone
PROOF
  <1> DEFINE t == starget[s]
             h == ip(t)
             R == BaseOf(h) \cap Reported
  <1>1. t \in Base /\ h \in Hosts /\ t \notin todo /\ t \notin Reported
    BY OpenTarget DEF StepUse, All, Waiting
  <1>2. t \in BaseOf(h)
    BY <1>1 DEF BaseOf
  <1>3. hosts[h] = [done |-> Cardinality(R), step |-> h]
    <2>1. HostExact(h)
      BY <1>1 DEF HostInv
    <2>2. hosts[h] # NoHost
      BY <1>1, <1>2, <2>1 DEF HostExact
    <2> QED
      BY <2>1, <2>2 DEF HostExact
  <1>4. hosts[h] # NoHost
    BY <1>1, <1>2 DEF HostInv, HostExact
  <1>5. host_sm(h) = [done |-> Cardinality(R), step |-> h]
    BY <1>3, <1>4 DEF host_sm
  <1>6. BaseOf(h) \cap Reported' = R \cup {t} /\ t \notin R
    BY <1>1, <1>2, FinishTargets
  <1>7. IsFiniteSet(R) /\ Cardinality(R) \in Nat
    BY <1>1, BaseOfFinite, FS_Subset, FS_CardinalityType
  <1>8. Cardinality(BaseOf(h) \cap Reported') = Cardinality(R) + 1
    BY <1>6, <1>7, FS_AddElement
  <1>9. Cardinality(BaseOf(h)) = ports_count
    BY <1>1, <1>2, PortsOfHost
  <1>10. BaseOf(h) \subseteq Reported' <=> Cardinality(R) + 1 = ports_count
    <2>1. BaseOf(h) \cap Reported' \in SUBSET BaseOf(h)
      OBVIOUS
    <2>2. Cardinality(BaseOf(h)) = Cardinality(BaseOf(h) \cap Reported')
            => BaseOf(h) = BaseOf(h) \cap Reported'
      BY <1>1, <2>1, BaseOfFinite, FS_Subset
    <2>3. BaseOf(h) \subseteq Reported' <=> BaseOf(h) = BaseOf(h) \cap Reported'
      OBVIOUS
    <2> QED
      BY <1>8, <1>9, <2>2, <2>3
  <1>11. h # Garbage
    BY <1>1, ConstantAssumption
  <1>12. target_finished(t)
    BY FinishTargets
  <1>13. [host_sm(h) EXCEPT !.done = @ + 1]
            = [done |-> Cardinality(R) + 1, step |-> h]
    BY <1>5
  <1> HIDE DEF h, R
  <1>14. CASE Cardinality(R) + 1 = ports_count
    <2>1. /\ hosts' = [hosts EXCEPT ![h] = NoHost]
          /\ stepsDone' = stepsDone \cup {h}
      BY <1>11, <1>12, <1>13, <1>14 DEF target_finished, h
    <2> QED
      BY <2>1, <1>10, <1>14 DEF h
  <1>15. CASE Cardinality(R) + 1 # ports_count
    <2>1. /\ hosts' = [hosts EXCEPT ![h] =
                         [done |-> Cardinality(R) + 1, step |-> h]]
          /\ stepsDone' = stepsDone
      BY <1>12, <1>13, <1>15 DEF target_finished, h
    <2> QED
      BY <2>1, <1>8, <1>10, <1>15 DEF h
  <1> QED
    BY <1>14, <1>15

---------------------------------------------------------------------------
(* The inductive step.                                                    *)

LEMMA HostFinish ==
    ASSUME SafeInv, HostInv, StepUse, NEW s \in Open, Finishes(s)
    PROVE  HostInv'
PROOF
  <1> DEFINE t == starget[s]
  <1>1. /\ s \in Fds /\ t \in Targets /\ t \in All /\ ip(t) \in Hosts
        /\ ~Waiting(t) /\ t \notin Reported /\ t # NoTarget
    BY OpenTarget
  <1>2. /\ Reported' = Reported \cup {t}
        /\ starget' = [starget EXCEPT ![s] = NoTarget]
        /\ queue' \cup later' = queue \cup later
        /\ target_finished(t)
    BY FinishTargets
  <1>3. UNCHANGED <<todo, cur, ended, pc>>
    BY DEF Finishes
  <1>4. /\ starget'[s] = NoTarget
        /\ \A f \in Fds \ {s} : starget'[f] = starget[f]
    BY <1>1, <1>2 DEF SafeInv, LookupInv, TypeOK, TypeMaps
  <1>5. FromSet'
    BY <1>1, <1>2, <1>3, <1>4 DEF HostInv, FromSet
  <1>6. hosts \in [Hosts -> HostSM \cup {NoHost}]
    BY DEF SafeInv, LookupInv, TypeOK, TypeHosts
  <1>7. ASSUME ~TracksPorts
        PROVE  stepsDone' = {} /\ HostsInUse'
    <2>1. hosts' = [hosts EXCEPT ![ip(t)] = NoHost] /\ stepsDone' = stepsDone
      BY <1>2, <1>7 DEF target_finished
    <2>2. \A h \in Hosts \ {ip(t)} : hosts'[h] = hosts[h]
      BY <1>6, <2>1
    <2>3. hosts'[ip(t)] = NoHost
      BY <1>1, <1>6, <2>1
    <2> QED
      BY <1>4, <1>7, <2>1, <2>2, <2>3 DEF HostInv, HostsInUse
  <1>8. ASSUME TracksPorts, NEW h \in Hosts
        PROVE  HostExact(h)'
    <2> DEFINE c == Cardinality(BaseOf(h) \cap Reported')
    <2>1. HostExact(h)
      BY <1>8 DEF HostInv
    <2>2. CASE h # ip(t)
      <3>1. hosts'[h] = hosts[h] /\ (h \in stepsDone' <=> h \in stepsDone)
        BY <1>6, <1>8, <2>2, HostCounts
      <3>2. BaseOf(h) \cap Reported' = BaseOf(h) \cap Reported
        BY <1>2, <2>2 DEF BaseOf
      <3>3. BaseOf(h) \subseteq Reported' <=> BaseOf(h) \subseteq Reported
        BY <3>2
      <3> QED
        BY <1>3, <2>1, <3>1, <3>2, <3>3 DEF HostExact, BaseOf
    <2>3. CASE h = ip(t)
      <3>1. t \in BaseOf(h) /\ t \notin todo
        BY <1>1, <1>8, <2>3 DEF BaseOf, All, StepUse, Waiting
      <3>2. ~(BaseOf(h) \subseteq todo)
        BY <3>1
      <3>3. CASE BaseOf(h) \subseteq Reported'
        <4>1. hosts'[h] = NoHost /\ h \in stepsDone'
          BY <1>6, <1>8, <2>3, <3>3, HostCounts
        <4> QED
          BY <3>1, <3>3, <4>1 DEF HostExact, BaseOf
      <3>4. CASE ~(BaseOf(h) \subseteq Reported')
        <4>1. /\ hosts'[h] = [done |-> c, step |-> h]
              /\ stepsDone' = stepsDone
          BY <1>6, <1>8, <2>3, <3>4, HostCounts
        <4>2. c \in Nat
          BY BaseOfFinite, FS_Subset, FS_CardinalityType
        <4>3. hosts'[h] # NoHost
          BY <4>1, <4>2, NullAssumption DEF HostSM
        <4>4. h \notin stepsDone
          BY <1>2, <2>1, <3>4 DEF HostExact
        <4> QED
          BY <1>3, <3>2, <3>4, <4>1, <4>3, <4>4 DEF HostExact, BaseOf
      <3> QED
        BY <3>3, <3>4
    <2> QED
      BY <2>2, <2>3
  <1>9. OneStep <=> OneStep'
    BY <1>3 DEF OneStep, BaseOf
  <1> QED
    BY <1>3, <1>5, <1>7, <1>8, <1>9 DEF HostInv

LEMMA HostQuiet ==
    ASSUME SafeInv, HostInv, StepUse, Quiet
    PROVE  HostInv'
PROOF
  <1>1. /\ UNCHANGED <<todo, starget, reported, stepsDone>>
        /\ queue' \cup later' = queue \cup later
        /\ ended' => ended \/ todo = {}
        /\ pc' = "done" => ended'
    BY DEF Quiet
  <1>2. Reported' = Reported
    BY <1>1 DEF Reported
  <1>3. FromSet'
    BY <1>1, <1>2 DEF HostInv, FromSet
  <1>4. ASSUME ~TracksPorts
        PROVE  stepsDone' = {} /\ HostsInUse'
    <2>1. CASE hosts' = hosts
      BY <1>1, <1>4, <2>1 DEF HostInv, HostsInUse
    <2>2. ASSUME NEW s \in Open,
                 hosts' = [hosts EXCEPT ![ip(starget[s])] = host_sm(ip(starget[s]))]
          PROVE  stepsDone' = {} /\ HostsInUse'
      <3>1. s \in Fds /\ starget[s] # NoTarget
        BY OpenTarget
      <3>2. \A h \in Hosts \ {ip(starget[s])} : hosts'[h] = hosts[h]
        BY <2>2 DEF SafeInv, LookupInv, TypeOK, TypeHosts
      <3> QED
        BY <1>1, <1>4, <3>1, <3>2 DEF HostInv, HostsInUse
    <2> QED
      BY <2>1, <2>2 DEF Quiet
  <1>5. ASSUME TracksPorts
        PROVE  hosts' = hosts
    <2>1. ASSUME NEW s \in Open,
                 hosts' = [hosts EXCEPT ![ip(starget[s])] = host_sm(ip(starget[s]))]
          PROVE  hosts' = hosts
      <3> DEFINE h == ip(starget[s])
      <3>1. /\ starget[s] \in Base /\ h \in Hosts /\ starget[s] \notin todo
            /\ starget[s] \notin Reported
        BY <1>5, OpenTarget DEF StepUse, All, Waiting
      <3>2. hosts[h] # NoHost
        BY <1>5, <3>1, ZenonT(60) DEF HostInv, HostExact, BaseOf
      <3>3. host_sm(h) = hosts[h]
        BY <3>2 DEF host_sm
      <3> QED
        BY <2>1, <3>1, <3>3 DEF SafeInv, LookupInv, TypeOK, TypeHosts
    <2> QED
      BY <2>1 DEF Quiet
  <1>6. ASSUME TracksPorts, NEW h \in Hosts
        PROVE  HostExact(h)'
    BY <1>1, <1>2, <1>5, <1>6 DEF HostInv, HostExact, BaseOf
  <1>7. TracksPorts => OneStep'
    <2>1. CASE cur' = cur
      BY <1>1, <2>1 DEF HostInv, OneStep, BaseOf
    <2>2. CASE todo = {}
      BY <1>1, <2>2 DEF OneStep
    <2> QED
      BY <2>1, <2>2 DEF Quiet
  <1> QED
    BY <1>1, <1>3, <1>4, <1>6, <1>7 DEF HostInv

\* Drawing t from the set.
LEMMA HostLaunch ==
    ASSUME SafeInv, HostInv, StepUse, NEW t \in Targets, NEW s \in Fds,
           free_socks_launch(t, s)
    PROVE  HostInv'
PROOF
  <1>1. /\ t \in next_targets /\ s \in Fds \ Open /\ pc = "free"
        /\ queue' = queue \ {t} /\ todo' = todo \ {t}
        /\ starget' = [starget EXCEPT ![s] = new_starget(s, t)]
        /\ init_host_sm(t, cur')
        /\ UNCHANGED <<pc, ended, stepsDone, later, reported>>
        /\ cur' = IF queue = {} /\ TracksPorts THEN ip(t) ELSE cur
    BY DEF free_socks_launch, next_target, IsLowest
  <1>2. starget[s] = NoTarget
    BY <1>1 DEF SafeInv, MapsAgree, Open
  <1>3. starget'[s] = t /\ \A f \in Fds \ {s} : starget'[f] = starget[f]
    BY <1>1, <1>2 DEF new_starget, SafeInv, LookupInv, TypeOK, TypeMaps
  <1>4. t \in All /\ t # NoTarget /\ ip(t) \in Hosts
        /\ t \notin Reported /\ (t \in todo \/ t \in queue)
    BY <1>1, DrawnTarget DEF next_targets, HostInv, FromSet, All, Reported,
                             Targets, ip
  <1>5. Reported' = Reported
    BY <1>1 DEF Reported
  <1>6. FromSet'
    BY <1>1, <1>3, <1>4, <1>5 DEF HostInv, FromSet
  <1>7. hosts \in [Hosts -> HostSM \cup {NoHost}]
    BY DEF SafeInv, LookupInv, TypeOK, TypeHosts
  <1>8. ASSUME ~TracksPorts
        PROVE  stepsDone' = {} /\ HostsInUse'
    <2>1. \A h \in Hosts \ {ip(t)} : hosts'[h] = hosts[h]
      BY <1>1, <1>7 DEF init_host_sm
    <2>2. \A f \in Fds : starget[f] # NoTarget => starget'[f] = starget[f]
      BY <1>2, <1>3
    <2> QED
      BY <1>1, <1>3, <1>4, <1>8, <2>1, <2>2 DEF HostInv, HostsInUse
  <1>9. ASSUME TracksPorts
        PROVE  /\ queue = {} /\ t \in Base /\ t \in todo /\ cur' = ip(t)
               /\ ip(t) # cur => \A u \in todo : ip(u) # cur
    <2>1. queue = {}
      BY <1>9 DEF HostInv, FromSet, StepUse
    <2> QED
      BY <1>1, <1>4, <1>9, <2>1 DEF next_targets, HostInv, FromSet
  <1>10. ASSUME TracksPorts, NEW h \in Hosts
         PROVE  HostExact(h)'
    <2>1. HostExact(h)
      BY <1>10 DEF HostInv
    <2>2. CASE h # ip(t)
      <3>1. hosts'[h] = hosts[h]
        BY <1>1, <1>7, <2>2 DEF init_host_sm
      <3>2. BaseOf(h) \subseteq todo' <=> BaseOf(h) \subseteq todo
        BY <1>1, <2>2 DEF BaseOf
      <3> QED
        BY <1>1, <1>5, <2>1, <3>1, <3>2 DEF HostExact, BaseOf
    <2>3. CASE h = ip(t)
      <3> DEFINE c == Cardinality(BaseOf(h) \cap Reported)
      <3>1. t \in BaseOf(h) /\ ~(BaseOf(h) \subseteq todo')
            /\ ~(BaseOf(h) \subseteq Reported)
        BY <1>1, <1>4, <1>9, <1>10, <2>3 DEF BaseOf
      <3>2. hosts'[h] = [host_sm(h) EXCEPT !.step = h]
        BY <1>1, <1>7, <1>9, <1>10, <2>3 DEF init_host_sm
      <3>3. host_sm(h) = [done |-> c, step |-> h]
            \/ host_sm(h) = [done |-> c, step |-> Garbage]
        <4>1. CASE hosts[h] # NoHost
          BY <2>1, <4>1 DEF HostExact, host_sm
        <4>2. CASE hosts[h] = NoHost
          <5>1. BaseOf(h) \subseteq todo
            BY <2>1, <3>1, <4>2 DEF HostExact
          <5>2. todo \cap Reported = {}
            BY DEF SafeInv, Placed, Waiting, Reported
          <5>3. BaseOf(h) \cap Reported = {}
            BY <5>1, <5>2
          <5>4. c = 0
            BY <5>3, FS_EmptySet
          <5> QED
            BY <4>2, <5>4 DEF host_sm
        <4> QED
          BY <4>1, <4>2
      <3>4. hosts'[h] = [done |-> c, step |-> h]
        BY <3>2, <3>3
      <3>5. c \in Nat
        BY BaseOfFinite, FS_Subset, FS_CardinalityType
      <3>6. hosts'[h] # NoHost
        BY <3>4, <3>5, NullAssumption DEF HostSM
      <3>7. h \notin stepsDone
        BY <2>1, <3>1 DEF HostExact
      <3> QED
        BY <1>1, <1>5, <3>1, <3>4, <3>6, <3>7 DEF HostExact, BaseOf
    <2> QED
      BY <2>2, <2>3
  <1>11. TracksPorts => OneStep'
    <2> SUFFICES ASSUME TracksPorts, NEW h \in Hosts, h # ip(t)
                 PROVE  BaseOf(h) \subseteq todo' \/ BaseOf(h) \cap todo' = {}
      BY <1>9 DEF OneStep, BaseOf
    <2>1. BaseOf(h) \subseteq todo \/ BaseOf(h) \cap todo = {}
      BY <1>9 DEF HostInv, OneStep, BaseOf
    <2> QED
      BY <1>1, <2>1 DEF BaseOf
  <1>12. ended' /\ TracksPorts => todo' = {}
    BY <1>1 DEF HostInv
  <1> QED
    BY <1>1, <1>6, <1>8, <1>10, <1>11, <1>12 DEF HostInv

\* connect() failed at once: the HostSM target_finished created is freed.
LEMMA HostSyncError ==
    ASSUME SafeInv, HostInv, StepUse, NEW t \in Targets, NEW s \in Fds,
           free_socks_sync_error(t, s)
    PROVE  /\ HostInv' /\ ~TracksPorts
           /\ Reported' = Reported \cup {t}
           /\ t \in next_targets /\ t \in All
           /\ todo' = todo \ {t} /\ queue' \cup later' = (queue \ {t}) \cup later
           /\ UNCHANGED <<starget, stepsDone>>
PROOF
  <1>1. ~TracksPorts
    BY DEF free_socks_sync_error, StepUse
  <1>2. t \in next_targets /\ s \in Fds \ Open /\ pc = "free" /\ slots > 0
    BY DEF free_socks_sync_error, IsLowest
  <1>3. starget[s] = NoTarget
    BY <1>2 DEF SafeInv, MapsAgree, Open
  <1>4. /\ socket_finished(s, t, queue \ {t}, avail - 1)
        /\ todo' = todo \ {t} /\ pc' = pc /\ ended' = ended
    BY <1>3 DEF free_socks_sync_error, new_starget, loop
  <1>5. t \in All /\ ip(t) \in Hosts
    BY <1>2, DrawnTarget DEF next_targets, HostInv, FromSet, All, Targets, ip
  <1>6. /\ reported' = [reported EXCEPT ![t] = @ + 1]
        /\ callback(queue \ {t}, avail - 1, 1) /\ target_finished(t)
        /\ starget' = [starget EXCEPT ![s] = NoTarget]
    BY <1>4 DEF socket_finished, free_socket
  <1>7. starget' = starget
    BY <1>3, <1>6 DEF SafeInv, LookupInv, TypeOK, TypeMaps
  <1>8. Reported' = Reported \cup {t}
    BY <1>6 DEF Reported, SafeInv, LookupInv, TypeOK, TypeCounts
  <1>9. avail - 1 \in Nat /\ queue \ {t} \in SUBSET Targets
    BY <1>2 DEF SafeInv, LookupInv, TypeOK, SlotsBacked, TypeCounts, TypeLoop,
                TypeTargets
  <1>10. queue' \cup later' = (queue \ {t}) \cup later
    BY <1>6, <1>9, CallbackExact DEF SafeInv, LookupInv, TypeOK, TypeCounts,
                                     TypeTargets, Counted
  <1>11. FromSet'
    BY <1>4, <1>5, <1>7, <1>8, <1>10 DEF HostInv, FromSet
  <1>12. hosts' = [hosts EXCEPT ![ip(t)] = NoHost] /\ stepsDone' = stepsDone
    BY <1>1, <1>6 DEF target_finished
  <1>13. HostsInUse'
    <2>1. \A h \in Hosts : hosts'[h] # NoHost => hosts[h] # NoHost
      BY <1>12 DEF SafeInv, LookupInv, TypeOK, TypeHosts
    <2> QED
      BY <1>1, <1>7, <2>1 DEF HostInv, HostsInUse
  <1>14. HostInv'
    BY <1>1, <1>2, <1>4, <1>11, <1>12, <1>13 DEF HostInv
  <1> QED
    BY <1>1, <1>2, <1>4, <1>5, <1>7, <1>8, <1>10, <1>12, <1>14

LEMMA HostInit == ASSUME StepUse PROVE Init => HostInv
PROOF
  <1> SUFFICES ASSUME Init
               PROVE  HostInv
    OBVIOUS
  <1>1. Reported = {}
    BY DEF Init, Reported
  <1>2. FromSet
    BY <1>1 DEF Init, FromSet
  <1>3. HostsInUse /\ OneStep
    BY DEF Init, HostsInUse, OneStep, BaseOf
  <1>4. \A h \in Hosts : HostExact(h)
    BY <1>1 DEF Init, HostExact, BaseOf
  <1> QED
    BY <1>2, <1>3, <1>4 DEF Init, HostInv

LEMMA HostStep ==
    ASSUME RegularUse, StepUse
    PROVE  SafeInv /\ HostInv /\ [Next]_vars => HostInv'
PROOF
  <1> SUFFICES ASSUME SafeInv, HostInv, [Next]_vars
               PROVE  HostInv'
    OBVIOUS
  <1>1. pc = "done" => ended
    BY DEF HostInv
  <1> QED
    BY <1>1, StepCases, HostQuiet, HostFinish, HostLaunch, HostSyncError

---------------------------------------------------------------------------
(* The theorems.                                                          *)

\* The counts of every HostSM are exact, from the first launch to the last
\* report of its host.
THEOREM HostsCounted ==
    ASSUME RegularUse, StepUse PROVE Spec => []HostInv
PROOF
  <1>1. Init => HostInv
    BY HostInit
  <1>2. SafeInv /\ HostInv /\ [Next]_vars => HostInv'
    BY HostStep
  <1> QED
    BY <1>1, <1>2, SafeSafety, PTL DEF Spec

\* step_done is never called for a host one of whose targets has no result
\* yet: a state saved at any moment skips nothing.
THEOREM StepsAlwaysSound ==
    ASSUME RegularUse, StepUse PROVE Spec => []StepsDoneSound
PROOF
  <1>1. SafeInv /\ HostInv => StepsDoneSound
    <2> SUFFICES ASSUME SafeInv, HostInv, NEW h \in stepsDone, NEW t \in Base,
                        ip(t) = h
                 PROVE  reported[t] > 0
      BY DEF StepsDoneSound
    <2>1. TracksPorts /\ h \in Hosts
      BY DEF HostInv, SafeInv, LookupInv, TypeOK, TypeHosts
    <2> QED
      BY <2>1 DEF HostInv, HostExact, BaseOf, Reported
  <1> QED
    BY <1>1, HostsCounted, SafeSafety, PTL

\* When do_async_scan returns with no connection left, no HostSM is leaked and
\* every host of an IPV4TargetSet was handed to step_done.
THEOREM HostsAlwaysReleased ==
    ASSUME RegularUse, StepUse PROVE Spec => []HostsReleased
PROOF
  <1>1. SafeInv /\ HostInv => HostsReleased
    <2> SUFFICES ASSUME SafeInv, HostInv, pc = "done", Open = {}
                 PROVE  /\ \A h \in Hosts : hosts[h] = NoHost
                        /\ TracksPorts => {ip(t) : t \in Base} \subseteq stepsDone
      BY DEF HostsReleased
    <2>1. \A s \in Fds : starget[s] = NoTarget
      BY DEF Open, SafeInv, MapsAgree
    <2>2. CASE ~TracksPorts
      BY <2>1, <2>2 DEF HostInv, HostsInUse
    <2>3. CASE TracksPorts
      <3>1. todo = {} /\ queue = {} /\ later = {}
        BY <2>3 DEF HostInv, FromSet, StepUse
      <3>2. \A t \in Base : reported[t] = 1 /\ t \in Targets
        BY <2>1, <3>1, ConstantAssumption DEF SafeInv, Placed, Waiting
      <3>3. Base \subseteq Reported
        BY <3>2 DEF Reported
      <3>4. \A h \in Hosts : BaseOf(h) \subseteq Reported /\ HostExact(h)
        BY <2>3, <3>3 DEF HostInv, BaseOf
      <3>5. \A t \in Base : ip(t) \in Hosts /\ t \in BaseOf(ip(t))
        BY <3>2 DEF Targets, ip, BaseOf
      <3> QED
        BY <3>4, <3>5 DEF HostExact
    <2> QED
      BY <2>2, <2>3
  <1> QED
    BY <1>1, HostsCounted, SafeSafety, PTL

---------------------------------------------------------------------------
(* The engine implements Scan, step by step.                              *)

WaitingSet == {t \in All : Waiting(t)}

\* What the variables of Scan stand for.
LEMMA ScanState ==
    /\ Abstract!scan = <<WaitingSet, Flying, Reported, stepsDone>>
    /\ Abstract!scan' = <<WaitingSet', Flying', Reported', stepsDone'>>
  BY DEF Abstract!scan, WaitingSet, Reported, All

\* There are no more targets in flight than descriptors open, so a launch
\* stays under the cap.
LEMMA FlyingBound ==
    ASSUME SafeInv, pc = "free", slots > 0
    PROVE  Cardinality(Flying) < MaxBudget
PROOF
  <1> DEFINE g == [s \in Open |-> starget[s]]
  <1>1. \A s \in Fds : s \in Open <=> starget[s] # NoTarget
    BY DEF Open, SafeInv, MapsAgree
  <1>2. g \in Surjection(Open, Flying)
    BY <1>1 DEF Surjection, Flying, Open
  <1> HIDE DEF g
  <1>3. IsFiniteSet(Flying) /\ Cardinality(Flying) <= Cardinality(Open)
    BY <1>2, OpenFinite, FS_Surjection
  <1>4. Cardinality(Flying) \in Nat /\ Cardinality(Open) \in Nat
    BY <1>3, OpenFinite, FS_CardinalityType
  <1>5. avail > 0 /\ avail \in Nat /\ budget \in Nat
    BY DEF SafeInv, LookupInv, SlotsBacked, TypeOK, TypeCounts, TypeLoop
  <1>6. avail + Cardinality(Open) = budget /\ budget <= MaxBudget
    BY DEF SafeInv, Counted
  <1> QED
    BY <1>3, <1>4, <1>5, <1>6, ConstantAssumption

LEMMA ScanQuiet ==
    ASSUME SafeInv, Quiet
    PROVE  UNCHANGED Abstract!scan
PROOF
  <1>1. /\ UNCHANGED <<todo, starget, reported, stepsDone>>
        /\ queue' \cup later' = queue \cup later
    BY DEF Quiet
  <1>2. \A t : Waiting(t)' <=> Waiting(t)
    BY <1>1 DEF Waiting
  <1>3. WaitingSet' = WaitingSet
    BY <1>2 DEF WaitingSet
  <1> QED
    BY <1>1, <1>3, ScanState DEF Flying, Reported

\* Finishing a socket is a report of its target, with step_done exactly when
\* it was the last of its host.
LEMMA ScanFinish ==
    ASSUME SafeInv, HostInv, StepUse, NEW s \in Open, Finishes(s),
           NEW t \in Targets, t = starget[s]
    PROVE  Abstract!Report(t) /\ t \in All
PROOF
  <1>1. /\ s \in Fds /\ t \in Targets /\ t \in All /\ ip(t) \in Hosts
        /\ t # NoTarget
    BY OpenTarget
  <1>2. /\ Reported' = Reported \cup {t}
        /\ starget' = [starget EXCEPT ![s] = NoTarget]
        /\ queue' \cup later' = queue \cup later
        /\ target_finished(t)
    BY FinishTargets
  <1>3. t \in Flying
    BY <1>1 DEF Flying
  <1>4. Flying' = Flying \ {t}
    <2>1. /\ starget'[s] = NoTarget
          /\ \A f \in Fds \ {s} : starget'[f] = starget[f] /\ starget[f] # t
      BY <1>1, <1>2 DEF SafeInv, LookupInv, TypeOK, TypeMaps, Placed
    <2> QED
      BY <1>1, <2>1 DEF Flying
  <1>5. WaitingSet' = WaitingSet
    <2>1. \A u : Waiting(u)' <=> Waiting(u)
      BY <1>2 DEF Waiting, Finishes
    <2> QED
      BY <2>1 DEF WaitingSet
  <1>6. stepsDone' = IF TracksPorts
                     THEN stepsDone \cup (Abstract!Complete(Reported') \cap {t[1]})
                     ELSE stepsDone
    <2>1. CASE ~TracksPorts
      BY <1>2, <2>1 DEF target_finished
    <2>2. CASE TracksPorts
      <3>1. Base \cup Added = Base /\ t \in Base
        BY <1>1, <2>2 DEF StepUse, All
      <3>2. Abstract!OfHost(t[1]) = BaseOf(ip(t))
        BY <3>1 DEF Abstract!OfHost, BaseOf, ip
      <3>3. t[1] \in Abstract!HostsOf(Base \cup Added)
        BY <3>1 DEF Abstract!HostsOf
      <3>4. t[1] \in Abstract!Complete(Reported')
              <=> BaseOf(ip(t)) \subseteq Reported'
        BY <3>2, <3>3 DEF Abstract!Complete
      <3>5. stepsDone' = IF BaseOf(ip(t)) \subseteq Reported'
                         THEN stepsDone \cup {ip(t)} ELSE stepsDone
        BY <2>2, HostCounts
      <3> QED
        BY <2>2, <3>4, <3>5 DEF ip
    <2> QED
      BY <2>1, <2>2
  <1> QED
    BY <1>1, <1>2, <1>3, <1>4, <1>5, <1>6
       DEF Abstract!Report, Reported, WaitingSet, All

\* Drawing a target: the hosts come one after the other.
LEMMA ScanLaunch ==
    ASSUME SafeInv, HostInv, StepUse, NEW t \in Targets, NEW s \in Fds,
           free_socks_launch(t, s)
    PROVE  Abstract!Launch(t) /\ t \in All
PROOF
  <1>1. /\ t \in next_targets /\ s \in Fds \ Open /\ pc = "free" /\ slots > 0
        /\ queue' = queue \ {t} /\ todo' = todo \ {t}
        /\ starget' = [starget EXCEPT ![s] = new_starget(s, t)]
        /\ UNCHANGED <<stepsDone, later, reported>>
    BY DEF free_socks_launch, next_target, IsLowest
  <1>2. starget[s] = NoTarget
    BY <1>1 DEF SafeInv, MapsAgree, Open
  <1>3. starget'[s] = t /\ \A f \in Fds \ {s} : starget'[f] = starget[f]
    BY <1>1, <1>2 DEF new_starget, SafeInv, LookupInv, TypeOK, TypeMaps
  <1>4. t # NoTarget /\ Waiting(t) /\ t \notin later /\ t \in All
    BY <1>1, DrawnTarget DEF next_targets, HostInv, FromSet, All
  <1>5. Flying' = Flying \cup {t}
    BY <1>2, <1>3, <1>4 DEF Flying
  <1>6. WaitingSet' = WaitingSet \ {t} /\ t \in WaitingSet
    <2>1. \A u : Waiting(u)' <=> Waiting(u) /\ u # t
      BY <1>1, <1>4 DEF Waiting
    <2> QED
      BY <1>4, <2>1 DEF WaitingSet
  <1>7. Reported' = Reported
    BY <1>1 DEF Reported
  <1>8. ASSUME TracksPorts,
               NEW h \in Abstract!HostsOf(WaitingSet) \ {t[1]}
        PROVE  Abstract!OfHost(h) \subseteq WaitingSet
    <2>1. queue = {} /\ later = {} /\ Added = {}
      BY <1>8 DEF HostInv, FromSet, StepUse
    <2>2. WaitingSet = todo /\ All = Base
      BY <2>1 DEF WaitingSet, Waiting, All, HostInv, FromSet
    <2>3. PICK u \in todo : u[1] = h
      BY <1>8, <2>2 DEF Abstract!HostsOf
    <2>4. u \in Targets /\ h \in Hosts
      BY <2>3 DEF SafeInv, LookupInv, TypeOK, TypeTargets, Targets
    <2>5. h # cur
      BY <1>1, <1>8, <2>1, <2>3 DEF next_targets, ip
    <2>6. u \in BaseOf(h)
      BY <2>3 DEF BaseOf, ip, HostInv, FromSet
    <2>7. BaseOf(h) \subseteq todo
      BY <1>8, <2>3, <2>4, <2>5, <2>6 DEF HostInv, OneStep
    <2>8. Abstract!OfHost(h) = BaseOf(h)
      BY <2>1 DEF Abstract!OfHost, BaseOf, ip
    <2> QED
      BY <2>2, <2>7, <2>8
  <1>9. Abstract!InOrder(t)
    BY <1>8 DEF Abstract!InOrder, WaitingSet, All
  <1>10. Abstract!Cardinality(Flying) < MaxBudget
    <2>1. Abstract!Cardinality(Flying) = Cardinality(Flying)
      BY DEF Abstract!Cardinality, Cardinality
    <2> QED
      BY <1>1, <2>1, FlyingBound
  <1> QED
    BY <1>1, <1>4, <1>5, <1>6, <1>7, <1>9, <1>10
       DEF Abstract!Launch, WaitingSet, All, Reported

\* connect() failing at once refuses a target.
LEMMA ScanSyncError ==
    ASSUME SafeInv, HostInv, StepUse, NEW t \in Targets, NEW s \in Fds,
           free_socks_sync_error(t, s)
    PROVE  Abstract!Refuse(t) /\ t \in All
PROOF
  <1>1. /\ ~TracksPorts /\ Reported' = Reported \cup {t}
        /\ t \in next_targets /\ t \in All
        /\ todo' = todo \ {t} /\ queue' \cup later' = (queue \ {t}) \cup later
        /\ UNCHANGED <<starget, stepsDone>>
    BY HostSyncError
  <1>2. Waiting(t) /\ t \notin later
    BY <1>1, DrawnTarget
  <1>3. WaitingSet' = WaitingSet \ {t} /\ t \in WaitingSet
    <2>1. \A u : Waiting(u)' <=> Waiting(u) /\ u # t
      BY <1>1, <1>2 DEF Waiting
    <2> QED
      BY <1>1, <1>2, <2>1 DEF WaitingSet
  <1>4. Flying' = Flying
    BY <1>1 DEF Flying
  <1> QED
    BY <1>1, <1>3, <1>4 DEF Abstract!Refuse, WaitingSet, All, Reported

\* The engine implements Scan: with recycled descriptors, callbacks that add
\* targets, timeouts and dirty buffers, each of its steps draws one target in
\* host order and under the cap, reports one with step_done at the right
\* moment, or changes nothing a user sees.
THEOREM EngineImplementsScan ==
    ASSUME RegularUse, StepUse PROVE Spec => ScanImplemented
PROOF
  <1>1. Init => Abstract!ScanInit
    <2> SUFFICES ASSUME Init
                 PROVE  Abstract!ScanInit
      OBVIOUS
    <2>1. {t \in Base \cup Added : Waiting(t)} = Base \cup Added
      BY DEF Init, Waiting
    <2>2. Flying = {} /\ {t \in Targets : reported[t] > 0} = {}
      BY DEF Init, Flying
    <2> QED
      BY <2>1, <2>2 DEF Init, Abstract!ScanInit
  <1>2. SafeInv /\ HostInv /\ [Next]_vars => [Abstract!ScanNext]_Abstract!scan
    <2> SUFFICES ASSUME SafeInv, HostInv, [Next]_vars
                 PROVE  Abstract!ScanNext \/ UNCHANGED Abstract!scan
      OBVIOUS
    <2>1. pc = "done" => ended
      BY DEF HostInv
    <2>2. CASE Quiet
      BY <2>2, ScanQuiet
    <2>3. ASSUME NEW s \in Open, Finishes(s)
          PROVE  Abstract!ScanNext
      <3>1. PICK t \in Targets : t = starget[s]
        BY OpenTarget
      <3>2. Abstract!Report(t) /\ t \in Base \cup Added
        BY <2>3, <3>1, ScanFinish DEF All
      <3> QED
        BY <3>2 DEF Abstract!ScanNext
    <2>4. ASSUME NEW t \in Targets, NEW s \in Fds,
                 free_socks_launch(t, s) \/ free_socks_sync_error(t, s)
          PROVE  Abstract!ScanNext
      BY <2>4, ScanLaunch, ScanSyncError DEF Abstract!ScanNext, All
    <2> QED
      BY <2>1, <2>2, <2>3, <2>4, StepCases
  <1> QED
    BY <1>1, <1>2, SafeSafety, HostsCounted, PTL
       DEF Spec, ScanImplemented, Abstract!ScanSpec
=============================================================================
