----------------------------- MODULE AsyncEngine -----------------------------
(***************************************************************************)
(* The scanning engine of nodescan (src/src/async_engine.cpp and           *)
(* src/src/include/ns/async_engine.h): one thread that keeps at most       *)
(* nsockets non-blocking connections going, drives them with epoll, runs   *)
(* the user's callbacks, times connections out and draws new targets from  *)
(* a target set until there are none left.                                 *)
(*                                                                         *)
(* The variables below "the kernel" are the operating system and the       *)
(* network, modelled from how the engine uses them: descriptors are        *)
(* recycled lowest first, readiness is level triggered, and a peer may     *)
(* change a connection between any two steps of the engine.                *)
(*                                                                         *)
(* A user callback may do what the API lets it do: return either result,   *)
(* arm or remove the trigger of its own Lvl4SM, ask for a reconnection,    *)
(* add targets to a ReinjectableTargetSet and call                         *)
(* ensure_available_sockets.                                               *)
(***************************************************************************)
EXTENDS Integers, FiniteSets

CONSTANTS
    Hosts,          \* IPv4 addresses
    Ports,          \* leeloo::port: a number and a protocol
    Base,           \* what the target set enumerates by itself
    Added,          \* what callbacks may add to it while the scan runs
    TracksPorts,    \* TRUE for IPV4TargetSet, FALSE for SimpleTargetSet
    MayBlock,       \* next_target may throw NextTargetWouldBlock
    NSockets,       \* the engine's nsockets
    MaxFds,         \* descriptors the process may have open
    TimeoutOf,      \* timeout_of_target, a function of the port
    WatchTimeout,   \* watch_timeout, 0 when no watch callback is set
    EnsureN,        \* argument of ensure_available_sockets, 0 if never called
    MaxEvents,      \* MAX_EVENTS
    SyncErrors,     \* connect() may fail at once (no route, no buffer)
    UsesReconnect,  \* callbacks call set_reconnect
    DirtyMayEnd,    \* a trigger run on an unchanged buffer may end its connection
    MaxAge,         \* bound: time stamps older than this are not told apart
    MaxBudget,      \* bound: ensure_available_sockets stops granting here
    NoTarget, NoSM, NoHost, Garbage

Targets == Hosts \X Ports
Fds == 1 .. MaxFds

ip(t) == t[1]
port(t) == t[2]

ports_count == Cardinality({port(t) : t \in Base})

ASSUME ConstantAssumption ==
    /\ IsFiniteSet(Hosts) /\ IsFiniteSet(Ports)
    /\ Base \subseteq Targets /\ Added \subseteq Targets \ Base
    /\ TracksPorts \in BOOLEAN /\ MayBlock \in BOOLEAN
    /\ SyncErrors \in BOOLEAN /\ UsesReconnect \in BOOLEAN
    /\ DirtyMayEnd \in BOOLEAN
    /\ NSockets \in Nat /\ MaxFds \in Nat /\ MaxBudget \in Nat
    /\ NSockets <= MaxBudget
    /\ MaxAge \in Nat /\ WatchTimeout \in 0 .. MaxAge
    /\ TimeoutOf \in [Ports -> 0 .. MaxAge]
    /\ EnsureN \in Nat /\ MaxEvents \in Nat \ {0}
    /\ NoTarget \notin Targets /\ Garbage \notin Hosts

\* State of a Lvl4SM. _ts and _watch_ts are kept as ages (now - _ts), which
\* is all the engine looks at; the buffer and the trigger are in Lvl4Stream.
Lvl4SM == [age : 0 .. MaxAge, wage : 0 .. MaxAge,
           reconnect : BOOLEAN, reprocess : BOOLEAN]

\* State of a HostSM: _ports_done.size() and _rand_idx_ip, which its
\* constructor leaves uninitialised (Garbage).
HostSM == [done : Nat, step : Hosts \cup {Garbage}]

ASSUME NullAssumption == NoSM \notin Lvl4SM /\ NoHost \notin HostSM

\* What the kernel knows of a connection. "dead" is a socket whose connect()
\* failed at once and that was kept all the same.
ConnStates == {"closed", "syn", "refused", "est", "data", "datafin", "fin",
               "err", "dead"}

VARIABLES
    \* the main loop: where it is, and its local variables
    pc,         \* the next piece of do_async_scan to run
    batch,      \* events of epoll_wait still to process
    dirty,      \* to_process
    expired,    \* timeouted
    idle,       \* nfds == 0
    noneValid,  \* n_lvl4_sms_valid == 0
    ended,      \* end_targets
    slots,      \* iterations left in process_free_socks
    \* the engine's members
    lvl4,       \* _lvl4_sms
    starget,    \* _sockets_targets
    hosts,      \* _hosts_sms
    avail,      \* _avail_socks
    nlaunched, ndone,
    \* the target set
    todo,       \* base targets not yet returned
    queue,      \* targets added by callbacks, returned first
    later,      \* targets the callbacks have not added yet
    cur,        \* host of the current step of _rand_v4
    stepsDone,  \* hosts whose step was handed to step_done
    \* the kernel
    st, peer, interest,
    \* history
    budget,     \* connections allowed so far: nsockets plus what was ensured
    reported    \* final finish callbacks, by target

loop == <<pc, batch, dirty, expired, idle, noneValid, ended, slots>>
maps == <<lvl4, starget>>
tset == <<todo, queue, later, cur>>
kernel == <<st, peer, interest>>
vars == <<loop, maps, hosts, stepsDone, avail, nlaunched, ndone, tset, kernel,
          budget, reported>>

Known == {s \in Fds : lvl4[s] # NoSM}
Open == {s \in Fds : st[s] # "closed"}

\* s is the first of S: the order of std::map, and of the kernel's choice of
\* a descriptor.
IsLowest(s, S) == s \in S /\ \A f \in S : s <= f

---------------------------------------------------------------------------
(* Host state machines and the target set.                                *)

\* host_sm(ip): the entry, created if there is none.
host_sm(h) ==
    IF hosts[h] = NoHost THEN [done |-> 0, step |-> Garbage] ELSE hosts[h]

\* Faults: the last port is not waited for; the test never holds.
Fault_target_finished_early(t) ==
    LET h == ip(t)
        sm == host_sm(h)
    IN  IF sm.done + 2 >= ports_count
        THEN hosts' = [hosts EXCEPT ![h] = NoHost]
             /\ stepsDone' = stepsDone \cup ({sm.step} \ {Garbage})
        ELSE hosts' = [hosts EXCEPT ![h] = [sm EXCEPT !.done = @ + 1]]
             /\ UNCHANGED stepsDone

Fault_target_finished_never(t) ==
    /\ hosts' = [hosts EXCEPT ![ip(t)] = [host_sm(ip(t)) EXCEPT !.done = @ + 1]]
    /\ UNCHANGED stepsDone

\* target_finished, and del_host_sm when it returns true. step_done on an
\* uninitialised index marks any step, or none.
target_finished(t) ==
    LET h == ip(t)
        sm == [host_sm(h) EXCEPT !.done = @ + 1]
    IN  IF ~TracksPorts
        THEN /\ hosts' = [hosts EXCEPT ![h] = NoHost]
             /\ UNCHANGED stepsDone
        ELSE IF sm.done = ports_count
        THEN /\ hosts' = [hosts EXCEPT ![h] = NoHost]
             /\ IF sm.step = Garbage
                THEN \E X \in {{}} \cup {{g} : g \in Hosts} :
                        stepsDone' = stepsDone \cup X
                ELSE stepsDone' = stepsDone \cup {sm.step}
        ELSE /\ hosts' = [hosts EXCEPT ![h] = sm]
             /\ UNCHANGED stepsDone

\* init_host_sm: an IPV4TargetSet stores its current step, whatever the target.
init_host_sm(t, c) ==
    hosts' = [hosts EXCEPT ![ip(t)] =
                IF TracksPorts THEN [host_sm(ip(t)) EXCEPT !.step = c]
                               ELSE host_sm(ip(t))]

\* Fault: another host is drawn before the ports of the current one are used.
Fault_next_targets == IF queue # {} THEN queue ELSE todo

\* The targets next_target may return: those added first, then those of the
\* base set; an IPV4TargetSet goes through the ports of one host, then draws
\* another host.
next_targets ==
    IF queue # {} THEN queue
    ELSE LET same == {t \in todo : ip(t) = cur}
         IN IF TracksPorts /\ same # {} THEN same ELSE todo

\* Faults: the target stays in the set, or in the queue of added targets.
Fault_next_target_kept(t) ==
    /\ t \in next_targets
    /\ queue' = queue \ {t} /\ UNCHANGED todo
    /\ cur' = IF queue = {} /\ TracksPorts THEN ip(t) ELSE cur

Fault_next_target_no_pop(t) ==
    /\ t \in next_targets
    /\ UNCHANGED queue /\ todo' = todo \ {t}
    /\ cur' = IF queue = {} /\ TracksPorts THEN ip(t) ELSE cur

\* Returning t moves the current step only when t comes from the base set.
next_target(t) ==
    /\ t \in next_targets
    /\ queue' = queue \ {t}
    /\ todo' = todo \ {t}
    /\ cur' = IF queue = {} /\ TracksPorts THEN ip(t) ELSE cur

---------------------------------------------------------------------------
(* What a user callback may do to the engine and to the target set.       *)

\* ensure_available_sockets raises the count of available sockets to n.
ensure_available_sockets(av) ==
    {a \in {av} \cup (IF av < EnsureN THEN {EnsureN} ELSE {}) :
        budget + (a - av) <= MaxBudget}

\* Fault: _avail_socks is read before the callback and written after it.
Fault_callback_stale(q, av, inc) ==
    /\ \E X \in SUBSET later : queue' = q \cup X /\ later' = later \ X
    /\ \E a \in ensure_available_sockets(av) :
          avail' = av + inc /\ budget' = budget + (a - av)

\* Calls made by a callback that runs when _avail_socks is av; the engine
\* then adds inc.
callback(q, av, inc) ==
    /\ \E X \in SUBSET later : queue' = q \cup X /\ later' = later \ X
    /\ \E a \in ensure_available_sockets(av) :
          avail' = a + inc /\ budget' = budget + (a - av)

\* The Lvl4SM sm after its own callback ran: the trigger may be armed or
\* removed, a reconnection asked for or not.
after_callback(sm, age) ==
    {x \in Lvl4SM : /\ x.age = age /\ x.wage = sm.wage
                    /\ x.reconnect => UsesReconnect}

---------------------------------------------------------------------------
(* Sockets.                                                               *)

\* Fault: the entry of _sockets_targets is not erased.
Fault_free_socket(s) ==
    /\ st' = [st EXCEPT ![s] = "closed"]
    /\ peer' = [peer EXCEPT ![s] = NoTarget]
    /\ interest' = [interest EXCEPT ![s] = "none"]
    /\ lvl4' = [lvl4 EXCEPT ![s] = NoSM]
    /\ UNCHANGED starget

\* free_socket, apart from _avail_socks.
free_socket(s) ==
    /\ st' = [st EXCEPT ![s] = "closed"]
    /\ peer' = [peer EXCEPT ![s] = NoTarget]
    /\ interest' = [interest EXCEPT ![s] = "none"]
    /\ lvl4' = [lvl4 EXCEPT ![s] = NoSM]
    /\ starget' = [starget EXCEPT ![s] = NoTarget]

\* Fault: the socket is not made available again.
Fault_socket_finished_leak(s, t, q, av) ==
    /\ ndone' = ndone + 1
    /\ reported' = [reported EXCEPT ![t] = @ + 1]
    /\ callback(q, av, 0)
    /\ target_finished(t)
    /\ free_socket(s)

\* socket_finished on a socket recorded for t, called with av sockets
\* available and q waiting in the queue of added targets.
socket_finished(s, t, q, av) ==
    /\ ndone' = ndone + 1
    /\ reported' = [reported EXCEPT ![t] = @ + 1]
    /\ callback(q, av, 1)
    /\ target_finished(t)
    /\ free_socket(s)

\* target_from_socket on a socket without an entry fails its assertion.
assert_fails ==
    /\ pc' = "aborted"
    /\ UNCHANGED <<batch, dirty, expired, idle, noneValid, ended, slots, maps,
                   hosts, stepsDone, avail, nlaunched, ndone, tset, kernel,
                   budget, reported>>

\* The Lvl4SM that create_socket leaves at s. std::map::insert does nothing
\* where there is an entry: then only the time stamp changes.
new_lvl4_sm(s) ==
    IF lvl4[s] = NoSM
    THEN [age |-> 0, wage |-> 0, reconnect |-> FALSE, reprocess |-> FALSE]
    ELSE [lvl4[s] EXCEPT !.age = 0]

\* The entry of _sockets_targets at s after create_socket(s, t).
new_starget(s, t) == IF starget[s] = NoTarget THEN t ELSE starget[s]

---------------------------------------------------------------------------
(* process_free_socks: the loop over the available sockets.               *)

\* Every slot was used: true.
free_socks_full ==
    /\ pc = "free" /\ slots = 0
    /\ pc' = "check" /\ ended' = FALSE
    /\ UNCHANGED <<batch, dirty, expired, idle, noneValid, slots, maps, hosts,
                   stepsDone, avail, nlaunched, ndone, tset, kernel, budget,
                   reported>>

\* next_target returned end: false. The step of an IPV4TargetSet is then
\* past its last host.
free_socks_end ==
    /\ pc = "free" /\ slots > 0 /\ next_targets = {}
    /\ pc' = "check" /\ ended' = TRUE /\ cur' = Garbage
    /\ UNCHANGED <<batch, dirty, expired, idle, noneValid, slots, maps, hosts,
                   stepsDone, avail, nlaunched, ndone, todo, queue, later,
                   kernel, budget, reported>>

\* next_target threw NextTargetWouldBlock: true.
free_socks_would_block ==
    /\ pc = "free" /\ slots > 0 /\ MayBlock
    /\ pc' = "check" /\ ended' = FALSE
    /\ UNCHANGED <<batch, dirty, expired, idle, noneValid, slots, maps, hosts,
                   stepsDone, avail, nlaunched, ndone, tset, kernel, budget,
                   reported>>

\* connect() succeeded or is in progress.
free_socks_launch(t, s) ==
    /\ pc = "free" /\ slots > 0
    /\ IsLowest(s, Fds \ Open)
    /\ next_target(t)
    /\ slots' = slots - 1 /\ avail' = avail - 1
    /\ nlaunched' = nlaunched + 1
    /\ \E x \in {"syn", "est"} : st' = [st EXCEPT ![s] = x]
    /\ peer' = [peer EXCEPT ![s] = t]
    /\ interest' = [interest EXCEPT ![s] = "out"]
    /\ lvl4' = [lvl4 EXCEPT ![s] = new_lvl4_sm(s)]
    /\ starget' = [starget EXCEPT ![s] = new_starget(s, t)]
    /\ init_host_sm(t, cur')
    /\ UNCHANGED <<pc, batch, dirty, expired, idle, noneValid, ended,
                   stepsDone, ndone, later, budget, reported>>

\* connect() failed at once: the socket is finished and the slot tried again.
free_socks_sync_error(t, s) ==
    /\ pc = "free" /\ slots > 0 /\ SyncErrors
    /\ IsLowest(s, Fds \ Open)
    /\ t \in next_targets
    /\ todo' = todo \ {t}
    /\ cur' = IF queue = {} /\ TracksPorts THEN ip(t) ELSE cur
    /\ nlaunched' = nlaunched + 1
    /\ socket_finished(s, new_starget(s, t), queue \ {t}, avail - 1)
    /\ UNCHANGED loop

\* socket() failed: socket_finished(-1, errno) looks up a target for -1.
free_socks_no_fd ==
    /\ pc = "free" /\ slots > 0 /\ Open = Fds /\ next_targets # {}
    /\ assert_fails

---------------------------------------------------------------------------
(* process_events.                                                        *)

\* Descriptors epoll_wait reports. A dead socket is always reported, for its
\* EPOLLHUP.
Ready ==
    {s \in Fds : \/ interest[s] = "out" /\ st[s] # "syn"
                 \/ interest[s] = "in" /\ st[s] # "est"}

epoll_wait ==
    /\ pc = "wait"
    /\ \E B \in SUBSET Ready :
          /\ Cardinality(B) <= MaxEvents
          /\ B # Ready => Cardinality(B) = MaxEvents
          /\ batch' = B /\ idle' = (B = {})
    /\ pc' = "events"
    /\ UNCHANGED <<dirty, expired, noneValid, ended, slots, maps, hosts,
                   stepsDone, avail, nlaunched, ndone, tset, kernel, budget,
                   reported>>

\* epoll_wait was interrupted: nfds is -1, so no event is processed and the
\* pass does not count as idle.
epoll_wait_eintr ==
    /\ pc = "wait"
    /\ batch' = {} /\ idle' = FALSE /\ pc' = "events"
    /\ UNCHANGED <<dirty, expired, noneValid, ended, slots, maps, hosts,
                   stepsDone, avail, nlaunched, ndone, tset, kernel, budget,
                   reported>>

\* What each event handler does besides its own work.
next_event(s) ==
    /\ pc = "events" /\ s \in batch
    /\ batch' = batch \ {s}
    /\ UNCHANGED <<pc, dirty, expired, idle, noneValid, ended, slots,
                   nlaunched, todo, cur>>

\* The peer closed or reset the connection: FIONREAD says 0.
Disconnected(s) == st[s] \in {"fin", "err"}

\* SO_ERROR is set.
Failed(s) == st[s] \in {"refused", "err"}

\* process_connecting_ready, SO_ERROR set or on_connect returned false.
connecting_finished(s) ==
    /\ interest[s] = "out"
    /\ next_event(s)
    /\ socket_finished(s, starget[s], queue, avail)

\* process_connecting_ready, on_connect returned true.
connecting_connected(s) ==
    /\ interest[s] = "out" /\ ~Failed(s)
    /\ next_event(s)
    /\ interest' = [interest EXCEPT ![s] = "in"]
    /\ \E sm \in after_callback(lvl4[s], 0) : lvl4' = [lvl4 EXCEPT ![s] = sm]
    /\ callback(queue, avail, 0)
    /\ hosts' = [hosts EXCEPT ![ip(starget[s])] = host_sm(ip(starget[s]))]
    /\ UNCHANGED <<starget, st, peer, stepsDone, ndone, reported>>

\* process_connected_ready, process_lvl4_data returned true.
connected_data(s) ==
    /\ interest[s] = "in" /\ st[s] \in {"data", "datafin"}
    /\ next_event(s)
    /\ st' = [st EXCEPT ![s] = IF @ = "data" THEN "est" ELSE "fin"]
    /\ \E sm \in after_callback(lvl4[s], 0) : lvl4' = [lvl4 EXCEPT ![s] = sm]
    /\ callback(queue, avail, 0)
    /\ hosts' = [hosts EXCEPT ![ip(starget[s])] = host_sm(ip(starget[s]))]
    /\ UNCHANGED <<starget, peer, interest, stepsDone, ndone, reported>>

\* process_connected_ready, process_lvl4_data returned false, or the peer
\* disconnected and no reconnection was asked for.
connected_finished(s) ==
    /\ interest[s] = "in" /\ st[s] # "dead"
    /\ Disconnected(s) => ~lvl4[s].reconnect
    /\ next_event(s)
    /\ socket_finished(s, starget[s], queue, avail)

\* Fault: the new descriptor is taken to be the old one, and has no entries of
\* its own.
Fault_reconnect_same_fd(s, n) ==
    /\ interest[s] = "in" /\ Disconnected(s) /\ lvl4[s].reconnect
    /\ IsLowest(n, Fds \ (Open \ {s}))
    /\ next_event(s)
    /\ st' = [st EXCEPT ![s] = "closed", ![n] = "syn"]
    /\ peer' = [peer EXCEPT ![s] = NoTarget, ![n] = starget[s]]
    /\ interest' = [interest EXCEPT ![s] = "none", ![n] = "out"]
    /\ callback(queue, avail, 0)
    /\ UNCHANGED <<maps, hosts, stepsDone, ndone, reported>>

\* process_connected_ready when the peer disconnected, followed by
\* reconnect(): the finish callback says WILL_RECONNECT, the descriptor is
\* closed and socket() returns the lowest free one, n, which is s or a smaller
\* one. The entries of s stay in the maps. The result of connect() is ignored.
connected_reconnect(s, n) ==
    /\ interest[s] = "in" /\ Disconnected(s) /\ lvl4[s].reconnect
    /\ IsLowest(n, Fds \ (Open \ {s}))
    /\ next_event(s)
    /\ LET t == starget[s] IN
       /\ \E x \in {"syn", "est"} \cup (IF SyncErrors THEN {"dead"} ELSE {}) :
             st' = [st EXCEPT ![s] = "closed", ![n] = x]
       /\ peer' = [peer EXCEPT ![s] = NoTarget, ![n] = t]
       /\ interest' = [interest EXCEPT ![s] = "none", ![n] = "out"]
       /\ lvl4' = [lvl4 EXCEPT ![n] = new_lvl4_sm(n)]
       /\ starget' = [starget EXCEPT ![n] = new_starget(n, t)]
    /\ callback(queue, avail, 0)
    /\ UNCHANGED <<hosts, stepsDone, ndone, reported>>

\* Neither EPOLLOUT nor EPOLLIN: the event is dropped.
event_ignored(s) ==
    /\ interest[s] = "in" /\ st[s] = "dead"
    /\ next_event(s)
    /\ UNCHANGED <<maps, hosts, stepsDone, avail, ndone, queue, later, kernel,
                   budget, reported>>

events_done ==
    /\ pc = "events" /\ batch = {}
    /\ pc' = "dirty"
    /\ UNCHANGED <<batch, dirty, expired, idle, noneValid, ended, slots, maps,
                   hosts, stepsDone, avail, nlaunched, ndone, tset, kernel,
                   budget, reported>>

---------------------------------------------------------------------------
(* process_dirty_and_timeouts.                                            *)

\* What timeout_of_target(Target::from_socket(s)) may be: getpeername fails
\* on a socket that is not connected, and the port is then uninitialised.
timeouts_of(s) ==
    IF st[s] \in {"est", "data", "datafin", "fin"}
    THEN {TimeoutOf[port(peer[s])]}
    ELSE {TimeoutOf[p] : p \in Ports}

\* has_watch_timedout calls the watch callback.
watch_due(s) == WatchTimeout > 0 /\ lvl4[s].wage >= WatchTimeout

\* The pass over _lvl4_sms. E are the ones that timed out or whose watch
\* callback returned false.
dirty_scan ==
    /\ pc = "dirty"
    /\ \E E \in SUBSET Known :
          /\ \A s \in E : \/ \E x \in timeouts_of(s) : lvl4[s].age >= x
                          \/ watch_due(s)
          /\ \A s \in Known \ E : \E x \in timeouts_of(s) : lvl4[s].age < x
          /\ expired' = E
          /\ noneValid' = (E = Known)
          /\ lvl4' = [s \in Fds |->
                        IF lvl4[s] = NoSM THEN NoSM
                        ELSE [lvl4[s] EXCEPT !.reprocess = FALSE,
                                !.wage = IF s \notin E /\ watch_due(s)
                                         THEN 0 ELSE @]]
    /\ dirty' = {s \in Known : lvl4[s].reprocess}
    /\ IF \E s \in Known : watch_due(s) THEN callback(queue, avail, 0)
       ELSE UNCHANGED <<queue, later, avail, budget>>
    /\ pc' = "process"
    /\ UNCHANGED <<batch, idle, ended, slots, starget, hosts, stepsDone,
                   nlaunched, ndone, todo, cur, kernel, reported>>

next_dirty(s) ==
    /\ pc = "process" /\ IsLowest(s, dirty)
    /\ dirty' = dirty \ {s}
    /\ UNCHANGED <<pc, batch, expired, idle, noneValid, ended, slots,
                   nlaunched, todo, cur>>

\* Fault: the time stamp is renewed, though nothing was received.
Fault_dirty_processed(s) ==
    /\ next_dirty(s)
    /\ \E sm \in after_callback(lvl4[s], 0) : lvl4' = [lvl4 EXCEPT ![s] = sm]
    /\ callback(queue, avail, 0)
    /\ hosts' = [hosts EXCEPT ![ip(starget[s])] = host_sm(ip(starget[s]))]
    /\ UNCHANGED <<starget, kernel, stepsDone, ndone, reported>>

\* process_buffer returned true.
dirty_processed(s) ==
    /\ next_dirty(s)
    /\ \E sm \in after_callback(lvl4[s], lvl4[s].age) :
          lvl4' = [lvl4 EXCEPT ![s] = sm]
    /\ callback(queue, avail, 0)
    /\ hosts' = [hosts EXCEPT ![ip(starget[s])] = host_sm(ip(starget[s]))]
    /\ UNCHANGED <<starget, kernel, stepsDone, ndone, reported>>

\* process_buffer returned false.
dirty_finished(s) ==
    /\ DirtyMayEnd
    /\ next_dirty(s)
    /\ socket_finished(s, starget[s], queue, avail)

dirty_done ==
    /\ pc = "process" /\ dirty = {}
    /\ pc' = "timeouts"
    /\ UNCHANGED <<batch, dirty, expired, idle, noneValid, ended, slots, maps,
                   hosts, stepsDone, avail, nlaunched, ndone, tset, kernel,
                   budget, reported>>

\* Fault: the socket is finished again in the same loop.
Fault_expire(s) ==
    /\ pc = "timeouts" /\ IsLowest(s, expired)
    /\ starget[s] # NoTarget
    /\ socket_finished(s, starget[s], queue, avail)
    /\ UNCHANGED <<pc, batch, dirty, expired, idle, noneValid, ended, slots,
                   nlaunched, todo, cur>>

\* The loop over the sockets that timed out.
expire(s) ==
    /\ pc = "timeouts" /\ IsLowest(s, expired)
    /\ starget[s] # NoTarget
    /\ expired' = expired \ {s}
    /\ socket_finished(s, starget[s], queue, avail)
    /\ UNCHANGED <<pc, batch, dirty, idle, noneValid, ended, slots, nlaunched,
                   todo, cur>>

\* The same for a socket that is no longer there.
expire_missing(s) ==
    /\ pc = "timeouts" /\ IsLowest(s, expired)
    /\ starget[s] = NoTarget
    /\ assert_fails

\* Fault: process_free_socks counts to nsockets, not to what is available.
Fault_timeouts_done ==
    /\ pc = "timeouts" /\ expired = {}
    /\ pc' = "free" /\ slots' = NSockets
    /\ UNCHANGED <<batch, dirty, expired, idle, noneValid, ended, maps, hosts,
                   stepsDone, avail, nlaunched, ndone, tset, kernel, budget,
                   reported>>

timeouts_done ==
    /\ pc = "timeouts" /\ expired = {}
    /\ pc' = "free" /\ slots' = avail
    /\ UNCHANGED <<batch, dirty, expired, idle, noneValid, ended, maps, hosts,
                   stepsDone, avail, nlaunched, ndone, tset, kernel, budget,
                   reported>>

---------------------------------------------------------------------------
(* The end of a pass of do_async_scan.                                    *)

scan_over ==
    /\ pc = "check" /\ idle /\ noneValid /\ ended
    /\ pc' = "done"
    /\ UNCHANGED <<batch, dirty, expired, idle, noneValid, ended, slots, maps,
                   hosts, stepsDone, avail, nlaunched, ndone, tset, kernel,
                   budget, reported>>

\* Go on, after the status callback. The state saved here is the target set's.
scan_goes_on ==
    /\ pc = "check" /\ ~(idle /\ noneValid /\ ended)
    /\ pc' = "wait"
    /\ callback(queue, avail, 0)
    /\ UNCHANGED <<batch, dirty, expired, idle, noneValid, ended, slots, maps,
                   hosts, stepsDone, nlaunched, ndone, todo, cur, kernel,
                   reported>>

---------------------------------------------------------------------------
(* The network and the clock.                                             *)

\* The connection at s goes from one of the states of From to state x.
NetStep(s, From, x) ==
    /\ st[s] \in From
    /\ st' = [st EXCEPT ![s] = x]
    /\ UNCHANGED <<loop, maps, hosts, stepsDone, avail, nlaunched, ndone, tset,
                   peer, interest, budget, reported>>

NetConnected(s) == NetStep(s, {"syn"}, "est")
NetRefused(s) == NetStep(s, {"syn"}, "refused")
NetData(s) == NetStep(s, {"est"}, "data")
NetClose(s) == NetStep(s, {"est", "data"},
                       IF st[s] = "est" THEN "fin" ELSE "datafin")
NetError(s) == NetStep(s, {"est", "data", "datafin", "fin"}, "err")

older(a, max) == IF a < max THEN a + 1 ELSE a

Tick ==
    /\ lvl4' = [s \in Fds |->
                  IF lvl4[s] = NoSM THEN NoSM
                  ELSE [lvl4[s] EXCEPT !.age = older(@, MaxAge),
                                       !.wage = older(@, WatchTimeout)]]
    /\ UNCHANGED <<loop, starget, hosts, stepsDone, avail, nlaunched, ndone,
                   tset, kernel, budget, reported>>

---------------------------------------------------------------------------
Init ==
    /\ pc = "free" /\ slots = NSockets
    /\ batch = {} /\ dirty = {} /\ expired = {}
    /\ idle = FALSE /\ noneValid = FALSE /\ ended = FALSE
    /\ lvl4 = [s \in Fds |-> NoSM]
    /\ starget = [s \in Fds |-> NoTarget]
    /\ hosts = [h \in Hosts |-> NoHost]
    /\ avail = NSockets /\ nlaunched = 0 /\ ndone = 0
    /\ todo = Base /\ queue = {} /\ later = Added /\ cur = Garbage
    /\ stepsDone = {}
    /\ st = [s \in Fds |-> "closed"]
    /\ peer = [s \in Fds |-> NoTarget]
    /\ interest = [s \in Fds |-> "none"]
    /\ budget = NSockets
    /\ reported = [t \in Targets |-> 0]

process_free_socks ==
    \/ free_socks_full \/ free_socks_end \/ free_socks_would_block
    \/ \E t \in Targets, s \in Fds : free_socks_launch(t, s)
    \/ \E t \in Targets, s \in Fds : free_socks_sync_error(t, s)
    \/ free_socks_no_fd

process_connecting_ready(s) == connecting_finished(s) \/ connecting_connected(s)

process_connected_ready(s) ==
    \/ connected_data(s) \/ connected_finished(s) \/ event_ignored(s)
    \/ \E n \in Fds : connected_reconnect(s, n)

process_events ==
    \/ epoll_wait
    \/ \E s \in Fds : process_connecting_ready(s) \/ process_connected_ready(s)
    \/ events_done

process_dirty_and_timeouts ==
    \/ dirty_scan
    \/ \E s \in Fds : dirty_processed(s) \/ dirty_finished(s)
    \/ dirty_done
    \/ \E s \in Fds : expire(s) \/ expire_missing(s)
    \/ timeouts_done

Engine ==
    process_free_socks \/ process_events \/ process_dirty_and_timeouts
    \/ scan_over \/ scan_goes_on

Network ==
    \E s \in Fds : NetConnected(s) \/ NetRefused(s) \/ NetData(s)
                   \/ NetClose(s) \/ NetError(s)

\* do_async_scan returned, or the process was ended by an assertion.
Terminated == pc \in {"done", "aborted"} /\ UNCHANGED vars

Next == Engine \/ epoll_wait_eintr \/ Network \/ Tick \/ Terminated

Spec == Init /\ [][Next]_vars

---------------------------------------------------------------------------
(* Properties.                                                            *)

PCs == {"free", "wait", "events", "dirty", "process", "timeouts", "check",
        "done", "aborted"}

TypeLoop ==
    /\ pc \in PCs
    /\ batch \subseteq Fds /\ dirty \subseteq Fds /\ expired \subseteq Fds
    /\ idle \in BOOLEAN /\ noneValid \in BOOLEAN /\ ended \in BOOLEAN
    /\ slots \in Nat

TypeCounts ==
    /\ avail \in Nat /\ budget \in Nat /\ nlaunched \in Nat /\ ndone \in Nat
    /\ reported \in [Targets -> Nat]

TypeMaps ==
    /\ lvl4 \in [Fds -> Lvl4SM \cup {NoSM}]
    /\ starget \in [Fds -> Targets \cup {NoTarget}]

TypeHosts ==
    /\ hosts \in [Hosts -> HostSM \cup {NoHost}]
    /\ stepsDone \subseteq Hosts /\ cur \in Hosts \cup {Garbage}

TypeTargets ==
    todo \subseteq Targets /\ queue \subseteq Targets /\ later \subseteq Targets

TypeKernel ==
    /\ st \in [Fds -> ConnStates]
    /\ peer \in [Fds -> Targets \cup {NoTarget}]
    /\ interest \in [Fds -> {"none", "out", "in"}]

\* Type invariant: the counts never go below zero, and the maps hold what
\* their readers expect.
TypeOK ==
    TypeLoop /\ TypeCounts /\ TypeMaps /\ TypeHosts /\ TypeTargets /\ TypeKernel

\* create_socket never runs with no socket available: the assertion on
\* _avail_socks, which process_free_socks relies on a copy of the count for.
SlotsBacked == pc = "free" => slots <= avail

\* Whatever the callbacks do, the sockets of pending events and of to_process
\* are in both maps, so that target_from_socket and lvl4_sm find them: a
\* handler never takes away the entry another one in the same pass needs.
LookupsFound ==
    \A s \in batch \cup dirty : lvl4[s] # NoSM /\ starget[s] # NoTarget

\* No assertion of the engine fails: socket_finished is never called twice
\* for a socket, nor for one that could not be created.
NeverAborted == pc # "aborted"

\* _lvl4_sms, _sockets_targets, epoll and the kernel agree on which
\* descriptors are connections, and a connection is recorded for the target
\* it really goes to: results are attributed to the right target.
MapsAgree ==
    \A s \in Fds :
        /\ starget[s] = peer[s]
        /\ (st[s] = "closed") = (lvl4[s] = NoSM)
        /\ (st[s] = "closed") = (peer[s] = NoTarget)
        /\ (st[s] = "closed") = (interest[s] = "none")

\* Every socket is available or open, never both nor neither, and the counts
\* shown by the status callback differ by the connections in flight.
Accounting ==
    /\ avail + Cardinality(Open) = budget
    /\ nlaunched = ndone + Cardinality(Open)

\* The engine never has more connections open than it was allowed.
SocketCap == Cardinality(Open) <= budget

\* The connections recorded for t.
LiveOf(t) == {s \in Fds : starget[s] = t}

Waiting(t) == t \in todo \/ t \in queue \/ t \in later

\* A target is waiting, or in flight on one socket, or was reported by one
\* finish callback: none is lost, none is launched or reported twice.
Conservation ==
    \A t \in Base \cup Added :
        reported[t] + Cardinality(LiveOf(t)) + (IF Waiting(t) THEN 1 ELSE 0) = 1

\* When the scan is over, every target that was ever in the set has had its
\* finish callback.
AllReportedAtEnd ==
    pc = "done" => \A t \in (Base \cup Added) \ later : reported[t] = 1

\* step_done is called for a host only when all its targets are reported: a
\* saved state never skips a target that has no result.
StepsDoneSound ==
    \A h \in stepsDone : \A t \in Base : ip(t) = h => reported[t] > 0

\* When the scan is over and no connection is left, every host was marked
\* done and its HostSM freed: no port of a host is counted twice or forgotten.
HostsReleased ==
    pc = "done" /\ Open = {} =>
        /\ \A h \in Hosts : hosts[h] = NoHost
        /\ TracksPorts => {ip(t) : t \in Base} \subseteq stepsDone

\* The engine runs when it can and time goes on; nothing is assumed of the
\* peers nor of the callbacks.
FairSpec == Spec /\ WF_vars(Engine) /\ WF_vars(Tick)

\* Steps after which the scan has to go on for a reason outside the engine:
\* data arrives, a connection is reopened on demand, a signal, an input that
\* is not there yet.
Disturbed ==
    \/ \E s \in Fds : NetData(s)
    \/ \E s, n \in Fds : connected_reconnect(s, n)
    \/ epoll_wait_eintr
    \/ free_socks_would_block

\* Once the peers stay silent and connections are not reopened, the scan ends
\* by itself: every connection times out, fails or finishes, and the loop
\* notices that there is nothing left.
Termination == (<>[][~Disturbed]_vars) => <>(pc = "done")

---------------------------------------------------------------------------
(* The scan this engine carries out, as its user sees it.                 *)

Flying == {starget[s] : s \in Fds} \ {NoTarget}

Abstract ==
    INSTANCE Scan WITH
        All <- Base \cup Added,
        Cap <- MaxBudget,
        waiting <- {t \in Base \cup Added : Waiting(t)},
        flying <- Flying,
        reported <- {t \in Targets : reported[t] > 0},
        flagged <- stepsDone

\* The engine implements Scan: through all its passes, lists and recycled
\* descriptors, each step draws one target, reports one, or changes nothing a
\* user sees; the hosts of an IPV4TargetSet come one after the other, and
\* step_done comes with a host's last report, neither sooner nor later.
ScanImplemented == Abstract!ScanSpec
=============================================================================
