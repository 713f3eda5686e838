# A TLA+ development of nodescan

nodescan (`src/`) is a library for writing asynchronous network scanners: a
single thread keeps many non-blocking connections going, hands what they
receive to callbacks and reports every target once it is finished. This
directory models that machinery in TLA+, checks it with TLC on small instances
and proves its main invariants with TLAPS.

## 1. Inventory

| Part of the system | Source | State | Operations | Model |
|---|---|---|---|---|
| `AsyncEngine` | `src/src/async_engine.cpp`, `include/ns/async_engine.h` | `_lvl4_sms`, `_sockets_targets`, `_hosts_sms`, `_avail_socks`, `_nlaunched`, `_ndone`, the epoll set | `do_async_scan`: `process_events`, `process_dirty_and_timeouts`, `process_free_socks`; `reconnect`; `ensure_available_sockets` | `AsyncEngine` |
| `Engine` | `src/src/engine.cpp` | target set, autosave time and file | forwards to the target set; `auto_save_state`, `should_save_state` | forwarding in `AsyncEngine`; saving in `SavedState` |
| `Lvl4SM`, `StateMachine` | `lvl4_state_machine.cpp`, `state_machine.cpp` | time stamps, trigger, buffer, reconnect and reprocess flags | `process_lvl4_data`, `process_buffer`, `set_trigger` | `Lvl4Stream` (data), `AsyncEngine` (times, flags) |
| data triggers | `data_triggers.cpp`, `data_trigger_variant.h` | delimiter or size | `process_buffer` | `Lvl4Stream` |
| `Buffer` | `buffer.h` | bytes, allocated size | `grow_by`, `pop_by`, `free` | `buf` and `mem` in `Lvl4Stream` |
| `HostSM` | `host_state_machine.cpp` | ports done, step index | `port_done`, `set_rand_idx_ip` | `AsyncEngine` |
| `IPV4TargetSet` | `target_set.cpp` | random walk over addresses and ports | `next_target`, `target_finished`, `save_state`, `restore_state` | order and steps in `AsyncEngine`; `init`, saving and restoring in `SavedState` |
| `SimpleTargetSet`, `RepeatableTargetSet` | `target_set.h` | a set and an iterator | `add_target`, `remove_target`, `next_target`, `init` | `SimpleTargetSet` |
| `ReinjectableTargetSet` | `target_set.h` | a queue | `add_target`, `next_target` | `queue` in `AsyncEngine` |
| `TargetAsyncFile`, `TargetStdin` | `target_file.cpp` | a buffer | `next_target` | `TargetFile` |
| SSH, SSL, SIP helpers | `src/src/protocols/` | the trigger armed last | trigger callbacks | `Protocols` |
| `Lvl4PropertiesStorage` | `lvl4_properties_storage.h` | a map | lookup, creation | not modelled |
| Python bindings | `src/bindings/python/` | none | callbacks that forward to Python | results of callbacks in `AsyncEngine`, `Lvl4Stream`, `Protocols`; exceptions in `SavedState` |

How they interact. The engine draws targets from the target set, opens a socket
for each, and files it under its descriptor in two maps; epoll says which
descriptors are ready. A connection's `Lvl4SM` runs its trigger on the bytes
received, and the trigger calls the user back. When a connection is over
(error, disconnection, timeout, or a callback returned false) `socket_finished`
calls the finish callback, tells the target set, and frees the socket. All the
callbacks run inside the loop and may call back: arm a trigger, ask for a
reconnection, add targets, ask for more sockets.

What is hard. There is one thread, so the difficulties are in the order of
things: the kernel and the peers change connections between any two steps;
descriptors are recycled; the lists a pass computes first (events, dirty
connections, timeouts, a copy of the count of sockets) are used after callbacks
ran; the end of the scan is inferred from three values taken at three moments;
lines arrive cut anywhere, and a trigger is replaced while its own callback runs.
A scan may be saved at any moment, killed at any other and resumed from what was
saved. PROJECT.json lists these hazards at their lines.

What makes each part correct:

- engine: no target lost, duplicated or attributed to another; no socket leaked
  or granted twice; no assertion fails; the scan ends, and not too early; a host
  is marked done only when it is;
- data path: lines and blocks are whole whatever the cuts, delivered at once,
  never twice, and never with bytes of another connection;
- target sets: the iterator stays valid while targets come and go, none of the
  others is skipped; a file yields exactly its valid lines;
- saved state: what a resumed scan leaves out was really reported, whatever was
  interrupted before;
- protocol helpers: headers are read where packets start, the user gets all
  that the peer said and nothing else, and no peer can hold the loop.

## 2. Modules

**`AsyncEngine`** is the scanning loop. `pc` says which piece of
`do_async_scan` comes next and the first variables are its locals (`batch`:
events left; `dirty`: `to_process`; `expired`: `timeouted`; `idle`:
`nfds == 0`; `noneValid`: `n_lvl4_sms_valid == 0`; `ended`: `end_targets`;
`slots`: iterations left in `process_free_socks`). Then come the engine's
members, the target set (an `IPV4TargetSet` when `TracksPorts`, otherwise one
whose `target_finished` is always true), the kernel (`st`: what the network
did to each socket; `peer`: whom it goes to; `interest`: its epoll entry), and
two history variables. One action is one iteration of one of the code's loops,
callbacks included; network events and the clock interleave between them.
Time stamps are kept as ages. `socket()` returns the lowest free descriptor.
`reconnect()` may get another descriptor than it closed, since lower ones may
be free, and the entries of the old one stay, as in the code. What the code reads
uninitialised is a free choice: the port of a socket that is not connected
(`timeouts_of`) and the step of a fresh `HostSM` (`Garbage`).

Callbacks are any combination of what the API allows (`callback`,
`after_callback`), restricted by the constants `Added`, `EnsureN`,
`UsesReconnect` and `DirtyMayEnd`. The last says whether running a trigger on
an unchanged buffer may end a connection. `Lvl4Stream` shows that it may not
for the triggers of the library armed by the connection's own callbacks
(`DirtyIsNoOp`); a Python trigger, or one armed by another connection's
callback, may.

**`Scan`** is the abstract specification: a target waits, then flies, then is
reported, once each; at most `Cap` fly; an `IPV4TargetSet` is gone through host
by host and a host is flagged (`step_done`) with its last report.
`AsyncEngine!ScanImplemented` says that the loop implements it. The mapping:
`waiting` is what the target set still holds or may be given by callbacks
(`todo`, `queue`, `later`), `flying` the targets of `_sockets_targets`, `reported`
and `flagged` the history of finish callbacks and of `step_done`.

**`SavedState`** builds on `Scan`. Its variables are the memory of a process;
only `file` outlives one. `launch` starts from nothing (`init()` undoes a
`restore_state`), `restore_state` with `launch_shrd` resumes. `save_state` is
two actions, since the file is emptied when it is opened and written
afterwards; the process may be killed between any two actions. `callback_raises`
is an exception of a Python callback, which leaves `launch()` and lets the user
save. The walk over the addresses belongs to leeloo, which is not in the
repository: it is taken to go through the hosts not done in any order, and a
restored one to start at any of them, with the ports that were left of the
saved host. `ever`, `missed` and `lost` are history.

**`Lvl4Stream`** is the data path of one `Lvl4SM`: reads of any size, the loop
that runs the trigger, callbacks that keep, swap or remove it, the dirty pass
that runs a new trigger on the buffer as it is, reconnection with the same
`Lvl4SM`. A callback gets a pointer to the bytes and may write there; when it
ends the connection they stay in the buffer, for the finish callback
(`Overwritten`), and otherwise they are popped. `mem` is what `Buffer` allocated, in arithmetic modulo `Word` (2^32 in
the code): four bytes are asked for each byte, so the product wraps around at a
quarter of the range.

**`Protocols`** composes the helpers with `Lvl4Stream`: each callback of a
trigger is one action that takes a step of `CanProcessAgain` or `ConnectionEnd`
and says which trigger comes next (`stage` names its callback). A number of
several bytes is carried by its first byte, the others being 0, and a run of text
is one byte: lengths and offsets are the code's, and reading at a wrong place
reads what is there. The peer follows a script of packets, each sent after so
many messages of the helper, and the packets are cut into reads anywhere. A
script gives the bytes of all its packets and where each one ends; `IsFramed` says
of a script that its packets are laid out as the helpers expect, and `Serves` that
its peer does as it should: what its packets hold, and where in the stream the user
should find it (`results`: the key of an SSH reply, the cipher and the certificates
of an SSL server, the values of SIP headers). `Serves` is as wide as the code
allows: an SSH reply may have any padding as long as the bytes the helper takes for
it hold the key, and a failure callback that returns true (`lenient`) also lets
banners and odd lines pass.
`MCProtocols` has the scripts: well-formed servers with several paddings,
certificates and header values, and ill-formed ones (wrong types and lengths,
truncated or empty records, lines without carriage return). The user's
callbacks return anything; the failure callback may be absent. The assumption
`ServersServe` lists which of these scripts meet `Serves`, so that `GivenAsSent` is
not about nothing. A read out of the
buffer (`on_handshake1_wild`) gives any outcome, a crash included. The SIP callback
ends the name and the value of a header with zeros in the receive buffer, over the
first colon and the CR (`terminators`); `header_value` reads the line with these in
place, and `ends` leaves them in the buffer when the callback returns false. The
user's own callbacks are taken not to write into what they are given.

**`SimpleTargetSet`** has the set, the iterator and, with `Repeatable`, the
wrapper that starts over. Targets are numbered in the order of
`Target::operator<`, which is all the code looks at.

**`TargetFile`** has a writer and `next_target` of `TargetAsyncFile` on the
standard input; a byte is part of an address, something else, or a newline. After
an end answer the engine may call again or stop, and nothing says which.

The `MC*` modules and the `.cfg` files hold the instances; `*Proofs`,
`AsyncEngineSafety` and `AsyncEngineHosts` hold the theorems. Operators named `Fault_*` are seeded
bugs: a property of a passing run is violated when the definition that follows
is replaced by one of them ("mutants" in PROJECT.json lists the pairs).

## 3. Runs

| Run | What it shows |
|---|---|
| `engine_core` | Two hosts × two ports over two sockets, watch callback and timeouts: type invariant, `MapsAgree`, `Accounting`, `Conservation`, `NeverAborted`, `StepsDoneSound`, `HostsReleased`, and `ScanImplemented`. |
| `engine_adds` | Targets and sockets added by callbacks, failing connects, blocking `next_target`, one event at a time: `Conservation`, `Accounting`, `ScanImplemented`. |
| `engine_any_use` | Reconnections, connections ended in the dirty pass, fewer descriptors than sockets: `SlotsBacked` and `LookupsFound` still hold. |
| `engine_live` | `Termination`. |
| `lvl4_stream` | `Lossless`, `Backed`, `SegmentsExact`, `Prompt`, `DirtyIsNoOp`, `LoopEnds`. |
| `saved_state` | Four starts of a process: `FlagsSound`, `DoneHostsRest`, `OnlyFirstHostCut`, `LossesWereInFlight`. |
| `protocols` | `Framed`, `GivenAsSent`, `KeptAsSent`, `Returns`. |
| `target_set` | `IteratorValid`, `SteadyReturned`, `RoundRobin`. |
| `target_file` | `LinesExact`, `EndSound`, `AllLinesReturned`. |
| `ends_too_early` | violated: the scan may end with connections in flight. |
| `dirty_then_timeout` | violated: an assertion may fail when a connection is ended in the dirty pass and due to time out. |
| `reconnect_cap` | violated: after a reconnection more than `nsockets` connections may be open. |

Bounds. Two sockets and three or four targets are enough for every kind of
conflict inside a pass (two connections in the same list, one freed and
recycled while the other is pending, the last target launched while the other
connection dies); `MaxAge` only has to exceed the timeouts, older time stamps
being alike; `MaxBudget` bounds what `ensure_available_sockets` grants; with
`MaxEvents` smaller than the number of sockets epoll returns a part of what is
ready. A stream of four bytes over two symbols holds two lines cut anywhere and
a trigger swap between them, and two connections show what is left of the
first; four targets give an iterator room on both sides of an addition and a
removal; five bytes hold two lines with an invalid one between, or a partial
one after. Two hosts of two ports over four starts let two states be resumed one
after the other, with a full start or a truncated file in between; `Word` is 16
for the data path, so that a buffer of four bytes is at the quarter of the range
where `size_buf` wraps, and 64 for the helpers, above every length that occurs
but the one meant to wrap.

Hosts are interchangeable, so the safety runs use symmetry; runs with liveness
do not.

Fairness. The engine is a loop that does not wait (epoll's timeout is 1 ms), so
`WF(Engine)`; time goes on, so `WF(Tick)`. Nothing is assumed of the network
or of the callbacks. `Termination` is conditional: from some moment no more
data, reconnection, interrupted `epoll_wait` or blocked input. Each of these
keeps the code's loop going for as long as it lasts: data renews the time
stamp, an interrupted wait returns -1 and not 0. In `Lvl4Stream` the loop that
runs the trigger is weakly fair, being a plain loop, but for a
`SizeDataTrigger` of size 0: its turns may change nothing, which for TLA+ is
standing still, and `LoopEnds` and `Returns` say that this is the only way not to
return. `SimpleTargetSet` assumes that the engine goes on calling `next_target`.
`TargetFile` assumes that the writer finishes and that the engine calls
`next_target` until it is told end: would-block leaves `end_targets` false, but on an
end answer `do_async_scan` breaks if the pass had no event and no valid connection
(`async_engine.cpp:425`), so no call is assumed after it. `AllLinesReturned` therefore
names the one case in which lines are lost, end said at an invalid line
(`EndBehindInvalid`), and says that there is no other.

## 4. Proofs

TLAPS proves the following for every value of the constants: any hosts and
ports, any numbers of sockets, descriptors and timeouts, any streams and inputs.

*Any use* (`AsyncEngineProofs`): `TypeCorrect`, `AssertAvailable`
(`SlotsBacked`), `LookupsAlwaysFound` (`LookupsFound`), along the inductive
invariant `LookupInv`: the two maps have the same keys, a descriptor epoll
watches has entries, and the work lists of a pass hold only such descriptors and are
empty outside it. `LookupsFound` alone is not inductive, since
`epoll_wait` fills the batch from the epoll set and not from the maps.

*Regular use* (`AsyncEngineSafety`, under `RegularUse`: no reconnection, no
connection ended in the dirty pass, at least as many descriptors as sockets may
be granted): `NoAssertionFails`, `MapsAlwaysAgree`, `SocketsAccounted`,
`TargetsConserved`, along `SafeInv`. It adds to `LookupInv` that expired
sockets are known (else a timeout could hit a freed one), that targets wait in
one place and fly on one socket (`Placed`, from which the counting form
`Conservation` follows), and that the budget bounds the open sockets, so that
`socket()` cannot fail. Each assumption is needed: the runs `reconnect_cap` and
`dirty_then_timeout` drop the first two, section 5 has the third.

*Hosts and refinement* (`AsyncEngineHosts`, under `RegularUse` and `StepUse`):
`HostsCounted`, `StepsAlwaysSound` (`StepsDoneSound`), `HostsAlwaysReleased`
(`HostsReleased`) and `EngineImplementsScan` (`ScanImplemented`). `StepUse` is
about an `IPV4TargetSet` only: it enumerates every port of every host, callbacks
add nothing to it, and `connect()` does not fail at once. Without the last, a target
is finished before `init_host_sm` gave its `HostSM` a step; without the second,
a target is given the step of another host (section 5). For any other target
set it asks for nothing, so additions and failing connects are covered there.
`engine_core` and `engine_adds` are instances of the two cases. The inductive
invariant `HostInv` ties three things that the code keeps apart: a `HostSM`
exists exactly while its host has been launched in part but not reported in
full, its count is the number of its targets reported (`HostExact`), and only
the host of the current step is partly drawn (`OneStep`), so that the step stored at
a launch is that of the target. The refinement needs it for one fact: the count
reaches the number of ports at the last report of the host and not before. The
steps are first sorted by what they do to targets (`Quiet`, a launch, a
finish), so that each case of the refinement is proved once.

*Data path* (`Lvl4StreamProofs`): `StreamTypeCorrect`, `NoByteLost` (`Lossless`),
`SegmentsAlwaysExact`, `AlwaysPrompt`, `DirtyAlwaysNoOp` and `BufferBacked`, for
any alphabet, sizes, stream and number of reconnections. `StreamInv` adds to the
properties what makes scanning only the new bytes right: the position
is 0 but while new bytes are looked at (`PositionInv`), no byte before it is the
delimiter of the trigger armed now, which is not always the one that scanned them
(`ScannedInv`), and outside that loop the trigger finds nothing, or the buffer is
empty (`SettledInv`). The second case is real: the callback of a
`SizeDataTrigger` of size 0 may fire on an empty buffer in the dirty pass. It is
harmless because no other trigger is satisfied by no bytes. `DirtyAlwaysNoOp` is
what allows `DirtyMayEnd = FALSE` in `AsyncEngine`, hence `RegularUse`.
`BufferBacked` assumes `ShortStream`, that less than 4 GiB arrive on one
connection: beyond, the size itself wraps around and `allocate` may keep too little.

*Target sets* (`SimpleTargetSetProofs`): `SetTypeCorrect`, `IteratorAlwaysValid`
and `NoneSkipped` for a set of any size, along `SetInv`; the step rests on a
lemma that the next position skips none.

*Target file* (`TargetFileProofs`): `FileTypeCorrect`, `LinesAlwaysExact`
(`LinesExact`) and `EndAlwaysSound` (`EndSound`) for an input of any length.
`FileInv` says where the buffer is in the input: it is what was read after the
last line popped, and it begins where a line begins (`BufferInv`), which no property
mentions but every one needs; and that after an end everything was read and
no newline is left (`EndInv`). The lemma `NextLine` is about
`next_target_in_buf` alone and is used twice in the step that reads.

*Protocol helpers* (`ProtocolsProofs`): `AlwaysFramed` (`Framed`), for any script
and any way to cut it, not only those of `MCProtocols`; and
`HelpersImplementStream`, that every turn of a helper is a turn of `Lvl4Stream`,
so that what is proved there for any callbacks holds under the helpers, up to
the crash on a short hello. `Lossless` allows for a last callback that wrote into
what it was given; `BufferKeptAsSent` (`KeptAsSent`) says how far that goes
for the helpers: what is left in the buffer for the finish callback is what the peer said,
but for zeros over a CR or a colon of the last line of SIP. Its invariant `KeptInv`
adds that the SIP helper never replaces its trigger, so that what it is given has no
newline in it (`LineData`). The constants are assumed to be as the byte encoding
needs them (`ScriptsAssumption`: the alphabet, packets that are not empty and
make up the stream). The argument has three parts. `PathInv` says that the bytes
consumed and those in the buffer are the beginning of the stream (from
`StreamInv`), so that what a callback is given is read off the stream at
`Len(consumed)`. `FrameInv` says for every stage which packet it is in, and whether at
its start or after its header (`HeaderInv`, `BodyInv`, `LineInv`), with the trigger
that goes with it; `Framed` alone only says that there is some packet, which does not
tell that the next one is an SSH packet or a TLS record. `KeyInv` is about the trigger
that stays armed after the SSH key was accepted: it hands over nothing more, as
long as what follows the reply does not begin like another one. The last part is
that the loop of `on_handshake2` stays in its record but for 3 bytes:
`certificates_from` is a recursive function, whose equation (`CertificatesLoop`) and
bound (`CertificatesGood`) are proved by least counterexamples. `Framed` is
about users without a failure callback that returns true, since such a callback
makes the helper read on in the middle of a packet it did not understand.

`AlwaysGivenAsSent` (`GivenAsSent`) is the end-to-end result, for any script of a
peer that `Serves`, of any length and cut anywhere: the user is given what the peer
means, in order, nothing else, and all of it by the time the connection ends (unless
a callback refused) or the peer has nothing left to say. Its inductive invariant
`ServedInv` says what was given so far (`AsSent`), for each stage where the helper is
in the script and how many messages it has sent (`SSHAt`, `SSLAt`, `SIPAt`), and
that an ended connection has given everything or was refused. The messages sent
are needed for the last part: a helper that waits for a packet whose peer waits for the
helper would be quiet with something left to give. `ServedStep` keeps it, one lemma per
callback: for SSH that the version is the first line that looks like one, for SSL that
the places `certificates_from` finds are the list's (`CertificatesAre`, from the last
certificate back), for SIP that the values before a line are as many as were given
(`ValueHere`, `NoValueHere`). `ServedInvGiven` then shows that when nothing more comes
nothing is waited for: the bytes of the packet the helper is at are all in the buffer
(`QuietRead`), where by `SettledInv` the trigger would have found them
(`NoHeaderLeft`, `NoBodyLeft`, `NoLineLeft`).

*Saved state* (`SavedStateProofs`): `TypeCorrect`, `DoneHostsReported`
(`FlagsSound`), `DoneHostsStayDone` (`DoneHostsRest`), `OneHostCut`
(`OnlyFirstHostCut`) and `OnlyInFlightLost` (`LossesWereInFlight`) for any hosts,
ports, connections and starts, from `SavedStateAssumption` (the targets are all
pairs of a host and a port). The properties speak of the memory, which a
resumption rebuilds from the file, so the inductive invariant `IInv` adds what
they need of the file (`FileInv`: a done host has no port left, and the ports not
left of the walk's host are reported or noted as lost), carries the properties
through saving and raising (`CutInv`, `LossInv`), and says that a process not
started has fresh memory (`FreshInv`).

Only model-checked: all liveness (`Termination`, `LoopEnds`, `RoundRobin`,
`AllLinesReturned`, `Returns`), which this prover does not do. Every invariant and
every action property of the passing runs has a theorem. Induction over data is not out of reach where it can be
put as a least counterexample (`LeastNatural`, from the well-foundedness of the
naturals): the first delimiter of a buffer, the first newline of a line and the
places of the certificates are found that way. The inductive invariants `HostInv`,
`StreamInv`, `MemInv`, `FileInv`, `FrameInv` and `ServedInv` hold on the instances of the runs as well, which TLC checked before they were
proved.

## 5. Where the code and its documentation disagree

PROJECT.json has a finding for each violated run. Met as well while modelling,
and visible in the model by changing constants:

- when `socket()` fails, `socket_finished(-1, …)` runs into the assertion of
  `target_from_socket` (`free_socks_no_fd`: take `MaxFds < NSockets`);
- when `connect()` fails at once for an `IPV4TargetSet`, `target_finished` hands
  an uninitialised step to `step_done` (`SyncErrors` and `TracksPorts` both
  `TRUE` violate `StepsDoneSound`);
- a connecting socket has no peer name, so its timeout is that of an
  uninitialised target (`timeouts_of`);
- a target added to a `SimpleTargetSet` before the iterator is never returned;
- `init_host_sm` stores the current step whatever the target, so
  `ReinjectableTargetSet<IPV4TargetSet>`, which nothing instantiates, would
  mark the wrong host;
- an invalid line makes `TargetAsyncFile::next_target` say end once, and the
  engine may stop on it, with valid lines left in the buffer (`EndBehindInvalid`);
- `save_state` empties the file before it writes it, so a process killed in
  between loses the earlier state too (`Truncated`);
- `launch()` after `restore_state` starts from nothing; only `launch_shrd`, whose
  arguments are ignored, resumes;
- a resumed scan does not draw again the ports of the current host that were
  drawn before the save, even if they were not reported (`missed`), and if it
  resumes at another host, that one gets the remaining ports of the saved one;
- the SSH helper takes a packet's rest to be its length plus its padding less 7,
  which is right for a padding of 6 only; its own `client_key_exchange` has a
  padding of 4. `Framed` is claimed for 6, and `GivenAsSent` for a key exchange with
  6 and a reply whose key is within the bytes so taken;
- the SSL helper needs one handshake message per record and a hello without
  extensions; it checks a certificate's length before taking off the 3 bytes
  that hold it, and reads outside of the buffer for a hello of less than 3 bytes;
- an SSL peer that announces an empty record, with a failure callback that
  returns true, keeps `process_lvl4_data` from returning;
- the SIP helper keeps the space after the colon, and drops the first byte of a
  value whose second byte is a space; a status line with a colon is a header; when it
  ends the connection, the finish callback finds its zeros in the line (`KeptAsSent`
  says where).

## 6. Not modelled, and the plan

Every part that keeps state of its own is modelled, but for these:

- `Lvl4PropertiesStorage`, a map filled on first access, with no invariant of its
  own; `src/src/ipstr.cpp`, logging and time helpers (text and one call of
  `time()`);
- target sets written in Python (`NSTargetSetWrap`) and triggers written in
  Python: they may do anything; of the latter the effect on the engine is there
  (`DirtyMayEnd`);
- `launch()` called again on an engine whose callback raised: sockets and
  entries of the first scan stay, which no part of the repository expects;
- `malloc` returning null, `send` failing or writing a part: neither result is
  looked at;
- short reads: `read` returns all that FIONREAD announced, or fails. A device that
  gives less, such as a terminal with one line at a time, would leave unset bytes in
  the buffers of `Lvl4SM` and `TargetAsyncFile`, which only look whether the
  result is positive;
- `RepeatableTargetSet` over another set than `SimpleTargetSet`;
- the times of the autosave: a save may happen after any pass;
- `libleeloo` (not in the repository; its random order is a free choice) and
  `TargetFile`, which the source compiles out.

What is left to prove is the liveness, which is beyond this prover: `LoopEnds` and
`Returns` rest on the bytes left in the buffer under fairness of the loop,
`Termination` on the targets and sockets left.
