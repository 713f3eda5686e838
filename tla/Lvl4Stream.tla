------------------------------ MODULE Lvl4Stream ------------------------------
(***************************************************************************)
(* The data path of one connection: Lvl4SM::process_lvl4_data and          *)
(* process_buffer (src/src/lvl4_state_machine.cpp), the data triggers      *)
(* (src/src/data_triggers.cpp) and the receive buffer                      *)
(* (src/src/include/ns/buffer.h).                                          *)
(*                                                                         *)
(* Bytes arrive in chunks cut anywhere.  Each chunk is appended to the     *)
(* buffer and the current trigger is run until it has nothing to do: a     *)
(* CharDataTrigger hands the bytes up to a delimiter to the callback, a    *)
(* SizeDataTrigger a fixed number of bytes.  The callback may install      *)
(* another trigger, remove it, or end the connection.  Installing a        *)
(* trigger also asks the engine to run it once on the buffer as it is      *)
(* (_reprocess, see AsyncEngine's dirty pass).                             *)
(***************************************************************************)
EXTENDS Integers, Sequences, FiniteSets

CONSTANTS
    Bytes,      \* the alphabet of the stream
    Sizes,      \* arguments of SizeDataTrigger
    Word,       \* 2^32: the allocation sizes of Buffer are 32-bit numbers
    MaxStream,  \* bound: bytes the peer sends on one connection
    MaxConns    \* bound: connections made with the same Lvl4SM

ASSUME StreamAssumption ==
    /\ Sizes \subseteq Nat
    /\ Word \in Nat \ {0} /\ Word % 4 = 0
    /\ MaxStream \in Nat /\ MaxConns \in Nat \ {0}

\* DataTrigger, CharDataTrigger and SizeDataTrigger.
NoTrigger == [kind |-> "none"]
CharDataTrigger == [kind : {"char"}, c : Bytes]
SizeDataTrigger == [kind : {"size"}, size : Sizes]
NoCall == [by |-> NoTrigger, data |-> <<>>]
DataTriggers == {NoTrigger} \cup CharDataTrigger \cup SizeDataTrigger

\* Satisfied by any buffer, consumes nothing. The SSL helper arms it when a
\* peer announces an empty record.
ZeroTrigger == [kind |-> "size", size |-> 0]

VARIABLES
    buf,        \* the bytes of _buf
    mem,        \* its allocation: _buf_size, and the bytes really allocated
    trigger,    \* _trigger
    reprocess,  \* _reprocess
    prev_pos,   \* the argument of the next call of process_buffer
    pc,         \* "idle", or in one of the two loops: "data", "dirty"; then
                \* "end", or "failed" when read() failed
    connected,  \* on_connect was called on this connection
    conns,      \* connections made so far, on the same Lvl4SM
    received,   \* history: all the bytes read from the socket
    consumed,   \* history: the bytes popped from the buffer
    last        \* history: the last call of a data callback on this connection

conn == <<connected, conns>>
hist == <<received, consumed, last>>
vars == <<buf, mem, trigger, reprocess, prev_pos, pc, conn, hist>>

\* Buffer::grow_by followed by read(), and Buffer::pop_by.
grow_by(b, chunk) == b \o chunk
pop_by(b, n) == SubSeq(b, n + 1, Len(b))

\* The pointer is null.
NoMem == [alloc |-> 0, bytes |-> -1]

\* Buffer::size_buf: four bytes each, in the arithmetic of size_type.
size_buf(n) == (n * 4) % Word

\* Fault: the size before growing is compared.
Fault_allocate(m, size, n) ==
    IF m # NoMem /\ m.alloc >= size THEN m
    ELSE [alloc |-> (size + n) % Word, bytes |-> size_buf(size + n)]

\* Buffer::allocate as grow_by calls it. The memory never shrinks.
allocate(m, size, n) ==
    IF m # NoMem /\ m.alloc >= (size + n) % Word THEN m
    ELSE [alloc |-> (size + n) % Word, bytes |-> size_buf(size + n)]

\* Where the trigger finds its delimiter in b, at from or later (1-based).
Delimiters(t, b, from) == {i \in DOMAIN b : i > from /\ b[i] = t.c}

\* Fault: the last delimiter is taken instead of the first.
Fault_Cuts(t, b, from) ==
    CASE t.kind = "none" -> {}
      [] t.kind = "size" -> {n \in {t.size} : n <= Len(b)}
      [] t.kind = "char" -> {i \in Delimiters(t, b, from) :
                                \A j \in Delimiters(t, b, from) : i >= j}

\* The positions at which trigger t may cut b, looking at it from position
\* from on: a SizeDataTrigger ignores the position.
Cuts(t, b, from) ==
    CASE t.kind = "none" -> {}
      [] t.kind = "size" -> {n \in {t.size} : n <= Len(b)}
      [] t.kind = "char" -> {i \in Delimiters(t, b, from) :
                                \A j \in Delimiters(t, b, from) : i <= j}

\* What the callback is given when the buffer is cut at n: the delimiter is
\* left out, and popped with the rest.
Segment(t, b, n) == SubSeq(b, 1, IF t.kind = "char" THEN n - 1 ELSE n)

---------------------------------------------------------------------------
Init ==
    /\ buf = <<>> /\ received = <<>> /\ consumed = <<>> /\ last = NoCall
    /\ mem = allocate(NoMem, 0, 0)     \* the map holds a copy of a fresh Lvl4SM
    /\ prev_pos = 0 /\ pc = "idle"
    /\ trigger = NoTrigger /\ reprocess = FALSE
    /\ connected = FALSE /\ conns = 1

\* What a callback leaves in _trigger and _reprocess: as they were, removed,
\* or replaced.
callback ==
    \/ trigger' = trigger /\ reprocess' = reprocess
    \/ trigger' = NoTrigger /\ reprocess' = FALSE
    \/ trigger' \in DataTriggers \ {NoTrigger} /\ reprocess' = TRUE

\* The connection is established; on_connect returns true or false.
on_connect ==
    /\ pc = "idle" /\ ~connected
    /\ connected' = TRUE
    /\ callback
    /\ pc' \in {"idle", "end"}
    /\ UNCHANGED <<buf, mem, prev_pos, conns, hist>>

\* Fault: free_buffer is forgotten.
Fault_reconnect ==
    /\ pc = "idle" /\ connected /\ conns < MaxConns
    /\ connected' = FALSE /\ conns' = conns + 1
    /\ received' = <<>> /\ consumed' = <<>> /\ last' = NoCall
    /\ UNCHANGED <<buf, mem, trigger, reprocess, prev_pos, pc>>

\* The peer disconnected and a reconnection is wanted: the buffer is freed, the
\* trigger kept. (reconnect() returns to this Lvl4SM when socket() returns the
\* descriptor just closed; AsyncEngine has the other case.)
reconnect ==
    /\ pc = "idle" /\ connected /\ conns < MaxConns
    /\ connected' = FALSE /\ conns' = conns + 1
    /\ buf' = <<>> /\ mem' = NoMem
    /\ received' = <<>> /\ consumed' = <<>> /\ last' = NoCall
    /\ UNCHANGED <<trigger, reprocess, prev_pos, pc>>

\* Fault: the position of the new bytes is one too far.
Fault_process_lvl4_data(chunk) ==
    /\ pc = "idle" /\ connected
    /\ prev_pos' = Len(buf) + 1
    /\ buf' = grow_by(buf, chunk) /\ mem' = allocate(mem, Len(buf), Len(chunk))
    /\ received' = received \o chunk
    /\ pc' = "data"
    /\ UNCHANGED <<trigger, reprocess, conn, consumed, last>>

\* process_lvl4_data: grow_by and read, up to the loop.
process_lvl4_data(chunk) ==
    /\ pc = "idle" /\ connected
    /\ prev_pos' = Len(buf)
    /\ buf' = grow_by(buf, chunk) /\ mem' = allocate(mem, Len(buf), Len(chunk))
    /\ received' = received \o chunk
    /\ pc' = "data"
    /\ UNCHANGED <<trigger, reprocess, conn, consumed, last>>

\* process_lvl4_data when read() fails: the buffer has grown all the same, by
\* bytes that were never received.
read_failed(chunk) ==
    /\ pc = "idle" /\ connected
    /\ buf' = grow_by(buf, chunk) /\ mem' = allocate(mem, Len(buf), Len(chunk))
    /\ pc' = "failed"
    /\ UNCHANGED <<trigger, reprocess, prev_pos, conn, hist>>

\* process_buffer on a connection whose should_process_buffer returned true.
process_buffer ==
    /\ pc = "idle" /\ reprocess
    /\ reprocess' = FALSE /\ prev_pos' = 0 /\ pc' = "dirty"
    /\ UNCHANGED <<buf, mem, trigger, conn, hist>>

\* The trigger returned NoMoreToProcess.
NoMoreToProcess ==
    /\ pc \in {"data", "dirty"}
    /\ Cuts(trigger, buf, prev_pos) = {}
    /\ pc' = "idle" /\ prev_pos' = 0
    /\ UNCHANGED <<buf, mem, trigger, reprocess, conn, hist>>

\* Fault: the size is read from the trigger after the callback, which may have
\* replaced it.
Fault_pop_new_size ==
    /\ pc \in {"data", "dirty"}
    /\ callback
    /\ \E n \in Cuts(trigger, buf, prev_pos) :
          LET k == IF trigger'.kind = "size" /\ trigger'.size <= Len(buf)
                   THEN trigger'.size ELSE n
          IN  /\ last' = [by |-> trigger, data |-> Segment(trigger, buf, n)]
              /\ consumed' = consumed \o SubSeq(buf, 1, k)
              /\ buf' = pop_by(buf, k)
    /\ prev_pos' = 0
    /\ UNCHANGED <<mem, pc, conn, received>>

\* Faults: the position is not set back to 0; the trigger is run once only;
\* the bytes are not popped.
Fault_no_reset ==
    /\ pc \in {"data", "dirty"}
    /\ \E n \in Cuts(trigger, buf, prev_pos) :
          /\ last' = [by |-> trigger, data |-> Segment(trigger, buf, n)]
          /\ consumed' = consumed \o SubSeq(buf, 1, n)
          /\ buf' = pop_by(buf, n)
    /\ callback
    /\ UNCHANGED <<mem, prev_pos, pc, conn, received>>

Fault_no_loop ==
    /\ pc \in {"data", "dirty"}
    /\ \E n \in Cuts(trigger, buf, prev_pos) :
          /\ last' = [by |-> trigger, data |-> Segment(trigger, buf, n)]
          /\ consumed' = consumed \o SubSeq(buf, 1, n)
          /\ buf' = pop_by(buf, n)
    /\ callback
    /\ prev_pos' = 0 /\ pc' = "idle"
    /\ UNCHANGED <<mem, conn, received>>

Fault_no_pop ==
    /\ pc \in {"data", "dirty"}
    /\ \E n \in Cuts(trigger, buf, prev_pos) :
          last' = [by |-> trigger, data |-> Segment(trigger, buf, n)]
    /\ callback
    /\ prev_pos' = 0
    /\ UNCHANGED <<buf, mem, pc, conn, received, consumed>>

\* The trigger called the callback, which returned true: CanProcessAgain.
CanProcessAgain ==
    /\ pc \in {"data", "dirty"}
    /\ \E n \in Cuts(trigger, buf, prev_pos) :
          /\ last' = [by |-> trigger, data |-> Segment(trigger, buf, n)]
          /\ consumed' = consumed \o SubSeq(buf, 1, n)
          /\ buf' = pop_by(buf, n)
    /\ callback
    /\ prev_pos' = 0
    /\ UNCHANGED <<mem, pc, conn, received>>

\* What a callback may leave of a buffer whose first k bytes it was given: it
\* gets a pointer to them and may write there.
Overwritten(b, k) ==
    {w \in [DOMAIN b -> Bytes] : \A i \in DOMAIN b : i > k => w[i] = b[i]}

\* The callback returned false: ConnectionEnd. The buffer is kept for the
\* finish callback, with whatever the callback wrote into it. (When it returns
\* true, what it wrote is popped.)
ConnectionEnd ==
    /\ pc \in {"data", "dirty"}
    /\ \E n \in Cuts(trigger, buf, prev_pos) :
          /\ last' = [by |-> trigger, data |-> Segment(trigger, buf, n)]
          /\ buf' \in Overwritten(buf, Len(Segment(trigger, buf, n)))
    /\ callback
    /\ pc' = "end" /\ prev_pos' = 0
    /\ UNCHANGED <<mem, conn, received, consumed>>

\* Chunks the peer may still send.
Chunks == UNION {[1 .. n -> Bytes] : n \in 1 .. (MaxStream - Len(received))}

\* The connection is over, or the peer has nothing more to say.
Rest ==
    /\ pc \in {"end", "failed"} \/ (pc = "idle" /\ Len(received) = MaxStream)
    /\ UNCHANGED vars

Loop == NoMoreToProcess \/ CanProcessAgain \/ ConnectionEnd

Next ==
    \/ \E chunk \in Chunks : process_lvl4_data(chunk) \/ read_failed(chunk)
    \/ on_connect \/ reconnect \/ process_buffer \/ Loop \/ Rest

\* The loops run on, but may spin on a SizeDataTrigger of size 0, whose turns
\* change nothing; nothing is assumed of the peer nor of the callbacks.
Spec == Init /\ [][Next]_vars /\ WF_vars(Loop /\ trigger # ZeroTrigger)

---------------------------------------------------------------------------
\* Type invariant: the position to scan from is inside the buffer.
TypeOK ==
    /\ buf \in Seq(Bytes) /\ received \in Seq(Bytes) /\ consumed \in Seq(Bytes)
    /\ trigger \in DataTriggers /\ reprocess \in BOOLEAN
    /\ prev_pos \in 0 .. Len(buf)
    /\ pc \in {"idle", "data", "dirty", "end", "failed"}
    /\ connected \in BOOLEAN /\ conns \in 1 .. MaxConns
    /\ last \in [by : DataTriggers, data : Seq(Bytes)]
    /\ mem \in [alloc : Nat, bytes : Nat \cup {-1}]

\* The buffer as it was received: a callback that ended the connection may have
\* written over the bytes it was given, which are then still in front.
Unwritten == IF pc = "end" THEN last.data \o pop_by(buf, Len(last.data)) ELSE buf

\* No byte is lost, duplicated or reordered between the socket and the
\* buffer, over any number of grow_by and pop_by, and a connection never
\* starts with bytes of the one before it. When a read fails, what was
\* received is in front of what was not. The finish callback may find other
\* bytes only where the last data callback was given some, and those were
\* right when it was called.
Lossless ==
    /\ received = SubSeq(consumed \o Unwritten, 1, Len(received))
    /\ pc # "failed" => Len(received) = Len(consumed \o buf)

\* The buffer has the memory its bytes need, over growing, popping, freeing
\* and growing again, as long as it never held a quarter of the 32-bit range:
\* there size_buf wraps around.
Backed == Len(buf) <= mem.bytes \/ buf = <<>> \/ mem.alloc >= Word \div 4

\* What a callback is given does not depend on how the stream was cut into
\* chunks: up to the first delimiter, or exactly the size asked for. This is
\* what scanning only the new bytes (prev_pos) could break.
SegmentsExact ==
    /\ last.by.kind = "char" =>
          \A j \in DOMAIN last.data : last.data[j] # last.by.c
    /\ last.by.kind = "size" => Len(last.data) = last.by.size

\* Between two calls nothing deliverable is left in the buffer: a line that
\* arrived with the previous one, or under the previous trigger, does not wait
\* for more data.
Prompt == pc = "idle" => Cuts(trigger, buf, 0) \ {0} = {}

\* Running a freshly installed trigger on the buffer in the dirty pass never
\* calls a callback: the loop that installed it already did all there was to
\* do. So a connection that is about to time out is not ended there first.
\* (A SizeDataTrigger of size 0 always has something to do.)
DirtyIsNoOp ==
    [][pc = "dirty" /\ trigger # ZeroTrigger => NoMoreToProcess]_vars

\* Every call of process_lvl4_data or process_buffer returns, unless a
\* SizeDataTrigger of size 0 stays armed for ever: nothing else can keep the
\* loop going, whatever the callbacks install.
LoopEnds == []<>(pc \notin {"data", "dirty"}) \/ <>[](trigger = ZeroTrigger)
=============================================================================
