------------------------------ MODULE TargetFile ------------------------------
(***************************************************************************)
(* TargetAsyncFile and TargetStdin (src/src/target_file.cpp): a target set *)
(* that reads one address per line from a non-blocking descriptor while    *)
(* another process writes it.  next_target returns a target, says end, or  *)
(* throws NextTargetWouldBlock.  The descriptor is the standard input, as  *)
(* in TargetStdin: select() always looks at that one.                      *)
(*                                                                         *)
(* A byte is "g" (part of an address), "b" (anything else) or "n" (the     *)
(* newline): enough to tell a valid line from an invalid one and to cut    *)
(* lines anywhere between two reads.                                       *)
(***************************************************************************)
EXTENDS Integers, Sequences

CONSTANT MaxInput   \* bound: bytes of the input

ASSUME FileAssumption == MaxInput \in Nat

Byte == {"g", "b", "n"}
Unset == "u"
Inputs == UNION {[1 .. n -> Byte] : n \in 0 .. MaxInput}

VARIABLES
    input,      \* what the writer will write in all
    written,    \* bytes written so far
    closed,     \* the writer closed its end
    nread,      \* bytes read from the descriptor
    buf,        \* _buf
    result,     \* outcome of the last next_target
    returned,   \* history: the addresses returned
    failed      \* history: a system call failed: "no", "call" (select or
                \* FIONREAD), "read" (after the buffer had grown)

vars == <<input, written, closed, nread, buf, result, returned, failed>>

\* leeloo::ips_parser::ipv4toi, the validity of a line.
ValidLine(l) == l # <<>> /\ \A i \in DOMAIN l : l[i] = "g"

Newlines(b) == {i \in DOMAIN b : b[i] = "n"}

\* memchr: the first newline of b.
IsFirstNewline(n, b) == n \in Newlines(b) /\ \A i \in Newlines(b) : n <= i

\* Faults: a partial line is dropped; an invalid line is not popped.
Fault_partial_dropped(b) ==
    IF Newlines(b) = {} THEN [line |-> <<>>, rest |-> <<>>]
    ELSE LET n == CHOOSE i \in Newlines(b) : IsFirstNewline(i, b)
             l == SubSeq(b, 1, n - 1)
         IN [line |-> IF ValidLine(l) THEN l ELSE <<>>,
             rest |-> SubSeq(b, n + 1, Len(b))]

Fault_invalid_kept(b) ==
    IF Newlines(b) = {} THEN [line |-> <<>>, rest |-> b]
    ELSE LET n == CHOOSE i \in Newlines(b) : IsFirstNewline(i, b)
             l == SubSeq(b, 1, n - 1)
         IN IF ValidLine(l) THEN [line |-> l, rest |-> SubSeq(b, n + 1, Len(b))]
                            ELSE [line |-> <<>>, rest |-> b]

\* next_target_in_buf(b): the line found, <<>> for Target::end(), and what
\* stays in the buffer. An invalid line is popped and reported as the end.
next_target_in_buf(b) ==
    IF Newlines(b) = {} THEN [line |-> <<>>, rest |-> b]
    ELSE LET n == CHOOSE i \in Newlines(b) : IsFirstNewline(i, b)
             l == SubSeq(b, 1, n - 1)
         IN [line |-> IF ValidLine(l) THEN l ELSE <<>>,
             rest |-> SubSeq(b, n + 1, Len(b))]

---------------------------------------------------------------------------
Init ==
    /\ input \in Inputs /\ written = 0 /\ closed = FALSE
    /\ nread = 0 /\ buf = <<>> /\ result = "none" /\ returned = <<>>
    /\ failed = "no"

\* The writer.
Write ==
    /\ \E k \in 1 .. Len(input) - written : written' = written + k
    /\ UNCHANGED <<input, closed, nread, buf, result, returned, failed>>

Close ==
    /\ written = Len(input) /\ ~closed
    /\ closed' = TRUE
    /\ UNCHANGED <<input, written, nread, buf, result, returned, failed>>

\* A call of next_target leaves the writer alone.
Writer == UNCHANGED <<input, written, closed>>

\* The address is in the buffer already.
next_target_buffered ==
    LET r == next_target_in_buf(buf) IN
    /\ r.line # <<>>
    /\ buf' = r.rest /\ returned' = Append(returned, r.line)
    /\ result' = "target"
    /\ Writer /\ UNCHANGED <<nread, failed>>

\* The buffer once the first half of next_target found no address in it.
emptied == next_target_in_buf(buf).rest
no_address_buffered == next_target_in_buf(buf).line = <<>>

\* select says that there is nothing to read.
next_target_would_block ==
    /\ no_address_buffered
    /\ written = nread /\ ~closed
    /\ buf' = emptied /\ result' = "block"
    /\ Writer /\ UNCHANGED <<nread, returned, failed>>

\* End of file.
next_target_end ==
    /\ no_address_buffered
    /\ written = nread /\ closed
    /\ buf' = emptied /\ result' = "end"
    /\ Writer /\ UNCHANGED <<nread, returned, failed>>

\* select or FIONREAD failed.
next_target_error ==
    /\ no_address_buffered
    /\ buf' = emptied /\ result' = "end" /\ failed' = "call"
    /\ Writer /\ UNCHANGED <<nread, returned>>

\* Faults: the size of the file is taken for what is available; a partial line
\* after a read is taken for the end.
Fault_read_all ==
    /\ no_address_buffered
    /\ written > nread
    /\ nread' = Len(input)
    /\ buf' = emptied \o SubSeq(input, nread + 1, Len(input))
    /\ result' = "block"
    /\ Writer /\ UNCHANGED <<returned, failed>>

Fault_read_ends ==
    /\ no_address_buffered
    /\ written > nread
    /\ nread' = written
    /\ LET r == next_target_in_buf(emptied \o SubSeq(input, nread + 1, written))
       IN /\ buf' = r.rest
          /\ IF r.line # <<>>
             THEN returned' = Append(returned, r.line) /\ result' = "target"
             ELSE UNCHANGED returned /\ result' = "end"
    /\ Writer /\ UNCHANGED failed

\* read() of what is available, then another look at the buffer: no address in
\* it means that more has to be read.
next_target_read ==
    /\ no_address_buffered
    /\ written > nread
    /\ nread' = written
    /\ LET r == next_target_in_buf(emptied \o SubSeq(input, nread + 1, written))
       IN /\ buf' = r.rest
          /\ IF r.line # <<>>
             THEN returned' = Append(returned, r.line) /\ result' = "target"
             ELSE UNCHANGED returned /\ result' = "block"
    /\ Writer /\ UNCHANGED failed

\* read() failed: the buffer has grown by as many unset bytes.
next_target_read_error ==
    /\ no_address_buffered
    /\ written > nread
    /\ buf' = emptied \o [i \in 1 .. written - nread |-> Unset]
    /\ result' = "end" /\ failed' = "read"
    /\ Writer /\ UNCHANGED <<nread, returned>>

next_target ==
    \/ next_target_buffered \/ next_target_would_block \/ next_target_end
    \/ next_target_read

next_target_fails == next_target_error \/ next_target_read_error

\* The engine calls next_target again until it ends the scan. What comes after
\* unset bytes in the buffer is not followed.
Next ==
    \/ Write \/ Close
    \/ failed # "read" /\ (next_target \/ next_target_fails)
    \/ failed = "read" /\ UNCHANGED vars

\* The writer finishes. The engine calls next_target until it is told end:
\* would-block does not end the targets, and an end answer ends the scan unless
\* there was an event or a valid connection in that pass, which is not assumed.
Spec ==
    /\ Init /\ [][Next]_vars
    /\ WF_vars(Write \/ Close)
    /\ WF_vars(result # "end" /\ next_target)

---------------------------------------------------------------------------
\* Type invariant: no more is read than was written.
TypeOK ==
    /\ input \in Seq(Byte) /\ buf \in Seq(Byte \cup {Unset})
    /\ returned \in Seq(Seq(Byte))
    /\ written \in 0 .. Len(input) /\ nread \in 0 .. written
    /\ closed \in BOOLEAN /\ failed \in {"no", "call", "read"}
    /\ result \in {"none", "target", "end", "block"}

\* The line of a text that ends before position n.
LineBefore(text, n) ==
    LET from == {i \in Newlines(text) : i < n} \cup {0}
    IN SubSeq(text, (CHOOSE i \in from : \A j \in from : j <= i) + 1, n - 1)

\* Where the valid lines of the first m bytes of a text end.
ValidEnds(text, m) ==
    {n \in Newlines(text) : n <= m /\ ValidLine(LineBefore(text, n))}

\* The valid lines of the first m bytes of a text, in order: end says where
\* each of them ends.
AreValidLines(lines, text, m) ==
    \E end \in [DOMAIN lines -> ValidEnds(text, m)] :
        /\ \A n \in ValidEnds(text, m) : \E k \in DOMAIN lines : end[k] = n
        /\ \A j, k \in DOMAIN lines : j < k => end[j] < end[k]
        /\ \A k \in DOMAIN lines : lines[k] = LineBefore(text, end[k])

\* However the writes and reads cut the lines, the addresses returned are the
\* valid lines of the input consumed so far: none is lost, truncated, merged
\* with the next one or returned twice.
LinesExact == failed # "read" => AreValidLines(returned, input, nread - Len(buf))

\* When no line is invalid and no call fails, end is said only at the end of
\* the file and after every line: a line cut by a read, or left in the buffer
\* behind another one, is never taken for the end of the targets.
EndSound ==
    /\ result = "end" /\ failed = "no"
    /\ \A n \in Newlines(input) : ValidLine(LineBefore(input, n))
    => closed /\ AreValidLines(returned, input, Len(input))

\* End was said at a place where the last line taken is an invalid one.
EndBehindInvalid ==
    /\ result = "end"
    /\ \E n \in Newlines(input) :
          n = nread - Len(buf) /\ ~ValidLine(LineBefore(input, n))

\* An engine that stops at the first end answer is given every valid line of
\* the input, but for one case: at the end of the file next_target took an
\* invalid line from the buffer and said end without looking at those behind
\* it. A line cut by a read, an invalid line that came earlier or a writer
\* that pauses costs no target.
AllLinesReturned ==
    <>(\/ failed # "no" \/ EndBehindInvalid
       \/ AreValidLines(returned, input, Len(input)))
=============================================================================
