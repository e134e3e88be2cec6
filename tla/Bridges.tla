------------------------------ MODULE Bridges -------------------------------
(***************************************************************************)
(* What the threads of a streaming group make of the bytes they read:      *)
(* filter(), peek(), meter() and the tail of a stderr, from execute.py,    *)
(* and the lines of that stderr on the live display, from live.py.         *)
(* A pipe hands out its bytes in chunks that are cut anywhere and takes    *)
(* them in parts of any size; the reader behind the bridge may go away,    *)
(* and the bridge may give up while it waits.  Errors in the callbacks and *)
(* what such an end means for the group are in StreamGroup.                *)
(***************************************************************************)
EXTENDS Naturals, SequencesExt

CONSTANTS
    Bytes, Newline,   \* the bytes that occur in a stream
    Unwanted,         \* filter() keeps the lines without this byte
    Return,           \* the carriage return
    MaxInput,         \* the longest stream
    Chunk,            \* CHUNK
    Limit,            \* STDERR_LIMIT
    LineLimit         \* _LINE_LIMIT

ASSUME BridgesAssumption ==
    /\ {Newline, Unwanted, Return} \subseteq Bytes /\ Newline \notin {Unwanted, Return}
    /\ MaxInput \in Nat /\ Chunk \in Nat \ {0} /\ Limit \in Nat /\ LineLimit \in Nat \ {0}

\* meter(interval=0) reports every line, else it counts what it reads.
Kinds == {"filter", "peek", "per_line", "per_chunk", "tail"}

\* The bytes that make a difference.
Alphabet(k) == Bytes \ (IF k = "tail" THEN {Unwanted} ELSE {Return})

VARIABLES
    kind,
    stream,      \* what the upstream writes
    pos,         \* the number of its bytes that were read
    pc,          \* read, send, over
    ended,       \* how the reading ended: no, eof, gave up
    cut,         \* the reader is gone, or the bridge gave up writing
    pending,     \* _blocks(): the beginning of a line, without its end
    view,        \* what is left to send
    out,         \* what was sent
    seen,        \* peek(): the lines its callback was given
    bytes, lines, ends_with_newline,    \* meter()
    data, dropped,                      \* _Tail
    partial, shown                      \* _Assembler, and the lines it has given

ioVars   == <<pos, pc, ended, cut, pending, view, out>>
statVars == <<seen, bytes, lines, ends_with_newline>>
tailVars == <<data, dropped, partial, shown>>
vars == <<kind, stream, ioVars, statVars, tailVars>>

Init ==
    /\ kind \in Kinds
    /\ stream \in UNION {[1 .. n -> Alphabet(kind)] : n \in 0 .. MaxInput}
    /\ pos = 0 /\ pc = "read" /\ ended = "no" /\ cut = FALSE
    /\ pending = <<>> /\ view = <<>> /\ out = <<>>
    /\ seen = <<>> /\ bytes = 0 /\ lines = 0 /\ ends_with_newline = TRUE
    /\ data = <<>> /\ dropped = 0 /\ partial = <<>> /\ shown = <<>>

-----------------------------------------------------------------------------
(* Lines *)

\* split(): what comes after the last separator is the last piece, also if it is empty.
AddByte(pieces, b, separator) ==
    IF b = separator THEN Append(pieces, <<>>)
    ELSE [pieces EXCEPT ![Len(pieces)] = Append(@, b)]

SplitAt(d, separator) ==
    LET upTo[n \in 0 .. Len(d)] ==
          IF n = 0 THEN << <<>> >> ELSE AddByte(upTo[n - 1], d[n], separator)
    IN upTo[Len(d)]

Split(d) == SplitAt(d, Newline)

\* b"\n".join()
Join(pieces) ==
    FlattenSeq([i \in DOMAIN pieces |-> IF i = 1 THEN pieces[i] ELSE <<Newline>> \o pieces[i]])

Newlines(d) == Cardinality({i \in DOMAIN d : d[i] = Newline})

\* The lines of a block, each with its terminator, but not an empty last piece.
LinesOf(d) ==
    LET pieces == Split(d)
    IN [i \in 1 .. Len(pieces) - 1 |-> Append(pieces[i], Newline)]
         \o (IF Last(pieces) = <<>> THEN <<>> ELSE <<Last(pieces)>>)

Keep(line) == Unwanted \notin Range(line)

Kept(raw) == FlattenSeq([i \in DOMAIN raw |-> IF Keep(raw[i]) THEN <<raw[i]>> ELSE <<>>])

-----------------------------------------------------------------------------
(* What is made of a block of lines *)

FilteredClosed(d) ==
    LET kept == Kept(LinesOf(d))
    IN FlattenSeq([i \in DOMAIN kept |->
                     IF Last(kept[i]) = Newline THEN kept[i] ELSE Append(kept[i], Newline)])

\* The kept lines; a newline follows the last one, unless it is the unfinished last line.
Filtered(d) ==
    LET pieces   == Split(d)
        complete == Last(pieces) = <<>>
        raw      == IF complete THEN Front(pieces) ELSE pieces
        kept     == Kept(raw)
    IN IF kept = <<>> THEN <<>>
       ELSE Join(kept) \o (IF complete \/ ~Keep(Last(raw)) THEN <<Newline>> ELSE <<>>)

\* A block goes through filter(), peek() or meter(interval=0), whose loop then sends it on.
Block(d) ==
    /\ view' = IF kind = "filter" THEN Filtered(d) ELSE d
    /\ seen' = IF kind = "peek" THEN seen \o LinesOf(d) ELSE seen
    /\ bytes' = IF kind = "per_line" THEN bytes + Len(d) ELSE bytes
    /\ lines' = IF kind = "per_line" THEN lines + Len(LinesOf(d)) ELSE lines
    /\ pc' = "send"
    /\ UNCHANGED ends_with_newline

-----------------------------------------------------------------------------
(* Reading *)

Chunks == {SubSeq(stream, pos + 1, pos + n) : n \in {m \in 1 .. Chunk : pos + m <= Len(stream)}}

\* _blocks(): up to the last newline of the chunk the lines are complete.
ReadLines ==
    /\ kind \in {"filter", "peek", "per_line"} /\ pc = "read" /\ ended = "no"
    /\ \E chunk \in Chunks :
         LET cut_at == Max({0} \cup {i \in DOMAIN chunk : chunk[i] = Newline})
         IN /\ pos' = pos + Len(chunk)
            /\ IF cut_at = 0 THEN pending' = pending \o chunk /\ UNCHANGED <<view, pc, statVars>>
               ELSE /\ Block(pending \o SubSeq(chunk, 1, cut_at))
                    /\ pending' = SubSeq(chunk, cut_at + 1, Len(chunk))
    /\ UNCHANGED <<kind, stream, ended, cut, out, tailVars>>

ReadChunk ==
    /\ kind = "per_chunk" /\ pc = "read" /\ ended = "no"
    /\ \E chunk \in Chunks :
         /\ pos' = pos + Len(chunk)
         /\ bytes' = bytes + Len(chunk)
         /\ lines' = lines + Newlines(chunk)
         /\ ends_with_newline' = (Last(chunk) = Newline)
         /\ view' = chunk /\ pc' = "send"
    /\ UNCHANGED <<kind, stream, ended, cut, pending, out, seen, tailVars>>

KeepTail(d) ==
    /\ data' = IF Len(d) > Limit THEN SubSeq(d, Len(d) - Limit + 1, Len(d)) ELSE d
    /\ dropped' = IF Len(d) > Limit THEN dropped + (Len(d) - Limit) ELSE dropped

\* _display(): what comes after the last carriage return, or before it if that is nothing.
Display(line) ==
    LET parts  == SplitAt(line, Return)
        latest == Max({0} \cup {i \in DOMAIN parts : parts[i] # <<>>})
    IN IF latest = 0 THEN <<>> ELSE SubSeq(parts[latest], 1, Min({LineLimit, Len(parts[latest])}))

LatestOne(line) ==
    LET latest == Last(SplitAt(line, Return))
    IN SubSeq(latest, Max({1, Len(latest) - LineLimit + 1}), Len(latest))

\* Of an unfinished line the last two parts are enough: the last one may still be empty.
Latest(line) ==
    LET parts  == SplitAt(line, Return)
        n      == Len(parts)
        latest == IF n <= 2 THEN line ELSE parts[n - 1] \o <<Return>> \o parts[n]
    IN SubSeq(latest, Max({1, Len(latest) - LineLimit + 1}), Len(latest))

\* _Assembler.feed(): the complete lines are shown, the partial one waits.
Forward(chunk) ==
    LET pieces == Split(partial \o chunk)
    IN /\ shown' = shown \o [i \in 1 .. Len(pieces) - 1 |-> Display(pieces[i])]
       /\ partial' = Latest(Last(pieces))

DrainWhole ==    \* the old bytes go before the new ones come
    /\ kind = "tail" /\ pc = "read" /\ ended = "no"
    /\ \E chunk \in Chunks :
         /\ pos' = pos + Len(chunk)
         /\ Forward(chunk)
         /\ IF Len(data) + Len(chunk) > Limit
            THEN data' = chunk /\ dropped' = dropped + Len(data)
            ELSE data' = data \o chunk /\ UNCHANGED dropped
    /\ UNCHANGED <<kind, stream, pc, ended, cut, pending, view, out, statVars>>

Drain ==
    /\ kind = "tail" /\ pc = "read" /\ ended = "no"
    /\ \E chunk \in Chunks :
         pos' = pos + Len(chunk) /\ Forward(chunk) /\ KeepTail(data \o chunk)
    /\ UNCHANGED <<kind, stream, pc, ended, cut, pending, view, out, statVars>>

\* The pipe is at its end, or _read() gives up waiting: an unfinished line goes on.
Ends ==
    /\ pc = "read" /\ ended = "no"
    /\ ended' \in (IF pos = Len(stream) THEN {"eof"} ELSE {}) \cup {"gave up"}
    /\ IF pending # <<>> THEN Block(pending) /\ pending' = <<>>
       ELSE UNCHANGED <<pc, view, pending, statVars>>
    /\ UNCHANGED <<kind, stream, pos, cut, out, tailVars>>

LeaveUncounted ==
    /\ pc = "read" /\ ended # "no"
    /\ pc' = "over"
    /\ UNCHANGED <<kind, stream, pos, ended, cut, pending, view, out, statVars, tailVars>>

\* _Assembler.flush()
Flush ==
    /\ shown' = IF Display(partial) = <<>> THEN shown ELSE Append(shown, Display(partial))
    /\ partial' = <<>>

\* A final line without newline is counted only now by per_chunk(), and shown.
Leave ==
    /\ pc = "read" /\ ended # "no"
    /\ lines' = IF ends_with_newline THEN lines ELSE lines + 1
    /\ Flush
    /\ pc' = "over"
    /\ UNCHANGED <<kind, stream, pos, ended, cut, pending, view, out, seen, bytes,
                   ends_with_newline, data, dropped>>

-----------------------------------------------------------------------------
(* Writing: _send() *)

Write ==
    /\ pc = "send" /\ view # <<>>
    /\ \E n \in 1 .. Len(view) :
         /\ out' = out \o SubSeq(view, 1, n)
         /\ view' = SubSeq(view, n + 1, Len(view))
    /\ UNCHANGED <<kind, stream, pos, pc, ended, cut, pending, statVars, tailVars>>

Sent ==
    /\ pc = "send" /\ view = <<>>
    /\ pc' = "read"
    /\ UNCHANGED <<kind, stream, pos, ended, cut, pending, view, out, statVars, tailVars>>

ReaderGone ==    \* BrokenPipeError, or it gives up
    /\ pc = "send" /\ view # <<>>
    /\ pc' = "over" /\ cut' = TRUE
    /\ UNCHANGED <<kind, stream, pos, ended, pending, view, out, statVars, tailVars>>

Next ==
    \/ ReadLines \/ ReadChunk \/ Drain \/ Ends \/ Leave
    \/ Write \/ Sent \/ ReaderGone
    \/ pc = "over" /\ UNCHANGED vars

Spec == Init /\ [][Next]_vars

-----------------------------------------------------------------------------
(* Properties *)

Read    == SubSeq(stream, 1, pos)
Handled == SubSeq(stream, 1, pos - Len(pending))

\* The i-th and the j-th byte of s are in the same line.
SameLine(s, i, j) == \A k \in DOMAIN s : (i <= k /\ k < j) \/ (j <= k /\ k < i) => s[k] # Newline

\* What a bridge is to pass on: "Observe each line without changing the data" and "kept
\* lines pass through as bytes": those of the lines without an unwanted byte.
Passed(s) ==
    IF kind # "filter" THEN s
    ELSE FlattenSeq([i \in DOMAIN s |->
           IF \E j \in DOMAIN s : SameLine(s, i, j) /\ s[j] = Unwanted THEN <<>> ELSE <<s[i]>>])

\* However the stream is cut, the bytes that leave a bridge are those of the lines that it
\* is to pass on, once and in order; no complete line is held back while it waits for more,
\* and an unfinished one only as long as it may go on.
PassesOn ==
    kind # "tail" =>
      /\ out \o view = Passed(Handled)
      /\ Newline \notin Range(pending)
      /\ pc = "over" /\ ~cut => out = Passed(Read)

\* The reference for counting: lines end with a newline, the last one perhaps without.
NumberOfLines(s) == Newlines(s) + (IF s # <<>> /\ Last(s) # Newline THEN 1 ELSE 0)

\* "Observe each line (with its terminator)", "Count bytes and lines flowing through": peek()
\* has seen each line whole and once, and meter() counts the same lines and bytes either way,
\* when its reader did not leave it.
CountsLines ==
    /\ kind = "peek" =>
         /\ FlattenSeq(seen) = Handled
         /\ Len(seen) = NumberOfLines(Handled)
         /\ \A i \in DOMAIN seen : seen[i] # <<>> /\ Newline \notin Range(Front(seen[i]))
    /\ kind = "per_line" => bytes = Len(Handled) /\ lines = NumberOfLines(Handled)
    /\ kind = "per_chunk" =>
         /\ bytes = pos /\ lines \in {Newlines(Read), NumberOfLines(Read)}
         /\ pc = "over" /\ ~cut => lines = NumberOfLines(Read)

\* "The last STDERR_LIMIT bytes read from a stream, and how many were dropped": also when a
\* chunk is longer than that.
TailExact ==
    kind = "tail" =>
      /\ dropped = (IF pos > Limit THEN pos - Limit ELSE 0)
      /\ data = SubSeq(stream, dropped + 1, pos)

\* The lines are short enough, and no carriage return follows another.
Simple(s) ==
    /\ \A i \in DOMAIN s : s[i] = Return /\ i < Len(s) => s[i + 1] # Return
    /\ \A i \in 1 .. Len(s) - LineLimit : \E k \in i .. i + LineLimit : s[k] = Newline

\* "Bytes -> lines": the display shows of every line "the last carriage-return rewrite",
\* however the bytes were cut, and of an unfinished line what it shows of the whole.
ShownAsWhole ==
    kind = "tail" /\ Simple(Read) =>
      LET whole == [i \in DOMAIN Split(Read) |-> Display(Split(Read)[i])]
          last  == Last(whole)
      IN IF pc = "over" THEN shown = Front(whole) \o (IF last = <<>> THEN <<>> ELSE <<last>>)
         ELSE shown = Front(whole) /\ Display(partial) = last
=============================================================================
