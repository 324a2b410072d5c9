---- MODULE StreamLines ----
\* The readers that bound what another process or a pool can make them keep,
\* over a byte stream that arrives in pieces of any size and may end anywhere:
\* the window's reader of a child's output (gui.rs: read_bounded_child_line),
\* the pool session's reader of JSON lines (main.rs: read_json_line) and the
\* reader of the memory_pressure process (main.rs: read_bounded_command_stream).
\* The first cuts an overlong line and goes on with the next, the second gives
\* the session up, the third reads on but has no result.
\*
\* A byte is a newline, a carriage return, one that is no UTF-8 and so takes
\* `Replaced` bytes when decoded, or any other.
\*
\* Variants used to check that the properties bite: WholePiece, LastPieceOnly,
\* CutAccepted, ForgetExcess.
EXTENDS Naturals, Sequences, FiniteSets, SequencesExt

CONSTANTS
    Cap,        \* MAX_CHILD_LINE_BYTES, MAX_LINE_BYTES, MAX_MACOS_MEMORY_PRESSURE_BYTES
    Mark,       \* bytes of the mark of a cut line
    Replaced,   \* bytes of the character that stands for one that is no UTF-8
    MaxWritten  \* bound of the bytes a writer writes

ASSUME StreamLinesAssumption ==
    Cap \in Nat /\ Mark \in 0..(Cap - 1) /\ Replaced \in Nat \ {0} /\ MaxWritten \in Nat

VARIABLES
    reader,     \* which of the three reads
    written,    \* the bytes written so far
    read,       \* how many of them have been read
    open,       \* the writer's end is open
    captured,   \* the bytes kept of the line in progress
    sawBytes, truncated,
    lines,      \* what the reader has handed on
    readerState \* "reading", "ended" or "failed"

streamVars == <<reader, written, read, open, captured, sawBytes, truncated, lines, readerState>>

Newline == "n"
Return == "r"
Invalid == "w"
Bytes == {Newline, Return, Invalid, "x"}

StreamAt(r, state) ==
    /\ reader = r /\ written = <<>> /\ read = 0 /\ open = TRUE
    /\ captured = <<>> /\ sawBytes = FALSE /\ truncated = FALSE
    /\ lines = <<>> /\ readerState = state

StreamInit == \E r \in {"child", "pool", "command"} : StreamAt(r, "reading")

----
\* The writer, which may be killed after any byte.
WriteByte ==
    /\ open /\ Len(written) < MaxWritten
    /\ \E b \in Bytes : written' = Append(written, b)
    /\ UNCHANGED <<reader, read, open, captured, sawBytes, truncated, lines, readerState>>

WriterEnds ==
    /\ open /\ open' = FALSE
    /\ UNCHANGED <<reader, written, read, captured, sawBytes, truncated, lines, readerState>>

TheOne(S) == CHOOSE x \in S : TRUE

\* A read returns at least one byte of those that are waiting, and nothing
\* only at the end of the stream.
Waiting == SubSeq(written, read + 1, Len(written))
AtEnd == Waiting = <<>> /\ ~ open
Chunks(s) == {SubSeq(s, 1, n) : n \in 1..Len(s)}

HasNewline(s) == \E i \in 1..Len(s) : s[i] = Newline
FirstNewline(s) ==
    CHOOSE i \in 1..Len(s) : s[i] = Newline /\ \A j \in 1..(i - 1) : s[j] # Newline
UpToNewline(s) == IF HasNewline(s) THEN SubSeq(s, 1, FirstNewline(s) - 1) ELSE s

----
\* bounded_text, of a line that is too long: what fits beside the mark.
Decoded(s) == Len(s) + (Replaced - 1) * Cardinality({i \in 1..Len(s) : s[i] = Invalid})

Shortened(s) ==
    SubSeq(s, 1, CHOOSE n \in 0..Len(s) :
        /\ Decoded(SubSeq(s, 1, n)) <= Cap - Mark
        /\ n = Len(s) \/ Decoded(SubSeq(s, 1, n + 1)) > Cap - Mark)

BoundedText(s, cut) ==
    IF cut \/ Decoded(s) > Cap THEN [text |-> Shortened(s), cut |-> TRUE]
    ELSE [text |-> s, cut |-> FALSE]

\* A carriage return before the newline of a line that was kept whole is no
\* part of it.
Stripped(s, ended, cut) ==
    IF ended /\ ~ cut /\ s # <<>> /\ Last(s) = Return THEN Front(s) ELSE s

WholePiece(room, content) == Len(content)
Retained(room, content) == IF Len(content) < room THEN Len(content) ELSE room

LastPieceOnly(before, now) == now
CutBefore(before, now) == before \/ now

HandOn(kept, ended, cut) ==
    /\ lines' = Append(lines, BoundedText(Stripped(kept, ended, cut), cut))
    /\ captured' = <<>> /\ sawBytes' = FALSE /\ truncated' = FALSE

\* One turn of the loop of read_bounded_child_line.
ReadChild ==
    /\ reader = "child" /\ readerState = "reading"
    /\ \E available \in Chunks(Waiting) :
          LET content == UpToNewline(available)
              ended == content # available
              n == Retained(Cap - Len(captured), content)
              kept == captured \o SubSeq(content, 1, n)
              cut == CutBefore(truncated, n < Len(content))
          IN  /\ read' = read + Len(content) + (IF ended THEN 1 ELSE 0)
              /\ IF ended THEN HandOn(kept, TRUE, cut)
                 ELSE captured' = kept /\ truncated' = cut /\ sawBytes' = TRUE /\ UNCHANGED lines
    /\ UNCHANGED <<reader, written, open, readerState>>

\* The stream ends: what was left of a line is handed on too.
ChildEnds ==
    /\ reader = "child" /\ readerState = "reading" /\ AtEnd
    /\ IF sawBytes THEN HandOn(captured, FALSE, truncated) /\ UNCHANGED readerState
       ELSE readerState' = "ended" /\ UNCHANGED <<captured, sawBytes, truncated, lines>>
    /\ UNCHANGED <<reader, written, read, open>>

----
\* read_json_line: a line with its newline is no longer than the limit.
CutAccepted(s) == Len(s) <= Cap
Acceptable(s) == Len(s) <= Cap /\ s # <<>> /\ Last(s) = Newline

Judge(s) ==
    IF Acceptable(s)
    THEN /\ lines' = Append(lines, [text |-> UpToNewline(s), cut |-> FALSE])
         /\ captured' = <<>> /\ UNCHANGED readerState
    ELSE readerState' = "failed" /\ captured' = s /\ UNCHANGED lines

ReadPool ==
    /\ reader = "pool" /\ readerState = "reading"
    /\ \E available \in Chunks(Waiting) :
          LET content == UpToNewline(available)
              line == IF content = available THEN content ELSE Append(content, Newline)
              room == Cap + 1 - Len(captured)
              n == IF Len(line) < room THEN Len(line) ELSE room
              kept == captured \o SubSeq(line, 1, n)
          IN  /\ read' = read + n
              /\ IF Last(kept) = Newline \/ n = room THEN Judge(kept)
                 ELSE captured' = kept /\ UNCHANGED <<lines, readerState>>
    /\ UNCHANGED <<reader, written, open, sawBytes, truncated>>

PoolEnds ==
    /\ reader = "pool" /\ readerState = "reading" /\ AtEnd
    /\ IF captured # <<>> THEN Judge(captured)
       ELSE readerState' = "ended" /\ UNCHANGED <<captured, lines>>
    /\ UNCHANGED <<reader, written, read, open, sawBytes, truncated>>

----
\* read_bounded_command_stream
ReadCommand ==
    /\ reader = "command" /\ readerState = "reading"
    /\ \E content \in Chunks(Waiting) :
          LET n == Retained(Cap - Len(captured), content) IN
          /\ captured' = captured \o SubSeq(content, 1, n)
          /\ truncated' = CutBefore(truncated, n < Len(content))
          /\ read' = read + Len(content)
    /\ UNCHANGED <<reader, written, open, sawBytes, lines, readerState>>

ForgetExcess == FALSE
Oversized == truncated

CommandEnds ==
    /\ reader = "command" /\ readerState = "reading" /\ AtEnd
    /\ IF Oversized THEN readerState' = "failed" /\ UNCHANGED lines
       ELSE readerState' = "ended" /\ lines' = <<[text |-> captured, cut |-> FALSE]>>
    /\ UNCHANGED <<reader, written, read, open, captured, sawBytes, truncated>>

StreamNext ==
    WriteByte \/ WriterEnds \/ ReadChild \/ ChildEnds \/ ReadPool \/ PoolEnds \/ ReadCommand \/ CommandEnds

----
\* No stream makes its reader keep more than the limit, nor hand on more, with
\* the mark and every replaced character counted.
StreamTypeOK ==
    /\ reader \in {"child", "pool", "command"} /\ readerState \in {"reading", "ended", "failed"}
    /\ written \in Seq(Bytes) /\ read \in 0..Len(written)
    /\ Len(captured) <= IF reader = "pool" THEN Cap + 1 ELSE Cap
    /\ \A i \in 1..Len(lines) :
          Decoded(lines[i].text) + (IF lines[i].cut THEN Mark ELSE 0) <=
              IF reader = "child" THEN Cap ELSE Cap * Replaced

\* The complete lines among the first n bytes of s: line k ends at the k-th
\* newline and starts after the one before.
Ends(s, n) == {i \in 1..n : s[i] = Newline}
EndOf(s, n, k) == {i \in Ends(s, n) : Cardinality(Ends(s, i)) = k}
Starts(s, i) == {j \in 0..(i - 1) : (j = 0 \/ s[j] = Newline) /\ Ends(s, j) = Ends(s, i - 1)}
LineOf(s, i) == SubSeq(s, 1 + TheOne(Starts(s, i)), i - 1)
Complete(s, n) == [k \in 1..Cardinality(Ends(s, n)) |-> LineOf(s, TheOne(EndOf(s, n, k)))]

\* What a reader of whole lines would say of a line: itself, without the return
\* that ends it, unless it is longer than the limit; then a beginning of it.
Renders(m, line) ==
    LET plain == IF line # <<>> /\ Last(line) = Return THEN Front(line) ELSE line
    IN  IF Len(line) <= Cap /\ Decoded(plain) <= Cap THEN m = [text |-> plain, cut |-> FALSE]
        ELSE m.cut /\ IsPrefix(m.text, line)

\* However a child's output is split into reads, its lines are handed on one
\* by one and in order; an overlong one is cut and marked, and never takes a
\* part of the next with it; the unfinished line of a killed child is the last.
LinesWhole ==
    reader = "child" =>
        LET whole == Complete(written, read)
        IN  /\ Len(lines) \in Len(whole)..(Len(whole) + 1)
            /\ \A i \in 1..Len(whole) : Renders(lines[i], whole[i])
            /\ Len(lines) > Len(whole) => AtEnd /\ written[Len(written)] # Newline
            /\ readerState = "ended" =>
                  (Len(lines) = Len(whole)) = (written = <<>> \/ Last(written) = Newline)

\* A pool's messages are its complete lines of permitted length; the session
\* fails at the first that is none, and never acts on a part of a line.
RepliesWhole ==
    reader = "pool" =>
        LET whole == Complete(written, Len(written)) IN
        /\ Len(lines) <= Len(whole)
        /\ \A i \in 1..Len(lines) :
              lines[i] = [text |-> whole[i], cut |-> FALSE] /\ Len(whole[i]) < Cap
        /\ readerState = "failed" =>
              IF Len(lines) < Len(whole) THEN Len(whole[Len(lines) + 1]) >= Cap
              ELSE Last(written) # Newline

\* The memory reader answers with all of the output or not at all, and leaves
\* nothing unread that would keep the process from ending.
OutputWhole ==
    reader = "command" =>
        /\ readerState = "ended" => lines[1].text = written
        /\ readerState = "failed" => Len(written) > Cap
        /\ readerState # "reading" => read = Len(written)

\* Each reader hands on whole lines or says that it could not.
StreamsWhole == StreamTypeOK /\ LinesWhole /\ RepliesWhole /\ OutputWhole

====
