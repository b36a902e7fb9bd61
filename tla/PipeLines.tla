------------------------------ MODULE PipeLines ------------------------------
(***************************************************************************)
(* The lines the reader of the standard output pipe makes of what it       *)
(* reads: spawn_pipe_reader and drain_lines of                             *)
(* src/runtime/foundation/native_stdio.rs.  A text is a sequence of        *)
(* bytes; it arrives in chunks, one per read, whose ends have nothing to   *)
(* do with the ends of its lines, nor of its characters, one of which      *)
(* takes two bytes here.                                                   *)
(***************************************************************************)
EXTENDS Integers, Sequences, FiniteSets

CONSTANTS
  Limit,    \* the 64 KiB an unfinished line may reach
  MaxText   \* bound: how long a text is

(* What the code tells apart in a byte.  Lost is U+FFFD. *)
Letter == "x"
Blank  == " "
Return == "CR"
Feed   == "LF"
Null   == "NUL"
Lead   == "lead"
Trail  == "trail"
Lost   == "lost"
Bytes == {Letter, Blank, Return, Feed, Null, Lead, Trail, Lost}

ASSUME BytesAssumption == Limit \in Nat \ {0} /\ MaxText \in Nat

(* s without the elements of Off at its end, and at both ends *)
TrimmedEnd(s, Off) ==
  LET last == {i \in DOMAIN s : s[i] \notin Off}
  IN SubSeq(s, 1, IF last = {} THEN 0 ELSE CHOOSE i \in last : \A j \in last : j <= i)
Trimmed(s, Off) ==
  LET e     == TrimmedEnd(s, Off)
      first == {i \in DOMAIN e : e[i] \notin Off}
  IN SubSeq(e, CHOOSE i \in first \cup {Len(e) + 1} : \A j \in first : i <= j, Len(e))

Space == {Blank, Return, Feed}

(* String::from_utf8_lossy: of a character only whole ones stay.  A text cut  *)
(* in pieces loses one that goes across the end of a piece.                  *)
Whole(s, Cuts, i) == i \in 1 .. Len(s) - 1 /\ s[i] = Lead /\ s[i + 1] = Trail /\ i \notin Cuts
LossyAt(s, Cuts) ==
  [i \in DOMAIN s |->
     IF \/ s[i] = Lead /\ ~Whole(s, Cuts, i)
        \/ s[i] = Trail /\ ~Whole(s, Cuts, i - 1)
     THEN Lost ELSE s[i]]
Lossy(s) == LossyAt(s, {})

(* A finished line loses its carriage returns, then the NULs around it; an   *)
(* unfinished one the NULs, then what str's trim takes off.  A line of       *)
(* nothing but white space is not emitted.                                   *)
Line(s) == Trimmed(TrimmedEnd(Lossy(s), {Return}), {Null})
Part(s) == Trimmed(Trimmed(Lossy(s), {Null}), Space)
Finished(s)   == IF Trimmed(Line(s), Space) = <<>> THEN <<>> ELSE <<Line(s)>>
Unfinished(s) == IF Part(s) = <<>> THEN <<>> ELSE <<Part(s)>>

(* Mutant: the line feed itself is left for the next read. *)
DrainToFeed(pending) ==
  LET lines[i \in 0 .. Len(pending)] ==
        IF i = 0 THEN [from |-> 1, out |-> <<>>]
        ELSE IF pending[i] = Feed
             THEN [from |-> i, out |-> lines[i - 1].out
                                         \o Finished(SubSeq(pending, lines[i - 1].from, i - 1))]
             ELSE lines[i - 1]
  IN [lines |-> lines[Len(pending)].out,
      left  |-> SubSeq(pending, lines[Len(pending)].from, Len(pending))]

(* drain_lines: every line that ends in pending, and what is left of it *)
Drain(pending) ==
  LET from[i \in 0 .. Len(pending)] ==   \* where the line of byte i + 1 begins
        IF i = 0 THEN 1 ELSE IF pending[i] = Feed THEN i + 1 ELSE from[i - 1]
      lines[i \in 0 .. Len(pending)] ==
        IF i = 0 THEN <<>>
        ELSE IF pending[i] = Feed
             THEN lines[i - 1] \o Finished(SubSeq(pending, from[i - 1], i - 1))
             ELSE lines[i - 1]
  IN [lines |-> lines[Len(pending)],
      left  |-> SubSeq(pending, from[Len(pending)], Len(pending))]

(* spawn_pipe_reader: text in chunks that end at Ends, until the pipe closes *)
Emitted(text, Ends) ==
  LET reader[i \in 0 .. Len(text)] ==
        IF i = 0 THEN [lines |-> <<>>, left |-> <<>>]
        ELSE LET before == reader[i - 1]
                 read   == Drain(Append(before.left, text[i]))
             IN IF i \notin Ends
                THEN [before EXCEPT !.left = Append(@, text[i])]
                ELSE IF Len(read.left) > Limit
                     THEN [lines |-> before.lines \o read.lines \o Unfinished(read.left),
                           left |-> <<>>]
                     ELSE [read EXCEPT !.lines = before.lines \o @]
      last == reader[Len(text)]
  IN last.lines \o Unfinished(last.left)

-----------------------------------------------------------------------------
(* What was printed: the bytes between one line feed and the next.           *)
FeedsBefore(text, i) == Cardinality({j \in 1 .. i - 1 : text[j] = Feed})

LineNumber(text, k) ==
  LET bytes == {i \in DOMAIN text : FeedsBefore(text, i) = k /\ text[i] # Feed}
      start == CHOOSE i \in bytes : \A j \in bytes : i <= j
  IN IF bytes = {} THEN <<>> ELSE SubSeq(text, start, start + Cardinality(bytes) - 1)

Printed(text) ==
  LET feeds == FeedsBefore(text, Len(text) + 1)
      lines[k \in 0 .. feeds] ==
        IF k = 0 THEN <<>> ELSE lines[k - 1] \o Finished(LineNumber(text, k - 1))
  IN lines[feeds] \o Unfinished(LineNumber(text, feeds))

Shorter(text) == \A k \in 0 .. Len(text) : Len(LineNumber(text, k)) <= Limit

(* The line that byte i is of exceeds the limit there. *)
Exceeds(text, i) == i > Limit /\ \A j \in i - Limit .. i : text[j] # Feed

(* What is to be seen of a text: no white space and no NULs. *)
Visible == {Letter, Lead, Trail, Lost}
Letters(s) ==
  LET kept[i \in 0 .. Len(s)] ==
        IF i = 0 THEN <<>>
        ELSE IF s[i] \in Visible THEN Append(kept[i - 1], s[i]) ELSE kept[i - 1]
  IN kept[Len(s)]
Joined(lines) ==
  LET join[k \in 0 .. Len(lines)] == IF k = 0 THEN <<>> ELSE join[k - 1] \o lines[k]
  IN join[Len(lines)]

(* However the reads cut a text, the lines that come out are the lines that  *)
(* were printed, as long as none exceeds the limit.  One that does comes out *)
(* in pieces: every letter of it once and in order, but for a character of   *)
(* several bytes that goes across the end of a read at which the line        *)
(* exceeds the limit, which is lost.                                         *)
LinesAsPrinted ==
  \A n \in 0 .. MaxText :
  \A text \in [1 .. n -> Bytes \ {Lost}], cuts \in SUBSET (1 .. n - 1) :
    LET ends == cuts \cup {n}
        out  == Emitted(text, ends)
    IN /\ Shorter(text) => out = Printed(text)
       /\ \E broken \in SUBSET {i \in ends : Exceeds(text, i)} :
            Letters(Joined(out)) = Letters(LossyAt(text, broken))
=============================================================================
