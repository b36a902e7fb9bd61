------------------------- MODULE LaunchInfo_proofs -------------------------
(***************************************************************************)
(* With all of its hooks, LaunchInfo implements PlainFile: for any files,  *)
(* texts, handles and threads, whatever is asked and in whatever order.    *)
(***************************************************************************)
EXTENDS LaunchInfo, SequenceTheorems, TLAPS

(* install_hooks has hooked everything it set out to. *)
AllHooked == \A op \in Ops : Exports(op) \subseteq Hookable

Languages == {f \in Files : IsTargetLanguagePath(FinalPath(f))}
Readable == Languages \ Unreadable

-----------------------------------------------------------------------------
(* The text.                                                               *)

LEMMA PartIsSequence ==
    ASSUME NEW lines \in Seq(Line), NEW from \in Nat, NEW count \in Int
    PROVE  Part(lines, from, count) \in Seq(Line) /\ Len(Part(lines, from, count)) \in Nat
<1> DEFINE to == IF from + count < Len(lines) THEN from + count ELSE Len(lines)
<1>1. Len(lines) \in Nat /\ to \in Int /\ to <= Len(lines)
  BY LenProperties
<1>2. \A i \in (from + 1) .. to : lines[i] \in Line
  BY <1>1, ElementOfSeq
<1>3. SubSeq(lines, from + 1, to) \in Seq(Line)
  BY <1>1, <1>2, SubSeqProperties
<1> QED
  BY <1>3, LenProperties DEF Part

LEMMA SameLine ==
    ASSUME NEW line \in Line, NEW other \in Line,
           other.bom = line.bom, other.key = line.key
    PROVE  [other EXCEPT !.value = line.value, !.end = line.end] = line
  BY DEF Line

\* What rewriting makes of a text: every line is there, and one for the
\* copyright; only the copyright lines' values change, and the ends of the last
\* line when one is added after it.
LEMMA RewrittenLines ==
    ASSUME NEW lines \in Seq(Line)
    PROVE  LET found == \E i \in 1..Len(lines) : IsCopyright(lines, i)
               shown == Rewritten(lines)
           IN /\ shown \in Seq(Line)
              /\ Len(shown) = IF found THEN Len(lines) ELSE Len(lines) + 1
              /\ \A i \in 1..Len(lines) :
                   /\ shown[i] \in Line
                   /\ shown[i].bom = lines[i].bom /\ shown[i].key = lines[i].key
                   /\ shown[i].value = IF IsCopyright(lines, i) THEN Launch ELSE lines[i].value
                   /\ found \/ lines[i].end # "none" => shown[i].end = lines[i].end
                   /\ ~found => shown[i].end # "none"
              /\ ~found => /\ shown[Len(lines) + 1].key = "copyright"
                           /\ shown[Len(lines) + 1].value = Launch
                           /\ ~shown[Len(lines) + 1].bom
                           /\ shown[Len(lines) + 1].end # "none"
<1> DEFINE found == \E i \in 1..Len(lines) : IsCopyright(lines, i)
           newline == IF \E i \in 1..Len(lines) : lines[i].end = "crlf" THEN "crlf" ELSE "lf"
           Ended(end) == IF ~found /\ end = "none" THEN newline ELSE end
           Value(i) == IF IsCopyright(lines, i) THEN Launch ELSE lines[i].value
           line(i) == [lines[i] EXCEPT !.value = Value(i), !.end = Ended(lines[i].end)]
           copied == [i \in 1..Len(lines) |-> line(i)]
           added == [bom |-> FALSE, key |-> "copyright", value |-> Launch, end |-> newline]
<1>1. Len(lines) \in Nat /\ \A i \in 1..Len(lines) : lines[i] \in Line
  BY LenProperties, ElementOfSeq
<1>2. newline \in {"lf", "crlf"} /\ added \in Line
  BY LanguageTextAssumption DEF Line, Ends
<1>3. ASSUME NEW i \in 1..Len(lines)
      PROVE  /\ line(i) \in Line /\ line(i).bom = lines[i].bom /\ line(i).key = lines[i].key
             /\ line(i).value = Value(i) /\ line(i).end = Ended(lines[i].end)
  <2>1. lines[i] \in Line /\ lines[i].value \in Values /\ lines[i].end \in Ends
    BY <1>1 DEF Line
  <2>2. Value(i) \in Values /\ Ended(lines[i].end) \in Ends
    BY <2>1, <1>2, LanguageTextAssumption DEF Ends
  <2> DEFINE old == lines[i]
             value == Value(i)
             end == Ended(lines[i].end)
  <2>3. old \in Line /\ value \in Values /\ end \in Ends
    BY <2>1, <2>2
  <2> HIDE DEF old, value, end
  <2>4. /\ [old EXCEPT !.value = value, !.end = end] \in Line
        /\ [old EXCEPT !.value = value, !.end = end].bom = old.bom
        /\ [old EXCEPT !.value = value, !.end = end].key = old.key
        /\ [old EXCEPT !.value = value, !.end = end].value = value
        /\ [old EXCEPT !.value = value, !.end = end].end = end
    BY <2>3 DEF Line
  <2> QED
    BY <2>4 DEF old, value, end
<1> HIDE DEF line
<1>4. copied \in Seq(Line) /\ Len(copied) = Len(lines)
      /\ \A i \in 1..Len(lines) : copied[i] = line(i)
  <2>1. copied \in [1..Len(lines) -> Line]
    BY <1>3
  <2> QED
    BY <2>1, <1>1, SeqDef, LenProperties
<1>5. Rewritten(lines) = IF found THEN copied ELSE Append(copied, added)
  BY DEF Rewritten, line
<1> HIDE DEF copied, added, newline
<1>6. CASE found
  <2>1. Rewritten(lines) = copied
    BY <1>5, <1>6
  <2> QED
    BY <2>1, <1>3, <1>4, <1>6
<1>7. CASE ~found
  <2>1. Rewritten(lines) = Append(copied, added)
    BY <1>5, <1>7
  <2>2. /\ Append(copied, added) \in Seq(Line)
        /\ Len(Append(copied, added)) = Len(lines) + 1
        /\ \A i \in 1..Len(lines) : Append(copied, added)[i] = line(i)
        /\ Append(copied, added)[Len(lines) + 1] = added
    BY <1>2, <1>4, AppendProperties
  <2>3. /\ added.key = "copyright" /\ added.value = Launch /\ ~added.bom
        /\ added.end = newline /\ newline # "none"
    BY <1>2 DEF added
  <2>4. ASSUME NEW i \in 1..Len(lines)
        PROVE  LET shown == Rewritten(lines)
               IN /\ shown[i] \in Line
                  /\ shown[i].bom = lines[i].bom /\ shown[i].key = lines[i].key
                  /\ shown[i].value = IF IsCopyright(lines, i) THEN Launch ELSE lines[i].value
                  /\ lines[i].end # "none" => shown[i].end = lines[i].end
                  /\ shown[i].end # "none"
    BY <2>1, <2>2, <2>3, <1>3, <1>7
  <2>5. /\ Rewritten(lines) \in Seq(Line) /\ Len(Rewritten(lines)) = Len(lines) + 1
        /\ Rewritten(lines)[Len(lines) + 1] = added
    BY <2>1, <2>2
  <2> QED
    BY <2>3, <2>4, <2>5, <1>7
<1> QED
  BY <1>6, <1>7

LEMMA RewrittenText ==
    ASSUME NEW f \in Files PROVE Rewritten(Text[f]) \in Seq(Line)
<1>1. Text[f] \in Seq(Line)
  BY LanguageTextAssumption
<1> QED
  BY <1>1, RewrittenLines

\* The rewritten text is the launch text's, as PlainFile asks for it.
LEMMA RewrittenLaunched ==
    ASSUME NEW f \in Files
    PROVE  Launched(Text[f], Rewritten(Text[f]))
<1> DEFINE lines == Text[f]
           shown == Rewritten(lines)
           was == {i \in 1..Len(lines) : IsCopyright(lines, i)}
           found == \E i \in 1..Len(lines) : IsCopyright(lines, i)
<1>1. /\ lines \in Seq(Line) /\ Len(lines) \in Nat
      /\ \A i \in 1..Len(lines) : lines[i] \in Line
      /\ \A i \in 1..(Len(lines) - 1) : lines[i].end # "none"
  BY LanguageTextAssumption, LenProperties, ElementOfSeq
<1> HIDE DEF lines
<1>2. /\ Len(shown) = IF found THEN Len(lines) ELSE Len(lines) + 1
      /\ \A i \in 1..Len(lines) :
           /\ shown[i] \in Line
           /\ shown[i].bom = lines[i].bom /\ shown[i].key = lines[i].key
           /\ shown[i].value = IF IsCopyright(lines, i) THEN Launch ELSE lines[i].value
           /\ found \/ lines[i].end # "none" => shown[i].end = lines[i].end
           /\ ~found => shown[i].end # "none"
      /\ ~found => /\ shown[Len(lines) + 1].key = "copyright"
                   /\ shown[Len(lines) + 1].value = Launch
                   /\ ~shown[Len(lines) + 1].bom
                   /\ shown[Len(lines) + 1].end # "none"
  BY <1>1, RewrittenLines
<1>3. found <=> was # {}
  OBVIOUS
<1> HIDE DEF shown, found
<1>4. \A i \in 1..Len(lines) :
        /\ [shown[i] EXCEPT !.value = lines[i].value, !.end = lines[i].end] = lines[i]
        /\ shown[i].value = IF i \in was THEN Launch ELSE lines[i].value
        /\ shown[i].end # lines[i].end =>
             lines[i].end = "none" /\ was = {} /\ i = Len(lines)
  <2> TAKE i \in 1..Len(lines)
  <2>1. [shown[i] EXCEPT !.value = lines[i].value, !.end = lines[i].end] = lines[i]
    BY <1>1, <1>2, SameLine
  <2>2. shown[i].value = IF i \in was THEN Launch ELSE lines[i].value
    BY <1>2
  <2>3. lines[i].end = "none" => i = Len(lines)
    BY <1>1
  <2> QED
    BY <2>1, <2>2, <2>3, <1>2, <1>3
<1>5. \A i \in 1..(Len(shown) - 1) : shown[i].end # "none"
  BY <1>1, <1>2
<1>6. was = {} => IsCopyright(shown, Len(lines) + 1)
  BY <1>2, <1>3 DEF IsCopyright
<1> QED
  BY <1>1, <1>2, <1>3, <1>4, <1>5, <1>6 DEF Launched, lines, shown

-----------------------------------------------------------------------------
(* The invariant.  What a thread has found out about its handle still      *)
(* holds when it goes on, for the others on the handle, if there are any,  *)
(* leave its cursor and its file alone (Alone) and turn nothing into       *)
(* something else that is in the table (Entry).                            *)

Pcs == {"idle", "lookup", "classify", "load", "cursor", "enter", "serve", "advance",
        "sync", "original", "remove", "close", "done"}
Answers == [done : BOOLEAN, number : Int, lines : Seq(Line)]
CallRec == [pc : Pcs, req : Requests \cup {NoRequest}, lines : Seq(Line), position : Nat,
            part : Seq(Line), answer : Answers]
Entries == [kind : {"unknown", "passthrough", "virtual"}, lines : Seq(Line), cursor : Nat]

LaunchTypeOK ==
    /\ file \in [Handles -> Files \cup {NoFile}] /\ kernel \in [Handles -> Nat]
    /\ handles \in [Handles -> Entries] /\ cached \subseteq Files
    /\ call \in [Threads -> CallRec]

Handle(t) == call[t].req.handle

InCall(t) ==
    /\ call[t].pc = "idle" <=> call[t].req = NoRequest
    /\ call[t].answer.done <=> call[t].pc \in {"sync", "close", "done"}
    /\ call[t].answer.done \/ call[t].answer = Pending
    /\ call[t].pc \notin {"idle", "done"} => file[Handle(t)] # NoFile

Hooked == {"lookup", "classify", "load", "cursor", "enter", "serve", "advance", "sync", "original"}

AtStep(t) ==
    LET me == call[t]
        req == me.req
        f == file[req.handle]
        entry == handles[req.handle]
    IN /\ me.pc \in {"remove", "close"} => req.op = "close"
       /\ me.pc = "close" => entry = Unknown /\ me.answer = Answered(0, <<>>)
       /\ me.pc \in Hooked => req.op # "close"
       /\ me.pc = "load" => f \in Languages
       /\ me.pc \in {"cursor", "enter"} => f \in Readable /\ me.lines = Rewritten(Text[f])
       /\ me.pc = "enter" => me.position = kernel[req.handle]
       /\ me.pc \in {"serve", "advance", "sync"} =>
            entry.kind = "virtual" /\ me.lines = entry.lines
       /\ me.pc \in {"advance", "sync"} => req.op \in {"read", "seek"}
       /\ me.pc = "advance" /\ req.op = "read" =>
            /\ me.part = Part(me.lines, entry.cursor, req.count)
            /\ me.position = entry.cursor + Len(me.part)
       /\ me.pc = "advance" /\ req.op = "seek" =>
            me.position = SeekBase(req, me.lines, entry.cursor) + req.count
       /\ me.pc = "sync" => me.position = entry.cursor
       /\ me.pc = "original" =>
            /\ entry.kind # "unknown"
            /\ entry.kind = "virtual" =>
                 \/ req.op = "map"
                 \/ req.op = "seek" /\ SeekBase(req, entry.lines, entry.cursor) + req.count < 0

Alone ==
    \A t, u \in Threads :
        /\ t # u /\ call[t].req # NoRequest /\ call[u].req # NoRequest
        /\ Handle(t) = Handle(u)
        => call[t].req.op \in Positionless /\ call[u].req.op \in Positionless

EntrySound(h) ==
    /\ file[h] = NoFile => handles[h] = Unknown
    /\ handles[h].kind = "virtual" =>
         file[h] \in Readable /\ handles[h].lines = Rewritten(Text[file[h]])
    /\ handles[h].kind = "passthrough" => file[h] \notin Readable /\ handles[h] = Passthrough
Lagging(h) == handles[h].kind = "virtual" /\ kernel[h] # handles[h].cursor
LaggingWhile(h) ==
    Lagging(h) => \E t \in Threads : call[t].req # NoRequest /\ Handle(t) = h /\ call[t].pc = "sync"

LaunchInv ==
    /\ LaunchTypeOK /\ Alone
    /\ \A t \in Threads : InCall(t) /\ AtStep(t)
    /\ \A h \in Handles : EntrySound(h) /\ LaggingWhile(h)
    /\ cached \subseteq Readable

LEMMA RequestTypes ==
    ASSUME NEW r \in Requests
    PROVE  /\ r.op \in Ops /\ r.handle \in Handles /\ r.at \in Nat /\ r.count \in Int
           /\ r.from \in {"begin", "cursor", "end"} /\ r # NoRequest
  BY LaunchInfoAssumption

LEMMA CallTypes ==
    ASSUME LaunchInv, NEW t \in Threads
    PROVE  /\ call[t] \in CallRec
           /\ call[t].pc # "idle" => call[t].req \in Requests /\ Handle(t) \in Handles
  BY RequestTypes DEF LaunchInv, LaunchTypeOK, CallRec, InCall, Handle

LEMMA IdleThread ==
    /\ Idle \in CallRec /\ Idle.pc = "idle" /\ Idle.req = NoRequest
    /\ ~Idle.answer.done /\ Idle.answer = Pending
<1>1. <<>> \in Seq(Line)
  OBVIOUS
<1> QED
  BY <1>1 DEF Idle, CallRec, Pcs, Pending, Answers

LEMMA NoEntry ==
    /\ Unknown \in Entries /\ Unknown.kind = "unknown"
    /\ Passthrough \in Entries /\ Passthrough.kind = "passthrough"
<1>1. <<>> \in Seq(Line)
  OBVIOUS
<1> QED
  BY <1>1 DEF Unknown, Passthrough, Entries

\* A thread that does not lag itself finds the two cursors together.
LEMMA CursorsTogether ==
    ASSUME LaunchInv, NEW t \in Threads, call[t].pc \notin {"idle", "sync"}
    PROVE  ~Lagging(Handle(t))
<1> SUFFICES ASSUME Lagging(Handle(t)) PROVE FALSE
  OBVIOUS
<1>1. Handle(t) \in Handles /\ call[t].req # NoRequest
  BY CallTypes, RequestTypes
<1>2. PICK u \in Threads : /\ call[u].req # NoRequest /\ Handle(u) = Handle(t)
                           /\ call[u].pc = "sync"
  BY <1>1 DEF LaunchInv, LaggingWhile
<1>3. call[u].req.op \in {"read", "seek"}
  BY <1>2 DEF LaunchInv, AtStep
<1> QED
  BY <1>1, <1>2, <1>3 DEF LaunchInv, Alone, Positionless

\* A thread that nobody disturbs: its handle's file and cursor are as they were,
\* and what the table said of it; or the file is passed through.
LEMMA Undisturbed ==
    ASSUME LaunchInv, NEW u \in Threads, call'[u] = call[u],
           \/ call[u].pc \in {"idle", "done"}
           \/ /\ file'[Handle(u)] = file[Handle(u)] /\ kernel'[Handle(u)] = kernel[Handle(u)]
              /\ \/ handles'[Handle(u)] = handles[Handle(u)]
                 \/ handles[Handle(u)].kind = "unknown" /\ call[u].req.op \in Positionless
           \/ /\ file'[Handle(u)] = file[Handle(u)] /\ handles'[Handle(u)] = handles[Handle(u)]
              /\ handles[Handle(u)].kind = "passthrough"
    PROVE  InCall(u)' /\ AtStep(u)'
<1>1. InCall(u) /\ AtStep(u)
  BY DEF LaunchInv
<1>2. InCall(u)'
  BY <1>1 DEF InCall, Handle
<1>3. CASE call[u].pc \in {"idle", "done"}
  BY <1>3, <1>2 DEF AtStep, Hooked
<1>4. CASE /\ file'[Handle(u)] = file[Handle(u)] /\ kernel'[Handle(u)] = kernel[Handle(u)]
           /\ handles'[Handle(u)] = handles[Handle(u)]
  BY <1>4, <1>1, <1>2 DEF AtStep, Handle
<1>5. CASE /\ file'[Handle(u)] = file[Handle(u)] /\ kernel'[Handle(u)] = kernel[Handle(u)]
           /\ handles[Handle(u)].kind = "unknown" /\ call[u].req.op \in Positionless
  BY <1>5, <1>1, <1>2 DEF AtStep, Handle, Positionless
<1>6. CASE /\ file'[Handle(u)] = file[Handle(u)] /\ handles'[Handle(u)] = handles[Handle(u)]
           /\ handles[Handle(u)].kind = "passthrough" /\ call[u].pc \notin {"idle", "done"}
  <2>1. Handle(u) \in Handles
    BY <1>6, CallTypes
  <2>2. file[Handle(u)] \notin Readable
    BY <1>6, <2>1 DEF LaunchInv, EntrySound
  <2>3. call[u].pc \notin {"cursor", "enter"}
    BY <1>1, <2>2 DEF AtStep, Handle
  <2> QED
    BY <1>6, <1>1, <1>2, <2>3 DEF AtStep, Handle
<1> QED
  BY <1>3, <1>4, <1>5, <1>6

\* The frame of a thread's step: what it has to leave alone, and what is to be
\* shown of itself and its handle.
ThreadStep(t, r) ==
    /\ call' = [call EXCEPT ![t] = r] /\ r \in CallRec
    /\ r.req \in {call[t].req, NoRequest}
    /\ \A h \in Handles \ {Handle(t)} :
         file'[h] = file[h] /\ kernel'[h] = kernel[h] /\ handles'[h] = handles[h]
    /\ call[t].req.op \in Positionless =>
         /\ file'[Handle(t)] = file[Handle(t)]
         /\ \/ kernel'[Handle(t)] = kernel[Handle(t)]
            \/ /\ handles[Handle(t)].kind = "passthrough"
               /\ handles'[Handle(t)] = handles[Handle(t)]
         /\ \/ handles'[Handle(t)] = handles[Handle(t)]
            \/ handles[Handle(t)].kind = "unknown"

LEMMA StepPreserves ==
    ASSUME LaunchInv, NEW t \in Threads, NEW r, ThreadStep(t, r), call[t].pc # "idle",
           NEW mine, mine = Handle(t),
           LaunchTypeOK', InCall(t)', AtStep(t)', EntrySound(mine)', cached' \subseteq Readable,
           Lagging(mine)' => r.pc = "sync" /\ r.req = call[t].req
    PROVE  LaunchInv'
<1>1. call[t].req \in Requests /\ mine \in Handles /\ call[t].req # NoRequest
  BY CallTypes, RequestTypes
<1>2. call'[t] = r /\ \A u \in Threads : u # t => call'[u] = call[u]
  BY DEF ThreadStep, LaunchInv, LaunchTypeOK
<1>3. ASSUME NEW u \in Threads, u # t
      PROVE  InCall(u)' /\ AtStep(u)'
  <2>1. call'[u] = call[u]
    BY <1>2, <1>3
  <2>2. CASE call[u].pc = "idle"
    BY <2>1, <2>2, Undisturbed
  <2>3. CASE call[u].pc # "idle" /\ Handle(u) # mine
    <3>1. Handle(u) \in Handles
      BY <2>3, CallTypes
    <3> QED
      BY <2>1, <2>3, <3>1, Undisturbed DEF ThreadStep
  <2>4. CASE call[u].pc # "idle" /\ Handle(u) = mine
    <3>1. call[t].req.op \in Positionless /\ call[u].req.op \in Positionless
      BY <1>1, <1>3, <2>4, CallTypes, RequestTypes DEF LaunchInv, Alone
    <3> QED
      BY <2>1, <2>4, <3>1, Undisturbed DEF ThreadStep
  <2> QED
    BY <2>2, <2>3, <2>4
<1>4. ASSUME NEW h \in Handles, h # mine
      PROVE  EntrySound(h)' /\ LaggingWhile(h)'
  <2>1. file'[h] = file[h] /\ kernel'[h] = kernel[h] /\ handles'[h] = handles[h]
    BY <1>4 DEF ThreadStep
  <2>2. EntrySound(h)'
    BY <2>1 DEF LaunchInv, EntrySound
  <2>3. LaggingWhile(h)'
    <3>1. SUFFICES ASSUME Lagging(h)'
                   PROVE  \E u \in Threads :
                            call'[u].req # NoRequest /\ Handle(u)' = h /\ call'[u].pc = "sync"
      BY DEF LaggingWhile
    <3>2. Lagging(h)
      BY <2>1, <3>1 DEF Lagging
    <3>3. PICK u \in Threads : call[u].req # NoRequest /\ Handle(u) = h /\ call[u].pc = "sync"
      BY <3>2 DEF LaunchInv, LaggingWhile
    <3>4. call'[u] = call[u]
      BY <1>2, <1>4, <3>3
    <3> QED
      BY <3>3, <3>4 DEF Handle
  <2> QED
    BY <2>2, <2>3
<1>5. LaggingWhile(mine)'
  BY <1>1, <1>2 DEF LaggingWhile, Handle
<1>6. Alone'
  <2>1. SUFFICES ASSUME NEW u \in Threads, NEW v \in Threads, u # v,
                        call'[u].req # NoRequest, call'[v].req # NoRequest,
                        Handle(u)' = Handle(v)'
                 PROVE  call'[u].req.op \in Positionless /\ call'[v].req.op \in Positionless
    BY DEF Alone
  <2>2. call'[u].req = call[u].req /\ call'[v].req = call[v].req
    BY <1>2, <2>1 DEF ThreadStep
  <2> QED
    BY <2>1, <2>2 DEF LaunchInv, Alone, Handle
<1> QED
  BY <1>2, <1>3, <1>4, <1>5, <1>6 DEF LaunchInv

-----------------------------------------------------------------------------
(* A thread's steps keep the invariant.                                    *)

\* Steps that change nothing but the thread's own record.
OwnStep(t, r) ==
    /\ call' = [call EXCEPT ![t] = r] /\ r \in CallRec
    /\ r.req \in {call[t].req, NoRequest}
    /\ UNCHANGED <<file, kernel, handles, cached>>

LEMMA OwnStepPreserves ==
    ASSUME LaunchInv, NEW t \in Threads, NEW r, OwnStep(t, r),
           call[t].pc \notin {"idle", "sync"}, InCall(t)', AtStep(t)'
    PROVE  LaunchInv'
<1>1. PICK mine \in Handles : mine = Handle(t)
  BY CallTypes
<1>2. ThreadStep(t, r)
  BY DEF OwnStep, ThreadStep
<1>3. LaunchTypeOK'
  BY DEF LaunchInv, LaunchTypeOK, OwnStep
<1>4. EntrySound(mine)' /\ ~Lagging(mine)'
  BY <1>1, CursorsTogether DEF LaunchInv, OwnStep, EntrySound, Lagging
<1>5. cached' \subseteq Readable
  BY DEF LaunchInv, OwnStep
<1> QED
  BY <1>1, <1>2, <1>3, <1>4, <1>5, StepPreserves

LEMMA LookupPreserves ==
    ASSUME LaunchInv, NEW t \in Threads, Lookup(t)
    PROVE  LaunchInv'
<1> DEFINE entry == handles[Handle(t)]
           r == IF entry.kind = "unknown" THEN [call[t] EXCEPT !.pc = "classify"]
                ELSE [call[t] EXCEPT !.pc = IF entry.kind = "virtual" THEN "serve" ELSE "original",
                                     !.lines = entry.lines]
<1>1. call[t].pc = "lookup" /\ call[t] \in CallRec /\ Handle(t) \in Handles
      /\ entry \in Entries
  BY CallTypes DEF Lookup, Me, LaunchInv, LaunchTypeOK
<1>2. OwnStep(t, r)
  <2>1. r \in CallRec /\ r.req = call[t].req
    BY <1>1 DEF CallRec, Pcs, Entries
  <2>2. call' = [call EXCEPT ![t] = r]
    BY DEF Lookup, Goto, With, Handle
  <2> QED
    BY <2>1, <2>2 DEF OwnStep, Lookup
<1>3. call'[t] = r
  BY <1>2 DEF OwnStep, LaunchInv, LaunchTypeOK
<1>4. InCall(t) /\ AtStep(t)
  BY DEF LaunchInv
<1>5. InCall(t)'
  BY <1>1, <1>2, <1>3, <1>4 DEF OwnStep, InCall, Handle, CallRec
<1>6. AtStep(t)'
  <2>1. /\ r.req = call[t].req /\ r.req.op # "close" /\ UNCHANGED <<file, kernel, handles>>
        /\ r.pc = CASE entry.kind = "unknown" -> "classify"
                    [] entry.kind = "virtual" -> "serve"
                    [] entry.kind = "passthrough" -> "original"
        /\ r.pc = "serve" => r.lines = entry.lines
    BY <1>1, <1>2, <1>4 DEF OwnStep, AtStep, CallRec, Entries, Hooked
  <2>2. entry.kind \in {"unknown", "virtual", "passthrough"}
    BY <1>1 DEF Entries
  <2> HIDE DEF r
  <2> QED
    BY <1>3, <2>1, <2>2 DEF AtStep, Handle
<1> QED
  BY <1>1, <1>2, <1>5, <1>6, OwnStepPreserves

LEMMA CachedStepPreserves ==
    ASSUME LaunchInv, NEW t \in Threads, NEW r \in CallRec,
           call' = [call EXCEPT ![t] = r], r.req = call[t].req,
           UNCHANGED <<file, kernel, handles>>, cached' \subseteq Readable,
           call[t].pc \notin {"idle", "sync"}, InCall(t)', AtStep(t)'
    PROVE  LaunchInv'
<1>1. PICK mine \in Handles : mine = Handle(t)
  BY CallTypes
<1>2. ThreadStep(t, r)
  BY DEF ThreadStep
<1>3. LaunchTypeOK'
  BY DEF LaunchInv, LaunchTypeOK, Readable, Languages
<1>4. EntrySound(mine)' /\ ~Lagging(mine)'
  BY <1>1, CursorsTogether DEF LaunchInv, EntrySound, Lagging
<1> QED
  BY <1>1, <1>2, <1>3, <1>4, StepPreserves

LEMMA AnswerPreserves ==
    ASSUME LaunchInv, NEW t \in Threads, NEW number \in Int, NEW lines \in Seq(Line),
           Answer(t, number, lines), call[t].pc \notin {"idle", "sync"},
           UNCHANGED <<file, kernel, handles, cached>>
    PROVE  LaunchInv'
<1> DEFINE r == [call[t] EXCEPT !.pc = "done", !.answer = Answered(number, lines)]
<1>1. call[t] \in CallRec /\ Answered(number, lines) \in Answers
  BY CallTypes DEF Answered, Answers
<1>2. OwnStep(t, r)
  <2>1. r \in CallRec /\ r.req = call[t].req
    BY <1>1 DEF CallRec, Pcs
  <2> QED
    BY <2>1 DEF OwnStep, Answer
<1>3. call'[t] = r
  BY <1>2 DEF OwnStep, LaunchInv, LaunchTypeOK
<1>4. r.pc = "done" /\ r.answer.done /\ r.req # NoRequest
  BY <1>1, CallTypes, RequestTypes DEF CallRec, Answered
<1>5. InCall(t)' /\ AtStep(t)'
  BY <1>3, <1>4 DEF InCall, AtStep, Hooked
<1> QED
  BY <1>2, <1>5, OwnStepPreserves

LEMMA NumberPreserves ==
    ASSUME LaunchInv, NEW t \in Threads, NEW number \in Int,
           Answer(t, number, <<>>), call[t].pc \notin {"idle", "sync"},
           UNCHANGED <<file, kernel, handles, cached>>
    PROVE  LaunchInv'
<1> DEFINE none == <<>>
<1>1. none \in Seq(Line) /\ Answer(t, number, none)
  OBVIOUS
<1> HIDE DEF none
<1> QED
  BY <1>1, AnswerPreserves

LEMMA ReturnPreserves ==
    ASSUME LaunchInv, NEW t \in Threads, Return(t)
    PROVE  LaunchInv'
<1>1. /\ Idle \in CallRec /\ Idle.pc = "idle" /\ Idle.req = NoRequest
      /\ ~Idle.answer.done /\ Idle.answer = Pending
  BY IdleThread
<1>2. OwnStep(t, Idle)
  BY <1>1 DEF Return, OwnStep
<1>3. call'[t] = Idle
  BY <1>2 DEF OwnStep, LaunchInv, LaunchTypeOK
<1>4. InCall(t)' /\ AtStep(t)'
  BY <1>1, <1>3 DEF InCall, AtStep, Hooked
<1> QED
  BY <1>2, <1>4, OwnStepPreserves DEF Return, Me

\* What cannot be rewritten is passed through from now on.
LEMMA PassThroughPreserves ==
    ASSUME LaunchInv, NEW t \in Threads, call[t].pc \in {"classify", "load"},
           file[Handle(t)] \notin Readable,
           handles' = [handles EXCEPT ![Handle(t)] = Passthrough],
           Goto(t, "original"), UNCHANGED <<file, kernel, cached>>
    PROVE  LaunchInv'
<1> DEFINE r == [call[t] EXCEPT !.pc = "original"]
<1>1. call[t] \in CallRec /\ InCall(t) /\ AtStep(t)
  BY CallTypes DEF LaunchInv
<1>2. PICK mine \in Handles : mine = Handle(t)
  BY CallTypes
<1>3. handles' = [handles EXCEPT ![mine] = Passthrough] /\ call' = [call EXCEPT ![t] = r]
  BY <1>2 DEF Goto
<1>4. r \in CallRec /\ r.pc = "original" /\ r.req = call[t].req /\ r.answer = call[t].answer
  BY <1>1 DEF CallRec, Pcs
<1>5. Passthrough \in Entries /\ Passthrough.kind = "passthrough"
  BY NoEntry
<1>6. call'[t] = r /\ handles'[mine] = Passthrough
  BY <1>2, <1>3 DEF LaunchInv, LaunchTypeOK
<1>7. file[mine] \in Files /\ file[mine] # NoFile
  BY <1>1, <1>2, LaunchInfoAssumption DEF LaunchInv, LaunchTypeOK, InCall
<1>8. ThreadStep(t, r)
  <2>1. handles[mine] = Passthrough \/ handles[mine].kind = "unknown"
    BY <1>2 DEF LaunchInv, LaunchTypeOK, Entries, EntrySound
  <2> QED
    BY <1>2, <1>3, <1>4, <1>6, <2>1 DEF ThreadStep, LaunchInv, LaunchTypeOK
<1>9. LaunchTypeOK'
  BY <1>3, <1>4, <1>5 DEF LaunchInv, LaunchTypeOK
<1>10. InCall(t)'
  BY <1>1, <1>4, <1>6 DEF InCall, Handle
<1>11. AtStep(t)'
  BY <1>1, <1>2, <1>4, <1>5, <1>6 DEF AtStep, Handle, Hooked
<1>12. EntrySound(mine)' /\ ~Lagging(mine)'
  BY <1>2, <1>5, <1>6, <1>7 DEF EntrySound, Lagging
<1>13. cached' \subseteq Readable
  BY DEF LaunchInv
<1> QED
  BY <1>2, <1>4, <1>8, <1>9, <1>10, <1>11, <1>12, <1>13, StepPreserves

LEMMA ClassifyPreserves ==
    ASSUME LaunchInv, NEW t \in Threads, Classify(t)
    PROVE  LaunchInv'
<1>1. call[t].pc = "classify" /\ call[t] \in CallRec /\ Handle(t) \in Handles
      /\ InCall(t) /\ AtStep(t)
  BY CallTypes DEF Classify, Me, LaunchInv
<1>2. file[Handle(t)] \in Files
  BY <1>1 DEF LaunchInv, LaunchTypeOK, InCall
<1>3. CASE ~IsTargetLanguagePath(FinalPath(file[Handle(t)]))
  BY <1>1, <1>3, PassThroughPreserves DEF Classify, Handle, Readable, Languages
<1>4. CASE IsTargetLanguagePath(FinalPath(file[Handle(t)]))
  <2> DEFINE f == file[Handle(t)]
             r == [call[t] EXCEPT !.pc = IF f \in cached THEN "cursor" ELSE "load",
                                  !.lines = IF f \in cached THEN Rewritten(Text[f]) ELSE <<>>]
  <2>1. f \in cached => f \in Readable
    BY DEF LaunchInv
  <2>2. Rewritten(Text[f]) \in Seq(Line) /\ <<>> \in Seq(Line)
    BY <1>2, RewrittenText
  <2>3. /\ r \in CallRec /\ r.req = call[t].req /\ r.answer = call[t].answer
        /\ r.pc = IF f \in cached THEN "cursor" ELSE "load"
        /\ f \in cached => r.lines = Rewritten(Text[f])
    <3>1. CASE f \in cached
      BY <1>1, <2>2, <3>1 DEF CallRec, Pcs
    <3>2. CASE f \notin cached
      BY <1>1, <2>2, <3>2 DEF CallRec, Pcs
    <3> QED
      BY <3>1, <3>2
  <2>4. call' = [call EXCEPT ![t] = r] /\ UNCHANGED <<file, kernel, handles, cached>>
    BY <1>4 DEF Classify, Handle
  <2>5. call'[t] = r
    BY <2>4 DEF LaunchInv, LaunchTypeOK
  <2> HIDE DEF r
  <2>6. InCall(t)'
    BY <1>1, <2>3, <2>4, <2>5 DEF InCall, Handle
  <2>7. AtStep(t)'
    <3>1. r.req.op # "close" /\ f \in Languages
      BY <1>1, <1>2, <1>4, <2>3 DEF AtStep, Hooked, Languages
    <3> QED
      BY <2>1, <2>3, <2>4, <2>5, <3>1 DEF AtStep, Handle
  <2> QED
    BY <1>1, <2>3, <2>4, <2>6, <2>7, OwnStepPreserves DEF OwnStep
<1> QED
  BY <1>3, <1>4

LEMMA LoadPreserves ==
    ASSUME LaunchInv, NEW t \in Threads, Load(t)
    PROVE  LaunchInv'
<1> DEFINE f == file[Handle(t)]
<1>1. call[t].pc = "load" /\ call[t] \in CallRec /\ InCall(t) /\ AtStep(t)
  BY CallTypes DEF Load, Me, LaunchInv
<1>2. f \in Languages /\ f \in Files
  BY <1>1 DEF AtStep, Handle, Languages
<1>3. CASE f \in Unreadable
  BY <1>1, <1>3, PassThroughPreserves DEF Load, Handle, Readable
<1>4. CASE f \notin Unreadable
  <2> DEFINE r == [call[t] EXCEPT !.pc = "cursor", !.lines = Rewritten(Text[f])]
  <2>1. /\ r \in CallRec /\ r.req = call[t].req /\ r.answer = call[t].answer
        /\ r.pc = "cursor" /\ r.lines = Rewritten(Text[f])
    BY <1>1, <1>2, RewrittenText DEF CallRec, Pcs
  <2>2. /\ call' = [call EXCEPT ![t] = r] /\ UNCHANGED <<file, kernel, handles>>
        /\ cached' = cached \cup {f}
    BY <1>4 DEF Load, Handle
  <2>3. call'[t] = r /\ cached' \subseteq Readable
    BY <1>2, <1>4, <2>2 DEF LaunchInv, LaunchTypeOK, Readable
  <2>4. InCall(t)'
    BY <1>1, <2>1, <2>2, <2>3 DEF InCall, Handle
  <2>5. AtStep(t)'
    BY <1>1, <1>2, <1>4, <2>1, <2>2, <2>3 DEF AtStep, Handle, Hooked, Readable
  <2> HIDE DEF r
  <2> QED
    BY <1>1, <2>1, <2>2, <2>3, <2>4, <2>5, CachedStepPreserves
<1> QED
  BY <1>3, <1>4

LEMMA ReadCursorPreserves ==
    ASSUME LaunchInv, NEW t \in Threads, ReadCursor(t)
    PROVE  LaunchInv'
<1> DEFINE r == [call[t] EXCEPT !.pc = "enter", !.position = kernel[Handle(t)]]
<1>1. call[t].pc = "cursor" /\ call[t] \in CallRec /\ Handle(t) \in Handles
      /\ kernel[Handle(t)] \in Nat /\ InCall(t) /\ AtStep(t)
  BY CallTypes DEF ReadCursor, Me, LaunchInv, LaunchTypeOK
<1>2. /\ r \in CallRec /\ r.req = call[t].req /\ r.answer = call[t].answer
      /\ r.pc = "enter" /\ r.lines = call[t].lines /\ r.position = kernel[Handle(t)]
  BY <1>1 DEF CallRec, Pcs
<1>3. OwnStep(t, r)
  BY <1>2 DEF OwnStep, ReadCursor, Handle
<1>4. call'[t] = r
  BY <1>3 DEF OwnStep, LaunchInv, LaunchTypeOK
<1>5. InCall(t)' /\ AtStep(t)'
  BY <1>1, <1>2, <1>3, <1>4 DEF OwnStep, InCall, AtStep, Handle, Hooked
<1> QED
  BY <1>1, <1>3, <1>5, OwnStepPreserves

LEMMA EnterTablePreserves ==
    ASSUME LaunchInv, NEW t \in Threads, EnterTable(t)
    PROVE  LaunchInv'
<1> DEFINE old == handles[Handle(t)]
           entry == IF old.kind = "unknown" THEN Virtual(call[t].lines, call[t].position) ELSE old
           r == [call[t] EXCEPT !.pc = IF entry.kind = "virtual" THEN "serve" ELSE "original",
                                !.lines = entry.lines]
<1>1. call[t].pc = "enter" /\ call[t] \in CallRec /\ InCall(t) /\ AtStep(t)
      /\ call[t].req # NoRequest
  BY CallTypes, RequestTypes DEF EnterTable, Me, LaunchInv
<1>2. PICK mine \in Handles : mine = Handle(t)
  BY <1>1, CallTypes
<1>3. old \in Entries /\ file[mine] \in Readable /\ call[t].lines = Rewritten(Text[file[mine]])
      /\ call[t].position = kernel[mine] /\ file[mine] # NoFile
  BY <1>1, <1>2 DEF LaunchInv, LaunchTypeOK, AtStep, InCall, Handle
<1>4. Virtual(call[t].lines, call[t].position) \in Entries
  BY <1>1 DEF CallRec, Virtual, Entries
<1>5. old.kind = "unknown" => entry = Virtual(call[t].lines, call[t].position)
  OBVIOUS
<1>6. old.kind # "unknown" => entry = old /\ old.kind = "virtual"
  BY <1>2, <1>3 DEF LaunchInv, EntrySound, Entries
<1>7. /\ entry \in Entries /\ entry.kind = "virtual"
      /\ entry.lines = call[t].lines /\ entry.cursor = kernel[mine]
  <2>1. CASE old.kind = "unknown"
    BY <1>3, <1>4, <2>1 DEF Virtual
  <2>2. CASE old.kind # "unknown"
    <3>1. ~Lagging(mine)
      BY <1>1, <1>2, CursorsTogether
    <3> QED
      BY <1>2, <1>3, <1>6, <2>2, <3>1 DEF LaunchInv, EntrySound, Lagging
  <2> QED
    BY <2>1, <2>2
<1> HIDE DEF entry
<1>8. /\ r \in CallRec /\ r.req = call[t].req /\ r.answer = call[t].answer
      /\ r.pc = "serve" /\ r.lines = entry.lines
  BY <1>1, <1>7 DEF CallRec, Pcs, Entries
<1>9. /\ handles' = [handles EXCEPT ![mine] = entry] /\ call' = [call EXCEPT ![t] = r]
      /\ UNCHANGED <<file, kernel, cached>>
  BY <1>2 DEF EnterTable, With, Handle, entry
<1>10. call'[t] = r /\ handles'[mine] = entry
  BY <1>2, <1>9 DEF LaunchInv, LaunchTypeOK
<1> HIDE DEF r
<1>11. ThreadStep(t, r)
  BY <1>2, <1>6, <1>8, <1>9, <1>10 DEF ThreadStep, LaunchInv, LaunchTypeOK
<1>12. LaunchTypeOK' /\ cached' \subseteq Readable
  BY <1>7, <1>8, <1>9 DEF LaunchInv, LaunchTypeOK
<1>13. InCall(t)'
  BY <1>1, <1>8, <1>9, <1>10 DEF InCall, Handle
<1>14. AtStep(t)'
  BY <1>1, <1>2, <1>7, <1>8, <1>9, <1>10 DEF AtStep, Handle, Hooked
<1>15. EntrySound(mine)' /\ ~Lagging(mine)'
  BY <1>3, <1>7, <1>9, <1>10 DEF EntrySound, Lagging
<1> QED
  BY <1>1, <1>2, <1>8, <1>11, <1>12, <1>13, <1>14, <1>15, StepPreserves

-----------------------------------------------------------------------------
(* The functions.                                                          *)

LEMMA AtServe ==
    ASSUME LaunchInv, NEW t \in Threads, call[t].pc = "serve"
    PROVE  /\ call[t] \in CallRec /\ InCall(t) /\ AtStep(t)
           /\ Handle(t) \in Handles /\ call[t].req \in Requests
           /\ call[t].lines \in Seq(Line) /\ Len(call[t].lines) \in Nat
           /\ handles[Handle(t)] \in Entries /\ handles[Handle(t)].kind = "virtual"
           /\ handles[Handle(t)].cursor \in Nat /\ handles[Handle(t)].lines = call[t].lines
<1>1. call[t] \in CallRec /\ call[t].req \in Requests /\ Handle(t) \in Handles
      /\ InCall(t) /\ AtStep(t)
  BY CallTypes DEF LaunchInv
<1>2. handles[Handle(t)] \in Entries
  BY <1>1 DEF LaunchInv, LaunchTypeOK
<1>3. call[t].lines \in Seq(Line) /\ handles[Handle(t)].cursor \in Nat
  BY <1>1, <1>2 DEF CallRec, Entries
<1> QED
  BY <1>1, <1>2, <1>3, LenProperties DEF AtStep, Handle

LEMMA ReadAtCursorPreserves ==
    ASSUME LaunchInv, NEW t \in Threads, ReadAtCursor(t)
    PROVE  LaunchInv'
<1> DEFINE offset == handles[Handle(t)].cursor
           part == Part(call[t].lines, offset, call[t].req.count)
           position == offset + Len(part)
           r == [call[t] EXCEPT !.pc = "advance", !.part = part, !.position = position]
<1>1. /\ call[t] \in CallRec /\ InCall(t) /\ AtStep(t) /\ Handle(t) \in Handles
      /\ call[t].pc = "serve" /\ call[t].req.op = "read" /\ call[t].req.count \in Int
      /\ call[t].lines \in Seq(Line) /\ offset \in Nat
  BY AtServe, RequestTypes DEF ReadAtCursor, Serving, Me
<1>2. part \in Seq(Line) /\ position \in Nat
  BY <1>1, PartIsSequence
<1>3. call' = [call EXCEPT ![t] = r] /\ UNCHANGED <<file, kernel, handles, cached>>
  BY DEF ReadAtCursor, Handle
<1> HIDE DEF part, position
<1>4. /\ r \in CallRec /\ r.req = call[t].req /\ r.answer = call[t].answer
      /\ r.pc = "advance" /\ r.lines = call[t].lines
      /\ r.part = part /\ r.position = position
  BY <1>1, <1>2 DEF CallRec, Pcs
<1>5. call'[t] = r
  BY <1>3 DEF LaunchInv, LaunchTypeOK
<1> HIDE DEF r
<1>6. InCall(t)'
  BY <1>1, <1>3, <1>4, <1>5 DEF InCall, Handle
<1>7. AtStep(t)'
  BY <1>1, <1>3, <1>4, <1>5 DEF AtStep, Handle, Hooked, part, position
<1> QED
  BY <1>1, <1>3, <1>4, <1>6, <1>7, OwnStepPreserves DEF OwnStep

\* Going on to the original function, where that is allowed.
LEMMA OriginalNextPreserves ==
    ASSUME LaunchInv, NEW t \in Threads, call[t].pc = "serve", Goto(t, "original"),
           UNCHANGED <<file, kernel, handles, cached>>,
           LET req == call[t].req
               entry == handles[req.handle]
           IN \/ req.op = "map"
              \/ req.op = "seek" /\ SeekBase(req, entry.lines, entry.cursor) + req.count < 0
    PROVE  LaunchInv'
<1> DEFINE r == [call[t] EXCEPT !.pc = "original"]
<1>1. /\ call[t] \in CallRec /\ InCall(t) /\ AtStep(t)
      /\ handles[Handle(t)].kind = "virtual"
  BY AtServe
<1>2. /\ r \in CallRec /\ r.req = call[t].req /\ r.answer = call[t].answer
      /\ r.pc = "original" /\ call' = [call EXCEPT ![t] = r]
  BY <1>1 DEF CallRec, Pcs, Goto
<1>3. call'[t] = r
  BY <1>2 DEF LaunchInv, LaunchTypeOK
<1> HIDE DEF r
<1>4. InCall(t)'
  BY <1>1, <1>2, <1>3 DEF InCall, Handle
<1>5. AtStep(t)'
  BY <1>1, <1>2, <1>3 DEF AtStep, Handle, Hooked
<1> QED
  BY <1>2, <1>4, <1>5, OwnStepPreserves DEF OwnStep

LEMMA SeekPreserves ==
    ASSUME LaunchInv, NEW t \in Threads, Seek(t)
    PROVE  LaunchInv'
<1> DEFINE to == SeekBase(call[t].req, call[t].lines, handles[Handle(t)].cursor) + call[t].req.count
           r == [call[t] EXCEPT !.pc = "advance", !.position = to]
<1>1. /\ call[t] \in CallRec /\ InCall(t) /\ AtStep(t) /\ Handle(t) \in Handles
      /\ call[t].pc = "serve" /\ call[t].req.op = "seek" /\ call[t].req.count \in Int
      /\ call[t].req.from \in {"begin", "cursor", "end"}
      /\ Len(call[t].lines) \in Nat /\ handles[Handle(t)].cursor \in Nat
      /\ handles[Handle(t)].lines = call[t].lines
  BY AtServe, RequestTypes DEF Seek, Serving, Me
<1>2. to \in Int
  BY <1>1 DEF SeekBase
<1>3. CASE to < 0
  BY <1>1, <1>3, OriginalNextPreserves DEF Seek, Handle
<1>4. CASE ~(to < 0)
  <2>1. call' = [call EXCEPT ![t] = r] /\ UNCHANGED <<file, kernel, handles, cached>>
    BY <1>4 DEF Seek, Handle
  <2>2. to \in Nat
    BY <1>2, <1>4
  <2> HIDE DEF to
  <2>3. /\ r \in CallRec /\ r.req = call[t].req /\ r.answer = call[t].answer
        /\ r.pc = "advance" /\ r.lines = call[t].lines /\ r.position = to
    BY <1>1, <2>2 DEF CallRec, Pcs
  <2>4. call'[t] = r
    BY <2>1 DEF LaunchInv, LaunchTypeOK
  <2> HIDE DEF r
  <2>5. InCall(t)'
    BY <1>1, <2>1, <2>3, <2>4 DEF InCall, Handle
  <2>6. AtStep(t)'
    BY <1>1, <2>1, <2>3, <2>4 DEF AtStep, Handle, Hooked, to
  <2> QED
    BY <1>1, <2>1, <2>3, <2>5, <2>6, OwnStepPreserves DEF OwnStep
<1> QED
  BY <1>3, <1>4

LEMMA AnsweringPreserves ==
    ASSUME LaunchInv, NEW t \in Threads, ReadAtOffset(t) \/ Size(t) \/ Map(t)
    PROVE  LaunchInv'
<1>1. /\ call[t].pc = "serve" /\ call[t].req.at \in Nat /\ call[t].req.count \in Int
      /\ call[t].lines \in Seq(Line) /\ Len(call[t].lines) \in Nat
  BY AtServe, RequestTypes DEF ReadAtOffset, Size, Map, Serving, Me
<1>3. CASE ReadAtOffset(t)
  <2> DEFINE part == Part(call[t].lines, call[t].req.at, call[t].req.count)
  <2>1. part \in Seq(Line) /\ Len(part) \in Int
    BY <1>1, PartIsSequence
  <2>2. Answer(t, Len(part), part) /\ UNCHANGED <<file, kernel, handles, cached>>
    BY <1>3 DEF ReadAtOffset
  <2> HIDE DEF part
  <2> QED
    BY <1>1, <2>1, <2>2, AnswerPreserves
<1>4. CASE Size(t)
  <2>1. Answer(t, Len(call[t].lines), <<>>) /\ UNCHANGED <<file, kernel, handles, cached>>
    BY <1>4 DEF Size
  <2>2. Len(call[t].lines) \in Int
    BY <1>1
  <2> QED
    BY <1>1, <2>1, <2>2, NumberPreserves
<1>5. CASE Map(t)
  <2>1. call[t].req.op = "map" /\ UNCHANGED <<file, kernel, handles, cached>>
    BY <1>5 DEF Map, Serving
  <2>2. CASE Answer(t, 0, call[t].lines)
    BY <1>1, <2>1, <2>2, AnswerPreserves
  <2>3. CASE Goto(t, "original")
    BY <1>1, <2>1, <2>3, OriginalNextPreserves
  <2> QED
    BY <1>5, <2>2, <2>3 DEF Map, PopulateMapping
<1> QED
  BY <1>3, <1>4, <1>5

LEMMA AdvancePreserves ==
    ASSUME LaunchInv, NEW t \in Threads, Advance(t)
    PROVE  LaunchInv'
<1> DEFINE answer == IF call[t].req.op = "seek" THEN Answered(call[t].position, <<>>)
                     ELSE Answered(Len(call[t].part), call[t].part)
           r == [call[t] EXCEPT !.pc = "sync", !.answer = answer]
<1>1. /\ call[t] \in CallRec /\ InCall(t) /\ AtStep(t) /\ call[t].pc = "advance"
      /\ call[t].req \in Requests /\ call[t].req # NoRequest
  BY CallTypes, RequestTypes DEF Advance, Me, LaunchInv
<1>2. PICK mine \in Handles : mine = Handle(t)
  BY <1>1, CallTypes
<1> DEFINE entry == [handles[mine] EXCEPT !.cursor = call[t].position]
<1>3. answer \in Answers /\ answer.done
  <2>1. call[t].position \in Nat /\ call[t].part \in Seq(Line) /\ <<>> \in Seq(Line)
        /\ Len(call[t].part) \in Nat
    BY <1>1, LenProperties DEF CallRec
  <2> QED
    BY <2>1 DEF Answered, Answers
<1>4. /\ handles' = [handles EXCEPT ![mine] = entry] /\ call' = [call EXCEPT ![t] = r]
      /\ UNCHANGED <<file, kernel, cached>>
  BY <1>2 DEF Advance, Handle
<1>5. handles[mine] \in Entries /\ handles[mine].kind = "virtual"
      /\ call[t].lines = handles[mine].lines /\ call[t].position \in Nat
      /\ call[t].req.op \in {"read", "seek"}
  BY <1>1, <1>2 DEF LaunchInv, LaunchTypeOK, AtStep, CallRec, Handle
<1>6. /\ entry \in Entries /\ entry.kind = "virtual" /\ entry.lines = handles[mine].lines
      /\ entry.cursor = call[t].position
  BY <1>5 DEF Entries
<1> HIDE DEF answer
<1>7. /\ r \in CallRec /\ r.req = call[t].req /\ r.answer = answer /\ r.pc = "sync"
      /\ r.lines = call[t].lines /\ r.position = call[t].position
  BY <1>1, <1>3 DEF CallRec, Pcs
<1> HIDE DEF r, entry
<1>8. call'[t] = r /\ handles'[mine] = entry
  BY <1>4 DEF LaunchInv, LaunchTypeOK
<1>9. ThreadStep(t, r)
  BY <1>2, <1>4, <1>5, <1>7 DEF ThreadStep, LaunchInv, LaunchTypeOK, Positionless
<1>10. LaunchTypeOK' /\ cached' \subseteq Readable
  BY <1>4, <1>6, <1>7 DEF LaunchInv, LaunchTypeOK
<1>11. InCall(t)'
  BY <1>1, <1>3, <1>4, <1>7, <1>8 DEF InCall, Handle
<1>12. AtStep(t)'
  BY <1>1, <1>2, <1>4, <1>5, <1>6, <1>7, <1>8 DEF AtStep, Handle, Hooked
<1>13. EntrySound(mine)'
  <2>1. EntrySound(mine) /\ file[mine] # NoFile
    BY <1>1, <1>2 DEF LaunchInv, InCall
  <2> QED
    BY <2>1, <1>4, <1>5, <1>6, <1>8 DEF EntrySound
<1> QED
  BY <1>1, <1>2, <1>7, <1>9, <1>10, <1>11, <1>12, <1>13, StepPreserves

LEMMA SyncPreserves ==
    ASSUME LaunchInv, NEW t \in Threads, SyncKernelCursor(t)
    PROVE  LaunchInv'
<1> DEFINE r == [call[t] EXCEPT !.pc = "done"]
<1>1. /\ call[t] \in CallRec /\ InCall(t) /\ AtStep(t) /\ call[t].pc = "sync"
      /\ call[t].req \in Requests /\ call[t].req # NoRequest
  BY CallTypes, RequestTypes DEF SyncKernelCursor, Me, LaunchInv
<1>2. PICK mine \in Handles : mine = Handle(t)
  BY <1>1, CallTypes
<1>3. /\ kernel' = [kernel EXCEPT ![mine] = call[t].position] /\ call' = [call EXCEPT ![t] = r]
      /\ UNCHANGED <<file, handles, cached>>
  BY <1>2 DEF SyncKernelCursor, Handle, Goto
<1>4. /\ call[t].position = handles[mine].cursor /\ call[t].position \in Nat
      /\ call[t].req.op \in {"read", "seek"}
  BY <1>1, <1>2 DEF AtStep, CallRec, Handle
<1>5. r \in CallRec /\ r.req = call[t].req /\ r.answer = call[t].answer /\ r.pc = "done"
  BY <1>1 DEF CallRec, Pcs
<1> HIDE DEF r
<1>6. call'[t] = r /\ kernel'[mine] = handles'[mine].cursor
  BY <1>3, <1>4 DEF LaunchInv, LaunchTypeOK
<1>7. ThreadStep(t, r)
  BY <1>2, <1>3, <1>4, <1>5 DEF ThreadStep, LaunchInv, LaunchTypeOK, Positionless
<1>8. LaunchTypeOK' /\ cached' \subseteq Readable
  BY <1>3, <1>4, <1>5 DEF LaunchInv, LaunchTypeOK
<1>9. InCall(t)' /\ AtStep(t)'
  BY <1>1, <1>5, <1>6 DEF InCall, AtStep, Hooked
<1>10. EntrySound(mine)' /\ ~Lagging(mine)'
  BY <1>3, <1>6 DEF LaunchInv, EntrySound, Lagging
<1> QED
  BY <1>1, <1>2, <1>5, <1>7, <1>8, <1>9, <1>10, StepPreserves

LEMMA ClosePreserves ==
    ASSUME LaunchInv, NEW t \in Threads, Close(t)
    PROVE  LaunchInv'
<1> DEFINE answer == Answered(0, <<>>)
           r == [call[t] EXCEPT !.pc = IF call[t].pc = "remove" THEN "close" ELSE "done",
                                !.answer = answer]
<1>1. /\ call[t] \in CallRec /\ InCall(t) /\ AtStep(t) /\ call[t].pc \in {"remove", "close"}
      /\ call[t].req \in Requests /\ call[t].req # NoRequest /\ call[t].req.op = "close"
  <2>1. call[t].pc \in {"remove", "close"}
    BY DEF Close, Forget, Me
  <2> QED
    BY <2>1, CallTypes, RequestTypes DEF AtStep, LaunchInv
<1>2. PICK mine \in Handles : mine = Handle(t)
  BY <1>1, CallTypes
<1>3. answer \in Answers /\ answer.done
  <2>1. <<>> \in Seq(Line)
    OBVIOUS
  <2> QED
    BY <2>1 DEF Answered, Answers
<1>4. Unknown \in Entries /\ Unknown.kind = "unknown"
  BY NoEntry
<1>5. CASE Forget(t)
  <2>1. /\ handles' = [handles EXCEPT ![mine] = Unknown] /\ call' = [call EXCEPT ![t] = r]
        /\ UNCHANGED <<file, kernel, cached>> /\ call[t].pc = "remove"
    BY <1>5, <1>2 DEF Forget, Handle, Me
  <2> HIDE DEF answer
  <2>2. r \in CallRec /\ r.req = call[t].req /\ r.answer = answer /\ r.pc = "close"
    BY <1>1, <1>3, <2>1 DEF CallRec, Pcs
  <2> HIDE DEF r
  <2>3. call'[t] = r /\ handles'[mine] = Unknown
    BY <2>1 DEF LaunchInv, LaunchTypeOK
  <2>4. ThreadStep(t, r)
    BY <1>1, <1>2, <2>1, <2>2 DEF ThreadStep, LaunchInv, LaunchTypeOK, Positionless
  <2>5. LaunchTypeOK' /\ cached' \subseteq Readable
    BY <1>4, <2>1, <2>2 DEF LaunchInv, LaunchTypeOK
  <2>6. InCall(t)'
    BY <1>1, <1>3, <2>1, <2>2, <2>3 DEF InCall, Handle
  <2>7. AtStep(t)'
    BY <1>1, <1>2, <2>1, <2>2, <2>3 DEF AtStep, Handle, Hooked, answer
  <2>8. EntrySound(mine)' /\ ~Lagging(mine)'
    BY <1>4, <2>3 DEF EntrySound, Lagging
  <2> QED
    BY <1>1, <1>2, <2>2, <2>4, <2>5, <2>6, <2>7, <2>8, StepPreserves
<1>6. CASE ~Forget(t)
  <2>1. /\ file' = [file EXCEPT ![mine] = NoFile] /\ call' = [call EXCEPT ![t] = r]
        /\ UNCHANGED <<kernel, handles, cached>> /\ call[t].pc = "close"
    BY <1>6, <1>2 DEF Close, Handle, Me, Answer
  <2> HIDE DEF answer
  <2>2. r \in CallRec /\ r.req = call[t].req /\ r.answer = answer /\ r.pc = "done"
    BY <1>1, <1>3, <2>1 DEF CallRec, Pcs
  <2> HIDE DEF r
  <2>3. call'[t] = r /\ handles'[mine] = Unknown
    BY <1>1, <1>2, <2>1 DEF LaunchInv, LaunchTypeOK, AtStep, Handle
  <2>4. ThreadStep(t, r)
    BY <1>1, <1>2, <2>1, <2>2 DEF ThreadStep, LaunchInv, LaunchTypeOK, Positionless
  <2>5. LaunchTypeOK' /\ cached' \subseteq Readable
    BY <2>1, <2>2 DEF LaunchInv, LaunchTypeOK
  <2>6. InCall(t)' /\ AtStep(t)'
    BY <1>1, <1>3, <2>2, <2>3 DEF InCall, AtStep, Hooked
  <2>7. EntrySound(mine)' /\ ~Lagging(mine)'
    BY <1>4, <2>3 DEF EntrySound, Lagging
  <2> QED
    BY <1>1, <1>2, <2>2, <2>4, <2>5, <2>6, <2>7, StepPreserves
<1> QED
  BY <1>5, <1>6

\* A text is not shorter for being rewritten, so a seek that is too far back in
\* what is shown is too far back in the file.
LEMMA TooFarBack ==
    ASSUME LaunchInv, NEW t \in Threads, call[t].pc = "original", call[t].req.op = "seek",
           handles[Handle(t)].kind = "virtual"
    PROVE  SeekBase(call[t].req, Text[file[Handle(t)]], kernel[Handle(t)]) + call[t].req.count < 0
<1> DEFINE f == file[Handle(t)]
           entry == handles[Handle(t)]
<1>1. /\ call[t].req \in Requests /\ Handle(t) \in Handles /\ AtStep(t)
      /\ call[t].req.count \in Int /\ call[t].req.from \in {"begin", "cursor", "end"}
  BY CallTypes, RequestTypes DEF LaunchInv
<1>2. f \in Files /\ entry.lines = Rewritten(Text[f]) /\ entry.cursor = kernel[Handle(t)]
      /\ kernel[Handle(t)] \in Nat
  BY <1>1, CursorsTogether
  DEF LaunchInv, LaunchTypeOK, EntrySound, Lagging, Readable, Languages
<1>3. SeekBase(call[t].req, entry.lines, entry.cursor) + call[t].req.count < 0
  BY <1>1 DEF AtStep, Handle
<1>4. Len(Text[f]) \in Nat /\ Len(Rewritten(Text[f])) \in {Len(Text[f]), Len(Text[f]) + 1}
  <2>1. Text[f] \in Seq(Line)
    BY <1>2, LanguageTextAssumption
  <2> QED
    BY <2>1, RewrittenLines, LenProperties
<1> HIDE DEF f, entry
<1>5. SeekBase(call[t].req, Text[f], kernel[Handle(t)]) + call[t].req.count < 0
  BY <1>1, <1>2, <1>3, <1>4 DEF SeekBase
<1> QED
  BY <1>5 DEF f

\* The original function moves the kernel's cursor of what is passed through.
LEMMA MovedPreserves ==
    ASSUME LaunchInv, NEW t \in Threads, call[t].pc = "original",
           handles[Handle(t)].kind = "passthrough",
           NEW number \in Int, NEW lines \in Seq(Line), NEW to \in Nat,
           Answer(t, number, lines), kernel' = [kernel EXCEPT ![Handle(t)] = to],
           UNCHANGED <<file, handles, cached>>
    PROVE  LaunchInv'
<1> DEFINE r == [call[t] EXCEPT !.pc = "done", !.answer = Answered(number, lines)]
<1>1. call[t] \in CallRec /\ Answered(number, lines) \in Answers /\ call[t].req # NoRequest
  BY CallTypes, RequestTypes DEF Answered, Answers
<1>2. PICK mine \in Handles : mine = Handle(t)
  BY CallTypes
<1>3. /\ r \in CallRec /\ r.req = call[t].req /\ r.pc = "done"
      /\ r.answer = Answered(number, lines)
  BY <1>1 DEF CallRec, Pcs
<1>4. call' = [call EXCEPT ![t] = r] /\ kernel' = [kernel EXCEPT ![mine] = to]
  BY <1>2 DEF Answer
<1> HIDE DEF r
<1>5. call'[t] = r
  BY <1>4 DEF LaunchInv, LaunchTypeOK
<1>6. ThreadStep(t, r)
  BY <1>2, <1>3, <1>4 DEF ThreadStep, LaunchInv, LaunchTypeOK, Positionless
<1>7. LaunchTypeOK' /\ cached' \subseteq Readable
  BY <1>3, <1>4 DEF LaunchInv, LaunchTypeOK
<1>8. InCall(t)' /\ AtStep(t)'
  BY <1>1, <1>3, <1>5 DEF InCall, AtStep, Hooked, Answered
<1>9. EntrySound(mine)' /\ ~Lagging(mine)'
  BY <1>2 DEF LaunchInv, EntrySound, Lagging
<1> QED
  BY <1>2, <1>3, <1>6, <1>7, <1>8, <1>9, StepPreserves

LEMMA AtOriginal ==
    ASSUME LaunchInv, NEW t \in Threads, call[t].pc = "original"
    PROVE  /\ call[t].req \in Requests /\ Handle(t) \in Handles
           /\ call[t].req.at \in Nat /\ call[t].req.count \in Int
           /\ call[t].req.from \in {"begin", "cursor", "end"}
           /\ call[t].req.op \in Ops \ {"close"}
           /\ file[Handle(t)] \in Files /\ kernel[Handle(t)] \in Nat
           /\ Text[file[Handle(t)]] \in Seq(Line) /\ Len(Text[file[Handle(t)]]) \in Nat
           /\ handles[Handle(t)].kind \in {"passthrough", "virtual"}
           /\ handles[Handle(t)].kind = "virtual" => call[t].req.op \in {"map", "seek"}
<1>1. /\ call[t].req \in Requests /\ Handle(t) \in Handles /\ InCall(t) /\ AtStep(t)
  BY CallTypes DEF LaunchInv
<1>2. file[Handle(t)] \in Files /\ kernel[Handle(t)] \in Nat
      /\ handles[Handle(t)] \in Entries
  BY <1>1 DEF LaunchInv, LaunchTypeOK, InCall
<1>3. Text[file[Handle(t)]] \in Seq(Line) /\ Len(Text[file[Handle(t)]]) \in Nat
  BY <1>2, LanguageTextAssumption, LenProperties
<1> QED
  BY <1>1, <1>2, <1>3, RequestTypes DEF AtStep, Handle, Hooked, Entries

\* What the original function does and answers, by what it is asked.
LEMMA OriginalEffect ==
    ASSUME NEW t \in Threads, Original(t),
           SeekBase(call[t].req, Text[file[Handle(t)]], kernel[Handle(t)])
               + call[t].req.count \in Int
    PROVE  LET req == call[t].req
               h == Handle(t)
               lines == Text[file[h]]
               part == Part(lines, IF req.op = "read" THEN kernel[h] ELSE req.at, req.count)
               to == SeekBase(req, lines, kernel[h]) + req.count
           IN /\ req.op = "read" => Answer(t, Len(part), part)
                                    /\ kernel' = [kernel EXCEPT ![h] = kernel[h] + Len(part)]
              /\ req.op = "seek" /\ to >= 0 =>
                   Answer(t, to, <<>>) /\ kernel' = [kernel EXCEPT ![h] = to]
              /\ req.op = "seek" /\ to < 0 => Answer(t, -1, <<>>) /\ UNCHANGED kernel
              /\ req.op = "readAt" =>
                   /\ Answer(t, Len(part), part)
                   /\ \/ UNCHANGED kernel
                      \/ kernel' = [kernel EXCEPT ![h] = req.at + Len(part)]
              /\ req.op = "size" => Answer(t, Len(lines), <<>>) /\ UNCHANGED kernel
              /\ req.op = "map" => Answer(t, 0, lines) /\ UNCHANGED kernel
<1> DEFINE req == call[t].req
           h == Handle(t)
           lines == Text[file[h]]
           part == Part(lines, IF req.op = "read" THEN kernel[h] ELSE req.at, req.count)
           to == SeekBase(req, lines, kernel[h]) + req.count
<1>1. req.op = "read" => Answer(t, Len(part), part)
                         /\ kernel' = [kernel EXCEPT ![h] = kernel[h] + Len(part)]
  BY DEF Original, Handle
<1>2. ASSUME req.op = "seek", to >= 0
      PROVE  Answer(t, to, <<>>) /\ kernel' = [kernel EXCEPT ![h] = to]
  <2>1. ~(to < 0)
    BY <1>2
  <2> QED
    BY <1>2, <2>1 DEF Original, Handle
<1>3. ASSUME req.op = "seek", to < 0
      PROVE  Answer(t, -1, <<>>) /\ UNCHANGED kernel
  <2>1. ~(to >= 0)
    BY <1>3
  <2> QED
    BY <1>3, <2>1 DEF Original, Handle
<1>4. req.op = "readAt" =>
        /\ Answer(t, Len(part), part)
        /\ UNCHANGED kernel \/ kernel' = [kernel EXCEPT ![h] = req.at + Len(part)]
  BY DEF Original, Handle
<1>5. req.op = "size" => Answer(t, Len(lines), <<>>) /\ UNCHANGED kernel
  BY DEF Original, Handle
<1>6. req.op = "map" => Answer(t, 0, lines) /\ UNCHANGED kernel
  BY DEF Original, Handle
<1> HIDE DEF part, lines, to
<1> QED
  BY <1>1, <1>2, <1>3, <1>4, <1>5, <1>6 DEF part, lines, to

LEMMA OriginalPreserves ==
    ASSUME LaunchInv, NEW t \in Threads, Original(t)
    PROVE  LaunchInv'
<1> DEFINE req == call[t].req
           h == Handle(t)
           lines == Text[file[h]]
           part == Part(lines, IF req.op = "read" THEN kernel[h] ELSE req.at, req.count)
           to == SeekBase(req, lines, kernel[h]) + req.count
<1>1. call[t].pc = "original"
  BY DEF Original, Me
<1>2. /\ h \in Handles /\ req.at \in Nat /\ req.count \in Int /\ kernel[h] \in Nat
      /\ lines \in Seq(Line) /\ Len(lines) \in Nat /\ req.op \in Ops \ {"close"}
      /\ handles[h].kind \in {"passthrough", "virtual"}
      /\ handles[h].kind = "virtual" => req.op \in {"map", "seek"}
  BY <1>1, AtOriginal
<1>3. to \in Int
  BY <1>1, AtOriginal DEF SeekBase
<1>4. part \in Seq(Line) /\ Len(part) \in Nat
  BY <1>2, PartIsSequence
<1>5. <<>> \in Seq(Line) /\ UNCHANGED <<file, handles, cached>>
  BY DEF Original
<1>6. /\ req.op = "read" => Answer(t, Len(part), part)
                            /\ kernel' = [kernel EXCEPT ![h] = kernel[h] + Len(part)]
      /\ req.op = "seek" /\ to >= 0 => Answer(t, to, <<>>) /\ kernel' = [kernel EXCEPT ![h] = to]
      /\ req.op = "seek" /\ to < 0 => Answer(t, -1, <<>>) /\ UNCHANGED kernel
      /\ req.op = "readAt" =>
           /\ Answer(t, Len(part), part)
           /\ UNCHANGED kernel \/ kernel' = [kernel EXCEPT ![h] = req.at + Len(part)]
      /\ req.op = "size" => Answer(t, Len(lines), <<>>) /\ UNCHANGED kernel
      /\ req.op = "map" => Answer(t, 0, lines) /\ UNCHANGED kernel
  BY <1>3, OriginalEffect
<1>7. req.op = "seek" /\ to >= 0 => handles[h].kind = "passthrough"
  BY <1>1, <1>2, <1>3, TooFarBack
<1> HIDE DEF part, to, lines, h
<1>8. CASE req.op = "read"
  <2>1. kernel[h] + Len(part) \in Nat /\ Len(part) \in Int
    BY <1>2, <1>4
  <2> QED
    BY <1>1, <1>2, <1>4, <1>5, <1>6, <1>8, <2>1, MovedPreserves DEF h
<1>9. CASE req.op = "seek" /\ to >= 0
  <2>1. to \in Nat
    BY <1>3, <1>9
  <2> QED
    BY <1>1, <1>3, <1>5, <1>6, <1>7, <1>9, <2>1, MovedPreserves DEF h
<1>10. CASE req.op = "seek" /\ to < 0
  <2>1. Answer(t, -1, <<>>) /\ UNCHANGED kernel /\ -1 \in Int
    BY <1>6, <1>10
  <2> QED
    BY <1>1, <1>5, <2>1, NumberPreserves
<1>11. CASE req.op = "size"
  <2>1. Answer(t, Len(lines), <<>>) /\ UNCHANGED kernel /\ Len(lines) \in Int
    BY <1>2, <1>6, <1>11
  <2> QED
    BY <1>1, <1>5, <2>1, NumberPreserves
<1>12. CASE req.op = "map" \/ (req.op = "readAt" /\ UNCHANGED kernel)
  <2>1. Len(part) \in Int
    BY <1>4
  <2> QED
    BY <1>1, <1>2, <1>4, <1>5, <1>6, <1>12, <2>1, AnswerPreserves
<1>13. CASE req.op = "readAt" /\ kernel' = [kernel EXCEPT ![h] = req.at + Len(part)]
  <2>1. req.at + Len(part) \in Nat /\ Len(part) \in Int
    BY <1>2, <1>4
  <2>2. handles[h].kind = "passthrough" /\ Answer(t, Len(part), part)
    BY <1>2, <1>6, <1>13
  <2> QED
    BY <1>1, <1>4, <1>5, <1>13, <2>1, <2>2, MovedPreserves DEF h
<1> QED
  BY <1>2, <1>3, <1>6, <1>8, <1>9, <1>10, <1>11, <1>12, <1>13 DEF Ops

-----------------------------------------------------------------------------
(* The program's own steps.                                                *)

LEMMA OpenPreserves ==
    ASSUME LaunchInv, NEW h \in Handles, NEW f \in Files, Open(h, f)
    PROVE  LaunchInv'
<1>1. /\ file[h] = NoFile /\ file' = [file EXCEPT ![h] = f] /\ f # NoFile
      /\ kernel' = [kernel EXCEPT ![h] = 0] /\ UNCHANGED <<handles, cached, call>>
  BY LaunchInfoAssumption DEF Open
<1>2. handles[h] = Unknown /\ Unknown.kind = "unknown"
  BY <1>1 DEF LaunchInv, EntrySound, Unknown
<1>3. LaunchTypeOK' /\ Alone' /\ cached' \subseteq Readable
  BY <1>1 DEF LaunchInv, LaunchTypeOK, Alone, Handle
<1>4. ASSUME NEW u \in Threads
      PROVE  InCall(u)' /\ AtStep(u)'
  <2>1. CASE call[u].pc \in {"idle", "done"}
    BY <1>1, <2>1, Undisturbed
  <2>2. CASE call[u].pc \notin {"idle", "done"}
    <3>1. Handle(u) \in Handles /\ Handle(u) # h
      BY <1>1, <2>2, CallTypes DEF LaunchInv, InCall
    <3> QED
      BY <1>1, <2>2, <3>1, Undisturbed DEF LaunchInv, LaunchTypeOK
  <2> QED
    BY <2>1, <2>2
<1>5. ASSUME NEW g \in Handles
      PROVE  EntrySound(g)' /\ LaggingWhile(g)'
  <2>1. CASE g = h
    <3>1. file'[g] # NoFile /\ handles'[g].kind = "unknown"
      BY <1>1, <1>2, <2>1 DEF LaunchInv, LaunchTypeOK
    <3> QED
      BY <3>1 DEF EntrySound, LaggingWhile, Lagging
  <2>2. CASE g # h
    <3>1. file'[g] = file[g] /\ kernel'[g] = kernel[g]
      BY <1>1, <2>2 DEF LaunchInv, LaunchTypeOK
    <3> QED
      BY <1>1, <3>1 DEF LaunchInv, EntrySound, LaggingWhile, Lagging, Handle
  <2> QED
    BY <2>1, <2>2
<1> QED
  BY <1>3, <1>4, <1>5 DEF LaunchInv

\* With all hooks, a call begins in one of two places.
LEMMA CallEffect ==
    ASSUME AllHooked, LaunchInv, NEW t \in Threads, NEW req \in Requests, Call(t, req)
    PROVE  /\ call[t].pc = "idle" /\ file[req.handle] # NoFile
           /\ \A u \in Threads \ {t} : call[u].req # NoRequest /\ call[u].req.handle = req.handle =>
                req.op \in Positionless /\ call[u].req.op \in Positionless
           /\ call' = [call EXCEPT ![t] = [Idle EXCEPT
                  !.pc = IF req.op = "close" THEN "remove" ELSE "lookup", !.req = req]]
           /\ UNCHANGED <<file, kernel, handles, cached>>
<1>1. PICK export \in Exports(req.op) :
         LET closing == req.op = "close"
             hooked == export \in Hookable
         IN call' = [call EXCEPT ![t] = [Idle EXCEPT
                !.pc = CASE closing /\ hooked -> "remove" [] closing /\ ~hooked -> "close"
                         [] ~closing /\ hooked -> "lookup" [] OTHER -> "original",
                !.req = req]]
  BY DEF Call
<1>2. export \in Hookable
  BY RequestTypes DEF AllHooked
<1> QED
  BY <1>1, <1>2 DEF Call, Me

LEMMA CallPreserves ==
    ASSUME AllHooked, LaunchInv, NEW t \in Threads, NEW req \in Requests, Call(t, req)
    PROVE  LaunchInv'
<1> DEFINE r == [Idle EXCEPT !.pc = IF req.op = "close" THEN "remove" ELSE "lookup", !.req = req]
<1>1. /\ call[t].pc = "idle" /\ file[req.handle] # NoFile
      /\ \A u \in Threads \ {t} : call[u].req # NoRequest /\ call[u].req.handle = req.handle =>
           req.op \in Positionless /\ call[u].req.op \in Positionless
      /\ call' = [call EXCEPT ![t] = r] /\ UNCHANGED <<file, kernel, handles, cached>>
  BY CallEffect
<1>2. /\ r \in CallRec /\ r.req = req /\ ~r.answer.done /\ r.answer = Pending
      /\ r.pc = IF req.op = "close" THEN "remove" ELSE "lookup"
  <2>1. Idle \in CallRec /\ ~Idle.answer.done /\ Idle.answer = Pending
    BY IdleThread
  <2> QED
    BY <2>1 DEF CallRec, Pcs
<1> HIDE DEF r
<1>3. call'[t] = r /\ \A u \in Threads : u # t => call'[u] = call[u]
  BY <1>1 DEF LaunchInv, LaunchTypeOK
<1>4. LaunchTypeOK' /\ cached' \subseteq Readable
  BY <1>1, <1>2 DEF LaunchInv, LaunchTypeOK
<1>5. Alone'
  BY <1>1, <1>2, <1>3 DEF LaunchInv, Alone, Handle
<1>6. ASSUME NEW u \in Threads
      PROVE  InCall(u)' /\ AtStep(u)'
  <2>1. CASE u = t
    <3>1. InCall(t)'
      BY <1>1, <1>2, <1>3, RequestTypes DEF InCall, Handle
    <3>2. AtStep(t)'
      BY <1>2, <1>3 DEF AtStep, Hooked
    <3> QED
      BY <2>1, <3>1, <3>2
  <2>2. CASE u # t
    BY <1>1, <1>3, <2>2, Undisturbed
  <2> QED
    BY <2>1, <2>2
<1>7. ASSUME NEW h \in Handles
      PROVE  EntrySound(h)' /\ LaggingWhile(h)'
  <2>1. EntrySound(h)'
    BY <1>1 DEF LaunchInv, EntrySound
  <2>2. LaggingWhile(h)'
    <3>1. SUFFICES ASSUME Lagging(h)'
                   PROVE  \E u \in Threads :
                            call'[u].req # NoRequest /\ Handle(u)' = h /\ call'[u].pc = "sync"
      BY DEF LaggingWhile
    <3>2. PICK u \in Threads : call[u].req # NoRequest /\ Handle(u) = h /\ call[u].pc = "sync"
      BY <1>1, <3>1 DEF LaunchInv, LaggingWhile, Lagging
    <3>3. call'[u] = call[u]
      BY <1>1, <1>3, <3>2
    <3> QED
      BY <3>2, <3>3 DEF Handle
  <2> QED
    BY <2>1, <2>2
<1> QED
  BY <1>4, <1>5, <1>6, <1>7 DEF LaunchInv

LEMMA LaunchInvInit == Init => LaunchInv
<1> SUFFICES ASSUME Init PROVE LaunchInv
  OBVIOUS
<1>1. Idle \in CallRec /\ Idle.pc = "idle" /\ Idle.req = NoRequest /\ ~Idle.answer.done
      /\ Idle.answer = Pending /\ Unknown \in Entries /\ Unknown.kind = "unknown"
  BY IdleThread, NoEntry
<1>2. LaunchTypeOK /\ cached \subseteq Readable
  BY <1>1 DEF Init, LaunchTypeOK
<1>3. Alone
  BY <1>1 DEF Init, Alone
<1>4. \A t \in Threads : InCall(t) /\ AtStep(t)
  BY <1>1 DEF Init, InCall, AtStep, Hooked
<1>5. \A h \in Handles : EntrySound(h) /\ LaggingWhile(h)
  BY <1>1 DEF Init, EntrySound, LaggingWhile, Lagging
<1> QED
  BY <1>2, <1>3, <1>4, <1>5 DEF LaunchInv

LEMMA LaunchInvStep == AllHooked /\ LaunchInv /\ [Next]_vars => LaunchInv'
<1> SUFFICES ASSUME AllHooked, LaunchInv, [Next]_vars PROVE LaunchInv'
  OBVIOUS
<1>1. CASE \E h \in Handles, f \in Files : Open(h, f)
  BY <1>1, OpenPreserves
<1>2. ASSUME NEW t \in Threads, NEW req \in Requests, Call(t, req) PROVE LaunchInv'
  BY <1>2, CallPreserves
<1>3. ASSUME NEW t \in Threads, Step(t) PROVE LaunchInv'
  <2>1. CASE Lookup(t) \/ Classify(t) \/ Load(t) \/ ReadCursor(t) \/ EnterTable(t)
    BY <2>1, LookupPreserves, ClassifyPreserves, LoadPreserves, ReadCursorPreserves,
       EnterTablePreserves
  <2>2. CASE Serve(t)
    BY <2>2, ReadAtCursorPreserves, SeekPreserves, AnsweringPreserves, AdvancePreserves,
       SyncPreserves DEF Serve
  <2>3. CASE Close(t) \/ Original(t) \/ Return(t)
    BY <2>3, ClosePreserves, OriginalPreserves, ReturnPreserves
  <2> QED
    BY <1>3, <2>1, <2>2, <2>3 DEF Step
<1>4. CASE UNCHANGED vars
  <2>1. LaunchTypeOK' /\ Alone' /\ cached' \subseteq Readable
    BY <1>4 DEF vars, LaunchInv, LaunchTypeOK, Alone, Handle
  <2>2. \A t \in Threads : InCall(t)' /\ AtStep(t)'
    BY <1>4, SMTT(30) DEF vars, LaunchInv, InCall, AtStep, Handle
  <2>3. \A h \in Handles : EntrySound(h)' /\ LaggingWhile(h)'
    BY <1>4 DEF vars, LaunchInv, EntrySound, LaggingWhile, Lagging, Handle
  <2> QED
    BY <2>1, <2>2, <2>3 DEF LaunchInv
<1> QED
  BY <1>1, <1>2, <1>3, <1>4 DEF Next

\* What every thread has found out of its handle holds when it uses it, whatever
\* the others do; what is in the table is a file that is open.
THEOREM LaunchInvariant == AllHooked => (Spec => []LaunchInv)
<1> SUFFICES ASSUME AllHooked PROVE Spec => []LaunchInv
  OBVIOUS
<1>1. LaunchInv /\ [Next]_vars => LaunchInv'
  BY LaunchInvStep
<1> QED
  BY <1>1, LaunchInvInit, PTL DEF Spec

\* The table has entries of open files only, and the kernel's cursor is where
\* the text's is once nobody is busy with the handle (TableFollowsHandles).
THEOREM TableIsOfOpenFiles == AllHooked => (Spec => []TableFollowsHandles)
<1> SUFFICES ASSUME AllHooked PROVE Spec => []TableFollowsHandles
  OBVIOUS
<1>1. LaunchInv => TableFollowsHandles
  <2> SUFFICES ASSUME LaunchInv PROVE TypeOK /\ CursorsAgree
    BY DEF TableFollowsHandles
  <2>1. TypeOK
    BY DEF LaunchInv, LaunchTypeOK, EntrySound, TypeOK, Entries, CallRec, Readable, Languages
  <2>2. CursorsAgree
    BY DEF LaunchInv, LaggingWhile, Lagging, CursorsAgree, Handle
  <2> QED
    BY <2>1, <2>2
<1>2. Spec => []LaunchInv
  BY LaunchInvariant
<1> QED
  BY <1>1, <1>2, PTL

-----------------------------------------------------------------------------
(* The refinement.  What PlainFile's variables stand for, as the instance  *)
(* Plain has it.                                                           *)

OpenedOf(h) == IF Closing(h) THEN NoFile ELSE file[h]
ShownOf(h) ==
    [decided |-> handles[h].kind # "unknown",
     lines |-> CASE handles[h].kind = "virtual" -> handles[h].lines
                 [] handles[h].kind = "passthrough" /\ file[h] # NoFile -> Text[file[h]]
                 [] OTHER -> <<>>]
CursorOf(h) == IF handles[h].kind = "virtual" THEN handles[h].cursor ELSE kernel[h]

opened == [h \in Handles |-> OpenedOf(h)]
shown == [h \in Handles |-> ShownOf(h)]
cursor == [h \in Handles |-> CursorOf(h)]
asked == [t \in Threads |-> call[t].req]
answer == [t \in Threads |-> call[t].answer]
plainVars == <<opened, shown, cursor, asked, answer>>

LEMMA PlainVars == UNCHANGED plainVars => UNCHANGED Plain!vars
  BY DEF plainVars, opened, shown, cursor, asked, answer, OpenedOf, ShownOf, CursorOf, Plain!vars

LEMMA PlainPart ==
    \A lines, from, count : Plain!Part(lines, from, count) = Part(lines, from, count)
  BY DEF Plain!Part, Part

LEMMA PlainOpen ==
    ASSUME NEW h \in Handles, NEW f \in Files, opened[h] = NoFile,
           opened' = [opened EXCEPT ![h] = f], cursor' = [cursor EXCEPT ![h] = 0],
           UNCHANGED <<shown, asked, answer>>
    PROVE  Plain!Open(h, f)
  BY DEF Plain!Open, opened, shown, cursor, asked, answer, OpenedOf, ShownOf, CursorOf

LEMMA PlainAsk ==
    ASSUME NEW t \in Threads, NEW req \in Requests, asked[t] = NoRequest,
           opened[req.handle] # NoFile, asked' = [asked EXCEPT ![t] = req],
           UNCHANGED <<opened, shown, cursor, answer>>
    PROVE  Plain!Ask(t, req)
  BY DEF Plain!Ask, opened, shown, cursor, asked, answer, OpenedOf, ShownOf, CursorOf

LEMMA PlainDecide ==
    ASSUME NEW h \in Handles, opened[h] # NoFile, ~shown[h].decided,
           shown'[h].decided,
           IF opened[h] \in Readable
           THEN Launched(Text[opened[h]], shown'[h].lines)
           ELSE shown'[h].lines = Text[opened[h]],
           shown' = [shown EXCEPT ![h] = shown'[h]],
           UNCHANGED <<opened, cursor, asked, answer>>
    PROVE  Plain!Decide(h)
<1>1. \A lines, lines1 : Launched(lines, lines1) <=> Plain!Launched(lines, lines1)
  BY DEF Launched, Plain!Launched, IsCopyright, Plain!IsCopyright
<1> QED
  BY <1>1 DEF Plain!Decide, opened, shown, cursor, asked, answer, OpenedOf, ShownOf, CursorOf,
     Readable, Languages

LEMMA PlainGoOn ==
    ASSUME NEW t \in Threads, answer[t].done,
           asked' = [asked EXCEPT ![t] = NoRequest], answer' = [answer EXCEPT ![t] = Pending],
           UNCHANGED <<opened, shown, cursor>>
    PROVE  Plain!GoOn(t)
  BY DEF Plain!GoOn, Plain!Pending, Pending, opened, shown, cursor, asked, answer, OpenedOf,
     ShownOf, CursorOf

Perform(t) ==
    /\ asked[t] # NoRequest /\ ~answer[t].done
    /\ LET req == asked[t]
           h == req.handle
           lines == shown[h].lines
           to == SeekBase(req, lines, cursor[h]) + req.count
           Tell(number, part) == answer' = [answer EXCEPT ![t] = Answered(number, part)]
           MoveTo(position) == cursor' = [cursor EXCEPT ![h] = position]
       IN \/ /\ req.op = "read" /\ shown[h].decided
             /\ LET part == Part(lines, cursor[h], req.count)
                IN Tell(Len(part), part) /\ MoveTo(cursor[h] + Len(part))
             /\ UNCHANGED <<opened, shown>>
          \/ /\ req.op = "readAt" /\ shown[h].decided
             /\ LET part == Part(lines, req.at, req.count)
                IN /\ Tell(Len(part), part)
                   /\ \/ UNCHANGED cursor
                      \/ opened[h] \notin Readable /\ MoveTo(req.at + Len(part))
             /\ UNCHANGED <<opened, shown>>
          \/ /\ req.op = "seek" /\ shown[h].decided
             /\ \/ to < 0 /\ Tell(-1, <<>>) /\ UNCHANGED cursor
                \/ ~(to < 0) /\ Tell(to, <<>>) /\ MoveTo(to)
             /\ UNCHANGED <<opened, shown>>
          \/ /\ req.op = "size" /\ shown[h].decided /\ Tell(Len(lines), <<>>)
             /\ UNCHANGED <<opened, shown, cursor>>
          \/ /\ req.op = "map" /\ shown[h].decided
             /\ Tell(0, lines) \/ Tell(0, Text[opened[h]])
             /\ UNCHANGED <<opened, shown, cursor>>
          \/ /\ req.op = "close" /\ Tell(0, <<>>)
             /\ opened' = [opened EXCEPT ![h] = NoFile]
             /\ shown' = [shown EXCEPT ![h] = Plain!Undecided]
             /\ UNCHANGED cursor
    /\ UNCHANGED asked

LEMMA PlainPerform ==
    ASSUME NEW t \in Threads, Perform(t), asked[t].from \in {"begin", "cursor", "end"}
    PROVE  Plain!Perform(t)
<1> USE PlainPart DEF Plain!Perform, Perform, opened, shown, cursor, asked, answer, OpenedOf,
     ShownOf, CursorOf, Plain!Answered, Answered
<1>1. CASE asked[t].op = "read"
  BY <1>1
<1>2. CASE asked[t].op = "readAt"
  BY <1>2 DEF Readable, Languages
<1>3. CASE asked[t].op = "seek"
  <2>1. CASE asked[t].from = "begin"
    BY <1>3, <2>1 DEF SeekBase
  <2>2. CASE asked[t].from = "cursor"
    BY <1>3, <2>2 DEF SeekBase
  <2>3. CASE asked[t].from = "end"
    BY <1>3, <2>3 DEF SeekBase
  <2> QED
    BY <2>1, <2>2, <2>3
<1>4. CASE asked[t].op = "size"
  BY <1>4
<1>5. CASE asked[t].op = "map"
  BY <1>5
<1>6. CASE asked[t].op = "close"
  BY <1>6
<1> QED
  BY <1>1, <1>2, <1>3, <1>4, <1>5, <1>6

\* What a step leaves alone of all this: everything but what concerns its thread
\* and its handle, unless it closes the handle.
LEMMA PlainFrame ==
    ASSUME LaunchInv, NEW t \in Threads, NEW r, call' = [call EXCEPT ![t] = r],
           call[t].pc # "close", r.pc # "close", file' = file, NEW mine \in Handles,
           \A h \in Handles \ {mine} : kernel'[h] = kernel[h] /\ handles'[h] = handles[h]
    PROVE  /\ opened' = opened /\ asked' = [asked EXCEPT ![t] = r.req]
           /\ answer' = [answer EXCEPT ![t] = r.answer]
           /\ shown' = [shown EXCEPT ![mine] = ShownOf(mine)']
           /\ cursor' = [cursor EXCEPT ![mine] = CursorOf(mine)']
<1>1. call'[t] = r /\ \A u \in Threads : u # t => call'[u] = call[u]
  BY DEF LaunchInv, LaunchTypeOK
<1>2. ASSUME NEW h \in Handles
      PROVE  Closing(h)' <=> Closing(h)
  BY <1>1 DEF Closing, Me
<1>3. ASSUME NEW h \in Handles
      PROVE  OpenedOf(h)' = OpenedOf(h)
  BY <1>2 DEF OpenedOf
<1>4. ASSUME NEW h \in Handles, h # mine
      PROVE  ShownOf(h)' = ShownOf(h) /\ CursorOf(h)' = CursorOf(h)
  BY <1>4 DEF ShownOf, CursorOf
<1>5. opened' = opened
  BY <1>3 DEF opened
<1>6. asked' = [asked EXCEPT ![t] = r.req]
  <2>1. \A u \in Threads : asked'[u] = [asked EXCEPT ![t] = r.req][u]
    BY <1>1 DEF asked
  <2> QED
    BY <2>1 DEF asked
<1>8. answer' = [answer EXCEPT ![t] = r.answer]
  <2>1. \A u \in Threads : answer'[u] = [answer EXCEPT ![t] = r.answer][u]
    BY <1>1 DEF answer
  <2> QED
    BY <2>1 DEF answer
<1>7. shown' = [shown EXCEPT ![mine] = ShownOf(mine)']
      /\ cursor' = [cursor EXCEPT ![mine] = CursorOf(mine)']
  BY <1>4 DEF shown, cursor
<1> QED
  BY <1>5, <1>6, <1>7, <1>8

\* What a thread of the hooks sees of its handle.
LEMMA PlainHandle ==
    ASSUME LaunchInv, NEW t \in Threads, call[t].pc \notin {"idle", "done", "close"},
           NEW mine \in Handles, mine = Handle(t)
    PROVE  /\ asked[t] = call[t].req /\ asked[t] \in Requests /\ asked[t] # NoRequest
           /\ answer[t] = call[t].answer /\ asked[t].handle = mine
           /\ asked[t].from \in {"begin", "cursor", "end"}
           /\ opened[mine] = file[mine] /\ file[mine] \in Files /\ opened[mine] # NoFile
           /\ shown[mine] = ShownOf(mine) /\ cursor[mine] = CursorOf(mine)
<1>1. call[t].req \in Requests /\ InCall(t)
  BY CallTypes DEF LaunchInv
<1>2. ~Closing(mine)
  <2> SUFFICES ASSUME NEW u \in Threads, call[u].req # NoRequest, Handle(u) = mine,
                      call[u].pc = "close"
               PROVE  FALSE
    BY DEF Closing, Me, Handle
  <2>1. u # t /\ call[u].req.op = "close"
    BY DEF LaunchInv, AtStep
  <2> QED
    BY <1>1, <2>1, RequestTypes DEF LaunchInv, Alone, Positionless
<1>3. file[mine] \in Files /\ file[mine] # NoFile
  BY <1>1 DEF LaunchInv, LaunchTypeOK, InCall
<1>4. opened[mine] = file[mine] /\ shown[mine] = ShownOf(mine) /\ cursor[mine] = CursorOf(mine)
  BY <1>2 DEF opened, shown, cursor, OpenedOf
<1>5. asked[t] = call[t].req /\ answer[t] = call[t].answer
  BY DEF asked, answer
<1> QED
  BY <1>1, <1>3, <1>4, <1>5, RequestTypes DEF Handle

\* Steps that a program does not see.
LEMMA Unseen ==
    ASSUME LaunchInv, NEW t \in Threads, NEW r, call' = [call EXCEPT ![t] = r],
           call[t].pc # "close", r.pc # "close", r.req = call[t].req,
           r.answer = call[t].answer, file' = file, NEW mine \in Handles,
           \A h \in Handles \ {mine} : kernel'[h] = kernel[h] /\ handles'[h] = handles[h],
           ShownOf(mine)' = ShownOf(mine), CursorOf(mine)' = CursorOf(mine)
    PROVE  UNCHANGED plainVars
<1>1. /\ opened' = opened /\ asked' = [asked EXCEPT ![t] = r.req]
      /\ answer' = [answer EXCEPT ![t] = r.answer]
      /\ shown' = [shown EXCEPT ![mine] = ShownOf(mine)']
      /\ cursor' = [cursor EXCEPT ![mine] = CursorOf(mine)']
  BY PlainFrame
<1>2. asked' = asked /\ answer' = answer
  BY <1>1 DEF asked, answer
<1>3. shown' = shown /\ cursor' = cursor
  BY <1>1 DEF shown, cursor
<1> QED
  BY <1>1, <1>2, <1>3 DEF plainVars

LEMMA OwnUnseen ==
    ASSUME LaunchInv, NEW t \in Threads, NEW r, call' = [call EXCEPT ![t] = r],
           call[t].pc \notin {"idle", "close"}, r.pc # "close", r.req = call[t].req,
           r.answer = call[t].answer, UNCHANGED <<file, kernel, handles>>
    PROVE  UNCHANGED plainVars
<1>1. PICK mine \in Handles : mine = Handle(t)
  BY CallTypes
<1>2. ShownOf(mine)' = ShownOf(mine) /\ CursorOf(mine)' = CursorOf(mine)
  BY DEF ShownOf, CursorOf
<1> QED
  BY <1>2, Unseen

LEMMA LookupUnseen ==
    ASSUME LaunchInv, NEW t \in Threads, Lookup(t)
    PROVE  UNCHANGED plainVars
<1> DEFINE entry == handles[Handle(t)]
           r == IF entry.kind = "unknown" THEN [call[t] EXCEPT !.pc = "classify"]
                ELSE [call[t] EXCEPT !.pc = IF entry.kind = "virtual" THEN "serve" ELSE "original",
                                     !.lines = entry.lines]
<1>1. call[t].pc = "lookup" /\ call[t] \in CallRec
  BY CallTypes DEF Lookup, Me
<1>2. r.req = call[t].req /\ r.answer = call[t].answer /\ r.pc # "close"
  BY <1>1 DEF CallRec
<1>3. call' = [call EXCEPT ![t] = r] /\ UNCHANGED <<file, kernel, handles>>
  BY DEF Lookup, Goto, With, Handle
<1> HIDE DEF r
<1> QED
  BY <1>1, <1>2, <1>3, OwnUnseen

LEMMA ReadCursorUnseen ==
    ASSUME LaunchInv, NEW t \in Threads, ReadCursor(t)
    PROVE  UNCHANGED plainVars
<1> DEFINE r == [call[t] EXCEPT !.pc = "enter", !.position = kernel[call[t].req.handle]]
<1>1. call[t].pc = "cursor" /\ call[t] \in CallRec
  BY CallTypes DEF ReadCursor, Me
<1>2. r.req = call[t].req /\ r.answer = call[t].answer /\ r.pc # "close"
  BY <1>1 DEF CallRec
<1>3. call' = [call EXCEPT ![t] = r] /\ UNCHANGED <<file, kernel, handles>>
  BY DEF ReadCursor
<1> HIDE DEF r
<1> QED
  BY <1>1, <1>2, <1>3, OwnUnseen

LEMMA ReadAtCursorUnseen ==
    ASSUME LaunchInv, NEW t \in Threads, ReadAtCursor(t)
    PROVE  UNCHANGED plainVars
<1> DEFINE offset == handles[call[t].req.handle].cursor
           part == Part(call[t].lines, offset, call[t].req.count)
           r == [call[t] EXCEPT !.pc = "advance", !.part = part, !.position = offset + Len(part)]
<1>1. call[t].pc = "serve" /\ call[t] \in CallRec
  BY CallTypes DEF ReadAtCursor, Serving, Me
<1>2. call' = [call EXCEPT ![t] = r] /\ UNCHANGED <<file, kernel, handles>>
  BY DEF ReadAtCursor
<1> HIDE DEF part, offset
<1>3. r.req = call[t].req /\ r.answer = call[t].answer /\ r.pc # "close"
  BY <1>1 DEF CallRec
<1> HIDE DEF r
<1> QED
  BY <1>1, <1>2, <1>3, OwnUnseen

\* Handing over to the original function.
LEMMA HandingOverUnseen ==
    ASSUME LaunchInv, NEW t \in Threads, call[t].pc = "serve", Goto(t, "original"),
           UNCHANGED <<file, kernel, handles>>
    PROVE  UNCHANGED plainVars
<1> DEFINE r == [call[t] EXCEPT !.pc = "original"]
<1>1. call[t] \in CallRec
  BY CallTypes
<1>2. r.req = call[t].req /\ r.answer = call[t].answer /\ r.pc # "close"
  BY <1>1 DEF CallRec
<1>3. call' = [call EXCEPT ![t] = r]
  BY DEF Goto
<1> HIDE DEF r
<1> QED
  BY <1>2, <1>3, OwnUnseen

LEMMA SeekUnseen ==
    ASSUME LaunchInv, NEW t \in Threads, Seek(t)
    PROVE  UNCHANGED plainVars
<1> DEFINE to == SeekBase(call[t].req, call[t].lines, handles[call[t].req.handle].cursor)
                     + call[t].req.count
           r == [call[t] EXCEPT !.pc = "advance", !.position = to]
<1>1. call[t].pc = "serve" /\ call[t] \in CallRec
  BY CallTypes DEF Seek, Serving, Me
<1>2. /\ Goto(t, "original") \/ call' = [call EXCEPT ![t] = r]
      /\ UNCHANGED <<file, kernel, handles>>
  BY DEF Seek
<1> HIDE DEF to
<1>3. r.req = call[t].req /\ r.answer = call[t].answer /\ r.pc # "close"
  BY <1>1 DEF CallRec
<1> HIDE DEF r
<1> QED
  BY <1>1, <1>2, <1>3, OwnUnseen, HandingOverUnseen

LEMMA SyncUnseen ==
    ASSUME LaunchInv, NEW t \in Threads, SyncKernelCursor(t)
    PROVE  UNCHANGED plainVars
<1> DEFINE r == [call[t] EXCEPT !.pc = "done"]
<1>1. call[t].pc = "sync" /\ call[t] \in CallRec /\ AtStep(t)
  BY CallTypes DEF SyncKernelCursor, Me, LaunchInv
<1>2. PICK mine \in Handles : mine = Handle(t)
  BY <1>1, CallTypes
<1>3. r.req = call[t].req /\ r.answer = call[t].answer /\ r.pc # "close"
  BY <1>1 DEF CallRec
<1>4. call' = [call EXCEPT ![t] = r] /\ UNCHANGED <<file, handles>>
      /\ kernel' = [kernel EXCEPT ![mine] = call[t].position]
  BY <1>2 DEF SyncKernelCursor, Goto, Handle
<1>5. \A h \in Handles \ {mine} : kernel'[h] = kernel[h] /\ handles'[h] = handles[h]
  BY <1>4 DEF LaunchInv, LaunchTypeOK
<1>6. handles[mine].kind = "virtual"
  BY <1>1, <1>2 DEF AtStep, Handle
<1>7. ShownOf(mine)' = ShownOf(mine) /\ CursorOf(mine)' = CursorOf(mine)
  BY <1>4, <1>6 DEF ShownOf, CursorOf
<1> HIDE DEF r
<1> QED
  BY <1>1, <1>3, <1>4, <1>5, <1>7, Unseen

\* A file that is passed through has the content it has on the disk.
LEMMA PassThroughDecides ==
    ASSUME LaunchInv, NEW t \in Threads, call[t].pc \in {"classify", "load"},
           file[Handle(t)] \notin Readable, Goto(t, "original"),
           handles' = [handles EXCEPT ![Handle(t)] = Passthrough], UNCHANGED <<file, kernel>>
    PROVE  UNCHANGED plainVars \/ \E h \in Handles : Plain!Decide(h)
<1> DEFINE r == [call[t] EXCEPT !.pc = "original"]
<1>1. call[t] \in CallRec
  BY CallTypes
<1>2. PICK mine \in Handles : mine = Handle(t)
  BY CallTypes
<1>3. r.req = call[t].req /\ r.answer = call[t].answer /\ r.pc # "close"
  BY <1>1 DEF CallRec
<1>4. call' = [call EXCEPT ![t] = r] /\ handles' = [handles EXCEPT ![mine] = Passthrough]
  BY <1>2 DEF Goto
<1>5. /\ \A h \in Handles \ {mine} : kernel'[h] = kernel[h] /\ handles'[h] = handles[h]
      /\ handles'[mine] = Passthrough
  BY <1>4 DEF LaunchInv, LaunchTypeOK
<1>6. EntrySound(mine) /\ handles[mine].kind \in {"unknown", "passthrough"}
  BY <1>2 DEF LaunchInv, LaunchTypeOK, Entries, EntrySound
<1>7. /\ opened[mine] = file[mine] /\ file[mine] \in Files /\ opened[mine] # NoFile
      /\ shown[mine] = ShownOf(mine) /\ cursor[mine] = CursorOf(mine)
  BY <1>2, PlainHandle
<1> HIDE DEF r
<1>8. CASE handles[mine].kind = "passthrough"
  <2>1. ShownOf(mine)' = ShownOf(mine) /\ CursorOf(mine)' = CursorOf(mine)
    BY <1>5, <1>6, <1>8 DEF EntrySound, ShownOf, CursorOf
  <2> QED
    BY <1>3, <1>4, <1>5, <2>1, Unseen
<1>9. CASE handles[mine].kind = "unknown"
  <2>1. /\ opened' = opened /\ asked' = [asked EXCEPT ![t] = r.req]
        /\ answer' = [answer EXCEPT ![t] = r.answer]
        /\ shown' = [shown EXCEPT ![mine] = ShownOf(mine)']
        /\ cursor' = [cursor EXCEPT ![mine] = CursorOf(mine)']
    BY <1>3, <1>4, <1>5, PlainFrame
  <2>2. /\ ~ShownOf(mine).decided /\ ShownOf(mine)'.decided
        /\ ShownOf(mine)'.lines = Text[file[mine]] /\ CursorOf(mine)' = CursorOf(mine)
    BY <1>5, <1>7, <1>9, NoEntry DEF ShownOf, CursorOf
  <2>3. shown'[mine] = ShownOf(mine)'
    BY DEF shown
  <2>4. UNCHANGED <<opened, cursor, asked, answer>>
    <3>1. opened' = opened /\ cursor' = cursor
      BY <1>7, <2>1, <2>2 DEF cursor
    <3>2. asked' = asked /\ answer' = answer
      BY <1>3, <2>1 DEF asked, answer
    <3> QED
      BY <3>1, <3>2
  <2>5. opened[mine] \notin Readable
    BY <1>2, <1>7
  <2>6. /\ ~shown[mine].decided /\ shown'[mine].decided
        /\ shown'[mine].lines = Text[opened[mine]] /\ shown' = [shown EXCEPT ![mine] = shown'[mine]]
    BY <1>7, <2>1, <2>2, <2>3
  <2>7. Plain!Decide(mine)
    BY <1>7, <2>4, <2>5, <2>6, PlainDecide
  <2> QED
    BY <2>7
<1> QED
  BY <1>6, <1>8, <1>9

LEMMA ClassifyMaps ==
    ASSUME LaunchInv, NEW t \in Threads, Classify(t)
    PROVE  UNCHANGED plainVars \/ \E h \in Handles : Plain!Decide(h)
<1> DEFINE f == file[call[t].req.handle]
           r == [call[t] EXCEPT !.pc = IF f \in cached THEN "cursor" ELSE "load",
                                !.lines = IF f \in cached THEN Rewritten(Text[f]) ELSE <<>>]
<1>1. call[t] \in CallRec /\ call[t].pc = "classify" /\ f = file[Handle(t)]
  BY CallTypes DEF Classify, Me, Handle
<1>2. CASE ~IsTargetLanguagePath(FinalPath(f))
  <2>1. /\ handles' = [handles EXCEPT ![Handle(t)] = Passthrough] /\ Goto(t, "original")
        /\ UNCHANGED <<file, kernel>>
    BY <1>2 DEF Classify, Handle
  <2>2. f \notin Readable
    BY <1>2 DEF Readable, Languages
  <2> QED
    BY <1>1, <2>1, <2>2, PassThroughDecides
<1>3. CASE IsTargetLanguagePath(FinalPath(f))
  <2>1. call' = [call EXCEPT ![t] = r] /\ UNCHANGED <<file, kernel, handles>>
    BY <1>3 DEF Classify
  <2>2. r.req = call[t].req /\ r.answer = call[t].answer /\ r.pc # "close"
    BY <1>1 DEF CallRec
  <2> HIDE DEF r
  <2> QED
    BY <1>1, <2>1, <2>2, OwnUnseen
<1> QED
  BY <1>2, <1>3

LEMMA LoadMaps ==
    ASSUME LaunchInv, NEW t \in Threads, Load(t)
    PROVE  UNCHANGED plainVars \/ \E h \in Handles : Plain!Decide(h)
<1> DEFINE f == file[call[t].req.handle]
           r == [call[t] EXCEPT !.pc = "cursor", !.lines = Rewritten(Text[f])]
<1>1. call[t] \in CallRec /\ call[t].pc = "load" /\ f = file[Handle(t)]
  BY CallTypes DEF Load, Me, Handle
<1>2. CASE f \in Unreadable
  <2>1. /\ handles' = [handles EXCEPT ![Handle(t)] = Passthrough] /\ Goto(t, "original")
        /\ UNCHANGED <<file, kernel>>
    BY <1>2 DEF Load, Handle
  <2>2. f \notin Readable
    BY <1>2 DEF Readable
  <2> QED
    BY <1>1, <2>1, <2>2, PassThroughDecides
<1>3. CASE f \notin Unreadable
  <2>1. call' = [call EXCEPT ![t] = r] /\ UNCHANGED <<file, kernel, handles>>
    BY <1>3 DEF Load
  <2>2. r.req = call[t].req /\ r.answer = call[t].answer /\ r.pc # "close"
    BY <1>1 DEF CallRec
  <2> HIDE DEF r
  <2> QED
    BY <1>1, <2>1, <2>2, OwnUnseen
<1> QED
  BY <1>2, <1>3

\* The first to enter a text settles what the file has in it; the others find it.
LEMMA EnterTableMaps ==
    ASSUME LaunchInv, NEW t \in Threads, EnterTable(t)
    PROVE  UNCHANGED plainVars \/ \E h \in Handles : Plain!Decide(h)
<1>1. /\ call[t] \in CallRec /\ call[t].pc = "enter" /\ AtStep(t)
      /\ call[t].pc \notin {"idle", "done", "close"}
  BY CallTypes DEF EnterTable, Me, LaunchInv
<1>2. PICK mine \in Handles : mine = Handle(t)
  BY <1>1, CallTypes
<1> DEFINE entry == IF handles[mine].kind = "unknown"
                    THEN Virtual(call[t].lines, call[t].position) ELSE handles[mine]
           r == [call[t] EXCEPT !.pc = IF entry.kind = "virtual" THEN "serve" ELSE "original",
                                !.lines = entry.lines]
<1>3. /\ file[mine] \in Readable /\ call[t].lines = Rewritten(Text[file[mine]])
      /\ call[t].position = kernel[mine]
  BY <1>1, <1>2 DEF AtStep, Handle
<1>4. call' = [call EXCEPT ![t] = r] /\ handles' = [handles EXCEPT ![mine] = entry]
      /\ UNCHANGED <<file, kernel>>
  BY <1>2 DEF EnterTable, With, Handle
<1>5. r.req = call[t].req /\ r.answer = call[t].answer /\ r.pc # "close"
  BY <1>1 DEF CallRec
<1>6. /\ \A h \in Handles \ {mine} : kernel'[h] = kernel[h] /\ handles'[h] = handles[h]
      /\ handles'[mine] = entry
  BY <1>4 DEF LaunchInv, LaunchTypeOK
<1>7. /\ opened[mine] = file[mine] /\ file[mine] \in Files /\ opened[mine] # NoFile
      /\ shown[mine] = ShownOf(mine) /\ cursor[mine] = CursorOf(mine)
  BY <1>1, <1>2, PlainHandle
<1> HIDE DEF r
<1>8. CASE handles[mine].kind # "unknown"
  <2>1. ShownOf(mine)' = ShownOf(mine) /\ CursorOf(mine)' = CursorOf(mine)
    BY <1>4, <1>6, <1>8 DEF ShownOf, CursorOf
  <2> QED
    BY <1>1, <1>4, <1>5, <1>6, <2>1, Unseen
<1>9. CASE handles[mine].kind = "unknown"
  <2>1. /\ opened' = opened /\ asked' = [asked EXCEPT ![t] = r.req]
        /\ answer' = [answer EXCEPT ![t] = r.answer]
        /\ shown' = [shown EXCEPT ![mine] = ShownOf(mine)']
        /\ cursor' = [cursor EXCEPT ![mine] = CursorOf(mine)']
    BY <1>1, <1>4, <1>5, <1>6, PlainFrame
  <2>2. entry.kind = "virtual" /\ entry.lines = call[t].lines /\ entry.cursor = call[t].position
    BY <1>9 DEF Virtual
  <2>3. /\ ~ShownOf(mine).decided /\ ShownOf(mine)'.decided
        /\ ShownOf(mine)'.lines = Rewritten(Text[file[mine]])
        /\ CursorOf(mine)' = CursorOf(mine)
    BY <1>3, <1>6, <1>9, <2>2 DEF ShownOf, CursorOf
  <2>4. shown'[mine] = ShownOf(mine)'
    BY DEF shown
  <2>5. UNCHANGED <<opened, cursor, asked, answer>>
    <3>1. opened' = opened /\ cursor' = cursor
      BY <1>7, <2>1, <2>3 DEF cursor
    <3>2. asked' = asked /\ answer' = answer
      BY <1>5, <2>1 DEF asked, answer
    <3> QED
      BY <3>1, <3>2
  <2>6. opened[mine] \in Readable /\ Launched(Text[opened[mine]], shown'[mine].lines)
    BY <1>3, <1>7, <2>3, <2>4, RewrittenLaunched
  <2>7. /\ ~shown[mine].decided /\ shown'[mine].decided
        /\ shown' = [shown EXCEPT ![mine] = shown'[mine]]
    BY <1>7, <2>1, <2>3, <2>4
  <2>8. Plain!Decide(mine)
    BY <1>7, <2>5, <2>6, <2>7, PlainDecide
  <2> QED
    BY <2>8
<1> QED
  BY <1>8, <1>9

LEMMA ReturnMaps ==
    ASSUME LaunchInv, NEW t \in Threads, Return(t)
    PROVE  Plain!GoOn(t)
<1>1. call[t] \in CallRec /\ call[t].pc = "done" /\ InCall(t)
  BY CallTypes DEF Return, Me, LaunchInv
<1>2. PICK mine \in Handles : mine = Handle(t)
  BY <1>1, CallTypes
<1>3. call' = [call EXCEPT ![t] = Idle] /\ UNCHANGED <<file, kernel, handles>>
  BY DEF Return
<1>4. Idle.pc # "close" /\ Idle.req = NoRequest /\ Idle.answer = Pending
  BY DEF Idle
<1>5. /\ opened' = opened /\ asked' = [asked EXCEPT ![t] = Idle.req]
      /\ answer' = [answer EXCEPT ![t] = Idle.answer]
      /\ shown' = [shown EXCEPT ![mine] = ShownOf(mine)']
      /\ cursor' = [cursor EXCEPT ![mine] = CursorOf(mine)']
  BY <1>1, <1>3, <1>4, PlainFrame
<1>6. ShownOf(mine)' = ShownOf(mine) /\ CursorOf(mine)' = CursorOf(mine)
  BY <1>3 DEF ShownOf, CursorOf
<1>7. shown' = shown /\ cursor' = cursor
  BY <1>5, <1>6 DEF shown, cursor
<1>8. answer[t].done
  BY <1>1 DEF answer, InCall
<1> QED
  BY <1>4, <1>5, <1>7, <1>8, PlainGoOn

LEMMA CallMaps ==
    ASSUME AllHooked, LaunchInv, NEW t \in Threads, NEW req \in Requests, Call(t, req)
    PROVE  Plain!Ask(t, req)
<1> DEFINE r == [Idle EXCEPT !.pc = IF req.op = "close" THEN "remove" ELSE "lookup", !.req = req]
<1>1. /\ call[t].pc = "idle" /\ file[req.handle] # NoFile
      /\ \A u \in Threads \ {t} : call[u].req # NoRequest /\ call[u].req.handle = req.handle =>
           req.op \in Positionless /\ call[u].req.op \in Positionless
      /\ call' = [call EXCEPT ![t] = r] /\ UNCHANGED <<file, kernel, handles>>
  BY CallEffect
<1>2. r.req = req /\ r.answer = Pending /\ r.pc # "close"
  BY DEF Idle
<1> HIDE DEF r
<1>3. PICK mine \in Handles : mine = req.handle
  BY RequestTypes
<1>4. call[t] \in CallRec /\ InCall(t)
  BY CallTypes DEF LaunchInv
<1>5. /\ opened' = opened /\ asked' = [asked EXCEPT ![t] = r.req]
      /\ answer' = [answer EXCEPT ![t] = r.answer]
      /\ shown' = [shown EXCEPT ![mine] = ShownOf(mine)']
      /\ cursor' = [cursor EXCEPT ![mine] = CursorOf(mine)']
  BY <1>1, <1>2, PlainFrame
<1>6. ShownOf(mine)' = ShownOf(mine) /\ CursorOf(mine)' = CursorOf(mine)
  BY <1>1 DEF ShownOf, CursorOf
<1>7. shown' = shown /\ cursor' = cursor
  BY <1>5, <1>6 DEF shown, cursor
<1>8. opened[mine] # NoFile
  <2>1. ~Closing(mine)
    <3> SUFFICES ASSUME NEW u \in Threads, call[u].req # NoRequest, Handle(u) = mine,
                        call[u].pc = "close"
                 PROVE  FALSE
      BY DEF Closing, Me, Handle
    <3>1. u # t /\ call[u].req.op = "close"
      BY <1>1 DEF LaunchInv, AtStep
    <3> QED
      BY <1>1, <1>3, <3>1 DEF Handle, Positionless
  <2> QED
    BY <1>1, <1>3, <2>1 DEF opened, OpenedOf
<1>9. answer' = answer
  BY <1>1, <1>2, <1>4, <1>5 DEF answer, InCall
<1>10. asked[t] = NoRequest
  BY <1>1, <1>4 DEF asked, InCall
<1>11. asked' = [asked EXCEPT ![t] = req]
  BY <1>2, <1>5
<1> QED
  BY <1>3, <1>5, <1>7, <1>8, <1>9, <1>10, <1>11, PlainAsk

LEMMA OpenMaps ==
    ASSUME LaunchInv, NEW h \in Handles, NEW f \in Files, Open(h, f)
    PROVE  Plain!Open(h, f)
<1>1. /\ file[h] = NoFile /\ file' = [file EXCEPT ![h] = f]
      /\ kernel' = [kernel EXCEPT ![h] = 0] /\ UNCHANGED <<handles, call>>
  BY DEF Open
<1>2. handles[h].kind = "unknown"
  BY <1>1, NoEntry DEF LaunchInv, EntrySound
<1>3. ~Closing(h)
  BY <1>1 DEF LaunchInv, InCall, Closing, Me, Handle
<1>4. /\ file'[h] = f /\ kernel'[h] = 0
      /\ \A g \in Handles \ {h} : file'[g] = file[g] /\ kernel'[g] = kernel[g]
  BY <1>1 DEF LaunchInv, LaunchTypeOK
<1>5. \A g \in Handles : Closing(g)' <=> Closing(g)
  BY <1>1 DEF Closing, Me
<1>6. OpenedOf(h) = NoFile /\ OpenedOf(h)' = f /\ CursorOf(h)' = 0
      /\ ShownOf(h)' = ShownOf(h)
  BY <1>1, <1>2, <1>3, <1>4, <1>5 DEF OpenedOf, CursorOf, ShownOf
<1>7. ASSUME NEW g \in Handles \ {h}
      PROVE  /\ OpenedOf(g)' = OpenedOf(g) /\ CursorOf(g)' = CursorOf(g)
             /\ ShownOf(g)' = ShownOf(g)
  BY <1>1, <1>4, <1>5 DEF OpenedOf, CursorOf, ShownOf
<1>8. opened[h] = NoFile
  BY <1>6 DEF opened
<1>9. opened' = [opened EXCEPT ![h] = f]
  BY <1>6, <1>7 DEF opened
<1>10. cursor' = [cursor EXCEPT ![h] = 0]
  BY <1>6, <1>7 DEF cursor
<1>11. shown' = shown
  BY <1>6, <1>7 DEF shown
<1>12. asked' = asked /\ answer' = answer
  BY <1>1 DEF asked, answer
<1> QED
  BY <1>8, <1>9, <1>10, <1>11, <1>12, PlainOpen

\* The effect of an answer that leaves what is shown of the handle as it is.
LEMMA Told ==
    ASSUME LaunchInv, NEW t \in Threads, NEW r, call' = [call EXCEPT ![t] = r],
           call[t].pc # "close", r.pc # "close", r.req = call[t].req, file' = file,
           NEW mine \in Handles,
           \A h \in Handles \ {mine} : kernel'[h] = kernel[h] /\ handles'[h] = handles[h],
           ShownOf(mine)' = ShownOf(mine)
    PROVE  /\ UNCHANGED <<opened, shown, asked>> /\ answer' = [answer EXCEPT ![t] = r.answer]
           /\ cursor' = [cursor EXCEPT ![mine] = CursorOf(mine)']
<1>1. /\ opened' = opened /\ asked' = [asked EXCEPT ![t] = r.req]
      /\ answer' = [answer EXCEPT ![t] = r.answer]
      /\ shown' = [shown EXCEPT ![mine] = ShownOf(mine)']
      /\ cursor' = [cursor EXCEPT ![mine] = CursorOf(mine)']
  BY PlainFrame
<1>2. asked' = asked
  BY <1>1 DEF asked
<1>3. shown' = shown
  BY <1>1 DEF shown
<1> QED
  BY <1>1, <1>2, <1>3

\* What may be answered of a handle whose cursor stays where it is.
LEMMA ToldInPlace ==
    ASSUME LaunchInv, NEW t \in Threads, call[t].pc \in {"serve", "original"},
           NEW number, NEW lines, Answer(t, number, lines), UNCHANGED <<file, kernel, handles>>
    PROVE  /\ UNCHANGED <<opened, shown, asked, cursor>>
           /\ answer' = [answer EXCEPT ![t] = Answered(number, lines)]
<1> DEFINE given == Answered(number, lines)
           r == [call[t] EXCEPT !.pc = "done", !.answer = given]
<1>1. call[t] \in CallRec
  BY CallTypes
<1>2. PICK mine \in Handles : mine = Handle(t)
  BY CallTypes
<1>3. call' = [call EXCEPT ![t] = r]
  BY DEF Answer
<1> HIDE DEF given
<1>4. r.pc # "close" /\ r.req = call[t].req /\ r.answer = given
  BY <1>1 DEF CallRec
<1> HIDE DEF r
<1>5. ShownOf(mine)' = ShownOf(mine) /\ CursorOf(mine)' = CursorOf(mine)
  BY DEF ShownOf, CursorOf
<1>6. /\ UNCHANGED <<opened, shown, asked>> /\ answer' = [answer EXCEPT ![t] = given]
      /\ cursor' = [cursor EXCEPT ![mine] = CursorOf(mine)']
  BY <1>2, <1>3, <1>4, <1>5, Told
<1>7. cursor' = cursor
  BY <1>5, <1>6 DEF cursor
<1> QED
  BY <1>6, <1>7 DEF given

LEMMA NotTold ==
    ASSUME LaunchInv, NEW t \in Threads, call[t].pc \in {"serve", "advance", "original", "remove"}
    PROVE  /\ asked[t] = call[t].req /\ asked[t] # NoRequest /\ ~answer[t].done
           /\ asked[t].from \in {"begin", "cursor", "end"} /\ asked[t].handle = Handle(t)
           /\ Handle(t) \in Handles
<1>1. PICK mine \in Handles : mine = Handle(t)
  BY CallTypes
<1>2. ~call[t].answer.done
  BY DEF LaunchInv, InCall
<1> QED
  BY <1>1, <1>2, PlainHandle

LEMMA ShownText ==
    ASSUME LaunchInv, NEW t \in Threads, call[t].pc \in {"serve", "advance"}
    PROVE  /\ shown[Handle(t)].decided /\ shown[Handle(t)].lines = call[t].lines
           /\ cursor[Handle(t)] = handles[Handle(t)].cursor
<1>1. PICK mine \in Handles : mine = Handle(t)
  BY CallTypes
<1>2. shown[mine] = ShownOf(mine) /\ cursor[mine] = CursorOf(mine)
  BY <1>1, PlainHandle
<1>3. handles[mine].kind = "virtual" /\ handles[mine].lines = call[t].lines
  BY <1>1 DEF LaunchInv, AtStep, Handle
<1>4. ShownOf(mine).decided /\ ShownOf(mine).lines = handles[mine].lines
      /\ CursorOf(mine) = handles[mine].cursor
  BY <1>3 DEF ShownOf, CursorOf
<1> QED
  BY <1>1, <1>2, <1>3, <1>4

LEMMA ShownFile ==
    ASSUME LaunchInv, NEW t \in Threads, call[t].pc = "original"
    PROVE  /\ shown[Handle(t)].decided /\ opened[Handle(t)] = file[Handle(t)]
           /\ handles[Handle(t)].kind = "passthrough" =>
                shown[Handle(t)].lines = Text[file[Handle(t)]] /\ cursor[Handle(t)] = kernel[Handle(t)]
           /\ handles[Handle(t)].kind = "virtual" =>
                /\ shown[Handle(t)].lines = handles[Handle(t)].lines
                /\ cursor[Handle(t)] = handles[Handle(t)].cursor
<1>1. PICK mine \in Handles : mine = Handle(t)
  BY CallTypes
<1>2. /\ shown[mine] = ShownOf(mine) /\ cursor[mine] = CursorOf(mine)
      /\ opened[mine] = file[mine] /\ file[mine] # NoFile
  BY <1>1, PlainHandle
<1>3. handles[mine].kind \in {"passthrough", "virtual"}
  BY <1>1, AtOriginal
<1>4. ShownOf(mine).decided
  BY <1>3 DEF ShownOf
<1>5. handles[mine].kind = "passthrough" =>
        ShownOf(mine).lines = Text[file[mine]] /\ CursorOf(mine) = kernel[mine]
  BY <1>2 DEF ShownOf, CursorOf
<1>6. handles[mine].kind = "virtual" =>
        ShownOf(mine).lines = handles[mine].lines /\ CursorOf(mine) = handles[mine].cursor
  BY DEF ShownOf, CursorOf
<1> QED
  BY <1>1, <1>2, <1>4, <1>5, <1>6

LEMMA ReadAtOffsetMaps ==
    ASSUME LaunchInv, NEW t \in Threads, ReadAtOffset(t)
    PROVE  Plain!Perform(t)
<1>1. call[t].pc = "serve" /\ call[t].req.op = "readAt"
  BY DEF ReadAtOffset, Serving, Me
<1> DEFINE part == Part(call[t].lines, call[t].req.at, call[t].req.count)
           number == Len(part)
<1>2. Answer(t, number, part) /\ UNCHANGED <<file, kernel, handles>>
  BY DEF ReadAtOffset
<1> HIDE DEF number, part
<1>3. /\ UNCHANGED <<opened, shown, asked, cursor>>
      /\ answer' = [answer EXCEPT ![t] = Answered(number, part)]
  BY <1>1, <1>2, ToldInPlace
<1>4. shown[Handle(t)].decided /\ shown[Handle(t)].lines = call[t].lines
  BY <1>1, ShownText
<1>5. /\ asked[t] = call[t].req /\ asked[t] # NoRequest /\ ~answer[t].done
      /\ asked[t].from \in {"begin", "cursor", "end"} /\ asked[t].handle = Handle(t)
  BY <1>1, NotTold
<1>6. Perform(t)
  BY <1>1, <1>3, <1>4, <1>5 DEF Perform, number, part
<1> QED
  BY <1>5, <1>6, PlainPerform

LEMMA SizeMaps ==
    ASSUME LaunchInv, NEW t \in Threads, Size(t)
    PROVE  Plain!Perform(t)
<1>1. call[t].pc = "serve" /\ call[t].req.op = "size"
  BY DEF Size, Serving, Me
<1> DEFINE none == <<>>
           number == Len(call[t].lines)
<1>2. Answer(t, number, none) /\ UNCHANGED <<file, kernel, handles>>
  BY DEF Size
<1> HIDE DEF number, none
<1>3. /\ UNCHANGED <<opened, shown, asked, cursor>>
      /\ answer' = [answer EXCEPT ![t] = Answered(number, none)]
  BY <1>1, <1>2, ToldInPlace
<1>4. shown[Handle(t)].decided /\ shown[Handle(t)].lines = call[t].lines
  BY <1>1, ShownText
<1>5. /\ asked[t] = call[t].req /\ asked[t] # NoRequest /\ ~answer[t].done
      /\ asked[t].from \in {"begin", "cursor", "end"} /\ asked[t].handle = Handle(t)
  BY <1>1, NotTold
<1>6. Perform(t)
  BY <1>1, <1>3, <1>4, <1>5 DEF Perform, number, none
<1> QED
  BY <1>5, <1>6, PlainPerform

LEMMA MapMaps ==
    ASSUME LaunchInv, NEW t \in Threads, Map(t)
    PROVE  UNCHANGED plainVars \/ Plain!Perform(t)
<1>1. call[t].pc = "serve" /\ call[t].req.op = "map" /\ UNCHANGED <<file, kernel, handles>>
  BY DEF Map, Serving, Me
<1>2. CASE Goto(t, "original")
  BY <1>1, <1>2, HandingOverUnseen
<1>3. CASE Answer(t, 0, call[t].lines)
  <2>1. /\ UNCHANGED <<opened, shown, asked, cursor>>
        /\ answer' = [answer EXCEPT ![t] = Answered(0, call[t].lines)]
    BY <1>1, <1>3, ToldInPlace
  <2>2. shown[Handle(t)].decided /\ shown[Handle(t)].lines = call[t].lines
    BY <1>1, ShownText
  <2>3. /\ asked[t] = call[t].req /\ asked[t] # NoRequest /\ ~answer[t].done
        /\ asked[t].from \in {"begin", "cursor", "end"} /\ asked[t].handle = Handle(t)
    BY <1>1, NotTold
  <2>4. Perform(t)
    BY <1>1, <2>1, <2>2, <2>3 DEF Perform
  <2> QED
    BY <2>3, <2>4, PlainPerform
<1> QED
  BY <1>2, <1>3 DEF Map, PopulateMapping

\* What was read, or where the seek has led, is told when the cursor is set.
LEMMA AdvanceMaps ==
    ASSUME LaunchInv, NEW t \in Threads, Advance(t)
    PROVE  Plain!Perform(t)
<1> DEFINE given == IF call[t].req.op = "seek" THEN Answered(call[t].position, <<>>)
                    ELSE Answered(Len(call[t].part), call[t].part)
           r == [call[t] EXCEPT !.pc = "sync", !.answer = given]
           to == call[t].position
<1>1. call[t] \in CallRec /\ call[t].pc = "advance" /\ AtStep(t)
  BY CallTypes DEF Advance, Me, LaunchInv
<1>2. PICK mine \in Handles : mine = Handle(t)
  BY <1>1, CallTypes
<1>3. /\ call' = [call EXCEPT ![t] = r] /\ UNCHANGED <<file, kernel>>
      /\ handles' = [handles EXCEPT ![mine].cursor = to]
  BY <1>2 DEF Advance, Handle
<1> HIDE DEF given
<1>4. r.pc # "close" /\ r.req = call[t].req /\ r.answer = given
  BY <1>1 DEF CallRec
<1> HIDE DEF r, to
<1>5. handles[mine] \in Entries /\ handles[mine].kind = "virtual"
      /\ handles[mine].lines = call[t].lines
  BY <1>1, <1>2 DEF LaunchInv, LaunchTypeOK, AtStep, Handle
<1>6. /\ \A h \in Handles \ {mine} : kernel'[h] = kernel[h] /\ handles'[h] = handles[h]
      /\ handles'[mine] = [handles[mine] EXCEPT !.cursor = to]
  BY <1>3 DEF LaunchInv, LaunchTypeOK
<1>7. ShownOf(mine)' = ShownOf(mine) /\ CursorOf(mine)' = to
  BY <1>5, <1>6 DEF ShownOf, CursorOf, Entries
<1>8. /\ UNCHANGED <<opened, shown, asked>> /\ answer' = [answer EXCEPT ![t] = given]
      /\ cursor' = [cursor EXCEPT ![mine] = to]
  <2>1. /\ UNCHANGED <<opened, shown, asked>> /\ answer' = [answer EXCEPT ![t] = r.answer]
        /\ cursor' = [cursor EXCEPT ![mine] = CursorOf(mine)']
    BY <1>1, <1>3, <1>4, <1>6, <1>7, Told
  <2> QED
    BY <2>1, <1>4, <1>7
<1>9. /\ shown[mine].decided /\ shown[mine].lines = call[t].lines
      /\ cursor[mine] = handles[mine].cursor
  BY <1>1, <1>2, ShownText
<1>10. /\ asked[t] = call[t].req /\ asked[t] # NoRequest /\ ~answer[t].done
       /\ asked[t].from \in {"begin", "cursor", "end"} /\ asked[t].handle = mine
  BY <1>1, <1>2, NotTold
<1>11. CASE call[t].req.op = "read"
  <2>1. call[t].part = Part(call[t].lines, handles[mine].cursor, call[t].req.count)
        /\ to = handles[mine].cursor + Len(call[t].part)
    BY <1>1, <1>2, <1>11 DEF AtStep, Handle, to
  <2>2. given = Answered(Len(call[t].part), call[t].part)
    BY <1>11 DEF given
  <2>3. Perform(t)
    BY <1>8, <1>9, <1>10, <1>11, <2>1, <2>2 DEF Perform
  <2> QED
    BY <1>10, <2>3, PlainPerform
<1>12. CASE call[t].req.op = "seek"
  <2>1. to = SeekBase(call[t].req, call[t].lines, handles[mine].cursor) + call[t].req.count
    BY <1>1, <1>2, <1>12 DEF AtStep, Handle, to
  <2>2. given = Answered(to, <<>>)
    BY <1>12 DEF given, to
  <2>3. to \in Nat
    BY <1>1 DEF CallRec, to
  <2>4. ~(to < 0)
    BY <2>3
  <2>5. Perform(t)
    BY <1>8, <1>9, <1>10, <1>12, <2>1, <2>2, <2>4 DEF Perform
  <2> QED
    BY <1>10, <2>5, PlainPerform
<1> QED
  BY <1>1, <1>11, <1>12 DEF AtStep

\* The original function, where it moves the kernel's cursor: the file is passed
\* through.
LEMMA ToldAndMoved ==
    ASSUME LaunchInv, NEW t \in Threads, call[t].pc = "original",
           handles[Handle(t)].kind = "passthrough",
           NEW number \in Int, NEW lines \in Seq(Line),
           NEW mine \in Handles, mine = Handle(t), UNCHANGED <<file, handles>>,
           Answer(t, number, lines),
           \A h \in Handles \ {mine} : kernel'[h] = kernel[h]
    PROVE  /\ UNCHANGED <<opened, shown, asked>>
           /\ answer' = [answer EXCEPT ![t] = Answered(number, lines)]
           /\ cursor' = [cursor EXCEPT ![mine] = kernel'[mine]]
<1> DEFINE given == Answered(number, lines)
           r == [call[t] EXCEPT !.pc = "done", !.answer = given]
<1>1. call[t] \in CallRec
  BY CallTypes
<1>3. call' = [call EXCEPT ![t] = r]
  BY DEF Answer
<1> HIDE DEF given
<1>4. r.pc # "close" /\ r.req = call[t].req /\ r.answer = given
  BY <1>1 DEF CallRec
<1> HIDE DEF r
<1>5. \A h \in Handles \ {mine} : kernel'[h] = kernel[h] /\ handles'[h] = handles[h]
  OBVIOUS
<1>6. ShownOf(mine)' = ShownOf(mine)
  BY DEF ShownOf
<1>7. CursorOf(mine)' = kernel'[mine]
  BY DEF CursorOf
<1>8. /\ UNCHANGED <<opened, shown, asked>> /\ answer' = [answer EXCEPT ![t] = r.answer]
      /\ cursor' = [cursor EXCEPT ![mine] = CursorOf(mine)']
  <2>1. call[t].pc # "close" /\ file' = file /\ call' = [call EXCEPT ![t] = r]
    BY <1>3
  <2>2. \A g \in Handles \ {mine} : kernel'[g] = kernel[g] /\ handles'[g] = handles[g]
    BY <1>5
  <2> QED
    BY <1>4, <1>6, <2>1, <2>2, Told
<1> QED
  BY <1>4, <1>7, <1>8 DEF given

LEMMA OriginalMaps ==
    ASSUME LaunchInv, NEW t \in Threads, Original(t)
    PROVE  Plain!Perform(t)
<1> DEFINE req == call[t].req
           h == Handle(t)
           lines == Text[file[h]]
           part == Part(lines, IF req.op = "read" THEN kernel[h] ELSE req.at, req.count)
           size == Len(lines)
           length == Len(part)
           to == SeekBase(req, lines, kernel[h]) + req.count
           none == <<>>
<1>1. call[t].pc = "original" /\ UNCHANGED <<file, handles>> /\ AtStep(t)
  BY DEF Original, Me, LaunchInv
<1>2. /\ h \in Handles /\ req.op \in Ops \ {"close"} /\ kernel[h] \in Nat
      /\ handles[h].kind \in {"passthrough", "virtual"}
      /\ handles[h].kind = "virtual" => req.op \in {"map", "seek"}
  BY <1>1, AtOriginal
<1>3. to \in Int
  BY <1>1, AtOriginal DEF SeekBase
<1>4. /\ req.op = "read" => Answer(t, length, part)
                            /\ kernel' = [kernel EXCEPT ![h] = kernel[h] + length]
      /\ req.op = "seek" /\ to >= 0 => Answer(t, to, none) /\ kernel' = [kernel EXCEPT ![h] = to]
      /\ req.op = "seek" /\ to < 0 => Answer(t, -1, none) /\ UNCHANGED kernel
      /\ req.op = "readAt" =>
           /\ Answer(t, length, part)
           /\ UNCHANGED kernel \/ kernel' = [kernel EXCEPT ![h] = req.at + length]
      /\ req.op = "size" => Answer(t, size, none) /\ UNCHANGED kernel
      /\ req.op = "map" => Answer(t, 0, lines) /\ UNCHANGED kernel
  BY <1>3, OriginalEffect
<1>5. req.op = "seek" /\ to >= 0 => handles[h].kind = "passthrough"
  BY <1>1, <1>2, <1>3, TooFarBack
<1>6. /\ shown[h].decided /\ opened[h] = file[h]
      /\ handles[h].kind = "passthrough" => shown[h].lines = lines /\ cursor[h] = kernel[h]
      /\ handles[h].kind = "virtual" =>
           shown[h].lines = handles[h].lines /\ cursor[h] = handles[h].cursor
  BY <1>1, ShownFile
<1>7. /\ asked[t] = req /\ asked[t] # NoRequest /\ ~answer[t].done
      /\ asked[t].from \in {"begin", "cursor", "end"} /\ asked[t].handle = h
  BY <1>1, NotTold
<1>8. handles[h].kind = "virtual" /\ req.op = "seek" =>
        SeekBase(req, handles[h].lines, handles[h].cursor) + req.count < 0
  BY <1>1 DEF AtStep, Handle
<1>8a. part \in Seq(Line) /\ length \in Nat /\ none \in Seq(Line)
  <2>1. lines \in Seq(Line) /\ req.at \in Nat /\ req.count \in Int
    BY <1>1, AtOriginal
  <2> QED
    BY <1>2, <2>1, PartIsSequence
<1> DEFINE from == IF req.op = "read" THEN kernel[h] ELSE req.at
<1>9. part = Part(lines, from, req.count) /\ length = Len(part) /\ size = Len(lines)
  OBVIOUS
<1>10. to = SeekBase(req, lines, kernel[h]) + req.count
  OBVIOUS
<1> HIDE DEF part, length, to, none, size, lines, h
<1>11. ASSUME req.op = "read"
       PROVE  Perform(t)
  <2> DEFINE next == kernel[h] + length
  <2>1. handles[h].kind = "passthrough" /\ Answer(t, length, part)
        /\ kernel' = [kernel EXCEPT ![h] = next] /\ next \in Nat /\ length \in Int
    BY <1>2, <1>4, <1>11, <1>8a
  <2> HIDE DEF next
  <2>2. /\ UNCHANGED <<opened, shown, asked>>
        /\ answer' = [answer EXCEPT ![t] = Answered(length, part)]
        /\ cursor' = [cursor EXCEPT ![h] = next]
    <3>1. PICK mine \in Handles : mine = h
      BY <1>2
    <3>2. mine = Handle(t) /\ handles[Handle(t)].kind = "passthrough"
          /\ kernel'[mine] = next /\ \A g \in Handles \ {mine} : kernel'[g] = kernel[g]
      BY <2>1, <3>1 DEF h, LaunchInv, LaunchTypeOK
    <3>3. /\ call[t].pc = "original" /\ Answer(t, length, part) /\ UNCHANGED <<file, handles>>
          /\ length \in Int /\ part \in Seq(Line)
      BY <1>1, <1>8a, <2>1
    <3>4. cursor' = [cursor EXCEPT ![mine] = kernel'[mine]]
      BY <3>2, <3>3, ToldAndMoved
    <3>5. /\ UNCHANGED <<opened, shown, asked>>
          /\ answer' = [answer EXCEPT ![t] = Answered(length, part)]
      BY <3>2, <3>3, ToldAndMoved
    <3> QED
      BY <3>1, <3>2, <3>4, <3>5
  <2>3. part = Part(lines, cursor[h], req.count) /\ next = cursor[h] + Len(part)
    BY <1>6, <1>9, <1>11, <2>1 DEF next
  <2> QED
    BY <1>6, <1>7, <1>9, <1>11, <2>1, <2>2, <2>3 DEF Perform
<1>12. ASSUME req.op = "seek", to >= 0
       PROVE  Perform(t)
  <2>1. handles[h].kind = "passthrough" /\ Answer(t, to, none)
        /\ kernel' = [kernel EXCEPT ![h] = to] /\ to \in Nat
    BY <1>3, <1>4, <1>5, <1>12
  <2>2. /\ UNCHANGED <<opened, shown, asked>>
        /\ answer' = [answer EXCEPT ![t] = Answered(to, none)]
        /\ cursor' = [cursor EXCEPT ![h] = to]
    <3>1. PICK mine \in Handles : mine = h
      BY <1>2
    <3>2. mine = Handle(t) /\ handles[Handle(t)].kind = "passthrough"
          /\ kernel'[mine] = to /\ \A g \in Handles \ {mine} : kernel'[g] = kernel[g]
      BY <2>1, <3>1 DEF h, LaunchInv, LaunchTypeOK
    <3>3. /\ call[t].pc = "original" /\ Answer(t, to, none) /\ UNCHANGED <<file, handles>>
          /\ to \in Int /\ none \in Seq(Line)
      BY <1>1, <1>8a, <2>1
    <3>4. cursor' = [cursor EXCEPT ![mine] = kernel'[mine]]
      BY <3>2, <3>3, ToldAndMoved
    <3>5. /\ UNCHANGED <<opened, shown, asked>>
          /\ answer' = [answer EXCEPT ![t] = Answered(to, none)]
      BY <3>2, <3>3, ToldAndMoved
    <3> QED
      BY <3>1, <3>2, <3>4, <3>5
  <2>3. to = SeekBase(asked[t], shown[h].lines, cursor[h]) + asked[t].count /\ ~(to < 0)
    BY <1>3, <1>6, <1>7, <1>10, <1>12, <2>1
  <2> QED
    BY <1>6, <1>7, <1>12, <2>2, <2>3 DEF Perform, none
<1>13. ASSUME req.op = "seek", to < 0
       PROVE  Perform(t)
  <2> DEFINE failed == -1
  <2>1. Answer(t, failed, none) /\ UNCHANGED kernel
    BY <1>4, <1>13
  <2> HIDE DEF failed
  <2>2. /\ UNCHANGED <<opened, shown, asked, cursor>>
        /\ answer' = [answer EXCEPT ![t] = Answered(failed, none)]
    BY <1>1, <2>1, ToldInPlace
  <2>3. SeekBase(asked[t], shown[h].lines, cursor[h]) + asked[t].count < 0
    BY <1>2, <1>6, <1>7, <1>8, <1>10, <1>13
  <2> QED
    BY <1>6, <1>7, <1>13, <2>2, <2>3 DEF Perform, failed, none
<1>14. ASSUME req.op = "readAt"
       PROVE  Perform(t)
  <2>1. handles[h].kind = "passthrough" /\ Answer(t, length, part)
    BY <1>2, <1>4, <1>14
  <2>2. part = Part(lines, req.at, req.count)
    BY <1>9, <1>14
  <2>3. CASE UNCHANGED kernel
    <3>1. /\ UNCHANGED <<opened, shown, asked, cursor>>
          /\ answer' = [answer EXCEPT ![t] = Answered(length, part)]
      BY <1>1, <2>1, <2>3, ToldInPlace
    <3> QED
      BY <1>6, <1>7, <1>9, <1>14, <2>1, <2>2, <3>1 DEF Perform
  <2> DEFINE next == req.at + length
  <2>4. CASE kernel' = [kernel EXCEPT ![h] = next]
    <3>1. PICK mine \in Handles : mine = h
      BY <1>2
    <3>2. mine = Handle(t) /\ handles[Handle(t)].kind = "passthrough"
          /\ kernel'[mine] = next /\ \A g \in Handles \ {mine} : kernel'[g] = kernel[g]
      BY <2>1, <2>4, <3>1 DEF h, LaunchInv, LaunchTypeOK
    <3>3. /\ call[t].pc = "original" /\ Answer(t, length, part) /\ UNCHANGED <<file, handles>>
          /\ length \in Int /\ part \in Seq(Line)
      BY <1>1, <1>8a, <2>1
    <3> HIDE DEF next
    <3>4. cursor' = [cursor EXCEPT ![mine] = kernel'[mine]]
      BY <3>2, <3>3, ToldAndMoved
    <3>5. /\ UNCHANGED <<opened, shown, asked>>
          /\ answer' = [answer EXCEPT ![t] = Answered(length, part)]
      BY <3>2, <3>3, ToldAndMoved
    <3>6. cursor' = [cursor EXCEPT ![h] = next]
      BY <3>1, <3>2, <3>4
    <3>7. opened[h] \notin Readable
      BY <1>2, <1>6, <2>1 DEF LaunchInv, EntrySound
    <3>8. next = req.at + Len(part)
      BY <1>9 DEF next
    <3> QED
      BY <1>6, <1>7, <1>9, <1>14, <2>1, <2>2, <3>5, <3>6, <3>7, <3>8 DEF Perform
  <2> QED
    BY <1>4, <1>14, <2>3, <2>4
<1>15. ASSUME req.op = "size"
       PROVE  Perform(t)
  <2>1. handles[h].kind = "passthrough" /\ Answer(t, size, none) /\ UNCHANGED kernel
    BY <1>2, <1>4, <1>15
  <2>2. /\ UNCHANGED <<opened, shown, asked, cursor>>
        /\ answer' = [answer EXCEPT ![t] = Answered(size, none)]
    BY <1>1, <2>1, ToldInPlace
  <2> QED
    BY <1>6, <1>7, <1>9, <1>15, <2>1, <2>2 DEF Perform, none
<1>16. ASSUME req.op = "map"
       PROVE  Perform(t)
  <2>1. Answer(t, 0, lines) /\ UNCHANGED kernel
    BY <1>4, <1>16
  <2>2. /\ UNCHANGED <<opened, shown, asked, cursor>>
        /\ answer' = [answer EXCEPT ![t] = Answered(0, lines)]
    BY <1>1, <2>1, ToldInPlace
  <2>3. lines = Text[opened[h]]
    BY <1>6 DEF lines
  <2> QED
    BY <1>6, <1>7, <1>16, <2>2, <2>3 DEF Perform
<1>17. Perform(t)
  <2>1. to >= 0 \/ to < 0
    BY <1>3
  <2> QED
    BY <1>2, <1>11, <1>12, <1>13, <1>14, <1>15, <1>16, <2>1 DEF Ops
<1> QED
  BY <1>7, <1>17, PlainPerform

\* For the program a handle is closed when the table forgets it.
LEMMA ForgetMaps ==
    ASSUME LaunchInv, NEW t \in Threads, Forget(t)
    PROVE  Plain!Perform(t)
<1> DEFINE given == Answered(0, <<>>)
           r == [call[t] EXCEPT !.pc = "close", !.answer = given]
<1>1. call[t] \in CallRec /\ call[t].pc = "remove" /\ call[t].req.op = "close"
  BY CallTypes DEF Forget, Me, LaunchInv, AtStep
<1>2. PICK mine \in Handles : mine = Handle(t)
  BY <1>1, CallTypes
<1>3. /\ call' = [call EXCEPT ![t] = r] /\ handles' = [handles EXCEPT ![mine] = Unknown]
      /\ UNCHANGED <<file, kernel>>
  BY <1>2 DEF Forget, Handle
<1> HIDE DEF given
<1>4. r.pc = "close" /\ r.req = call[t].req /\ r.answer = given
  BY <1>1 DEF CallRec
<1> HIDE DEF r
<1>5. /\ call'[t] = r /\ \A u \in Threads : u # t => call'[u] = call[u]
      /\ handles'[mine] = Unknown /\ \A h \in Handles \ {mine} : handles'[h] = handles[h]
  BY <1>3 DEF LaunchInv, LaunchTypeOK
<1>6. call[t].req # NoRequest
  BY <1>1, CallTypes, RequestTypes
<1>7. Closing(mine)'
  BY <1>2, <1>4, <1>5, <1>6 DEF Closing, Me, Handle
<1>8. \A h \in Handles \ {mine} : Closing(h)' <=> Closing(h)
  BY <1>1, <1>2, <1>4, <1>5 DEF Closing, Me, Handle
<1>9. handles[mine].kind = "virtual" => kernel[mine] = handles[mine].cursor
  BY <1>1, <1>2, CursorsTogether DEF Lagging
<1>10. /\ OpenedOf(mine)' = NoFile /\ CursorOf(mine)' = CursorOf(mine)
       /\ ShownOf(mine)' = Plain!Undecided
  BY <1>3, <1>5, <1>7, <1>9, NoEntry DEF OpenedOf, CursorOf, ShownOf, Plain!Undecided
<1>11. ASSUME NEW h \in Handles \ {mine}
       PROVE  /\ OpenedOf(h)' = OpenedOf(h) /\ CursorOf(h)' = CursorOf(h)
              /\ ShownOf(h)' = ShownOf(h)
  BY <1>3, <1>5, <1>8 DEF OpenedOf, CursorOf, ShownOf
<1>12. opened' = [opened EXCEPT ![mine] = NoFile]
  BY <1>10, <1>11 DEF opened
<1>13. cursor' = cursor
  BY <1>10, <1>11 DEF cursor
<1>14. shown' = [shown EXCEPT ![mine] = Plain!Undecided]
  BY <1>10, <1>11 DEF shown
<1>15. asked' = asked
  BY <1>4, <1>5 DEF asked
<1>16. answer' = [answer EXCEPT ![t] = given]
  <2>1. \A u \in Threads : answer'[u] = [answer EXCEPT ![t] = given][u]
    BY <1>4, <1>5 DEF answer
  <2> QED
    BY <2>1 DEF answer
<1>17. /\ asked[t] = call[t].req /\ asked[t] # NoRequest /\ ~answer[t].done
       /\ asked[t].from \in {"begin", "cursor", "end"} /\ asked[t].handle = mine
  BY <1>1, <1>2, NotTold
<1>18. Perform(t)
  BY <1>1, <1>12, <1>13, <1>14, <1>15, <1>16, <1>17 DEF Perform, given
<1> QED
  BY <1>17, <1>18, PlainPerform

LEMMA CloseMaps ==
    ASSUME LaunchInv, NEW t \in Threads, Close(t)
    PROVE  UNCHANGED plainVars \/ Plain!Perform(t)
<1>1. CASE Forget(t)
  BY <1>1, ForgetMaps
<1>2. CASE /\ Me(t, "close") /\ Answer(t, 0, <<>>)
           /\ file' = [file EXCEPT ![call[t].req.handle] = NoFile]
           /\ UNCHANGED <<kernel, handles, cached>>
  <2> DEFINE given == Answered(0, <<>>)
             r == [call[t] EXCEPT !.pc = "done", !.answer = given]
  <2>1. /\ call[t] \in CallRec /\ call[t].pc = "close" /\ AtStep(t)
        /\ call[t].answer = given /\ call[t].req # NoRequest
    BY <1>2, CallTypes, RequestTypes DEF Me, LaunchInv, AtStep
  <2>2. PICK mine \in Handles : mine = Handle(t)
    BY <2>1, CallTypes
  <2>3. /\ call' = [call EXCEPT ![t] = r] /\ file' = [file EXCEPT ![mine] = NoFile]
        /\ UNCHANGED <<kernel, handles>>
    BY <1>2, <2>2 DEF Answer, Handle
  <2> HIDE DEF given
  <2>4. r.pc = "done" /\ r.req = call[t].req /\ r.answer = call[t].answer
    BY <2>1 DEF CallRec
  <2> HIDE DEF r
  <2>5. /\ call'[t] = r /\ \A u \in Threads : u # t => call'[u] = call[u]
        /\ file'[mine] = NoFile /\ \A h \in Handles \ {mine} : file'[h] = file[h]
    BY <2>3 DEF LaunchInv, LaunchTypeOK
  <2>6. Closing(mine) /\ handles[mine].kind = "unknown"
    BY <2>1, <2>2, NoEntry DEF Closing, Me, AtStep, Handle
  <2>7. \A h \in Handles \ {mine} : Closing(h)' <=> Closing(h)
    BY <2>2, <2>4, <2>5 DEF Closing, Me, Handle
  <2>8. /\ OpenedOf(mine)' = OpenedOf(mine) /\ CursorOf(mine)' = CursorOf(mine)
        /\ ShownOf(mine)' = ShownOf(mine)
    BY <2>3, <2>5, <2>6 DEF OpenedOf, CursorOf, ShownOf
  <2>9. ASSUME NEW h \in Handles \ {mine}
        PROVE  /\ OpenedOf(h)' = OpenedOf(h) /\ CursorOf(h)' = CursorOf(h)
               /\ ShownOf(h)' = ShownOf(h)
    BY <2>3, <2>5, <2>7 DEF OpenedOf, CursorOf, ShownOf
  <2>10. opened' = opened /\ cursor' = cursor /\ shown' = shown
    BY <2>8, <2>9 DEF opened, cursor, shown
  <2>11. asked' = asked /\ answer' = answer
    BY <2>4, <2>5 DEF asked, answer
  <2> QED
    BY <2>10, <2>11 DEF plainVars
<1> QED
  BY <1>1, <1>2 DEF Close

LEMMA InitMaps == Init => Plain!Init
<1> SUFFICES ASSUME Init PROVE Plain!Init
  OBVIOUS
<1>1. \A h \in Handles : ~Closing(h)
  BY DEF Init, Closing, Me, Idle
<1>2. \A h \in Handles : /\ OpenedOf(h) = NoFile /\ ShownOf(h) = Plain!Undecided
                         /\ CursorOf(h) = 0
  BY <1>1, NoEntry DEF Init, OpenedOf, ShownOf, CursorOf, Plain!Undecided
<1>3. opened = [h \in Handles |-> NoFile] /\ shown = [h \in Handles |-> Plain!Undecided]
      /\ cursor = [h \in Handles |-> 0]
  BY <1>2 DEF opened, shown, cursor
<1>4. asked = [t \in Threads |-> NoRequest] /\ answer = [t \in Threads |-> Plain!Pending]
  BY DEF Init, asked, answer, Idle, Pending, Plain!Pending
<1> QED
  BY <1>3, <1>4 DEF Plain!Init, opened, shown, cursor, asked, answer, OpenedOf, ShownOf, CursorOf

LEMMA StepMaps == AllHooked /\ LaunchInv /\ [Next]_vars => [Plain!Next]_(Plain!vars)
<1> SUFFICES ASSUME AllHooked, LaunchInv, [Next]_vars
             PROVE  Plain!Next \/ UNCHANGED plainVars
  BY PlainVars
<1>1. CASE UNCHANGED vars
  <2>1. opened' = opened /\ shown' = shown /\ cursor' = cursor
    BY <1>1 DEF vars, opened, shown, cursor, OpenedOf, ShownOf, CursorOf, Closing, Me
  <2>2. asked' = asked /\ answer' = answer
    BY <1>1 DEF vars, asked, answer
  <2> QED
    BY <2>1, <2>2 DEF plainVars
<1>2. ASSUME NEW h \in Handles, NEW f \in Files, Open(h, f)
      PROVE  Plain!Next
  BY <1>2, OpenMaps DEF Plain!Next
<1>3. ASSUME NEW t \in Threads, NEW req \in Requests, Call(t, req)
      PROVE  Plain!Next
  BY <1>3, CallMaps DEF Plain!Next
<1>4. ASSUME NEW t \in Threads, Step(t)
      PROVE  Plain!Next \/ UNCHANGED plainVars
  <2>1. CASE Lookup(t) \/ ReadCursor(t)
    BY <2>1, LookupUnseen, ReadCursorUnseen
  <2>2. CASE Classify(t) \/ Load(t) \/ EnterTable(t)
    BY <2>2, ClassifyMaps, LoadMaps, EnterTableMaps DEF Plain!Next
  <2>3. CASE Serve(t)
    <3>1. CASE ReadAtCursor(t) \/ Seek(t) \/ SyncKernelCursor(t)
      BY <3>1, ReadAtCursorUnseen, SeekUnseen, SyncUnseen
    <3>2. CASE ReadAtOffset(t) \/ Size(t) \/ Map(t) \/ Advance(t)
      BY <3>2, ReadAtOffsetMaps, SizeMaps, MapMaps, AdvanceMaps DEF Plain!Next
    <3> QED
      BY <2>3, <3>1, <3>2 DEF Serve
  <2>4. CASE Close(t) \/ Original(t) \/ Return(t)
    BY <2>4, CloseMaps, OriginalMaps, ReturnMaps DEF Plain!Next
  <2> QED
    BY <1>4, <2>1, <2>2, <2>3, <2>4 DEF Step
<1> QED
  BY <1>1, <1>2, <1>3, <1>4 DEF Next

\* A program that calls whatever functions, in whatever order and from however
\* many threads, finds one content and one cursor in an open file
\* (ImplementsPlainFile), for all files, texts, handles and threads.
THEOREM FilesArePlain == AllHooked => (Spec => ImplementsPlainFile)
<1> SUFFICES ASSUME AllHooked PROVE Spec => ImplementsPlainFile
  OBVIOUS
<1>1. Init => Plain!Init
  BY InitMaps
<1>2. LaunchInv /\ [Next]_vars => [Plain!Next]_(Plain!vars)
  BY StepMaps
<1>3. Spec => []LaunchInv
  BY LaunchInvariant
<1> QED
  BY <1>1, <1>2, <1>3, PTL DEF Spec, ImplementsPlainFile, Plain!Spec
============================================================================
