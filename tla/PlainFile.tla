----------------------------- MODULE PlainFile -----------------------------
(***************************************************************************)
(* What a program may expect of its files: once a file is open, it has one *)
(* content until it is closed, and whatever asks for its length, its bytes *)
(* or a view of it, or moves about in it, speaks of that content.  For a   *)
(* language file the content is the launch text's, unless the file could   *)
(* not be read beforehand.                                                 *)
(***************************************************************************)
EXTENDS LanguageText

CONSTANTS Threads,    \* the program's threads
          Handles,    \* the values open files are known by
          Requests,   \* [op, handle, from, at, count]
          NoFile,     \* what a handle stands for that is not open
          NoRequest,  \* what a thread asks that asks nothing
          Languages,  \* the language files
          Unreadable  \* those that cannot be read beforehand

VARIABLES opened, \* the file a handle stands for
          shown,  \* its content: [decided, lines]
          cursor, \* where reading goes on
          asked,  \* what a thread waits for
          answer  \* what it was told

vars == <<opened, shown, cursor, asked, answer>>

Undecided == [decided |-> FALSE, lines |-> <<>>]
Decided(lines) == [decided |-> TRUE, lines |-> lines]
Pending == [done |-> FALSE, number |-> 0, lines |-> <<>>]
Answered(number, lines) == [done |-> TRUE, number |-> number, lines |-> lines]

(* Up to `count` lines after the first `from`. *)
Part(lines, from, count) ==
    SubSeq(lines, from + 1, IF from + count < Len(lines) THEN from + count ELSE Len(lines))

Init ==
    /\ opened = [h \in Handles |-> NoFile]
    /\ shown = [h \in Handles |-> Undecided]
    /\ cursor = [h \in Handles |-> 0]
    /\ asked = [t \in Threads |-> NoRequest]
    /\ answer = [t \in Threads |-> Pending]

Open(h, f) ==
    /\ opened[h] = NoFile
    /\ opened' = [opened EXCEPT ![h] = f]
    /\ cursor' = [cursor EXCEPT ![h] = 0]
    /\ UNCHANGED <<shown, asked, answer>>

Ask(t, req) ==
    /\ asked[t] = NoRequest /\ opened[req.handle] # NoFile
    /\ asked' = [asked EXCEPT ![t] = req]
    /\ UNCHANGED <<opened, shown, cursor, answer>>

(* What an open file has in it is settled once. *)
Decide(h) ==
    /\ opened[h] # NoFile /\ ~shown[h].decided
    /\ shown'[h].decided
    /\ IF opened[h] \in Languages \ Unreadable
       THEN Launched(Text[opened[h]], shown'[h].lines)
       ELSE shown'[h].lines = Text[opened[h]]
    /\ shown' = [shown EXCEPT ![h] = shown'[h]]
    /\ UNCHANGED <<opened, cursor, asked, answer>>

Perform(t) ==
    /\ asked[t] # NoRequest /\ ~answer[t].done /\ UNCHANGED asked
    /\ LET req == asked[t]
           h == req.handle
           lines == shown[h].lines
           base == CASE req.from = "end" -> Len(lines)
                     [] req.from = "cursor" -> cursor[h]
                     [] req.from = "begin" -> 0
           Tell(number, part) == answer' = [answer EXCEPT ![t] = Answered(number, part)]
           MoveTo(position) == cursor' = [cursor EXCEPT ![h] = position]
       IN CASE req.op = "read" ->
                 LET part == Part(lines, cursor[h], req.count)
                 IN /\ shown[h].decided /\ Tell(Len(part), part)
                    /\ MoveTo(cursor[h] + Len(part)) /\ UNCHANGED <<opened, shown>>
            [] req.op = "readAt" ->
                 LET part == Part(lines, req.at, req.count)
                 IN /\ shown[h].decided /\ Tell(Len(part), part) /\ UNCHANGED <<opened, shown>>
                    (* Windows moves the cursor of some files, the launch text's stays. *)
                    /\ \/ UNCHANGED cursor
                       \/ opened[h] \notin Languages \ Unreadable /\ MoveTo(req.at + Len(part))
            [] req.op = "seek" ->
                 /\ shown[h].decided /\ UNCHANGED <<opened, shown>>
                 /\ IF base + req.count < 0 THEN Tell(-1, <<>>) /\ UNCHANGED cursor
                    ELSE Tell(base + req.count, <<>>) /\ MoveTo(base + req.count)
            [] req.op = "size" ->
                 /\ shown[h].decided /\ Tell(Len(lines), <<>>)
                 /\ UNCHANGED <<opened, shown, cursor>>
            [] req.op = "map" ->
                 (* A system short of memory maps what is on the disk. *)
                 /\ shown[h].decided
                 /\ Tell(0, lines) \/ Tell(0, Text[opened[h]])
                 /\ UNCHANGED <<opened, shown, cursor>>
            [] req.op = "close" ->
                 /\ Tell(0, <<>>)
                 /\ opened' = [opened EXCEPT ![h] = NoFile]
                 /\ shown' = [shown EXCEPT ![h] = Undecided]
                 /\ UNCHANGED cursor

GoOn(t) ==
    /\ answer[t].done
    /\ asked' = [asked EXCEPT ![t] = NoRequest]
    /\ answer' = [answer EXCEPT ![t] = Pending]
    /\ UNCHANGED <<opened, shown, cursor>>

Next ==
    \/ \E h \in Handles, f \in Files : Open(h, f)
    \/ \E h \in Handles : Decide(h)
    \/ \E t \in Threads : Perform(t) \/ GoOn(t) \/ \E req \in Requests : Ask(t, req)

Spec == Init /\ [][Next]_vars
=============================================================================
