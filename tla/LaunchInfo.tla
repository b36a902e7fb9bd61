---------------------------- MODULE LaunchInfo ----------------------------
(***************************************************************************)
(* The launch text: src/core/launch_info.rs.                               *)
(*                                                                         *)
(* The game's language files are shown with BLoader's copyright line,      *)
(* though nothing is written: the functions that read a file by its handle *)
(* are hooked.  The first one that is given a handle finds out what it     *)
(* stands for, and keeps it in a table until the handle is closed; for a   *)
(* language file the table has the rewritten text and a cursor of its own, *)
(* which the kernel's cursor is made to follow.                            *)
(*                                                                         *)
(* What the hooks call themselves (the copy of the file they read, the     *)
(* seeks of the kernel's cursor) passes them by (HookGuard), and is taken  *)
(* as part of the step that calls it.                                      *)
(***************************************************************************)
EXTENDS LanguageText

CONSTANTS
    Threads,    \* the game's threads
    Handles,    \* handle values, used again once closed
    Requests,   \* what a thread asks: [op, handle, from, at, count]
    NoFile, NoRequest,
    Path,       \* [Files -> Seq(Names)]
    Unnamed,    \* the files whose path Windows does not give, or not in Unicode
    Names,      \* of files and directories
    LowerCase,  \* to_ascii_lowercase: [Names -> Names]
    LangNames,  \* the names that end in ".lang"
    TextsDir,   \* data/resource_packs/vanilla/texts in the game's directory
    Hookable,   \* the exports that could be hooked; none without TextsDir
    Unreadable, \* files std::fs::read cannot read: opened for one reader only
    MaxPosition \* bound: seeks start at or before it

Ops == {"read", "readAt", "seek", "size", "map", "close"}
(* The ops that have nothing to do with a handle's cursor. *)
Positionless == {"readAt", "size", "map"}

(* install_hooks: the exports an op stands for, any of which may be called. *)
Exports(op) ==
    CASE op \in {"read", "readAt"} -> {"ReadFile"}
      [] op = "seek" -> {"SetFilePointer", "SetFilePointerEx"}
      [] op = "size" -> {"GetFileSize", "GetFileSizeEx", "GetFileInformationByHandle",
                         "GetFileInformationByHandleEx"}
      [] op = "map" -> {"CreateFileMappingW"}
      [] op = "close" -> {"CloseHandle"}

ASSUME LaunchInfoAssumption ==
    /\ Path \in [Files -> Seq(Names)] /\ LowerCase \in [Names -> Names]
    /\ Unnamed \subseteq Files
    /\ TextsDir \in Seq(Names) /\ MaxPosition \in Nat
    /\ \A r \in Requests :
         /\ r.op \in Ops /\ r.handle \in Handles /\ r.at \in Nat /\ r.count \in Int
         /\ r.from \in {"begin", "cursor", "end"}
    /\ NoFile \notin Files /\ NoRequest \notin Requests

VARIABLES
    file,    \* the kernel's table: the file a handle is open for
    kernel,  \* the kernel's cursor of each handle
    handles, \* LaunchInfoState::handles: [kind, lines, cursor]
    cached,  \* LaunchInfoState::file_cache: the files whose text is kept
    call     \* what each thread is doing

vars == <<file, kernel, handles, cached, call>>

Pending == [done |-> FALSE, number |-> 0, lines |-> <<>>]
Answered(number, lines) == [done |-> TRUE, number |-> number, lines |-> lines]
Idle == [pc |-> "idle", req |-> NoRequest, lines |-> <<>>, position |-> 0,
         part |-> <<>>, answer |-> Pending]

Unknown == [kind |-> "unknown", lines |-> <<>>, cursor |-> 0]
Passthrough == [kind |-> "passthrough", lines |-> <<>>, cursor |-> 0]
Virtual(lines, cursor) == [kind |-> "virtual", lines |-> lines, cursor |-> cursor]

-----------------------------------------------------------------------------
(* Mutant: a missing key is appended to the last line, which has no end. *)
RewrittenUnended(lines) ==
    LET found == \E i \in 1..Len(lines) : IsCopyright(lines, i)
        newline == IF \E i \in 1..Len(lines) : lines[i].end = "crlf" THEN "crlf" ELSE "lf"
        copied == [i \in 1..Len(lines) |->
                     [lines[i] EXCEPT !.value = IF IsCopyright(lines, i) THEN Launch ELSE @]]
    IN IF found THEN copied
       ELSE Append(copied, [bom |-> FALSE, key |-> "copyright", value |-> Launch, end |-> newline])
(* rewrite_language_bytes. *)
Rewritten(lines) ==
    LET found == \E i \in 1..Len(lines) : IsCopyright(lines, i)
        newline == IF \E i \in 1..Len(lines) : lines[i].end = "crlf" THEN "crlf" ELSE "lf"
        Ended(end) == IF ~found /\ end = "none" THEN newline ELSE end
        copied == [i \in 1..Len(lines) |->
                     [lines[i] EXCEPT !.value = IF IsCopyright(lines, i) THEN Launch ELSE @,
                                      !.end = Ended(@)]]
    IN IF found THEN copied
       ELSE Append(copied, [bom |-> FALSE, key |-> "copyright", value |-> Launch, end |-> newline])

(* final_path_for_handle, into a buffer that is made large enough. *)
FinalPath(f) == IF f \in Unnamed THEN <<>> ELSE Path[f]

(* normalize_windows_path has dealt with prefixes and separators. *)
Normalized(path) == [i \in DOMAIN path |-> LowerCase[path[i]]]
IsTargetLanguagePath(path) ==
    /\ IsStrictPrefix(Normalized(TextsDir), Normalized(path))
    /\ Last(Normalized(path)) \in LangNames

Part(lines, from, count) ==
    SubSeq(lines, from + 1, IF from + count < Len(lines) THEN from + count ELSE Len(lines))
SeekBase(req, lines, cursor) ==
    CASE req.from = "begin" -> 0
      [] req.from = "cursor" -> cursor
      [] req.from = "end" -> Len(lines)

-----------------------------------------------------------------------------
Init ==
    /\ file = [h \in Handles |-> NoFile]
    /\ kernel = [h \in Handles |-> 0]
    /\ handles = [h \in Handles |-> Unknown]
    /\ cached = {}
    /\ call = [t \in Threads |-> Idle]

Me(t, pc) == call[t].pc = pc
Goto(t, pc) == call' = [call EXCEPT ![t].pc = pc]

(* A file is opened: CreateFileW is not hooked here. *)
Open(h, f) ==
    /\ file[h] = NoFile
    /\ file' = [file EXCEPT ![h] = f]
    /\ kernel' = [kernel EXCEPT ![h] = 0]
    /\ UNCHANGED <<handles, cached, call>>

(* A hooked function is called.  Two threads use one handle at a time only
   where its cursor is not involved, and none while it is being closed. *)
Call(t, req) ==
    /\ Me(t, "idle") /\ file[req.handle] # NoFile
    /\ req.op = "seek" => kernel[req.handle] <= MaxPosition
    /\ \A u \in Threads \ {t} : call[u].req # NoRequest /\ call[u].req.handle = req.handle =>
         {req.op, call[u].req.op} \subseteq Positionless
    /\ \E export \in Exports(req.op) :
         LET closing == req.op = "close"
             hooked == export \in Hookable
         IN call' = [call EXCEPT ![t] = [Idle EXCEPT
                !.pc = CASE closing /\ hooked -> "remove" [] closing /\ ~hooked -> "close"
                         [] ~closing /\ hooked -> "lookup" [] OTHER -> "original",
                !.req = req]]
    /\ UNCHANGED <<file, kernel, handles, cached>>

(* How a thread goes on with the table's entry for its handle. *)
With(t, entry) ==
    call' = [call EXCEPT ![t].pc = IF entry.kind = "virtual" THEN "serve" ELSE "original",
                         ![t].lines = entry.lines]

(* virtual_file_for_handle. *)
Lookup(t) ==
    /\ Me(t, "lookup")
    /\ LET entry == handles[call[t].req.handle]
       IN IF entry.kind = "unknown" THEN Goto(t, "classify") ELSE With(t, entry)
    /\ UNCHANGED <<file, kernel, handles, cached>>

(* classify_handle: what is not a language file is passed through, ... *)
Classify(t) ==
    /\ Me(t, "classify")
    /\ LET h == call[t].req.handle
           f == file[h]
       IN IF ~IsTargetLanguagePath(FinalPath(f))
          THEN handles' = [handles EXCEPT ![h] = Passthrough] /\ Goto(t, "original")
          ELSE /\ call' = [call EXCEPT
                      ![t].pc = IF f \in cached THEN "cursor" ELSE "load",
                      ![t].lines = IF f \in cached THEN Rewritten(Text[f]) ELSE <<>>]
               /\ UNCHANGED handles
    /\ UNCHANGED <<file, kernel, cached>>

(* ... nor is one that cannot be read; the text of the others is kept. *)
Load(t) ==
    /\ Me(t, "load")
    /\ LET h == call[t].req.handle
           f == file[h]
       IN IF f \in Unreadable
          THEN /\ handles' = [handles EXCEPT ![h] = Passthrough] /\ Goto(t, "original")
               /\ UNCHANGED cached
          ELSE /\ cached' = cached \cup {f}
               /\ call' = [call EXCEPT ![t].pc = "cursor", ![t].lines = Rewritten(Text[f])]
               /\ UNCHANGED handles
    /\ UNCHANGED <<file, kernel>>

(* current_kernel_cursor, and, once the table is locked, what another thread
   may have entered meanwhile. *)
ReadCursor(t) ==
    /\ Me(t, "cursor")
    /\ call' = [call EXCEPT ![t].pc = "enter", ![t].position = kernel[call[t].req.handle]]
    /\ UNCHANGED <<file, kernel, handles, cached>>
EnterTable(t) ==
    /\ Me(t, "enter")
    /\ LET h == call[t].req.handle
           entry == IF handles[h].kind = "unknown"
                    THEN Virtual(call[t].lines, call[t].position) ELSE handles[h]
       IN handles' = [handles EXCEPT ![h] = entry] /\ With(t, entry)
    /\ UNCHANGED <<file, kernel, cached>>

-----------------------------------------------------------------------------
(* The functions, for a handle the table has a text for. *)
Serving(t, op) == Me(t, "serve") /\ call[t].req.op = op
Answer(t, number, lines) ==
    call' = [call EXCEPT ![t].pc = "done", ![t].answer = Answered(number, lines)]

(* detour_read_file: the cursor is read under its lock, the bytes are copied,
   and the cursor is set under its lock again, and the kernel's after it. *)
ReadAtCursor(t) ==
    /\ Serving(t, "read")
    /\ LET offset == handles[call[t].req.handle].cursor
           part == Part(call[t].lines, offset, call[t].req.count)
       IN call' = [call EXCEPT ![t].pc = "advance", ![t].part = part,
                               ![t].position = offset + Len(part)]
    /\ UNCHANGED <<file, kernel, handles, cached>>
Advance(t) ==
    /\ Me(t, "advance")
    /\ handles' = [handles EXCEPT ![call[t].req.handle].cursor = call[t].position]
    /\ call' = [call EXCEPT ![t].pc = "sync",
           ![t].answer = IF call[t].req.op = "seek" THEN Answered(call[t].position, <<>>)
                         ELSE Answered(Len(call[t].part), call[t].part)]
    /\ UNCHANGED <<file, kernel, cached>>

(* sync_kernel_cursor. *)
SyncKernelCursor(t) ==
    /\ Me(t, "sync") /\ Goto(t, "done")
    /\ kernel' = [kernel EXCEPT ![call[t].req.handle] = call[t].position]
    /\ UNCHANGED <<file, handles, cached>>

(* A read that brings its own offset leaves the cursor alone, though Windows
   might not have. *)
ReadAtOffset(t) ==
    /\ Serving(t, "readAt")
    /\ LET part == Part(call[t].lines, call[t].req.at, call[t].req.count)
       IN Answer(t, Len(part), part)
    /\ UNCHANGED <<file, kernel, handles, cached>>

(* detour_set_file_pointer and its Ex form: where the text has no such place
   the original function decides. *)
Seek(t) ==
    /\ Serving(t, "seek")
    /\ LET req == call[t].req
           to == SeekBase(req, call[t].lines, handles[req.handle].cursor) + req.count
       IN IF to < 0 THEN Goto(t, "original")
          ELSE call' = [call EXCEPT ![t].pc = "advance", ![t].position = to]
    /\ UNCHANGED <<file, kernel, handles, cached>>

(* detour_get_file_size and its Ex form, and the length in what
   detour_get_file_information_by_handle and its Ex form have got. *)
Size(t) ==
    /\ Serving(t, "size") /\ Answer(t, Len(call[t].lines), <<>>)
    /\ UNCHANGED <<file, kernel, handles, cached>>

(* populate_mapping: a view of the new memory is filled and given up. *)
PopulateMapping(t) == Answer(t, 0, call[t].lines)

(* detour_create_file_mapping_w: memory with a copy of the text, or the file
   itself when there is none to be had or it cannot be filled. *)
Map(t) ==
    /\ Serving(t, "map")
    /\ PopulateMapping(t) \/ Goto(t, "original")
    /\ UNCHANGED <<file, kernel, handles, cached>>

(* detour_close_handle: the table forgets the handle first, ... *)
Forget(t) ==
    /\ Me(t, "remove")
    /\ handles' = [handles EXCEPT ![call[t].req.handle] = Unknown]
    /\ call' = [call EXCEPT ![t].pc = "close", ![t].answer = Answered(0, <<>>)]
    /\ UNCHANGED <<file, kernel, cached>>
(* Mutant: the original function is called first. *)
CloseFirst(t) ==
    \/ /\ Me(t, "remove")
       /\ file' = [file EXCEPT ![call[t].req.handle] = NoFile]
       /\ call' = [call EXCEPT ![t].pc = "close", ![t].answer = Answered(0, <<>>)]
       /\ UNCHANGED <<kernel, handles, cached>>
    \/ /\ Me(t, "close") /\ Goto(t, "done")
       /\ handles' = [handles EXCEPT ![call[t].req.handle] = Unknown]
       /\ UNCHANGED <<file, kernel, cached>>
(* ... and the value may be used again as soon as the original returns. *)
Close(t) ==
    \/ Forget(t)
    \/ /\ Me(t, "close") /\ Answer(t, 0, <<>>)
       /\ file' = [file EXCEPT ![call[t].req.handle] = NoFile]
       /\ UNCHANGED <<kernel, handles, cached>>

(* The original function, for everything else.  A read at an offset moves the
   cursor too where the file was opened for synchronous use. *)
Original(t) ==
    /\ Me(t, "original")
    /\ LET req == call[t].req
           h == req.handle
           lines == Text[file[h]]
           Moved(number, part, to) == Answer(t, number, part) /\ kernel' = [kernel EXCEPT ![h] = to]
           part == Part(lines, IF req.op = "read" THEN kernel[h] ELSE req.at, req.count)
           to == SeekBase(req, lines, kernel[h]) + req.count
       IN CASE req.op = "read" -> Moved(Len(part), part, kernel[h] + Len(part))
            [] req.op = "seek" /\ to >= 0 -> Moved(to, <<>>, to)
            [] req.op = "seek" /\ to < 0 -> Answer(t, -1, <<>>) /\ UNCHANGED kernel
            [] req.op = "readAt" ->
                 /\ Answer(t, Len(part), part)
                 /\ \/ UNCHANGED kernel
                    \/ kernel' = [kernel EXCEPT ![h] = req.at + Len(part)]
            [] req.op = "size" -> Answer(t, Len(lines), <<>>) /\ UNCHANGED kernel
            [] req.op = "map" -> Answer(t, 0, lines) /\ UNCHANGED kernel
    /\ UNCHANGED <<file, handles, cached>>

Return(t) ==
    /\ Me(t, "done")
    /\ call' = [call EXCEPT ![t] = Idle]
    /\ UNCHANGED <<file, kernel, handles, cached>>

Serve(t) ==
    \/ ReadAtCursor(t) \/ ReadAtOffset(t) \/ Seek(t) \/ Size(t) \/ Map(t)
    \/ Advance(t) \/ SyncKernelCursor(t)
Step(t) ==
    \/ Lookup(t) \/ Classify(t) \/ Load(t) \/ ReadCursor(t) \/ EnterTable(t)
    \/ Serve(t) \/ Close(t) \/ Original(t) \/ Return(t)

Next ==
    \/ \E h \in Handles, f \in Files : Open(h, f)
    \/ \E t \in Threads : Step(t) \/ \E req \in Requests : Call(t, req)

Spec == Init /\ [][Next]_vars

-----------------------------------------------------------------------------
(* The instance has all nine hooks: with some of them, as install allows,
   functions speak of different contents.  A handle is closed, for the
   program, when the table forgets it. *)
Closing(h) == \E t \in Threads : call[t].req # NoRequest /\ call[t].req.handle = h /\ Me(t, "close")

Plain == INSTANCE PlainFile WITH
    Languages <- {f \in Files : IsTargetLanguagePath(FinalPath(f))},
    opened <- [h \in Handles |-> IF Closing(h) THEN NoFile ELSE file[h]],
    shown <- [h \in Handles |->
        [decided |-> handles[h].kind # "unknown",
         lines |-> CASE handles[h].kind = "virtual" -> handles[h].lines
                     [] handles[h].kind = "passthrough" /\ file[h] # NoFile -> Text[file[h]]
                     [] OTHER -> <<>>]],
    cursor <- [h \in Handles |->
        IF handles[h].kind = "virtual" THEN handles[h].cursor ELSE kernel[h]],
    asked <- [t \in Threads |-> call[t].req],
    answer <- [t \in Threads |-> call[t].answer]

(* Whatever functions a program uses, in whatever order and from however many
   threads, an open file has one content and one cursor: that of the disk,
   or, for a language file that can be read, that of the disk but for the
   launch text; also when the value of the handle stood for another file
   before. *)
ImplementsPlainFile == Plain!Spec

(* What is not hooked finds the kernel's cursor where the hooked functions
   have left the text's, once they are done with the handle. *)
CursorsAgree ==
    \A h \in Handles :
        handles[h].kind = "virtual" /\ (\A t \in Threads : call[t].req # NoRequest => call[t].req.handle # h)
        => kernel[h] = handles[h].cursor

(* The types; and the table has no entry for a handle that is not open. *)
TypeOK ==
    /\ file \in [Handles -> Files \cup {NoFile}] /\ kernel \in [Handles -> Nat]
    /\ cached \subseteq Files
    /\ \A h \in Handles :
         /\ handles[h].kind \in {"unknown", "passthrough", "virtual"}
         /\ file[h] = NoFile => handles[h] = Unknown
    /\ \A t \in Threads : call[t].req \in Requests \cup {NoRequest}

(* The table speaks of the files that are open: nothing is left in it of a
   handle that was closed, and its cursors are the kernel's. *)
TableFollowsHandles == TypeOK /\ CursorsAgree
=============================================================================
