----------------------------- MODULE SessionLogs -----------------------------
(***************************************************************************)
(* The files under logs/ and the debug console, from one session of the    *)
(* game to the next: src/core/console.rs, the relay of other programs'     *)
(* lines in src/runtime/foundation/logging.rs, the retention of            *)
(* archives in logging_runtime.rs, file_io_policy.rs, and the redirection  *)
(* of the process's output in native_stdio.rs.                             *)
(*                                                                         *)
(* logs/latest.log is a sequence of pieces.  A line of the loader is one   *)
(* piece; a line of another program, such as PreLoader, comes in two: the  *)
(* first holds the header, the second ends the line.  "boot" is the loader's *)
(* thread, "io" its post-OEP thread; "task" is what one of them has yet to *)
(* do with the console.  A session may end at any moment.                  *)
(*                                                                         *)
(* LogPipeline has the way of the loader's own lines to the two sinks.     *)
(***************************************************************************)
EXTENDS Integers, Sequences, FiniteSets

CONSTANTS
  Foreign,     \* lines of other programs, each written at most once
  Versions,    \* what the game's version may be: [major, minor]
  Configs,     \* what config.json may say: [console, days]
  Descriptors, \* the output descriptors of the C runtimes that are loaded
  DefaultDays, \* DEFAULT_ARCHIVE_RETENTION_DAYS
  MaxDays,     \* MAX_ARCHIVE_RETENTION_DAYS
  MaxPending,  \* EXTERNAL_RELAY_MAX_PENDING, in pieces
  MaxOwn,      \* bound: lines of the loader in a session
  MaxSessions, \* bound: sessions
  MaxAge,      \* bound: days that are counted
  MaxLatest    \* bound: the pieces latest.log has when another one writes

ASSUME SessionAssumption ==
  /\ Versions \subseteq [major : Nat, minor : Nat] /\ Versions # {}
  /\ Configs \subseteq [console : BOOLEAN, days : Nat] /\ Configs # {}
  /\ DefaultDays \in 1 .. MaxDays /\ MaxDays \in Nat
  /\ MaxPending \in Nat /\ MaxOwn \in Nat /\ MaxSessions \in Nat /\ MaxAge \in Nat
  /\ MaxLatest \in Nat

VARIABLES
  session,  \* how many have begun
  version,  \* the version of the game
  gated,    \* is the game's entry point held back until the loader is done?
  phase,    \* where the loader's thread is
  task,     \* what is to be done with the console and the process's output
  wanted,   \* config.json
  config,   \* what was loaded of it
  days,     \* ARCHIVE_RETENTION_DAYS
  terminal, \* [associated, window, logging, stdio]: the process's console, and
            \* CONSOLE_WINDOW_READY, CONSOLE_LOGGING_READY, CONSOLE_STDIO_READY
  handle,   \* CONSOLE_HANDLE
  queued,   \* what queue_external_log_history put into the backlog
  relay,    \* [at, offset, pending]: tail_external_structured_log
  display,  \* the lines of other programs on the console of this session
  output,   \* [std, crt, readers]: where the process's output goes
  latest,   \* logs/latest.log
  written,  \* how much of each foreign line has been written
  archives, \* [age, lines]: the file of each session in logs/archive
  asked,    \* history: the retentions config.json has had in this session
  stale,    \* history: was latest.log emptied since the relay last began it?
  cut,      \* history: the foreign lines that were taken or given up unended
  kept      \* history: has every archive that went been old enough?

boots  == <<session, version, gated, phase>>
files  == <<latest, written, archives, kept>>
configs == <<wanted, config, days, asked>>
shown  == <<handle, queued, relay, display, stale, cut>>
sessionVars == <<boots, task, configs, terminal, shown, output, files>>

-----------------------------------------------------------------------------
(* is_legacy_uwp_version, writes_allowed *)
Legacy(v) == v.major = 1 /\ v.minor \in 17 .. 19
WritingAllowed == ~Legacy(version)

(* The pieces of a line, and of one of the loader's own. *)
Head1(l)  == [line |-> l, part |-> 1]
Tail2(l)  == [line |-> l, part |-> 2]
OwnLine(n) == [line |-> <<"own", session, n>>, part |-> 0]
Whole(l)  == <<Head1(l), Tail2(l)>>

Ends(piece)  == piece.part # 1
LinesOf(s)   == {s[i].line : i \in DOMAIN s}

(* the lines that end in s, and what is left of it *)
ReadOn(read, piece) ==
  IF Ends(piece)
  THEN [lines |-> Append(read.lines, Append(read.left, piece)), left |-> <<>>]
  ELSE [read EXCEPT !.left = Append(@, piece)]

Readings(s) ==
  LET read[i \in 0 .. Len(s)] ==
        IF i = 0 THEN [lines |-> <<>>, left |-> <<>>] ELSE ReadOn(read[i - 1], s[i])
  IN read
Split(s) == Readings(s)[Len(s)]

(* s without the elements that fail Test, up to each of its places *)
Sifted(s, Test(_)) ==
  LET sifted[i \in 0 .. Len(s)] ==
        IF i = 0 THEN <<>>
        ELSE IF Test(s[i]) THEN Append(sifted[i - 1], s[i]) ELSE sifted[i - 1]
  IN sifted

(* parse_external_structured_line, external_level: a line is another        *)
(* program's if it begins with a header as other programs write it; the     *)
(* loader's own lines, and what is left of a cut one, do not                *)
Parses(line) == line[1].part = 1

External(lines) == Sifted(lines, Parses)[Len(lines)]

ClampedDays(d) == IF d < 1 THEN 1 ELSE IF d > MaxDays THEN MaxDays ELSE d

NoConsole == [associated |-> FALSE, window |-> FALSE, logging |-> FALSE, stdio |-> FALSE]
NoRelay   == [at |-> "none", offset |-> 0, pending |-> <<>>]
OwnOutput == [std |-> "own", crt |-> [d \in Descriptors |-> "own"], readers |-> FALSE]
NoFile    == [age |-> 0, lines |-> <<>>]

(* What a process begins with: nothing but the files is left of the one      *)
(* before.                                                                  *)
FreshProcess(asks) ==
  /\ phase' = "start" /\ task' = <<>> /\ config' = asks /\ days' = DefaultDays
  /\ handle' = FALSE /\ queued' = <<>> /\ relay' = NoRelay /\ display' = <<>>
  /\ output' = OwnOutput /\ asked' = {asks.days}
  /\ stale' = FALSE /\ cut' = {}
  /\ \E attached \in BOOLEAN : terminal' = [NoConsole EXCEPT !.associated = attached]

SessionInit ==
  /\ session = 1 /\ version \in Versions /\ gated \in BOOLEAN /\ phase = "start"
  /\ task = <<>> /\ days = DefaultDays
  /\ wanted \in Configs /\ config = wanted
  /\ terminal \in {NoConsole, [NoConsole EXCEPT !.associated = TRUE]}
  /\ handle = FALSE /\ queued = <<>> /\ relay = NoRelay /\ display = <<>>
  /\ output = OwnOutput /\ asked = {wanted.days}
  /\ stale = FALSE /\ cut = {} /\ latest = <<>> /\ written = [l \in Foreign |-> 0]
  /\ archives = <<>> /\ kept = TRUE

(* The game ends, or crashes, and is started again; a line that was half     *)
(* written stays so.                                                        *)
Restart ==
  /\ session < MaxSessions /\ session' = session + 1
  /\ version' \in Versions /\ gated' \in BOOLEAN
  /\ FreshProcess(wanted)
  /\ written' = [l \in Foreign |-> IF written[l] = 0 THEN 0 ELSE 2]
  /\ UNCHANGED <<wanted, latest, archives, kept>>

-----------------------------------------------------------------------------
(* Other programs, the user and the clock.                                  *)

(* Before a gated loader has begun to load others there is none. *)
ForeignWrites(l) ==
  /\ phase # "start" \/ ~gated
  /\ written[l] < 2 /\ Len(latest) < MaxLatest
  /\ written' = [written EXCEPT ![l] = @ + 1]
  /\ latest' = Append(latest, IF written[l] = 0 THEN Head1(l) ELSE Tail2(l))
  /\ UNCHANGED <<boots, task, configs, terminal, shown, output, archives, kept>>

(* bound: config.json asks for another retention once in a session *)
EditConfig ==
  /\ asked = {wanted.days}
  /\ wanted' \in Configs /\ wanted' # wanted
  /\ asked' = asked \cup {wanted'.days}
  /\ UNCHANGED <<boots, task, config, days, terminal, shown, output, files>>

DayPasses ==
  /\ \E s \in DOMAIN archives : archives[s].age < MaxAge
  /\ archives' = [s \in DOMAIN archives |->
                    [archives[s] EXCEPT !.age = IF @ < MaxAge THEN @ + 1 ELSE @]]
  /\ UNCHANGED <<boots, task, configs, terminal, shown, output, latest, written, kept>>

-----------------------------------------------------------------------------
(* The files.                                                                *)

(* prune_archive_logs, at the age d: the rest, and were they old enough? *)
Pruned(d) ==
  LET old == {s \in DOMAIN archives : WritingAllowed /\ archives[s].age >= d}
  IN [left |-> [s \in DOMAIN archives \ old |-> archives[s]],
      kept |-> \A s \in old : \E a \in asked : archives[s].age >= ClampedDays(a)]

(* latest_log_path, archive_log_path: latest.log is emptied and the archive  *)
(* of this session begins                                                   *)
Prepared(left) ==
  IF WritingAllowed
  THEN /\ latest' = <<>>
       /\ archives' = [s \in DOMAIN left \cup {session} |->
                         IF s = session THEN NoFile ELSE left[s]]
  ELSE /\ archives' = left /\ UNCHANGED latest

Ready == phase \in {"up", "done"}

(* write_bytes_to_bootstrap_file, the tracing appenders: a line goes to both *)
(* files, and an archive that is gone begins anew                            *)
WriteOwn ==
  /\ Ready /\ WritingAllowed
  /\ LET n    == Cardinality({i \in DOMAIN latest : latest[i].part = 0}) + 1
         file == IF session \in DOMAIN archives THEN archives[session] ELSE NoFile
     IN /\ n <= MaxOwn
        /\ latest' = Append(latest, OwnLine(n))
        /\ archives' = [s \in DOMAIN archives \cup {session} |->
                          IF s = session
                          THEN [age |-> 0, lines |-> Append(file.lines, OwnLine(n))]
                          ELSE archives[s]]
  /\ UNCHANGED <<boots, task, configs, terminal, shown, output, written, kept>>

-----------------------------------------------------------------------------
(* The loader's thread.                                                      *)

Stage(from, to) == phase = from /\ task = <<>> /\ phase' = to

Full == <<"window", "activate", "bind">>

(* try_load: early_console_requested reads config.json and nothing else *)
BeginPreload ==
  /\ Stage("start", "natives")
  /\ task' = IF wanted.console THEN <<"window", "activate">> ELSE <<>>
  /\ UNCHANGED <<session, version, gated, configs, terminal, shown, output, files>>

(* Mutant: logging comes up before the configuration is applied. *)
LoadConfigLate ==
  /\ Stage("natives", "init")
  /\ config' = wanted
  /\ UNCHANGED <<session, version, gated, task, wanted, days, asked, terminal, shown,
                 output, files>>

(* Config::load; apply_update sets the retention and prunes nothing yet *)
LoadConfig ==
  /\ Stage("natives", "init")
  /\ config' = wanted /\ days' = ClampedDays(wanted.days)
  /\ UNCHANGED <<session, version, gated, task, wanted, asked, terminal, shown, output,
                 files>>

(* logging_runtime::init *)
InitLogging ==
  /\ Stage("init", "up")
  /\ kept' = (kept /\ Pruned(days).kept) /\ Prepared(Pruned(days).left)
  /\ stale' = (WritingAllowed /\ relay.offset > 0)
  /\ UNCHANGED <<session, version, gated, task, configs, terminal, handle, queued, relay,
                 display, cut, output, written>>

(* bootstrap: a late attached loader brings the console up itself; one that  *)
(* holds the entry point back lets it go, and leaves that to a thread that   *)
(* may give up waiting for it                                                *)
BringUp ==
  /\ Stage("up", "done")
  /\ \/ task' = (IF config.console THEN Full ELSE <<>>) \o <<"capture">>
     \/ gated /\ task' = <<>>
  /\ UNCHANGED <<session, version, gated, configs, terminal, shown, output, files>>

(* The watcher of config.json: Config::load, set_archive_retention_days *)
Reload ==
  /\ phase \notin {"start", "natives", "init"} /\ config # wanted
  /\ config' = wanted /\ days' = ClampedDays(wanted.days)
  /\ kept' = (kept /\ Pruned(ClampedDays(wanted.days)).kept)
  /\ archives' = Pruned(ClampedDays(wanted.days)).left
  /\ UNCHANGED <<boots, task, wanted, asked, terminal, shown, output, latest, written>>

-----------------------------------------------------------------------------
(* The console.  Each step ends by taking itself off the task.              *)

Doing(what) == task # <<>> /\ Head(task) = what
Next1 == task' = Tail(task)

(* init_console_window_early: the console the process has, or the launcher's *)
(* terminal, or one of its own                                              *)
OpenWindow ==
  /\ Doing("window") /\ Next1
  /\ \/ /\ terminal.window \/ terminal.associated
        /\ terminal' = [terminal EXCEPT !.window = TRUE]
     \/ /\ ~terminal.window /\ ~terminal.associated
        /\ \/ terminal' = [terminal EXCEPT !.window = TRUE, !.associated = TRUE]
           \/ UNCHANGED terminal
  /\ UNCHANGED <<boots, configs, shown, output, files>>

(* activate_console_logging: not without a window, and once; then           *)
(* set_console_handle                                                       *)
ActivateLogging ==
  /\ Doing("activate")
  /\ \/ /\ terminal.logging \/ ~terminal.window
        /\ Next1 /\ UNCHANGED terminal
     \/ /\ ~terminal.logging /\ terminal.window
        /\ \/ terminal' = [terminal EXCEPT !.logging = TRUE]
              /\ task' = <<"history", "show">> \o Tail(task)
           \/ Next1 /\ UNCHANGED terminal
  /\ UNCHANGED <<boots, configs, shown, output, files>>

(* Mutant: the relay begins where the file begins. *)
TakeHistoryAgain ==
  /\ Doing("history") /\ Next1
  /\ IF WritingAllowed
     THEN LET read == Split(latest)
          IN /\ queued' = External(IF read.left = <<>> THEN read.lines
                                    ELSE Append(read.lines, read.left))
             /\ UNCHANGED relay
     ELSE UNCHANGED <<queued, relay>>
  /\ UNCHANGED <<boots, configs, terminal, handle, display, stale, cut, output, files>>

(* queue_external_log_history: every line there is, one not ended too *)
TakeHistory ==
  /\ Doing("history") /\ Next1
  /\ IF WritingAllowed
     THEN LET read == Split(latest)
          IN /\ queued' = External(IF read.left = <<>> THEN read.lines
                                    ELSE Append(read.lines, read.left))
             /\ relay' = [relay EXCEPT !.offset = Len(latest)]
             /\ cut' = LinesOf(read.left)
     ELSE UNCHANGED <<queued, relay, cut>>
  /\ UNCHANGED <<boots, configs, terminal, handle, display, stale, output, files>>

(* CONSOLE_HANDLE is set, the backlog flushed, the relay started *)
ShowHistory ==
  /\ Doing("show") /\ Next1
  /\ handle' = TRUE /\ display' = display \o queued /\ queued' = <<>>
  /\ relay' = [relay EXCEPT !.at = IF WritingAllowed THEN "look" ELSE "none"]
  /\ UNCHANGED <<boots, configs, terminal, stale, cut, output, files>>

(* bind_process_stdio: once, also if CONOUT$ does not open *)
BindStdio ==
  /\ Doing("bind") /\ Next1
  /\ IF terminal.stdio \/ ~terminal.window
     THEN UNCHANGED <<terminal, output>>
     ELSE /\ terminal' = [terminal EXCEPT !.stdio = TRUE]
          /\ \/ output' = [output EXCEPT !.std = "console"]
             \/ UNCHANGED output
  /\ UNCHANGED <<boots, configs, shown, files>>

(* CrtRedirect::install, resolve_crt_apis, bind_crt_fd: a runtime that lacks  *)
(* an export is passed over, and each descriptor is redirected for itself    *)
Redirected(bound) == [d \in Descriptors |-> IF d \in bound THEN "pipe" ELSE output.crt[d]]

(* Mutant: the standard handles go to the pipes whether or not they are read. *)
CaptureUnread ==
  /\ Doing("capture") /\ Next1
  /\ \E bound \in SUBSET Descriptors :
       output' = [std |-> IF handle THEN output.std ELSE "pipe", crt |-> Redirected(bound),
                  readers |-> handle]
  /\ UNCHANGED <<boots, configs, terminal, shown, files>>

(* install_process_capture: the standard handles unless the console is up,   *)
(* and the descriptors; nothing at all if a pipe cannot be made              *)
Capture ==
  /\ Doing("capture") /\ Next1
  /\ \/ \E bound \in SUBSET Descriptors :
          output' = [std |-> IF handle THEN output.std ELSE "pipe", crt |-> Redirected(bound),
                     readers |-> TRUE]
     \/ UNCHANGED output
  /\ UNCHANGED <<boots, configs, terminal, shown, files>>

-----------------------------------------------------------------------------
(* tail_external_structured_log, on a thread of its own.                     *)

RelayStep(from) ==
  /\ relay.at = from
  /\ UNCHANGED <<boots, task, configs, terminal, handle, queued, output, files>>

(* a file that has become shorter is read from its beginning *)
RelayLooks ==
  /\ RelayStep("look")
  /\ relay' = IF Len(latest) < relay.offset THEN [at |-> "read", offset |-> 0, pending |-> <<>>]
              ELSE [relay EXCEPT !.at = "read"]
  /\ stale' = (stale /\ Len(latest) >= relay.offset)
  /\ UNCHANGED <<display, cut>>

(* some of what is there, drain_external_structured_lines; until there is    *)
(* nothing more                                                              *)
RelayReads ==
  /\ RelayStep("read") /\ Len(latest) > relay.offset
  /\ \E n \in 1 .. Len(latest) - relay.offset :
       LET read == Split(relay.pending \o SubSeq(latest, relay.offset + 1, relay.offset + n))
       IN /\ relay' = [relay EXCEPT !.offset = @ + n, !.pending = read.left]
          /\ display' = display \o External(read.lines)
  /\ UNCHANGED <<stale, cut>>

RelaySleeps ==
  /\ RelayStep("read") /\ Len(latest) <= relay.offset
  /\ relay' = [relay EXCEPT !.at = "look",
                            !.pending = IF Len(@) > MaxPending THEN <<>> ELSE @]
  /\ cut' = IF Len(relay.pending) > MaxPending THEN cut \cup LinesOf(relay.pending) ELSE cut
  /\ UNCHANGED <<display, stale>>

Relay == RelayLooks \/ RelayReads \/ RelaySleeps

Loader ==
  \/ BeginPreload \/ LoadConfig \/ InitLogging \/ BringUp
  \/ OpenWindow \/ ActivateLogging \/ TakeHistory \/ ShowHistory \/ BindStdio \/ Capture

Outside == Restart \/ EditConfig \/ DayPasses \/ \E l \in Foreign : ForeignWrites(l)

SessionNext == Loader \/ WriteOwn \/ Reload \/ Relay \/ Outside

SessionSpec == SessionInit /\ [][SessionNext]_sessionVars

-----------------------------------------------------------------------------
(* No line of another program is twice on the console of a session, not even *)
(* in part, also where the history ends and the relay begins and when the    *)
(* file is emptied under both; and when the relay has come to the end of the  *)
(* file, every such line in it is there, unless it was taken unended or the  *)
(* file, once emptied, had outgrown the relay's place before it looked.      *)
On(lines, l) == {i \in DOMAIN lines : Head1(l) \in {lines[i][k] : k \in DOMAIN lines[i]}}

RelayedOnce ==
  /\ \A l \in Foreign : Cardinality(On(display \o queued, l)) <= 1
  /\ relay.at # "none" /\ ~stale /\ relay.offset = Len(latest) =>
       LET whole == External(Split(latest).lines)
       IN \A i \in DOMAIN whole :
            whole[i][1].line \in cut \/ \E k \in DOMAIN display : display[k] = whole[i]

(* What the process prints goes where it goes until the game's entry point   *)
(* has been let go; then, unless a call fails or nobody waited, to a console *)
(* that is there or into a pipe that somebody reads.                         *)
OutputFollows ==
  /\ gated /\ phase # "done" => output = OwnOutput
  /\ output.std = "console" => terminal.associated
  /\ output.std = "pipe" \/ (\E d \in Descriptors : output.crt[d] = "pipe") => output.readers
  /\ phase = "done" /\ task = <<>> /\ ~gated /\ output.readers /\ ~handle =>
       output.std = "pipe"

(* What the loader has written in this session is in latest.log from the     *)
(* first line on, and the archive ends as it does; an archive that is gone   *)
(* was as old as config.json had asked for in the session that removed it;   *)
(* and under a version that forbids it the loader has written nothing.       *)
IsOwn(piece) == piece.part = 0
Own(s) == Sifted(s, IsOwn)[Len(s)]

LogsKept ==
  /\ kept
  /\ Ready /\ WritingAllowed =>
       LET own == Own(latest)
       IN /\ own = [n \in 1 .. Len(own) |-> OwnLine(n)]
          /\ session \in DOMAIN archives =>
               LET filed == archives[session].lines
               IN filed = SubSeq(own, Len(own) - Len(filed) + 1, Len(own))
  /\ ~WritingAllowed =>
       /\ session \notin DOMAIN archives
       /\ \A i \in DOMAIN latest : ~IsOwn(latest[i]) \/ latest[i].line[2] # session
=============================================================================
