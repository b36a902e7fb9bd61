----------------------------- MODULE LogPipeline -----------------------------
(***************************************************************************)
(* How a log message reaches the log files and the debug console while     *)
(* BLoader starts: src/runtime/foundation/logging.rs and                   *)
(* logging_runtime.rs, the console of src/core/console.rs, the pending     *)
(* records of the XUser bridge, and the order in which lib.rs and          *)
(* preloader_proxy.rs bring the sinks up.                                  *)
(*                                                                         *)
(* A message is logged at most once.  The loader starts on the process     *)
(* "boot"; "io" is its post-OEP thread; Loggers are threads of preloaded   *)
(* native DLLs (through the console hooks), of the configuration watcher   *)
(* and of the game.  One step is one test of a flag, one critical section  *)
(* or one write.  OutputDebugString gets every message at once and is left *)
(* out, and so are the lines that other programs append to latest.log.     *)
(***************************************************************************)
EXTENDS Integers, Sequences, FiniteSets

CONSTANTS
  Loggers,       \* threads other than the loader's own
  Logs,          \* messages of log_message
  Bridges,       \* messages of bridge_info, bridge_warn, bridge_error
  Markers,       \* messages of write_bootstrap_marker
  Emergencies,   \* messages of emergency_error_message and its like
  NoMsg,         \* none of them
  Verbose,       \* those of level DEBUG; the others are INFO
  Noises,        \* those of level INFO whose text may be on the list of noise
  Modes,         \* ways the console may come up
  Levels,        \* what log_level may be configured to
  WritesAllowed, \* file_io_policy::writes_allowed
  EarlyLimit,    \* EARLY_EVENTS_LIMIT
  BacklogLimit,  \* CONSOLE_BACKLOG_LIMIT
  MarkerLimit    \* BOOTSTRAP_BACKLOG_LIMIT

Msgs  == Logs \cup Bridges \cup Markers \cup Emergencies
Procs == Loggers \cup {"boot", "io"}

Info  == 3
Debug == 4

ASSUME MsgsAssumption ==
  /\ Logs \cap Bridges = {} /\ Markers \cap (Logs \cup Bridges) = {}
  /\ Emergencies \cap (Logs \cup Bridges \cup Markers) = {}
  /\ \A noise \in Noises : noise \subseteq (Logs \cup Bridges) \ Verbose
  /\ NoMsg \notin Msgs /\ Markers \subseteq Verbose /\ Verbose \subseteq Msgs
ASSUME LoggersAssumption == {"boot", "io"} \cap Loggers = {}
ASSUME ModesAssumption ==
  "none" \in Modes /\ Modes \subseteq {"early", "postoep", "late", "none"}
ASSUME LevelsAssumption == Levels \subseteq {Info, Debug} /\ WritesAllowed \in BOOLEAN
ASSUME LimitsAssumption ==
  EarlyLimit \in Nat \ {0} /\ BacklogLimit \in Nat \ {0} /\ MarkerLimit \in Nat

VARIABLES
  stage,        \* how far the loader's bootstrap is
  noisy,        \* the messages that are noise in this run
  mode,         \* how the console comes up in this run
  level,        \* EFFECTIVE_LEVEL
  consoleLevel, \* CONSOLE_LEVEL
  ready,        \* LOGGING_READY
  configured,   \* LOGGING_CONFIGURED
  console,      \* CONSOLE_HANDLE is set
  early,        \* EARLY_EVENTS
  backlog,      \* CONSOLE_BACKLOG
  pending,      \* PENDING_LOGS of the XUser bridge
  markers,      \* BOOTSTRAP_BACKLOG
  batch,        \* what the loader took out of one of these queues
  flushing,     \* what flush_console_backlog took out of the backlog
  pc,           \* next step of each thread
  msg,          \* the message it logs
  emits,        \* does it go on to the tracing subscriber?
  stamp,        \* when each message was logged, 0 if not yet
  filed,        \* how often each message is in the log files
  screen,       \* the console, oldest line first
  preloadAt,    \* history: messages logged before native DLLs are loaded
  dropped,      \* history: messages a full queue gave up
  overtaken     \* history: messages on their way into a queue as it was taken

queues   == <<early, backlog, pending, markers, batch, flushing>>
flags    == <<noisy, mode, level, consoleLevel, ready, configured, console>>
calls    == <<pc, msg, emits, stamp>>
sinks    == <<filed, screen>>
history  == <<dropped, overtaken, preloadAt>>
vars     == <<stage, flags, queues, calls, sinks, history>>

Init ==
  /\ stage = "dllmain" /\ mode = "none" /\ noisy \in Noises
  /\ level = Info /\ consoleLevel = Info
  /\ ready = FALSE /\ configured = FALSE /\ console = FALSE
  /\ early = <<>> /\ backlog = <<>> /\ pending = <<>> /\ markers = <<>>
  /\ batch = <<>> /\ flushing = {}
  /\ pc    = [p \in Procs |-> "idle"]
  /\ msg   = [p \in Procs |-> NoMsg]
  /\ emits = [p \in Procs |-> FALSE]
  /\ stamp = [m \in Msgs |-> 0]
  /\ filed = [m \in Msgs |-> 0]
  /\ screen = <<>> /\ dropped = {} /\ overtaken = {} /\ preloadAt = 0

Logged == {m \in Msgs : stamp[m] # 0}
OnWay(places) == {msg[p] : p \in {q \in Procs : pc[q] \in places}}

(* loader_info_is_debug, scoped_info_is_debug: noise is logged as DEBUG. *)
LoggedAsDebug(m) == m \in Verbose \cup noisy

(* console_should_show knows the noise too, and agrees with the subscriber's *)
(* EnvFilter but for the moments they are set at; what is for an emergency   *)
(* is not filtered by level.                                                 *)
Shown(m)  == LoggedAsDebug(m) => consoleLevel = Debug
Wanted(m) ==
  WritesAllowed /\ (m \notin Emergencies /\ LoggedAsDebug(m) => level = Debug)

(* A full queue gives up its oldest entry. *)
PushBounded(queue, limit, m) ==
  Append(IF Len(queue) >= limit THEN Tail(queue) ELSE queue, m)
Evicted(queue, limit) == IF Len(queue) >= limit THEN {Head(queue)} ELSE {}

Elements(s) == {s[i] : i \in 1 .. Len(s)}

-----------------------------------------------------------------------------
(* Logging a message.                                                      *)

(* The loader itself logs in DllMain; nobody else runs code that logs       *)
(* before native DLLs are preloaded.                                        *)
MayLog(p) ==
  /\ pc[p] = "idle"
  /\ IF p = "boot" THEN stage = "dllmain"
     ELSE p \in Loggers /\ stage \notin {"dllmain", "early", "early_replay"}

Call(p, m, place) ==
  /\ MayLog(p) /\ stamp[m] = 0
  /\ stamp' = [stamp EXCEPT ![m] = Cardinality(Logged) + 1]
  /\ msg'   = [msg EXCEPT ![p] = m]
  /\ pc'    = [pc EXCEPT ![p] = place]
  /\ emits' = [emits EXCEPT ![p] = place = "mirror"]
  /\ UNCHANGED <<stage, flags, queues, sinks, history>>

(* log_message, bridge_info and write_bootstrap_marker test a flag first. *)
LogMessage(p, m)    == m \in Logs /\ Call(p, m, IF ready THEN "mirror" ELSE "push")
BridgeMessage(p, m) == m \in Bridges /\ Call(p, m, IF ready THEN "mirror" ELSE "pending")
Emergency(p, m)     == m \in Emergencies /\ Call(p, m, "mirror")
Marker(p, m) ==
  /\ m \in Markers
  /\ Call(p, m, CASE ~configured                    -> "marker_push"
                  [] configured /\ level = Debug  -> "marker_write"
                  [] configured /\ level # Debug  -> "idle")

Goto(p, from, to) ==
  /\ pc[p] = from
  /\ pc'    = [pc EXCEPT ![p] = to]
  /\ msg'   = [msg EXCEPT ![p] = IF to = "idle" THEN NoMsg ELSE @]
  /\ emits' = [emits EXCEPT ![p] = to # "idle" /\ @]

(* EARLY_EVENTS, in log_message and enqueue_early_replay *)
Push(p) ==
  /\ Goto(p, "push", "mirror")
  /\ early' = PushBounded(early, EarlyLimit, msg[p])
  /\ dropped' = dropped \cup Evicted(early, EarlyLimit)
  /\ UNCHANGED <<stage, flags, backlog, pending, markers, batch, flushing, stamp, sinks, overtaken,
                 preloadAt>>

QueuePending(p) ==
  /\ Goto(p, "pending", "idle")
  /\ pending' = Append(pending, msg[p])
  /\ UNCHANGED <<stage, flags, early, backlog, markers, batch, flushing, stamp, sinks, history>>

(* BOOTSTRAP_BACKLOG refuses what it has no room for. *)
MarkerPush(p) ==
  /\ Goto(p, "marker_push", "idle")
  /\ IF Len(markers) < MarkerLimit
     THEN markers' = Append(markers, msg[p]) /\ UNCHANGED dropped
     ELSE dropped' = dropped \cup {msg[p]} /\ UNCHANGED markers
  /\ UNCHANGED <<stage, flags, early, backlog, pending, batch, flushing, stamp, sinks, overtaken,
                 preloadAt>>

(* inner::write_bootstrap_marker: the files, then the console if it is up *)
WriteMarkerOut(m) ==
  /\ filed' = [filed EXCEPT ![m] = @ + IF WritesAllowed THEN 1 ELSE 0]
  /\ screen' = IF console /\ Shown(m) THEN Append(screen, m) ELSE screen

MarkerWrite(p) ==
  /\ Goto(p, "marker_write", "idle")
  /\ WriteMarkerOut(msg[p])
  /\ UNCHANGED <<stage, flags, queues, stamp, history>>

(* mirror_message_at: the tests, then a line on the console or in the       *)
(* backlog                                                                  *)
AfterMirror(p) ==
  IF msg[p] \in Emergencies THEN "save" ELSE IF emits[p] THEN "emit" ELSE "idle"

Mirror(p) ==
  /\ Goto(p, "mirror", IF ~Shown(msg[p]) THEN AfterMirror(p)
                       ELSE IF console THEN "write" ELSE "queue")
  /\ UNCHANGED <<stage, flags, queues, stamp, sinks, history>>

Write(p) ==
  /\ Goto(p, "write", AfterMirror(p))
  /\ screen' = Append(screen, msg[p])
  /\ UNCHANGED <<stage, flags, queues, stamp, filed, history>>

Queue(p) ==
  /\ Goto(p, "queue", AfterMirror(p))
  /\ backlog' = PushBounded(backlog, BacklogLimit, msg[p])
  /\ dropped' = dropped \cup Evicted(backlog, BacklogLimit)
  /\ UNCHANGED <<stage, flags, early, pending, markers, batch, flushing, stamp, sinks, overtaken,
                 preloadAt>>

(* emit_event: the tracing subscriber's file layers.  A record of the bridge *)
(* that waited for them comes as INFO, noise or not.                         *)
Emitted(p) ==
  Wanted(msg[p]) \/ (WritesAllowed /\ p = "boot" /\ stage = "replay" /\ msg[p] \notin Verbose)
Emit(p) ==
  /\ Goto(p, "emit", "idle")
  /\ filed' = [filed EXCEPT ![msg[p]] = @ + IF Emitted(p) THEN 1 ELSE 0]
  /\ UNCHANGED <<stage, flags, queues, stamp, screen, history>>

(* emergency_log_message writes to the files itself. *)
Save(p) ==
  /\ Goto(p, "save", "idle")
  /\ filed' = [filed EXCEPT ![msg[p]] = @ + IF WritesAllowed THEN 1 ELSE 0]
  /\ UNCHANGED <<stage, flags, queues, stamp, screen, history>>

-----------------------------------------------------------------------------
(* set_console_handle, on the loader's thread or on its post-OEP thread.    *)

Activate(p) ==
  /\ Goto(p, "activate", "drain")
  /\ console' = TRUE
  /\ UNCHANGED <<stage, noisy, mode, level, consoleLevel, ready, configured, queues,
                 stamp, sinks, history>>

DrainBacklog(p) ==
  /\ Goto(p, "drain", "flush")
  /\ flushing' = Elements(backlog) /\ backlog' = <<>>
  /\ overtaken' = overtaken \cup OnWay({"queue"})
  /\ UNCHANGED <<stage, flags, early, pending, markers, batch, stamp,
                 sinks, dropped,
                 preloadAt>>

(* The records are sorted by the time they were logged at. *)
FlushRecord(p) ==
  /\ pc[p] = "flush"
  /\ \E m \in flushing :
       /\ \A n \in flushing : stamp[m] <= stamp[n]
       /\ flushing' = flushing \ {m}
       /\ screen' = IF Shown(m) THEN Append(screen, m) ELSE screen
  /\ UNCHANGED <<stage, flags, early, backlog, pending, markers, batch, calls,
                 filed, history>>

FlushEnds(p) ==
  /\ flushing = {} /\ Goto(p, "flush", "idle")
  /\ UNCHANGED <<stage, flags, queues, stamp, sinks, history>>

-----------------------------------------------------------------------------
(* The loader's own sequence: preloader_proxy::try_load, bootstrap,         *)
(* logging::init, publish_pending_logs.                                     *)

BootAt(from, to) == /\ stage = from /\ pc["boot"] = "idle"
                    /\ stage' = to

(* With an early console the handle is set before native DLLs are loaded. *)
(* Mutant: the early console does not publish the bridge's records. *)
EnterPreloadUnpublished ==
  /\ BootAt("dllmain", "natives")
  /\ \/ /\ "early" \in Modes /\ mode' = "early"
        /\ pc' = [pc EXCEPT !["boot"] = "activate"]
     \/ UNCHANGED <<noisy, mode, pc>>
  /\ preloadAt' = Cardinality(Logged)
  /\ UNCHANGED <<noisy, level, consoleLevel, ready, configured, console, queues, msg,
                 emits, stamp, sinks, dropped, overtaken>>

EnterPreload ==
  /\ \/ /\ "early" \in Modes /\ mode' = "early"
        /\ BootAt("dllmain", "early")
        /\ pc' = [pc EXCEPT !["boot"] = "activate"]
     \/ BootAt("dllmain", "natives") /\ UNCHANGED <<noisy, mode, pc>>
  /\ preloadAt' = Cardinality(Logged)
  /\ UNCHANGED <<noisy, level, consoleLevel, ready, configured, console, queues, msg, emits, stamp, sinks, dropped, overtaken>>

(* Mutant: the records are read, not taken. *)
PublishPendingCopy ==
  /\ BootAt("early", "early_replay") \/ BootAt("publish", "replay")
  /\ batch' = pending /\ UNCHANGED pending
  /\ overtaken' = overtaken \cup OnWay({"pending"})
  /\ UNCHANGED <<flags, early, backlog, markers, flushing, calls, sinks, dropped,
                 preloadAt>>

(* publish_pending_logs takes the bridge's records *)
PublishPending ==
  /\ BootAt("early", "early_replay") \/ BootAt("publish", "replay")
  /\ batch' = pending /\ pending' = <<>>
  /\ overtaken' = overtaken \cup OnWay({"pending"})
  /\ UNCHANGED <<flags, early, backlog, markers, flushing, calls, sinks, dropped,
                 preloadAt>>

(* and replays each with replay_early_message_at. *)
(* Mutant: a record replayed late is not given to the subscriber. *)
ReplayRecordSilent ==
  /\ stage \in {"early_replay", "replay"} /\ pc["boot"] = "idle" /\ batch # <<>>
  /\ msg'   = [msg EXCEPT !["boot"] = Head(batch)]
  /\ pc'    = [pc EXCEPT !["boot"] = IF ready THEN "mirror" ELSE "push"]
  /\ batch' = Tail(batch)
  /\ UNCHANGED <<stage, flags, early, backlog, pending, markers, flushing, emits,
                 stamp, sinks, history>>

ReplayRecord ==
  /\ stage \in {"early_replay", "replay"} /\ pc["boot"] = "idle" /\ batch # <<>>
  /\ msg'   = [msg EXCEPT !["boot"] = Head(batch)]
  /\ pc'    = [pc EXCEPT !["boot"] = IF ready THEN "mirror" ELSE "push"]
  /\ emits' = [emits EXCEPT !["boot"] = ready]
  /\ batch' = Tail(batch)
  /\ UNCHANGED <<stage, flags, early, backlog, pending, markers, flushing, stamp,
                 sinks, history>>

ReplayEnds ==
  /\ batch = <<>>
  /\ BootAt("early_replay", "natives") \/ BootAt("replay", "done")
  /\ UNCHANGED <<flags, queues, calls, sinks, history>>

(* logging_runtime::init: the levels *)
InitLevel ==
  /\ BootAt("natives", "init")
  /\ level' \in Levels /\ consoleLevel' = level'
  /\ UNCHANGED <<noisy, mode, ready, configured, console, queues, calls, sinks, history>>

SetReady ==
  /\ BootAt("init", "drain")
  /\ ready' = TRUE
  /\ UNCHANGED <<noisy, mode, level, consoleLevel, configured, console, queues, calls,
                 sinks, history>>

(* flush_early_events *)
DrainEarly ==
  /\ BootAt("drain", "write_early")
  /\ batch' = IF WritesAllowed THEN early ELSE <<>>
  /\ early' = <<>>
  /\ overtaken' = overtaken \cup OnWay({"push"})
  /\ UNCHANGED <<flags, backlog, pending, markers, flushing, calls, sinks, dropped,
                 preloadAt>>

WriteEarly ==
  /\ stage = "write_early" /\ batch # <<>>
  /\ filed' = [filed EXCEPT ![Head(batch)] = @ + 1]
  /\ batch' = Tail(batch)
  /\ UNCHANGED <<stage, flags, early, backlog, pending, markers, flushing, calls,
                 screen, history>>

SetConfigured ==
  /\ batch = <<>> /\ BootAt("write_early", "markers")
  /\ configured' = TRUE
  /\ UNCHANGED <<noisy, mode, level, consoleLevel, ready, console, queues, calls, sinks,
                 history>>

TakeMarkers ==
  /\ BootAt("markers", "write_markers")
  /\ batch' = IF level = Debug THEN markers ELSE <<>>
  /\ markers' = <<>>
  /\ overtaken' = overtaken \cup OnWay({"marker_push"})
  /\ UNCHANGED <<flags, early, backlog, pending, flushing, calls, sinks, dropped,
                 preloadAt>>

WriteMarker ==
  /\ stage = "write_markers" /\ batch # <<>>
  /\ WriteMarkerOut(Head(batch)) /\ batch' = Tail(batch)
  /\ UNCHANGED <<stage, flags, early, backlog, pending, markers, flushing, calls,
                 history>>

(* init_console on this thread (late attach), or the post-OEP thread *)
BringUpConsole ==
  /\ batch = <<>> /\ BootAt("write_markers", "publish")
  /\ IF mode = "early" THEN UNCHANGED mode ELSE mode' \in Modes \ {"early"}
  /\ pc' = [pc EXCEPT !["boot"] = IF mode' = "late" THEN "activate" ELSE @,
                      !["io"] = IF mode' = "postoep" THEN "activate" ELSE @]
  /\ UNCHANGED <<noisy, level, consoleLevel, ready, configured, console, queues, msg,
                 emits, stamp, sinks, history>>

(* The post-OEP thread gives up when the OEP is not released in time. *)
IoSkipped ==
  /\ Goto("io", "activate", "idle")
  /\ UNCHANGED <<stage, flags, queues, stamp, sinks, history>>

Boot ==
  \/ EnterPreload \/ PublishPending \/ ReplayRecord \/ ReplayEnds
  \/ InitLevel \/ SetReady \/ DrainEarly \/ WriteEarly \/ SetConfigured
  \/ TakeMarkers \/ WriteMarker \/ BringUpConsole

Start(p) ==
  \E m \in Msgs :
    LogMessage(p, m) \/ BridgeMessage(p, m) \/ Marker(p, m) \/ Emergency(p, m)

Step(p) ==
  \/ Push(p) \/ QueuePending(p) \/ MarkerPush(p) \/ MarkerWrite(p)
  \/ Mirror(p) \/ Write(p) \/ Queue(p) \/ Emit(p) \/ Save(p)
  \/ Activate(p) \/ DrainBacklog(p) \/ FlushRecord(p) \/ FlushEnds(p)

Settled == stage = "done" /\ \A p \in Procs : pc[p] = "idle"

(* Everything is up and every message has been logged. *)
Done == Settled /\ Logged = Msgs /\ UNCHANGED vars

Next == \/ Boot \/ IoSkipped \/ Done
        \/ \E p \in Procs : Start(p) \/ Step(p)

Spec == Init /\ [][Next]_vars

-----------------------------------------------------------------------------
(* No duplicate output (docs/releases/0.2.78.md:11): whatever queues a      *)
(* message went through, it is in the files at most once and on the console *)
(* at most once.                                                            *)
FiledOnce == \A m \in Msgs : filed[m] <= 1
WrittenOnce ==
  /\ FiledOnce
  /\ \A i, j \in 1 .. Len(screen) : screen[i] = screen[j] => i = j

(* Once everything is up, a message the configuration asks for is missing   *)
(* from the files only if a full queue gave it up, or if its thread stood   *)
(* between the test of a flag and the queue as the queue was taken.         *)
FilesMissOnlyOvertaken ==
  Settled => \A m \in Logged : Wanted(m) /\ filed[m] = 0
                               => m \in dropped \cup overtaken

(* The same of the console's backlog: nothing is left in it but what was    *)
(* overtaken by the flush.                                                  *)
BacklogHoldsOnlyOvertaken ==
  Settled /\ console => Elements(backlog) \subseteq overtaken

(* The bridge's early records are on the console before any output of       *)
(* native DLLs (preloader_proxy.rs:70-71).                                  *)
BridgeBeforeNatives ==
  \A i, j \in 1 .. Len(screen) :
    mode = "early" /\ i < j /\ screen[j] \in Bridges /\ stamp[screen[j]] <= preloadAt
    => stamp[screen[i]] <= preloadAt

(* Of what is logged at any moment of the start, in the files and on the    *)
(* console, nothing is missing but what a full queue gave up or what was    *)
(* overtaken; of emergencies nothing at all is missing from the files.      *)
MissingOnlyOvertaken ==
  /\ FilesMissOnlyOvertaken /\ BacklogHoldsOnlyOvertaken
  /\ \A m \in Logged \cap Emergencies :
       WritesAllowed /\ (\A p \in Procs : msg[p] # m) => filed[m] = 1
=============================================================================
