---------------------------- MODULE BootGate ----------------------------
(***************************************************************************)
(* How BLoader gets in before the game: src/core/pre_main_gate.rs, the     *)
(* bootstrap of src/lib.rs and the readiness waits of                      *)
(* src/core/runtime_ready.rs.                                              *)
(*                                                                         *)
(* In a static launch DllMain writes an INT3 over the first byte of the    *)
(* executable's entry point (OEP).  The startup thread traps there, the    *)
(* vectored handler puts the byte back and diverts it to                   *)
(* pre_main_dispatch, which runs the whole bootstrap and only then resumes *)
(* the entry point.  In a dynamic launch the game is already running and a *)
(* worker thread runs the bootstrap.  The bootstrap starts two more        *)
(* threads, for the runtime I/O and for the hot mods, which wait for the   *)
(* release of the OEP, for the game's window and for delays.               *)
(*                                                                         *)
(* Time is counted in ticks, each counter up to the largest value anything *)
(* compares it with: that keeps the model finite without a horizon.        *)
(***************************************************************************)
EXTENDS Naturals, FiniteSets

CONSTANTS
    Windows,      \* the windows the game may show
    NoWindow,     \* no window qualifies
    Unset,        \* OEP_RELEASED_AT before it is set
    HotMods,      \* the hot-native and hot-inject packages found
    Level,        \* their readiness level: 1 process, 2 window, 3 stable window
    Delay,        \* their inject_delay_ms, in ticks
    IoTimeout,    \* how long the runtime I/O waits for the OEP (10 s)
    IoDelay,      \* POST_OEP_RUNTIME_IO_DELAY_MS
    HotTimeout,   \* HOT_INJECT_WAIT_TIMEOUT (180 s)
    StableFor,    \* STABLE_WINDOW_DURATION
    MayFlicker    \* can the window change twice between two polls?

ASSUME BootGateAssumption ==
    /\ NoWindow \notin Windows
    /\ Unset \notin Nat
    /\ Level \in [HotMods -> 1..3]
    /\ Delay \in [HotMods -> Nat]
    /\ {IoTimeout, IoDelay, HotTimeout, StableFor} \subseteq Nat

VARIABLES
    launch,    \* how this process was started and built
    opcode,    \* the byte at the OEP: the original one or INT3
    gate,      \* the flags of pre_main_gate.rs that are set
    host,      \* where the startup thread is
    late,      \* where the late-attach worker is
    boot,      \* the next step of run_bootstrap_sequence
    released,  \* OEP_RELEASED
    since,     \* ticks since OEP_RELEASED_AT, or Unset
    io,        \* the runtime I/O thread
    captured,  \* the process's stdout and stderr are BLoader's
    hot,       \* the hot mod thread
    injected,  \* the hot mods loaded, each with what its wait returned
    window     \* what find_game_window returns, and the ticks since it changed

gateVars == <<opcode, gate>>
waitVars == <<io, hot, injected>>
vars == <<launch, opcode, gate, host, late, boot, released, since,
          io, captured, hot, injected, window>>

Flags == {"veh", "armed", "hit", "restored", "started", "saved", "completed"}

Static == launch.attach = "static"

\* The readiness levels, in the order of ReadyLevel.
Process == 1
Window == 2
StableWindow == 3

\* A counter stops at the largest value it is compared with.
Cap(S) == CHOOSE n \in S \cup {0} : \A k \in S : k <= n
SinceCap == Cap({IoDelay} \cup {Delay[m] : m \in HotMods})
Later(n, cap) == IF n < cap THEN n + 1 ELSE n

Init ==
    /\ launch \in [attach : {"static", "dynamic"}, unwinds : BOOLEAN]
    /\ opcode = "original"
    /\ gate = {}
    /\ host = "attach"
    /\ late = "none"
    /\ boot = "idle"
    /\ released = FALSE
    /\ since = Unset
    /\ io = [at |-> "none", waited |-> 0]
    /\ captured = FALSE
    /\ hot = [at |-> "none", left |-> HotMods, waited |-> 0, seen |-> NoWindow,
              seenFor |-> 0, ready |-> FALSE]
    /\ injected = {}
    /\ window = [shown |-> NoWindow, steady |-> 0]

-----------------------------------------------------------------------------
(* DllMain and the gate.                                                   *)

\* A static launch, up to and including AddVectoredExceptionHandler: no main
\* module, an odd executable, a foreign INT3, no context buffer or no handler
\* refuse the process, for DllMain returns 0.
InstallHandler ==
    /\ host = "attach"
    /\ Static
    /\ \/ gate' = {"veh"} /\ host' = "patch"
       \/ UNCHANGED gate /\ host' = "gone"
    /\ UNCHANGED <<launch, opcode, late, boot, released, since, captured,
                   waitVars, window>>

\* write_code_byte(entry_point, 0xCC).  When it fails, before the byte is
\* written or when the protection cannot be put back after it, the handler is
\* removed and DllMain refuses the process.
PatchEntryPoint ==
    /\ host = "patch"
    /\ \/ /\ opcode' = "int3"
          /\ gate' = gate \cup {"armed"}
          /\ host' = "oep"
       \/ /\ opcode' \in {"original", "int3"}
          /\ gate' = gate \ {"veh"}
          /\ host' = "gone"
    /\ UNCHANGED <<launch, late, boot, released, since, captured, waitVars,
                   window>>

\* A dynamic launch: the game is already running, and DllMain starts the
\* late-attach worker, or cannot.
LateAttach ==
    /\ host = "attach"
    /\ ~Static
    /\ host' = "main"
    /\ late' \in {"mark", "ended"}
    /\ UNCHANGED <<launch, gateVars, boot, released, since, captured, waitVars,
                   window>>

\* The startup thread executes the byte at the OEP.  Without an armed handler
\* nobody takes the breakpoint and the process dies of it.
ReachEntryPoint ==
    /\ host = "oep"
    /\ host' = CASE opcode = "original" -> "main"
                [] opcode = "int3" /\ {"veh", "armed"} \subseteq gate -> "trap"
                [] OTHER -> "crashed"
    /\ UNCHANGED <<launch, gateVars, late, boot, released, since, captured,
                   waitVars, window>>

(* Mutant: the handler does not put the original byte back. *)
HandleTrapUnrestored ==
    /\ host = "trap"
    /\ gate' = (gate \cup {"hit", "started", "saved"}) \ {"armed"}
    /\ host' = "dispatch"
    /\ UNCHANGED <<launch, opcode, late, boot, released, since, captured,
                   waitVars, window>>

(* Mutant: the handler resumes at the breakpoint, with the INT3 in place. *)
HandleTrapAgain ==
    /\ host = "trap"
    /\ gate' = gate \cup {"hit"}
    /\ host' = "oep"
    /\ UNCHANGED <<launch, opcode, late, boot, released, since, captured,
                   waitVars, window>>

\* pre_main_vectored_handler: the byte is restored, the context saved and the
\* thread diverted, or the process is terminated.
HandleTrap ==
    /\ host = "trap"
    /\ \/ /\ "started" \notin gate
          /\ opcode' = "original"
          /\ gate' = (gate \cup {"hit", "restored", "started", "saved"})
                         \ {"armed"}
          /\ host' = "dispatch"
       \/ /\ opcode' \in {"original", "int3"}
          /\ gate' \in {gate \cup {"hit", "restored"},
                        gate \cup {"hit", "restored", "started"}}
          /\ host' = "gone"
    /\ UNCHANGED <<launch, late, boot, released, since, captured, waitVars,
                   window>>

\* pre_main_dispatch up to the bootstrap.
Dispatch ==
    /\ host = "dispatch"
    /\ IF {"hit", "saved"} \subseteq gate
       THEN /\ gate' = gate \ {"veh"}
            /\ host' = "boot"
            /\ boot' = "xuser"
       ELSE /\ host' = "gone"
            /\ UNCHANGED <<gate, boot>>
    /\ UNCHANGED <<launch, opcode, late, released, since, captured, waitVars,
                   window>>

-----------------------------------------------------------------------------
(* run_bootstrap_sequence, on the startup thread or on the worker.         *)

Alive == host \notin {"gone", "crashed"}

BootRuns == host = "boot" \/ (late = "boot" /\ Alive)

BootStep(from, to) == BootRuns /\ boot = from /\ boot' = to

\* initialize_before_mods up to the launcher's pipe: there is none, and the
\* game's own sign-in stays, or its header and its payload are to be read.
InitializeXUser ==
    /\ BootStep("xuser", "premain") \/ BootStep("xuser", "pipe")
    /\ UNCHANGED <<launch, gateVars, host, late, released, since, captured,
                   waitVars, window>>

\* read_exact returns: the launcher has written all there is to read, or has
\* closed the pipe.  The read has no timeout.  The XUser hooks are installed
\* or left out.
LauncherAnswers ==
    /\ BootStep("pipe", "premain")
    /\ UNCHANGED <<launch, gateVars, host, late, released, since, captured,
                   waitVars, window>>

\* The PreLoader or the native preloads.
PreparePremain ==
    /\ BootStep("premain", "runtimeIo")
    /\ UNCHANGED <<launch, gateVars, host, late, released, since, captured,
                   waitVars, window>>

\* Configuration and logging come up, then the runtime I/O: on a thread of
\* its own that waits for the OEP and cannot always be started, or at once
\* when the game already runs.
SetUpRuntimeIo ==
    /\ BootStep("runtimeIo", "mods")
    /\ IF Static
       THEN /\ io' \in {io, [io EXCEPT !.at = "oep"]}
            /\ UNCHANGED captured
       ELSE /\ captured' = TRUE
            /\ UNCHANGED io
    /\ UNCHANGED <<launch, gateVars, host, late, released, since, hot, injected,
                   window>>

\* load_mods: the preload pass and the BL mods, then spawn_hot_mod_loader.
\* disable_mod_loading, a directory without mods and a thread that cannot be
\* started leave the hot mods out.
LoadMods ==
    /\ BootStep("mods", "complete")
    /\ hot' \in {hot, [hot EXCEPT !.at = "next"]}
    /\ UNCHANGED <<launch, gateVars, host, late, released, since, captured, io,
                   injected, window>>

\* dispatch_bootstrap_complete, and the end of the sequence: the startup
\* thread goes on to release the OEP, the worker ends.
CompleteBootstrap ==
    /\ BootStep("complete", "done")
    /\ IF host = "boot"
       THEN host' = "mark" /\ gate' = gate \cup {"completed"} /\ UNCHANGED late
       ELSE late' = "ended" /\ UNCHANGED <<host, gate>>
    /\ UNCHANGED <<launch, opcode, released, since, captured, waitVars, window>>

PanicTo(startup, worker) ==
    /\ BootRuns
    /\ boot \notin {"idle", "pipe", "done", "panicked"}
    /\ boot' = "panicked"
    /\ host' = startup
    /\ late' = worker
    /\ UNCHANGED <<launch, gateVars, released, since, captured, waitVars,
                   window>>

WorkerPanics == IF host = "boot" THEN late ELSE "ended"

(* Mutant: pre_main_dispatch goes on whatever the bootstrap returned. *)
PanicIgnored == PanicTo(IF host = "boot" THEN "mark" ELSE host, WorkerPanics)

\* A panic.  Where it unwinds, catch_unwind turns it into a failed bootstrap:
\* pre_main_dispatch terminates the process and the worker just ends.  The
\* release profile aborts instead.  initialize_before_mods is not under
\* catch_unwind: in a static launch its panic reaches an extern "system"
\* function and aborts too.
Panic ==
    PanicTo(IF host = "boot" \/ ~launch.unwinds THEN "gone" ELSE host,
            WorkerPanics)

-----------------------------------------------------------------------------
(* mark_oep_released and the resumption of the game.                       *)

\* OEP_RELEASED.swap(true).
Release ==
    /\ \/ host = "mark" /\ host' = "stamp" /\ UNCHANGED late
       \/ late = "mark" /\ late' = "stamp" /\ UNCHANGED host
    /\ released' = TRUE
    /\ UNCHANGED <<launch, gateVars, boot, since, captured, waitVars, window>>

\* OEP_RELEASED_AT.set(now), in a later statement.
StampRelease ==
    /\ \/ host = "stamp" /\ host' = "resume" /\ UNCHANGED <<late, boot>>
       \/ late = "stamp" /\ late' = "boot" /\ boot' = "xuser" /\ UNCHANGED host
    /\ since' = 0
    /\ UNCHANGED <<launch, gateVars, released, captured, waitVars, window>>

\* RtlRestoreContext at the OEP; without a saved context, or when it returns,
\* the process is terminated.
ResumeEntryPoint ==
    /\ host = "resume"
    /\ host' \in {"oep", "gone"}
    /\ UNCHANGED <<launch, gateVars, late, boot, released, since, captured,
                   waitVars, window>>

-----------------------------------------------------------------------------
(* The runtime I/O thread of schedule_post_oep_runtime_io.                 *)

\* wait_for(Process): the flag is read, then the time is looked at.
IoReadReleased ==
    /\ Alive
    /\ io.at = "oep"
    /\ io' = [io EXCEPT !.at = IF released THEN "delay" ELSE "elapsed"]
    /\ UNCHANGED <<launch, gateVars, host, late, boot, released, since, captured,
                   hot, injected, window>>

IoCheckTimeout ==
    /\ Alive
    /\ io.at = "elapsed"
    /\ io' = [io EXCEPT !.at = IF io.waited >= IoTimeout THEN "skipped"
                               ELSE "oep"]
    /\ UNCHANGED <<launch, gateVars, host, late, boot, released, since, captured,
                   hot, injected, window>>

\* wait_until_oep_delay returns at once when there is no release time.
DelayOver(ticks) == since # Unset => since >= ticks

\* The delay, then install_process_capture.
IoCapture ==
    /\ Alive
    /\ io.at = "delay"
    /\ DelayOver(IoDelay)
    /\ io' = [io EXCEPT !.at = "done"]
    /\ captured' = TRUE
    /\ UNCHANGED <<launch, gateVars, host, late, boot, released, since, hot,
                   injected, window>>

-----------------------------------------------------------------------------
(* The hot mod thread of spawn_hot_mod_loader.                             *)

Before(m, n) ==
    Delay[m] < Delay[n] \/ (Delay[m] = Delay[n] /\ Level[m] < Level[n])

\* The mod the thread is at, in the order of the delay and then of the level.
Current(m) == m \in hot.left /\ \A n \in hot.left : ~Before(n, m)

HotUnchanged ==
    UNCHANGED <<launch, gateVars, host, late, boot, released, since, io, captured,
                window>>

HotNext ==
    /\ Alive
    /\ hot.at = "next"
    /\ hot' = [hot EXCEPT !.at = IF hot.left = {} THEN "ended" ELSE "oep",
                          !.waited = 0, !.seen = NoWindow, !.seenFor = 0,
                          !.ready = FALSE]
    /\ HotUnchanged /\ UNCHANGED injected

HotReadReleased ==
    /\ Alive
    /\ hot.at = "oep"
    /\ hot' = [hot EXCEPT !.at = IF released THEN "level" ELSE "elapsed"]
    /\ HotUnchanged /\ UNCHANGED injected

HotCheckTimeout ==
    /\ Alive
    /\ hot.at = "elapsed"
    /\ hot' = [hot EXCEPT !.at = IF hot.waited >= HotTimeout THEN "delay"
                                 ELSE "oep"]
    /\ HotUnchanged /\ UNCHANGED injected

SeenStable ==
    /\ window.shown # NoWindow
    /\ hot.seen = window.shown
    /\ hot.seenFor >= StableFor

Poll(m, stable, expired, seenFor) ==
    LET reached == \/ Level[m] = Process
                   \/ Level[m] = Window /\ window.shown # NoWindow
                   \/ stable
    IN  /\ Alive
        /\ hot.at = "level"
        /\ Current(m)
        /\ hot' = [hot EXCEPT !.at = IF reached \/ expired THEN "delay" ELSE @,
                              !.ready = reached,
                              !.seen = window.shown,
                              !.seenFor = seenFor]
        /\ HotUnchanged /\ UNCHANGED injected

(* Mutant: wait_for forgets its timeout once the OEP is released. *)
HotPollForever(m) ==
    Poll(m, SeenStable, FALSE, IF hot.seen = window.shown THEN hot.seenFor ELSE 0)

\* One turn of wait_for's loop after the release: the window is looked at,
\* then the time.
HotPoll(m) ==
    Poll(m, SeenStable, hot.waited >= HotTimeout,
         IF hot.seen = window.shown THEN hot.seenFor ELSE 0)

\* The delay, then the LoadLibrary of the mod, whatever the wait returned.
HotInject(m) ==
    /\ Alive
    /\ hot.at = "delay"
    /\ Current(m)
    /\ DelayOver(Delay[m])
    /\ injected' = injected \cup {[mod |-> m, ready |-> hot.ready]}
    /\ hot' = [hot EXCEPT !.at = "next", !.left = @ \ {m}]
    /\ HotUnchanged

-----------------------------------------------------------------------------
(* Time and the game.                                                      *)

Tick ==
    /\ Alive
    /\ since' = IF since = Unset THEN Unset ELSE Later(since, SinceCap)
    /\ io' = IF io.at \in {"oep", "elapsed"}
             THEN [io EXCEPT !.waited = Later(@, IoTimeout)] ELSE io
    /\ hot' = IF hot.at \in {"oep", "elapsed", "level"}
              THEN [hot EXCEPT !.waited = Later(@, HotTimeout),
                     !.seenFor = IF hot.seen = NoWindow THEN 0
                                 ELSE Later(@, StableFor)]
              ELSE hot
    /\ window' = [window EXCEPT !.steady = Later(@, StableFor)]
    /\ <<since, io, hot, window>>' # <<since, io, hot, window>>
    /\ UNCHANGED <<launch, gateVars, host, late, boot, released, captured,
                   injected>>

ShowWindow(shown) ==
    /\ host = "main"
    /\ MayFlicker \/ hot.at # "level" \/ hot.seen = window.shown
    /\ \E w \in shown \ {window.shown} : window' = [shown |-> w, steady |-> 0]
    /\ UNCHANGED <<launch, gateVars, host, late, boot, released, since, captured,
                   waitVars>>

\* The game opens, replaces or hides its window.  Unless it may flicker, the
\* hot mod thread has seen the present one.
GameWindow == ShowWindow(Windows \cup {NoWindow})

\* A process that ended stays so, and a running game need not do anything.
Rest ==
    /\ host \in {"gone", "crashed", "main"}
    /\ UNCHANGED vars

HostStep ==
    \/ InstallHandler \/ PatchEntryPoint \/ LateAttach \/ ReachEntryPoint
    \/ HandleTrap \/ Dispatch \/ ResumeEntryPoint
BootCode ==
    \/ InitializeXUser \/ PreparePremain \/ SetUpRuntimeIo \/ LoadMods
    \/ CompleteBootstrap
BootSequence == BootCode \/ LauncherAnswers
ReleaseStep == Release \/ StampRelease
IoStep == IoReadReleased \/ IoCheckTimeout \/ IoCapture
HotStep ==
    \/ HotNext \/ HotReadReleased \/ HotCheckTimeout
    \/ \E m \in HotMods : HotPoll(m) \/ HotInject(m)

Next ==
    \/ HostStep \/ BootSequence \/ Panic \/ ReleaseStep \/ IoStep \/ HotStep
    \/ Tick \/ GameWindow \/ Rest

Spec == Init /\ [][Next]_vars

\* Every thread keeps running and time passes; the modules the bootstrap loads
\* return.  Nothing makes the launcher answer, nor the game show a window.
FairSpec ==
    /\ Spec
    /\ WF_vars(HostStep) /\ WF_vars(BootCode) /\ WF_vars(ReleaseStep)
    /\ WF_vars(IoStep) /\ WF_vars(HotStep) /\ WF_vars(Tick)

-----------------------------------------------------------------------------
(* Properties.                                                             *)

GateTypeOK ==
    /\ launch \in [attach : {"static", "dynamic"}, unwinds : BOOLEAN]
    /\ opcode \in {"original", "int3"}
    /\ gate \in SUBSET Flags
    /\ host \in {"attach", "patch", "oep", "trap", "dispatch", "boot", "mark",
                 "stamp", "resume", "main", "gone", "crashed"}
    /\ late \in {"none", "mark", "stamp", "boot", "ended"}
    /\ boot \in {"idle", "xuser", "pipe", "premain", "runtimeIo", "mods", "complete",
                 "done", "panicked"}
    /\ released \in BOOLEAN
    /\ since \in Nat \cup {Unset}

IoTypeOK ==
    /\ io \in [at : {"none", "oep", "elapsed", "delay", "done", "skipped"},
               waited : 0..IoTimeout]
    /\ captured \in BOOLEAN

HotTypeOK ==
    /\ hot \in [at : {"none", "next", "oep", "elapsed", "level", "delay",
                      "ended"},
                left : SUBSET HotMods, waited : 0..HotTimeout,
                seen : Windows \cup {NoWindow}, seenFor : 0..StableFor,
                ready : BOOLEAN]
    /\ injected \in SUBSET [mod : HotMods, ready : BOOLEAN]

WindowTypeOK ==
    window \in [shown : Windows \cup {NoWindow}, steady : 0..StableFor]

TypeOK == GateTypeOK /\ IoTypeOK /\ HotTypeOK /\ WindowTypeOK

\* In a static launch not one instruction of the game runs before the whole
\* bootstrap has succeeded, and when it does nothing of the gate is left: the
\* byte is restored, the handler removed, the release announced (the reason
\* for the gate, docs/releases/0.2.16.md and 0.2.17.md).
MainOnlyWhenReady ==
    Static /\ host = "main" =>
        /\ boot = "done" /\ "completed" \in gate /\ released
        /\ opcode = "original" /\ gate \cap {"veh", "armed"} = {}

\* The INT3 is never left where a live process could run into it unhandled,
\* whichever step of arming or disarming the gate fails.
NoStrayTrap ==
    /\ host # "crashed"
    /\ Alive /\ opcode = "int3" => {"veh", "armed"} \subseteq gate

\* In a static launch the loader's threads leave the process alone until the
\* bootstrap completed and the OEP was released: its stdout and stderr are not
\* rebound (docs/releases/0.2.22.md), and no hot mod is injected but one whose
\* wait timed out.
WorkersWaitForRelease ==
    Static /\ (captured \/ \E i \in injected : i.ready) =>
        "completed" \in gate /\ released

\* A wait for a stable window succeeds only when the window the game shows has
\* been there for the whole stable period, however often it was replaced or
\* hidden before.
StableMeansSteady ==
    [][\A m \in HotMods :
         (hot.at = "level" /\ Current(m) /\ Level[m] = StableWindow /\ hot'.ready)
             => window.steady >= StableFor]_vars

\* The startup thread gets to the game or ends the process, unless the
\* launcher keeps the pipe open and does not answer: nothing else in the gate
\* or the bootstrap holds the game up for ever (ipc.rs, read_exact).
GameOrExit == <>(host \in {"main", "gone"}) \/ <>[](boot = "pipe")

\* Every hot mod is injected in the end and the runtime I/O thread finishes,
\* even when the game never shows a window.
WorkersFinish ==
    /\ (hot.at = "next") ~> (hot.at = "ended" \/ ~Alive)
    /\ (io.at = "oep") ~> (io.at \in {"done", "skipped"} \/ ~Alive)

\* What the marker of schedule_post_oep_runtime_io and docs/releases/0.2.22.md
\* say: in a static launch the standard handles are rebound no earlier than
\* IoDelay after the release of the OEP.  Release and StampRelease are two
\* steps, and a thread that sees the first without the second does not wait.
CaptureDelayed ==
    [][Static /\ captured' /\ ~captured => since # Unset /\ since >= IoDelay]_vars
=============================================================================
