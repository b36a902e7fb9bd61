-------------------------- MODULE CrashReports --------------------------
(***************************************************************************)
(* Crash reports and mod diagnostics: src/runtime/foundation/              *)
(* crash_report.rs and mod_diagnostics.rs, with the calls that             *)
(* src/core/loader.rs, src/bl/loader.rs and src/bl/host.rs make to them.   *)
(*                                                                         *)
(* Threads load mods and call them back inside scopes; an exception or a   *)
(* failure of the C runtime may strike any of them.  BLoader's vectored    *)
(* handler (VEH) sees an exception first, before anyone knows whether it   *)
(* will be handled; its top-level filter (SEH) sees it last, and then the  *)
(* process dies.  Both write a report, under a guard that admits one       *)
(* thread; the filter recognises by its signature (thread, code, address)  *)
(* what the VEH has already reported.  The signature does not tell one     *)
(* exception from a later one of the same thread at the same place, so the *)
(* model numbers what strikes, and the properties ask for the number.      *)
(***************************************************************************)
EXTENDS Naturals

CONSTANTS
    Threads,      \* the loader's threads and the game's
    Mods,         \* the mods of the inventory
    None,         \* no mod, no trouble, no report, no signature
    Writable,     \* the values writes_allowed() may have in this process
    Unwinds,      \* is BLoader built with unwinding panics?
    MaxTroubles   \* bound: how many exceptions and failures strike

ASSUME CrashReportsAssumption ==
    /\ None \notin Mods
    /\ Writable \subseteq BOOLEAN /\ Writable # {}
    /\ Unwinds \in BOOLEAN
    /\ MaxTroubles \in Nat

VARIABLES
    writes,       \* file_io_policy::writes_allowed()
    scopes,       \* ACTIVE_SCOPES; no thread enters a second one
    modState,     \* MODS: the state of each identity
    filter,       \* whose filter SetUnhandledExceptionFilter set last
    pc,           \* where each thread is
    job,          \* what it does with which mod
    trouble,      \* what struck it
    phase,        \* which handler captures it
    blame,        \* the attribution of the capture in progress
    capturing,    \* CAPTURE_IN_PROGRESS
    lastSig,      \* LAST_EXCEPTION_SIGNATURE
    lastReport,   \* LAST_REPORT
    reports,      \* the reports written
    refused,      \* history: the reports no file could be opened for
    dialogShown,  \* CRASH_DIALOG_SHOWN
    dialog,       \* what the dialog said
    death,        \* how the process ended, or None
    reported,     \* history: the handlers that captured a thread's exception
    overtaken,    \* history: another exception was remembered since
    panicked,     \* history: the mods whose callback panicked
    troubles      \* how many exceptions and failures have struck

modVars == <<scopes, modState, filter>>
captureVars == <<capturing, lastSig, lastReport, reports, refused, dialogShown,
                 dialog>>
histVars == <<reported, overtaken, panicked, troubles>>
vars == <<writes, modVars, pc, job, trouble, phase, blame, captureVars, death,
          histVars>>

ModStates == {"unknown", "discovered", "loading", "loaded", "failed",
              "crashed"}
JobKinds == {"none", "load", "entry", "callback"}
NoJob == [kind |-> "none", mod |-> None]

\* An exception's address is in a mod's DLL, in BLoader or a DLL of the mods
\* directory no one registered, or elsewhere in the game.
Places == Mods \cup {"unregistered", "game"}

\* A fault is an exception with one of the codes the VEH takes for fatal; the
\* others are "other".  The rest reach capture_manual_failure.
Exceptions == {"fault", "other"}
Failures == {"panic", "callback-panic", "invalid-parameter", "purecall"}

CaptureSteps == {"filter", "attribute", "write", "remember", "mark", "dialog",
                 "duplicate", "shown", "leave"}
Steps == {"idle", "found", "enter", "inside", "left", "rearmed", "panicked",
          "search", "guard", "dead"} \cup CaptureSteps

\* crash_signature, as injective as a 64-bit hash is taken to be.
Signature(t) == <<t, trouble[t].kind, trouble[t].at>>

Init ==
    /\ writes \in Writable
    /\ scopes = {}
    /\ modState = [m \in Mods |-> "unknown"]
    /\ filter = "ours"
    /\ pc = [t \in Threads |-> "idle"]
    /\ job = [t \in Threads |-> NoJob]
    /\ trouble = [t \in Threads |-> None]
    /\ phase = [t \in Threads |-> "none"]
    /\ blame = [t \in Threads |-> None]
    /\ capturing = FALSE
    /\ lastSig = None
    /\ lastReport = None
    /\ reports = {}
    /\ refused = {}
    /\ dialogShown = FALSE
    /\ dialog = None
    /\ death = None
    /\ reported = [t \in Threads |-> {}]
    /\ overtaken = [t \in Threads |-> FALSE]
    /\ panicked = {}
    /\ troubles = 0

Goto(t, p) == pc' = [pc EXCEPT ![t] = p]
Step(t, from, to) == pc[t] = from /\ Goto(t, to)

-----------------------------------------------------------------------------
(* Loading a mod and calling it back.                                      *)

\* register_discovered; a mod that failed may be tried again, by one thread.
Discover(t, m) ==
    /\ Step(t, "idle", "found")
    /\ modState[m] \in {"unknown", "failed"}
    /\ \A u \in Threads : job[u].mod # m
    /\ modState' = [modState EXCEPT ![m] = IF @ = "unknown" THEN "discovered"
                                                            ELSE @]
    /\ job' = [job EXCEPT ![t] = [kind |-> "load", mod |-> m]]
    /\ UNCHANGED <<writes, scopes, filter, trouble, phase, blame, captureVars,
                   death, histVars>>

MarkLoading(t) ==
    /\ Step(t, "found", "enter")
    /\ modState' = [modState EXCEPT ![job[t].mod] = "loading"]
    /\ UNCHANGED <<writes, scopes, filter, job, trouble, phase, blame,
                   captureVars, death, histVars>>

\* run_mod_callback_safely: the host calls a handler of a mod find_by_name
\* knows.
BeginCallback(t, m) ==
    /\ Step(t, "idle", "enter")
    /\ modState[m] \in {"loaded", "crashed"}
    /\ job' = [job EXCEPT ![t] = [kind |-> "callback", mod |-> m]]
    /\ UNCHANGED <<writes, modVars, trouble, phase, blame, captureVars, death,
                   histVars>>

\* enter_scope; then the mod's own code runs.
EnterScope(t) ==
    /\ Step(t, "enter", "inside")
    /\ scopes' = scopes \cup {[mod |-> job[t].mod, thread |-> t]}
    /\ UNCHANGED <<writes, modState, filter, job, trouble, phase, blame,
                   captureVars, death, histVars>>

\* The mod's code sets a filter of its own.
ReplaceFilter(t) ==
    /\ pc[t] = "inside"
    /\ filter' = "foreign"
    /\ UNCHANGED <<writes, scopes, modState, pc, job, trouble, phase, blame,
                   captureVars, death, histVars>>

\* ModScopeGuard::drop removes the scope this thread entered.  After
\* bl_mod_main_v1 and on_load nothing rearms the filter.
LeaveScope(t) ==
    /\ Step(t, "inside", IF job[t].kind = "entry" THEN "rearmed" ELSE "left")
    /\ scopes' = {s \in scopes : s.thread # t}
    /\ UNCHANGED <<writes, modState, filter, job, trouble, phase, blame,
                   captureVars, death, histVars>>

\* rearm_unhandled_filter, after LoadLibrary and after a callback.
Rearm(t) ==
    /\ pc[t] = "left"
    /\ filter' = "ours"
    /\ \/ job[t].kind = "load" /\ Goto(t, "rearmed") /\ UNCHANGED job
       \/ job[t].kind = "callback" /\ trouble[t] # None /\ Goto(t, "panicked")
            /\ UNCHANGED job
       \/ job[t].kind = "callback" /\ trouble[t] = None /\ Goto(t, "idle")
            /\ job' = [job EXCEPT ![t] = NoJob]
    /\ UNCHANGED <<writes, scopes, modState, trouble, phase, blame,
                   captureVars, death, histVars>>

\* load_bl_mod goes on to bl_mod_main_v1 and to on_load.
CallEntry(t) ==
    /\ Step(t, "rearmed", "enter")
    /\ job' = [job EXCEPT ![t] = [kind |-> "entry", mod |-> @.mod]]
    /\ UNCHANGED <<writes, modVars, trouble, phase, blame, captureVars, death,
                   histVars>>

\* mark_loaded or mark_failed.
MarkOutcome(t) ==
    /\ Step(t, "rearmed", "idle")
    /\ \E outcome \in {"loaded", "failed"} :
         modState' = [modState EXCEPT ![job[t].mod] = outcome]
    /\ job' = [job EXCEPT ![t] = NoJob]
    /\ UNCHANGED <<writes, scopes, filter, trouble, phase, blame, captureVars,
                   death, histVars>>

-----------------------------------------------------------------------------
(* What strikes a thread, in the mod's code or in the game's.              *)

Runs(t) == pc[t] \in {"idle", "inside"} /\ trouble[t] = None

Mapped(m) == modState[m] \notin {"unknown", "discovered"}

\* active_scope_for_thread: this thread's scope, else the only scope there is;
\* nothing when try_lock finds the lock taken.
ScopeFor(t, busy) ==
    LET own == {s \in scopes : s.thread = t}
    IN  IF busy THEN None
        ELSE IF own # {} THEN (CHOOSE s \in own : TRUE).mod
        ELSE IF \E s \in scopes : scopes = {s}
             THEN (CHOOSE s \in scopes : TRUE).mod
        ELSE None

\* identify_address: the registered mod the address belongs to.
OwnerOf(at, busy) == IF at \in Mods /\ ~busy THEN at ELSE None

Strike(t, kind, at) ==
    /\ Runs(t)
    /\ troubles < MaxTroubles
    /\ troubles' = troubles + 1
    /\ trouble' = [trouble EXCEPT ![t] =
                     [kind |-> kind, at |-> at, back |-> pc[t],
                      nr |-> troubles + 1]]

\* An exception: the VEH captures the fatal ones of a thread for which it
\* finds a scope, and those in the DLLs of BLoader and of mods.
RaiseException(t, kind, at) ==
    /\ Strike(t, kind, at)
    /\ at \in Mods => Mapped(at)
    /\ \E busy \in BOOLEAN :
         LET captured == /\ kind = "fault"
                         /\ at # "game" \/ ScopeFor(t, busy) # None
         IN  /\ Goto(t, IF captured THEN "guard" ELSE "search")
             /\ phase' = [phase EXCEPT ![t] = IF captured THEN "veh" ELSE "seh"]
    /\ reported' = [reported EXCEPT ![t] = {}]
    /\ overtaken' = [overtaken EXCEPT ![t] = FALSE]
    /\ UNCHANGED <<writes, modVars, job, blame, captureVars, death, panicked>>

\* A Rust panic in a callback (the hook of setup_panic_hook captures it), or
\* the C runtime's handlers.
FailRuntime(t, kind) ==
    /\ Strike(t, kind, "game")
    /\ kind = "panic" => pc[t] = "inside" /\ job[t].kind = "callback"
    /\ Goto(t, "guard")
    /\ phase' = [phase EXCEPT ![t] = "manual"]
    /\ UNCHANGED <<writes, modVars, job, blame, captureVars, death, reported,
                   overtaken, panicked>>

\* run_mod_callback_safely caught the panic: mark_crashed, then one more
\* report, without a dialog.
MarkPanicked(t) ==
    /\ Step(t, "panicked", "guard")
    /\ modState' = [modState EXCEPT ![job[t].mod] = "crashed"]
    /\ panicked' = panicked \cup {job[t].mod}
    /\ trouble' = [trouble EXCEPT ![t] =
                     [kind |-> "callback-panic", at |-> "game",
                      back |-> "idle", nr |-> @.nr]]
    /\ phase' = [phase EXCEPT ![t] = "manual"]
    /\ job' = [job EXCEPT ![t] = NoJob]
    /\ UNCHANGED <<writes, scopes, filter, blame, captureVars, death,
                   reported, overtaken, troubles>>

-----------------------------------------------------------------------------
(* A capture: capture_exception and capture_manual_failure.                *)

Dies(t, how) ==
    /\ death' = [sig |-> Signature(t), nr |-> trouble[t].nr, how |-> how]
    /\ Goto(t, "dead")
    /\ UNCHANGED <<trouble, phase>>

\* What follows the handler.  The VEH lets the search for a handler go on; the
\* filter ends the process, as abort does after a pure call and, without
\* unwinding, after a panic; a panic unwinds to run_mod_callback_safely.
Return(t, blocked) ==
    LET kind == trouble[t].kind
        fatal == kind = "purecall" \/ (kind = "panic" /\ ~Unwinds)
    IN  \/ /\ phase[t] = "veh"
           /\ Goto(t, "search")
           /\ phase' = [phase EXCEPT ![t] = "seh"]
           /\ UNCHANGED <<trouble, death>>
        \/ /\ phase[t] = "seh"
           /\ Dies(t, IF blocked THEN "blocked" ELSE "filter")
        \/ /\ phase[t] = "manual" /\ fatal
           /\ Dies(t, "abort")
        \/ /\ phase[t] = "manual" /\ ~fatal
           /\ Goto(t, trouble[t].back)
           /\ phase' = [phase EXCEPT ![t] = "none"]
           /\ trouble' = IF kind = "panic" THEN trouble
                         ELSE [trouble EXCEPT ![t] = None]
           /\ UNCHANGED death

\* CaptureGuard::enter.
TakeGuard(t) ==
    /\ ~capturing
    /\ Step(t, "guard", "filter")
    /\ capturing' = TRUE
    /\ UNCHANGED <<writes, modVars, job, trouble, phase, blame, lastSig,
                   lastReport, reports, refused, dialogShown, dialog, death,
                   histVars>>

GuardTaken(t) ==
    /\ pc[t] = "guard" /\ capturing
    /\ Return(t, TRUE)
    /\ UNCHANGED <<writes, modVars, job, blame, captureVars, histVars>>

(* Mutant: any signature passes for this exception's. *)
AnyDuplicate(t) == phase[t] = "seh" /\ lastSig # None
\* An exception of this signature was the last one remembered: the one at
\* hand, if the VEH captured it, but as well an earlier one of this thread
\* with the same code and address, which was handled then.
AlreadyReported(t) == phase[t] = "seh" /\ lastSig = Signature(t)

ShowsDialog(t) == phase[t] = "seh" \/
    (phase[t] = "manual" /\ trouble[t].kind # "callback-panic")

Report(t, m) == [sig |-> Signature(t), nr |-> trouble[t].nr,
                 phase |-> phase[t], blame |-> m]

\* What the captures reported, in a file or in vain.
Captures == reports \cup refused

\* legacy_uwp_no_write: a line in the log stands for the report.
CaptureUnwritten(t) ==
    /\ Step(t, "filter", "dialog")
    /\ ~writes
    /\ reports' = reports \cup {Report(t, None)}
    /\ reported' = [reported EXCEPT ![t] = @ \cup {phase[t]}]
    /\ UNCHANGED <<writes, modVars, job, trouble, phase, blame,
                   capturing, lastSig, lastReport, refused, dialogShown, dialog,
                   death, overtaken, panicked, troubles>>

\* The filter takes the exception for one the VEH has already reported.
SkipDuplicate(t) ==
    /\ Step(t, "filter", "duplicate")
    /\ writes /\ AlreadyReported(t)
    /\ UNCHANGED <<writes, modVars, job, trouble, phase, blame, captureVars,
                   death, histVars>>

BeginReport(t) ==
    /\ Step(t, "filter", "attribute")
    /\ writes /\ ~AlreadyReported(t)
    /\ UNCHANGED <<writes, modVars, job, trouble, phase, blame, captureVars,
                   death, histVars>>

\* determine_attribution; a manual capture only asks for the scope.
Attribute(t) ==
    /\ Step(t, "attribute", "write")
    /\ \E busy, busyMods \in BOOLEAN :
         LET scope == ScopeFor(t, busy)
             owner == IF phase[t] = "manual" THEN None
                      ELSE OwnerOf(trouble[t].at, busyMods)
         IN  blame' = [blame EXCEPT ![t] =
                         IF scope # None THEN scope ELSE owner]
    /\ UNCHANGED <<writes, modVars, job, trouble, phase, captureVars, death,
                   histVars>>

\* The text, the JSON file and the minidump.  write_report says nothing of a
\* directory or a file that cannot be made, and the capture goes on alike.
WriteReport(t) ==
    /\ Step(t, "write", IF phase[t] = "manual" THEN "mark" ELSE "remember")
    /\ LET report == Report(t, blame[t])
       IN  \/ reports' = reports \cup {report} /\ UNCHANGED refused
           \/ refused' = refused \cup {report} /\ UNCHANGED reports
    /\ reported' = [reported EXCEPT ![t] = @ \cup {phase[t]}]
    /\ UNCHANGED <<writes, modVars, job, trouble, phase, blame, capturing,
                   lastSig, lastReport, dialogShown, dialog, death, overtaken,
                   panicked, troubles>>

(* Mutant: LAST_REPORT keeps the first report. *)
RememberFirst(t) ==
    /\ Step(t, "remember", "mark")
    /\ lastSig' = Signature(t)
    /\ lastReport' = IF lastReport = None THEN Report(t, blame[t])
                     ELSE lastReport
    /\ overtaken' = [u \in Threads |-> overtaken[u] \/ u # t]
    /\ UNCHANGED <<writes, modVars, job, trouble, phase, blame,
                   capturing, reports, refused, dialogShown, dialog, death,
                   reported,
                   panicked, troubles>>
\* LAST_EXCEPTION_SIGNATURE and LAST_REPORT, which only the holder of the
\* guard reads.
Remember(t) ==
    /\ Step(t, "remember", "mark")
    /\ lastSig' = Signature(t)
    /\ lastReport' = Report(t, blame[t])
    /\ overtaken' = [u \in Threads |-> overtaken[u] \/ u # t]
    /\ UNCHANGED <<writes, modVars, job, trouble, phase, blame,
                   capturing, reports, refused, dialogShown, dialog, death,
                   reported,
                   panicked, troubles>>

(* Mutant: the mod to mark is looked up again. *)
MarkWhoeverRuns(t) ==
    /\ Step(t, "mark", "dialog")
    /\ modState' = [m \in Mods |-> IF m = ScopeFor(t, FALSE) THEN "crashed"
                                   ELSE modState[m]]
    /\ UNCHANGED <<writes, scopes, filter, job, trouble, phase, blame,
                   captureVars, death, histVars>>
\* mark_crashed.
MarkBlamed(t) ==
    /\ Step(t, "mark", "dialog")
    /\ modState' = [m \in Mods |-> IF m = blame[t] THEN "crashed"
                                   ELSE modState[m]]
    /\ UNCHANGED <<writes, scopes, filter, job, trouble, phase, blame,
                   captureVars, death, histVars>>

\* CRASH_DIALOG_SHOWN.  The dialog names the report just written, or what
\* LAST_REPORT holds when the filter skipped a duplicate.
ShowDialog(t) ==
    /\ pc[t] \in {"dialog", "duplicate"}
    /\ \/ /\ ShowsDialog(t) /\ ~dialogShown
          /\ Goto(t, "shown")
          /\ dialogShown' = TRUE
          /\ dialog' = [sig |-> Signature(t), nr |-> trouble[t].nr,
                        names |-> IF pc[t] = "duplicate" THEN lastReport
                                  ELSE IF writes THEN Report(t, blame[t])
                                  ELSE None]
       \/ /\ dialogShown \/ ~ShowsDialog(t)
          /\ Goto(t, "leave")
          /\ UNCHANGED <<dialogShown, dialog>>
    /\ UNCHANGED <<writes, modVars, job, trouble, phase, blame,
                   capturing, lastSig, lastReport, reports, refused, death,
                   histVars>>

\* The user closes the dialog.
CloseDialog(t) ==
    /\ Step(t, "shown", "leave")
    /\ UNCHANGED <<writes, modVars, job, trouble, phase, blame, captureVars,
                   death, histVars>>

\* CaptureGuard::drop.
LeaveCapture(t) ==
    /\ pc[t] = "leave"
    /\ capturing' = FALSE
    /\ blame' = [blame EXCEPT ![t] = None]
    /\ Return(t, FALSE)
    /\ UNCHANGED <<writes, modVars, job, lastSig, lastReport,
                   reports, refused, dialogShown, dialog, histVars>>

\* A frame of the thread handles the exception and the code goes on.
HandleException(t) ==
    /\ Step(t, "search", trouble[t].back)
    /\ trouble' = [trouble EXCEPT ![t] = None]
    /\ phase' = [phase EXCEPT ![t] = "none"]
    /\ UNCHANGED <<writes, modVars, job, blame, captureVars, death, histVars>>

\* Nobody does: the filter that was set last decides.
Unhandled(t) ==
    /\ pc[t] = "search"
    /\ \/ filter = "ours" /\ Goto(t, "guard") /\ UNCHANGED <<trouble, phase, death>>
       \/ filter = "foreign" /\ Dies(t, "foreign")
    /\ UNCHANGED <<writes, modVars, job, blame, captureVars, histVars>>

\* The capture itself faults: CaptureGuard keeps both handlers out, and the
\* filter ends the process.
FaultInCapture(t) ==
    /\ pc[t] \in CaptureSteps
    /\ Dies(t, "nested")
    /\ UNCHANGED <<writes, modVars, job, blame, captureVars, histVars>>

-----------------------------------------------------------------------------

Modding(t) ==
    \/ \E m \in Mods : Discover(t, m) \/ BeginCallback(t, m)
    \/ MarkLoading(t) \/ EnterScope(t) \/ LeaveScope(t) \/ Rearm(t)
    \/ CallEntry(t) \/ MarkOutcome(t)
    \/ trouble[t] = None /\ ReplaceFilter(t)

Striking(t) ==
    \/ \E at \in Places, kind \in Exceptions : RaiseException(t, kind, at)
    \/ \E kind \in Failures \ {"callback-panic"} : FailRuntime(t, kind)
    \/ MarkPanicked(t)
    \/ HandleException(t) \/ Unhandled(t) \/ FaultInCapture(t)

Capture(t) ==
    \/ TakeGuard(t) \/ GuardTaken(t) \/ CaptureUnwritten(t)
    \/ SkipDuplicate(t) \/ BeginReport(t) \/ Attribute(t) \/ WriteReport(t)
    \/ Remember(t) \/ MarkBlamed(t) \/ ShowDialog(t) \/ CloseDialog(t)
    \/ LeaveCapture(t)

Running == /\ death = None
           /\ \E t \in Threads : Modding(t) \/ Striking(t) \/ Capture(t)

\* The process is gone.
Dead == death # None /\ UNCHANGED vars

Next == Running \/ Dead
Spec == Init /\ [][Next]_vars

-----------------------------------------------------------------------------

Signatures == Threads \X Exceptions \X Places \cup Threads \X Failures \X {"game"}
Phases == {"veh", "seh", "manual"}
Ends == {"blocked", "filter", "abort", "foreign", "nested"}
Numbers == 1 .. MaxTroubles
ReportSet == [sig : Signatures, nr : Numbers, phase : Phases,
              blame : Mods \cup {None}]
DialogSet == [sig : Signatures, nr : Numbers, names : ReportSet \cup {None}]
DeathSet == [sig : Signatures, nr : Numbers, how : Ends]
Troubles == [kind : Exceptions \cup Failures, at : Places,
             back : {"idle", "inside"}, nr : Numbers]

ASSUME NothingAssumption ==
    None \notin Troubles \cup Signatures \cup ReportSet \cup DeathSet

\* The types of the variables.
TypeOK ==
    /\ writes \in BOOLEAN
    /\ scopes \subseteq [mod : Mods, thread : Threads]
    /\ modState \in [Mods -> ModStates]
    /\ filter \in {"ours", "foreign"}
    /\ pc \in [Threads -> Steps]
    /\ job \in [Threads -> [kind : JobKinds, mod : Mods \cup {None}]]
    /\ trouble \in [Threads -> Troubles \cup {None}]
    /\ phase \in [Threads -> Phases \cup {"none"}]
    /\ blame \in [Threads -> Mods \cup {None}]
    /\ capturing \in BOOLEAN
    /\ lastSig \in Signatures \cup {None}
    /\ lastReport \in ReportSet \cup {None}
    /\ reports \subseteq ReportSet
    /\ refused \subseteq ReportSet
    /\ dialogShown \in BOOLEAN
    /\ dialog \in DialogSet \cup {None}
    /\ death \in DeathSet \cup {None}
    /\ reported \in [Threads -> SUBSET Phases]
    /\ overtaken \in [Threads -> BOOLEAN]
    /\ panicked \subseteq Mods
    /\ troubles \in 0 .. MaxTroubles

\* The filter captures a second time an exception the VEH has captured only
\* when another thread's exception was remembered in between: CaptureGuard
\* and LAST_EXCEPTION_SIGNATURE, which is a single cell.
DuplicateOnlyWhenOvertaken ==
    writes => \A t \in Threads :
                {"veh", "seh"} \subseteq reported[t] => overtaken[t]

\* When the process ends through BLoader's filter, and the filter found the
\* guard free, one of the two handlers reported the exception that ended it;
\* otherwise the last exception remembered, an earlier one, was of the same
\* thread, code and address, and the filter took this one for it: that death
\* has no report of its own.  A report is lost only where the disk refuses it.
DeathReported ==
    death # None /\ death.how = "filter" =>
      \E r \in Captures :
        /\ r.sig = death.sig
        /\ r.nr = death.nr \/ (r.nr < death.nr /\ r = lastReport)

\* The one dialog names the latest report of its signature, though
\* LAST_REPORT is shared by all threads: the report of the failure it
\* announces when there is one, and else that of an earlier exception of the
\* same thread, code and address.  The file is there unless the disk refused
\* it, which the capture does not notice.
DialogNamesOwnReport ==
    dialog # None /\ writes =>
      /\ dialog.names \in Captures
      /\ dialog.names.sig = dialog.sig
      /\ dialog.names.nr <= dialog.nr
      /\ \A r \in Captures :
           r.sig = dialog.sig /\ r.nr <= dialog.nr => r.nr <= dialog.names.nr

\* The inventory calls a mod crashed only if a report blames it or its callback
\* has panicked: the mark follows the report.
CrashedWasBlamed ==
    \A m \in Mods : modState[m] = "crashed" =>
      m \in panicked \/ \E r \in Captures : r.blame = m

=============================================================================
