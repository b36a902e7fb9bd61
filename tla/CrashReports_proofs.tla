----------------------- MODULE CrashReports_proofs -----------------------
(***************************************************************************)
(* Theorems about CrashReports, for any number of threads, mods and        *)
(* failures.                                                               *)
(***************************************************************************)
EXTENDS CrashReports, TLAPS

(* The guard is held by the one thread that is in a capture. *)
GuardHeld ==
    /\ \A t, u \in Threads :
         pc[t] \in CaptureSteps /\ pc[u] \in CaptureSteps => t = u
    /\ \A t \in Threads : pc[t] \in CaptureSteps => capturing

(* What a thread in a handler is doing there. *)
HandlerAt(t) ==
    /\ pc[t] \in CaptureSteps \cup {"guard", "search"} => phase[t] # "none"
    /\ phase[t] # "none" =>
         /\ trouble[t] # None
         /\ pc[t] \in CaptureSteps \cup {"guard", "search", "dead"}
    /\ phase[t] \in {"veh", "seh"} => trouble[t].kind \in Exceptions
    /\ phase[t] = "manual" => trouble[t].kind \in Failures
    /\ pc[t] = "search" => phase[t] = "seh"
    /\ pc[t] = "remember" => phase[t] \in {"veh", "seh"}
    /\ trouble[t] # None => Signature(t) \in Signatures

(* Whose mod it works for, and where a capture sends it back to. *)
JobAt(t) ==
    /\ trouble[t] # None /\ phase[t] = "none" => trouble[t].kind = "panic"
    /\ trouble[t] # None /\ trouble[t].kind = "panic" =>
         job[t].kind = "callback" /\ trouble[t].back = "inside"
    /\ pc[t] = "idle" => trouble[t] = None
    /\ pc[t] = "panicked" => trouble[t] # None
    /\ trouble[t] # None /\ trouble[t].back = "inside" => job[t].mod \in Mods
    /\ pc[t] = "rearmed" => job[t].kind \in {"load", "entry"}
    /\ pc[t] \in {"found", "enter", "inside", "left", "rearmed", "panicked"} =>
         job[t].mod \in Mods

(* How far the capture in progress has come with its own report. *)
OwnAt(t) ==
    /\ pc[t] \in {"remember", "mark"} => Report(t, blame[t]) \in Captures
    /\ pc[t] = "dialog" /\ writes => Report(t, blame[t]) \in Captures
    /\ pc[t] \in {"attribute", "write", "remember", "mark", "duplicate"} =>
         writes
    /\ pc[t] = "duplicate" => phase[t] = "seh" /\ lastSig = Signature(t)
    /\ pc[t] \in {"dialog", "duplicate", "shown", "leave"} =>
         \E r \in Captures : r.sig = Signature(t)

(* Until another exception is remembered, the cell holds the signature of  *)
(* the exception the VEH has reported.                                     *)
ReportedAt(t) == writes =>
    /\ "seh" \in reported[t] /\ "veh" \in reported[t] => overtaken[t]
    /\ "seh" \in reported[t] =>
         /\ phase[t] = "seh"
         /\ pc[t] \in {"remember", "mark", "dialog", "shown", "leave", "dead"}
    /\ phase[t] = "veh" /\ pc[t] \in {"mark", "dialog", "shown", "leave"} =>
         overtaken[t] \/ lastSig = Signature(t)
    /\ phase[t] = "veh" /\ pc[t] \in {"guard", "filter", "attribute", "write"} =>
         "veh" \notin reported[t]
    /\ phase[t] = "seh" /\ "veh" \in reported[t] =>
         \/ overtaken[t]
         \/ /\ lastSig = Signature(t)
            /\ pc[t] \in {"search", "guard", "filter", "duplicate", "shown",
                          "leave", "dead"}

ThreadAt(t) == HandlerAt(t) /\ JobAt(t) /\ OwnAt(t) /\ ReportedAt(t)

(* LAST_REPORT is a report of the exception LAST_EXCEPTION_SIGNATURE names. *)
SignatureHasReport ==
    lastSig # None => lastReport \in Captures /\ lastReport.sig = lastSig

CrashInv ==
    /\ TypeOK /\ GuardHeld /\ SignatureHasReport /\ CrashedWasBlamed
    /\ \A t \in Threads : ThreadAt(t)

-----------------------------------------------------------------------------
(* What a step of one thread leaves to the others.                         *)

Frame(t) ==
    /\ \A u \in Threads \ {t} :
         /\ pc'[u] = pc[u] /\ job'[u] = job[u]
         /\ trouble'[u] = trouble[u] /\ phase'[u] = phase[u]
         /\ blame'[u] = blame[u] /\ reported'[u] = reported[u]
         /\ overtaken[u] => overtaken'[u]
    /\ writes' = writes
    /\ Captures \subseteq Captures'
    /\ \/ lastSig' = lastSig
       \/ pc[t] \in CaptureSteps /\ \A u \in Threads \ {t} : overtaken'[u]

GuardStep(t) ==
    \/ capturing' = capturing
         /\ (pc'[t] \in CaptureSteps => pc[t] \in CaptureSteps)
    \/ ~capturing /\ capturing'
    \/ pc[t] \in CaptureSteps /\ pc'[t] \notin CaptureSteps

LEMMA StepKeepsInv ==
  ASSUME CrashInv, NEW t \in Threads, Frame(t), GuardStep(t), TypeOK',
         SignatureHasReport', CrashedWasBlamed', ThreadAt(t)'
  PROVE  CrashInv'
<1>1. ASSUME NEW u \in Threads \ {t}
      PROVE  ThreadAt(u)'
  <2>1. ThreadAt(u)
    BY DEF CrashInv
  <2>2. HandlerAt(u)' /\ JobAt(u)'
    BY <2>1 DEF Frame, ThreadAt, HandlerAt, JobAt, Signature
  <2>3. pc[u] = "duplicate" => lastSig' = lastSig
    BY DEF CrashInv, GuardHeld, Frame, CaptureSteps
  <2>4. OwnAt(u)'
    BY <2>1, <2>3 DEF Frame, ThreadAt, OwnAt, Signature, Report
  <2>5. ReportedAt(u)'
    BY <2>1 DEF Frame, ThreadAt, ReportedAt, Signature
  <2> QED
    BY <2>2, <2>4, <2>5 DEF ThreadAt
<1>2. \A u \in Threads : ThreadAt(u)'
  BY <1>1
<1>3. GuardHeld'
  BY DEF CrashInv, GuardHeld, GuardStep, Frame
<1> QED
  BY <1>2, <1>3 DEF CrashInv

LEMMA ReportTyped ==
  ASSUME NEW t \in Threads, NEW m \in Mods \cup {None},
         Signature(t) \in Signatures, phase[t] \in Phases, trouble[t] \in Troubles
  PROVE  Report(t, m) \in ReportSet
BY DEF Report, ReportSet, Troubles

LEMMA TroubleTyped ==
  ASSUME TypeOK, NEW t \in Threads, trouble[t] # None
  PROVE  /\ trouble[t] \in Troubles
         /\ trouble[t].back \in {"idle", "inside"}
         /\ trouble[t].kind \in Exceptions \cup Failures
BY DEF TypeOK, Troubles

LEMMA NumberTyped ==
  ASSUME TypeOK, troubles < MaxTroubles
  PROVE  troubles + 1 \in Numbers /\ troubles + 1 \in 0 .. MaxTroubles
BY CrashReportsAssumption DEF TypeOK, Numbers

LEMMA ScopeTyped ==
  ASSUME TypeOK, NEW t \in Threads, NEW busy \in BOOLEAN
  PROVE  ScopeFor(t, busy) \in Mods \cup {None}
<1> DEFINE own == {s \in scopes : s.thread = t}
<1>1. \A s \in scopes : s.mod \in Mods
  BY DEF TypeOK
<1>2. own # {} => (CHOOSE s \in own : TRUE) \in scopes
  OBVIOUS
<1>3. (\E s \in scopes : scopes = {s}) => (CHOOSE s \in scopes : TRUE) \in scopes
  OBVIOUS
<1> QED
  BY <1>1, <1>2, <1>3 DEF ScopeFor

-----------------------------------------------------------------------------
(* One lemma per action, one step per part of the invariant.               *)

LEMMA DiscoverStep ==
  ASSUME CrashInv, NEW t \in Threads, NEW m \in Mods, Discover(t, m)
  PROVE  CrashInv'
<1>1. /\ HandlerAt(t) /\ JobAt(t) /\ OwnAt(t) /\ ReportedAt(t)
      /\ TypeOK /\ GuardHeld /\ SignatureHasReport /\ CrashedWasBlamed
  BY DEF CrashInv, ThreadAt
<1> USE DEF Discover, Step, Goto, ModStates, JobKinds
<1>2. Frame(t)
  BY <1>1 DEF Frame, Captures, TypeOK, captureVars, histVars, CaptureSteps
<1>3. GuardStep(t)
  BY <1>1 DEF GuardStep, TypeOK, captureVars, CaptureSteps
<1>4. TypeOK'
  BY <1>1 DEF TypeOK, HandlerAt, JobAt, captureVars, histVars, modVars, Steps, CaptureSteps, Phases
<1>5. HandlerAt(t)'
  BY <1>1 DEF HandlerAt, TypeOK, CaptureSteps, Signature, Signatures
<1>6. JobAt(t)'
  BY <1>1 DEF JobAt, HandlerAt, TypeOK, CaptureSteps
<1>7. OwnAt(t)'
  BY <1>1 DEF OwnAt, HandlerAt, Report, Captures, Signature, CaptureSteps, TypeOK, captureVars
<1>8. ReportedAt(t)'
  BY <1>1 DEF ReportedAt, HandlerAt, Signature, CaptureSteps, TypeOK, captureVars, histVars
<1>9. SignatureHasReport'
  BY <1>1 DEF SignatureHasReport, OwnAt, Report, Captures, captureVars
<1>10. CrashedWasBlamed'
  BY <1>1 DEF CrashedWasBlamed, Captures, SignatureHasReport, TypeOK, OwnAt, Report, Captures, captureVars, histVars, modVars
<1> QED
  BY <1>2, <1>3, <1>4, <1>5, <1>6, <1>7, <1>8, <1>9, <1>10, StepKeepsInv DEF ThreadAt

LEMMA CallbackStep ==
  ASSUME CrashInv, NEW t \in Threads, NEW m \in Mods, BeginCallback(t, m)
  PROVE  CrashInv'
<1>1. /\ HandlerAt(t) /\ JobAt(t) /\ OwnAt(t) /\ ReportedAt(t)
      /\ TypeOK /\ GuardHeld /\ SignatureHasReport /\ CrashedWasBlamed
  BY DEF CrashInv, ThreadAt
<1> USE DEF BeginCallback, Step, Goto, JobKinds
<1>2. Frame(t)
  BY <1>1 DEF Frame, Captures, TypeOK, captureVars, histVars, CaptureSteps
<1>3. GuardStep(t)
  BY <1>1 DEF GuardStep, TypeOK, captureVars, CaptureSteps
<1>4. TypeOK'
  BY <1>1 DEF TypeOK, HandlerAt, JobAt, captureVars, histVars, modVars, Steps, CaptureSteps, Phases
<1>5. HandlerAt(t)'
  BY <1>1 DEF HandlerAt, TypeOK, CaptureSteps, Signature, Signatures
<1>6. JobAt(t)'
  BY <1>1 DEF JobAt, HandlerAt, TypeOK, CaptureSteps
<1>7. OwnAt(t)'
  BY <1>1 DEF OwnAt, HandlerAt, Report, Captures, Signature, CaptureSteps, TypeOK, captureVars
<1>8. ReportedAt(t)'
  BY <1>1 DEF ReportedAt, HandlerAt, Signature, CaptureSteps, TypeOK, captureVars, histVars
<1>9. SignatureHasReport'
  BY <1>1 DEF SignatureHasReport, OwnAt, Report, Captures, captureVars
<1>10. CrashedWasBlamed'
  BY <1>1 DEF CrashedWasBlamed, Captures, SignatureHasReport, TypeOK, OwnAt, Report, Captures, captureVars, histVars, modVars
<1> QED
  BY <1>2, <1>3, <1>4, <1>5, <1>6, <1>7, <1>8, <1>9, <1>10, StepKeepsInv DEF ThreadAt

LEMMA LoadingStep ==
  ASSUME CrashInv, NEW t \in Threads, MarkLoading(t)
  PROVE  CrashInv'
<1>1. /\ HandlerAt(t) /\ JobAt(t) /\ OwnAt(t) /\ ReportedAt(t)
      /\ TypeOK /\ GuardHeld /\ SignatureHasReport /\ CrashedWasBlamed
  BY DEF CrashInv, ThreadAt
<1> USE DEF MarkLoading, Step, Goto, ModStates
<1>2. Frame(t)
  BY <1>1 DEF Frame, Captures, TypeOK, captureVars, histVars, CaptureSteps
<1>3. GuardStep(t)
  BY <1>1 DEF GuardStep, TypeOK, captureVars, CaptureSteps
<1>4. TypeOK'
  BY <1>1 DEF TypeOK, HandlerAt, JobAt, captureVars, histVars, modVars, Steps, CaptureSteps, Phases
<1>5. HandlerAt(t)'
  BY <1>1 DEF HandlerAt, TypeOK, CaptureSteps, Signature, Signatures
<1>6. JobAt(t)'
  BY <1>1 DEF JobAt, HandlerAt, TypeOK, CaptureSteps
<1>7. OwnAt(t)'
  BY <1>1 DEF OwnAt, HandlerAt, Report, Captures, Signature, CaptureSteps, TypeOK, captureVars
<1>8. ReportedAt(t)'
  BY <1>1 DEF ReportedAt, HandlerAt, Signature, CaptureSteps, TypeOK, captureVars, histVars
<1>9. SignatureHasReport'
  BY <1>1 DEF SignatureHasReport, OwnAt, Report, Captures, captureVars
<1>10. CrashedWasBlamed'
  BY <1>1 DEF CrashedWasBlamed, Captures, SignatureHasReport, TypeOK, OwnAt, Report, Captures, captureVars, histVars, modVars
<1> QED
  BY <1>2, <1>3, <1>4, <1>5, <1>6, <1>7, <1>8, <1>9, <1>10, StepKeepsInv DEF ThreadAt

LEMMA EnterStep ==
  ASSUME CrashInv, NEW t \in Threads, EnterScope(t)
  PROVE  CrashInv'
<1>1. /\ HandlerAt(t) /\ JobAt(t) /\ OwnAt(t) /\ ReportedAt(t)
      /\ TypeOK /\ GuardHeld /\ SignatureHasReport /\ CrashedWasBlamed
  BY DEF CrashInv, ThreadAt
<1> USE DEF EnterScope, Step, Goto
<1>2. Frame(t)
  BY <1>1 DEF Frame, Captures, TypeOK, captureVars, histVars, CaptureSteps
<1>3. GuardStep(t)
  BY <1>1 DEF GuardStep, TypeOK, captureVars, CaptureSteps
<1>4. TypeOK'
  BY <1>1 DEF TypeOK, HandlerAt, JobAt, captureVars, histVars, modVars, Steps, CaptureSteps, Phases
<1>5. HandlerAt(t)'
  BY <1>1 DEF HandlerAt, TypeOK, CaptureSteps, Signature, Signatures
<1>6. JobAt(t)'
  BY <1>1 DEF JobAt, HandlerAt, TypeOK, CaptureSteps
<1>7. OwnAt(t)'
  BY <1>1 DEF OwnAt, HandlerAt, Report, Captures, Signature, CaptureSteps, TypeOK, captureVars
<1>8. ReportedAt(t)'
  BY <1>1 DEF ReportedAt, HandlerAt, Signature, CaptureSteps, TypeOK, captureVars, histVars
<1>9. SignatureHasReport'
  BY <1>1 DEF SignatureHasReport, OwnAt, Report, Captures, captureVars
<1>10. CrashedWasBlamed'
  BY <1>1 DEF CrashedWasBlamed, Captures, SignatureHasReport, TypeOK, OwnAt, Report, Captures, captureVars, histVars, modVars
<1> QED
  BY <1>2, <1>3, <1>4, <1>5, <1>6, <1>7, <1>8, <1>9, <1>10, StepKeepsInv DEF ThreadAt

LEMMA LeaveScopeStep ==
  ASSUME CrashInv, NEW t \in Threads, LeaveScope(t)
  PROVE  CrashInv'
<1>1. /\ HandlerAt(t) /\ JobAt(t) /\ OwnAt(t) /\ ReportedAt(t)
      /\ TypeOK /\ GuardHeld /\ SignatureHasReport /\ CrashedWasBlamed
  BY DEF CrashInv, ThreadAt
<1> USE DEF LeaveScope, Step, Goto
<1>2. Frame(t)
  BY <1>1 DEF Frame, Captures, TypeOK, captureVars, histVars, CaptureSteps
<1>3. GuardStep(t)
  BY <1>1 DEF GuardStep, TypeOK, captureVars, CaptureSteps
<1>4. TypeOK'
  BY <1>1 DEF TypeOK, HandlerAt, JobAt, captureVars, histVars, modVars, Steps, CaptureSteps, Phases
<1>5. HandlerAt(t)'
  BY <1>1 DEF HandlerAt, TypeOK, CaptureSteps, Signature, Signatures
<1>6. JobAt(t)'
  BY <1>1 DEF JobAt, HandlerAt, TypeOK, CaptureSteps
<1>7. OwnAt(t)'
  BY <1>1 DEF OwnAt, HandlerAt, Report, Captures, Signature, CaptureSteps, TypeOK, captureVars
<1>8. ReportedAt(t)'
  BY <1>1 DEF ReportedAt, HandlerAt, Signature, CaptureSteps, TypeOK, captureVars, histVars
<1>9. SignatureHasReport'
  BY <1>1 DEF SignatureHasReport, OwnAt, Report, Captures, captureVars
<1>10. CrashedWasBlamed'
  BY <1>1 DEF CrashedWasBlamed, Captures, SignatureHasReport, TypeOK, OwnAt, Report, Captures, captureVars, histVars, modVars
<1> QED
  BY <1>2, <1>3, <1>4, <1>5, <1>6, <1>7, <1>8, <1>9, <1>10, StepKeepsInv DEF ThreadAt

LEMMA RearmStep ==
  ASSUME CrashInv, NEW t \in Threads, Rearm(t)
  PROVE  CrashInv'
<1>1. /\ HandlerAt(t) /\ JobAt(t) /\ OwnAt(t) /\ ReportedAt(t)
      /\ TypeOK /\ GuardHeld /\ SignatureHasReport /\ CrashedWasBlamed
  BY DEF CrashInv, ThreadAt
<1> USE DEF Rearm, Goto, NoJob, JobKinds
<1>2. Frame(t)
  BY <1>1 DEF Frame, Captures, TypeOK, captureVars, histVars, CaptureSteps
<1>3. GuardStep(t)
  BY <1>1 DEF GuardStep, TypeOK, captureVars, CaptureSteps
<1>4. TypeOK'
  <2> USE <1>1 DEF TypeOK, captureVars, histVars, modVars
  <2>1. Signature(t) \in Signatures \/ trouble[t] = None
    BY DEF HandlerAt
  <2>2. pc' \in [Threads -> Steps]
    BY DEF Steps, CaptureSteps, Troubles
  <2>3. trouble' \in [Threads -> Troubles \cup {None}]
    BY DEF Troubles
  <2>4. phase' \in [Threads -> Phases \cup {"none"}]
    BY DEF Phases
  <2>5. /\ blame' \in [Threads -> Mods \cup {None}]
        /\ capturing' \in BOOLEAN /\ dialogShown' \in BOOLEAN
    OBVIOUS
  <2>6. /\ lastSig' \in Signatures \cup {None}
        /\ lastReport' \in ReportSet \cup {None}
        /\ reports' \subseteq ReportSet /\ refused' \subseteq ReportSet
    BY <2>1, ReportTyped DEF HandlerAt, CaptureSteps
  <2>7. dialog' \in DialogSet \cup {None}
    BY <2>1, ReportTyped DEF HandlerAt, CaptureSteps, DialogSet, Troubles
  <2>8. death' \in DeathSet \cup {None}
    BY <2>1 DEF DeathSet, Troubles, Ends, HandlerAt, CaptureSteps
  <2>9. /\ writes' \in BOOLEAN /\ scopes' \subseteq [mod : Mods, thread : Threads]
        /\ modState' \in [Mods -> ModStates] /\ filter' \in {"ours", "foreign"}
    OBVIOUS
  <2>11. job' \in [Threads -> [kind : JobKinds, mod : Mods \cup {None}]]
    <3>1. NoJob \in [kind : JobKinds, mod : Mods \cup {None}]
      OBVIOUS
    <3>2. job' = job \/ job' = [job EXCEPT ![t] = NoJob]
      OBVIOUS
    <3> HIDE DEF Rearm, Goto, NoJob, JobKinds
    <3> QED
      BY <3>1, <3>2
  <2>10. /\ reported' \in [Threads -> SUBSET Phases] /\ overtaken' \in [Threads -> BOOLEAN]
         /\ panicked' \subseteq Mods /\ troubles' \in 0 .. MaxTroubles
    BY CrashReportsAssumption DEF HandlerAt, CaptureSteps, Phases
  <2> HIDE DEF Rearm, Goto, NoJob, JobKinds
  <2> QED
    BY <2>2, <2>3, <2>4, <2>5, <2>6, <2>7, <2>8, <2>9, <2>10, <2>11
<1>5. HandlerAt(t)'
  BY <1>1 DEF HandlerAt, TypeOK, CaptureSteps, Signature, Signatures
<1>6. JobAt(t)'
  BY <1>1 DEF JobAt, HandlerAt, TypeOK, CaptureSteps
<1>7. OwnAt(t)'
  BY <1>1 DEF OwnAt, HandlerAt, Report, Captures, Signature, CaptureSteps, TypeOK, captureVars
<1>8. ReportedAt(t)'
  BY <1>1 DEF ReportedAt, HandlerAt, Signature, CaptureSteps, TypeOK, captureVars, histVars
<1>9. SignatureHasReport'
  BY <1>1 DEF SignatureHasReport, OwnAt, Report, Captures, captureVars
<1>10. CrashedWasBlamed'
  BY <1>1 DEF CrashedWasBlamed, Captures, SignatureHasReport, TypeOK, OwnAt, Report, Captures, captureVars, histVars, modVars
<1> QED
  BY <1>2, <1>3, <1>4, <1>5, <1>6, <1>7, <1>8, <1>9, <1>10, StepKeepsInv DEF ThreadAt

LEMMA EntryStep ==
  ASSUME CrashInv, NEW t \in Threads, CallEntry(t)
  PROVE  CrashInv'
<1>1. /\ HandlerAt(t) /\ JobAt(t) /\ OwnAt(t) /\ ReportedAt(t)
      /\ TypeOK /\ GuardHeld /\ SignatureHasReport /\ CrashedWasBlamed
  BY DEF CrashInv, ThreadAt
<1> USE DEF CallEntry, Step, Goto, JobKinds
<1>2. Frame(t)
  BY <1>1 DEF Frame, Captures, TypeOK, captureVars, histVars, CaptureSteps
<1>3. GuardStep(t)
  BY <1>1 DEF GuardStep, TypeOK, captureVars, CaptureSteps
<1>4. TypeOK'
  BY <1>1 DEF TypeOK, HandlerAt, JobAt, captureVars, histVars, modVars, Steps, CaptureSteps, Phases
<1>5. HandlerAt(t)'
  BY <1>1 DEF HandlerAt, TypeOK, CaptureSteps, Signature, Signatures
<1>6. JobAt(t)'
  BY <1>1 DEF JobAt, HandlerAt, TypeOK, CaptureSteps
<1>7. OwnAt(t)'
  BY <1>1 DEF OwnAt, HandlerAt, Report, Captures, Signature, CaptureSteps, TypeOK, captureVars
<1>8. ReportedAt(t)'
  BY <1>1 DEF ReportedAt, HandlerAt, Signature, CaptureSteps, TypeOK, captureVars, histVars
<1>9. SignatureHasReport'
  BY <1>1 DEF SignatureHasReport, OwnAt, Report, Captures, captureVars
<1>10. CrashedWasBlamed'
  BY <1>1 DEF CrashedWasBlamed, Captures, SignatureHasReport, TypeOK, OwnAt, Report, Captures, captureVars, histVars, modVars
<1> QED
  BY <1>2, <1>3, <1>4, <1>5, <1>6, <1>7, <1>8, <1>9, <1>10, StepKeepsInv DEF ThreadAt

LEMMA OutcomeStep ==
  ASSUME CrashInv, NEW t \in Threads, MarkOutcome(t)
  PROVE  CrashInv'
<1>1. /\ HandlerAt(t) /\ JobAt(t) /\ OwnAt(t) /\ ReportedAt(t)
      /\ TypeOK /\ GuardHeld /\ SignatureHasReport /\ CrashedWasBlamed
  BY DEF CrashInv, ThreadAt
<1> USE DEF MarkOutcome, Step, Goto, NoJob, JobKinds, ModStates
<1>2. Frame(t)
  BY <1>1 DEF Frame, Captures, TypeOK, captureVars, histVars, CaptureSteps
<1>3. GuardStep(t)
  BY <1>1 DEF GuardStep, TypeOK, captureVars, CaptureSteps
<1>4. TypeOK'
  BY <1>1 DEF TypeOK, HandlerAt, JobAt, captureVars, histVars, modVars, Steps, CaptureSteps, Phases
<1>5. HandlerAt(t)'
  BY <1>1 DEF HandlerAt, TypeOK, CaptureSteps, Signature, Signatures
<1>6. JobAt(t)'
  BY <1>1 DEF JobAt, HandlerAt, TypeOK, CaptureSteps
<1>7. OwnAt(t)'
  BY <1>1 DEF OwnAt, HandlerAt, Report, Captures, Signature, CaptureSteps, TypeOK, captureVars
<1>8. ReportedAt(t)'
  BY <1>1 DEF ReportedAt, HandlerAt, Signature, CaptureSteps, TypeOK, captureVars, histVars
<1>9. SignatureHasReport'
  BY <1>1 DEF SignatureHasReport, OwnAt, Report, Captures, captureVars
<1>10. CrashedWasBlamed'
  BY <1>1 DEF CrashedWasBlamed, Captures, SignatureHasReport, TypeOK, OwnAt, Report, Captures, captureVars, histVars, modVars
<1> QED
  BY <1>2, <1>3, <1>4, <1>5, <1>6, <1>7, <1>8, <1>9, <1>10, StepKeepsInv DEF ThreadAt

LEMMA ReplaceStep ==
  ASSUME CrashInv, NEW t \in Threads, ReplaceFilter(t)
  PROVE  CrashInv'
<1>1. /\ HandlerAt(t) /\ JobAt(t) /\ OwnAt(t) /\ ReportedAt(t)
      /\ TypeOK /\ GuardHeld /\ SignatureHasReport /\ CrashedWasBlamed
  BY DEF CrashInv, ThreadAt
<1> USE DEF ReplaceFilter
<1>2. Frame(t)
  BY <1>1 DEF Frame, Captures, TypeOK, captureVars, histVars, CaptureSteps
<1>3. GuardStep(t)
  BY <1>1 DEF GuardStep, TypeOK, captureVars, CaptureSteps
<1>4. TypeOK'
  BY <1>1 DEF TypeOK, HandlerAt, JobAt, captureVars, histVars, modVars, Steps, CaptureSteps, Phases
<1>5. HandlerAt(t)'
  BY <1>1 DEF HandlerAt, TypeOK, CaptureSteps, Signature, Signatures
<1>6. JobAt(t)'
  BY <1>1 DEF JobAt, HandlerAt, TypeOK, CaptureSteps
<1>7. OwnAt(t)'
  BY <1>1 DEF OwnAt, HandlerAt, Report, Captures, Signature, CaptureSteps, TypeOK, captureVars
<1>8. ReportedAt(t)'
  BY <1>1 DEF ReportedAt, HandlerAt, Signature, CaptureSteps, TypeOK, captureVars, histVars
<1>9. SignatureHasReport'
  BY <1>1 DEF SignatureHasReport, OwnAt, Report, Captures, captureVars
<1>10. CrashedWasBlamed'
  BY <1>1 DEF CrashedWasBlamed, Captures, SignatureHasReport, TypeOK, OwnAt, Report, Captures, captureVars, histVars, modVars
<1> QED
  BY <1>2, <1>3, <1>4, <1>5, <1>6, <1>7, <1>8, <1>9, <1>10, StepKeepsInv DEF ThreadAt

LEMMA RaiseStep ==
  ASSUME CrashInv, NEW t \in Threads, NEW at \in Places,
         NEW kind \in Exceptions, RaiseException(t, kind, at)
  PROVE  CrashInv'
<1>1. /\ HandlerAt(t) /\ JobAt(t) /\ OwnAt(t) /\ ReportedAt(t)
      /\ TypeOK /\ GuardHeld /\ SignatureHasReport /\ CrashedWasBlamed
  BY DEF CrashInv, ThreadAt
<1>a. /\ pc'[t] \in {"guard", "search"} /\ phase'[t] \in {"veh", "seh"}
      /\ pc'[t] = "search" => phase'[t] = "seh"
      /\ trouble'[t] = [kind |-> kind, at |-> at, back |-> pc[t],
                       nr |-> troubles + 1]
      /\ pc[t] \in {"idle", "inside"}
      /\ reported'[t] = {} /\ job' = job
  BY <1>1 DEF TypeOK, RaiseException, Strike, Runs, Goto
<1>c. troubles + 1 \in Numbers /\ troubles + 1 \in 0 .. MaxTroubles
  BY <1>1, NumberTyped DEF RaiseException, Strike
<1>d. trouble'[t] \in Troubles /\ trouble'[t] # None
  BY <1>a, <1>c, NothingAssumption DEF Troubles, Places, Failures
<1> USE DEF RaiseException, Strike, Goto, Runs, Troubles
<1>2. Frame(t)
  BY <1>1 DEF Frame, Captures, TypeOK, captureVars, histVars, CaptureSteps
<1>3. GuardStep(t)
  BY <1>1 DEF GuardStep, TypeOK, captureVars, CaptureSteps
<1>4. TypeOK'
  <2> USE <1>1 DEF TypeOK, captureVars, histVars, modVars
  <2>1. Signature(t) \in Signatures \/ trouble[t] = None
    BY DEF HandlerAt
  <2>2. pc' \in [Threads -> Steps]
    BY DEF Steps, CaptureSteps, Troubles
  <2>3. trouble' \in [Threads -> Troubles \cup {None}]
    BY <1>d
  <2>4. phase' \in [Threads -> Phases \cup {"none"}]
    BY DEF Phases
  <2>5. /\ blame' \in [Threads -> Mods \cup {None}]
        /\ capturing' \in BOOLEAN /\ dialogShown' \in BOOLEAN
    OBVIOUS
  <2>6. /\ lastSig' \in Signatures \cup {None}
        /\ lastReport' \in ReportSet \cup {None}
        /\ reports' \subseteq ReportSet /\ refused' \subseteq ReportSet
    BY <2>1, ReportTyped DEF HandlerAt, CaptureSteps
  <2>7. dialog' \in DialogSet \cup {None}
    BY <2>1, ReportTyped DEF HandlerAt, CaptureSteps, DialogSet, Troubles
  <2>8. death' \in DeathSet \cup {None}
    BY <2>1 DEF DeathSet, Troubles, Ends, HandlerAt, CaptureSteps
  <2>9. /\ writes' \in BOOLEAN /\ scopes' \subseteq [mod : Mods, thread : Threads]
        /\ modState' \in [Mods -> ModStates] /\ filter' \in {"ours", "foreign"}
        /\ job' \in [Threads -> [kind : JobKinds, mod : Mods \cup {None}]]
    OBVIOUS
  <2>10. /\ reported' \in [Threads -> SUBSET Phases] /\ overtaken' \in [Threads -> BOOLEAN]
         /\ panicked' \subseteq Mods /\ troubles' \in 0 .. MaxTroubles
    BY <1>c DEF HandlerAt, CaptureSteps, Phases
  <2> HIDE DEF RaiseException, Strike, Goto, Runs, Troubles
  <2> QED
    BY <2>2, <2>3, <2>4, <2>5, <2>6, <2>7, <2>8, <2>9, <2>10
<1>5. HandlerAt(t)'
  <2>1. Signature(t)' \in Signatures
    BY <1>a DEF Signature, Signatures, Places, Failures
  <2>2. trouble'[t] # None
    BY <1>d
  <2> HIDE DEF RaiseException, Strike, Goto, Runs, Troubles
  <2> QED
    BY <1>a, <2>1, <2>2 DEF HandlerAt, CaptureSteps, Exceptions, Failures
<1>6. JobAt(t)'
  <2> HIDE DEF RaiseException, Strike, Goto, Runs, Troubles
  <2> QED
    BY <1>1, <1>a DEF JobAt, Exceptions, CaptureSteps, Runs
<1>7. OwnAt(t)'
  BY <1>1 DEF OwnAt, HandlerAt, Report, Captures, Signature, CaptureSteps, TypeOK, captureVars
<1>8. ReportedAt(t)'
  BY <1>1 DEF ReportedAt, HandlerAt, Signature, CaptureSteps, TypeOK, captureVars, histVars
<1>9. SignatureHasReport'
  BY <1>1 DEF SignatureHasReport, OwnAt, Report, Captures, captureVars
<1>10. CrashedWasBlamed'
  BY <1>1 DEF CrashedWasBlamed, Captures, SignatureHasReport, TypeOK, OwnAt, Report, Captures, captureVars, histVars, modVars
<1> QED
  BY <1>2, <1>3, <1>4, <1>5, <1>6, <1>7, <1>8, <1>9, <1>10, StepKeepsInv DEF ThreadAt

LEMMA FailStep ==
  ASSUME CrashInv, NEW t \in Threads, NEW kind \in Failures \ {"callback-panic"},
         FailRuntime(t, kind)
  PROVE  CrashInv'
<1>1. /\ HandlerAt(t) /\ JobAt(t) /\ OwnAt(t) /\ ReportedAt(t)
      /\ TypeOK /\ GuardHeld /\ SignatureHasReport /\ CrashedWasBlamed
  BY DEF CrashInv, ThreadAt
<1>a. /\ pc'[t] = "guard" /\ phase'[t] = "manual"
      /\ trouble'[t] = [kind |-> kind, at |-> "game", back |-> pc[t],
                       nr |-> troubles + 1]
      /\ pc[t] \in {"idle", "inside"}
      /\ kind = "panic" => pc[t] = "inside" /\ job[t].kind = "callback"
      /\ job' = job
  BY <1>1 DEF TypeOK, FailRuntime, Strike, Runs, Goto
<1>c. troubles + 1 \in Numbers /\ troubles + 1 \in 0 .. MaxTroubles
  BY <1>1, NumberTyped DEF FailRuntime, Strike
<1>d. trouble'[t] \in Troubles /\ trouble'[t] # None
  BY <1>a, <1>c, NothingAssumption DEF Troubles, Places, Failures
<1> USE DEF FailRuntime, Strike, Goto, Runs, Troubles, Places
<1>2. Frame(t)
  BY <1>1 DEF Frame, Captures, TypeOK, captureVars, histVars, CaptureSteps
<1>3. GuardStep(t)
  BY <1>1 DEF GuardStep, TypeOK, captureVars, CaptureSteps
<1>4. TypeOK'
  <2> USE <1>1 DEF TypeOK, captureVars, histVars, modVars
  <2>1. Signature(t) \in Signatures \/ trouble[t] = None
    BY DEF HandlerAt
  <2>2. pc' \in [Threads -> Steps]
    BY DEF Steps, CaptureSteps, Troubles
  <2>3. trouble' \in [Threads -> Troubles \cup {None}]
    BY <1>d
  <2>4. phase' \in [Threads -> Phases \cup {"none"}]
    BY DEF Phases
  <2>5. /\ blame' \in [Threads -> Mods \cup {None}]
        /\ capturing' \in BOOLEAN /\ dialogShown' \in BOOLEAN
    OBVIOUS
  <2>6. /\ lastSig' \in Signatures \cup {None}
        /\ lastReport' \in ReportSet \cup {None}
        /\ reports' \subseteq ReportSet /\ refused' \subseteq ReportSet
    BY <2>1, ReportTyped DEF HandlerAt, CaptureSteps
  <2>7. dialog' \in DialogSet \cup {None}
    BY <2>1, ReportTyped DEF HandlerAt, CaptureSteps, DialogSet, Troubles
  <2>8. death' \in DeathSet \cup {None}
    BY <2>1 DEF DeathSet, Troubles, Ends, HandlerAt, CaptureSteps
  <2>9. /\ writes' \in BOOLEAN /\ scopes' \subseteq [mod : Mods, thread : Threads]
        /\ modState' \in [Mods -> ModStates] /\ filter' \in {"ours", "foreign"}
        /\ job' \in [Threads -> [kind : JobKinds, mod : Mods \cup {None}]]
    OBVIOUS
  <2>10. /\ reported' \in [Threads -> SUBSET Phases] /\ overtaken' \in [Threads -> BOOLEAN]
         /\ panicked' \subseteq Mods /\ troubles' \in 0 .. MaxTroubles
    BY <1>c DEF HandlerAt, CaptureSteps, Phases
  <2> HIDE DEF FailRuntime, Strike, Goto, Runs, Troubles, Places
  <2> QED
    BY <2>2, <2>3, <2>4, <2>5, <2>6, <2>7, <2>8, <2>9, <2>10
<1>5. HandlerAt(t)'
  <2>1. Signature(t)' \in Signatures
    BY <1>a DEF Signature, Signatures, Places, Failures
  <2>2. trouble'[t] # None
    BY <1>d
  <2> HIDE DEF FailRuntime, Strike, Goto, Runs, Troubles, Places
  <2> QED
    BY <1>a, <2>1, <2>2 DEF HandlerAt, CaptureSteps, Exceptions, Failures
<1>6. JobAt(t)'
  BY <1>1 DEF JobAt, HandlerAt, TypeOK, CaptureSteps
<1>7. OwnAt(t)'
  BY <1>1 DEF OwnAt, HandlerAt, Report, Captures, Signature, CaptureSteps, TypeOK, captureVars
<1>8. ReportedAt(t)'
  BY <1>1 DEF ReportedAt, HandlerAt, Signature, CaptureSteps, TypeOK, captureVars, histVars
<1>9. SignatureHasReport'
  BY <1>1 DEF SignatureHasReport, OwnAt, Report, Captures, captureVars
<1>10. CrashedWasBlamed'
  BY <1>1 DEF CrashedWasBlamed, Captures, SignatureHasReport, TypeOK, OwnAt, Report, Captures, captureVars, histVars, modVars
<1> QED
  BY <1>2, <1>3, <1>4, <1>5, <1>6, <1>7, <1>8, <1>9, <1>10, StepKeepsInv DEF ThreadAt

LEMMA PanickedStep ==
  ASSUME CrashInv, NEW t \in Threads, MarkPanicked(t)
  PROVE  CrashInv'
<1>1. /\ HandlerAt(t) /\ JobAt(t) /\ OwnAt(t) /\ ReportedAt(t)
      /\ TypeOK /\ GuardHeld /\ SignatureHasReport /\ CrashedWasBlamed
  BY DEF CrashInv, ThreadAt
<1>a. /\ pc'[t] = "guard" /\ phase'[t] = "manual"
      /\ trouble'[t] = [kind |-> "callback-panic", at |-> "game", back |-> "idle",
                       nr |-> trouble[t].nr]
  BY <1>1 DEF TypeOK, MarkPanicked, Step, Goto
<1>d. trouble'[t] \in Troubles /\ trouble'[t] # None
  <2>1. trouble[t] \in Troubles
    BY <1>1 DEF JobAt, TypeOK, MarkPanicked, Step
  <2> QED
    BY <1>a, <2>1, NothingAssumption DEF Troubles, Places, Failures
<1> USE DEF MarkPanicked, Step, Goto, NoJob, JobKinds, ModStates, Troubles, Places, Failures
<1>2. Frame(t)
  BY <1>1 DEF Frame, Captures, TypeOK, captureVars, histVars, CaptureSteps
<1>3. GuardStep(t)
  BY <1>1 DEF GuardStep, TypeOK, captureVars, CaptureSteps
<1>4. TypeOK'
  <2>1. trouble' \in [Threads -> Troubles \cup {None}]
    BY <1>1, <1>d DEF TypeOK
  <2>2. pc' \in [Threads -> Steps] /\ phase' \in [Threads -> Phases \cup {"none"}]
    BY <1>1 DEF TypeOK, Steps, Phases
  <2>3. /\ job' \in [Threads -> [kind : JobKinds, mod : Mods \cup {None}]]
        /\ modState' \in [Mods -> ModStates] /\ panicked' \subseteq Mods
    BY <1>1 DEF TypeOK, JobAt
  <2> HIDE DEF NoJob, JobKinds, ModStates, Troubles, Places, Failures
  <2> QED
    BY <1>1, <2>1, <2>2, <2>3 DEF TypeOK, captureVars
<1>5. HandlerAt(t)'
  <2>1. Signature(t)' \in Signatures
    BY <1>a DEF Signature, Signatures, Places, Failures
  <2>2. trouble'[t] # None
    BY <1>d
  <2> HIDE DEF MarkPanicked, Step, Goto, NoJob, JobKinds, ModStates, Troubles, Places, Failures
  <2> QED
    BY <1>a, <2>1, <2>2 DEF HandlerAt, CaptureSteps, Exceptions, Failures
<1>6. JobAt(t)'
  BY <1>1 DEF JobAt, HandlerAt, TypeOK, CaptureSteps
<1>7. OwnAt(t)'
  BY <1>1 DEF OwnAt, HandlerAt, Report, Captures, Signature, CaptureSteps, TypeOK, captureVars
<1>8. ReportedAt(t)'
  BY <1>1 DEF ReportedAt, HandlerAt, Signature, CaptureSteps, TypeOK, captureVars, histVars
<1>9. SignatureHasReport'
  BY <1>1 DEF SignatureHasReport, OwnAt, Report, Captures, captureVars
<1>10. CrashedWasBlamed'
  BY <1>1 DEF CrashedWasBlamed, Captures, SignatureHasReport, TypeOK, OwnAt, Report, Captures, captureVars, histVars, modVars
<1> QED
  BY <1>2, <1>3, <1>4, <1>5, <1>6, <1>7, <1>8, <1>9, <1>10, StepKeepsInv DEF ThreadAt

LEMMA HandleStep ==
  ASSUME CrashInv, NEW t \in Threads, HandleException(t)
  PROVE  CrashInv'
<1>1. /\ HandlerAt(t) /\ JobAt(t) /\ OwnAt(t) /\ ReportedAt(t)
      /\ TypeOK /\ GuardHeld /\ SignatureHasReport /\ CrashedWasBlamed
  BY DEF CrashInv, ThreadAt
<1>b. /\ trouble[t] # None /\ phase[t] \in Phases
      /\ trouble[t].back \in {"idle", "inside"}
      /\ trouble[t].kind \in Exceptions \cup Failures
  BY <1>1, TroubleTyped DEF HandlerAt, TypeOK, CaptureSteps, HandleException, Step
<1> USE DEF HandleException, Step, Goto
<1>2. Frame(t)
  BY <1>1, <1>b DEF Frame, Captures, TypeOK, captureVars, histVars, CaptureSteps
<1>3. GuardStep(t)
  BY <1>1, <1>b DEF GuardStep, TypeOK, captureVars, CaptureSteps
<1>4. TypeOK'
  <2> USE <1>1, <1>b DEF TypeOK, captureVars, histVars, modVars
  <2>1. Signature(t) \in Signatures \/ trouble[t] = None
    BY DEF HandlerAt
  <2>2. pc' \in [Threads -> Steps]
    BY DEF Steps, CaptureSteps, Troubles
  <2>3. trouble' \in [Threads -> Troubles \cup {None}]
    BY DEF Troubles
  <2>4. phase' \in [Threads -> Phases \cup {"none"}]
    BY DEF Phases
  <2>5. /\ blame' \in [Threads -> Mods \cup {None}]
        /\ capturing' \in BOOLEAN /\ dialogShown' \in BOOLEAN
    OBVIOUS
  <2>6. /\ lastSig' \in Signatures \cup {None}
        /\ lastReport' \in ReportSet \cup {None}
        /\ reports' \subseteq ReportSet /\ refused' \subseteq ReportSet
    BY <2>1, ReportTyped DEF HandlerAt, CaptureSteps
  <2>7. dialog' \in DialogSet \cup {None}
    BY <2>1, ReportTyped DEF HandlerAt, CaptureSteps, DialogSet, Troubles
  <2>8. death' \in DeathSet \cup {None}
    BY <2>1 DEF DeathSet, Troubles, Ends, HandlerAt, CaptureSteps
  <2>9. /\ writes' \in BOOLEAN /\ scopes' \subseteq [mod : Mods, thread : Threads]
        /\ modState' \in [Mods -> ModStates] /\ filter' \in {"ours", "foreign"}
        /\ job' \in [Threads -> [kind : JobKinds, mod : Mods \cup {None}]]
    OBVIOUS
  <2>10. /\ reported' \in [Threads -> SUBSET Phases] /\ overtaken' \in [Threads -> BOOLEAN]
         /\ panicked' \subseteq Mods /\ troubles' \in 0 .. MaxTroubles
    BY CrashReportsAssumption DEF HandlerAt, CaptureSteps, Phases
  <2> HIDE DEF HandleException, Step, Goto
  <2> QED
    BY <2>2, <2>3, <2>4, <2>5, <2>6, <2>7, <2>8, <2>9, <2>10
<1>5. HandlerAt(t)'
  BY <1>1, <1>b DEF HandlerAt, TypeOK, CaptureSteps, Signature, Signatures
<1>6. JobAt(t)'
  BY <1>1, <1>b DEF JobAt, HandlerAt, TypeOK, CaptureSteps
<1>7. OwnAt(t)'
  BY <1>1, <1>b DEF OwnAt, HandlerAt, Report, Captures, Signature, CaptureSteps, TypeOK, captureVars
<1>8. ReportedAt(t)'
  BY <1>1, <1>b DEF ReportedAt, HandlerAt, Signature, CaptureSteps, TypeOK, captureVars, histVars
<1>9. SignatureHasReport'
  BY <1>1, <1>b DEF SignatureHasReport, OwnAt, Report, Captures, captureVars
<1>10. CrashedWasBlamed'
  BY <1>1, <1>b DEF CrashedWasBlamed, Captures, SignatureHasReport, TypeOK, OwnAt, Report, Captures, captureVars, histVars, modVars
<1> QED
  BY <1>2, <1>3, <1>4, <1>5, <1>6, <1>7, <1>8, <1>9, <1>10, StepKeepsInv DEF ThreadAt

LEMMA UnhandledStep ==
  ASSUME CrashInv, NEW t \in Threads, Unhandled(t)
  PROVE  CrashInv'
<1>1. /\ HandlerAt(t) /\ JobAt(t) /\ OwnAt(t) /\ ReportedAt(t)
      /\ TypeOK /\ GuardHeld /\ SignatureHasReport /\ CrashedWasBlamed
  BY DEF CrashInv, ThreadAt
<1> USE DEF Unhandled, Dies, Goto, Ends
<1>2. Frame(t)
  BY <1>1 DEF Frame, Captures, TypeOK, captureVars, histVars, CaptureSteps
<1>3. GuardStep(t)
  BY <1>1 DEF GuardStep, TypeOK, captureVars, CaptureSteps
<1>4. TypeOK'
  <2> USE <1>1 DEF TypeOK, captureVars, histVars, modVars
  <2>1. Signature(t) \in Signatures \/ trouble[t] = None
    BY DEF HandlerAt
  <2>2. pc' \in [Threads -> Steps]
    BY DEF Steps, CaptureSteps, Troubles
  <2>3. trouble' \in [Threads -> Troubles \cup {None}]
    BY DEF Troubles
  <2>4. phase' \in [Threads -> Phases \cup {"none"}]
    BY DEF Phases
  <2>5. /\ blame' \in [Threads -> Mods \cup {None}]
        /\ capturing' \in BOOLEAN /\ dialogShown' \in BOOLEAN
    OBVIOUS
  <2>6. /\ lastSig' \in Signatures \cup {None}
        /\ lastReport' \in ReportSet \cup {None}
        /\ reports' \subseteq ReportSet /\ refused' \subseteq ReportSet
    BY <2>1, ReportTyped DEF HandlerAt, CaptureSteps
  <2>7. dialog' \in DialogSet \cup {None}
    BY <2>1, ReportTyped DEF HandlerAt, CaptureSteps, DialogSet, Troubles
  <2>8. death' \in DeathSet \cup {None}
    BY <2>1 DEF DeathSet, Troubles, Ends, HandlerAt, CaptureSteps
  <2>9. /\ writes' \in BOOLEAN /\ scopes' \subseteq [mod : Mods, thread : Threads]
        /\ modState' \in [Mods -> ModStates] /\ filter' \in {"ours", "foreign"}
        /\ job' \in [Threads -> [kind : JobKinds, mod : Mods \cup {None}]]
    OBVIOUS
  <2>10. /\ reported' \in [Threads -> SUBSET Phases] /\ overtaken' \in [Threads -> BOOLEAN]
         /\ panicked' \subseteq Mods /\ troubles' \in 0 .. MaxTroubles
    BY CrashReportsAssumption DEF HandlerAt, CaptureSteps, Phases
  <2> HIDE DEF Unhandled, Dies, Goto, Ends
  <2> QED
    BY <2>2, <2>3, <2>4, <2>5, <2>6, <2>7, <2>8, <2>9, <2>10
<1>5. HandlerAt(t)'
  BY <1>1 DEF HandlerAt, TypeOK, CaptureSteps, Signature, Signatures
<1>6. JobAt(t)'
  BY <1>1 DEF JobAt, HandlerAt, TypeOK, CaptureSteps
<1>7. OwnAt(t)'
  BY <1>1 DEF OwnAt, HandlerAt, Report, Captures, Signature, CaptureSteps, TypeOK, captureVars
<1>8. ReportedAt(t)'
  BY <1>1 DEF ReportedAt, HandlerAt, Signature, CaptureSteps, TypeOK, captureVars, histVars
<1>9. SignatureHasReport'
  BY <1>1 DEF SignatureHasReport, OwnAt, Report, Captures, captureVars
<1>10. CrashedWasBlamed'
  BY <1>1 DEF CrashedWasBlamed, Captures, SignatureHasReport, TypeOK, OwnAt, Report, Captures, captureVars, histVars, modVars
<1> QED
  BY <1>2, <1>3, <1>4, <1>5, <1>6, <1>7, <1>8, <1>9, <1>10, StepKeepsInv DEF ThreadAt

LEMMA FaultStep ==
  ASSUME CrashInv, NEW t \in Threads, FaultInCapture(t)
  PROVE  CrashInv'
<1>1. /\ HandlerAt(t) /\ JobAt(t) /\ OwnAt(t) /\ ReportedAt(t)
      /\ TypeOK /\ GuardHeld /\ SignatureHasReport /\ CrashedWasBlamed
  BY DEF CrashInv, ThreadAt
<1> USE DEF FaultInCapture, Dies, Goto, Ends
<1>2. Frame(t)
  BY <1>1 DEF Frame, Captures, TypeOK, captureVars, histVars, CaptureSteps
<1>3. GuardStep(t)
  BY <1>1 DEF GuardStep, TypeOK, captureVars, CaptureSteps
<1>4. TypeOK'
  <2>1. trouble[t] \in Troubles /\ Signature(t) \in Signatures
    BY <1>1 DEF HandlerAt, TypeOK, CaptureSteps
  <2>2. death' \in DeathSet
    BY <2>1 DEF DeathSet, Troubles
  <2>3. pc' \in [Threads -> Steps]
    BY <1>1 DEF TypeOK, Steps
  <2> QED
    BY <1>1, <2>2, <2>3 DEF TypeOK, captureVars, histVars, modVars
<1>5. HandlerAt(t)'
  BY <1>1 DEF HandlerAt, TypeOK, CaptureSteps, Signature, Signatures
<1>6. JobAt(t)'
  BY <1>1 DEF JobAt, HandlerAt, TypeOK, CaptureSteps
<1>7. OwnAt(t)'
  BY <1>1 DEF OwnAt, HandlerAt, Report, Captures, Signature, CaptureSteps, TypeOK, captureVars
<1>8. ReportedAt(t)'
  BY <1>1 DEF ReportedAt, HandlerAt, Signature, CaptureSteps, TypeOK, captureVars, histVars
<1>9. SignatureHasReport'
  BY <1>1 DEF SignatureHasReport, OwnAt, Report, Captures, captureVars
<1>10. CrashedWasBlamed'
  BY <1>1 DEF CrashedWasBlamed, Captures, SignatureHasReport, TypeOK, OwnAt, Report, Captures, captureVars, histVars, modVars
<1> QED
  BY <1>2, <1>3, <1>4, <1>5, <1>6, <1>7, <1>8, <1>9, <1>10, StepKeepsInv DEF ThreadAt

LEMMA TakeStep ==
  ASSUME CrashInv, NEW t \in Threads, TakeGuard(t)
  PROVE  CrashInv'
<1>1. /\ HandlerAt(t) /\ JobAt(t) /\ OwnAt(t) /\ ReportedAt(t)
      /\ TypeOK /\ GuardHeld /\ SignatureHasReport /\ CrashedWasBlamed
  BY DEF CrashInv, ThreadAt
<1> USE DEF TakeGuard, Step, Goto
<1>2. Frame(t)
  BY <1>1 DEF Frame, Captures, TypeOK, captureVars, histVars, CaptureSteps
<1>3. GuardStep(t)
  BY <1>1 DEF GuardStep, TypeOK, captureVars, CaptureSteps
<1>4. TypeOK'
  BY <1>1 DEF TypeOK, HandlerAt, JobAt, captureVars, histVars, modVars, Steps, CaptureSteps, Phases
<1>5. HandlerAt(t)'
  BY <1>1 DEF HandlerAt, TypeOK, CaptureSteps, Signature, Signatures
<1>6. JobAt(t)'
  BY <1>1 DEF JobAt, HandlerAt, TypeOK, CaptureSteps
<1>7. OwnAt(t)'
  BY <1>1 DEF OwnAt, HandlerAt, Report, Captures, Signature, CaptureSteps, TypeOK, captureVars
<1>8. ReportedAt(t)'
  BY <1>1 DEF ReportedAt, HandlerAt, Signature, CaptureSteps, TypeOK, captureVars, histVars
<1>9. SignatureHasReport'
  BY <1>1 DEF SignatureHasReport, OwnAt, Report, Captures, captureVars
<1>10. CrashedWasBlamed'
  BY <1>1 DEF CrashedWasBlamed, Captures, SignatureHasReport, TypeOK, OwnAt, Report, Captures, captureVars, histVars, modVars
<1> QED
  BY <1>2, <1>3, <1>4, <1>5, <1>6, <1>7, <1>8, <1>9, <1>10, StepKeepsInv DEF ThreadAt

LEMMA TakenStep ==
  ASSUME CrashInv, NEW t \in Threads, GuardTaken(t)
  PROVE  CrashInv'
<1>1. /\ HandlerAt(t) /\ JobAt(t) /\ OwnAt(t) /\ ReportedAt(t)
      /\ TypeOK /\ GuardHeld /\ SignatureHasReport /\ CrashedWasBlamed
  BY DEF CrashInv, ThreadAt
<1>b. /\ trouble[t] # None /\ phase[t] \in Phases
      /\ trouble[t].back \in {"idle", "inside"}
      /\ trouble[t].kind \in Exceptions \cup Failures
  BY <1>1, TroubleTyped DEF HandlerAt, TypeOK, CaptureSteps, GuardTaken
<1> USE DEF GuardTaken, Return, Dies, Goto, Ends
<1>2. Frame(t)
  BY <1>1, <1>b DEF Frame, Captures, TypeOK, captureVars, histVars, CaptureSteps
<1>3. GuardStep(t)
  BY <1>1, <1>b DEF GuardStep, TypeOK, captureVars, CaptureSteps
<1>4. TypeOK'
  <2> USE <1>1, <1>b DEF TypeOK, captureVars, histVars, modVars
  <2>1. Signature(t) \in Signatures \/ trouble[t] = None
    BY DEF HandlerAt
  <2>2. pc' \in [Threads -> Steps]
    BY DEF Steps, CaptureSteps, Troubles
  <2>3. trouble' \in [Threads -> Troubles \cup {None}]
    BY DEF Troubles
  <2>4. phase' \in [Threads -> Phases \cup {"none"}]
    BY DEF Phases
  <2>5. /\ blame' \in [Threads -> Mods \cup {None}]
        /\ capturing' \in BOOLEAN /\ dialogShown' \in BOOLEAN
    OBVIOUS
  <2>6. /\ lastSig' \in Signatures \cup {None}
        /\ lastReport' \in ReportSet \cup {None}
        /\ reports' \subseteq ReportSet /\ refused' \subseteq ReportSet
    BY <2>1, ReportTyped DEF HandlerAt, CaptureSteps
  <2>7. dialog' \in DialogSet \cup {None}
    BY <2>1, ReportTyped DEF HandlerAt, CaptureSteps, DialogSet, Troubles
  <2>8. death' \in DeathSet \cup {None}
    BY <2>1 DEF DeathSet, Troubles, Ends, HandlerAt, CaptureSteps
  <2>9. /\ writes' \in BOOLEAN /\ scopes' \subseteq [mod : Mods, thread : Threads]
        /\ modState' \in [Mods -> ModStates] /\ filter' \in {"ours", "foreign"}
        /\ job' \in [Threads -> [kind : JobKinds, mod : Mods \cup {None}]]
    OBVIOUS
  <2>10. /\ reported' \in [Threads -> SUBSET Phases] /\ overtaken' \in [Threads -> BOOLEAN]
         /\ panicked' \subseteq Mods /\ troubles' \in 0 .. MaxTroubles
    BY CrashReportsAssumption DEF HandlerAt, CaptureSteps, Phases
  <2> HIDE DEF GuardTaken, Return, Dies, Goto, Ends
  <2> QED
    BY <2>2, <2>3, <2>4, <2>5, <2>6, <2>7, <2>8, <2>9, <2>10
<1>5. HandlerAt(t)'
  BY <1>1, <1>b DEF HandlerAt, TypeOK, CaptureSteps, Signature, Signatures
<1>6. JobAt(t)'
  BY <1>1, <1>b DEF JobAt, HandlerAt, TypeOK, CaptureSteps
<1>7. OwnAt(t)'
  BY <1>1, <1>b DEF OwnAt, HandlerAt, Report, Captures, Signature, CaptureSteps, TypeOK, captureVars
<1>8. ReportedAt(t)'
  BY <1>1, <1>b DEF ReportedAt, HandlerAt, Signature, CaptureSteps, TypeOK, captureVars, histVars
<1>9. SignatureHasReport'
  BY <1>1, <1>b DEF SignatureHasReport, OwnAt, Report, Captures, captureVars
<1>10. CrashedWasBlamed'
  BY <1>1, <1>b DEF CrashedWasBlamed, Captures, SignatureHasReport, TypeOK, OwnAt, Report, Captures, captureVars, histVars, modVars
<1> QED
  BY <1>2, <1>3, <1>4, <1>5, <1>6, <1>7, <1>8, <1>9, <1>10, StepKeepsInv DEF ThreadAt

LEMMA UnwrittenStep ==
  ASSUME CrashInv, NEW t \in Threads, CaptureUnwritten(t)
  PROVE  CrashInv'
<1>1. /\ HandlerAt(t) /\ JobAt(t) /\ OwnAt(t) /\ ReportedAt(t)
      /\ TypeOK /\ GuardHeld /\ SignatureHasReport /\ CrashedWasBlamed
  BY DEF CrashInv, ThreadAt
<1> USE DEF CaptureUnwritten, Step, Goto
<1>2. Frame(t)
  BY <1>1 DEF Frame, Captures, TypeOK, captureVars, histVars, CaptureSteps
<1>3. GuardStep(t)
  BY <1>1 DEF GuardStep, TypeOK, captureVars, CaptureSteps
<1>4. TypeOK'
  <2> USE <1>1 DEF TypeOK, captureVars, histVars, modVars
  <2>1. Signature(t) \in Signatures \/ trouble[t] = None
    BY DEF HandlerAt
  <2>2. pc' \in [Threads -> Steps]
    BY DEF Steps, CaptureSteps, Troubles
  <2>3. trouble' \in [Threads -> Troubles \cup {None}]
    BY DEF Troubles
  <2>4. phase' \in [Threads -> Phases \cup {"none"}]
    BY DEF Phases
  <2>5. /\ blame' \in [Threads -> Mods \cup {None}]
        /\ capturing' \in BOOLEAN /\ dialogShown' \in BOOLEAN
    OBVIOUS
  <2>6. /\ lastSig' \in Signatures \cup {None}
        /\ lastReport' \in ReportSet \cup {None}
        /\ reports' \subseteq ReportSet /\ refused' \subseteq ReportSet
    BY <2>1, ReportTyped DEF HandlerAt, CaptureSteps
  <2>7. dialog' \in DialogSet \cup {None}
    BY <2>1, ReportTyped DEF HandlerAt, CaptureSteps, DialogSet, Troubles
  <2>8. death' \in DeathSet \cup {None}
    BY <2>1 DEF DeathSet, Troubles, Ends, HandlerAt, CaptureSteps
  <2>9. /\ writes' \in BOOLEAN /\ scopes' \subseteq [mod : Mods, thread : Threads]
        /\ modState' \in [Mods -> ModStates] /\ filter' \in {"ours", "foreign"}
        /\ job' \in [Threads -> [kind : JobKinds, mod : Mods \cup {None}]]
    OBVIOUS
  <2>10. /\ reported' \in [Threads -> SUBSET Phases] /\ overtaken' \in [Threads -> BOOLEAN]
         /\ panicked' \subseteq Mods /\ troubles' \in 0 .. MaxTroubles
    BY CrashReportsAssumption DEF HandlerAt, CaptureSteps, Phases
  <2> HIDE DEF CaptureUnwritten, Step, Goto
  <2> QED
    BY <2>2, <2>3, <2>4, <2>5, <2>6, <2>7, <2>8, <2>9, <2>10
<1>5. HandlerAt(t)'
  BY <1>1 DEF HandlerAt, TypeOK, CaptureSteps, Signature, Signatures
<1>6. JobAt(t)'
  BY <1>1 DEF JobAt, HandlerAt, TypeOK, CaptureSteps
<1>7. OwnAt(t)'
  BY <1>1 DEF OwnAt, HandlerAt, Report, Captures, Signature, CaptureSteps, TypeOK, captureVars
<1>8. ReportedAt(t)'
  BY <1>1 DEF ReportedAt, HandlerAt, Signature, CaptureSteps, TypeOK, captureVars, histVars
<1>9. SignatureHasReport'
  BY <1>1 DEF SignatureHasReport, OwnAt, Report, Captures, captureVars
<1>10. CrashedWasBlamed'
  BY <1>1 DEF CrashedWasBlamed, Captures, SignatureHasReport, TypeOK, OwnAt, Report, Captures, captureVars, histVars, modVars
<1> QED
  BY <1>2, <1>3, <1>4, <1>5, <1>6, <1>7, <1>8, <1>9, <1>10, StepKeepsInv DEF ThreadAt

LEMMA SkipStep ==
  ASSUME CrashInv, NEW t \in Threads, SkipDuplicate(t)
  PROVE  CrashInv'
<1>1. /\ HandlerAt(t) /\ JobAt(t) /\ OwnAt(t) /\ ReportedAt(t)
      /\ TypeOK /\ GuardHeld /\ SignatureHasReport /\ CrashedWasBlamed
  BY DEF CrashInv, ThreadAt
<1> USE DEF SkipDuplicate, Step, Goto, AlreadyReported
<1>2. Frame(t)
  BY <1>1 DEF Frame, Captures, TypeOK, captureVars, histVars, CaptureSteps
<1>3. GuardStep(t)
  BY <1>1 DEF GuardStep, TypeOK, captureVars, CaptureSteps
<1>4. TypeOK'
  BY <1>1 DEF TypeOK, HandlerAt, JobAt, captureVars, histVars, modVars, Steps, CaptureSteps, Phases
<1>5. HandlerAt(t)'
  BY <1>1 DEF HandlerAt, TypeOK, CaptureSteps, Signature, Signatures
<1>6. JobAt(t)'
  BY <1>1 DEF JobAt, HandlerAt, TypeOK, CaptureSteps
<1>7. OwnAt(t)'
  <2>1. lastSig # None
    BY <1>1, NothingAssumption DEF HandlerAt
  <2>2. lastReport \in Captures /\ lastReport.sig = Signature(t)
    BY <1>1, <2>1 DEF SignatureHasReport
  <2> QED
    BY <1>1, <2>2 DEF OwnAt, HandlerAt, Report, Captures, Signature, CaptureSteps, TypeOK, captureVars
<1>8. ReportedAt(t)'
  BY <1>1 DEF ReportedAt, HandlerAt, Signature, CaptureSteps, TypeOK, captureVars, histVars
<1>9. SignatureHasReport'
  BY <1>1 DEF SignatureHasReport, OwnAt, Report, Captures, captureVars
<1>10. CrashedWasBlamed'
  BY <1>1 DEF CrashedWasBlamed, Captures, SignatureHasReport, TypeOK, OwnAt, Report, Captures, captureVars, histVars, modVars
<1> QED
  BY <1>2, <1>3, <1>4, <1>5, <1>6, <1>7, <1>8, <1>9, <1>10, StepKeepsInv DEF ThreadAt

LEMMA BeginStep ==
  ASSUME CrashInv, NEW t \in Threads, BeginReport(t)
  PROVE  CrashInv'
<1>1. /\ HandlerAt(t) /\ JobAt(t) /\ OwnAt(t) /\ ReportedAt(t)
      /\ TypeOK /\ GuardHeld /\ SignatureHasReport /\ CrashedWasBlamed
  BY DEF CrashInv, ThreadAt
<1> USE DEF BeginReport, Step, Goto, AlreadyReported
<1>2. Frame(t)
  BY <1>1 DEF Frame, Captures, TypeOK, captureVars, histVars, CaptureSteps
<1>3. GuardStep(t)
  BY <1>1 DEF GuardStep, TypeOK, captureVars, CaptureSteps
<1>4. TypeOK'
  BY <1>1 DEF TypeOK, HandlerAt, JobAt, captureVars, histVars, modVars, Steps, CaptureSteps, Phases
<1>5. HandlerAt(t)'
  BY <1>1 DEF HandlerAt, TypeOK, CaptureSteps, Signature, Signatures
<1>6. JobAt(t)'
  BY <1>1 DEF JobAt, HandlerAt, TypeOK, CaptureSteps
<1>7. OwnAt(t)'
  BY <1>1 DEF OwnAt, HandlerAt, Report, Captures, Signature, CaptureSteps, TypeOK, captureVars
<1>8. ReportedAt(t)'
  BY <1>1 DEF ReportedAt, HandlerAt, Signature, CaptureSteps, TypeOK, captureVars, histVars
<1>9. SignatureHasReport'
  BY <1>1 DEF SignatureHasReport, OwnAt, Report, Captures, captureVars
<1>10. CrashedWasBlamed'
  BY <1>1 DEF CrashedWasBlamed, Captures, SignatureHasReport, TypeOK, OwnAt, Report, Captures, captureVars, histVars, modVars
<1> QED
  BY <1>2, <1>3, <1>4, <1>5, <1>6, <1>7, <1>8, <1>9, <1>10, StepKeepsInv DEF ThreadAt

LEMMA AttributeStep ==
  ASSUME CrashInv, NEW t \in Threads, Attribute(t)
  PROVE  CrashInv'
<1>1. /\ HandlerAt(t) /\ JobAt(t) /\ OwnAt(t) /\ ReportedAt(t)
      /\ TypeOK /\ GuardHeld /\ SignatureHasReport /\ CrashedWasBlamed
  BY DEF CrashInv, ThreadAt
<1> USE DEF Attribute, Step, Goto
<1>2. Frame(t)
  BY <1>1 DEF Frame, Captures, TypeOK, captureVars, histVars, CaptureSteps
<1>3. GuardStep(t)
  BY <1>1 DEF GuardStep, TypeOK, captureVars, CaptureSteps
<1>4. TypeOK'
  <2> USE <1>1 DEF TypeOK, captureVars, histVars, modVars
  <2>1. Signature(t) \in Signatures \/ trouble[t] = None
    BY DEF HandlerAt
  <2>2. pc' \in [Threads -> Steps]
    BY DEF Steps, CaptureSteps, Troubles
  <2>3. trouble' \in [Threads -> Troubles \cup {None}]
    BY DEF Troubles
  <2>4. phase' \in [Threads -> Phases \cup {"none"}]
    BY DEF Phases
  <2>5. /\ blame' \in [Threads -> Mods \cup {None}]
        /\ capturing' \in BOOLEAN /\ dialogShown' \in BOOLEAN
    <3>1. \A busy \in BOOLEAN : ScopeFor(t, busy) \in Mods \cup {None}
      BY ScopeTyped
    <3>2. \A where, busy : OwnerOf(where, busy) \in Mods \cup {None}
      BY DEF OwnerOf
    <3> QED
      BY <3>1, <3>2
  <2>6. /\ lastSig' \in Signatures \cup {None}
        /\ lastReport' \in ReportSet \cup {None}
        /\ reports' \subseteq ReportSet /\ refused' \subseteq ReportSet
    BY <2>1, ReportTyped DEF HandlerAt, CaptureSteps
  <2>7. dialog' \in DialogSet \cup {None}
    BY <2>1, ReportTyped DEF HandlerAt, CaptureSteps, DialogSet, Troubles
  <2>8. death' \in DeathSet \cup {None}
    BY <2>1 DEF DeathSet, Troubles, Ends, HandlerAt, CaptureSteps
  <2>9. /\ writes' \in BOOLEAN /\ scopes' \subseteq [mod : Mods, thread : Threads]
        /\ modState' \in [Mods -> ModStates] /\ filter' \in {"ours", "foreign"}
        /\ job' \in [Threads -> [kind : JobKinds, mod : Mods \cup {None}]]
    OBVIOUS
  <2>10. /\ reported' \in [Threads -> SUBSET Phases] /\ overtaken' \in [Threads -> BOOLEAN]
         /\ panicked' \subseteq Mods /\ troubles' \in 0 .. MaxTroubles
    BY CrashReportsAssumption DEF HandlerAt, CaptureSteps, Phases
  <2> HIDE DEF Attribute, Step, Goto
  <2> QED
    BY <2>2, <2>3, <2>4, <2>5, <2>6, <2>7, <2>8, <2>9, <2>10
<1>5. HandlerAt(t)'
  BY <1>1 DEF HandlerAt, TypeOK, CaptureSteps, Signature, Signatures
<1>6. JobAt(t)'
  BY <1>1 DEF JobAt, HandlerAt, TypeOK, CaptureSteps
<1>7. OwnAt(t)'
  BY <1>1 DEF OwnAt, HandlerAt, Report, Captures, Signature, CaptureSteps, TypeOK, captureVars
<1>8. ReportedAt(t)'
  BY <1>1 DEF ReportedAt, HandlerAt, Signature, CaptureSteps, TypeOK, captureVars, histVars
<1>9. SignatureHasReport'
  BY <1>1 DEF SignatureHasReport, OwnAt, Report, Captures, captureVars
<1>10. CrashedWasBlamed'
  BY <1>1 DEF CrashedWasBlamed, Captures, SignatureHasReport, TypeOK, OwnAt, Report, Captures, captureVars, histVars, modVars
<1> QED
  BY <1>2, <1>3, <1>4, <1>5, <1>6, <1>7, <1>8, <1>9, <1>10, StepKeepsInv DEF ThreadAt

LEMMA WriteStep ==
  ASSUME CrashInv, NEW t \in Threads, WriteReport(t)
  PROVE  CrashInv'
<1>1. /\ HandlerAt(t) /\ JobAt(t) /\ OwnAt(t) /\ ReportedAt(t)
      /\ TypeOK /\ GuardHeld /\ SignatureHasReport /\ CrashedWasBlamed
  BY DEF CrashInv, ThreadAt
<1> USE DEF WriteReport, Step, Goto
<1>2. Frame(t)
  BY <1>1 DEF Frame, Captures, TypeOK, captureVars, histVars, CaptureSteps
<1>3. GuardStep(t)
  BY <1>1 DEF GuardStep, TypeOK, captureVars, CaptureSteps
<1>4. TypeOK'
  <2> USE <1>1 DEF TypeOK, captureVars, histVars, modVars
  <2>1. Signature(t) \in Signatures \/ trouble[t] = None
    BY DEF HandlerAt
  <2>2. pc' \in [Threads -> Steps]
    BY DEF Steps, CaptureSteps, Troubles
  <2>3. trouble' \in [Threads -> Troubles \cup {None}]
    BY DEF Troubles
  <2>4. phase' \in [Threads -> Phases \cup {"none"}]
    BY DEF Phases
  <2>5. /\ blame' \in [Threads -> Mods \cup {None}]
        /\ capturing' \in BOOLEAN /\ dialogShown' \in BOOLEAN
    OBVIOUS
  <2>6. /\ lastSig' \in Signatures \cup {None}
        /\ lastReport' \in ReportSet \cup {None}
        /\ reports' \subseteq ReportSet /\ refused' \subseteq ReportSet
    BY <2>1, ReportTyped DEF HandlerAt, CaptureSteps
  <2>7. dialog' \in DialogSet \cup {None}
    BY <2>1, ReportTyped DEF HandlerAt, CaptureSteps, DialogSet, Troubles
  <2>8. death' \in DeathSet \cup {None}
    BY <2>1 DEF DeathSet, Troubles, Ends, HandlerAt, CaptureSteps
  <2>9. /\ writes' \in BOOLEAN /\ scopes' \subseteq [mod : Mods, thread : Threads]
        /\ modState' \in [Mods -> ModStates] /\ filter' \in {"ours", "foreign"}
        /\ job' \in [Threads -> [kind : JobKinds, mod : Mods \cup {None}]]
    OBVIOUS
  <2>10. /\ reported' \in [Threads -> SUBSET Phases] /\ overtaken' \in [Threads -> BOOLEAN]
         /\ panicked' \subseteq Mods /\ troubles' \in 0 .. MaxTroubles
    BY CrashReportsAssumption DEF HandlerAt, CaptureSteps, Phases
  <2> HIDE DEF WriteReport, Step, Goto
  <2> QED
    BY <2>2, <2>3, <2>4, <2>5, <2>6, <2>7, <2>8, <2>9, <2>10
<1>5. HandlerAt(t)'
  <2>1. phase[t] \in Phases /\ trouble[t] # None
    BY <1>1 DEF HandlerAt, TypeOK, CaptureSteps
  <2>2. UNCHANGED <<trouble, phase>>
    OBVIOUS
  <2>3. pc'[t] \in {"mark", "remember"} /\ (pc'[t] = "remember" => phase[t] # "manual")
    BY <1>1 DEF TypeOK
  <2> HIDE DEF WriteReport, Step, Goto
  <2> QED
    BY <1>1, <2>1, <2>2, <2>3 DEF HandlerAt, Signature, CaptureSteps, Phases
<1>6. JobAt(t)'
  BY <1>1 DEF JobAt, HandlerAt, TypeOK, CaptureSteps
<1>7. OwnAt(t)'
  BY <1>1 DEF OwnAt, HandlerAt, Report, Captures, Signature, CaptureSteps, TypeOK, captureVars
<1>8. ReportedAt(t)'
  BY <1>1 DEF ReportedAt, HandlerAt, Signature, CaptureSteps, TypeOK, captureVars, histVars
<1>9. SignatureHasReport'
  BY <1>1 DEF SignatureHasReport, OwnAt, Report, Captures, captureVars
<1>10. CrashedWasBlamed'
  BY <1>1 DEF CrashedWasBlamed, Captures, SignatureHasReport, TypeOK, OwnAt, Report, Captures, captureVars, histVars, modVars
<1> QED
  BY <1>2, <1>3, <1>4, <1>5, <1>6, <1>7, <1>8, <1>9, <1>10, StepKeepsInv DEF ThreadAt

LEMMA RememberStep ==
  ASSUME CrashInv, NEW t \in Threads, Remember(t)
  PROVE  CrashInv'
<1>1. /\ HandlerAt(t) /\ JobAt(t) /\ OwnAt(t) /\ ReportedAt(t)
      /\ TypeOK /\ GuardHeld /\ SignatureHasReport /\ CrashedWasBlamed
  BY DEF CrashInv, ThreadAt
<1> USE DEF Remember, Step, Goto
<1>2. Frame(t)
  BY <1>1 DEF Frame, Captures, TypeOK, captureVars, histVars, CaptureSteps
<1>3. GuardStep(t)
  BY <1>1 DEF GuardStep, TypeOK, captureVars, CaptureSteps
<1>4. TypeOK'
  <2> USE <1>1 DEF TypeOK, captureVars, histVars, modVars
  <2>1. Signature(t) \in Signatures \/ trouble[t] = None
    BY DEF HandlerAt
  <2>2. pc' \in [Threads -> Steps]
    BY DEF Steps, CaptureSteps, Troubles
  <2>3. trouble' \in [Threads -> Troubles \cup {None}]
    BY DEF Troubles
  <2>4. phase' \in [Threads -> Phases \cup {"none"}]
    BY DEF Phases
  <2>5. /\ blame' \in [Threads -> Mods \cup {None}]
        /\ capturing' \in BOOLEAN /\ dialogShown' \in BOOLEAN
    OBVIOUS
  <2>6. /\ lastSig' \in Signatures \cup {None}
        /\ lastReport' \in ReportSet \cup {None}
        /\ reports' \subseteq ReportSet /\ refused' \subseteq ReportSet
    BY <2>1, ReportTyped DEF HandlerAt, CaptureSteps
  <2>7. dialog' \in DialogSet \cup {None}
    BY <2>1, ReportTyped DEF HandlerAt, CaptureSteps, DialogSet, Troubles
  <2>8. death' \in DeathSet \cup {None}
    BY <2>1 DEF DeathSet, Troubles, Ends, HandlerAt, CaptureSteps
  <2>9. /\ writes' \in BOOLEAN /\ scopes' \subseteq [mod : Mods, thread : Threads]
        /\ modState' \in [Mods -> ModStates] /\ filter' \in {"ours", "foreign"}
        /\ job' \in [Threads -> [kind : JobKinds, mod : Mods \cup {None}]]
    OBVIOUS
  <2>10. /\ reported' \in [Threads -> SUBSET Phases] /\ overtaken' \in [Threads -> BOOLEAN]
         /\ panicked' \subseteq Mods /\ troubles' \in 0 .. MaxTroubles
    BY CrashReportsAssumption DEF HandlerAt, CaptureSteps, Phases
  <2> HIDE DEF Remember, Step, Goto
  <2> QED
    BY <2>2, <2>3, <2>4, <2>5, <2>6, <2>7, <2>8, <2>9, <2>10
<1>5. HandlerAt(t)'
  BY <1>1 DEF HandlerAt, TypeOK, CaptureSteps, Signature, Signatures
<1>6. JobAt(t)'
  BY <1>1 DEF JobAt, HandlerAt, TypeOK, CaptureSteps
<1>7. OwnAt(t)'
  BY <1>1 DEF OwnAt, HandlerAt, Report, Captures, Signature, CaptureSteps, TypeOK, captureVars
<1>8. ReportedAt(t)'
  BY <1>1 DEF ReportedAt, HandlerAt, Signature, CaptureSteps, TypeOK, captureVars, histVars
<1>9. SignatureHasReport'
  BY <1>1 DEF SignatureHasReport, OwnAt, Report, Captures, captureVars
<1>10. CrashedWasBlamed'
  BY <1>1 DEF CrashedWasBlamed, Captures, SignatureHasReport, TypeOK, OwnAt, Report, Captures, captureVars, histVars, modVars
<1> QED
  BY <1>2, <1>3, <1>4, <1>5, <1>6, <1>7, <1>8, <1>9, <1>10, StepKeepsInv DEF ThreadAt

LEMMA MarkStep ==
  ASSUME CrashInv, NEW t \in Threads, MarkBlamed(t)
  PROVE  CrashInv'
<1>1. /\ HandlerAt(t) /\ JobAt(t) /\ OwnAt(t) /\ ReportedAt(t)
      /\ TypeOK /\ GuardHeld /\ SignatureHasReport /\ CrashedWasBlamed
  BY DEF CrashInv, ThreadAt
<1> USE DEF MarkBlamed, Step, Goto, ModStates
<1>2. Frame(t)
  BY <1>1 DEF Frame, Captures, TypeOK, captureVars, histVars, CaptureSteps
<1>3. GuardStep(t)
  BY <1>1 DEF GuardStep, TypeOK, captureVars, CaptureSteps
<1>4. TypeOK'
  BY <1>1 DEF TypeOK, HandlerAt, JobAt, captureVars, histVars, modVars, Steps, CaptureSteps, Phases
<1>5. HandlerAt(t)'
  BY <1>1 DEF HandlerAt, TypeOK, CaptureSteps, Signature, Signatures
<1>6. JobAt(t)'
  BY <1>1 DEF JobAt, HandlerAt, TypeOK, CaptureSteps
<1>7. OwnAt(t)'
  BY <1>1 DEF OwnAt, HandlerAt, Report, Captures, Signature, CaptureSteps, TypeOK, captureVars
<1>8. ReportedAt(t)'
  BY <1>1 DEF ReportedAt, HandlerAt, Signature, CaptureSteps, TypeOK, captureVars, histVars
<1>9. SignatureHasReport'
  BY <1>1 DEF SignatureHasReport, OwnAt, Report, Captures, captureVars
<1>10. CrashedWasBlamed'
  BY <1>1 DEF CrashedWasBlamed, Captures, SignatureHasReport, TypeOK, OwnAt, Report, Captures, captureVars, histVars, modVars
<1> QED
  BY <1>2, <1>3, <1>4, <1>5, <1>6, <1>7, <1>8, <1>9, <1>10, StepKeepsInv DEF ThreadAt

LEMMA ShowStep ==
  ASSUME CrashInv, NEW t \in Threads, ShowDialog(t)
  PROVE  CrashInv'
<1>1. /\ HandlerAt(t) /\ JobAt(t) /\ OwnAt(t) /\ ReportedAt(t)
      /\ TypeOK /\ GuardHeld /\ SignatureHasReport /\ CrashedWasBlamed
  BY DEF CrashInv, ThreadAt
<1> USE DEF ShowDialog, Goto, ShowsDialog
<1>2. Frame(t)
  BY <1>1 DEF Frame, Captures, TypeOK, captureVars, histVars, CaptureSteps
<1>3. GuardStep(t)
  BY <1>1 DEF GuardStep, TypeOK, captureVars, CaptureSteps
<1>4. TypeOK'
  <2> USE <1>1 DEF TypeOK, captureVars, histVars, modVars
  <2>1. Signature(t) \in Signatures \/ trouble[t] = None
    BY DEF HandlerAt
  <2>2. pc' \in [Threads -> Steps]
    BY DEF Steps, CaptureSteps, Troubles
  <2>3. trouble' \in [Threads -> Troubles \cup {None}]
    BY DEF Troubles
  <2>4. phase' \in [Threads -> Phases \cup {"none"}]
    BY DEF Phases
  <2>5. /\ blame' \in [Threads -> Mods \cup {None}]
        /\ capturing' \in BOOLEAN /\ dialogShown' \in BOOLEAN
    OBVIOUS
  <2>6. /\ lastSig' \in Signatures \cup {None}
        /\ lastReport' \in ReportSet \cup {None}
        /\ reports' \subseteq ReportSet /\ refused' \subseteq ReportSet
    BY <2>1, ReportTyped DEF HandlerAt, CaptureSteps
  <2>7. dialog' \in DialogSet \cup {None}
    BY <2>1, ReportTyped DEF HandlerAt, CaptureSteps, DialogSet, Troubles
  <2>8. death' \in DeathSet \cup {None}
    BY <2>1 DEF DeathSet, Troubles, Ends, HandlerAt, CaptureSteps
  <2>9. /\ writes' \in BOOLEAN /\ scopes' \subseteq [mod : Mods, thread : Threads]
        /\ modState' \in [Mods -> ModStates] /\ filter' \in {"ours", "foreign"}
        /\ job' \in [Threads -> [kind : JobKinds, mod : Mods \cup {None}]]
    OBVIOUS
  <2>10. /\ reported' \in [Threads -> SUBSET Phases] /\ overtaken' \in [Threads -> BOOLEAN]
         /\ panicked' \subseteq Mods /\ troubles' \in 0 .. MaxTroubles
    BY CrashReportsAssumption DEF HandlerAt, CaptureSteps, Phases
  <2> HIDE DEF ShowDialog, Goto, ShowsDialog
  <2> QED
    BY <2>2, <2>3, <2>4, <2>5, <2>6, <2>7, <2>8, <2>9, <2>10
<1>5. HandlerAt(t)'
  BY <1>1 DEF HandlerAt, TypeOK, CaptureSteps, Signature, Signatures
<1>6. JobAt(t)'
  BY <1>1 DEF JobAt, HandlerAt, TypeOK, CaptureSteps
<1>7. OwnAt(t)'
  BY <1>1 DEF OwnAt, HandlerAt, Report, Captures, Signature, CaptureSteps, TypeOK, captureVars
<1>8. ReportedAt(t)'
  <2>1. pc'[t] \in {"shown", "leave"}
    BY <1>1 DEF TypeOK
  <2>2. UNCHANGED <<writes, trouble, phase, lastSig, reported, overtaken>>
    BY DEF histVars
  <2> HIDE DEF ShowsDialog, Goto
  <2>3. CASE pc[t] = "dialog"
    BY <1>1, <2>1, <2>2, <2>3 DEF ReportedAt, Signature
  <2>4. CASE pc[t] = "duplicate"
    BY <1>1, <2>1, <2>2, <2>4 DEF ReportedAt, OwnAt, Signature
  <2> QED
    BY <2>3, <2>4 DEF ShowDialog
<1>9. SignatureHasReport'
  BY <1>1 DEF SignatureHasReport, OwnAt, Report, Captures, captureVars
<1>10. CrashedWasBlamed'
  BY <1>1 DEF CrashedWasBlamed, Captures, modVars, histVars
<1> QED
  BY <1>2, <1>3, <1>4, <1>5, <1>6, <1>7, <1>8, <1>9, <1>10, StepKeepsInv DEF ThreadAt

LEMMA CloseStep ==
  ASSUME CrashInv, NEW t \in Threads, CloseDialog(t)
  PROVE  CrashInv'
<1>1. /\ HandlerAt(t) /\ JobAt(t) /\ OwnAt(t) /\ ReportedAt(t)
      /\ TypeOK /\ GuardHeld /\ SignatureHasReport /\ CrashedWasBlamed
  BY DEF CrashInv, ThreadAt
<1> USE DEF CloseDialog, Step, Goto
<1>2. Frame(t)
  BY <1>1 DEF Frame, Captures, TypeOK, captureVars, histVars, CaptureSteps
<1>3. GuardStep(t)
  BY <1>1 DEF GuardStep, TypeOK, captureVars, CaptureSteps
<1>4. TypeOK'
  BY <1>1 DEF TypeOK, HandlerAt, JobAt, captureVars, histVars, modVars, Steps, CaptureSteps, Phases
<1>5. HandlerAt(t)'
  BY <1>1 DEF HandlerAt, TypeOK, CaptureSteps, Signature, Signatures
<1>6. JobAt(t)'
  BY <1>1 DEF JobAt, HandlerAt, TypeOK, CaptureSteps
<1>7. OwnAt(t)'
  BY <1>1 DEF OwnAt, HandlerAt, Report, Captures, Signature, CaptureSteps, TypeOK, captureVars
<1>8. ReportedAt(t)'
  BY <1>1 DEF ReportedAt, HandlerAt, Signature, CaptureSteps, TypeOK, captureVars, histVars
<1>9. SignatureHasReport'
  BY <1>1 DEF SignatureHasReport, OwnAt, Report, Captures, captureVars
<1>10. CrashedWasBlamed'
  BY <1>1 DEF CrashedWasBlamed, Captures, SignatureHasReport, TypeOK, OwnAt, Report, Captures, captureVars, histVars, modVars
<1> QED
  BY <1>2, <1>3, <1>4, <1>5, <1>6, <1>7, <1>8, <1>9, <1>10, StepKeepsInv DEF ThreadAt

LEMMA LeaveStep ==
  ASSUME CrashInv, NEW t \in Threads, LeaveCapture(t)
  PROVE  CrashInv'
<1>1. /\ HandlerAt(t) /\ JobAt(t) /\ OwnAt(t) /\ ReportedAt(t)
      /\ TypeOK /\ GuardHeld /\ SignatureHasReport /\ CrashedWasBlamed
  BY DEF CrashInv, ThreadAt
<1>b. /\ trouble[t] # None /\ phase[t] \in Phases
      /\ trouble[t].back \in {"idle", "inside"}
      /\ trouble[t].kind \in Exceptions \cup Failures
  BY <1>1, TroubleTyped DEF HandlerAt, TypeOK, CaptureSteps, LeaveCapture
<1> USE DEF LeaveCapture, Return, Dies, Goto, Ends
<1>2. Frame(t)
  BY <1>1, <1>b DEF Frame, Captures, TypeOK, captureVars, histVars, CaptureSteps
<1>3. GuardStep(t)
  BY <1>1, <1>b DEF GuardStep, TypeOK, captureVars, CaptureSteps
<1>4. TypeOK'
  <2> USE <1>1, <1>b DEF TypeOK, captureVars, histVars, modVars
  <2>1. Signature(t) \in Signatures \/ trouble[t] = None
    BY DEF HandlerAt
  <2>2. pc' \in [Threads -> Steps]
    BY DEF Steps, CaptureSteps, Troubles
  <2>3. trouble' \in [Threads -> Troubles \cup {None}]
    BY DEF Troubles
  <2>4. phase' \in [Threads -> Phases \cup {"none"}]
    BY DEF Phases
  <2>5. /\ blame' \in [Threads -> Mods \cup {None}]
        /\ capturing' \in BOOLEAN /\ dialogShown' \in BOOLEAN
    OBVIOUS
  <2>6. /\ lastSig' \in Signatures \cup {None}
        /\ lastReport' \in ReportSet \cup {None}
        /\ reports' \subseteq ReportSet /\ refused' \subseteq ReportSet
    BY <2>1, ReportTyped DEF HandlerAt, CaptureSteps
  <2>7. dialog' \in DialogSet \cup {None}
    BY <2>1, ReportTyped DEF HandlerAt, CaptureSteps, DialogSet, Troubles
  <2>8. death' \in DeathSet \cup {None}
    BY <2>1 DEF DeathSet, Troubles, Ends, HandlerAt, CaptureSteps
  <2>9. /\ writes' \in BOOLEAN /\ scopes' \subseteq [mod : Mods, thread : Threads]
        /\ modState' \in [Mods -> ModStates] /\ filter' \in {"ours", "foreign"}
        /\ job' \in [Threads -> [kind : JobKinds, mod : Mods \cup {None}]]
    OBVIOUS
  <2>10. /\ reported' \in [Threads -> SUBSET Phases] /\ overtaken' \in [Threads -> BOOLEAN]
         /\ panicked' \subseteq Mods /\ troubles' \in 0 .. MaxTroubles
    BY CrashReportsAssumption DEF HandlerAt, CaptureSteps, Phases
  <2> HIDE DEF LeaveCapture, Return, Dies, Goto, Ends
  <2> QED
    BY <2>2, <2>3, <2>4, <2>5, <2>6, <2>7, <2>8, <2>9, <2>10
<1>5. HandlerAt(t)'
  BY <1>1, <1>b DEF HandlerAt, TypeOK, CaptureSteps, Signature, Signatures
<1>6. JobAt(t)'
  BY <1>1, <1>b DEF JobAt, HandlerAt, TypeOK, CaptureSteps
<1>7. OwnAt(t)'
  BY <1>1, <1>b DEF OwnAt, HandlerAt, Report, Captures, Signature, CaptureSteps, TypeOK, captureVars
<1>8. ReportedAt(t)'
  BY <1>1, <1>b DEF ReportedAt, HandlerAt, Signature, CaptureSteps, TypeOK, captureVars, histVars
<1>9. SignatureHasReport'
  BY <1>1, <1>b DEF SignatureHasReport, OwnAt, Report, Captures, captureVars
<1>10. CrashedWasBlamed'
  BY <1>1, <1>b DEF CrashedWasBlamed, Captures, SignatureHasReport, TypeOK, OwnAt, Report, Captures, captureVars, histVars, modVars
<1> QED
  BY <1>2, <1>3, <1>4, <1>5, <1>6, <1>7, <1>8, <1>9, <1>10, StepKeepsInv DEF ThreadAt

-----------------------------------------------------------------------------
(* Which exception a report is about: its signature does not tell.         *)

NumbersGrow ==
    /\ \A r \in Captures : r.nr <= troubles
    /\ \A t \in Threads : trouble[t] # None => trouble[t].nr <= troubles
    /\ dialog # None => dialog.nr <= troubles /\ dialog.sig[2] # "callback-panic"

(* Of what a thread was struck by, the last is in its hands; a capture     *)
(* that has nothing left to write found its own report, or an earlier one  *)
(* in LAST_REPORT.                                                         *)
Unreported == {"guard", "search", "filter", "attribute", "write"}
LatestAt(t) ==
    /\ trouble[t] # None =>
         \A r \in Captures : r.sig[1] = t => r.nr <= trouble[t].nr
    /\ /\ phase[t] = "veh" \/ pc[t] \in Unreported
       /\ dialog # None /\ dialog.sig = Signature(t)
       => dialog.nr < trouble[t].nr
    /\ pc[t] \in {"dialog", "duplicate", "shown", "leave"} =>
         \E r \in Captures :
           /\ r.sig = Signature(t)
           /\ r.nr = trouble[t].nr \/ (r.nr < trouble[t].nr /\ r = lastReport)

(* LAST_REPORT is the latest report of its signature, but for the one      *)
(* about to be remembered.                                                 *)
Remembered == lastSig # None =>
    /\ writes
    /\ lastSig[2] \in Exceptions
    /\ \A r \in Captures : r.sig = lastSig =>
         \/ r.nr <= lastReport.nr
         \/ \E t \in Threads : pc[t] = "remember" /\ r = Report(t, blame[t])

NumberInv ==
    /\ NumbersGrow /\ DeathReported /\ DialogNamesOwnReport
    /\ death = None => Remembered
    /\ \A t \in Threads : LatestAt(t)

(* A step after which the process lives or has just died.                  *)
LEMMA Typed ==
  ASSUME TypeOK
  PROVE  /\ \A r \in Captures : r.nr \in Nat /\ r \in ReportSet /\ r # None
         /\ \A t \in Threads : trouble[t] # None => trouble[t].nr \in Nat
         /\ dialog # None => dialog.nr \in Nat
         /\ troubles \in Nat
<1>1. Numbers \subseteq Nat
  BY DEF Numbers
<1>2. /\ \A r \in ReportSet : r.nr \in Nat /\ r # None
      /\ \A x \in Troubles : x.nr \in Nat
      /\ \A d \in DialogSet : d.nr \in Nat
  BY <1>1, NothingAssumption DEF ReportSet, Troubles, DialogSet
<1>3. Captures \subseteq ReportSet /\ troubles \in Nat
  BY CrashReportsAssumption DEF TypeOK, Captures
<1>4. /\ \A t \in Threads : trouble[t] \in Troubles \cup {None}
      /\ dialog \in DialogSet \cup {None}
  BY DEF TypeOK
<1> QED
  BY <1>2, <1>3, <1>4

LEMMA OthersKeepLatest ==
  ASSUME NumberInv, NEW t \in Threads, NEW u \in Threads \ {t},
         pc'[u] = pc[u], trouble'[u] = trouble[u], phase'[u] = phase[u],
         Captures \subseteq Captures',
         \A r \in Captures' : r \in Captures \/ r.sig[1] = t,
         lastReport' = lastReport \/ (GuardHeld /\ pc[t] \in CaptureSteps),
         dialog' = dialog \/ dialog'.sig[1] = t
  PROVE  LatestAt(u)'
<1>1. LatestAt(u) /\ Signature(u)' = Signature(u) /\ Signature(u)[1] = u
  BY DEF NumberInv, Signature
<1>2. (trouble[u] # None =>
         \A r \in Captures : r.sig[1] = u => r.nr <= trouble[u].nr)'
  BY <1>1 DEF LatestAt
<1>3. pc[u] \in {"dialog", "duplicate", "shown", "leave"} =>
        lastReport' = lastReport
  BY DEF GuardHeld, CaptureSteps
<1>4. (/\ phase[u] = "veh" \/ pc[u] \in Unreported
       /\ dialog # None /\ dialog.sig = Signature(u)
       => dialog.nr < trouble[u].nr)'
  BY <1>1 DEF LatestAt
<1>5. (pc[u] \in {"dialog", "duplicate", "shown", "leave"} =>
        \E r \in Captures :
          /\ r.sig = Signature(u)
          /\ r.nr = trouble[u].nr \/ (r.nr < trouble[u].nr /\ r = lastReport))'
  BY <1>1, <1>3 DEF LatestAt
<1> QED
  BY <1>2, <1>4, <1>5 DEF LatestAt

(* A step that tells nobody anything: no report, no memory, no dialog.     *)
LEMMA SilentStep ==
  ASSUME NumberInv, TypeOK, NEW t \in Threads,
         UNCHANGED <<writes, reports, refused, lastSig, lastReport, dialog>>,
         troubles' \in Nat, troubles <= troubles',
         \A u \in Threads \ {t} :
           /\ pc'[u] = pc[u] /\ trouble'[u] = trouble[u]
           /\ phase'[u] = phase[u] /\ blame'[u] = blame[u],
         death = None, death' = None => pc[t] # "remember",
         trouble'[t] # None => trouble'[t].nr <= troubles',
         LatestAt(t)', DeathReported'
  PROVE  NumberInv'
<1>1. Captures' = Captures
  BY DEF Captures
<1>2. ASSUME NEW u \in Threads \ {t} PROVE LatestAt(u)'
  BY <1>1, <1>2, OthersKeepLatest
<1>3. NumbersGrow'
  <2>1. \A a, b, c \in Nat : a <= b /\ b <= c => a <= c
    OBVIOUS
  <2>2. \A r \in Captures : r.nr <= troubles'
    BY <2>1, Typed DEF NumberInv, NumbersGrow
  <2>3. \A u \in Threads : trouble'[u] # None => trouble'[u].nr <= troubles'
    BY <2>1, Typed DEF NumberInv, NumbersGrow
  <2>4. dialog # None => dialog.nr <= troubles'
    BY <2>1, Typed DEF NumberInv, NumbersGrow
  <2> QED
    BY <1>1, <2>2, <2>3, <2>4 DEF NumberInv, NumbersGrow
<1>4. ASSUME death' = None PROVE Remembered'
  <2>1. Remembered /\ pc[t] # "remember"
    BY <1>4 DEF NumberInv
  <2>2. ASSUME NEW r \in Captures, r.sig = lastSig, lastSig # None
        PROVE  \/ r.nr <= lastReport.nr
               \/ \E u \in Threads : pc'[u] = "remember" /\ r = Report(u, blame[u])'
    <3>1. CASE r.nr <= lastReport.nr
      BY <3>1
    <3>2. ASSUME NEW u \in Threads, pc[u] = "remember", r = Report(u, blame[u])
          PROVE  pc'[u] = "remember" /\ r = Report(u, blame[u])'
      BY <2>1, <3>2 DEF Report, Signature
    <3> QED
      BY <2>1, <2>2, <3>1, <3>2 DEF Remembered
  <2> QED
    BY <1>1, <2>1, <2>2 DEF Remembered
<1>5. DialogNamesOwnReport'
  BY <1>1 DEF NumberInv, DialogNamesOwnReport
<1> QED
  BY <1>2, <1>3, <1>4, <1>5 DEF NumberInv

(* The same, of a thread whose trouble stays what it is.                   *)
LEMMA SameTroubleStep ==
  ASSUME CrashInv, NumberInv, NEW t \in Threads, death = None,
         UNCHANGED <<writes, reports, refused, lastSig, lastReport, dialog,
                     trouble, troubles>>,
         \A u \in Threads \ {t} :
           /\ pc'[u] = pc[u] /\ phase'[u] = phase[u] /\ blame'[u] = blame[u],
         death' = None => pc[t] # "remember",
         phase'[t] = "veh" \/ pc'[t] \in Unreported =>
           phase[t] = "veh" \/ pc[t] \in Unreported,
         pc'[t] \in {"dialog", "duplicate", "shown", "leave"} =>
           \/ pc[t] \in {"dialog", "duplicate", "shown", "leave"}
           \/ pc[t] = "mark" \/ pc'[t] = "duplicate",
         pc'[t] = "duplicate" => AlreadyReported(t),
         death' = None \/ death'.how # "filter"
           \/ (death'.sig = Signature(t) /\ death'.nr = trouble[t].nr
               /\ pc[t] = "leave")
  PROVE  NumberInv'
<1>1. TypeOK /\ HandlerAt(t) /\ OwnAt(t) /\ SignatureHasReport /\ LatestAt(t)
      /\ NumbersGrow
  BY DEF CrashInv, ThreadAt, NumberInv
<1>2. Captures' = Captures /\ Signature(t)' = Signature(t)
  BY DEF Captures, Signature
<1>3. (pc[t] \in {"dialog", "duplicate", "shown", "leave"} =>
        \E r \in Captures :
          /\ r.sig = Signature(t)
          /\ r.nr = trouble[t].nr \/ (r.nr < trouble[t].nr /\ r = lastReport))'
  <2>1. CASE pc[t] \in {"dialog", "duplicate", "shown", "leave"}
    BY <1>1, <1>2, <2>1 DEF LatestAt
  <2>2. CASE pc[t] = "mark"
    <3>1. Report(t, blame[t]) \in Captures
      BY <1>1, <2>2 DEF OwnAt
    <3>2. Report(t, blame[t]).sig = Signature(t) /\ Report(t, blame[t]).nr = trouble[t].nr
      BY DEF Report
    <3> QED
      BY <1>2, <3>1, <3>2
  <2>3. CASE pc'[t] = "duplicate"
    <3>1. lastSig = Signature(t) /\ phase[t] = "seh"
      BY <2>3 DEF AlreadyReported
    <3>2. trouble[t] # None /\ Signature(t) \in Signatures
      BY <1>1, <3>1 DEF HandlerAt
    <3>3. lastReport \in Captures /\ lastReport.sig = Signature(t)
      BY <1>1, <3>1, <3>2, NothingAssumption DEF SignatureHasReport
    <3>4. lastReport.nr <= trouble[t].nr
      BY <1>1, <3>2, <3>3 DEF LatestAt, Signature
    <3>5. lastReport.nr \in Nat /\ trouble[t].nr \in Nat
      BY <1>1, <3>2, <3>3, Typed
    <3>6. lastReport.nr = trouble[t].nr \/ lastReport.nr < trouble[t].nr
      BY <3>4, <3>5
    <3> QED
      BY <1>2, <3>3, <3>6
  <2> QED
    BY <2>1, <2>2, <2>3
<1>4. LatestAt(t)'
  BY <1>1, <1>2, <1>3 DEF LatestAt
<1>5. DeathReported'
  BY <1>1, <1>2 DEF LatestAt, DeathReported
<1>6. troubles' \in Nat /\ troubles <= troubles'
  BY <1>1, Typed
<1> QED
  BY <1>1, <1>4, <1>5, <1>6, SilentStep DEF NumbersGrow


LEMMA TroubleOver ==
  ASSUME CrashInv, NumberInv, NEW t \in Threads, death = None,
         UNCHANGED <<writes, reports, refused, lastSig, lastReport, dialog,
                     death, troubles>>,
         trouble' = [trouble EXCEPT ![t] = None],
         \A u \in Threads \ {t} :
           /\ pc'[u] = pc[u] /\ phase'[u] = phase[u] /\ blame'[u] = blame[u],
         pc[t] # "remember", phase'[t] = "none", pc'[t] \in {"idle", "inside"}
  PROVE  NumberInv'
<1>1. TypeOK /\ DeathReported
  BY DEF CrashInv, NumberInv
<1>2. trouble'[t] = None /\ \A u \in Threads \ {t} : trouble'[u] = trouble[u]
  BY <1>1 DEF TypeOK
<1>3. LatestAt(t)'
  BY <1>2 DEF LatestAt, Unreported
<1>4. DeathReported' /\ troubles' \in Nat /\ troubles <= troubles'
  BY <1>1, Typed DEF DeathReported, Captures
<1> QED
  BY <1>1, <1>2, <1>3, <1>4, SilentStep

(* A new trouble has a new number; the callback's panic keeps the panic's. *)
LEMMA StrikeNumber ==
  ASSUME CrashInv, NumberInv, NEW t \in Threads, death = None,
         UNCHANGED <<writes, reports, refused, lastSig, lastReport, dialog,
                     death, blame>>,
         \A u \in Threads \ {t} :
           /\ pc'[u] = pc[u] /\ phase'[u] = phase[u] /\ trouble'[u] = trouble[u],
         pc[t] # "remember", pc'[t] \in {"guard", "search"},
         \/ troubles' = troubles + 1 /\ trouble'[t].nr = troubles + 1
         \/ /\ troubles' = troubles /\ trouble[t] # None
            /\ trouble'[t].nr = trouble[t].nr
            /\ trouble'[t].kind = "callback-panic"
  PROVE  NumberInv'
<1>1. TypeOK /\ DeathReported /\ NumbersGrow /\ LatestAt(t)
  BY DEF CrashInv, NumberInv
<1>2. DeathReported' /\ troubles' \in Nat /\ troubles <= troubles' /\ Captures' = Captures
  BY <1>1, Typed DEF DeathReported, Captures
<1>3. trouble'[t].nr <= troubles'
  BY <1>1, Typed DEF NumbersGrow
<1>4. \A r \in Captures : r.sig[1] = t => r.nr <= trouble'[t].nr
  <2>1. CASE trouble'[t].nr = troubles + 1
    <3>1. \A a, b \in Nat : a <= b => a <= b + 1
      OBVIOUS
    <3> QED
      BY <1>1, <2>1, <3>1, Typed DEF NumbersGrow
  <2>2. CASE trouble[t] # None /\ trouble'[t].nr = trouble[t].nr
    BY <1>1, <2>2 DEF LatestAt
  <2> QED
    BY <2>1, <2>2
<1>5. dialog # None /\ dialog.sig = Signature(t)' => dialog.nr < trouble'[t].nr
  <2>1. CASE trouble'[t].nr = troubles + 1
    BY <1>1, <2>1, Typed DEF NumbersGrow
  <2>2. CASE trouble'[t].kind = "callback-panic"
    BY <1>1, <2>2 DEF NumbersGrow, Signature
  <2> QED
    BY <2>1, <2>2
<1>6. LatestAt(t)'
  BY <1>2, <1>4, <1>5 DEF LatestAt
<1> QED
  BY <1>1, <1>2, <1>3, <1>6, SilentStep

(* A capture writes its report, in the file, in the log or in vain.        *)
LEMMA CaptureNumber ==
  ASSUME CrashInv, NumberInv, NEW t \in Threads, NEW m, death = None,
         UNCHANGED <<writes, lastSig, lastReport, dialog, trouble, phase, blame,
                     death, troubles>>,
         Captures' = Captures \cup {Report(t, m)},
         \A u \in Threads \ {t} : pc'[u] = pc[u],
         pc[t] \in {"filter", "write"},
         pc'[t] \in {"remember", "mark", "dialog"},
         pc'[t] = "dialog" => ~writes,
         pc'[t] = "mark" => phase[t] = "manual",
         pc'[t] = "remember" => m = blame[t]
  PROVE  NumberInv'
<1> DEFINE r0 == Report(t, m)
<1>1. /\ TypeOK /\ HandlerAt(t) /\ NumbersGrow /\ LatestAt(t) /\ GuardHeld
      /\ DeathReported /\ DialogNamesOwnReport /\ Remembered
  BY DEF CrashInv, NumberInv, ThreadAt
<1>2. /\ r0.sig = Signature(t) /\ r0.nr = trouble[t].nr /\ Signature(t)[1] = t
      /\ Signature(t)' = Signature(t) /\ Signature(t)[2] = trouble[t].kind
  BY DEF Report, Signature
<1>3. trouble[t] # None /\ trouble[t].nr \in Nat
  BY <1>1, Typed DEF HandlerAt, CaptureSteps, TypeOK
<1> HIDE DEF r0
<1>4. Captures' = Captures \cup {r0}
  BY DEF r0
<1>5. ASSUME NEW u \in Threads \ {t} PROVE LatestAt(u)'
  BY <1>2, <1>4, OthersKeepLatest
<1>6. NumbersGrow'
  BY <1>1, <1>2, <1>3, <1>4 DEF NumbersGrow
<1>7. LatestAt(t)'
  <2>1. (trouble[t] # None =>
          \A r \in Captures : r.sig[1] = t => r.nr <= trouble[t].nr)'
    BY <1>1, <1>2, <1>3, <1>4 DEF LatestAt
  <2>2. (/\ phase[t] = "veh" \/ pc[t] \in Unreported
         /\ dialog # None /\ dialog.sig = Signature(t)
         => dialog.nr < trouble[t].nr)'
    BY <1>1, <1>2 DEF LatestAt, Unreported
  <2>3. r0 \in Captures' /\ r0.sig = Signature(t)' /\ r0.nr = trouble'[t].nr
    BY <1>2, <1>4
  <2> QED
    BY <2>1, <2>2, <2>3 DEF LatestAt
<1>8. Remembered'
  <2>1. ASSUME NEW r \in Captures', r.sig = lastSig, lastSig # None
        PROVE  \/ r.nr <= lastReport.nr
               \/ \E u \in Threads : pc'[u] = "remember" /\ r = Report(u, blame[u])'
    <3>1. CASE r \in Captures
      <4>1. ASSUME NEW u \in Threads, pc[u] = "remember" PROVE FALSE
        BY <1>1, <4>1 DEF GuardHeld, CaptureSteps
      <4> QED
        BY <1>1, <2>1, <3>1, <4>1 DEF Remembered
    <3>2. CASE r = r0
      <4>1. trouble[t].kind \in Exceptions /\ writes
        BY <1>1, <1>2, <2>1, <3>2 DEF Remembered
      <4>2. pc'[t] = "remember"
        BY <1>1, <4>1 DEF HandlerAt, Exceptions, Failures
      <4>3. r = Report(t, blame[t])'
        BY <3>2, <4>2 DEF r0, Report, Signature
      <4> QED
        BY <4>2, <4>3
    <3> QED
      BY <1>4, <3>1, <3>2
  <2> QED
    BY <1>1, <2>1 DEF Remembered
<1>9. DeathReported'
  BY DEF DeathReported
<1>10. DialogNamesOwnReport'
  <2>1. dialog # None /\ dialog.sig = Signature(t) => dialog.nr < trouble[t].nr
    BY <1>1 DEF LatestAt, Unreported
  <2>2. dialog # None => dialog.nr \in Nat
    BY <1>1, Typed
  <2>3. dialog # None /\ r0.sig = dialog.sig => ~(r0.nr <= dialog.nr)
    BY <1>2, <1>3, <2>1, <2>2
  <2> QED
    BY <1>1, <1>4, <2>3 DEF DialogNamesOwnReport
<1> QED
  BY <1>5, <1>6, <1>7, <1>8, <1>9, <1>10 DEF NumberInv

LEMMA RememberNumber ==
  ASSUME CrashInv, NumberInv, NEW t \in Threads, death = None, Remember(t)
  PROVE  NumberInv'
<1>1. /\ TypeOK /\ HandlerAt(t) /\ NumbersGrow /\ LatestAt(t) /\ GuardHeld
      /\ DeathReported /\ DialogNamesOwnReport /\ OwnAt(t)
  BY DEF CrashInv, NumberInv, ThreadAt
<1>2. /\ pc[t] = "remember" /\ pc'[t] = "mark"
      /\ \A u \in Threads \ {t} : pc'[u] = pc[u]
      /\ UNCHANGED <<writes, trouble, phase, blame, reports, refused, dialog,
                     death, troubles>>
      /\ lastSig' = Signature(t) /\ lastReport' = Report(t, blame[t])
  BY <1>1 DEF Remember, Step, Goto, TypeOK
<1>3. Captures' = Captures /\ Signature(t)' = Signature(t)
  BY <1>2 DEF Captures, Signature
<1>4. /\ lastReport'.nr = trouble[t].nr /\ Signature(t)[1] = t
      /\ Signature(t)[2] = trouble[t].kind
  BY <1>2 DEF Report, Signature
<1>5. trouble[t] # None /\ writes /\ trouble[t].kind \in Exceptions
  BY <1>1, <1>2 DEF HandlerAt, OwnAt, CaptureSteps
<1>6. ASSUME NEW u \in Threads \ {t} PROVE LatestAt(u)'
  BY <1>1, <1>2, <1>3, OthersKeepLatest DEF CaptureSteps
<1>7. NumbersGrow'
  BY <1>1, <1>2, <1>3 DEF NumbersGrow
<1>8. LatestAt(t)'
  BY <1>1, <1>2, <1>3 DEF LatestAt, Unreported
<1>9. Remembered'
  BY <1>1, <1>2, <1>3, <1>4, <1>5 DEF Remembered, LatestAt
<1>10. DeathReported' /\ DialogNamesOwnReport'
  BY <1>1, <1>2, <1>3 DEF DeathReported, DialogNamesOwnReport
<1> QED
  BY <1>6, <1>7, <1>8, <1>9, <1>10 DEF NumberInv

LEMMA ShowNumber ==
  ASSUME CrashInv, NumberInv, NEW t \in Threads, death = None, ShowDialog(t)
  PROVE  NumberInv'
<1>1. /\ TypeOK /\ HandlerAt(t) /\ NumbersGrow /\ LatestAt(t) /\ GuardHeld
      /\ DeathReported /\ DialogNamesOwnReport /\ OwnAt(t) /\ Remembered
      /\ SignatureHasReport
  BY DEF CrashInv, NumberInv, ThreadAt
<1>2. /\ pc[t] \in {"dialog", "duplicate"} /\ pc'[t] \in {"shown", "leave"}
      /\ \A u \in Threads \ {t} : pc'[u] = pc[u]
      /\ UNCHANGED <<writes, trouble, phase, blame, reports, refused, death,
                     troubles, lastSig, lastReport>>
  BY <1>1 DEF ShowDialog, Goto, TypeOK, histVars
<1>3. Captures' = Captures /\ Signature(t)' = Signature(t)
  BY <1>2 DEF Captures, Signature
<1>4. trouble[t] # None /\ trouble[t].nr \in Nat
  BY <1>1, <1>2, Typed DEF HandlerAt, CaptureSteps
<1>5. CASE dialog' = dialog
  <2>1. LatestAt(t)'
    <3>1. ~(pc'[t] \in Unreported)
      BY <1>2 DEF Unreported
    <3>2. \E r \in Captures :
             /\ r.sig = Signature(t)
             /\ r.nr = trouble[t].nr \/ (r.nr < trouble[t].nr /\ r = lastReport)
      BY <1>1, <1>2 DEF LatestAt
    <3> QED
      BY <1>1, <1>2, <1>3, <1>5, <3>1, <3>2 DEF LatestAt
  <2>2. DeathReported'
    BY <1>1, <1>2, <1>3 DEF DeathReported
  <2>3. troubles' \in Nat /\ troubles <= troubles' /\ trouble[t].nr <= troubles'
    BY <1>1, <1>2, <1>4, Typed DEF NumbersGrow
  <2> QED
    BY <1>1, <1>2, <1>5, <2>1, <2>2, <2>3, SilentStep
<1>6. CASE dialog' # dialog
  <2>1. /\ ShowsDialog(t)
        /\ dialog' = [sig |-> Signature(t), nr |-> trouble[t].nr,
                      names |-> IF pc[t] = "duplicate" THEN lastReport
                                ELSE IF writes THEN Report(t, blame[t])
                                ELSE None]
    BY <1>6 DEF ShowDialog
  <2> DEFINE named == IF pc[t] = "duplicate" THEN lastReport
                      ELSE IF writes THEN Report(t, blame[t]) ELSE None
  <2>2. dialog' = [sig |-> Signature(t), nr |-> trouble[t].nr, names |-> named]
    BY <2>1
  <2> HIDE DEF named
  <2>3. /\ dialog'.sig = Signature(t) /\ dialog'.nr = trouble[t].nr
        /\ dialog'.names = named
        /\ Signature(t)[1] = t /\ Signature(t)[2] = trouble[t].kind
    BY <2>2 DEF Signature
  <2>4. ASSUME NEW u \in Threads \ {t} PROVE LatestAt(u)'
    BY <1>1, <1>2, <1>3, <2>3, OthersKeepLatest
  <2>5. NumbersGrow'
    <3>1. trouble[t].kind # "callback-panic"
      BY <1>1, <2>1 DEF ShowsDialog, HandlerAt, Exceptions
    <3> QED
      BY <1>1, <1>2, <1>3, <1>4, <2>3, <3>1 DEF NumbersGrow
  <2>6. LatestAt(t)'
    <3>1. phase[t] # "veh" /\ ~(pc'[t] \in Unreported)
      BY <1>2, <2>1 DEF ShowsDialog, Unreported
    <3> QED
      BY <1>1, <1>2, <1>3, <3>1 DEF LatestAt
  <2>7. \A u \in Threads : pc[u] # "remember"
    BY <1>1, <1>2 DEF GuardHeld, CaptureSteps
  <2>8. Remembered'
    BY <1>1, <1>2, <1>3, <2>7 DEF Remembered
  <2>9. DeathReported'
    BY <1>1, <1>2, <1>3 DEF DeathReported
  <2>10. writes => /\ named \in Captures /\ named.sig = Signature(t)
                   /\ named.nr <= trouble[t].nr
                   /\ \A r \in Captures :
                        r.sig = Signature(t) /\ r.nr <= trouble[t].nr =>
                          r.nr <= named.nr
    <3>1. CASE pc[t] = "duplicate"
      <4>1. lastSig = Signature(t) /\ lastSig # None /\ named = lastReport
        BY <1>1, <1>4, <3>1, NothingAssumption DEF OwnAt, HandlerAt, named
      <4>2. named \in Captures /\ named.sig = Signature(t)
        BY <1>1, <4>1 DEF SignatureHasReport
      <4>3. \A r \in Captures : r.sig = Signature(t) => r.nr <= named.nr
        BY <1>1, <2>7, <4>1 DEF Remembered
      <4>4. named.nr <= trouble[t].nr
        BY <1>1, <1>4, <2>3, <4>2 DEF LatestAt
      <4> QED
        BY <4>2, <4>3, <4>4
    <3>2. CASE pc[t] = "dialog" /\ writes
      <4>1. named = Report(t, blame[t]) /\ named \in Captures
        BY <1>1, <3>2 DEF OwnAt, named
      <4>2. named.sig = Signature(t) /\ named.nr = trouble[t].nr
        BY <4>1 DEF Report
      <4>3. named.nr <= trouble[t].nr
        BY <1>4, <4>2
      <4> QED
        BY <4>1, <4>2, <4>3
    <3> QED
      BY <1>2, <3>1, <3>2
  <2>11. DialogNamesOwnReport'
    BY <1>2, <1>3, <2>3, <2>10 DEF DialogNamesOwnReport
  <2> QED
    BY <2>4, <2>5, <2>6, <2>8, <2>9, <2>11 DEF NumberInv
<1> QED
  BY <1>5, <1>6


LEMMA NumberNext ==
  ASSUME CrashInv, NumberInv, death = None, NEW t \in Threads,
         Modding(t) \/ Striking(t) \/ Capture(t)
  PROVE  NumberInv'
<1>1. TypeOK /\ HandlerAt(t) /\ JobAt(t) /\ OwnAt(t)
  BY DEF CrashInv, ThreadAt
<1>2. pc[t] \notin CaptureSteps \cup {"guard", "search"} /\ death = None =>
        phase[t] = "none" \/ pc[t] = "dead"
  BY <1>1 DEF HandlerAt
<1>3. CASE Modding(t)
  <2>1. /\ UNCHANGED <<writes, reports, refused, lastSig, lastReport, dialog,
                       trouble, troubles, phase, blame, death>>
        /\ \A u \in Threads \ {t} : pc'[u] = pc[u]
        /\ pc[t] \in {"idle", "found", "enter", "inside", "left", "rearmed"}
        /\ pc'[t] \in {"idle", "found", "enter", "inside", "left", "rearmed",
                       "panicked"}
    BY <1>1, <1>3 DEF Modding, Discover, BeginCallback, MarkLoading, EnterScope,
       LeaveScope, Rearm, CallEntry, MarkOutcome, ReplaceFilter, Step, Goto,
       TypeOK, captureVars, histVars, modVars
  <2> QED
    BY <2>1, SameTroubleStep DEF Unreported
<1>4. ASSUME NEW at \in Places, NEW kind \in Exceptions, RaiseException(t, kind, at)
      PROVE  NumberInv'
  BY <1>1, <1>4, StrikeNumber DEF RaiseException, Strike, Runs, Goto, TypeOK,
     captureVars
<1>5. ASSUME NEW kind \in Failures, FailRuntime(t, kind)
      PROVE  NumberInv'
  BY <1>1, <1>5, StrikeNumber DEF FailRuntime, Strike, Runs, Goto, TypeOK,
     captureVars
<1>6. CASE MarkPanicked(t)
  BY <1>1, <1>6, StrikeNumber DEF MarkPanicked, JobAt, Step, Goto, TypeOK, captureVars
<1>7. CASE HandleException(t)
  <2>1. trouble[t] # None /\ trouble[t].back \in {"idle", "inside"}
    BY <1>1, <1>7, TroubleTyped DEF HandlerAt, HandleException, Step
  <2> QED
    BY <1>1, <1>7, <2>1, TroubleOver DEF HandleException, Step, Goto, TypeOK,
       captureVars, histVars
<1>8. CASE Unhandled(t)
  BY <1>1, <1>8, SameTroubleStep DEF Unhandled, Dies, Goto, TypeOK, captureVars,
     histVars, Unreported
<1>9. CASE FaultInCapture(t)
  <2>1. trouble[t] \in Troubles /\ Signature(t) \in Signatures
    BY <1>1, <1>9 DEF HandlerAt, TypeOK, CaptureSteps, FaultInCapture
  <2>2. [sig |-> Signature(t), nr |-> trouble[t].nr, how |-> "nested"] \in DeathSet
    BY <2>1 DEF DeathSet, Troubles, Ends
  <2>3. death' # None
    BY <1>9, <2>2, NothingAssumption DEF FaultInCapture, Dies
  <2> QED
    BY <1>1, <1>9, <2>3, SameTroubleStep DEF FaultInCapture, Dies, Goto, TypeOK,
       captureVars, histVars, Unreported
<1>10. ASSUME NEW blocked \in BOOLEAN, Return(t, blocked), ~blocked => pc[t] = "leave",
              blocked => pc[t] = "guard",
              UNCHANGED <<writes, reports, refused, lastSig, lastReport, dialog,
                          troubles>>,
              \A u \in Threads : u # t => blame'[u] = blame[u]
       PROVE  NumberInv'
  <2>1. trouble[t] # None /\ trouble[t].back \in {"idle", "inside"}
    BY <1>1, <1>10, TroubleTyped DEF HandlerAt, CaptureSteps
  <2>2. CASE trouble' = trouble
    BY <1>1, <1>10, <2>1, <2>2, SameTroubleStep
       DEF Return, Dies, Goto, TypeOK, Unreported
  <2>3. CASE trouble' # trouble
    <3>1. /\ trouble' = [trouble EXCEPT ![t] = None] /\ death' = death
          /\ pc' = [pc EXCEPT ![t] = trouble[t].back]
          /\ phase' = [phase EXCEPT ![t] = "none"]
      BY <1>10, <2>3 DEF Return, Dies, Goto
    <3> QED
      BY <1>1, <1>10, <2>1, <3>1, TroubleOver DEF TypeOK
  <2> QED
    BY <2>2, <2>3
<1>11. CASE GuardTaken(t)
  BY <1>10, <1>11 DEF GuardTaken, captureVars, histVars
<1>12. CASE LeaveCapture(t)
  BY <1>1, <1>10, <1>12 DEF LeaveCapture, TypeOK, histVars
<1>13. CASE TakeGuard(t) \/ SkipDuplicate(t) \/ BeginReport(t) \/ CloseDialog(t)
            \/ MarkBlamed(t) \/ Attribute(t)
  <2>1. /\ UNCHANGED <<writes, reports, refused, lastSig, lastReport, dialog,
                       trouble, troubles, phase, death>>
        /\ \A u \in Threads \ {t} : pc'[u] = pc[u] /\ blame'[u] = blame[u]
        /\ pc[t] # "remember"
        /\ pc'[t] \in Unreported => pc[t] \in Unreported
        /\ pc'[t] \in {"dialog", "duplicate", "shown", "leave"} =>
             pc[t] = "shown" \/ pc[t] = "mark" \/ pc'[t] = "duplicate"
        /\ pc'[t] = "duplicate" => AlreadyReported(t)
    BY <1>1, <1>13 DEF TakeGuard, SkipDuplicate, BeginReport, CloseDialog,
       MarkBlamed, Attribute, Step, Goto, TypeOK, captureVars, histVars, Unreported
  <2> QED
    BY <2>1, SameTroubleStep
<1>14. CASE CaptureUnwritten(t)
  <2>1. Captures' = Captures \cup {Report(t, None)}
    BY <1>14 DEF CaptureUnwritten, Captures
  <2> QED
    BY <1>1, <1>14, <2>1, CaptureNumber DEF CaptureUnwritten, Step, Goto, TypeOK
<1>15. CASE WriteReport(t)
  <2>1. Captures' = Captures \cup {Report(t, blame[t])}
    BY <1>15 DEF WriteReport, Captures
  <2> QED
    BY <1>1, <1>15, <2>1, CaptureNumber DEF WriteReport, Step, Goto, TypeOK
<1>16. CASE Remember(t) \/ ShowDialog(t)
  BY <1>16, RememberNumber, ShowNumber
<1> QED
  BY <1>3, <1>4, <1>5, <1>6, <1>7, <1>8, <1>9, <1>11, <1>12, <1>13, <1>14, <1>15,
     <1>16 DEF Modding, Striking, Capture

-----------------------------------------------------------------------------
(* The theorems.                                                           *)

LEMMA InitInv == Init => CrashInv
<1> SUFFICES ASSUME Init PROVE CrashInv
  OBVIOUS
<1> USE DEF Init
<1>1. TypeOK
  <2>1. writes \in BOOLEAN /\ troubles \in 0 .. MaxTroubles
    BY CrashReportsAssumption
  <2>2. pc \in [Threads -> Steps] /\ modState \in [Mods -> ModStates]
    BY DEF Steps, ModStates
  <2>3. /\ job \in [Threads -> [kind : JobKinds, mod : Mods \cup {None}]]
        /\ trouble \in [Threads -> Troubles \cup {None}]
        /\ phase \in [Threads -> Phases \cup {"none"}]
    BY DEF NoJob, JobKinds
  <2> QED
    BY <2>1, <2>2, <2>3 DEF TypeOK
<1>2. GuardHeld /\ SignatureHasReport /\ CrashedWasBlamed
  BY DEF GuardHeld, SignatureHasReport, CrashedWasBlamed, CaptureSteps, ModStates
<1>3. \A t \in Threads : ThreadAt(t)
  BY DEF ThreadAt, HandlerAt, JobAt, OwnAt, ReportedAt, CaptureSteps
<1> QED
  BY <1>1, <1>2, <1>3 DEF CrashInv

LEMMA NextInv == CrashInv /\ [Next]_vars => CrashInv'
<1> SUFFICES ASSUME CrashInv, [Next]_vars PROVE CrashInv'
  OBVIOUS
<1>1. CASE UNCHANGED vars
  <2> USE <1>1 DEF vars, modVars, captureVars, histVars, CrashInv
  <2>1. TypeOK'
    BY DEF TypeOK
  <2>2. GuardHeld' /\ SignatureHasReport'
    BY DEF GuardHeld, SignatureHasReport, Captures
  <2>3. CrashedWasBlamed'
    BY DEF CrashedWasBlamed, Captures
  <2>4. ASSUME NEW t \in Threads PROVE ThreadAt(t)'
    <3>1. ThreadAt(t)
      OBVIOUS
    <3> QED
      BY <3>1 DEF ThreadAt, HandlerAt, JobAt, OwnAt, ReportedAt, Signature, Report, Captures
  <2> QED
    BY <2>1, <2>2, <2>3, <2>4
<1>2. ASSUME NEW t \in Threads, Modding(t)
      PROVE  CrashInv'
  BY <1>2, DiscoverStep, CallbackStep, LoadingStep, EnterStep, LeaveScopeStep,
     RearmStep, EntryStep, OutcomeStep, ReplaceStep DEF Modding
<1>3. ASSUME NEW t \in Threads, Striking(t)
      PROVE  CrashInv'
  BY <1>3, RaiseStep, FailStep, PanickedStep, HandleStep, UnhandledStep, FaultStep
     DEF Striking
<1>4. ASSUME NEW t \in Threads, Capture(t)
      PROVE  CrashInv'
  BY <1>4, TakeStep, TakenStep, UnwrittenStep, SkipStep, BeginStep, AttributeStep,
     WriteStep, RememberStep, MarkStep, ShowStep, CloseStep, LeaveStep DEF Capture
<1> QED
  BY <1>1, <1>2, <1>3, <1>4 DEF Next, Running, Dead

(* The invariant of the whole: one thread at a time is in a capture, the   *)
(* guard is set while it is, and its own report exists before it is        *)
(* remembered, blamed on a mod or named by the dialog.                     *)
THEOREM CrashInvariant == Spec => []CrashInv
<1> QED
  BY InitInv, NextInv, PTL DEF Spec

(* The variables keep their types. *)
THEOREM CrashTypeCorrect == Spec => []TypeOK
<1>1. CrashInv => TypeOK
  BY DEF CrashInv
<1> QED
  BY <1>1, CrashInvariant, PTL

(* The filter repeats the VEH's report of an exception only when another   *)
(* thread's exception was remembered in between: capture_exception,        *)
(* LAST_EXCEPTION_SIGNATURE.                                               *)
THEOREM RepeatsOnlyOvertaken == Spec => []DuplicateOnlyWhenOvertaken
<1>1. CrashInv => DuplicateOnlyWhenOvertaken
  BY DEF CrashInv, ThreadAt, ReportedAt, DuplicateOnlyWhenOvertaken
<1> QED
  BY <1>1, CrashInvariant, PTL

(* Every report is numbered after what it reports, and LAST_REPORT is the  *)
(* latest of its signature: capture_exception under CaptureGuard.          *)
THEOREM NumberInvariant == Spec => [](CrashInv /\ NumberInv)
<1>1. Init => NumberInv
  BY DEF Init, NumberInv, NumbersGrow, DeathReported, DialogNamesOwnReport,
     Remembered, LatestAt, Captures, Unreported
<1>2. CrashInv /\ NumberInv /\ [Next]_vars => NumberInv'
  <2> SUFFICES ASSUME CrashInv, NumberInv, [Next]_vars PROVE NumberInv'
    OBVIOUS
  <2>1. CASE UNCHANGED vars
    <3> USE <2>1 DEF vars, modVars, captureVars, histVars
    <3>1. Captures' = Captures /\ \A t \in Threads : Signature(t)' = Signature(t)
                                    /\ \A m : Report(t, m)' = Report(t, m)
      BY DEF Captures, Signature, Report
    <3>2. NumbersGrow' /\ DeathReported' /\ DialogNamesOwnReport'
      BY <3>1 DEF NumberInv, NumbersGrow, DeathReported, DialogNamesOwnReport
    <3>3. death' = None => Remembered'
      BY <3>1 DEF NumberInv, Remembered, Report, Signature
    <3>4. \A t \in Threads : LatestAt(t)'
      BY <3>1 DEF NumberInv, LatestAt
    <3> QED
      BY <3>2, <3>3, <3>4 DEF NumberInv
  <2>2. CASE Running
    BY <2>2, NumberNext DEF Running
  <2> QED
    BY <2>1, <2>2 DEF Next, Dead
<1> QED
  BY InitInv, NextInv, <1>1, <1>2, PTL DEF Spec

(* When BLoader's filter ends the process and found the guard free, one of *)
(* its handlers reported that very exception, unless an earlier one of the *)
(* same thread, code and address was the last remembered.                  *)
THEOREM DeathIsReported == Spec => []DeathReported
<1>1. NumberInv => DeathReported
  BY DEF NumberInv
<1> QED
  BY <1>1, NumberInvariant, PTL

(* The dialog names the latest report of the signature it announces, its   *)
(* own when it has one, though LAST_REPORT is shared.                      *)
THEOREM DialogIsTrue == Spec => []DialogNamesOwnReport
<1>1. NumberInv => DialogNamesOwnReport
  BY DEF NumberInv
<1> QED
  BY <1>1, NumberInvariant, PTL

(* mark_crashed follows a report that blames the mod, or the mod's         *)
(* callback has panicked.                                                  *)
THEOREM CrashedIsBlamed == Spec => []CrashedWasBlamed
<1>1. CrashInv => CrashedWasBlamed
  BY DEF CrashInv, CrashedWasBlamed
<1> QED
  BY <1>1, CrashInvariant, PTL

=============================================================================
