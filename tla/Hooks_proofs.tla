------------------------- MODULE Hooks_proofs -------------------------
(***************************************************************************)
(* The safety of the pre-main gate, for any windows, hot mods, delays and  *)
(* timeouts, and that of file redirection, for any rules and any requests. *)
(*                                                                         *)
(* GateInv says, for each place the startup thread can be in, what the     *)
(* byte at the OEP, the flags of the gate and the bootstrap are:           *)
(* MainOnlyWhenReady and NoStrayTrap are two lines of that table, and not  *)
(* inductive without the others.                                           *)
(*                                                                         *)
(* FilesInv says what each thread within a hook has done to the names of   *)
(* its call.  That these then mean what they should rests on two facts     *)
(* about the rules: the first one that applies is the one with the deepest *)
(* source (FirstIsDeepest), and a name that has been made canonical stays  *)
(* as it is (PlainIsCanonical).                                            *)
(***************************************************************************)
EXTENDS BootGate, FileRedirection, FiniteSetTheorems, WellFoundedInduction,
        NaturalsInduction, TLAPS

-----------------------------------------------------------------------------
(* The pre-main gate.                                                      *)

Trapped == {"veh", "armed"}
Diverted == {"hit", "restored", "started", "saved"}
Finished == Diverted \cup {"completed"}

\* The startup thread of a static launch.
StartupTable ==
    /\ host \in {"attach", "patch", "trap", "dispatch"} => boot = "idle"
    /\ host = "attach" => opcode = "original" /\ gate = {}
    /\ host = "patch" => opcode = "original" /\ gate = {"veh"}
    /\ host = "trap" => opcode = "int3" /\ gate = Trapped
    /\ host = "dispatch" => opcode = "original" /\ gate = Diverted \cup {"veh"}
    /\ host = "boot" => /\ opcode = "original" /\ gate = Diverted
                        /\ boot \notin {"idle", "done", "panicked"}
    /\ host = "oep" => \/ opcode = "int3" /\ gate = Trapped /\ boot = "idle"
                       \/ opcode = "original" /\ released
    /\ host \in {"mark", "stamp", "resume", "main"} =>
           opcode = "original" /\ gate = Finished /\ boot = "done"
    /\ host = "oep" /\ opcode = "original" => gate = Finished /\ boot = "done"
    /\ host \in {"stamp", "resume", "main"} => released
    /\ released => /\ host \in {"stamp", "resume", "oep", "main", "gone"}
                   /\ gate = Finished
    /\ host # "crashed"
    /\ late = "none"

\* A dynamic launch never has a gate.
DynamicTable ==
    /\ opcode = "original" /\ gate = {}
    /\ host \in {"attach", "main", "gone"}

GateInv ==
    /\ TypeOK
    /\ Static => StartupTable
    /\ ~Static => DynamicTable

\* What the two workers know of the release.
WorkerInv ==
    /\ io.at \in {"delay", "done"} => released
    /\ Static /\ captured => released
    /\ hot.at = "level" => released
    /\ hot.at \in {"oep", "elapsed"} => ~hot.ready
    /\ hot.at = "delay" /\ hot.ready => released
    /\ \A i \in injected : i.ready => released

\* What the hot mod thread knows of the window.
PollInv ==
    /\ hot.at \in {"oep", "elapsed"} => hot.seen = NoWindow /\ hot.seenFor = 0
    /\ hot.at \in {"oep", "elapsed", "level"} => ~hot.ready
    /\ hot.seen = NoWindow => hot.seenFor = 0
    /\ hot.at = "level" /\ hot.seen = window.shown /\ window.shown # NoWindow
           => hot.seenFor <= window.steady

-----------------------------------------------------------------------------

LEMMA ConstantsAreNaturals ==
    /\ IoTimeout \in Nat /\ IoDelay \in Nat
    /\ HotTimeout \in Nat /\ StableFor \in Nat
  BY BootGateAssumption

LEMMA ZeroInRange ==
    0 \in 0..IoTimeout /\ 0 \in 0..HotTimeout /\ 0 \in 0..StableFor
  BY ConstantsAreNaturals

LEMMA CountersAreNaturals ==
    ASSUME NEW n \in Nat, NEW cap \in Nat, n <= cap
    PROVE  Later(n, cap) \in 0..cap
  BY DEF Later

LEMMA SinceIsANatural ==
    ASSUME NEW n \in Nat, NEW cap
    PROVE  Later(n, cap) \in Nat
  BY DEF Later

LEMMA TypeCorrectInit == Init => TypeOK
<1> SUFFICES ASSUME Init PROVE TypeOK
  OBVIOUS
<1> USE DEF Init
<1>1. GateTypeOK
  BY DEF GateTypeOK, Flags
<1>2. IoTypeOK
  BY ZeroInRange DEF IoTypeOK
<1>3. HotTypeOK
  BY ZeroInRange DEF HotTypeOK
<1>4. WindowTypeOK
  BY ZeroInRange DEF WindowTypeOK
<1> QED
  BY <1>1, <1>2, <1>3, <1>4 DEF TypeOK

LEMMA GateTypeStep ==
    ASSUME GateTypeOK, [Next]_vars
    PROVE  GateTypeOK'
<1> USE DEF GateTypeOK, gateVars
<1>1. CASE HostStep
  <2>0. {{"veh"}, gate \cup {"armed"}, gate \ {"veh"}, gate \cup {"hit"},
         (gate \cup {"hit", "started", "saved"}) \ {"armed"},
         (gate \cup {"hit", "restored", "started", "saved"}) \ {"armed"},
         gate \cup {"hit", "restored"}, gate \cup {"hit", "restored", "started"}}
        \subseteq SUBSET Flags
    BY DEF Flags
  <2>1. CASE InstallHandler
    BY <2>0, <2>1 DEF InstallHandler
  <2>2. CASE PatchEntryPoint
    BY <2>0, <2>2 DEF PatchEntryPoint
  <2>3. CASE LateAttach
    BY <2>0, <2>3 DEF LateAttach
  <2>4. CASE ReachEntryPoint
    BY <2>0, <2>4 DEF ReachEntryPoint
  <2>5. CASE HandleTrap
    BY <2>0, <2>5 DEF HandleTrap
  <2>6. CASE Dispatch
    BY <2>0, <2>6 DEF Dispatch
  <2>7. CASE ResumeEntryPoint
    BY <2>0, <2>7 DEF ResumeEntryPoint
  <2> QED
    BY <1>1, <2>1, <2>2, <2>3, <2>4, <2>5, <2>6, <2>7 DEF HostStep
<1>2. CASE BootSequence
  <2> USE DEF BootStep
  <2>1. CASE CompleteBootstrap
    <3>1. gate \cup {"completed"} \in SUBSET Flags
      BY DEF Flags
    <3> QED
      BY <2>1, <3>1 DEF CompleteBootstrap
  <2>2. CASE BootSequence /\ ~CompleteBootstrap
    BY <2>2 DEF BootSequence, BootCode, InitializeXUser, LauncherAnswers, PreparePremain, SetUpRuntimeIo,
                LoadMods
  <2> QED
    BY <1>2, <2>1, <2>2
<1>3. CASE Panic
  BY <1>3 DEF Panic, PanicTo, WorkerPanics
<1>4. CASE ReleaseStep
  <2>1. CASE Release
    BY <2>1 DEF Release
  <2>2. CASE StampRelease
    BY <2>2 DEF StampRelease
  <2> QED
    BY <1>4, <2>1, <2>2 DEF ReleaseStep
<1>5. CASE IoStep
  BY <1>5 DEF IoStep, IoReadReleased, IoCheckTimeout, IoCapture
<1>6. CASE HotStep
  <2>1. HotUnchanged
    BY <1>6 DEF HotStep, HotNext, HotReadReleased, HotCheckTimeout, HotPoll,
                Poll, HotInject
  <2> QED
    BY <2>1 DEF HotUnchanged
<1>7. CASE Tick
  <2>1. since' \in Nat \cup {Unset}
    BY <1>7, SinceIsANatural DEF Tick
  <2> QED
    BY <1>7, <2>1 DEF Tick
<1>8. CASE GameWindow \/ Rest \/ UNCHANGED vars
  BY <1>8 DEF GameWindow, ShowWindow, Rest, vars
<1> QED
  BY <1>1, <1>2, <1>3, <1>4, <1>5, <1>6, <1>7, <1>8 DEF Next

LEMMA IoTypeStep ==
    ASSUME IoTypeOK, [Next]_vars
    PROVE  IoTypeOK'
<1> USE DEF IoTypeOK, waitVars
<1>1. CASE HostStep
  BY <1>1 DEF HostStep, InstallHandler, PatchEntryPoint, LateAttach,
              ReachEntryPoint, HandleTrap, Dispatch, ResumeEntryPoint
<1>2. CASE BootSequence
  BY <1>2 DEF BootSequence, BootCode, BootStep, InitializeXUser, LauncherAnswers, PreparePremain,
              SetUpRuntimeIo, LoadMods, CompleteBootstrap
<1>3. CASE Panic \/ ReleaseStep
  BY <1>3 DEF Panic, PanicTo, ReleaseStep, Release, StampRelease
<1>4. CASE IoStep
  BY <1>4 DEF IoStep, IoReadReleased, IoCheckTimeout, IoCapture
<1>5. CASE HotStep
  BY <1>5 DEF HotStep, HotNext, HotReadReleased, HotCheckTimeout, HotPoll, Poll,
              HotInject, HotUnchanged
<1>6. CASE Tick
  <2>1. Later(io.waited, IoTimeout) \in 0..IoTimeout
    BY ConstantsAreNaturals, CountersAreNaturals
  <2> QED
    BY <1>6, <2>1 DEF Tick
<1>7. CASE GameWindow \/ Rest \/ UNCHANGED vars
  BY <1>7 DEF GameWindow, ShowWindow, Rest, vars
<1> QED
  BY <1>1, <1>2, <1>3, <1>4, <1>5, <1>6, <1>7 DEF Next

LEMMA HotTypeStep ==
    ASSUME HotTypeOK, WindowTypeOK, [Next]_vars
    PROVE  HotTypeOK' /\ WindowTypeOK'
<1> USE DEF HotTypeOK, WindowTypeOK, waitVars
<1>1. CASE HostStep
  BY <1>1 DEF HostStep, InstallHandler, PatchEntryPoint, LateAttach,
              ReachEntryPoint, HandleTrap, Dispatch, ResumeEntryPoint
<1>2. CASE BootSequence
  BY <1>2 DEF BootSequence, BootCode, BootStep, InitializeXUser, LauncherAnswers, PreparePremain,
              SetUpRuntimeIo, LoadMods, CompleteBootstrap
<1>3. CASE Panic \/ ReleaseStep
  BY <1>3 DEF Panic, PanicTo, ReleaseStep, Release, StampRelease
<1>4. CASE IoStep
  BY <1>4 DEF IoStep, IoReadReleased, IoCheckTimeout, IoCapture
<1>5. CASE HotStep
  <2> USE ConstantsAreNaturals DEF HotUnchanged
  <2>1. CASE HotNext
    <3> DEFINE at == IF hot.left = {} THEN "ended" ELSE "oep"
    <3>1. at \in {"oep", "ended"}
      OBVIOUS
    <3>2. /\ hot' = [hot EXCEPT !.at = at, !.waited = 0, !.seen = NoWindow,
                               !.seenFor = 0, !.ready = FALSE]
          /\ UNCHANGED <<injected, window>>
      BY <2>1 DEF HotNext
    <3> HIDE DEF at
    <3> QED
      BY <3>1, <3>2, ZeroInRange
  <2>2. CASE HotReadReleased \/ HotCheckTimeout
    BY <2>2 DEF HotReadReleased, HotCheckTimeout
  <2>3. ASSUME NEW m \in HotMods, HotPoll(m)
        PROVE  HotTypeOK' /\ WindowTypeOK'
    <3> DEFINE seenFor == IF hot.seen = window.shown THEN hot.seenFor ELSE 0
               reached == \/ Level[m] = Process
                          \/ Level[m] = Window /\ window.shown # NoWindow
                          \/ SeenStable
               at == IF reached \/ hot.waited >= HotTimeout THEN "delay"
                     ELSE hot.at
    <3>1. seenFor \in 0..StableFor /\ reached \in BOOLEAN
      OBVIOUS
    <3>2. at \in {"delay", "level"} /\ window.shown \in Windows \cup {NoWindow}
      BY <2>3 DEF HotPoll, Poll
    <3>3. /\ hot' = [hot EXCEPT !.at = at, !.ready = reached,
                               !.seen = window.shown, !.seenFor = seenFor]
          /\ UNCHANGED <<injected, window>>
      BY <2>3 DEF HotPoll, Poll
    <3> HIDE DEF seenFor, reached, at
    <3> QED
      BY <3>1, <3>2, <3>3
  <2>4. ASSUME NEW m \in HotMods, HotInject(m)
        PROVE  HotTypeOK' /\ WindowTypeOK'
    <3>1. hot' = [hot EXCEPT !.at = "next", !.left = @ \ {m}] /\ UNCHANGED window
      BY <2>4 DEF HotInject
    <3>2. hot.ready \in BOOLEAN
      OBVIOUS
    <3>3. injected' = injected \cup {[mod |-> m, ready |-> hot.ready]}
      BY <2>4 DEF HotInject
    <3>4. injected' \in SUBSET [mod : HotMods, ready : BOOLEAN]
      BY <3>2, <3>3
    <3> QED
      BY <3>1, <3>4
  <2> QED
    BY <1>5, <2>1, <2>2, <2>3, <2>4 DEF HotStep
<1>6. CASE Tick
  <2>1. /\ Later(hot.waited, HotTimeout) \in 0..HotTimeout
        /\ Later(hot.seenFor, StableFor) \in 0..StableFor
        /\ Later(window.steady, StableFor) \in 0..StableFor
    BY ConstantsAreNaturals, CountersAreNaturals
  <2>2. HotTypeOK'
    <3> DEFINE seenFor == IF hot.seen = NoWindow THEN 0
                          ELSE Later(hot.seenFor, StableFor)
    <3>1. seenFor \in 0..StableFor
      BY <2>1, ZeroInRange
    <3>2. /\ \/ hot' = [hot EXCEPT !.waited = Later(hot.waited, HotTimeout),
                                  !.seenFor = seenFor]
             \/ hot' = hot
          /\ UNCHANGED injected
      BY <1>6 DEF Tick
    <3> HIDE DEF seenFor
    <3> QED
      BY <2>1, <3>1, <3>2
  <2>3. WindowTypeOK'
    BY <1>6, <2>1 DEF Tick
  <2> QED
    BY <2>2, <2>3
<1>7. CASE GameWindow \/ Rest \/ UNCHANGED vars
  BY <1>7, ZeroInRange DEF GameWindow, ShowWindow, Rest, vars
<1> QED
  BY <1>1, <1>2, <1>3, <1>4, <1>5, <1>6, <1>7 DEF Next

-----------------------------------------------------------------------------

\* TypeOK holds in every reachable state of every instance.
THEOREM BootTypeCorrect == Spec => []TypeOK
<1>1. TypeOK /\ [Next]_vars => TypeOK'
  BY GateTypeStep, IoTypeStep, HotTypeStep DEF TypeOK
<1> QED
  BY <1>1, TypeCorrectInit, PTL DEF Spec

\* A step of the workers, of time or of the game leaves the gate alone.
LEMMA GateUndisturbed ==
    ASSUME GateInv, TypeOK',
           UNCHANGED <<launch, gateVars, host, late, boot, released>>
    PROVE  GateInv'
  BY DEF GateInv, Static, StartupTable, DynamicTable, gateVars

LEMMA GateInvInit == Init => GateInv
<1> SUFFICES ASSUME Init PROVE GateInv
  OBVIOUS
<1>1. Static => StartupTable
  BY DEF Init, StartupTable
<1>2. ~Static => DynamicTable
  BY DEF Init, DynamicTable
<1> QED
  BY <1>1, <1>2, TypeCorrectInit DEF GateInv

\* The steps of the startup thread outside the bootstrap.
LEMMA GateInvHost ==
    ASSUME GateInv, TypeOK', HostStep
    PROVE  GateInv'
<1> USE DEF gateVars, Trapped, Diverted, Finished
<1>1. Static' <=> Static
  BY DEF HostStep, InstallHandler, PatchEntryPoint, LateAttach, ReachEntryPoint,
         HandleTrap, Dispatch, ResumeEntryPoint, Static
<1>2. ASSUME Static PROVE StartupTable'
  <2>0. StartupTable
    BY <1>2 DEF GateInv
  <2>1. CASE InstallHandler
    BY <2>0, <2>1 DEF InstallHandler, StartupTable
  <2>2. CASE PatchEntryPoint
    BY <2>0, <2>2 DEF PatchEntryPoint, StartupTable
  <2>3. CASE LateAttach
    BY <1>2, <2>3 DEF LateAttach
  <2>4. CASE ReachEntryPoint
    BY <2>0, <2>4 DEF ReachEntryPoint, StartupTable
  <2>5. CASE HandleTrap
    BY <2>0, <2>5 DEF HandleTrap, StartupTable
  <2>6. CASE Dispatch
    BY <2>0, <2>6 DEF Dispatch, StartupTable
  <2>7. CASE ResumeEntryPoint
    BY <2>0, <2>7 DEF ResumeEntryPoint, StartupTable
  <2> QED
    BY <2>1, <2>2, <2>3, <2>4, <2>5, <2>6, <2>7 DEF HostStep
<1>3. ASSUME ~Static PROVE DynamicTable'
  <2>0. DynamicTable
    BY <1>3 DEF GateInv
  <2>1. CASE LateAttach
    BY <2>0, <2>1 DEF LateAttach, DynamicTable
  <2>2. ~(HostStep /\ ~LateAttach)
    BY <1>3, <2>0 DEF HostStep, InstallHandler, PatchEntryPoint, ReachEntryPoint,
                      HandleTrap, Dispatch, ResumeEntryPoint, DynamicTable
  <2> QED
    BY <2>1, <2>2
<1> QED
  BY <1>1, <1>2, <1>3 DEF GateInv

\* The steps of the bootstrap and the release, on either thread.
LEMMA GateInvBoot ==
    ASSUME GateInv, TypeOK', BootSequence \/ Panic \/ ReleaseStep
    PROVE  GateInv'
<1> USE DEF gateVars, Diverted, Finished
<1>1. Static' <=> Static
  BY DEF BootSequence, BootCode, BootStep, InitializeXUser, LauncherAnswers, PreparePremain, SetUpRuntimeIo,
         LoadMods, CompleteBootstrap, Panic, PanicTo, ReleaseStep, Release,
         StampRelease, Static
<1>2. ASSUME Static PROVE StartupTable'
  <2>0. StartupTable
    BY <1>2 DEF GateInv
  <2>1. CASE CompleteBootstrap
    BY <2>0, <2>1 DEF CompleteBootstrap, BootStep, BootRuns, StartupTable
  <2>2. CASE BootSequence /\ ~CompleteBootstrap
    <3>1. /\ UNCHANGED <<gateVars, host, late, released>>
          /\ BootRuns
          /\ boot' \in {"pipe", "premain", "runtimeIo", "mods", "complete"}
      BY <2>2 DEF BootSequence, BootCode, BootStep, InitializeXUser, LauncherAnswers, PreparePremain,
                  SetUpRuntimeIo, LoadMods
    <3>2. host = "boot"
      BY <2>0, <3>1 DEF BootRuns, StartupTable
    <3> QED
      BY <2>0, <3>1, <3>2 DEF StartupTable
  <2>3. CASE Panic
    <3>1. host = "boot" /\ late' = late
      BY <2>0, <2>3 DEF Panic, PanicTo, WorkerPanics, BootRuns, StartupTable
    <3>2. host' = "gone" /\ UNCHANGED <<gateVars, released>>
      BY <2>3, <3>1 DEF Panic, PanicTo
    <3> QED
      BY <2>0, <3>1, <3>2 DEF StartupTable
  <2>4. CASE Release
    BY <2>0, <2>4 DEF Release, StartupTable
  <2>5. CASE StampRelease
    BY <2>0, <2>5 DEF StampRelease, StartupTable
  <2> QED
    BY <2>1, <2>2, <2>3, <2>4, <2>5 DEF ReleaseStep
<1>3. ASSUME ~Static PROVE DynamicTable'
  <2>0. DynamicTable
    BY <1>3 DEF GateInv
  <2>1. CASE BootSequence
    BY <2>0, <2>1 DEF BootSequence, BootCode, BootStep, InitializeXUser, LauncherAnswers, PreparePremain,
                  SetUpRuntimeIo, LoadMods, CompleteBootstrap, DynamicTable
  <2>2. CASE Panic
    BY <2>0, <2>2 DEF Panic, PanicTo, DynamicTable
  <2>3. CASE ReleaseStep
    BY <2>0, <2>3 DEF ReleaseStep, Release, StampRelease, DynamicTable
  <2> QED
    BY <2>1, <2>2, <2>3
<1> QED
  BY <1>1, <1>2, <1>3 DEF GateInv

LEMMA GateInvStep == GateInv /\ [Next]_vars => GateInv'
<1> SUFFICES ASSUME GateInv, [Next]_vars PROVE GateInv'
  OBVIOUS
<1>0. TypeOK'
  BY GateTypeStep, IoTypeStep, HotTypeStep DEF TypeOK, GateInv
<1>1. CASE HostStep
  BY <1>0, <1>1, GateInvHost
<1>2. CASE BootSequence \/ Panic \/ ReleaseStep
  BY <1>0, <1>2, GateInvBoot
<1>3. CASE IoStep
  BY <1>0, <1>3, GateUndisturbed
     DEF IoStep, IoReadReleased, IoCheckTimeout, IoCapture, gateVars
<1>4. CASE HotStep
  BY <1>0, <1>4, GateUndisturbed
     DEF HotStep, HotNext, HotReadReleased, HotCheckTimeout, HotPoll, Poll,
         HotInject, HotUnchanged, gateVars
<1>5. CASE Tick \/ GameWindow
  BY <1>0, <1>5, GateUndisturbed DEF Tick, GameWindow, ShowWindow, gateVars
<1>6. CASE Rest \/ UNCHANGED vars
  BY <1>0, <1>6, GateUndisturbed DEF Rest, vars, gateVars
<1> QED
  BY <1>1, <1>2, <1>3, <1>4, <1>5, <1>6 DEF Next

\* The table holds in every reachable state.
THEOREM GateInvariant == Spec => []GateInv
  BY GateInvInit, GateInvStep, PTL DEF Spec

\* In a static launch the game's own code runs only after the bootstrap
\* succeeded, with nothing of the gate left (pre_main_dispatch).
THEOREM MainWaits == Spec => []MainOnlyWhenReady
<1>1. GateInv => MainOnlyWhenReady
  BY DEF GateInv, StartupTable, MainOnlyWhenReady, Finished, Diverted
<1> QED
  BY <1>1, GateInvariant, PTL

\* No process ever runs into the loader's own INT3 unhandled.
THEOREM TrapHandled == Spec => []NoStrayTrap
<1>1. GateInv => NoStrayTrap
  <2> SUFFICES ASSUME GateInv PROVE NoStrayTrap
    OBVIOUS
  <2>1. CASE Static
    <3>1. StartupTable /\ GateTypeOK
      BY <2>1 DEF GateInv, TypeOK
    <3>2. ASSUME Alive, opcode = "int3" PROVE Trapped \subseteq gate
      BY <3>1, <3>2 DEF StartupTable, GateTypeOK, Alive, Trapped
    <3> QED
      BY <3>1, <3>2 DEF NoStrayTrap, StartupTable, Trapped
  <2>2. CASE ~Static
    BY <2>2 DEF GateInv, DynamicTable, NoStrayTrap
  <2> QED
    BY <2>1, <2>2
<1> QED
  BY <1>1, GateInvariant, PTL

-----------------------------------------------------------------------------

\* A released gate stays released.
LEMMA ReleasedStays ==
    ASSUME [Next]_vars, released
    PROVE  released'
<1> USE DEF gateVars
<1>1. CASE HostStep \/ BootSequence \/ Panic
  BY <1>1 DEF HostStep, InstallHandler, PatchEntryPoint, LateAttach,
              ReachEntryPoint, HandleTrap, Dispatch, ResumeEntryPoint,
              BootSequence, BootCode, InitializeXUser, LauncherAnswers, PreparePremain, SetUpRuntimeIo,
              LoadMods, CompleteBootstrap, Panic, PanicTo
<1>2. CASE ReleaseStep
  BY <1>2 DEF ReleaseStep, Release, StampRelease
<1>3. CASE IoStep \/ HotStep \/ Tick \/ GameWindow \/ Rest \/ UNCHANGED vars
  BY <1>3 DEF IoStep, IoReadReleased, IoCheckTimeout, IoCapture, HotStep, HotNext,
              HotReadReleased, HotCheckTimeout, HotPoll, Poll, HotInject,
              HotUnchanged, Tick, GameWindow, ShowWindow, Rest, vars
<1> QED
  BY <1>1, <1>2, <1>3 DEF Next

LEMMA WorkerInvStep ==
    ASSUME TypeOK, WorkerInv, [Next]_vars
    PROVE  WorkerInv'
<1> USE DEF WorkerInv, waitVars
<1>0. released => released'
  BY ReleasedStays
<1>1. CASE HostStep \/ Panic \/ ReleaseStep
  <2>1. UNCHANGED <<launch, io, captured, hot, injected>>
    BY <1>1 DEF HostStep, InstallHandler, PatchEntryPoint, LateAttach,
                ReachEntryPoint, HandleTrap, Dispatch, ResumeEntryPoint,
                Panic, PanicTo, ReleaseStep, Release, StampRelease
  <2> QED
    BY <1>0, <2>1 DEF Static
<1>2. CASE BootSequence
  <2> USE DEF BootStep, TypeOK, IoTypeOK, HotTypeOK
  <2>1. CASE InitializeXUser \/ LauncherAnswers \/ PreparePremain \/ CompleteBootstrap
    BY <1>0, <2>1 DEF InitializeXUser, LauncherAnswers, PreparePremain, CompleteBootstrap, Static
  <2>2. CASE SetUpRuntimeIo
    BY <1>0, <2>2 DEF SetUpRuntimeIo, Static
  <2>3. CASE LoadMods
    BY <1>0, <2>3 DEF LoadMods, Static
  <2> QED
    BY <1>2, <2>1, <2>2, <2>3 DEF BootSequence, BootCode
<1>3. CASE IoStep
  <2> USE DEF TypeOK, IoTypeOK, Static
  <2>1. CASE IoReadReleased
    BY <1>0, <2>1 DEF IoReadReleased
  <2>2. CASE IoCheckTimeout
    BY <1>0, <2>2 DEF IoCheckTimeout
  <2>3. CASE IoCapture
    BY <1>0, <2>3 DEF IoCapture
  <2> QED
    BY <1>3, <2>1, <2>2, <2>3 DEF IoStep
<1>4. CASE HotStep
  <2> USE DEF TypeOK, HotTypeOK, HotUnchanged, Static
  <2>1. CASE HotNext
    BY <1>0, <2>1 DEF HotNext
  <2>2. CASE HotReadReleased
    BY <1>0, <2>2 DEF HotReadReleased
  <2>3. CASE HotCheckTimeout
    <3>1. hot.at = "elapsed" /\ hot'.at \in {"delay", "oep"} /\ hot'.ready = hot.ready
      BY <2>3 DEF HotCheckTimeout
    <3> QED
      BY <1>0, <2>3, <3>1 DEF HotCheckTimeout
  <2>4. ASSUME NEW m \in HotMods, HotPoll(m) PROVE WorkerInv'
    <3>1. /\ released /\ UNCHANGED <<launch, io, captured, injected>>
          /\ hot'.at \in {"level", "delay"}
      BY <2>4 DEF HotPoll, Poll
    <3> QED
      BY <1>0, <3>1
  <2>5. ASSUME NEW m \in HotMods, HotInject(m) PROVE WorkerInv'
    <3>1. hot'.at = "next" /\ UNCHANGED <<launch, io, captured, released>>
      BY <2>5 DEF HotInject
    <3>2. \A i \in injected' : i \in injected \/ i.ready = hot.ready
      BY <2>5 DEF HotInject
    <3>3. hot.ready => released
      BY <2>5 DEF HotInject
    <3> QED
      BY <3>1, <3>2, <3>3
  <2> QED
    BY <1>4, <2>1, <2>2, <2>3, <2>4, <2>5 DEF HotStep
<1>5. CASE Tick
  <2>1. /\ io'.at = io.at /\ hot'.at = hot.at /\ hot'.ready = hot.ready
        /\ UNCHANGED <<launch, captured, released, injected>>
    BY <1>5 DEF Tick, TypeOK, IoTypeOK, HotTypeOK
  <2> QED
    BY <2>1 DEF Static
<1>6. CASE GameWindow \/ Rest \/ UNCHANGED vars
  BY <1>6 DEF GameWindow, ShowWindow, Rest, vars, Static
<1> QED
  BY <1>1, <1>2, <1>3, <1>4, <1>5, <1>6 DEF Next

LEMMA WorkerInvInit == Init => WorkerInv
  BY DEF Init, WorkerInv

\* In a static launch neither the runtime I/O nor a ready hot mod touches the
\* process before the bootstrap completed and the OEP was released.
THEOREM WorkersWait == Spec => []WorkersWaitForRelease
<1>1. TypeOK /\ WorkerInv /\ [Next]_vars => WorkerInv'
  BY WorkerInvStep
<1>2. Spec => []WorkerInv
  BY <1>1, WorkerInvInit, BootTypeCorrect, PTL DEF Spec
<1>3. GateInv /\ WorkerInv => WorkersWaitForRelease
  BY DEF GateInv, StartupTable, WorkerInv, WorkersWaitForRelease, Finished
<1> QED
  BY <1>2, <1>3, GateInvariant, PTL

-----------------------------------------------------------------------------

\* A tick does not make a counter that was smaller the larger one.
LEMMA LaterMonotone ==
    ASSUME NEW m \in Nat, NEW n \in Nat, NEW cap \in Nat, m <= n, n <= cap
    PROVE  Later(m, cap) <= Later(n, cap)
  BY DEF Later

LEMMA PollInvInit == Init => PollInv
  BY DEF Init, PollInv

LEMMA PollInvStep ==
    ASSUME ~MayFlicker, TypeOK, PollInv, [Next]_vars
    PROVE  PollInv'
<1> USE ConstantsAreNaturals DEF PollInv, TypeOK, HotTypeOK, WindowTypeOK, waitVars
<1>1. CASE HostStep \/ Panic \/ ReleaseStep
  <2>1. UNCHANGED <<hot, window>>
    BY <1>1 DEF HostStep, InstallHandler, PatchEntryPoint, LateAttach,
                ReachEntryPoint, HandleTrap, Dispatch, ResumeEntryPoint,
                Panic, PanicTo, ReleaseStep, Release, StampRelease
  <2> QED
    BY <2>1
<1>2. CASE BootSequence
  <2>1. /\ hot' = hot \/ hot' = [hot EXCEPT !.at = "next"]
        /\ window' = window
    BY <1>2 DEF BootSequence, BootCode, BootStep, InitializeXUser, LauncherAnswers, PreparePremain,
                SetUpRuntimeIo, LoadMods, CompleteBootstrap
  <2> QED
    BY <2>1
<1>3. CASE IoStep
  BY <1>3 DEF IoStep, IoReadReleased, IoCheckTimeout, IoCapture
<1>4. CASE HotStep
  <2> USE DEF HotUnchanged
  <2>1. CASE HotNext
    BY <2>1 DEF HotNext
  <2>2. CASE HotReadReleased
    BY <2>2 DEF HotReadReleased
  <2>3. CASE HotCheckTimeout
    BY <2>3 DEF HotCheckTimeout
  <2>4. ASSUME NEW m \in HotMods, HotPoll(m) PROVE PollInv'
    <3>1. /\ hot.at = "level" /\ hot'.at \in {"level", "delay"}
          /\ hot'.at = "level" => ~hot'.ready
          /\ hot'.seen = window.shown
          /\ hot'.seenFor = IF hot.seen = window.shown THEN hot.seenFor ELSE 0
          /\ window' = window
      BY <2>4 DEF HotPoll, Poll
    <3> QED
      BY <3>1
  <2>5. ASSUME NEW m \in HotMods, HotInject(m) PROVE PollInv'
    BY <2>5 DEF HotInject
  <2> QED
    BY <1>4, <2>1, <2>2, <2>3, <2>4, <2>5 DEF HotStep
<1>5. CASE Tick
  <2> USE <1>5 DEF Tick
  <2>1. /\ hot'.at = hot.at /\ hot'.seen = hot.seen /\ hot'.ready = hot.ready
        /\ window'.shown = window.shown
        /\ window'.steady = Later(window.steady, StableFor)
    OBVIOUS
  <2>2. \/ hot'.seenFor = hot.seenFor /\ hot.at # "level"
        \/ hot'.seenFor = 0 /\ hot.seen = NoWindow
        \/ hot'.seenFor = Later(hot.seenFor, StableFor) /\ hot.seen # NoWindow
    OBVIOUS
  <2>3. hot.seenFor <= window.steady =>
            Later(hot.seenFor, StableFor) <= Later(window.steady, StableFor)
    BY LaterMonotone
  <2> QED
    BY <2>1, <2>2, <2>3
<1>6. CASE GameWindow
  <2>1. /\ hot' = hot
        /\ hot.at # "level" \/ hot.seen = window.shown
        /\ window'.shown # window.shown
    BY <1>6 DEF GameWindow, ShowWindow
  <2> QED
    BY <2>1
<1>7. CASE Rest \/ UNCHANGED vars
  BY <1>7 DEF Rest, vars
<1> QED
  BY <1>1, <1>2, <1>3, <1>4, <1>5, <1>6, <1>7 DEF Next

\* When the window does not change twice between two polls, a wait for a
\* stable window succeeds only when the window has been there for the whole
\* stable period (wait_for).
THEOREM StableWaits ==
    ASSUME ~MayFlicker
    PROVE  Spec => StableMeansSteady
<1>1. TypeOK /\ PollInv /\ [Next]_vars => PollInv'
  BY PollInvStep
<1>2. Spec => []PollInv
  BY <1>1, PollInvInit, BootTypeCorrect, PTL DEF Spec
<1>3. TypeOK /\ PollInv /\ [Next]_vars =>
        [\A m \in HotMods :
           (hot.at = "level" /\ Current(m) /\ Level[m] = StableWindow /\ hot'.ready)
               => window.steady >= StableFor]_vars
  <2> SUFFICES ASSUME TypeOK, PollInv, [Next]_vars, ~UNCHANGED vars,
                      NEW m \in HotMods, hot.at = "level", Current(m),
                      Level[m] = StableWindow, hot'.ready
               PROVE  window.steady >= StableFor
    OBVIOUS
  <2>1. ~hot.ready
    BY DEF PollInv
  <2>2. ASSUME hot'.ready = hot.ready PROVE FALSE
    BY <2>1, <2>2
  <2>3. ~(HostStep \/ Panic \/ ReleaseStep \/ IoStep \/ GameWindow \/ Rest)
    BY <2>2 DEF HostStep, InstallHandler, PatchEntryPoint, LateAttach,
                ReachEntryPoint, HandleTrap, Dispatch, ResumeEntryPoint,
                Panic, PanicTo, ReleaseStep, Release, StampRelease, IoStep,
                IoReadReleased, IoCheckTimeout, IoCapture, GameWindow,
                ShowWindow, Rest, vars, waitVars
  <2>4. ~(BootSequence \/ Tick)
    BY <2>2 DEF BootSequence, BootCode, BootStep, InitializeXUser, LauncherAnswers, PreparePremain,
                SetUpRuntimeIo, LoadMods, CompleteBootstrap, Tick, waitVars,
                TypeOK, HotTypeOK
  <2>5. PICK n \in HotMods : HotPoll(n)
    BY <2>3, <2>4 DEF Next, HotStep, HotNext, HotReadReleased, HotCheckTimeout,
                      HotInject
  <2>6. Level[n] = StableWindow
    BY <2>5, BootGateAssumption DEF HotPoll, Poll, Current, Before
  <2> DEFINE reached == \/ Level[n] = Process
                        \/ Level[n] = Window /\ window.shown # NoWindow
                        \/ SeenStable
             seenFor == IF hot.seen = window.shown THEN hot.seenFor ELSE 0
             at == IF reached \/ hot.waited >= HotTimeout THEN "delay" ELSE hot.at
  <2>7. reached
    <3>1. hot' = [hot EXCEPT !.at = at, !.ready = reached, !.seen = window.shown,
                           !.seenFor = seenFor]
      BY <2>5 DEF HotPoll, Poll
    <3> HIDE DEF reached, at, seenFor
    <3>2. hot'.ready = reached
      BY <3>1 DEF TypeOK, HotTypeOK
    <3> QED
      BY <3>2, Zenon
  <2>8. SeenStable
    BY <2>6, <2>7 DEF Process, Window, StableWindow
  <2> QED
    BY <2>8, ConstantsAreNaturals
       DEF SeenStable, PollInv, TypeOK, HotTypeOK, WindowTypeOK
<1> QED
  BY <1>2, <1>3, BootTypeCorrect, PTL DEF Spec, StableMeansSteady

-----------------------------------------------------------------------------
(* File redirection: paths.                                                *)
Plain == Names \ {".", ".."}

(* What holds at the beginning, and at each place if at the one before,    *)
(* holds at every place.                                                   *)
LEMMA CountingUp ==
    ASSUME NEW L \in Nat, NEW Holds \in SUBSET (0 .. L), 0 \in Holds,
           \A n \in 1 .. L : n - 1 \in Holds => n \in Holds
    PROVE  Holds = 0 .. L
<1> DEFINE Less == {pair \in Nat \X Nat : pair[1] < pair[2]}
           Missing == (0 .. L) \ Holds
<1> SUFFICES ASSUME Missing # {} PROVE FALSE
  OBVIOUS
<1>1. IsWellFoundedOn(Less, Nat)
  BY NatLessThanWellFounded DEF OpToRel
<1>2. Missing \subseteq Nat
  OBVIOUS
<1> HIDE DEF Less
<1>3. PICK n \in Missing : \A m \in Missing : ~ (<<m, n>> \in Less)
  <2> HIDE DEF Missing
  <2> QED
    BY <1>1, <1>2, WFMin, Zenon
<1>4. n \in 1 .. L /\ n - 1 \in Nat /\ n - 1 < n /\ n - 1 \in Missing
  BY <1>3
<1>5. <<n - 1, n>> \in Less
  BY <1>4 DEF Less
<1> QED
  BY <1>3, <1>4, <1>5

(* One name more leaves the stack free of "." and "..".                    *)
LEMMA AfterIsPlain ==
  ASSUME NEW stack \in Seq(Plain), NEW name \in Names
  PROVE  After(stack, name) \in Seq(Plain)
<1>1. CASE name = "." \/ (name = ".." /\ stack = <<>>)
  BY <1>1 DEF After
<1>2. CASE name = ".." /\ stack # <<>>
  <2>1. SubSeq(stack, 1, Len(stack) - 1) \in Seq(Plain)
    OBVIOUS
  <2> QED
    BY <1>2, <2>1 DEF After, Front
<1>3. CASE name \in Plain
  <2>1. Append(stack, name) \in Seq(Plain)
    BY <1>3
  <2> QED
    BY <1>3, <2>1 DEF After, Plain
<1> QED
  BY <1>1, <1>2, <1>3 DEF Plain

(* The stacks of canonicalize_lexical_windows_path are what their          *)
(* definition says, and free of "." and "..".                              *)
StacksOf(f, names, L) ==
  /\ f \in [0 .. L -> Seq(Plain)] /\ f[0] = <<>>
  /\ \A i \in 1 .. L : f[i] = After(f[i - 1], names[i])

LEMMA StacksAre ==
  ASSUME NEW names \in Seq(Names)
  PROVE  StacksOf(Stacks(names), names, Len(names))
<1> DEFINE L == Len(names)
           Holds == {n \in 0 .. L : \E f : StacksOf(f, names, n)}
           Is(f) == f = [i \in 0 .. L |-> IF i = 0 THEN <<>> ELSE After(f[i - 1], names[i])]
<1>1. L \in Nat /\ \A i \in 1 .. L : names[i] \in Names
  OBVIOUS
<1>2. 0 \in Holds
  <2>1. StacksOf([i \in 0 .. 0 |-> <<>>], names, 0)
    BY DEF StacksOf
  <2> QED
    BY <1>1, <2>1
<1>3. ASSUME NEW n \in 1 .. L, n - 1 \in Holds PROVE n \in Holds
  <2>1. PICK f : StacksOf(f, names, n - 1)
    BY <1>3
  <2>2. f[n - 1] \in Seq(Plain) /\ After(f[n - 1], names[n]) \in Seq(Plain)
    <3>1. f[n - 1] \in Seq(Plain)
      BY <2>1 DEF StacksOf
    <3>2. names[n] \in Names
      BY <1>1
    <3> QED
      BY <3>1, <3>2, AfterIsPlain
  <2> DEFINE g == [i \in 0 .. n |-> IF i = n THEN After(f[n - 1], names[n]) ELSE f[i]]
  <2>3. g \in [0 .. n -> Seq(Plain)] /\ g[0] = <<>>
    BY <2>1, <2>2 DEF StacksOf
  <2>4. ASSUME NEW i \in 1 .. n PROVE g[i] = After(g[i - 1], names[i])
    <3>1. i - 1 \in 0 .. n - 1 /\ g[i - 1] = f[i - 1]
      OBVIOUS
    <3>2. CASE i = n
      <4>1. g[n] = After(f[n - 1], names[n])
        OBVIOUS
      <4> HIDE DEF g
      <4> QED
        BY <3>1, <3>2, <4>1, Zenon
    <3>3. CASE i # n
      <4>1. i \in 1 .. n - 1 /\ g[i] = f[i]
        BY <3>3
      <4>2. f[i] = After(f[i - 1], names[i])
        BY <2>1, <4>1 DEF StacksOf
      <4> HIDE DEF g
      <4> QED
        BY <3>1, <4>1, <4>2, Zenon
    <3> QED
      BY <3>2, <3>3
  <2>5. StacksOf(g, names, n)
    <3> HIDE DEF g
    <3> QED
      BY <2>3, <2>4 DEF StacksOf
  <2> QED
    BY <1>1, <2>5
<1>4. PICK f : StacksOf(f, names, L)
  <2>1. Holds = 0 .. L
    <3> HIDE DEF Holds
    <3>1. Holds \in SUBSET (0 .. L)
      BY DEF Holds
    <3> QED
      BY <1>1, <1>2, <1>3, <3>1, CountingUp
  <2> QED
    BY <1>1, <2>1
<1>5. Is(f)
  BY <1>1, <1>4 DEF StacksOf
<1>6. Stacks(names) = CHOOSE g : Is(g)
  BY DEF Stacks
<1>7. Is(Stacks(names))
  <2> HIDE DEF Is
  <2> QED
    BY <1>5, <1>6
<1> DEFINE R == Stacks(names)
<1>8. R = [i \in 0 .. L |-> IF i = 0 THEN <<>> ELSE After(R[i - 1], names[i])]
  BY <1>7
<1> HIDE DEF R
<1>9. R[0] = <<>> /\ \A i \in 1 .. L : R[i] = After(R[i - 1], names[i])
  BY <1>1, <1>8
<1> DEFINE Right == {n \in 0 .. L : R[n] \in Seq(Plain)}
<1>10. 0 \in Right /\ \A n \in 1 .. L : n - 1 \in Right => n \in Right
  <2>1. 0 \in Right
    <3>1. <<>> \in Seq(Plain) /\ 0 \in 0 .. L
      BY <1>1
    <3> QED
      BY <1>9, <3>1
  <2>2. ASSUME NEW n \in 1 .. L, n - 1 \in Right PROVE n \in Right
    <3>1. R[n - 1] \in Seq(Plain) /\ names[n] \in Names
      BY <1>1, <2>2
    <3>2. R[n] \in Seq(Plain)
      BY <1>9, <3>1, AfterIsPlain
    <3> QED
      BY <3>2
  <2> QED
    BY <2>1, <2>2
<1>11. Right = 0 .. L
  <2> HIDE DEF Right
  <2>1. Right \in SUBSET (0 .. L)
    BY DEF Right
  <2> QED
    BY <1>1, <1>10, <2>1, CountingUp
<1>12. R \in [0 .. L -> Seq(Plain)]
  BY <1>8, <1>11
<1> QED
  BY <1>9, <1>12 DEF StacksOf, R

(* A canonical path has no "." or ".." left ...                            *)
LEMMA CanonicalIsPlain ==
  ASSUME NEW names \in Seq(Names)
  PROVE  Canonical(names) \in Seq(Plain)
  BY StacksAre DEF StacksOf, Canonical

(* ... and one that has none is canonical.                                 *)
LEMMA PlainIsCanonical ==
  ASSUME NEW names \in Seq(Plain)
  PROVE  Canonical(names) = names
<1> DEFINE L == Len(names)
           R == Stacks(names)
           Same == {n \in 0 .. L : R[n] = SubSeq(names, 1, n)}
<1>1. L \in Nat /\ \A i \in 1 .. L : names[i] \in Plain /\ names[i] \in Names
  BY DEF Plain
<1>2. names \in Seq(Names)
  BY DEF Plain
<1>3. StacksOf(R, names, L)
  BY <1>2, StacksAre
<1> HIDE DEF R
<1>4. 0 \in Same
  BY <1>1, <1>3 DEF StacksOf
<1>5. ASSUME NEW n \in 1 .. L, n - 1 \in Same PROVE n \in Same
  <2>1. R[n] = After(R[n - 1], names[n]) /\ R[n - 1] = SubSeq(names, 1, n - 1)
    BY <1>3, <1>5 DEF StacksOf
  <2>2. R[n] = Append(SubSeq(names, 1, n - 1), names[n])
    BY <1>1, <2>1 DEF After, Plain
  <2>3. SubSeq(names, 1, n) = Append(SubSeq(names, 1, n - 1), names[n])
    OBVIOUS
  <2> QED
    BY <2>2, <2>3
<1>6. Same = 0 .. L
  <2> HIDE DEF Same
  <2>1. Same \in SUBSET (0 .. L)
    BY DEF Same
  <2> QED
    BY <1>1, <1>4, <1>5, <2>1, CountingUp
<1>7. R[L] = SubSeq(names, 1, L)
  <2>1. L \in 0 .. L
    BY <1>1
  <2> QED
    BY <1>6, <2>1
<1>8. SubSeq(names, 1, L) = names
  OBVIOUS
<1> QED
  BY <1>7, <1>8 DEF R, Canonical

-----------------------------------------------------------------------------
(* A finite set can be put in order by a size its elements have, the       *)
(* largest first.                                                          *)
BySize(order, S, size) ==
  \A m, n \in 1 .. Cardinality(S) : m < n =>
      order[m] # order[n] /\ size[order[m]] >= size[order[n]]

LEMMA OrderExists ==
  ASSUME NEW S, IsFiniteSet(S), NEW size \in [S -> Nat]
  PROVE  \E order \in [1 .. Cardinality(S) -> S] : BySize(order, S, size)
<1> DEFINE C == Cardinality(S)
           Rising(q, n) ==
             /\ q \in [1 .. n -> S]
             /\ \A i, j \in 1 .. n : i < j => q[i] # q[j] /\ size[q[i]] <= size[q[j]]
             /\ \A x \in S : (\E i \in 1 .. n : q[i] = x)
                            \/ (\A i \in 1 .. n : size[q[i]] <= size[x])
           Holds == {n \in 0 .. C : \E q : Rising(q, n)}
           Less == {pair \in Nat \X Nat : pair[1] < pair[2]}
<1>1. C \in Nat
  BY FS_CardinalityType
<1>2. IsWellFoundedOn(Less, Nat)
  BY NatLessThanWellFounded DEF OpToRel
<1>3. 0 \in Holds
  <2>1. Rising([i \in 1 .. 0 |-> 0], 0)
    OBVIOUS
  <2> HIDE DEF Rising
  <2> QED
    BY <1>1, <2>1
<1>4. ASSUME NEW n \in 1 .. C, n - 1 \in Holds PROVE n \in Holds
  <2>1. PICK q : Rising(q, n - 1)
    BY <1>4
  <2> DEFINE Others == {x \in S : \A i \in 1 .. n - 1 : q[i] # x}
             Sizes == {size[x] : x \in Others}
  <2>2. Others # {}
    <3> SUFFICES ASSUME Others = {} PROVE FALSE
      OBVIOUS
    <3>1. q \in Surjection(1 .. n - 1, S)
      BY <2>1 DEF Surjection
    <3>2. n - 1 \in Nat /\ ExistsSurjection(1 .. n - 1, S)
      BY <1>1, <3>1 DEF ExistsSurjection
    <3>3. C <= n - 1
      BY <3>2, FS_SurjCardinalityBound
    <3> QED
      BY <1>1, <3>3
  <2>3. Sizes \subseteq Nat /\ Sizes # {}
    BY <2>2
  <2>4. PICK least \in Sizes : \A m \in Sizes : ~ (<<m, least>> \in Less)
    <3> HIDE DEF Sizes, Less
    <3> QED
      BY <1>2, <2>3, WFMin, Zenon
  <2>5. PICK y \in Others : size[y] = least
    OBVIOUS
  <2>6. \A x \in Others : size[y] <= size[x]
    <3> SUFFICES ASSUME NEW x \in Others PROVE size[y] <= size[x]
      OBVIOUS
    <3>1. size[x] \in Sizes /\ size[x] \in Nat /\ size[y] \in Nat
      OBVIOUS
    <3>2. ~ (<<size[x], size[y]>> \in Less)
      BY <2>4, <2>5, <3>1
    <3> QED
      BY <3>1, <3>2
  <2> DEFINE r == [i \in 1 .. n |-> IF i = n THEN y ELSE q[i]]
  <2>7. r \in [1 .. n -> S] /\ r[n] = y /\ \A i \in 1 .. n - 1 : r[i] = q[i]
    BY <2>1
  <2>8. \A i \in 1 .. n - 1 : q[i] # y /\ size[q[i]] <= size[y]
    BY <2>1
  <2> HIDE DEF r
  <2>9. ASSUME NEW i \in 1 .. n, NEW j \in 1 .. n, i < j
        PROVE  r[i] # r[j] /\ size[r[i]] <= size[r[j]]
    <3>1. CASE j = n
      <4>1. i \in 1 .. n - 1
        BY <2>9
      <4> QED
        BY <2>7, <2>8, <3>1, <4>1
    <3>2. CASE j # n
      <4>1. i \in 1 .. n - 1 /\ j \in 1 .. n - 1
        BY <2>9, <3>2
      <4> QED
        BY <2>1, <2>7, <2>9, <4>1
    <3> QED
      BY <3>1, <3>2
  <2>10. ASSUME NEW x \in S
         PROVE  \/ \E i \in 1 .. n : r[i] = x
                \/ \A i \in 1 .. n : size[r[i]] <= size[x]
    <3>1. CASE x \in Others
      <4>1. size[y] <= size[x]
        BY <2>6, <3>1
      <4>2. ASSUME NEW i \in 1 .. n PROVE size[r[i]] <= size[x]
        <5>1. CASE i = n
          BY <2>7, <4>1, <5>1
        <5>2. CASE i # n
          <6>1. i \in 1 .. n - 1 /\ r[i] = q[i]
            BY <2>7, <5>2
          <6>2. size[q[i]] <= size[x]
            BY <2>1, <3>1, <6>1
          <6> QED
            BY <6>1, <6>2
        <5> QED
          BY <5>1, <5>2
      <4> QED
        BY <4>2
    <3>2. CASE x \notin Others
      <4>1. PICK i \in 1 .. n - 1 : q[i] = x
        BY <3>2
      <4>2. i \in 1 .. n
        OBVIOUS
      <4> QED
        BY <2>7, <4>1, <4>2
    <3> QED
      BY <3>1, <3>2
  <2>11. Rising(r, n)
    BY <2>7, <2>9, <2>10
  <2>12. n \in 0 .. C
    OBVIOUS
  <2> HIDE DEF Rising
  <2> QED
    BY <2>11, <2>12
<1>5. PICK q : Rising(q, C)
  <2>1. Holds = 0 .. C
    <3> HIDE DEF Holds
    <3>1. Holds \in SUBSET (0 .. C)
      BY DEF Holds
    <3> QED
      BY <1>1, <1>3, <1>4, <3>1, CountingUp
  <2> HIDE DEF Rising
  <2> QED
    BY <1>1, <2>1
<1> DEFINE order == [m \in 1 .. C |-> q[C + 1 - m]]
<1>6. \A m \in 1 .. C : C + 1 - m \in 1 .. C
  BY <1>1
<1>7. order \in [1 .. C -> S]
  BY <1>5, <1>6
<1>8. ASSUME NEW m \in 1 .. C, NEW n \in 1 .. C, m < n
      PROVE  order[m] # order[n] /\ size[order[m]] >= size[order[n]]
  <2> DEFINE a == C + 1 - m
             b == C + 1 - n
  <2>1. a \in 1 .. C /\ b \in 1 .. C /\ b < a
    BY <1>1, <1>8
  <2>2. order[m] = q[a] /\ order[n] = q[b]
    OBVIOUS
  <2> HIDE DEF a, b, order
  <2>3. q[b] # q[a] /\ size[q[b]] <= size[q[a]]
    BY <1>5, <2>1
  <2>4. size[q[a]] \in Nat /\ size[q[b]] \in Nat
    BY <1>5, <2>1
  <2> QED
    BY <2>2, <2>3, <2>4
<1> QED
  BY <1>7, <1>8 DEF BySize

(* As many different elements as a finite set has are all of its elements. *)
LEMMA OrderIsComplete ==
  ASSUME NEW S, IsFiniteSet(S), NEW order \in [1 .. Cardinality(S) -> S],
         \A m, n \in 1 .. Cardinality(S) : m < n => order[m] # order[n]
  PROVE  \A x \in S : \E n \in 1 .. Cardinality(S) : order[n] = x
<1> DEFINE C == Cardinality(S)
<1>1. C \in Nat
  BY FS_CardinalityType
<1>2. IsFiniteSet(1 .. C) /\ Cardinality(1 .. C) = C
  BY <1>1, FS_Interval
<1>3. \A m, n \in 1 .. C : order[m] = order[n] => m = n
  <2> SUFFICES ASSUME NEW m \in 1 .. C, NEW n \in 1 .. C, order[m] = order[n], m # n
               PROVE  FALSE
    OBVIOUS
  <2>1. m < n \/ n < m
    OBVIOUS
  <2> QED
    BY <2>1
<1>4. order \in Injection(1 .. C, S)
  BY <1>3 DEF Injection, IsInjective
<1>5. order \in Surjection(1 .. C, S)
  <2> HIDE DEF C
  <2> QED
    BY <1>2, <1>4, FS_Injection DEF C
<1> QED
  BY <1>5 DEF Surjection

-----------------------------------------------------------------------------
(* The rules.                                                              *)
Rules == [source : Seq(Plain), target : Seq(Plain), ns : {"none", "extended", "nt"},
          directory : BOOLEAN]

LEMMA AbsoluteIsPlain ==
  ASSUME NEW path \in Paths
  PROVE  Absolute(path) \in Seq(Plain)
<1>1. path.names \in Seq(Names) /\ GameDir \o path.names \in Seq(Names)
  BY FileRedirectionAssumption DEF Paths
<1> QED
  BY <1>1, CanonicalIsPlain DEF Absolute

(* What is absolute and canonical stays as it is.                          *)
LEMMA AbsoluteOnce ==
  ASSUME NEW names \in Seq(Plain), NEW ns
  PROVE  Absolute(Drive(ns, names)) = names
  BY PlainIsCanonical DEF Absolute, Drive

LEMMA ListedAre ==
  ASSUME NEW cfg \in Configs
  PROVE  Listed(cfg) \in Seq(Configured)
<1>1. cfg.rules \in Seq(Configured) /\ cfg.root \in Paths \cup {Disabled}
  BY FileRedirectionAssumption
<1>2. KnownRoots(cfg.root) \in Seq(Configured)
  <2>1. CASE cfg.root = Disabled
    BY <2>1 DEF KnownRoots
  <2>2. CASE cfg.root # Disabled
    <3> DEFINE known(i) == [source |-> Drive("none", DataRoots[i]), target |-> cfg.root,
                            directory |-> TRUE]
    <3>1. DataRoots \in Seq(Seq(Names)) /\ Len(DataRoots) \in Nat
          /\ DOMAIN DataRoots = 1 .. Len(DataRoots)
      BY FileRedirectionAssumption
    <3>2. ASSUME NEW i \in 1 .. Len(DataRoots) PROVE known(i) \in Configured
      <4>1. DataRoots[i] \in Seq(Names)
        BY <3>1
      <4>2. Drive("none", DataRoots[i]) \in Paths
        BY <4>1 DEF Drive, Paths
      <4> QED
        BY <1>1, <2>2, <4>2 DEF Configured
    <3> HIDE DEF known
    <3>3. [i \in 1 .. Len(DataRoots) |-> known(i)] \in Seq(Configured)
      BY <3>1, <3>2
    <3> QED
      BY <2>2, <3>1, <3>3 DEF KnownRoots, known
  <2> QED
    BY <2>1, <2>2
<1> QED
  BY <1>1, <1>2 DEF Listed

LEMMA RuleOfIsRule ==
  ASSUME NEW cfg \in Configs, NEW i \in DOMAIN Listed(cfg)
  PROVE  RuleOf(cfg, i) \in Rules
<1>1. Listed(cfg)[i] \in Configured
  BY ListedAre
<1>2. Listed(cfg)[i].source \in Paths /\ Listed(cfg)[i].target \in Paths
      /\ Listed(cfg)[i].directory \in BOOLEAN
  BY <1>1 DEF Configured
<1>3. Listed(cfg)[i].target.ns \in {"none", "extended", "nt"}
  BY <1>2 DEF Paths
<1>4. Absolute(Listed(cfg)[i].source) \in Seq(Plain)
      /\ Absolute(Listed(cfg)[i].target) \in Seq(Plain)
  BY <1>2, AbsoluteIsPlain
<1> QED
  BY <1>2, <1>3, <1>4 DEF RuleOf, Rule, Rules

LEMMA CountingIs ==
  ASSUME NEW cfg \in Configs
  PROVE  /\ Counting(cfg) \subseteq DOMAIN Listed(cfg) /\ Counting(cfg) \subseteq Nat
         /\ IsFiniteSet(Counting(cfg)) /\ Cardinality(Counting(cfg)) \in Nat
         /\ \A i \in Counting(cfg) : RuleOf(cfg, i) \in Rules
         /\ \A i, j \in Counting(cfg) :
               Key(RuleOf(cfg, i).source) = Key(RuleOf(cfg, j).source) => i = j
<1> DEFINE L == Len(Listed(cfg))
<1>1. L \in Nat /\ DOMAIN Listed(cfg) = 1 .. L
  BY ListedAre
<1>2. Counting(cfg) \subseteq 1 .. L
  BY <1>1 DEF Counting, Made
<1>3. IsFiniteSet(1 .. L)
  BY <1>1, FS_Interval
<1>4. IsFiniteSet(Counting(cfg))
  BY <1>2, <1>3, FS_Subset
<1>5. Cardinality(Counting(cfg)) \in Nat
  BY <1>4, FS_CardinalityType
<1>6. \A i \in Counting(cfg) : RuleOf(cfg, i) \in Rules
  BY <1>1, <1>2, RuleOfIsRule
<1>7. ASSUME NEW i \in Counting(cfg), NEW j \in Counting(cfg),
             Key(RuleOf(cfg, i).source) = Key(RuleOf(cfg, j).source), i # j
      PROVE  FALSE
  <2>1. i \in Made(cfg) /\ j \in Made(cfg) /\ (i < j \/ j < i)
    BY <1>1, <1>2, <1>7 DEF Counting
  <2> QED
    BY <1>7, <2>1, Zenon DEF Counting
<1> QED
  BY <1>1, <1>2, <1>4, <1>5, <1>6, <1>7

(* The rules are those that count, each once, those with the longest       *)
(* source first.                                                           *)
LEMMA RulesAre ==
  ASSUME NEW cfg \in Configs
  PROVE  \E order \in [1 .. Cardinality(Counting(cfg)) -> Counting(cfg)] :
           /\ RulesOf(cfg) = [n \in 1 .. Cardinality(Counting(cfg)) |-> RuleOf(cfg, order[n])]
           /\ \A m, n \in 1 .. Cardinality(Counting(cfg)) : m < n =>
                Len(RuleOf(cfg, order[m]).source) >= Len(RuleOf(cfg, order[n]).source)
           /\ \A i \in Counting(cfg) :
                \E n \in 1 .. Cardinality(Counting(cfg)) : order[n] = i
<1> DEFINE S == Counting(cfg)
           C == Cardinality(S)
           size == [i \in S |-> Len(RuleOf(cfg, i).source)]
           picked == CHOOSE o \in Orders(cfg) : TRUE
<1>1. C \in Nat /\ IsFiniteSet(S) /\ \A i \in S : RuleOf(cfg, i) \in Rules
  BY CountingIs
<1>2. size \in [S -> Nat]
  BY <1>1 DEF Rules
<1>3. PICK o \in [1 .. C -> S] : BySize(o, S, size)
  <2> HIDE DEF S, size
  <2> QED
    BY <1>1, <1>2, OrderExists
<1>4. o \in Orders(cfg)
  <2>1. DOMAIN o = 1 .. C
    OBVIOUS
  <2>2. ASSUME NEW m \in 1 .. C, NEW n \in 1 .. C, m < n
        PROVE  /\ o[m] # o[n]
               /\ Len(RuleOf(cfg, o[m]).source) >= Len(RuleOf(cfg, o[n]).source)
    <3>1. o[m] \in S /\ o[n] \in S
      OBVIOUS
    <3>2. size[o[m]] = Len(RuleOf(cfg, o[m]).source)
          /\ size[o[n]] = Len(RuleOf(cfg, o[n]).source)
      BY <3>1
    <3> HIDE DEF S, size
    <3> QED
      BY <1>3, <2>2, <3>2 DEF BySize, C
  <2> QED
    BY <2>1, <2>2 DEF Orders
<1>5. picked \in Orders(cfg)
  BY <1>4, Zenon
<1> HIDE DEF picked
<1>6. /\ picked \in [1 .. C -> S]
      /\ \A m, n \in 1 .. C : m < n =>
           /\ picked[m] # picked[n]
           /\ Len(RuleOf(cfg, picked[m]).source) >= Len(RuleOf(cfg, picked[n]).source)
  BY <1>5 DEF Orders
<1>7. DOMAIN picked = 1 .. C
  BY <1>6
<1>8. RulesOf(cfg) = [n \in 1 .. C |-> RuleOf(cfg, picked[n])]
  BY <1>7 DEF RulesOf, picked
<1>9. \A i \in S : \E n \in 1 .. C : picked[n] = i
  <2> HIDE DEF S
  <2> QED
    BY <1>1, <1>6, OrderIsComplete
<1> QED
  BY <1>6, <1>8, <1>9

-----------------------------------------------------------------------------
(* Which rule decides.                                                     *)
LEMMA KeyIs ==
  ASSUME NEW names \in Seq(Names)
  PROVE  Key(names) \in Seq(Names) /\ Len(Key(names)) = Len(names)
<1>1. Len(names) \in Nat /\ \A i \in 1 .. Len(names) : LowerCase[names[i]] \in Names
  BY FileRedirectionAssumption
<1>2. [i \in 1 .. Len(names) |-> LowerCase[names[i]]] \in Seq(Names)
  BY <1>1
<1> QED
  BY <1>1, <1>2 DEF Key

LEMMA PlainAreNames == Seq(Plain) \subseteq Seq(Names)
  BY DEF Plain

(* The key of its source is where the key of a name a rule covers begins.  *)
LEMMA CoversBeginning ==
  ASSUME NEW rule \in Rules, NEW names \in Seq(Plain), Covers(rule, names)
  PROVE  /\ Len(rule.source) \in Nat /\ Len(rule.source) <= Len(names)
         /\ Key(rule.source) = SubSeq(Key(names), 1, Len(rule.source))
<1>1. rule.source \in Seq(Names) /\ names \in Seq(Names)
  BY PlainAreNames DEF Rules
<1>2. /\ Key(rule.source) \in Seq(Names) /\ Len(Key(rule.source)) = Len(rule.source)
      /\ Key(names) \in Seq(Names) /\ Len(Key(names)) = Len(names)
  BY <1>1, KeyIs
<1>3. CASE Key(names) = Key(rule.source)
  <2>1. SubSeq(Key(names), 1, Len(Key(names))) = Key(names)
    BY <1>2
  <2> QED
    BY <1>1, <1>2, <1>3, <2>1
<1>4. CASE IsPrefix(Key(rule.source), Key(names))
  <2>1. SubSeq(Key(rule.source), 1, Len(Key(rule.source))) = Key(rule.source)
    BY <1>2
  <2> QED
    BY <1>1, <1>2, <1>4, <2>1 DEF IsPrefix
<1> QED
  BY <1>3, <1>4 DEF Covers, IsStrictPrefix

LEMMA BelowIsPlain ==
  ASSUME NEW rule \in Rules, NEW names \in Seq(Plain), Covers(rule, names)
  PROVE  Below(rule, names) \in Seq(Plain)
<1>1. Len(rule.source) \in Nat /\ Len(rule.source) <= Len(names)
  BY CoversBeginning
<1>2. SubSeq(names, Len(rule.source) + 1, Len(names)) \in Seq(Plain)
  BY <1>1
<1>3. rule.target \in Seq(Plain)
  BY DEF Rules
<1> QED
  BY <1>2, <1>3 DEF Below

(* Of the rules that count, no two with sources of one length apply to a   *)
(* name.                                                                   *)
LEMMA OneDeepest ==
  ASSUME NEW cfg \in Configs, NEW names \in Seq(Plain),
         NEW i \in Covering(cfg, names), NEW j \in Covering(cfg, names),
         Len(RuleOf(cfg, i).source) = Len(RuleOf(cfg, j).source)
  PROVE  i = j
<1>1. /\ i \in Counting(cfg) /\ Covers(RuleOf(cfg, i), names)
      /\ j \in Counting(cfg) /\ Covers(RuleOf(cfg, j), names)
  BY DEF Covering
<1>2. RuleOf(cfg, i) \in Rules /\ RuleOf(cfg, j) \in Rules
  BY <1>1, CountingIs
<1>3. /\ Key(RuleOf(cfg, i).source) = SubSeq(Key(names), 1, Len(RuleOf(cfg, i).source))
      /\ Key(RuleOf(cfg, j).source) = SubSeq(Key(names), 1, Len(RuleOf(cfg, j).source))
  BY <1>1, <1>2, CoversBeginning
<1>4. Key(RuleOf(cfg, i).source) = Key(RuleOf(cfg, j).source)
  BY <1>3
<1> QED
  BY <1>1, <1>4, CountingIs

Deepest(cfg, names) ==
  CHOOSE i \in Covering(cfg, names) : \A j \in Covering(cfg, names) :
      Len(RuleOf(cfg, i).source) >= Len(RuleOf(cfg, j).source)
Found(names) == SelectInSeq(rules, LAMBDA rule : Covers(rule, names))

(* The first rule that applies to a name is the one with the deepest       *)
(* source.                                                                 *)
LEMMA FirstIsDeepest ==
  ASSUME NEW cfg \in Configs, rules = RulesOf(cfg), NEW names \in Seq(Plain)
  PROVE  /\ Covering(cfg, names) = {} => Found(names) = 0
         /\ Covering(cfg, names) # {} =>
              /\ Found(names) # 0
              /\ Deepest(cfg, names) \in Covering(cfg, names)
              /\ rules[Found(names)] = RuleOf(cfg, Deepest(cfg, names))
<1> DEFINE S == Counting(cfg)
           C == Cardinality(S)
           V == Covering(cfg, names)
           Hits == {n \in 1 .. Len(rules) : Covers(rules[n], names)}
           Lens(i) == Len(RuleOf(cfg, i).source)
<1>1. PICK order \in [1 .. C -> S] :
        /\ RulesOf(cfg) = [n \in 1 .. C |-> RuleOf(cfg, order[n])]
        /\ \A m, n \in 1 .. C : m < n => Lens(order[m]) >= Lens(order[n])
        /\ \A i \in S : \E n \in 1 .. C : order[n] = i
  BY RulesAre
<1>2. C \in Nat /\ \A i \in S : RuleOf(cfg, i) \in Rules
  BY CountingIs
<1>3. Len(rules) = C /\ \A n \in 1 .. C : rules[n] = RuleOf(cfg, order[n])
  BY <1>1, <1>2
<1>4. \A n \in 1 .. C : n \in Hits <=> order[n] \in V
  BY <1>1, <1>3 DEF Covering
<1>5. Hits \subseteq 1 .. C
  BY <1>3
<1>6. V \subseteq S
  BY DEF Covering
<1>7. Found(names) = IF Hits # {} THEN Min(Hits) ELSE 0
  BY DEF Found, SelectInSeq
<1>8. \A i \in V : Lens(i) \in Nat
  BY <1>2, <1>6 DEF Rules
<1> HIDE DEF Hits, S, V, Lens
<1>9. CASE V = {}
  <2>1. Hits = {}
    BY <1>4, <1>5, <1>9
  <2> QED
    BY <1>7, <1>9, <2>1 DEF V
<1>10. CASE V # {}
  <2>1. Hits # {}
    <3>1. PICK i \in V : TRUE
      BY <1>10
    <3>2. PICK n \in 1 .. C : order[n] = i
      BY <1>1, <1>6, <3>1
    <3> QED
      BY <1>4, <3>1, <3>2
  <2> DEFINE n == Min(Hits)
  <2>2. n \in Hits /\ \A m \in Hits : n <= m
    <3> DEFINE Less == {pair \in Nat \X Nat : pair[1] < pair[2]}
    <3>1. IsWellFoundedOn(Less, Nat)
      BY NatLessThanWellFounded DEF OpToRel
    <3>2. Hits \subseteq Nat
      BY <1>2, <1>5
    <3>3. PICK k \in Hits : \A m \in Hits : ~ (<<m, k>> \in Less)
      <4> HIDE DEF Less
      <4> QED
        BY <2>1, <3>1, <3>2, WFMin, Zenon
    <3>4. ASSUME NEW m \in Hits PROVE k <= m
      <4>1. m \in Nat /\ k \in Nat /\ ~ (<<m, k>> \in Less)
        BY <3>2, <3>3
      <4> QED
        BY <4>1
    <3> QED
      BY <3>4 DEF Min
  <2> HIDE DEF n
  <2>3. n \in 1 .. C /\ order[n] \in V
    BY <1>4, <1>5, <2>2
  <2>4. \A j \in V : Lens(order[n]) >= Lens(j)
    <3> SUFFICES ASSUME NEW j \in V PROVE Lens(order[n]) >= Lens(j)
      OBVIOUS
    <3>1. PICK m \in 1 .. C : order[m] = j
      BY <1>1, <1>6
    <3>2. n <= m
      BY <1>4, <2>2, <3>1
    <3>3. CASE n = m
      BY <1>8, <3>1, <3>3
    <3>4. CASE n < m
      BY <1>1, <2>3, <3>1, <3>4
    <3> QED
      BY <1>2, <2>3, <3>2, <3>3, <3>4
  <2> DEFINE d == Deepest(cfg, names)
  <2>5. d \in V /\ \A j \in V : Lens(d) >= Lens(j)
    BY <2>3, <2>4 DEF Deepest, V, Lens
  <2> HIDE DEF d
  <2>6. Lens(d) = Lens(order[n])
    BY <1>8, <2>3, <2>4, <2>5
  <2>7. d = order[n]
    BY <2>3, <2>5, <2>6, OneDeepest DEF V, Lens
  <2>8. Found(names) = n /\ n # 0
    BY <1>2, <1>7, <2>1, <2>3 DEF n
  <2>9. rules[n] = RuleOf(cfg, d)
    BY <1>3, <2>3, <2>7
  <2> QED
    BY <1>10, <2>5, <2>8, <2>9 DEF d, V
<1> QED
  BY <1>9, <1>10

-----------------------------------------------------------------------------
(* Where names end up.                                                     *)

LEMMA MeantIs ==
  ASSUME NEW path
  PROVE  LET names == Absolute(path)
         IN Meant(path) =
              IF Covering(config, names) = {} THEN Key(names)
              ELSE Key(Below(RuleOf(config, Deepest(config, names)), names))
  BY DEF Meant, Deepest, PlaceOf

(* What the hooks make of a name, once the system has resolved it, is      *)
(* where the name is meant to be: no matter that it is sent through the    *)
(* hooks as it was written.                                                *)
Looked(path, relativeToo) == path.form = "drive" \/ (relativeToo /\ Usable(path))

LEMMA RedirectedIsMeant ==
  ASSUME config \in Configs, rules = RulesOf(config),
         NEW path \in Paths, NEW relativeToo \in BOOLEAN
  PROVE  /\ ~Looked(path, relativeToo) => Redirected(path, relativeToo) = NoPath
         /\ Looked(path, relativeToo) =>
              PlaceOf(Either(Redirected(path, relativeToo), path)) = Meant(path)
         /\ Either(Redirected(path, relativeToo), path) \in Paths
<1> DEFINE names == Absolute(path)
           n == Found(names)
           refused == path.form # "drive" /\
                        (~relativeToo \/ path.ns # "none" \/ path.form = "rooted")
           ns == IF path.ns = "none" THEN rules[n].ns ELSE path.ns
           V == Covering(config, names)
           d == Deepest(config, names)
<1>1. names \in Seq(Plain)
  BY AbsoluteIsPlain
<1>2. Redirected(path, relativeToo) =
        IF refused \/ n = 0 THEN NoPath ELSE Drive(ns, Below(rules[n], names))
  BY DEF Redirected, Found
<1>3. refused <=> ~Looked(path, relativeToo)
  BY DEF Looked, Usable, Paths
<1>4. Meant(path) = IF V = {} THEN PlaceOf(path) ELSE Key(Below(RuleOf(config, d), names))
  BY DEF Meant, Deepest
<1> HIDE DEF refused, ns
<1>5. CASE V = {}
  <2>1. n = 0
    BY <1>1, <1>5, FirstIsDeepest
  <2>2. Redirected(path, relativeToo) = NoPath
    BY <1>2, <2>1
  <2> QED
    BY <1>4, <1>5, <2>2 DEF Either
<1>6. CASE V # {} /\ ~refused
  <2>1. n # 0 /\ d \in V /\ rules[n] = RuleOf(config, d)
    BY <1>1, <1>6, FirstIsDeepest
  <2> HIDE DEF n, d, names
  <2>2. RuleOf(config, d) \in Rules /\ Covers(RuleOf(config, d), names)
    BY <2>1, CountingIs DEF Covering
  <2> DEFINE below == Below(RuleOf(config, d), names)
  <2>3. below \in Seq(Plain)
    BY <1>1, <2>2, BelowIsPlain
  <2>4. Redirected(path, relativeToo) = Drive(ns, below)
    BY <1>2, <1>6, <2>1
  <2> HIDE DEF below
  <2>5. Drive(ns, below) # NoPath
    BY DEF Drive, NoPath
  <2>6. PlaceOf(Drive(ns, below)) = Key(below)
    BY <2>3, AbsoluteOnce DEF PlaceOf
  <2>7. ns \in {"none", "extended", "nt"}
    BY <2>1, <2>2 DEF ns, Rules, Paths
  <2>8. Drive(ns, below) \in Paths
    BY <2>3, <2>7, PlainAreNames DEF Drive, Paths
  <2> QED
    BY <1>3, <1>4, <1>6, <2>4, <2>5, <2>6, <2>8 DEF Either, below
<1>7. CASE refused
  BY <1>2, <1>3, <1>7 DEF Either
<1> QED
  BY <1>3, <1>5, <1>6, <1>7

LEMMA MeantIsPlace ==
  ASSUME config \in Configs, rules = RulesOf(config),
         NEW req \in Requests, NEW n \in DOMAIN req.paths
  PROVE  /\ req.paths[n] \in Paths
         /\ PlaceOf(req.paths[n]) \in Places \cap Seq(Names)
         /\ Meant(req.paths[n]) \in Places \cap Seq(Names)
<1> DEFINE path == req.paths[n]
           names == Absolute(path)
           V == Covering(config, names)
           d == Deepest(config, names)
<1>1. req.paths \in Seq(Paths)
  BY FileRedirectionAssumption
<1>2. path \in Paths
  BY <1>1
<1>3. names \in Seq(Plain) /\ names \in Seq(Names)
  BY <1>2, AbsoluteIsPlain, PlainAreNames
<1>4. /\ Key(names) \in Places
      /\ \A i \in V : Key(Below(RuleOf(config, i), names)) \in Places
  BY PlacesAssumption
<1>5. Key(names) \in Seq(Names)
  BY <1>3, KeyIs
<1>6. Meant(path) = IF V = {} THEN Key(names) ELSE Key(Below(RuleOf(config, d), names))
  BY DEF Meant, Deepest, PlaceOf
<1>7. ASSUME V # {} PROVE Key(Below(RuleOf(config, d), names)) \in Places \cap Seq(Names)
  <2>1. d \in V
    BY <1>3, <1>7, FirstIsDeepest
  <2>2. RuleOf(config, d) \in Rules /\ Covers(RuleOf(config, d), names)
    BY <2>1, CountingIs DEF Covering
  <2>3. Below(RuleOf(config, d), names) \in Seq(Names)
    BY <1>3, <2>2, BelowIsPlain, PlainAreNames
  <2> QED
    BY <1>4, <2>1, <2>3, KeyIs
<1> QED
  BY <1>2, <1>4, <1>5, <1>6, <1>7 DEF PlaceOf

-----------------------------------------------------------------------------
(* The disk.                                                               *)
KeepsDirectories(before, after) ==
  \A p \in Places : before[p] = Directory => after[p] = Directory
Ways == Places \cap Seq(Names)

(* What is done to one place leaves a disk on which the directories are    *)
(* still there.                                                            *)
Proper(before, result) ==
  /\ result.disk \in Disks /\ KeepsDirectories(before, result.disk)
  /\ result.answer \in Answers

LEMMA PutIsProper ==
  ASSUME NEW before \in Disks, NEW p \in Places, NEW content \in Contents
  PROVE  /\ Proper(before, Put(before, p, content))
         /\ Put(before, p, content).answer = "no path" => ~CanHold(before, p)
         /\ Put(before, p, content).answer = "done" =>
               Put(before, p, content).disk = [before EXCEPT ![p] = content]
<1>1. [before EXCEPT ![p] = content] \in Disks
  BY DEF Disks
<1>2. before[p] # Directory => KeepsDirectories(before, [before EXCEPT ![p] = content])
  BY DEF KeepsDirectories, Disks
<1>3. KeepsDirectories(before, before)
  BY DEF KeepsDirectories
<1> QED
  BY <1>1, <1>2, <1>3 DEF Put, Proper, Refused, Result, Answers

LEMMA MakeIsProper ==
  ASSUME NEW before \in Disks, NEW p \in Places
  PROVE  Proper(before, Make(before, p))
  BY DEF Make, Proper, Refused, Result, Answers, KeepsDirectories, Disks

LEMMA EraseIsProper ==
  ASSUME NEW before \in Disks, NEW p \in Places
  PROVE  Proper(before, Erase(before, p))
  BY DiskAssumption DEF Erase, IsFile, Proper, Refused, Result, Answers, KeepsDirectories, Disks

LEMMA CopyIsProper ==
  ASSUME NEW before \in Disks, NEW p \in Places, NEW q \in Places
  PROVE  /\ Proper(before, Copy(before, p, q))
         /\ Copy(before, p, q).answer = "done" =>
               IsFile(before, p) /\ Copy(before, p, q).disk = [before EXCEPT ![q] = before[p]]
<1>1. CASE IsFile(before, p)
  <2>1. before[p] \in Contents
    BY <1>1 DEF IsFile
  <2>2. Copy(before, p, q) = Put(before, q, before[p])
    BY <1>1 DEF Copy
  <2> DEFINE content == before[p]
  <2>4. content \in Contents
    BY <2>1
  <2> HIDE DEF content
  <2>3. /\ Proper(before, Put(before, q, content))
        /\ Put(before, q, content).answer = "done" =>
              Put(before, q, content).disk = [before EXCEPT ![q] = content]
    BY <2>4, PutIsProper
  <2> QED
    BY <1>1, <2>2, <2>3 DEF content
<1>2. CASE ~IsFile(before, p)
  BY <1>2 DEF Copy, Proper, Refused, Result, Answers, KeepsDirectories
<1> QED
  BY <1>1, <1>2

LEMMA MoveOneIsProper ==
  ASSUME NEW before \in Disks, NEW p \in Places, NEW q \in Places
  PROVE  Proper(before, MoveOne(before, p, q))
<1> DEFINE copied == Copy(before, p, q)
<1>1. Proper(before, copied)
  BY CopyIsProper
<1>2. CASE copied.answer = "done" /\ p # q
  <2>1. IsFile(before, p) /\ copied.disk \in Disks /\ KeepsDirectories(before, copied.disk)
    BY <1>1, <1>2, CopyIsProper DEF Proper
  <2>2. before[p] # Directory
    BY <2>1, DiskAssumption DEF IsFile
  <2> HIDE DEF copied
  <2>3. [copied.disk EXCEPT ![p] = Absent] \in Disks
    BY <2>1 DEF Disks
  <2>4. KeepsDirectories(before, [copied.disk EXCEPT ![p] = Absent])
    BY <2>1, <2>2 DEF KeepsDirectories, Disks
  <2> QED
    BY <1>2, <2>3, <2>4 DEF MoveOne, Proper, Result, Answers, copied
<1>3. CASE ~ (copied.answer = "done" /\ p # q)
  BY <1>1, <1>3 DEF MoveOne
<1> QED
  BY <1>2, <1>3

(* A removal or a move of a directory: what it takes away is what it names *)
(* and what is below that.                                                 *)
OnlyBelow(before, p, result) ==
  /\ result.disk \in Disks /\ result.answer \in Answers
  /\ \/ KeepsDirectories(before, result.disk)
     \/ /\ before[p] = Directory /\ result.disk[p] # Directory
        /\ \A w \in Places : before[w] = Directory /\ ~IsPrefix(p, w) =>
             result.disk[w] = Directory

LEMMA EraseDirectoryIsProper ==
  ASSUME NEW before \in Disks, NEW p \in Places
  PROVE  OnlyBelow(before, p, EraseDirectory(before, p))
<1> DEFINE result == EraseDirectory(before, p)
<1>3. \A why \in {"missing", "denied"} :
        Refused(before, why).disk = before /\ Refused(before, why).answer \in Answers
  BY DEF Refused, Result, Answers
<1>1. CASE before[p] = Directory /\ result = Result([before EXCEPT ![p] = Absent], "done")
  <2>1. result.disk = [before EXCEPT ![p] = Absent] /\ result.answer \in Answers
    BY <1>1 DEF Result, Answers
  <2>2. result.disk \in Disks /\ result.disk[p] # Directory
    BY <2>1 DEF Disks, Absent, Directory
  <2>3. ASSUME NEW w \in Places, before[w] = Directory, ~IsPrefix(p, w)
        PROVE  result.disk[w] = Directory
    BY <2>1, <2>3 DEF Disks, IsPrefix
  <2> QED
    BY <1>1, <2>1, <2>2, <2>3, Zenon DEF OnlyBelow
<1>2. CASE \E why \in {"missing", "denied"} : result = Refused(before, why)
  <2>1. result.disk = before /\ result.answer \in Answers
    BY <1>2, <1>3, Zenon
  <2> QED
    BY <2>1, Zenon DEF OnlyBelow, KeepsDirectories
<1> QED
  BY <1>1, <1>2 DEF EraseDirectory

LEMMA MoveTreeIsProper ==
  ASSUME NEW before \in Disks, NEW p \in Places, NEW q \in Places, before[p] = Directory
  PROVE  OnlyBelow(before, p, MoveTree(before, p, q))
<1> DEFINE result == MoveTree(before, p, q)
           carried == Carried(before, p, q)
<1>3. \A why \in {"done", "no path", "denied"} :
        Result(before, why).disk = before /\ Result(before, why).answer \in Answers
  BY DEF Result, Answers
<1>1. CASE /\ result = Result(carried, "done")
           /\ \A r \in Places : IsPrefix(q, r) => before[r] = Absent
  <2>1. result.disk = carried /\ result.answer \in Answers
    BY <1>1 DEF Result, Answers
  <2>2. carried \in Disks
    BY DEF Carried, Disks
  <2>3. IsPrefix(p, p)
    BY DEF IsPrefix
  <2>4. before[p] = Directory /\ carried[p] # Directory
    BY <2>3 DEF Carried, Absent, Directory
  <2>5. ASSUME NEW w \in Places, before[w] = Directory, ~IsPrefix(p, w)
        PROVE  carried[w] = Directory
    <3>1. ~IsPrefix(q, w)
      BY <1>1, <2>5 DEF Absent, Directory
    <3> QED
      BY <2>5, <3>1 DEF Carried
  <2> QED
    <3> HIDE DEF result, carried
    <3>1. /\ result.disk \in Disks /\ result.disk[p] # Directory
          /\ \A w \in Places : before[w] = Directory /\ ~IsPrefix(p, w) =>
               result.disk[w] = Directory
      BY <2>1, <2>2, <2>4, <2>5
    <3> QED
      BY <2>1, <2>4, <3>1, Zenon DEF OnlyBelow, result
<1>2. CASE \E why \in {"done", "no path", "denied"} : result = Result(before, why)
  <2>1. result.disk = before /\ result.answer \in Answers
    BY <1>2, <1>3, Zenon
  <2> QED
    BY <2>1, Zenon DEF OnlyBelow, KeepsDirectories
<1> QED
  BY <1>1, <1>2 DEF MoveTree, Refused

LEMMA MoveIsProper ==
  ASSUME NEW before \in Disks, NEW p \in Places, NEW q \in Places
  PROVE  OnlyBelow(before, p, Move(before, p, q))
  BY MoveOneIsProper, MoveTreeIsProper DEF Move, Proper, OnlyBelow

LEMMA ReplaceIsProper ==
  ASSUME NEW before \in Disks, NEW p \in Places, NEW q \in Places, NEW backup \in Places
  PROVE  Proper(before, Replace(before, p, q, backup))
<1> DEFINE saved == Copy(before, p, backup).disk
<1>1. saved \in Disks /\ KeepsDirectories(before, saved)
  BY CopyIsProper DEF Proper
<1> HIDE DEF saved
<1>2. Proper(saved, MoveOne(saved, q, p))
  BY <1>1, MoveOneIsProper
<1>3. Proper(before, MoveOne(saved, q, p))
  BY <1>1, <1>2 DEF Proper, KeepsDirectories
<1>4. Proper(before, Refused(before, "missing"))
  BY DEF Proper, Refused, Result, KeepsDirectories, Answers
<1> QED
  BY <1>3, <1>4 DEF Replace, saved

LEMMA PerformedIsProper ==
  ASSUME NEW kind \in Kinds, NEW before \in Disks, NEW at \in Seq(Places),
         Len(at) >= NamesFor(kind), NEW content \in Contents
  PROVE  /\ OnlyBelow(before, at[1], Performed(kind, before, at, content))
         /\ kind = "create" /\ Performed(kind, before, at, content).answer = "no path"
               => ~CanHold(before, at[1])
<1>1. Len(at) \in Nat /\ Len(at) >= 1 /\ at[1] \in Places /\ at[Len(at)] \in Places
  BY DEF NamesFor, Kinds
<1>0. \A result : Proper(before, result) => OnlyBelow(before, at[1], result)
  BY DEF Proper, OnlyBelow
<1>2. CASE kind = "create"
  BY <1>0, <1>1, <1>2, PutIsProper DEF Performed
<1>3. CASE kind = "look"
  <2>1. before[at[1]] \in Answers
    BY <1>1 DEF Disks, Answers
  <2> QED
    BY <1>0, <1>3, <2>1 DEF Performed, Proper, Result, KeepsDirectories
<1>4. CASE kind = "make"
  BY <1>0, <1>1, <1>4, MakeIsProper DEF Performed
<1>5. CASE kind = "remove"
  BY <1>0, <1>1, <1>5, EraseIsProper DEF Performed
<1>9. CASE kind = "rmdir"
  BY <1>1, <1>9, EraseDirectoryIsProper DEF Performed
<1>6. CASE kind = "copy"
  <2>1. at[2] \in Places
    BY <1>1, <1>6 DEF NamesFor
  <2> QED
    BY <1>0, <1>1, <1>6, <2>1, CopyIsProper DEF Performed
<1>7. CASE kind = "move"
  <2>1. at[2] \in Places
    BY <1>1, <1>7 DEF NamesFor
  <2> QED
    BY <1>1, <1>7, <2>1, MoveIsProper DEF Performed
<1>8. CASE kind = "replace"
  <2>1. at[2] \in Places /\ at[3] \in Places
    BY <1>1, <1>8 DEF NamesFor
  <2> QED
    BY <1>0, <1>1, <1>8, <2>1, ReplaceIsProper DEF Performed
<1> QED
  BY <1>2, <1>3, <1>4, <1>5, <1>6, <1>7, <1>8, <1>9 DEF Kinds

LEMMA WayIsProper ==
  ASSUME NEW before \in Disks, NEW way, NEW depth
  PROVE  /\ WithWayTo(before, way, depth) \in Disks
         /\ KeepsDirectories(before, WithWayTo(before, way, depth))
  BY DEF WithWayTo, Disks, KeepsDirectories, Absent, Directory

(* The directory above a place stays one if, as a place, it does.          *)
LEMMA HeldStaysHeld ==
  ASSUME NEW before, NEW after, NEW p \in Ways, IsDirectory(before, Front(p)),
         Front(p) \in Places /\ before[Front(p)] = Directory => after[Front(p)] = Directory
  PROVE  IsDirectory(after, Front(p))
<1>1. Len(p) > 0 /\ (Len(p) > 1 => Front(p) \in Places) /\ Len(p) \in Nat
  BY DiskAssumption DEF Ways
<1>2. CASE Len(p) = 1
  <2>1. SubSeq(p, 1, 0) = <<>>
    BY DEF Ways
  <2>2. Front(p) = SubSeq(p, 1, 0)
    BY <1>2 DEF Front
  <2> QED
    BY <2>1, <2>2 DEF IsDirectory
<1>3. CASE Len(p) > 1
  BY <1>1, <1>3 DEF IsDirectory
<1>4. Len(p) = 1 \/ Len(p) > 1
  <2> DEFINE L == Len(p)
  <2>1. L \in Nat /\ L > 0
    BY <1>1
  <2> HIDE DEF L
  <2>2. L = 1 \/ L > 1
    BY <2>1
  <2> QED
    BY <2>2 DEF L
<1> QED
  BY <1>2, <1>3, <1>4

-----------------------------------------------------------------------------
(* The inductive invariant.                                                *)
Calls == [pc : {"idle", "prepare", "original", "logged"},
          req : Requests \cup {Nobody}, paths : Seq(Paths), moved : BOOLEAN,
          failed : BOOLEAN, answer : Answers \cup {"pending"}]

HookedAbove(req) == req.api \in hooked \cap KernelFunctions
Replaced(req) ==
  [n \in DOMAIN req.paths |-> Either(RedirectWide(req.paths[n]), req.paths[n])]

(* A thread within a hook of kernelbase.dll has its guard up and the names *)
(* replaced; any other has neither.                                        *)
CallRight(me, up) ==
  \/ me = Idle /\ up = FALSE
  \/ /\ me.pc # "idle" /\ me.req \in Requests
     /\ up = HookedAbove(me.req)
     /\ me.paths = IF HookedAbove(me.req) THEN Replaced(me.req) ELSE me.req.paths
     /\ me.pc = "prepare" => up /\ Creating(me.req)
     /\ (me.answer = "pending") = (me.pc # "logged")

(* A creation whose name was replaced has its directory once the hook has  *)
(* got past making it, unless that failed or the directory was taken away. *)
CreationRight(me, lost) ==
  me.moved /\ me.req \in Requests /\ Creating(me.req) /\ ~me.failed /\ ~lost =>
    /\ me.pc = "original" => CanHold(disk, placing[me.req][1])
    /\ me.pc = "logged" => me.answer # "no path"

FilesInv ==
  /\ config \in Configs /\ rules = RulesOf(config) /\ placing = Placing
  /\ disk \in Disks
  /\ call \in [Threads -> Calls] /\ guard \in [Threads -> BOOLEAN]
  /\ taken \in [Threads -> BOOLEAN]
  /\ \A t \in Threads : CallRight(call[t], guard[t]) /\ CreationRight(call[t], taken[t])

(* The hooks see every name once: what they leave for the system's         *)
(* functions to work on is the place the name is meant to be at.           *)
LEMMA ReachedIsPlaced ==
  ASSUME FilesInv, NEW t \in Threads, call[t].pc # "idle",
         NEW n \in DOMAIN call[t].req.paths
  PROVE  /\ Reached(t, NtFunction(call[t].req.api, n), call[t].paths[n])
               = placing[call[t].req][n]
         /\ guard[t] => Reached(t, "NtCreateFile", call[t].paths[n]) = placing[call[t].req][n]
<1> DEFINE me == call[t]
           req == me.req
           path == req.paths[n]
           function == NtFunction(req.api, n)
<1>1. /\ config \in Configs /\ rules = RulesOf(config) /\ placing = Placing
      /\ CallRight(me, guard[t]) /\ guard[t] \in BOOLEAN
  BY DEF FilesInv
<1>2. /\ req \in Requests /\ guard[t] = HookedAbove(req)
      /\ me.paths = IF HookedAbove(req) THEN Replaced(req) ELSE req.paths
  BY <1>1 DEF CallRight, Idle
<1>3. path \in Paths
  BY <1>1, <1>2, MeantIsPlace
<1>4. placing[req][n] = PlaceIn(req, n)
  BY <1>1, <1>2 DEF Placing
<1> HIDE DEF me, req, path
<1>5. CASE HookedAbove(req)
  <2>1. guard[t]
    BY <1>2, <1>5
  <2>2. me.paths[n] = Either(RedirectWide(path), path)
    BY <1>2, <1>5 DEF Replaced, path, req, me
  <2>3. PlaceIn(req, n) = IF Usable(path) THEN Meant(path) ELSE PlaceOf(path)
    BY <1>5 DEF PlaceIn, HookedAbove, path
  <2>4. Looked(path, TRUE) <=> Usable(path)
    BY DEF Looked, Usable
  <2>5. PlaceOf(me.paths[n]) = PlaceIn(req, n)
    BY <1>1, <1>3, <2>2, <2>3, <2>4, RedirectedIsMeant DEF RedirectWide, Either
  <2> QED
    BY <1>4, <2>1, <2>5 DEF Reached, me, req
<1>6. CASE ~HookedAbove(req)
  <2>1. ~guard[t] /\ me.paths[n] = path
    BY <1>1, <1>2, <1>6 DEF path, req, me
  <2>2. PlaceIn(req, n) = IF function \in hooked /\ ~WithHandle(function, path)
                          THEN Meant(path) ELSE PlaceOf(path)
    BY <1>6 DEF PlaceIn, HookedAbove, path
  <2> DEFINE names == Absolute(path)
             full == Drive("nt", names)
  <2>3. names \in Seq(Plain) /\ full \in Paths
    BY <1>3, AbsoluteIsPlain, PlainAreNames DEF Drive, Paths
  <2> HIDE DEF names
  <2>4. Absolute(full) = names
    BY <2>3, AbsoluteOnce
  <2>5. Meant(full) = Meant(path)
    BY <2>4, MeantIs DEF names
  <2>6. Looked(full, FALSE)
    BY DEF Looked, Drive
  <2> HIDE DEF full
  <2>7. PlaceOf(Either(Redirected(full, FALSE), full)) = Meant(path)
    BY <1>1, <2>3, <2>5, <2>6, RedirectedIsMeant
  <2>8. Reached(t, function, path) = PlaceIn(req, n)
    BY <2>1, <2>2, <2>7 DEF Reached, RedirectRename, RedirectObject, full, names
  <2> QED
    BY <1>4, <2>1, <2>8 DEF me, req
<1> QED
  BY <1>5, <1>6

LEMMA PlacingIs ==
  ASSUME config \in Configs, rules = RulesOf(config), placing = Placing
  PROVE  /\ placing \in [Requests -> Seq(Places)]
         /\ \A req \in Requests :
              /\ Len(placing[req]) = Len(req.paths) /\ Len(req.paths) \in Nat
              /\ DOMAIN req.paths = 1 .. Len(req.paths)
              /\ placing[req] = [n \in DOMAIN req.paths |-> placing[req][n]]
              /\ \A n \in DOMAIN req.paths : placing[req][n] \in Ways
<1> SUFFICES ASSUME NEW req \in Requests
             PROVE  /\ placing[req] \in Seq(Places)
                    /\ Len(placing[req]) = Len(req.paths) /\ Len(req.paths) \in Nat
                    /\ DOMAIN req.paths = 1 .. Len(req.paths)
                    /\ placing[req] = [n \in DOMAIN req.paths |-> placing[req][n]]
                    /\ \A n \in DOMAIN req.paths : placing[req][n] \in Ways
  BY DEF Placing
<1>1. /\ Len(req.paths) \in Nat /\ DOMAIN req.paths = 1 .. Len(req.paths)
  BY FileRedirectionAssumption
<1>2. placing[req] = [n \in 1 .. Len(req.paths) |-> PlaceIn(req, n)]
  BY <1>1 DEF Placing
<1>3. ASSUME NEW n \in 1 .. Len(req.paths) PROVE PlaceIn(req, n) \in Ways
  <2>1. /\ PlaceOf(req.paths[n]) \in Ways /\ Meant(req.paths[n]) \in Ways
    BY <1>1, MeantIsPlace DEF Ways
  <2> QED
    BY <2>1 DEF PlaceIn
<1>4. \A n \in 1 .. Len(req.paths) : PlaceIn(req, n) \in Places
  BY <1>3 DEF Ways
<1>5. [n \in 1 .. Len(req.paths) |-> PlaceIn(req, n)] \in Seq(Places)
  BY <1>1, <1>4
<1>6. Len(placing[req]) = Len(req.paths)
  BY <1>1, <1>2
<1>7. \A n \in 1 .. Len(req.paths) : placing[req][n] = PlaceIn(req, n)
  BY <1>2
<1> QED
  BY <1>1, <1>2, <1>3, <1>5, <1>6, <1>7

LEMMA FixedStays ==
  ASSUME UNCHANGED fixed
  PROVE  /\ config' = config /\ rules' = rules /\ hooked' = hooked /\ placing' = placing
         /\ Placing' = Placing
         /\ \A req : HookedAbove(req)' = HookedAbove(req) /\ Replaced(req)' = Replaced(req)
<1>1. config' = config /\ rules' = rules /\ hooked' = hooked /\ placing' = placing
  BY DEF fixed
<1>2. ASSUME NEW path PROVE Meant(path)' = Meant(path)
  BY <1>1 DEF Meant
<1>3. ASSUME NEW path PROVE RedirectWide(path)' = RedirectWide(path)
  BY <1>1 DEF RedirectWide, Redirected, SelectInSeq
<1>4. Placing' = Placing
  BY <1>1, <1>2 DEF Placing, PlaceIn
<1> QED
  BY <1>1, <1>3, <1>4 DEF HookedAbove, Replaced

(* What one thread does concerns the others only through the disk, where   *)
(* the directory another needs stays, or is marked as taken away.          *)
LeavesOthers(t) ==
  /\ taken' \in [Threads -> BOOLEAN]
  /\ \A s \in Threads \ {t} : ~taken'[s] =>
       /\ ~taken[s]
       /\ LET file == placing[call[s].req][1] IN
            /\ call[s].pc = "original" /\ call[s].req \in Requests /\ Creating(call[s].req)
            /\ file \in Ways /\ CanHold(disk, file)
            => CanHold(disk', file)

LEMMA KeepingLeaves ==
  ASSUME FilesInv, NEW t \in Threads, KeepsDirectories(disk, disk'),
         taken' = taken \/ taken' = [taken EXCEPT ![t] = FALSE]
  PROVE  LeavesOthers(t)
<1>1. taken \in [Threads -> BOOLEAN]
  BY DEF FilesInv
<1>2. taken' \in [Threads -> BOOLEAN] /\ \A s \in Threads \ {t} : taken'[s] = taken[s]
  BY <1>1
<1>3. ASSUME NEW file \in Ways, CanHold(disk, file) PROVE CanHold(disk', file)
  BY <1>3, HeldStaysHeld DEF CanHold, KeepsDirectories
<1> QED
  BY <1>2, <1>3 DEF LeavesOthers

LEMMA OneThreadSteps ==
  ASSUME FilesInv, UNCHANGED fixed, NEW t \in Threads, NEW me \in Calls, NEW up \in BOOLEAN,
         call' = [call EXCEPT ![t] = me], guard' = [guard EXCEPT ![t] = up],
         CallRight(me, up), CreationRight(me, taken[t])',
         disk' \in Disks, LeavesOthers(t)
  PROVE  FilesInv'
<1>1. /\ config \in Configs /\ rules = RulesOf(config) /\ placing = Placing
      /\ call \in [Threads -> Calls] /\ guard \in [Threads -> BOOLEAN]
      /\ \A s \in Threads : CallRight(call[s], guard[s]) /\ CreationRight(call[s], taken[s])
  BY DEF FilesInv
<1>2. /\ config' = config /\ rules' = rules /\ hooked' = hooked /\ placing' = placing
      /\ Placing' = Placing
      /\ \A req : HookedAbove(req)' = HookedAbove(req) /\ Replaced(req)' = Replaced(req)
  BY FixedStays
<1>3. config' \in Configs /\ rules' = RulesOf(config') /\ placing' = Placing'
  BY <1>1, <1>2
<1>4. /\ call' \in [Threads -> Calls] /\ guard' \in [Threads -> BOOLEAN]
      /\ taken' \in [Threads -> BOOLEAN]
  BY <1>1 DEF LeavesOthers
<1>5. \A one, flag : CallRight(one, flag)' <=> CallRight(one, flag)
  BY <1>2 DEF CallRight
<1>6. ASSUME NEW s \in Threads, s # t PROVE CreationRight(call[s], taken[s])'
  <2>0. PICK other \in Calls : other = call[s]
    BY <1>1
  <2>1. call'[s] = other /\ CreationRight(other, taken[s])
    BY <1>1, <1>6, <2>0
  <2> DEFINE file == placing[other.req][1]
  <2>2. ASSUME ~taken'[s]
        PROVE  /\ ~taken[s]
               /\ /\ other.pc = "original" /\ other.req \in Requests /\ Creating(other.req)
                  /\ file \in Ways /\ CanHold(disk, file)
                  => CanHold(disk', file)
    BY <1>6, <2>0, <2>2 DEF LeavesOthers
  <2>3. ASSUME other.req \in Requests PROVE file \in Ways
    <3>1. other.req.kind \in Kinds /\ Len(other.req.paths) >= NamesFor(other.req.kind)
      BY <2>3, FileRedirectionAssumption
    <3>2. Len(other.req.paths) \in Nat /\ DOMAIN other.req.paths = 1 .. Len(other.req.paths)
      BY <1>1, <2>3, PlacingIs
    <3>3. 1 \in DOMAIN other.req.paths
      BY <3>1, <3>2 DEF NamesFor
    <3> QED
      BY <1>1, <2>3, <3>3, PlacingIs
  <2>4. placing'[other.req][1] = file
    BY <1>2
  <2> HIDE DEF file
  <2>5. CreationRight(other, taken[s])'
    BY <2>1, <2>2, <2>3, <2>4 DEF CreationRight, file
  <2> QED
    BY <2>1, <2>5 DEF CreationRight
<1>7. ASSUME NEW s \in Threads
      PROVE  CallRight(call[s], guard[s])' /\ CreationRight(call[s], taken[s])'
  <2>1. CASE s = t
    <3>1. call'[s] = me /\ guard'[s] = up
      BY <1>1, <2>1
    <3>2. CallRight(me, up)'
      BY <1>5
    <3> QED
      BY <2>1, <3>1, <3>2 DEF CallRight, CreationRight
  <2>2. CASE s # t
    <3>1. call'[s] = call[s] /\ guard'[s] = guard[s]
      BY <1>1, <2>2
    <3>2. CallRight(call[s], guard[s])
      BY <1>1
    <3>3. PICK other \in Calls, flag \in BOOLEAN : other = call[s] /\ flag = guard[s]
      BY <1>1
    <3>4. CallRight(other, flag)'
      BY <1>5, <3>2, <3>3
    <3> QED
      BY <1>6, <2>2, <3>1, <3>3, <3>4 DEF CallRight
  <2> QED
    BY <2>1, <2>2
<1> QED
  BY <1>3, <1>4, <1>7 DEF FilesInv

-----------------------------------------------------------------------------
(* Every action keeps the invariant.                                       *)
LEMMA IdleIsCall == Idle \in Calls /\ "pending" \notin Answers
  BY FileRedirectionAssumption DEF Idle, Calls, Answers, Absent, Directory

LEMMA EnterKeeps ==
  ASSUME FilesInv, NEW t \in Threads, NEW req \in Requests,
         NEW where \in {"prepare", "original"}, (where = "prepare") = Creating(req),
         Enter(t, req, where)
  PROVE  FilesInv'
<1> DEFINE redirected == [n \in DOMAIN req.paths |-> RedirectWide(req.paths[n])]
           paths == [n \in DOMAIN redirected |-> Either(redirected[n], req.paths[n])]
           me == [pc |-> where, req |-> req, paths |-> paths,
                  moved |-> redirected[1] # NoPath, failed |-> FALSE, answer |-> "pending"]
<1>1. /\ config \in Configs /\ rules = RulesOf(config) /\ disk \in Disks
      /\ call \in [Threads -> Calls]
  BY DEF FilesInv
<1>2. /\ HookedAbove(req) /\ UNCHANGED <<fixed, disk>>
      /\ call' = [call EXCEPT ![t] = me] /\ guard' = [guard EXCEPT ![t] = TRUE]
  BY DEF Enter, HookedAbove
<1>3. paths = Replaced(req)
  BY DEF Replaced
<1>4. req.paths \in Seq(Paths) /\ Len(req.paths) \in Nat /\ DOMAIN req.paths = 1 .. Len(req.paths)
  BY FileRedirectionAssumption
<1>5. \A n \in 1 .. Len(req.paths) : Either(RedirectWide(req.paths[n]), req.paths[n]) \in Paths
  <2> SUFFICES ASSUME NEW n \in 1 .. Len(req.paths)
               PROVE  Either(RedirectWide(req.paths[n]), req.paths[n]) \in Paths
    OBVIOUS
  <2>1. req.paths[n] \in Paths
    BY <1>4
  <2>2. Either(Redirected(req.paths[n], TRUE), req.paths[n]) \in Paths
    BY <1>1, <2>1, RedirectedIsMeant
  <2> QED
    BY <2>2 DEF RedirectWide
<1>6. Replaced(req) \in Seq(Paths)
  BY <1>4, <1>5 DEF Replaced
<1> HIDE DEF paths, redirected
<1>7. PICK one \in Calls : one = me
  <2>1. me \in Calls
    BY <1>3, <1>6 DEF Calls
  <2> HIDE DEF me
  <2> QED
    BY <2>1
<1>8. CallRight(one, TRUE)
  BY <1>2, <1>3, <1>7 DEF CallRight
<1>9. CreationRight(one, taken[t])'
  <2>1. one.pc = where /\ one.req = req
    BY <1>7
  <2> QED
    BY <2>1 DEF CreationRight
<1>10. disk' \in Disks /\ KeepsDirectories(disk, disk') /\ taken' = taken
  BY <1>1, <1>2 DEF KeepsDirectories, Enter
<1>11. LeavesOthers(t)
  BY <1>10, KeepingLeaves
<1> HIDE DEF me
<1> QED
  BY <1>11, <1>2, <1>7, <1>8, <1>9, <1>10, OneThreadSteps

LEMMA EnterUnhookedKeeps ==
  ASSUME FilesInv, NEW t \in Threads, NEW req \in Requests, EnterUnhooked(t, req)
  PROVE  FilesInv'
<1> DEFINE me == [pc |-> "original", req |-> req, paths |-> req.paths, moved |-> FALSE,
                  failed |-> FALSE, answer |-> "pending"]
<1>1. /\ disk \in Disks /\ guard \in [Threads -> BOOLEAN] /\ CallRight(call[t], guard[t])
  BY DEF FilesInv
<1>2. /\ ~HookedAbove(req) /\ UNCHANGED <<fixed, disk, guard>>
      /\ call' = [call EXCEPT ![t] = me] /\ call[t].pc = "idle"
  BY DEF EnterUnhooked, HookedAbove
<1>3. guard[t] = FALSE /\ guard' = [guard EXCEPT ![t] = FALSE]
  BY <1>1, <1>2 DEF CallRight
<1>4. me \in Calls
  BY FileRedirectionAssumption DEF Calls
<1>5. CallRight(me, FALSE)
  BY <1>2 DEF CallRight
<1>6. CreationRight(me, taken[t])'
  BY DEF CreationRight
<1>7. disk' \in Disks /\ KeepsDirectories(disk, disk') /\ taken' = taken
  BY <1>1, <1>2 DEF KeepsDirectories, EnterUnhooked
<1>8. LeavesOthers(t)
  BY <1>7, KeepingLeaves
<1> HIDE DEF me
<1> QED
  BY <1>8, <1>2, <1>3, <1>4, <1>5, <1>6, <1>7, OneThreadSteps

(* What is known of a call that is under way.                              *)
LEMMA UnderWay ==
  ASSUME FilesInv, NEW t \in Threads, call[t].pc # "idle"
  PROVE  /\ call[t] \in Calls /\ guard[t] \in BOOLEAN /\ call[t].req \in Requests
         /\ guard[t] = HookedAbove(call[t].req)
         /\ placing[call[t].req] \in Seq(Places)
         /\ Len(placing[call[t].req]) >= NamesFor(call[t].req.kind)
         /\ call[t].req.kind \in Kinds
         /\ DOMAIN call[t].paths = DOMAIN call[t].req.paths
         /\ 1 \in DOMAIN call[t].req.paths
         /\ placing[call[t].req] = [n \in DOMAIN call[t].req.paths |-> placing[call[t].req][n]]
<1> DEFINE req == call[t].req
<1>1. /\ config \in Configs /\ rules = RulesOf(config) /\ placing = Placing
      /\ call[t] \in Calls /\ guard[t] \in BOOLEAN /\ CallRight(call[t], guard[t])
  BY DEF FilesInv
<1>2. /\ req \in Requests /\ guard[t] = HookedAbove(req)
      /\ call[t].paths = IF HookedAbove(req) THEN Replaced(req) ELSE req.paths
  BY <1>1 DEF CallRight, Idle
<1> HIDE DEF req
<1>3. req.kind \in Kinds /\ Len(req.paths) >= NamesFor(req.kind)
  BY <1>2, FileRedirectionAssumption
<1>4. /\ placing[req] \in Seq(Places) /\ Len(placing[req]) = Len(req.paths)
      /\ Len(req.paths) \in Nat /\ DOMAIN req.paths = 1 .. Len(req.paths)
      /\ placing[req] = [n \in DOMAIN req.paths |-> placing[req][n]]
  BY <1>1, <1>2, PlacingIs
<1>5. 1 \in DOMAIN req.paths
  BY <1>3, <1>4 DEF NamesFor
<1>6. DOMAIN call[t].paths = DOMAIN req.paths
  BY <1>2 DEF Replaced
<1> QED
  BY <1>1, <1>2, <1>3, <1>4, <1>5, <1>6 DEF req

LEMMA PrepareKeeps ==
  ASSUME FilesInv, NEW t \in Threads, PrepareParent(t)
  PROVE  FilesInv'
<1> DEFINE req == call[t].req
           way == Front(Reached(t, "NtCreateFile", call[t].paths[1]))
           needed == call[t].moved /\ way # <<>> /\ disk[way] = Absent
<1>1. call[t].pc = "prepare" /\ UNCHANGED <<fixed, guard>>
  BY DEF PrepareParent
<1>2. PICK depth \in IF needed THEN Passable(disk, way) ELSE {0} :
        /\ disk' = IF needed THEN WithWayTo(disk, way, depth) ELSE disk
        /\ call' = [call EXCEPT ![t].pc = "original", ![t].failed = ~IsDirectory(disk', way)]
  BY DEF PrepareParent, WayOf
<1>3. /\ call[t] \in Calls /\ guard[t] \in BOOLEAN /\ req \in Requests
      /\ 1 \in DOMAIN req.paths
  BY <1>1, UnderWay
<1>4. /\ CallRight(call[t], guard[t]) /\ disk \in Disks
      /\ call \in [Threads -> Calls] /\ guard \in [Threads -> BOOLEAN]
  BY DEF FilesInv
<1>5. guard[t]
  BY <1>1, <1>3, <1>4 DEF CallRight, Idle
<1>6. way = Front(placing[req][1])
  BY <1>1, <1>3, <1>5, ReachedIsPlaced
<1>7. disk' \in Disks /\ KeepsDirectories(disk, disk') /\ taken' = taken
  BY <1>2, <1>4, WayIsProper DEF KeepsDirectories, PrepareParent
<1>15. LeavesOthers(t)
  BY <1>7, KeepingLeaves
<1> HIDE DEF way, needed
<1>8. PICK failed \in BOOLEAN : failed = ~IsDirectory(disk', way)
  OBVIOUS
<1>9. PICK me \in Calls : me = [call[t] EXCEPT !.pc = "original", !.failed = failed]
  BY <1>3 DEF Calls
<1>10. call' = [call EXCEPT ![t] = me] /\ guard' = [guard EXCEPT ![t] = guard[t]]
  BY <1>1, <1>2, <1>4, <1>8, <1>9
<1>11. /\ me.pc = "original" /\ me.failed = failed /\ me.req = req
       /\ me.paths = call[t].paths /\ me.answer = call[t].answer /\ me.moved = call[t].moved
  BY <1>3, <1>9 DEF Calls
<1>12. CallRight(me, guard[t])
  BY <1>1, <1>4, <1>11 DEF CallRight, Idle
<1>13. placing' = placing
  BY <1>1 DEF fixed
<1>14. CreationRight(me, taken[t])'
  BY <1>6, <1>8, <1>11, <1>13 DEF CreationRight, CanHold
<1> QED
  BY <1>1, <1>3, <1>7, <1>10, <1>12, <1>14, <1>15, OneThreadSteps

LEMMA OriginalKeeps ==
  ASSUME FilesInv, NEW t \in Threads, Original(t)
  PROVE  FilesInv'
<1> DEFINE req == call[t].req
           at == [n \in DOMAIN call[t].paths |->
                    Reached(t, NtFunction(req.api, n), call[t].paths[n])]
           performed == Performed(req.kind, disk, at, NewContent)
           takes == disk[at[1]] = Directory /\ performed.disk[at[1]] # Directory
<1>1. /\ call[t].pc = "original" /\ UNCHANGED <<fixed, guard>> /\ disk' = performed.disk
      /\ call' = [call EXCEPT ![t].pc = "logged", ![t].answer = performed.answer]
      /\ taken' = [u \in Threads |->
            taken[u] \/ (takes /\ u # t /\ call[u].pc = "original"
                         /\ Creating(call[u].req) /\ IsPrefix(at[1], WayOf(u)))]
  BY DEF Original
<1>2. /\ call[t] \in Calls /\ guard[t] \in BOOLEAN /\ req \in Requests
      /\ placing[req] \in Seq(Places) /\ Len(placing[req]) >= NamesFor(req.kind)
      /\ req.kind \in Kinds /\ DOMAIN call[t].paths = DOMAIN req.paths
      /\ placing[req] = [n \in DOMAIN req.paths |-> placing[req][n]]
  BY <1>1, UnderWay
<1>3. at = placing[req]
  BY <1>1, <1>2, ReachedIsPlaced
<1>4. /\ CallRight(call[t], guard[t]) /\ CreationRight(call[t], taken[t]) /\ disk \in Disks
      /\ call \in [Threads -> Calls] /\ guard \in [Threads -> BOOLEAN]
      /\ taken \in [Threads -> BOOLEAN]
  BY DEF FilesInv
<1> HIDE DEF at
<1>5. /\ performed.disk \in Disks /\ OnlyBelow(disk, at[1], performed)
      /\ performed.answer \in Answers
      /\ req.kind = "create" /\ performed.answer = "no path" => ~CanHold(disk, placing[req][1])
  <2>1. /\ OnlyBelow(disk, at[1], performed)
        /\ req.kind = "create" /\ performed.answer = "no path" => ~CanHold(disk, at[1])
    BY <1>2, <1>3, <1>4, PerformedIsProper, FileRedirectionAssumption
  <2> HIDE DEF performed
  <2> QED
    BY <1>3, <2>1 DEF OnlyBelow
<1>12. ASSUME NEW s \in Threads \ {t}, ~taken'[s]
       PROVE  /\ ~taken[s]
              /\ LET file == placing[call[s].req][1] IN
                   /\ call[s].pc = "original" /\ call[s].req \in Requests
                   /\ Creating(call[s].req) /\ file \in Ways /\ CanHold(disk, file)
                   => CanHold(disk', file)
  <2> DEFINE file == placing[call[s].req][1]
  <2>1. /\ ~taken[s]
        /\ ~ (takes /\ call[s].pc = "original" /\ Creating(call[s].req)
              /\ IsPrefix(at[1], WayOf(s)))
    BY <1>1, <1>12
  <2>2. ASSUME call[s].pc = "original", Creating(call[s].req), file \in Ways,
               CanHold(disk, file)
        PROVE  CanHold(disk', file)
    <3>1. 1 \in DOMAIN call[s].req.paths
      BY <2>2, UnderWay
    <3>2. NtFunction(call[s].req.api, 1) = "NtCreateFile"
      <4>1. call[s].req.api \in FileOpeners
        BY <2>2 DEF Creating
      <4>2. FileOpeners \cap (NtFunctions \cup Queries \cup Movers) = {}
        BY DEF FileOpeners, NtFunctions, NtOpeners, NtOthers, Queries, Movers
      <4> DEFINE api == call[s].req.api
      <4>3. /\ api \notin NtFunctions /\ api \notin Queries /\ api \notin Movers
            /\ api # "GetFileAttributesW"
        <5>1. "GetFileAttributesW" \in Queries
          BY DEF Queries
        <5> QED
          BY <4>1, <4>2, <5>1
      <4> HIDE DEF api
      <4>4. NtFunction(api, 1) = "NtCreateFile"
        BY <4>1, <4>3 DEF NtFunction, api
      <4> QED
        BY <4>4 DEF api
    <3>3. WayOf(s) = Front(file)
      BY <2>2, <3>1, <3>2, ReachedIsPlaced DEF WayOf
    <3>4. ~ (takes /\ IsPrefix(at[1], Front(file)))
      BY <2>1, <2>2, <3>3
    <3> HIDE DEF performed, file
    <3>5. ASSUME Front(file) \in Places, disk[Front(file)] = Directory
          PROVE  performed.disk[Front(file)] = Directory
      BY <1>5, <3>4, <3>5 DEF OnlyBelow, KeepsDirectories
    <3>6. IsDirectory(performed.disk, Front(file))
      BY <2>2, <3>5, HeldStaysHeld DEF CanHold
    <3> QED
      BY <1>1, <3>6 DEF CanHold
  <2> QED
    BY <2>1, <2>2
<1>13. LeavesOthers(t)
  <2>1. taken' \in [Threads -> BOOLEAN]
    <3> HIDE DEF takes
    <3> QED
      BY <1>1, <1>4
  <2> QED
    BY <1>12, <2>1 DEF LeavesOthers
<1> HIDE DEF performed, takes
<1>6. PICK answer \in Answers : answer = performed.answer
  BY <1>5
<1>7. PICK me \in Calls : me = [call[t] EXCEPT !.pc = "logged", !.answer = answer]
  BY <1>2 DEF Calls
<1>8. call' = [call EXCEPT ![t] = me] /\ guard' = [guard EXCEPT ![t] = guard[t]]
  BY <1>1, <1>4, <1>6, <1>7
<1>9. /\ me.pc = "logged" /\ me.failed = call[t].failed /\ me.req = req
      /\ me.paths = call[t].paths /\ me.answer = answer /\ me.moved = call[t].moved
  BY <1>2, <1>7 DEF Calls
<1>10. CallRight(me, guard[t])
  BY <1>1, <1>4, <1>9, IdleIsCall DEF CallRight, Idle
<1>11. CreationRight(me, taken[t])'
  <2>1. (taken[t])' = taken[t]
    BY <1>1, <1>4
  <2> QED
    BY <1>1, <1>4, <1>5, <1>6, <1>9, <2>1 DEF CreationRight, Creating
<1> QED
  BY <1>1, <1>2, <1>5, <1>8, <1>10, <1>11, <1>13, OneThreadSteps

LEMMA ReturnKeeps ==
  ASSUME FilesInv, NEW t \in Threads, Return(t)
  PROVE  FilesInv'
<1>1. /\ UNCHANGED <<fixed, disk>> /\ call' = [call EXCEPT ![t] = Idle]
      /\ guard' = [guard EXCEPT ![t] = FALSE]
  BY DEF Return
<1>2. disk' \in Disks /\ KeepsDirectories(disk, disk')
  BY <1>1 DEF FilesInv, KeepsDirectories
<1>4. LeavesOthers(t)
  BY <1>2, KeepingLeaves DEF Return
<1>3. Idle \in Calls /\ CallRight(Idle, FALSE) /\ CreationRight(Idle, taken[t])'
  <2>1. CreationRight(Idle, taken[t])'
    BY DEF CreationRight, Idle
  <2> QED
    BY <2>1, IdleIsCall DEF CallRight
<1> QED
  BY <1>1, <1>2, <1>3, <1>4, OneThreadSteps

-----------------------------------------------------------------------------
(* The theorems.                                                           *)

(* Between the threads of the game, however they interleave, the rules, the*)
(* guards and the names under way keep to the invariant: a guard is up     *)
(* exactly while its thread is in a hook of kernelbase.dll, whose names    *)
(* are replaced, all of them and once, and a creation past the hook's look *)
(* at its directory has it unless that failed or another thread took the   *)
(* directory away.                                                         *)
THEOREM FilesInvariant == FilesSpec => []FilesInv
<1>1. FilesInit => FilesInv
  <2> SUFFICES ASSUME FilesInit PROVE FilesInv
    OBVIOUS
  <2>1. /\ config \in Configs /\ rules = RulesOf(config) /\ placing = Placing
        /\ call = [t \in Threads |-> Idle] /\ guard = [t \in Threads |-> FALSE]
        /\ taken = [t \in Threads |-> FALSE]
    BY DEF FilesInit
  <2>2. disk \in Disks
    BY DEF FilesInit, Prepared, Disks
  <2>3. /\ call \in [Threads -> Calls] /\ guard \in [Threads -> BOOLEAN]
        /\ taken \in [Threads -> BOOLEAN]
    BY <2>1, IdleIsCall
  <2>4. ASSUME NEW t \in Threads
        PROVE  CallRight(call[t], guard[t]) /\ CreationRight(call[t], taken[t])
    <3>1. call[t] = Idle /\ guard[t] = FALSE
      BY <2>1
    <3>2. CreationRight(Idle, taken[t])
      BY DEF CreationRight, Idle
    <3> QED
      BY <3>1, <3>2 DEF CallRight
  <2> QED
    BY <2>1, <2>2, <2>3, <2>4 DEF FilesInv
<1>2. FilesInv /\ [FilesNext]_filesVars => FilesInv'
  <2> SUFFICES ASSUME FilesInv, [FilesNext]_filesVars PROVE FilesInv'
    OBVIOUS
  <2>1. ASSUME NEW t \in Threads, NEW req \in Requests, HookedCall(t, req) PROVE FilesInv'
    <3>1. CASE Open(t, req)
      <4>1. PICK where \in {"prepare", "original"} :
              (where = "prepare") = Creating(req) /\ Enter(t, req, where)
        <5>1. CASE Creating(req)
          <6>1. Enter(t, req, "prepare")
            BY <3>1, <5>1 DEF Open
          <6> QED
            BY <5>1, <6>1
        <5>2. CASE ~Creating(req)
          <6>1. Enter(t, req, "original")
            BY <3>1, <5>2 DEF Open
          <6> QED
            BY <5>2, <6>1 DEF Creating
        <5> QED
          BY <5>1, <5>2
      <4> QED
        BY <4>1, EnterKeeps
    <3>2. CASE ~Open(t, req)
      <4>1. Enter(t, req, "original") /\ ~Creating(req)
        BY <2>1, <3>2 DEF HookedCall, CreateDirectory, Delete, Query, Find, MoveFile, CopyFile,
           ReplaceFile, Creating, FileOpeners, DirectoryMakers, Removers, Queries, Setters,
           Finders, Movers, Copiers
      <4>2. ("original" = "prepare") = Creating(req)
        BY <4>1 DEF Creating
      <4> QED
        BY <4>1, <4>2, EnterKeeps
    <3> QED
      BY <3>1, <3>2
  <2>2. CASE UNCHANGED filesVars
    <3>1. /\ UNCHANGED fixed /\ disk' = disk /\ call' = call /\ guard' = guard
          /\ taken' = taken
      BY <2>2 DEF filesVars
    <3>2. CASE Threads = {}
      <4>1. rules' = rules /\ config' = config /\ placing' = placing /\ Placing' = Placing
        BY <3>1, FixedStays
      <4> QED
        BY <3>1, <3>2, <4>1 DEF FilesInv
    <3>3. CASE Threads # {}
      <4>1. PICK t \in Threads : TRUE
        BY <3>3
      <4>2. PICK me \in Calls, up \in BOOLEAN : me = call[t] /\ up = guard[t]
        BY DEF FilesInv
      <4>3. call' = [call EXCEPT ![t] = me] /\ guard' = [guard EXCEPT ![t] = up]
        BY <3>1, <4>2 DEF FilesInv
      <4>4. CallRight(me, up) /\ CreationRight(me, taken[t])
        BY <4>2 DEF FilesInv
      <4>5. placing' = placing
        BY <3>1, FixedStays
      <4>6. CreationRight(me, taken[t])'
        BY <3>1, <4>4, <4>5 DEF CreationRight
      <4>8. disk' \in Disks /\ KeepsDirectories(disk, disk')
        BY <3>1 DEF FilesInv, KeepsDirectories
      <4>7. disk' \in Disks /\ LeavesOthers(t)
        BY <3>1, <4>8, KeepingLeaves
      <4> QED
        BY <3>1, <4>3, <4>4, <4>6, <4>7, OneThreadSteps
    <3> QED
      BY <3>2, <3>3
  <2> QED
    BY <2>1, <2>2, EnterUnhookedKeeps, PrepareKeeps, OriginalKeeps, ReturnKeeps DEF FilesNext
<1> QED
  BY <1>1, <1>2, PTL DEF FilesSpec

(* A creation whose name a hook has replaced never fails for want of a     *)
(* directory the hook made or found, whatever other threads do to the disk *)
(* between prepare_redirect_parent and the original function, short of     *)
(* removing or moving away a directory on the way.                         *)
THEOREM CreationsArePrepared == FilesSpec => []CreationsPrepared
<1>1. FilesInv => CreationsPrepared
  <2> SUFFICES ASSUME FilesInv, NEW t \in Threads, call[t].pc = "logged", call[t].moved,
                      Creating(call[t].req), call[t].answer = "no path", ~call[t].failed,
                      ~taken[t]
               PROVE  FALSE
    BY DEF CreationsPrepared, FilesInv, Calls
  <2>1. call[t].req \in Requests /\ CreationRight(call[t], taken[t])
    BY UnderWay DEF FilesInv
  <2> QED
    BY <2>1 DEF CreationRight
<1> QED
  BY <1>1, FilesInvariant, PTL

(* The abstract specification has the disk this one has.                   *)
LEMMA SameDisk ==
  /\ Placed!Disks = Disks
  /\ \A before, way : Placed!Passable(before, way) = Passable(before, way)
  /\ \A before, way, depth :
       Placed!WithWayTo(before, way, depth) = WithWayTo(before, way, depth)
  /\ \A p : Placed!Front(p) = Front(p)
  /\ \A kind \in Kinds : \A before, at, content :
       Placed!Performed(kind, before, at, content) = Performed(kind, before, at, content)
<1>1. /\ Placed!Absent = Absent /\ Placed!Directory = Directory /\ Placed!Disks = Disks
      /\ \A p : Placed!Front(p) = Front(p)
  BY DEF Placed!Absent, Absent, Placed!Directory, Directory, Placed!Disks, Disks,
         Placed!Front, Front
<1>2. \A before, p : /\ Placed!IsFile(before, p) = IsFile(before, p)
                     /\ Placed!CanHold(before, p) = CanHold(before, p)
  BY <1>1 DEF Placed!IsFile, IsFile, Placed!CanHold, CanHold, Placed!IsDirectory, IsDirectory
<1>3. \A before, way : Placed!Passable(before, way) = Passable(before, way)
  BY <1>2 DEF Placed!Passable, Passable
<1>4. \A before, way, depth :
        Placed!WithWayTo(before, way, depth) = WithWayTo(before, way, depth)
  BY <1>1 DEF Placed!WithWayTo, WithWayTo, Placed!IsPrefix, IsPrefix
<1>5. \A before, why : /\ Placed!Result(before, why) = Result(before, why)
                       /\ Placed!Refused(before, why) = Refused(before, why)
  BY DEF Placed!Result, Result, Placed!Refused, Refused
<1>6. \A before, p, content : Placed!Put(before, p, content) = Put(before, p, content)
  BY <1>1, <1>2, <1>5 DEF Placed!Put, Put
<1>7. \A before, p : /\ Placed!Make(before, p) = Make(before, p)
                     /\ Placed!Erase(before, p) = Erase(before, p)
                     /\ Placed!EraseDirectory(before, p) = EraseDirectory(before, p)
  BY <1>1, <1>2, <1>5 DEF Placed!Make, Make, Placed!Erase, Erase,
     Placed!EraseDirectory, EraseDirectory, Placed!IsStrictPrefix, IsStrictPrefix,
     Placed!IsPrefix, IsPrefix
<1>8. \A before, p, q : Placed!Copy(before, p, q) = Copy(before, p, q)
  BY <1>2, <1>5, <1>6 DEF Placed!Copy, Copy
<1>12. \A before, p, q : Placed!MoveOne(before, p, q) = MoveOne(before, p, q)
  BY <1>1, <1>5, <1>8 DEF Placed!MoveOne, MoveOne
<1>13. \A before, p, q : Placed!Carried(before, p, q) = Carried(before, p, q)
  BY <1>1 DEF Placed!Carried, Carried, Placed!IsPrefix, IsPrefix
<1>14. \A before, p, q : Placed!MoveTree(before, p, q) = MoveTree(before, p, q)
  <2>1. ASSUME NEW before, NEW p, NEW q
        PROVE  Placed!MoveTree(before, p, q) = MoveTree(before, p, q)
    <3>1. \A r : Placed!IsPrefix(p, r) = IsPrefix(p, r) /\ Placed!IsPrefix(q, r) = IsPrefix(q, r)
      BY DEF Placed!IsPrefix, IsPrefix
    <3> QED
      BY <1>1, <1>2, <1>5, <1>13, <3>1, Zenon DEF Placed!MoveTree, MoveTree
  <2> QED
    BY <2>1
<1>9. \A before, p, q : Placed!Move(before, p, q) = Move(before, p, q)
  BY <1>1, <1>12, <1>14 DEF Placed!Move, Move
<1>10. \A before, p, q, backup :
         Placed!Replace(before, p, q, backup) = Replace(before, p, q, backup)
  BY <1>2, <1>5, <1>8, <1>12 DEF Placed!Replace, Replace
<1>11. ASSUME NEW kind \in Kinds, NEW before, NEW at, NEW content
       PROVE  Placed!Performed(kind, before, at, content) = Performed(kind, before, at, content)
  <2>1. CASE kind = "create"
    BY <1>6, <2>1 DEF Placed!Performed, Performed
  <2>2. CASE kind = "look"
    BY <1>5, <2>2 DEF Placed!Performed, Performed
  <2>3. CASE kind \in {"make", "remove", "rmdir"}
    BY <1>7, <2>3 DEF Placed!Performed, Performed
  <2>4. CASE kind = "copy"
    BY <1>8, <2>4 DEF Placed!Performed, Performed
  <2>5. CASE kind = "move"
    BY <1>9, <2>5 DEF Placed!Performed, Performed
  <2>6. CASE kind = "replace"
    BY <1>10, <2>6 DEF Placed!Performed, Performed
  <2> QED
    BY <2>1, <2>2, <2>3, <2>4, <2>5, <2>6 DEF Kinds
<1> QED
  BY <1>1, <1>3, <1>4, <1>11

(* The redirected file system implements one in which every name has one   *)
(* fixed place: every step of the hooks is a step or a stutter of          *)
(* PlacedFiles.                                                            *)
THEOREM FilesAreWherePlaced == FilesSpec => ImplementsPlacedFiles
<1> DEFINE asked  == [t \in Threads |-> call[t].req]
           answer == [t \in Threads |-> call[t].answer]
<1>1. FilesInit /\ FilesInv => Placed!Init
  <2> SUFFICES ASSUME FilesInit, FilesInv PROVE Placed!Init
    OBVIOUS
  <2>1. placing \in [Requests -> Seq(Places)] /\ disk \in Disks
    BY PlacingIs DEF FilesInv
  <2>2. call = [t \in Threads |-> Idle]
    BY DEF FilesInit
  <2>3. asked = [t \in Threads |-> Nobody] /\ answer = [t \in Threads |-> "pending"]
    BY <2>2 DEF Idle
  <2> QED
    BY <2>1, <2>3, SameDisk DEF Placed!Init
<1>2. FilesInv /\ [FilesNext]_filesVars => [Placed!Next]_(Placed!vars)
  <2> SUFFICES ASSUME FilesInv, [FilesNext]_filesVars
               PROVE  Placed!Next \/ UNCHANGED Placed!vars
    OBVIOUS
  <2>1. call \in [Threads -> Calls]
    BY DEF FilesInv
  <2>2. ASSUME UNCHANGED fixed, disk' = disk, NEW t \in Threads, NEW req \in Requests,
               call[t].pc = "idle", NEW paths, NEW moved, NEW where,
               call' = [call EXCEPT ![t] = [pc |-> where, req |-> req, paths |-> paths,
                          moved |-> moved, failed |-> FALSE, answer |-> "pending"]]
        PROVE  Placed!Ask(t)
    <3>1. call[t] = Idle
      BY <2>2 DEF FilesInv, CallRight
    <3>2. asked[t] = Nobody
      BY <3>1 DEF Idle
    <3>3. asked' = [asked EXCEPT ![t] = req] /\ answer' = [answer EXCEPT ![t] = "pending"]
      BY <2>1, <2>2
    <3>4. placing' = placing
      BY <2>2 DEF fixed
    <3> QED
      BY <2>2, <3>2, <3>3, <3>4 DEF Placed!Ask
  <2>3. ASSUME NEW t \in Threads, NEW req \in Requests, HookedCall(t, req)
        PROVE  Placed!Ask(t)
    <3>1. PICK where : Enter(t, req, where)
      BY <2>3 DEF HookedCall, Open, CreateDirectory, Delete, Query, Find, MoveFile, CopyFile,
         ReplaceFile
    <3> QED
      BY <2>2, <3>1 DEF Enter
  <2>4. ASSUME NEW t \in Threads, NEW req \in Requests, EnterUnhooked(t, req)
        PROVE  Placed!Ask(t)
    BY <2>2, <2>4 DEF EnterUnhooked
  <2>5. ASSUME NEW t \in Threads, PrepareParent(t)
        PROVE  Placed!MakeWay(t) \/ UNCHANGED Placed!vars
    <3> DEFINE req == call[t].req
               way == Front(Reached(t, "NtCreateFile", call[t].paths[1]))
               needed == call[t].moved /\ way # <<>> /\ disk[way] = Absent
    <3>1. call[t].pc = "prepare" /\ UNCHANGED <<fixed, guard>>
      BY <2>5 DEF PrepareParent
    <3>2. PICK depth \in IF needed THEN Passable(disk, way) ELSE {0} :
            /\ disk' = IF needed THEN WithWayTo(disk, way, depth) ELSE disk
            /\ call' = [call EXCEPT ![t].pc = "original", ![t].failed = ~IsDirectory(disk', way)]
      BY <2>5 DEF PrepareParent, WayOf
    <3>3. asked' = asked /\ answer' = answer
      BY <2>1, <3>2 DEF Calls
    <3>4. placing' = placing
      BY <3>1 DEF fixed
    <3>5. /\ req \in Requests /\ 1 \in DOMAIN req.paths
          /\ call[t] \in Calls /\ guard[t] \in BOOLEAN
      BY <3>1, UnderWay
    <3>6. guard[t] /\ Creating(req) /\ call[t].answer = "pending"
      BY <3>1, <3>5 DEF FilesInv, CallRight, Idle
    <3>7. way = Front(placing[req][1])
      BY <3>1, <3>5, <3>6, ReachedIsPlaced
    <3>8. asked[t] = req /\ answer[t] = "pending" /\ req # Nobody /\ req.kind = "create"
      BY <3>5, <3>6, FileRedirectionAssumption DEF Creating
    <3> HIDE DEF way, needed, req
    <3>9. CASE needed
      <4>1. \E d \in Placed!Passable(disk, way) : disk' = Placed!WithWayTo(disk, way, d)
        BY <3>2, <3>9, SameDisk
      <4>2. way = Placed!Front(placing[asked[t]][1])
        BY <3>7, <3>8, SameDisk
      <4> HIDE DEF asked, answer
      <4>3. /\ asked[t] # Nobody /\ asked[t].kind = "create" /\ answer[t] = "pending"
            /\ UNCHANGED <<placing, asked, answer>>
        BY <3>3, <3>4, <3>8
      <4> QED
        BY <4>1, <4>2, <4>3 DEF Placed!MakeWay, asked, answer
    <3>10. CASE ~needed
      <4>1. disk' = disk
        BY <3>2, <3>10
      <4> QED
        BY <3>3, <3>4, <4>1 DEF Placed!vars
    <3> QED
      BY <3>9, <3>10
  <2>6. ASSUME NEW t \in Threads, Original(t)
        PROVE  Placed!Perform(t)
    <3> DEFINE req == call[t].req
               at == [n \in DOMAIN call[t].paths |->
                        Reached(t, NtFunction(req.api, n), call[t].paths[n])]
               performed == Performed(req.kind, disk, at, NewContent)
    <3>1. /\ call[t].pc = "original" /\ UNCHANGED <<fixed, guard>> /\ disk' = performed.disk
          /\ call' = [call EXCEPT ![t].pc = "logged", ![t].answer = performed.answer]
      BY <2>6 DEF Original
    <3>2. /\ req \in Requests /\ req.kind \in Kinds
          /\ DOMAIN call[t].paths = DOMAIN req.paths
          /\ placing[req] = [n \in DOMAIN req.paths |-> placing[req][n]]
      BY <3>1, UnderWay
    <3>3. at = placing[req]
      BY <3>1, <3>2, ReachedIsPlaced
    <3> HIDE DEF at
    <3>4. performed = Placed!Performed(asked[t].kind, disk, placing[asked[t]], NewContent)
      BY <3>2, <3>3, SameDisk
    <3> HIDE DEF performed
    <3>5. asked' = asked /\ answer' = [answer EXCEPT ![t] = performed.answer]
      BY <2>1, <3>1 DEF Calls
    <3>6. placing' = placing
      BY <3>1 DEF fixed
    <3>7. asked[t] # Nobody /\ answer[t] = "pending"
      <4>1. CallRight(call[t], guard[t])
        BY DEF FilesInv
      <4>2. call[t].answer = "pending"
        BY <3>1, <4>1 DEF CallRight, Idle
      <4>3. req # Nobody
        BY <3>2, FileRedirectionAssumption
      <4> QED
        BY <4>2, <4>3
    <3> HIDE DEF asked, answer
    <3> QED
      BY <3>1, <3>4, <3>5, <3>6, <3>7 DEF Placed!Perform, asked, answer
  <2>7. ASSUME NEW t \in Threads, Return(t)
        PROVE  Placed!GoOn(t)
    <3>1. call[t].pc = "logged" /\ UNCHANGED <<fixed, disk>> /\ call' = [call EXCEPT ![t] = Idle]
      BY <2>7 DEF Return
    <3>2. call[t].req \in Requests /\ call[t] \in Calls
      BY <3>1, UnderWay
    <3>3. call[t].answer # "pending"
      BY <3>1, <3>2 DEF FilesInv, CallRight, Idle
    <3>4. asked' = [asked EXCEPT ![t] = Nobody] /\ answer' = [answer EXCEPT ![t] = "pending"]
      BY <2>1, <3>1 DEF Idle
    <3>5. placing' = placing
      BY <3>1 DEF fixed
    <3> QED
      BY <3>1, <3>2, <3>3, <3>4, <3>5, FileRedirectionAssumption DEF Placed!GoOn
  <2>8. CASE UNCHANGED filesVars
    BY <2>8 DEF filesVars, fixed, Placed!vars
  <2> QED
    BY <2>3, <2>4, <2>5, <2>6, <2>7, <2>8 DEF FilesNext, Placed!Next
<1> QED
  BY <1>1, <1>2, FilesInvariant, PTL DEF FilesSpec, ImplementsPlacedFiles, Placed!Spec
=============================================================================
