------------------------- MODULE Mods_proofs -------------------------
(***************************************************************************)
(* The safety of loading mods and of running them.                         *)
(*                                                                         *)
(* ModLoader, for any packages, DLLs and interference: the invariant adds  *)
(* to the properties what the loader knows in the middle of a pass: that   *)
(* only three of the passes have a current package, that each key was      *)
(* earned by a report, and how far each pass has come.                     *)
(*                                                                         *)
(* ModHost, for any mods, names and registrations: the invariant says what *)
(* names a handler, a text, a scope and the mod in hand can have.          *)
(*                                                                         *)
(* PipeLines, for any text and any cuts: what drain_lines does a byte at a *)
(* time gives the lines that were printed, and reading in pieces gives what *)
(* draining the whole does.  The same for HostServices: a text is read back *)
(* from its bytes, and an answer fits whatever buffer there is.            *)
(***************************************************************************)
EXTENDS ModLoader, ModHost, FiniteSetTheorems, SequenceTheorems, WellFoundedInduction, TLAPS

NativePasses == {"premain", "preload", "hot"}
BeforePublish == {"preloader", "premain", "publish"}

CurInPass == cur # Idle => pass \in NativePasses

\* Some package that names d passed the checks with it.
Checked(d) ==
    \E s \in reports : s.state # "Failed" /\ Dll(s.mod) = d /\ mods[s.mod].exports

KeysChecked == \A d \in keys : Checked(d)
ReportsChecked == \A r \in reports : r.state # "Failed" => Checked(Dll(r.mod))

Attempted(p) == \E r \in reports : r.mod = p /\ r.pass = "premain"

PremainProgress ==
    proxy # "Loaded" =>
        /\ pass = "premain" => \A p \in NativePreloads : p \in left \/ Attempted(p)
        /\ pass \notin {"preloader", "premain"} =>
               \A p \in NativePreloads : Attempted(p)

DialogShown ==
    pass \notin BeforePublish =>
        \A p \in RequiredFailures : Listed(p) => p \in told

HotProgress ==
    \A p \in Discovered({"hot"}) :
        mods[p].required =>
            /\ pass = "hot" => p \in left \/ Succeeded(p) \/ p \in told
            /\ pass = "done" => Succeeded(p) \/ p \in told

\* The second pass takes the PreLoader first, and goes on after it only if
\* BLoader does not hold it.
PreLoaderFirst(p) ==
    /\ pass = "preload" /\ left # {} => p \in left \/ Dll(p) \notin held
    /\ pass = "preload" /\ p \in left /\ cur # Idle => cur.mod = p
    /\ pass = "preload" /\ cur.at = "verify" /\ cur.mod = p /\ Dll(p) \in held =>
           cur.got = Dll(p)

ProxySettled == pass \in {"preloader", "premain"} => proxy # "Loaded"
HotOnly == pass = "hot" => \A q \in left : mods[q].type = "hot"

DelegationProgress ==
    /\ ProxySettled /\ HotOnly
    /\ proxy = "Loaded" => \A p \in Packages : OnePreLoader(p) => PreLoaderFirst(p)

LoaderInv ==
    /\ TypeOK
    /\ CurInPass
    /\ LoadedOnce
    /\ KeysChecked
    /\ ReportsChecked
    /\ PremainProgress
    /\ DialogShown
    /\ HotProgress
    /\ DelegationProgress

-----------------------------------------------------------------------------
(* Types.                                                                  *)

ModuleTypes == loaded \in SUBSET Dlls /\ held \in SUBSET loaded

PassTypes ==
    /\ mods \in [Packages -> Manifests]
    /\ proxy \in {"untried", "NotFound", "Loaded", "Failed"}
    /\ pass \in Passes
    /\ left \in SUBSET Packages
    /\ \/ cur = Idle
       \/ cur \in [mod : left, at : {"load", "verify"}, got : Dlls \cup {NoDll},
                   found : BOOLEAN]
    /\ reports \in SUBSET [mod : Packages, pass : NativePasses, state : States]
    /\ told \in SUBSET Packages
    /\ CurInPass

LEMMA TypesTogether ==
    TypeOK /\ CurInPass <=> ModuleTypes /\ PassTypes /\ keys \in SUBSET Dlls
  BY DEF TypeOK, ModuleTypes, PassTypes, NativePasses

\* A manifest names one of the DLLs.
LEMMA DllOfPackage ==
    ASSUME PassTypes, NEW p \in Packages
    PROVE  Dll(p) \in Dlls
  BY ModLoaderAssumption DEF PassTypes, Dll

LEMMA CurrentPackage ==
    ASSUME PassTypes, cur.at \in {"load", "verify"}
    PROVE  /\ cur.mod \in left /\ cur.mod \in Packages
           /\ cur.got \in Dlls \cup {NoDll} /\ cur.found \in BOOLEAN
           /\ pass \in NativePasses
  <1>1. cur # Idle
    BY DEF Idle
  <1> QED
    BY <1>1 DEF PassTypes, CurInPass

LEMMA TurnOfPackage ==
    ASSUME NEW p, Turn(p)
    PROVE  p \in left /\ pass \in NativePasses
  BY DEF Turn, NativePasses

\* LoadLibrary only adds modules, and BLoader holds no module that is gone.
LEMMA LoadLibraryTypes ==
    ASSUME ModuleTypes, NEW d \in Dlls, NEW got \in Dlls \cup {NoDll},
           LoadLibrary(d, got)
    PROVE  ModuleTypes'
  BY ModLoaderAssumption DEF ModuleTypes, LoadLibrary

LEMMA ReportTypes ==
    ASSUME PassTypes, NEW p \in left, pass \in NativePasses, NEW state \in States,
           Report(p, state)
    PROVE  PassTypes'
  BY DEF PassTypes, CurInPass, Report, Idle

LEMMA ProceedTypes ==
    ASSUME PassTypes, NEW p \in left, pass \in NativePasses,
           NEW at \in {"load", "verify"}, NEW got \in Dlls \cup {NoDll},
           NEW found \in BOOLEAN, Proceed(p, at, got, found)
    PROVE  PassTypes'
  BY DEF PassTypes, CurInPass, Proceed

LEMMA ToPassTypes ==
    ASSUME PassTypes, NEW next \in Passes, NEW list \in SUBSET Packages,
           cur = Idle, ToPass(next, list), told' \in SUBSET Packages
    PROVE  PassTypes'
  BY DEF PassTypes, CurInPass, ToPass

LEMMA AfterProxyTypes ==
    ASSUME PassTypes, pass = "preloader",
           NEW state \in {"NotFound", "Loaded", "Failed"}, AfterProxy(state)
    PROVE  PassTypes'
  <1>1. cur = Idle
    BY DEF PassTypes, CurInPass, NativePasses
  <1>2. NativePreloads \subseteq Packages
    BY DEF NativePreloads
  <1> QED
    BY <1>1, <1>2 DEF PassTypes, CurInPass, AfterProxy, Passes

LEMMA TypesInit == Init => TypeOK /\ CurInPass
  BY ModLoaderAssumption DEF Init, TypeOK, CurInPass, Passes

LEMMA TypesStep ==
    ASSUME TypeOK, CurInPass, [Next]_vars
    PROVE  TypeOK' /\ CurInPass'
<1> USE DEF Passes, States, NativePasses
<1>0. ModuleTypes /\ PassTypes /\ keys \in SUBSET Dlls
  BY TypesTogether
<1> SUFFICES ModuleTypes' /\ PassTypes' /\ (keys \in SUBSET Dlls)'
  BY DEF TypeOK, ModuleTypes, PassTypes
<1>1. CASE NoCandidate
  BY <1>0, <1>1, AfterProxyTypes DEF NoCandidate, AfterProxy, moduleVars, ModuleTypes
<1>2. ASSUME NEW p \in Packages, PreLoaderPresent(p)
      PROVE  ModuleTypes' /\ PassTypes' /\ (keys \in SUBSET Dlls)'
  <2>1. PICK state \in {"Loaded", "Failed"} : AfterProxy(state)
    BY <1>2 DEF PreLoaderPresent
  <2>2. PassTypes'
    BY <1>0, <1>2, <2>1, AfterProxyTypes DEF PreLoaderPresent
  <2> QED
    BY <1>0, <1>2, <2>1, <2>2 DEF PreLoaderPresent, AfterProxy, moduleVars, ModuleTypes
<1>3. ASSUME NEW p \in Packages, LoadPreLoader(p)
      PROVE  ModuleTypes' /\ PassTypes' /\ (keys \in SUBSET Dlls)'
  <2>1. PICK got \in {Dll(p), NoDll} :
           /\ LoadLibrary(Dll(p), got)
           /\ AfterProxy(IF got = Dll(p) THEN "Loaded" ELSE "Failed")
    BY <1>3 DEF LoadPreLoader
  <2>2. ModuleTypes'
    BY <1>0, <2>1, DllOfPackage, LoadLibraryTypes
  <2>3. PassTypes'
    BY <1>0, <1>3, <2>1, AfterProxyTypes DEF LoadPreLoader
  <2> QED
    BY <1>0, <2>1, <2>2, <2>3 DEF AfterProxy
<1>4. ASSUME NEW p \in Packages, Settled(p)
      PROVE  ModuleTypes' /\ PassTypes' /\ (keys \in SUBSET Dlls)'
  <2>1. p \in left /\ pass \in NativePasses
    BY <1>4, TurnOfPackage DEF Settled
  <2>2. PassTypes'
    BY <1>0, <1>4, <2>1, ReportTypes DEF Settled
  <2> QED
    BY <1>0, <1>4, <2>2 DEF Settled, moduleVars, ModuleTypes
<1>5. ASSUME NEW p \in Packages, LookUp(p)
      PROVE  ModuleTypes' /\ PassTypes' /\ (keys \in SUBSET Dlls)'
  <2>1. p \in left /\ pass \in NativePasses
    BY <1>5, TurnOfPackage DEF LookUp
  <2>2. ASSUME Proceed(p, "load", NoDll, FALSE) PROVE PassTypes'
    BY <1>0, <2>1, <2>2, ProceedTypes
  <2>3. ASSUME Proceed(p, "verify", Dll(p), TRUE) PROVE PassTypes'
    BY <1>0, <2>1, <2>3, ProceedTypes, DllOfPackage
  <2>4. ASSUME Report(p, "Failed") PROVE PassTypes'
    BY <1>0, <2>1, <2>4, ReportTypes
  <2>5. PassTypes'
    BY <1>5, <2>2, <2>3, <2>4 DEF LookUp
  <2> QED
    BY <1>0, <1>5, <2>5 DEF LookUp, moduleVars, ModuleTypes
<1>6. CASE Load
  <2>1. cur.mod \in left /\ cur.mod \in Packages /\ pass \in NativePasses
    BY <1>0, <1>6, CurrentPackage DEF Load
  <2>2. Dll(cur.mod) \in Dlls
    BY <1>0, <2>1, DllOfPackage
  <2>3. CASE Fails(cur.mod)
    BY <1>0, <2>1, <2>2, <2>3, LoadLibraryTypes, ReportTypes DEF Fails
  <2>4. ASSUME NEW got \in {Dll(cur.mod), NoDll}, LoadLibrary(Dll(cur.mod), got),
               Proceed(cur.mod, "verify", got, FALSE), UNCHANGED keys
        PROVE  ModuleTypes' /\ PassTypes' /\ (keys \in SUBSET Dlls)'
    BY <1>0, <2>1, <2>2, <2>4, LoadLibraryTypes, ProceedTypes
  <2> QED
    BY <1>6, <2>3, <2>4 DEF Load
<1>7. CASE Verify
  <2>1. cur.mod \in left /\ cur.mod \in Packages /\ pass \in NativePasses
    BY <1>0, <1>7, CurrentPackage DEF Verify
  <2>2. Dll(cur.mod) \in Dlls
    BY <1>0, <2>1, DllOfPackage
  <2>3. PICK state \in States : Report(cur.mod, state)
    BY <1>7 DEF Verify
  <2>4. PassTypes'
    BY <1>0, <2>1, <2>3, ReportTypes
  <2> QED
    BY <1>0, <1>7, <2>2, <2>4 DEF Verify, moduleVars, ModuleTypes
<1>8. CASE EndPremain \/ Publish \/ EndPreload \/ EndBl \/ EndHot
  <2>1. cur = Idle
    BY <1>0, <1>8 DEF PassTypes, CurInPass, EndPremain, Publish, EndPreload, EndBl,
                      EndHot, PassOver
  <2>2. told' \in SUBSET Packages
    BY <1>0, <1>8 DEF PassTypes, RequiredFailures, EndPremain, Publish, EndPreload,
                      EndBl, EndHot
  <2>3. /\ \A types : Discovered(types) \in SUBSET Packages
        /\ \A loose \in Packagings : loose \in SUBSET Packages
    BY DEF Discovered, Packagings
  <2>4. PICK next \in Passes, list \in SUBSET Packages : ToPass(next, list)
    BY <1>8, <2>3 DEF EndPremain, Publish, EndPreload, EndBl, EndHot
  <2>5. PassTypes'
    BY <1>0, <2>1, <2>2, <2>4, ToPassTypes
  <2> QED
    BY <1>0, <2>4, <2>5 DEF ToPass, moduleVars, ModuleTypes
<1>9. ASSUME NEW p \in Packages, LoadBl(p)
      PROVE  ModuleTypes' /\ PassTypes' /\ (keys \in SUBSET Dlls)'
  <2>1. Dll(p) \in Dlls
    BY <1>0, DllOfPackage
  <2>2. ModuleTypes'
    BY <1>0, <1>9, <2>1, LoadLibraryTypes DEF LoadBl, BlTurn, moduleVars, ModuleTypes
  <2>3. cur = Idle
    BY <1>0, <1>9 DEF PassTypes, CurInPass, LoadBl, BlTurn
  <2>4. PassTypes'
    BY <1>0, <1>9, <2>3 DEF PassTypes, CurInPass, LoadBl, BlTurn
  <2> QED
    BY <1>0, <1>9, <2>2, <2>4 DEF LoadBl
<1>10. ASSUME NEW d \in Dlls, OthersLoad(d) \/ OthersFree(d)
       PROVE  ModuleTypes' /\ PassTypes' /\ (keys \in SUBSET Dlls)'
  <2>1. ModuleTypes'
    BY <1>0, <1>10 DEF ModuleTypes, OthersLoad, OthersFree
  <2>2. PassTypes'
    BY <1>0, <1>10 DEF PassTypes, CurInPass, OthersLoad, OthersFree, passVars
  <2> QED
    BY <1>0, <1>10, <2>1, <2>2 DEF OthersLoad, OthersFree
<1>11. CASE UNCHANGED vars
  BY <1>0, <1>11 DEF ModuleTypes, PassTypes, CurInPass, vars
<1> QED
  BY <1>1, <1>2, <1>3, <1>4, <1>5, <1>6, <1>7, <1>8, <1>9, <1>10, <1>11
  DEF Next, PassStep, PackageStep, OthersStep, Rest

-----------------------------------------------------------------------------
(* What a step can do to the passes.                                       *)

EndOfPass == EndPremain \/ Publish \/ EndPreload \/ EndBl \/ EndHot

Reports(p, state) == p \in left /\ pass \in NativePasses /\ Report(p, state)

PassesAlone == UNCHANGED <<mods, proxy, pass, left, reports, told>>

LEMMA StepKinds ==
    ASSUME TypeOK, CurInPass, [Next]_vars
    PROVE  \/ \E state \in {"NotFound", "Loaded", "Failed"} :
                 pass = "preloader" /\ AfterProxy(state)
           \/ \E p \in Packages, state \in States : Reports(p, state)
           \/ PassesAlone
           \/ EndOfPass
           \/ \E p \in Packages : LoadBl(p)
<1> USE DEF States
<1>0. PassTypes
  BY TypesTogether
<1>1. CASE NoCandidate
  BY <1>1 DEF NoCandidate
<1>2. CASE \E p \in Packages : PreLoaderPresent(p) \/ LoadPreLoader(p)
  BY <1>2 DEF PreLoaderPresent, LoadPreLoader
<1>3. CASE \E p \in Packages : Settled(p) \/ LookUp(p)
  <2>1. PICK p \in Packages : Settled(p) \/ LookUp(p)
    BY <1>3
  <2>2. p \in left /\ pass \in NativePasses
    BY <2>1, TurnOfPackage DEF Settled, LookUp
  <2> QED
    BY <2>1, <2>2 DEF Settled, LookUp, Proceed, Reports, PassesAlone
<1>4. CASE Load \/ Verify
  <2>1. cur.mod \in left /\ cur.mod \in Packages /\ pass \in NativePasses
    BY <1>0, <1>4, CurrentPackage DEF Load, Verify
  <2> QED
    BY <1>4, <2>1 DEF Load, Fails, Verify, Proceed, Reports, PassesAlone
<1>5. CASE OthersStep \/ UNCHANGED vars
  BY <1>5 DEF OthersStep, OthersLoad, OthersFree, PassesAlone, passVars, vars
<1> QED
  BY <1>1, <1>2, <1>3, <1>4, <1>5
  DEF Next, PassStep, PackageStep, Rest, EndOfPass

\* The manifests never change, and no report is ever withdrawn.
LEMMA ReportsGrow ==
    ASSUME TypeOK, CurInPass, [Next]_vars
    PROVE  mods' = mods /\ reports \subseteq reports'
  BY StepKinds DEF AfterProxy, Reports, Report, PassesAlone, EndOfPass, EndPremain,
     Publish, EndPreload, EndBl, EndHot, ToPass, LoadBl

LEMMA PackagesFixed ==
    ASSUME mods' = mods
    PROVE  /\ \A p : Dll(p)' = Dll(p)
           /\ NativePreloads' = NativePreloads
           /\ \A types : Discovered(types)' = Discovered(types)
  BY DEF Dll, NativePreloads, Discovered, OnDisk

-----------------------------------------------------------------------------
(* LoadedOnce.                                                             *)

LEMMA OnceStep ==
    ASSUME TypeOK, CurInPass, LoadedOnce, [Next]_vars
    PROVE  LoadedOnce'
<1>0. PassTypes /\ mods' = mods
  BY TypesTogether, ReportsGrow
<1>1. CASE UNCHANGED <<cur, held>>
  BY <1>0, <1>1, PackagesFixed DEF LoadedOnce
<1>2. CASE cur' = Idle
  BY <1>2 DEF LoadedOnce, Idle
<1>3. CASE \E p \in Packages : LoadPreLoader(p) \/ LoadBl(p)
  <2>1. cur = Idle
    BY <1>0, <1>3 DEF PassTypes, CurInPass, NativePasses, LoadPreLoader, LoadBl, BlTurn
  <2>2. cur' = cur
    BY <1>3 DEF LoadPreLoader, LoadBl, AfterProxy
  <2> QED
    BY <1>2, <2>1, <2>2
<1>4. ASSUME NEW p \in Packages, LookUp(p)
      PROVE  LoadedOnce'
  <2>1. CASE Handles(Base[Dll(p)]) = {} /\ Proceed(p, "load", NoDll, FALSE)
    <3>1. Dll(p) \notin loaded
      BY <2>1 DEF Handles
    <3>2. Dll(p) \notin held'
      BY <1>4, <3>1 DEF LookUp, moduleVars, TypeOK
    <3>3. cur'.mod = p
      BY <2>1 DEF Proceed
    <3>4. Dll(cur.mod)' = Dll(p)
      BY <1>0, <3>3 DEF Dll
    <3> QED
      BY <3>2, <3>4 DEF LoadedOnce
  <2>2. CASE Proceed(p, "verify", Dll(p), TRUE)
    BY <2>2 DEF Proceed, LoadedOnce
  <2>3. CASE Report(p, "Failed")
    BY <1>2, <2>3 DEF Report
  <2> QED
    BY <1>4, <2>1, <2>2, <2>3 DEF LookUp
<1>5. CASE Load
  <2>1. cur' = Idle \/ cur'.at = "verify"
    BY <1>5 DEF Load, Fails, Report, Proceed
  <2> QED
    BY <1>2, <2>1 DEF LoadedOnce
<1>6. CASE Verify \/ \E p \in Packages : Settled(p)
  BY <1>2, <1>6 DEF Verify, Settled, Report
<1>7. CASE EndOfPass \/ NoCandidate \/ (\E p \in Packages : PreLoaderPresent(p))
  BY <1>1, <1>7 DEF EndOfPass, EndPremain, Publish, EndPreload, EndBl, EndHot,
     ToPass, NoCandidate, PreLoaderPresent, AfterProxy, moduleVars
<1>8. CASE OthersStep \/ UNCHANGED vars
  BY <1>1, <1>8 DEF OthersStep, OthersLoad, OthersFree, passVars, vars
<1> QED
  BY <1>3, <1>4, <1>5, <1>6, <1>7, <1>8
  DEF Next, PassStep, PackageStep, Rest, EndOfPass

-----------------------------------------------------------------------------
(* VerifiedWasChecked.                                                     *)

LEMMA CheckedStays ==
    ASSUME mods' = mods, reports \subseteq reports'
    PROVE  \A d : Checked(d) => Checked(d)'
  BY DEF Checked, Dll

LEMMA KeysStep ==
    ASSUME TypeOK, CurInPass, KeysChecked, ReportsChecked, [Next]_vars
    PROVE  KeysChecked' /\ ReportsChecked'
<1>0. PassTypes /\ mods' = mods /\ reports \subseteq reports'
  BY TypesTogether, ReportsGrow
<1>1. \A d : Checked(d) => Checked(d)'
  BY <1>0, CheckedStays
<1>2. CASE UNCHANGED <<keys, reports>>
  BY <1>0, <1>1, <1>2, PackagesFixed DEF KeysChecked, ReportsChecked
<1>3. ASSUME NEW p \in Packages, NEW state, Report(p, state), UNCHANGED keys,
             state # "Failed" => Checked(Dll(p))
      PROVE  KeysChecked' /\ ReportsChecked'
  <2>1. \A r \in reports' : r \in reports \/ (r.mod = p /\ r.state = state)
    BY <1>3 DEF Report
  <2> QED
    BY <1>0, <1>1, <1>3, <2>1, PackagesFixed DEF KeysChecked, ReportsChecked
<1>4. CASE \E p \in Packages : Settled(p) \/ LookUp(p)
  BY <1>2, <1>3, <1>4 DEF Settled, LookUp, Proceed, KeysChecked
<1>5. CASE Load
  <2>1. cur.mod \in Packages
    BY <1>0, <1>5, CurrentPackage DEF Load
  <2> QED
    BY <1>2, <1>3, <1>5, <2>1 DEF Load, Fails, Proceed
<1>6. CASE Verify
  <2>1. PICK p \in Packages : p = cur.mod
    BY <1>0, <1>6, CurrentPackage DEF Verify
  <2>2. CASE ~Verified(p)
    BY <1>3, <1>6, <2>1, <2>2 DEF Verify
  <2>3. CASE Verified(p)
    <3>1. PICK state \in {"Verified", "AlreadyVerified"} : Report(p, state)
      BY <1>6, <2>1, <2>3 DEF Verify
    <3> DEFINE new == [mod |-> p, pass |-> pass, state |-> state]
    <3>1a. new \in reports' /\ new.mod = p /\ new.state = state
      BY <3>1 DEF Report
    <3>2. PICK r \in reports' : r.mod = p /\ r.state = state
      BY <3>1a
    <3>3. \A s \in reports' : s \in reports \/ s.mod = p
      BY <3>1 DEF Report
    <3>4. keys' = keys \cup {Dll(p)}
      BY <1>6, <2>1, <2>3 DEF Verify
    <3>5. PICK d : d = Dll(p)
      OBVIOUS
    <3>6. Checked(d)'
      BY <1>0, <2>3, <3>2, <3>5 DEF Checked, Verified, Dll
    <3>7. \A q : Dll(q)' = Dll(q)
      BY <1>0, PackagesFixed
    <3>8. KeysChecked'
      BY <1>1, <3>4, <3>5, <3>6 DEF KeysChecked
    <3>9. ReportsChecked'
      BY <1>1, <3>3, <3>5, <3>6, <3>7 DEF ReportsChecked
    <3> QED
      BY <3>8, <3>9
  <2> QED
    BY <2>2, <2>3
<1>7. CASE PassStep
  BY <1>2, <1>7 DEF PassStep, NoCandidate, PreLoaderPresent, LoadPreLoader, AfterProxy,
     EndPremain, Publish, EndPreload, EndBl, EndHot, ToPass, LoadBl
<1>8. CASE OthersStep \/ UNCHANGED vars
  BY <1>2, <1>8 DEF OthersStep, OthersLoad, OthersFree, passVars, vars
<1> QED
  BY <1>4, <1>5, <1>6, <1>7, <1>8 DEF Next, PackageStep, Rest

-----------------------------------------------------------------------------
(* FallbackComplete.                                                       *)

LEMMA PremainStep ==
    ASSUME TypeOK, CurInPass, PremainProgress, [Next]_vars
    PROVE  PremainProgress'
<1>0. PassTypes /\ mods' = mods /\ reports \subseteq reports'
  BY TypesTogether, ReportsGrow
<1>1. NativePreloads' = NativePreloads /\ \A p : Attempted(p) => Attempted(p)'
  BY <1>0, PackagesFixed DEF Attempted
<1>2. ASSUME NEW state \in {"NotFound", "Loaded", "Failed"}, AfterProxy(state)
      PROVE  PremainProgress'
  BY <1>1, <1>2 DEF AfterProxy, PremainProgress
<1>3. ASSUME NEW p \in Packages, NEW state \in States, Reports(p, state)
      PROVE  PremainProgress'
  <2>1. pass' = pass /\ proxy' = proxy
    BY <1>3 DEF Reports, Report
  <2>2. CASE pass = "premain"
    <3>1. left' = left \ {p}
      BY <1>3, <2>2 DEF Reports, Report
    <3> DEFINE new == [mod |-> p, pass |-> pass, state |-> state]
    <3>2. new \in reports' /\ new.mod = p /\ new.pass = "premain"
      BY <1>3, <2>2 DEF Reports, Report
    <3>3. Attempted(p)'
      BY <3>2 DEF Attempted
    <3> QED
      BY <1>1, <2>1, <2>2, <3>1, <3>3 DEF PremainProgress
  <2>3. CASE pass # "premain"
    BY <1>1, <2>1, <2>3 DEF PremainProgress
  <2> QED
    BY <2>2, <2>3
<1>4. CASE PassesAlone
  BY <1>1, <1>4 DEF PassesAlone, PremainProgress
<1>5. CASE EndOfPass
  BY <1>1, <1>5 DEF EndOfPass, EndPremain, Publish, EndPreload, EndBl, EndHot, ToPass,
     PassOver, PremainProgress
<1>6. CASE \E p \in Packages : LoadBl(p)
  BY <1>1, <1>6 DEF LoadBl, BlTurn, PremainProgress
<1> QED
  BY <1>2, <1>3, <1>4, <1>5, <1>6, StepKinds

-----------------------------------------------------------------------------
(* RequiredAccounted.                                                      *)

\* Only the first pass adds to the failures the dialog lists.
LEMMA FailuresFixed ==
    ASSUME mods' = mods,
           \A r : r.pass = "premain" => (r \in reports <=> r \in reports')
    PROVE  RequiredFailures' = RequiredFailures /\ \A p : Listed(p)' = Listed(p)
  BY DEF RequiredFailures, Listed

LEMMA DialogStep ==
    ASSUME TypeOK, CurInPass, DialogShown, [Next]_vars
    PROVE  DialogShown'
<1>0. mods' = mods
  BY ReportsGrow
<1>1. ASSUME reports' = reports
      PROVE  RequiredFailures' = RequiredFailures /\ \A p : Listed(p)' = Listed(p)
  BY <1>0, <1>1, FailuresFixed
<1>2. ASSUME NEW state, AfterProxy(state)
      PROVE  DialogShown'
  BY <1>2 DEF AfterProxy, DialogShown, BeforePublish
<1>3. ASSUME NEW p \in Packages, NEW state \in States, Reports(p, state)
      PROVE  DialogShown'
  <2>1. pass' = pass /\ told \subseteq told'
    BY <1>3 DEF Reports, Report
  <2>2. CASE pass \in BeforePublish
    BY <2>1, <2>2 DEF DialogShown
  <2>3. CASE pass \notin BeforePublish
    <3> DEFINE new == [mod |-> p, pass |-> pass, state |-> state]
    <3>1. reports' = reports \cup {new} /\ new.pass # "premain"
      BY <1>3, <2>3 DEF Reports, Report, BeforePublish
    <3>2. \A r : r.pass = "premain" => (r \in reports <=> r \in reports')
      BY <3>1
    <3> QED
      BY <1>0, <2>1, <2>3, <3>2, FailuresFixed DEF DialogShown
  <2> QED
    BY <2>2, <2>3
<1>4. CASE PassesAlone
  BY <1>1, <1>4 DEF PassesAlone, DialogShown
<1>5. CASE EndOfPass
  <2>1. reports' = reports
    BY <1>5 DEF EndOfPass, EndPremain, Publish, EndPreload, EndBl, EndHot, ToPass
  <2>2. CASE Publish
    BY <1>1, <2>1, <2>2 DEF Publish, DialogShown, RequiredFailures
  <2>3. CASE EndPremain
    BY <2>3 DEF EndPremain, ToPass, DialogShown, BeforePublish
  <2>4. CASE EndPreload \/ EndBl \/ EndHot
    BY <1>1, <2>1, <2>4 DEF EndPreload, EndBl, EndHot, ToPass, DialogShown,
       BeforePublish
  <2> QED
    BY <1>5, <2>2, <2>3, <2>4 DEF EndOfPass
<1>6. CASE \E p \in Packages : LoadBl(p)
  BY <1>1, <1>6 DEF LoadBl, BlTurn, DialogShown
<1> QED
  BY <1>2, <1>3, <1>4, <1>5, <1>6, StepKinds

LEMMA HotStep ==
    ASSUME TypeOK, CurInPass, HotProgress, [Next]_vars
    PROVE  HotProgress'
<1>0. mods' = mods /\ reports \subseteq reports'
  BY ReportsGrow
<1>1. /\ \A types : Discovered(types)' = Discovered(types)
      /\ \A p : Succeeded(p) => Succeeded(p)'
  BY <1>0, PackagesFixed DEF Succeeded
<1>2. ASSUME NEW state, AfterProxy(state)
      PROVE  HotProgress'
  BY <1>2 DEF AfterProxy, HotProgress
<1>3. ASSUME NEW p \in Packages, NEW state \in States, Reports(p, state)
      PROVE  HotProgress'
  <2>1. pass' = pass /\ told \subseteq told' /\ pass # "done"
    BY <1>3 DEF Reports, Report, NativePasses
  <2>2. CASE pass # "hot"
    BY <2>1, <2>2 DEF HotProgress
  <2>3. CASE pass = "hot"
    <3>1. left' = left \ {p}
      BY <1>3, <2>3 DEF Reports, Report
    <3>2. CASE state = "Failed"
      <4>1. mods[p].required => p \in told'
        BY <1>3, <2>3, <3>2 DEF Reports, Report
      <4> QED
        BY <1>0, <1>1, <2>1, <2>3, <3>1, <4>1 DEF HotProgress
    <3>3. CASE state # "Failed"
      <4> DEFINE new == [mod |-> p, pass |-> pass, state |-> state]
      <4>1. new \in reports' /\ new.mod = p /\ new.state # "Failed"
        BY <1>3, <3>3 DEF Reports, Report
      <4>2. Succeeded(p)'
        BY <4>1 DEF Succeeded
      <4> QED
        BY <1>0, <1>1, <2>1, <2>3, <3>1, <4>2 DEF HotProgress
    <3> QED
      BY <3>2, <3>3
  <2> QED
    BY <2>2, <2>3
<1>4. CASE PassesAlone
  BY <1>0, <1>1, <1>4 DEF PassesAlone, HotProgress
<1>5. CASE EndOfPass
  BY <1>0, <1>1, <1>5 DEF EndOfPass, EndPremain, Publish, EndPreload, EndBl, EndHot,
     ToPass, PassOver, HotProgress
<1>6. CASE \E p \in Packages : LoadBl(p)
  BY <1>0, <1>1, <1>6 DEF LoadBl, BlTurn, HotProgress
<1> QED
  BY <1>2, <1>3, <1>4, <1>5, <1>6, StepKinds

-----------------------------------------------------------------------------
(* DelegationKept.                                                         *)

LEMMA OnePreLoaderFixed ==
    ASSUME mods' = mods
    PROVE  \A p : OnePreLoader(p)' <=> OnePreLoader(p)
  BY PackagesFixed DEF OnePreLoader, Candidates, OnDisk, Dll

\* Of a package that has its turn before the PreLoader there is none.
LEMMA PreLoaderHasTurn ==
    ASSUME PassTypes, NEW p \in Packages, OnePreLoader(p), pass = "preload", p \in left,
           NEW q \in Packages, Turn(q)
    PROVE  q = p
<1> SUFFICES ASSUME q # p PROVE FALSE
  OBVIOUS
<1>1. Precedes(q, p)
  BY DEF Turn
<1>2. mods[p].preLoader /\ mods[q].preLoader \in BOOLEAN /\ ~ mods[q].preLoader
  BY ModLoaderAssumption DEF PassTypes, OnePreLoader
<1> QED
  BY <1>1, <1>2 DEF Precedes

LEMMA PreLoaderFirstStep ==
    ASSUME TypeOK, CurInPass, LoadedOnce, [Next]_vars, NEW p \in Packages, OnePreLoader(p),
           PreLoaderFirst(p)
    PROVE  PreLoaderFirst(p)'
<1> USE DEF moduleVars
<1>0. /\ PassTypes /\ ModuleTypes /\ mods' = mods
      /\ Dll(p)' = Dll(p) /\ Dll(p) \in Dlls /\ Dll(p) # NoDll
  BY TypesTogether, ReportsGrow, PackagesFixed, DllOfPackage, ModLoaderAssumption
<1>1. CASE pass # "preload"
  <2>1. CASE Publish
    <3>1. p \in Discovered({"preload", "native"})
      BY DEF OnePreLoader, Candidates, Discovered
    <3>2. \/ cur' = Idle /\ p \in left'
          \/ pass' = "disabled"
      BY <1>0, <2>1, <3>1 DEF Publish, ToPass, PassTypes, CurInPass, NativePasses
    <3> QED
      BY <3>2 DEF PreLoaderFirst, Idle
  <2>2. CASE ~ Publish
    <3>1. pass' # "preload"
      BY <1>1, <2>2, StepKinds DEF AfterProxy, Reports, Report, PassesAlone, EndOfPass,
         EndPremain, EndPreload, EndBl, EndHot, ToPass, LoadBl
    <3> QED
      BY <3>1 DEF PreLoaderFirst
  <2> QED
    BY <2>1, <2>2
<1>2. ASSUME pass = "preload", NEW q \in left, NEW state \in States, Report(q, state),
             UNCHANGED held, p \in left => q = p, q = p /\ state = "Failed" => Dll(p) \notin held
      PROVE  PreLoaderFirst(p)'
  <2>1. cur' = Idle /\ left' \subseteq left /\ held' = held /\ cur'.at = "idle"
    BY <1>2 DEF Report, Idle
  <2>2. left' # {} => p \in left' \/ Dll(p) \notin held
    <3>1. CASE p \notin left
      BY <1>2, <3>1 DEF PreLoaderFirst
    <3>2. CASE p \in left /\ state # "Failed"
      BY <1>2, <3>2 DEF Report, OnePreLoader
    <3>3. CASE p \in left /\ state = "Failed"
      BY <1>2, <3>3
    <3> QED
      BY <3>1, <3>2, <3>3
  <2> QED
    BY <1>0, <2>1, <2>2 DEF PreLoaderFirst
<1>3. ASSUME NEW q \in Packages, Settled(q), pass = "preload"
      PROVE  PreLoaderFirst(p)'
  <2>1. q \in left /\ (p \in left => q = p)
    BY <1>0, <1>3, PreLoaderHasTurn DEF Settled, Turn
  <2>2. OnDisk(p)
    BY DEF OnePreLoader, Candidates
  <2> QED
    BY <1>2, <1>3, <2>1, <2>2 DEF Settled, States
<1>4. ASSUME NEW q \in Packages, LookUp(q), pass = "preload"
      PROVE  PreLoaderFirst(p)'
  <2>1. q \in left /\ (p \in left => q = p) /\ UNCHANGED held
    BY <1>0, <1>4, PreLoaderHasTurn DEF LookUp, Turn
  <2>2. ASSUME NEW at \in {"load", "verify"}, NEW got, NEW found, Proceed(q, at, got, found),
               at = "verify" => got = Dll(q)
        PROVE  PreLoaderFirst(p)'
    <3>1. cur'.mod = q /\ cur'.at = at /\ cur'.got = got /\ left' = left /\ pass' = pass
      BY <2>2 DEF Proceed
    <3> QED
      BY <1>0, <2>1, <2>2, <3>1 DEF PreLoaderFirst
  <2>3. ASSUME NEW h \in Handles(Base[Dll(q)]), h # Dll(q), Report(q, "Failed")
        PROVE  PreLoaderFirst(p)'
    <3>1. q # p
      <4>1. h \in Dlls /\ Base[h] = Base[Dll(q)]
        BY <1>0 DEF Handles, ModuleTypes
      <4>2. Base[Dll(p)] = PreLoaderDll /\ \A d \in Dlls : Base[d] = PreLoaderDll => d = Dll(p)
        BY DEF OnePreLoader, Candidates
      <4> QED
        BY <2>3, <4>1, <4>2
    <3> QED
      BY <1>2, <1>4, <2>1, <2>3, <3>1 DEF States
  <2> QED
    BY <1>4, <2>2, <2>3 DEF LookUp
<1>5. ASSUME Load, pass = "preload"
      PROVE  PreLoaderFirst(p)'
  <2>1. PICK q \in left : q = cur.mod
    BY <1>0, <1>5, CurrentPackage DEF Load
  <2>2. (p \in left => q = p) /\ Dll(q) \notin held /\ cur # Idle
    BY <1>5, <2>1 DEF Load, PreLoaderFirst, LoadedOnce, Idle
  <2>3. CASE Fails(q)
    BY <1>2, <1>5, <2>2, <2>3 DEF Fails, LoadLibrary, States
  <2>4. ASSUME NEW got \in {Dll(q), NoDll}, LoadLibrary(Dll(q), got),
               Proceed(q, "verify", got, FALSE)
        PROVE  PreLoaderFirst(p)'
    <3>1. /\ cur'.mod = q /\ cur'.at = "verify" /\ cur'.got = got /\ left' = left
          /\ pass' = pass /\ held' = held \cup ({got} \ {NoDll})
      BY <2>4 DEF Proceed, LoadLibrary
    <3>2. left' # {} => p \in left' \/ Dll(p) \notin held'
      <4> SUFFICES ASSUME p \notin left PROVE Dll(p) \notin held'
        BY <3>1
      <4>1. Dll(p) \notin held
        BY <1>5 DEF PreLoaderFirst
      <4>2. Dll(q) # Dll(p)
        BY <1>0 DEF OnePreLoader, PassTypes
      <4> QED
        BY <1>0, <2>4, <3>1, <4>1, <4>2
    <3>3. q = p /\ Dll(p) \in held' => got = Dll(p)
      BY <2>2, <2>4, <3>1
    <3> QED
      BY <1>0, <2>2, <3>1, <3>2, <3>3 DEF PreLoaderFirst
  <2> QED
    BY <1>5, <2>1, <2>3, <2>4 DEF Load
<1>6. ASSUME Verify, pass = "preload"
      PROVE  PreLoaderFirst(p)'
  <2>1. PICK q \in left : q = cur.mod
    BY <1>0, <1>6, CurrentPackage DEF Verify
  <2>2. p \in left => q = p
    BY <1>6, <2>1 DEF Verify, PreLoaderFirst, Idle
  <2>3. CASE Verified(q)
    BY <1>2, <1>6, <2>1, <2>2, <2>3 DEF Verify, States
  <2>4. CASE ~ Verified(q)
    <3>1. q = p => Dll(p) \notin held
      <4> SUFFICES ASSUME q = p, Dll(p) \in held PROVE FALSE
        OBVIOUS
      <4>1. cur.got = Dll(p) /\ Dll(p) \in loaded
        BY <1>0, <1>6, <2>1 DEF Verify, PreLoaderFirst, ModuleTypes
      <4> QED
        BY <2>4, <4>1 DEF Verified, OnePreLoader
    <3> QED
      BY <1>2, <1>6, <2>1, <2>2, <2>4, <3>1 DEF Verify, States
  <2> QED
    BY <2>3, <2>4
<1>7. CASE PassStep /\ pass = "preload"
  BY <1>7 DEF PassStep, NoCandidate, PreLoaderPresent, LoadPreLoader, EndPremain, Publish,
     EndPreload, EndBl, EndHot, LoadBl, BlTurn, ToPass, PreLoaderFirst
<1>8. CASE OthersStep \/ UNCHANGED vars
  <2>1. UNCHANGED <<held, pass, left, cur>>
    BY <1>8 DEF OthersStep, OthersLoad, OthersFree, passVars, vars
  <2> QED
    BY <1>0, <2>1 DEF PreLoaderFirst
<1> QED
  BY <1>1, <1>3, <1>4, <1>5, <1>6, <1>7, <1>8 DEF Next, PackageStep, Rest

LEMMA DelegationStep ==
    ASSUME TypeOK, CurInPass, LoadedOnce, DelegationProgress, [Next]_vars
    PROVE  DelegationProgress'
<1>0. mods' = mods /\ \A p : OnePreLoader(p)' <=> OnePreLoader(p)
  BY ReportsGrow, OnePreLoaderFixed
<1>1. ASSUME NEW state \in {"NotFound", "Loaded", "Failed"}, AfterProxy(state)
      PROVE  DelegationProgress'
  BY <1>1 DEF AfterProxy, DelegationProgress, ProxySettled, HotOnly, PreLoaderFirst
<1>2. CASE proxy' = proxy
  <2>1. ProxySettled' /\ HotOnly'
    <3>1. CASE EndOfPass
      BY <1>0, <3>1 DEF EndOfPass, EndPremain, Publish, EndPreload, EndBl, EndHot, ToPass,
         DelegationProgress, ProxySettled, HotOnly, Discovered
    <3>2. CASE ~ EndOfPass
      <4>1. \/ pass' = pass /\ left' \subseteq left
            \/ \E state \in {"NotFound", "Loaded", "Failed"} : AfterProxy(state)
        BY <3>2, StepKinds DEF Reports, Report, PassesAlone, LoadBl
      <4> QED
        BY <1>0, <1>1, <1>2, <4>1 DEF DelegationProgress, ProxySettled, HotOnly
    <3> QED
      BY <3>1, <3>2
  <2>2. proxy' = "Loaded" => \A p \in Packages : OnePreLoader(p)' => PreLoaderFirst(p)'
    BY <1>0, <1>2, PreLoaderFirstStep DEF DelegationProgress
  <2> QED
    BY <2>1, <2>2 DEF DelegationProgress
<1>3. CASE ~ \E state \in {"NotFound", "Loaded", "Failed"} : AfterProxy(state)
  <2>1. proxy' = proxy
    BY <1>3, StepKinds DEF Reports, Report, PassesAlone, EndOfPass, EndPremain, Publish,
       EndPreload, EndBl, EndHot, ToPass, LoadBl
  <2> QED
    BY <1>2, <2>1
<1> QED
  BY <1>1, <1>3

-----------------------------------------------------------------------------
(* The theorems.                                                           *)

LEMMA LoaderInit == Init => LoaderInv
<1> SUFFICES ASSUME Init PROVE LoaderInv
  OBVIOUS
<1>1. TypeOK /\ CurInPass
  BY TypesInit
<1>2. LoadedOnce /\ KeysChecked /\ ReportsChecked
  BY DEF Init, LoadedOnce, Idle, KeysChecked, ReportsChecked
<1>3. PremainProgress /\ DialogShown /\ HotProgress
  BY DEF Init, PremainProgress, DialogShown, BeforePublish, HotProgress
<1>4. DelegationProgress
  BY DEF Init, DelegationProgress, ProxySettled, HotOnly
<1> QED
  BY <1>1, <1>2, <1>3, <1>4 DEF LoaderInv

LEMMA LoaderStep == LoaderInv /\ [Next]_vars => LoaderInv'
  BY TypesStep, OnceStep, KeysStep, PremainStep, DialogStep, HotStep, DelegationStep
  DEF LoaderInv

\* The loader's invariant holds whatever the packages are, whatever their DLLs
\* load and whatever other code loads and frees meanwhile.
THEOREM LoaderInvariant == Spec => []LoaderInv
  BY LoaderInit, LoaderStep, PTL DEF Spec

\* Type correctness: the modules BLoader holds are loaded, the current package
\* is one the pass has still to handle.
THEOREM LoaderTypeCorrect == Spec => []TypeOK
<1>1. LoaderInv => TypeOK
  BY DEF LoaderInv
<1> QED
  BY <1>1, LoaderInvariant, PTL

\* BLoader never sets out to load a DLL it holds.
THEOREM LoadsOnce == Spec => []LoadedOnce
<1>1. LoaderInv => LoadedOnce
  BY DEF LoaderInv
<1> QED
  BY <1>1, LoaderInvariant, PTL

\* Success is reported only for a DLL that passed some package's checks.
THEOREM VerifiedAreChecked == Spec => []VerifiedWasChecked
<1>1. LoaderInv => VerifiedWasChecked
  <2> SUFFICES ASSUME LoaderInv, NEW r \in reports, r.state # "Failed"
               PROVE  Checked(Dll(r.mod))
    BY DEF VerifiedWasChecked, Checked
  <2> QED
    BY DEF LoaderInv, ReportsChecked
<1> QED
  BY <1>1, LoaderInvariant, PTL

\* Without a working PreLoader every native preload is attempted.
THEOREM FallbackCompletes == Spec => []FallbackComplete
<1>1. LoaderInv => FallbackComplete
  BY DEF LoaderInv, PremainProgress, FallbackComplete, Attempted
<1> QED
  BY <1>1, LoaderInvariant, PTL

\* Each required package BLoader answers for was verified, or the user knows.
THEOREM RequiredAreAccounted == Spec => []RequiredAccounted
<1>1. LoaderInv => RequiredAccounted
  <2> SUFFICES ASSUME LoaderInv, pass = "done", NEW p \in Packages,
                      mods[p].required,
                      \/ mods[p].type = "native" /\ proxy # "Loaded" /\ Listed(p)
                      \/ mods[p].type = "hot" /\ OnDisk(p)
               PROVE  Succeeded(p) \/ p \in told
    BY DEF RequiredAccounted
  <2>1. CASE mods[p].type = "hot" /\ OnDisk(p)
    BY <2>1 DEF LoaderInv, HotProgress, Discovered
  <2>2. CASE mods[p].type = "native" /\ proxy # "Loaded" /\ Listed(p)
    <3>1. PICK r \in reports : r.mod = p /\ r.pass = "premain"
      BY <2>2 DEF LoaderInv, PremainProgress, NativePreloads, Attempted
    <3>2. CASE r.state # "Failed"
      BY <3>1, <3>2 DEF Succeeded
    <3>3. CASE r.state = "Failed"
      <4>1. p \in RequiredFailures
        BY <3>1, <3>3 DEF RequiredFailures
      <4> QED
        BY <2>2, <4>1 DEF LoaderInv, DialogShown, BeforePublish
    <3> QED
      BY <3>2, <3>3
  <2> QED
    BY <2>1, <2>2
<1> QED
  BY <1>1, LoaderInvariant, PTL

\* Once BLoader has loaded the one PreLoader, the second pass finds it first,
\* verifies it and stops: BLoader loads no preload package itself.
THEOREM PreLoaderIsLeftItsPackages == Spec => []DelegationKept
<1>1. LoaderInv => DelegationKept
  <2> SUFFICES ASSUME LoaderInv, NEW p \in Packages, OnePreLoader(p), Dll(p) \in held,
                      proxy = "Loaded", cur.at = "load"
               PROVE  mods[cur.mod].type = "hot"
    BY DEF DelegationKept, Delegated
  <2>0. PassTypes /\ ProxySettled /\ HotOnly /\ PreLoaderFirst(p) /\ LoadedOnce
    BY TypesTogether DEF LoaderInv, DelegationProgress
  <2>1. cur.mod \in left /\ pass \in NativePasses /\ cur # Idle
    BY <2>0, CurrentPackage DEF Idle
  <2>2. pass # "premain"
    BY <2>0 DEF ProxySettled
  <2>3. pass # "preload"
    BY <2>0, <2>1 DEF PreLoaderFirst, LoadedOnce
  <2> QED
    BY <2>0, <2>1, <2>2, <2>3 DEF HotOnly, NativePasses
<1> QED
  BY <1>1, LoaderInvariant, PTL

-----------------------------------------------------------------------------
(* The host of the BL mods.                                                *)

(* A set of numbers that is not empty has a least one.                     *)
LEMMA LeastOne ==
  ASSUME NEW S, S \subseteq Nat, S # {}
  PROVE  Min(S) \in S /\ \A n \in S : Min(S) <= n
<1> DEFINE Less == {pair \in Nat \X Nat : pair[1] < pair[2]}
<1>1. IsWellFoundedOn(Less, Nat)
  BY NatLessThanWellFounded DEF OpToRel
<1> HIDE DEF Less
<1>2. PICK n \in S : \A m \in S : ~ (<<m, n>> \in Less)
  BY <1>1, WFMin, Zenon
<1>3. \A m \in S : ~ (m < n)
  BY <1>2 DEF Less
<1>4. \A m \in S : n <= m
  BY <1>3
<1>5. \E x \in S : \A y \in S : x =< y
  BY <1>4
<1> QED
  BY <1>5 DEF Min

(* A mod can be taken for itself, ...                                      *)
LEMMA TakenForItself ==
  ASSUME NEW m \in ModDlls
  PROVE  m \in Mistaken[m] /\ Mistaken[m] \subseteq ModDlls
BY DEF Mistaken

(* ... and for whoever answers to a name of one it can be taken for.       *)
LEMMA TakenForAnother ==
  ASSUME NEW m \in ModDlls, NEW j \in Mistaken[m], NEW k \in ModDlls,
         Called(j) \cap AnswersTo(k) # {}
  PROVE  k \in Mistaken[m]
<1>1. SUFFICES ASSUME NEW S \in SUBSET ModDlls, m \in S, Closed(S) PROVE k \in S
  BY DEF Mistaken
<1>2. j \in S
  BY <1>1 DEF Mistaken
<1> QED
  BY <1>1, <1>2 DEF Closed

LEMMA NamesOfMods ==
  ASSUME NEW m \in ModDlls
  PROVE  /\ Called(m) \subseteq AnswersTo(m) /\ AnswersTo(m) \subseteq Names
         /\ Called(m) \subseteq MayBeCalled(m) /\ MayBeCalled(m) \subseteq Names
<1>1. \A k \in ModDlls : Called(k) \subseteq AnswersTo(k) /\ AnswersTo(k) \subseteq Names
  BY ModsAssumption DEF Called, AnswersTo
<1> QED
  BY <1>1, TakenForItself DEF MayBeCalled

LEMMA NamesOfOthers ==
  ASSUME NEW m \in ModDlls, NEW j \in Mistaken[m], NEW n \in Called(j)
  PROVE  /\ n \in MayBeCalled(m)
         /\ \A k \in ModDlls : n \in AnswersTo(k) => k \in Mistaken[m]
<1>1. n \in MayBeCalled(m)
  BY DEF MayBeCalled
<1>2. ASSUME NEW k \in ModDlls, n \in AnswersTo(k) PROVE k \in Mistaken[m]
  BY <1>2, TakenForAnother
<1> QED
  BY <1>1, <1>2

-----------------------------------------------------------------------------
Rows == [dll : ModDlls, kind : {"BL", "hot-inject"}, name : Names, answers : SUBSET Names]
Sound(row) == row.name \in Called(row.dll) /\ row.answers \subseteq AnswersTo(row.dll)
Handlers == [kind : {"event", "resource"}, owner : Names \cup {"BL"}, by : ModDlls, early : BOOLEAN]

LoadPlaces == {"load", "dll", "entry", "failed", "main", "rename", "ready", "onload", "finish"}
CallPlaces == {"found", "callback"}
Runs       == {"main", "onload", "callback"}
EventPhases == {"complete", "reload", "resources"}
BootPlaces == LoadPlaces \cup CallPlaces \cup EventPhases \cup {"next", "done"}

(* the names a mod registers something under                               *)
GoesBy(m) == MayBeCalled(m) \cup {"BL"}

HostTypes ==
  /\ registry \in Seq(Rows) /\ handlers \in Seq(Handlers) /\ todo \in Seq(Nat)
  /\ mapped \subseteq ModDlls /\ given \subseteq Mods /\ waiting \subseteq Mods
  /\ boot.at \in BootPlaces
  /\ boot = [at |-> boot.at, mod |-> boot.mod, name |-> boot.name, row |-> boot.row,
             phase |-> boot.phase]

RowsSound     == \A i \in DOMAIN registry : Sound(registry[i])
HandlersNamed == \A i \in DOMAIN handlers : handlers[i].owner \in GoesBy(handlers[i].by)
TodoIsThere   == \A i \in DOMAIN todo : todo[i] \in DOMAIN handlers
TextsNamed    == \A k \in DOMAIN texts : texts[k] \in ModDlls /\ k[1] \in GoesBy(texts[k])

InHand ==
  /\ boot.at \in LoadPlaces \cup {"next"} => hot = "unborn"
  /\ boot.at \in LoadPlaces => boot.mod \in Mods /\ boot.name \in Called(boot.mod)
  /\ boot.at \in CallPlaces =>
       /\ boot.mod \in ModDlls /\ boot.name \in GoesBy(boot.mod)
       /\ todo # <<>> /\ boot.phase \in EventPhases
       /\ boot.row # NoRow =>
            boot.row.dll \in Mistaken[boot.mod] /\ boot.row.name \in Called(boot.row.dll)

SlotNamed == slot # NoName => boot.at \in Runs /\ slot \in GoesBy(boot.mod)

ScopesNamed ==
  /\ \A s \in scopes :
       \/ /\ s.thread = "boot" /\ InModsCode
          /\ s.dll \in Mistaken[boot.mod] /\ s.name \in Called(s.dll)
       \/ hot = "dll" /\ s = Scope("hot", Native, Manifest[Native].name)
  /\ InModsCode /\ boot.at # "callback" => Scope("boot", boot.mod, boot.name) \in scopes

HostInv ==
  /\ HostTypes /\ RowsSound /\ HandlersNamed /\ TodoIsThere /\ TextsNamed
  /\ InHand /\ SlotNamed /\ ScopesNamed

-----------------------------------------------------------------------------
(* Whoever is found by a name answers to it.                               *)
LEMMA FoundAnswers ==
  ASSUME HostTypes, RowsSound, NEW n, FindByName(n) # NoRow
  PROVE  /\ FindByName(n) \in Rows /\ Sound(FindByName(n))
         /\ n \in AnswersTo(FindByName(n).dll) /\ n \in Names
<1> DEFINE rows == {i \in DOMAIN registry : n \in registry[i].answers}
<1>1. rows # {} /\ FindByName(n) = registry[Min(rows)]
  BY DEF FindByName
<1>2. DOMAIN registry = 1 .. Len(registry) /\ registry \in Seq(Rows)
  BY DEF HostTypes
<1>3. rows \subseteq Nat
  BY <1>2
<1>4. Min(rows) \in rows
  <2> HIDE DEF rows
  <2> QED
    BY <1>1, <1>3, LeastOne
<1>5. /\ registry[Min(rows)] \in Rows /\ Sound(registry[Min(rows)])
      /\ n \in registry[Min(rows)].answers
  <2>1. PICK i \in DOMAIN registry : i = Min(rows) /\ n \in registry[i].answers
    BY <1>4
  <2>2. registry[i] \in Rows /\ Sound(registry[i])
    BY <1>2, <2>1 DEF RowsSound
  <2> QED
    BY <2>1, <2>2
<1> HIDE DEF rows
<1> QED
  BY <1>1, <1>5 DEF Rows, Sound

LEMMA HostInvInit == HostInit => HostInv
<1> SUFFICES ASSUME HostInit PROVE HostInv
  OBVIOUS
<1>1. boot = [at |-> "next", mod |-> Nobody, name |-> NoName, row |-> NoRow, phase |-> "none"]
  BY DEF HostInit, Nowhere
<1>2. HostTypes
  BY <1>1 DEF HostInit, HostTypes, BootPlaces, EventPhases
<1> QED
  BY <1>1, <1>2 DEF HostInit, HostInv, RowsSound, HandlersNamed, TodoIsThere, TextsNamed,
     InHand,
       SlotNamed, ScopesNamed, InModsCode, LoadPlaces, CallPlaces

-----------------------------------------------------------------------------
(* What a mod registers on any thread goes under a name it can be called by. *)
LEMMA OwnersNamed ==
  ASSUME HostInv, NEW s \in Speakers, s.by \in ModDlls
  PROVE  OwnerName(s.thread) \in GoesBy(s.by)
<1> USE DEF HostInv, OwnerName, CurrentModName, GoesBy
<1>1. CASE s.thread # "boot"
  BY <1>1
<1>2. CASE s.thread = "boot" /\ slot = NoName
  BY <1>2
<1>3. CASE s.thread = "boot" /\ slot # NoName
  <2>1. "boot" \notin ModDlls
    BY NamesAssumption
  <2>2. s.by = boot.mod
    BY <1>3, <2>1 DEF Speakers, HostTypes
  <2> QED
    BY <1>3, <2>2 DEF SlotNamed
<1> QED
  BY <1>1, <1>2, <1>3

LEMMA RegisteredSound ==
  ASSUME HostTypes, RowsSound, NEW m \in ModDlls, NEW kind \in {"BL", "hot-inject"},
         NEW as \in {Manifest[m], Runtime[m]}
  PROVE  /\ Registered(registry, m, kind, as) \in Seq(Rows)
         /\ \A i \in DOMAIN Registered(registry, m, kind, as) :
              Sound(Registered(registry, m, kind, as)[i])
<1> DEFINE new == [dll |-> m, kind |-> kind, name |-> as.name, answers |-> as.answers]
           again(row) == [row EXCEPT !.kind = kind, !.name = as.name, !.answers = as.answers]
<1>1. as.name \in as.answers /\ as.answers \subseteq Names
  BY ModsAssumption
<1>2. as.name \in Called(m) /\ as.answers \subseteq AnswersTo(m)
  BY DEF Called, AnswersTo
<1>3. new \in Rows /\ Sound(new)
  BY <1>1, <1>2 DEF Rows, Sound
<1>4. \A row \in Rows : row.dll = m => again(row) \in Rows /\ Sound(again(row))
  BY <1>1, <1>2 DEF Rows, Sound
<1>5. registry \in Seq(Rows) /\ \A i \in DOMAIN registry : registry[i] \in Rows /\ Sound(registry[i])
  BY DEF HostTypes, RowsSound
<1>6. CASE \E i \in DOMAIN registry : registry[i].dll = m
  <2> DEFINE rows == [i \in DOMAIN registry |->
                        IF registry[i].dll = m THEN again(registry[i]) ELSE registry[i]]
  <2>1. Registered(registry, m, kind, as) = rows
    BY <1>6 DEF Registered
  <2>2. \A i \in DOMAIN registry : rows[i] \in Rows /\ Sound(rows[i])
    BY <1>4, <1>5
  <2>3. rows \in Seq(Rows) /\ DOMAIN rows = DOMAIN registry
    <3>1. DOMAIN registry = 1 .. Len(registry) /\ Len(registry) \in Nat
      BY <1>5
    <3>2. rows \in [1 .. Len(registry) -> Rows]
      <4> HIDE DEF again
      <4> QED
        BY <2>2, <3>1
    <3> HIDE DEF rows
    <3> QED
      BY <3>1, <3>2
  <2> HIDE DEF rows
  <2> QED
    BY <2>1, <2>2, <2>3
<1>7. CASE ~ \E i \in DOMAIN registry : registry[i].dll = m
  <2>1. Registered(registry, m, kind, as) = Append(registry, new)
    BY <1>7 DEF Registered
  <2> HIDE DEF new
  <2>2. Append(registry, new) \in Seq(Rows)
    BY <1>3, <1>5
  <2>3. \A i \in DOMAIN Append(registry, new) : Sound(Append(registry, new)[i])
    BY <1>3, <1>5
  <2> QED
    BY <2>1, <2>2, <2>3
<1> QED
  BY <1>6, <1>7

(* What holds at the beginning, and at each place if at the one before,    *)
(* holds at every place.                                                   *)
LEMMA CountingUp ==
    ASSUME NEW L \in Nat, NEW Reached \in SUBSET (0 .. L), 0 \in Reached,
           \A n \in 1 .. L : n - 1 \in Reached => n \in Reached
    PROVE  Reached = 0 .. L
<1> DEFINE Less == {pair \in Nat \X Nat : pair[1] < pair[2]}
           Missing == (0 .. L) \ Reached
<1> SUFFICES ASSUME Missing # {} PROVE FALSE
  OBVIOUS
<1>1. IsWellFoundedOn(Less, Nat)
  BY NatLessThanWellFounded DEF OpToRel
<1>2. Missing \subseteq Nat
  OBVIOUS
<1> HIDE DEF Less
<1>3. PICK n \in Missing : \A m \in Missing : ~ (<<m, n>> \in Less)
  <2> HIDE DEF Missing
  <2> QED
    BY <1>1, <1>2, WFMin, Zenon
<1>4. n \in 1 .. L /\ n - 1 \in Nat /\ n - 1 < n /\ n - 1 \in Missing
  BY <1>3
<1>5. <<n - 1, n>> \in Less
  BY <1>4 DEF Less
<1> QED
  BY <1>3, <1>4, <1>5


(* The handlers of a kind are found one by one.                            *)
LEMMA HandlersOfKind ==
  ASSUME HostTypes, NEW kind
  PROVE  /\ OfKind(kind) \in Seq(Nat)
         /\ \A k \in DOMAIN OfKind(kind) : OfKind(kind)[k] \in DOMAIN handlers
<1> DEFINE L        == Len(handlers)
           upTo(i)  == {j \in 1 .. i : handlers[j].kind = kind}
           Count(i) == Cardinality(upTo(i))
           there(i) == \A k \in 1 .. Count(i) :
                         \E j \in 1 .. i : handlers[j].kind = kind /\ Count(j) = k
           Reached  == {i \in 0 .. L : there(i)}
<1>1. L \in Nat /\ DOMAIN handlers = 1 .. L
  BY DEF HostTypes
<1>2. \A i \in 0 .. L : IsFiniteSet(upTo(i)) /\ Count(i) \in Nat
  <2> SUFFICES ASSUME NEW i \in 0 .. L PROVE IsFiniteSet(upTo(i)) /\ Count(i) \in Nat
    OBVIOUS
  <2>1. IsFiniteSet(1 .. i)
    BY <1>1, FS_Interval
  <2>2. IsFiniteSet(upTo(i))
    BY <2>1, FS_Subset
  <2> QED
    BY <2>2, FS_CardinalityType
<1>3. 0 \in Reached
  <2>1. upTo(0) = {}
    OBVIOUS
  <2>2. Count(0) = 0
    BY <2>1, FS_EmptySet
  <2> QED
    BY <1>1, <2>2
<1>4. ASSUME NEW n \in 1 .. L, n - 1 \in Reached PROVE n \in Reached
  <2>1. n \in 0 .. L /\ n - 1 \in 0 .. L /\ n \in 1 .. n
    BY <1>1
  <2>2. there(n - 1)
    BY <1>4
  <2>3. CASE handlers[n].kind # kind
    <3>1. upTo(n) = upTo(n - 1)
      BY <1>1, <2>3
    <3>2. Count(n) = Count(n - 1)
      BY <3>1
    <3>3. \A j \in 1 .. n - 1 : j \in 1 .. n
      BY <1>1
    <3> HIDE DEF Count
    <3> QED
      BY <2>1, <2>2, <3>2, <3>3
  <2>4. CASE handlers[n].kind = kind
    <3>1. upTo(n) = upTo(n - 1) \cup {n} /\ n \notin upTo(n - 1)
      BY <1>1, <2>4
    <3>2. Count(n) = Count(n - 1) + 1
      <4> HIDE DEF upTo
      <4> QED
        BY <1>2, <2>1, <3>1, FS_AddElement
    <3>3. \A j \in 1 .. n - 1 : j \in 1 .. n
      BY <1>1
    <3>4. Count(n - 1) \in Nat
      BY <1>2, <2>1
    <3> HIDE DEF Count
    <3>5. \A k \in 1 .. Count(n) : k \in 1 .. Count(n - 1) \/ k = Count(n)
      BY <3>2, <3>4
    <3>6. there(n)
      BY <2>1, <2>2, <2>4, <3>3, <3>5
    <3> QED
      BY <2>1, <3>6
  <2> QED
    BY <2>3, <2>4
<1>5. Reached = 0 .. L
  <2>1. Reached \in SUBSET (0 .. L)
    OBVIOUS
  <2> HIDE DEF Reached, L
  <2> QED
    BY <1>1, <1>3, <1>4, <2>1, CountingUp
<1>6. there(L)
  <2>1. L \in 0 .. L
    BY <1>1
  <2> QED
    BY <1>5, <2>1
<1> DEFINE at(k) == CHOOSE i \in DOMAIN handlers : handlers[i].kind = kind /\ Count(i) = k
<1>7. OfKind(kind) = [k \in 1 .. Count(L) |-> at(k)]
  BY DEF OfKind
<1>8. \A k \in 1 .. Count(L) : at(k) \in DOMAIN handlers
  <2> HIDE DEF Count
  <2> QED
    BY <1>1, <1>6
<1>9. Count(L) \in Nat
  <2>1. L \in 0 .. L
    BY <1>1
  <2> HIDE DEF Count, L
  <2> QED
    BY <1>2, <2>1
<1>10. OfKind(kind) \in [1 .. Count(L) -> Nat]
  <2> HIDE DEF at, Count
  <2> QED
    BY <1>1, <1>7, <1>8
<1> HIDE DEF at, Count
<1> QED
  BY <1>7, <1>8, <1>9, <1>10

-----------------------------------------------------------------------------
LEMMA RestOfTodo ==
  ASSUME todo \in Seq(Nat), todo # <<>>
  PROVE  /\ Tail(todo) \in Seq(Nat) /\ Head(todo) = todo[1] /\ 1 \in DOMAIN todo
         /\ \A i \in DOMAIN Tail(todo) : i + 1 \in DOMAIN todo /\ Tail(todo)[i] = todo[i + 1]
  OBVIOUS

(* Step by step.  First, whatever the boot thread, the hot mods' thread and  *)
(* the mods do, the state is of its types.                                  *)
LEMMA HostTypesStep ==
  ASSUME HostInv, HostNext
  PROVE  HostTypes'
<1> USE DEF HostInv, HostTypes, modState, runs, At, Goto
<1>1. CASE \E m \in Mods : BeginLoad(m)
  <2>1. PICK m \in Mods : BeginLoad(m)
    BY <1>1
  <2>2. registry' \in Seq(Rows)
    BY <2>1, RegisteredSound DEF BeginLoad, ModDlls
  <2> QED
    BY <2>1, <2>2 DEF BeginLoad, BootPlaces, LoadPlaces
<1>2. CASE EnterLoad
  BY <1>2 DEF EnterLoad, BootPlaces, LoadPlaces
<1>3. CASE LeaveLoad
  <2>1. boot.mod \in Mods
    BY <1>3 DEF LeaveLoad, InHand, LoadPlaces
  <2> QED
    BY <1>3, <2>1 DEF LeaveLoad, BootPlaces, LoadPlaces, ModDlls
<1>4. CASE Fail
  BY <1>4 DEF Fail, BootPlaces
<1>5. CASE EnterMain
  <2>1. boot.mod \in Mods
    BY <1>5 DEF EnterMain, InHand, LoadPlaces
  <2> QED
    BY <1>5, <2>1 DEF EnterMain, RunAs, BootPlaces, LoadPlaces
<1>6. CASE LeaveMain
  BY <1>6 DEF LeaveMain, BootPlaces, LoadPlaces
<1>7. CASE Rename
  <2>1. boot.mod \in ModDlls
    BY <1>7 DEF Rename, InHand, LoadPlaces, ModDlls
  <2>2. registry' \in Seq(Rows)
    BY <1>7, <2>1, RegisteredSound DEF Rename
  <2> QED
    BY <1>7, <2>2 DEF Rename, BootPlaces, LoadPlaces
<1>8. CASE EnterOnLoad
  BY <1>8 DEF EnterOnLoad, RunAs, BootPlaces, LoadPlaces
<1>9. CASE LeaveOnLoad
  BY <1>9 DEF LeaveOnLoad, BootPlaces, LoadPlaces
<1>10. CASE FinishLoad
  BY <1>10 DEF FinishLoad, BootPlaces
<1>11. CASE BeginDispatch
  <2>1. todo' \in Seq(Nat)
    BY <1>11, HandlersOfKind DEF BeginDispatch, Take
  <2> QED
    BY <1>11, <2>1 DEF BeginDispatch, Take, Nowhere, BootPlaces, EventPhases
<1>12. CASE Call
  BY <1>12 DEF Call, BootPlaces, CallPlaces
<1>13. CASE CallReturns
  <2>1. todo' \in Seq(Nat)
    BY <1>13, RestOfTodo DEF CallReturns, InHand, CallPlaces
  <2>2. boot'.at \in BootPlaces
    BY <1>13 DEF CallReturns, Nowhere, InHand, CallPlaces, BootPlaces, EventPhases
  <2> QED
    BY <1>13, <2>1, <2>2 DEF CallReturns, Nowhere
<1>14. CASE \E i \in DOMAIN Phases : FindOwner(i)
  BY <1>14 DEF FindOwner, BootPlaces, CallPlaces
<1>15. CASE \E i \in DOMAIN Phases : NextPhase(i)
  <2>1. PICK i \in DOMAIN Phases : NextPhase(i)
    BY <1>15
  <2>2. todo' \in Seq(Nat)
    BY <2>1, HandlersOfKind DEF NextPhase, Take
  <2>3. Phases[i + 1] \in BootPlaces \/ ~ (i < Len(Phases))
    BY DEF Phases, BootPlaces, EventPhases
  <2> QED
    BY <2>1, <2>2, <2>3 DEF NextPhase, Take, Nowhere, BootPlaces
<1>16. CASE Hot
  <2>1. registry' \in Seq(Rows)
    BY <1>16, RegisteredSound DEF Hot, HotBegin, HotEnter, HotLeave, ModDlls
  <2> QED
    BY <1>16, <2>1 DEF Hot, HotBegin, HotEnter, HotLeave, HotTurn, ModDlls
<1>17. CASE Registering
  <2>1. PICK s \in Speakers : \/ \E kind \in {"event", "resource"} : HostRegister(s, kind)
                              \/ \E i \in DOMAIN Locales : RegisterModLang(s, Locales[i])
    BY <1>17 DEF Registering
  <2>2. CASE \E i \in DOMAIN Locales : RegisterModLang(s, Locales[i])
    BY <2>2 DEF RegisterModLang
  <2>3. CASE \E kind \in {"event", "resource"} : HostRegister(s, kind)
    <3>1. PICK kind \in {"event", "resource"} : HostRegister(s, kind)
      BY <2>3
    <3> DEFINE new == [kind |-> kind, owner |-> OwnerName(s.thread), by |-> s.by,
       early |-> IsLoading]
    <3>2. new \in Handlers
      <4>1. s.by \in ModDlls
        BY <3>1 DEF HostRegister, ModDlls
      <4>2. OwnerName(s.thread) \in Names \cup {"BL"}
        BY <4>1, OwnersNamed, NamesOfMods DEF GoesBy
      <4> QED
        BY <4>1, <4>2 DEF Handlers, IsLoading
    <3>3. handlers' = Append(handlers, new)
      BY <3>1 DEF HostRegister
    <3>4. handlers' \in Seq(Handlers)
      <4> HIDE DEF new
      <4> QED
        BY <3>2, <3>3
    <3> QED
      BY <3>1, <3>4 DEF HostRegister
  <2> QED
    BY <2>1, <2>2, <2>3
<1> QED
  BY <1>1, <1>2, <1>3, <1>4, <1>5, <1>6, <1>7, <1>8, <1>9, <1>10, <1>11, <1>12, <1>13, <1>14,
     <1>15,
     <1>16, <1>17 DEF HostNext, Boot, Loading, Dispatching

(* The registry changes when a mod is discovered, renamed or hot-loaded.   *)
LEMMA RowsSoundStep ==
  ASSUME HostInv, HostNext
  PROVE  RowsSound'
<1> USE DEF HostInv, modState, RowsSound
<1>1. CASE \E m \in Mods : BeginLoad(m)
  BY <1>1, RegisteredSound DEF BeginLoad, ModDlls
<1>2. CASE Rename
  <2>1. boot.mod \in ModDlls
    BY <1>2 DEF Rename, At, InHand, LoadPlaces, ModDlls
  <2> QED
    BY <1>2, <2>1, RegisteredSound DEF Rename
<1>3. CASE HotBegin
  BY <1>3, RegisteredSound DEF HotBegin, ModDlls
<1>4. CASE UNCHANGED registry
  BY <1>4
<1> QED
  BY <1>1, <1>2, <1>3, <1>4 DEF HostNext, Boot, Loading, Dispatching, Hot, Registering,
     EnterLoad, LeaveLoad, Fail, EnterMain, LeaveMain, EnterOnLoad, LeaveOnLoad, FinishLoad,
     BeginDispatch, Call, CallReturns, FindOwner, NextPhase, HotEnter, HotLeave, HostRegister,
     RegisterModLang

(* A handler is there for good, and goes by a name of the mod it is of.    *)
LEMMA HandlersStep ==
  ASSUME HostInv, HostNext
  PROVE  HandlersNamed' /\ DOMAIN handlers \subseteq DOMAIN handlers'
<1> USE DEF HostInv, HandlersNamed
<1>1. ASSUME NEW s \in Speakers, NEW kind \in {"event", "resource"}, HostRegister(s, kind)
      PROVE  HandlersNamed' /\ DOMAIN handlers \subseteq DOMAIN handlers'
  <2> DEFINE new == [kind |-> kind, owner |-> OwnerName(s.thread), by |-> s.by,
     early |-> IsLoading]
  <2>1. s.by \in ModDlls
    BY <1>1 DEF HostRegister, HostTypes, ModDlls
  <2>2. new.owner \in GoesBy(new.by)
    BY <2>1, OwnersNamed
  <2>3. handlers' = Append(handlers, new) /\ handlers \in Seq(Handlers)
    BY <1>1 DEF HostRegister, HostTypes
  <2> HIDE DEF new
  <2>4. \A i \in DOMAIN Append(handlers, new) :
          Append(handlers, new)[i] = new \/ (i \in DOMAIN handlers /\ Append(handlers, new)[i] = handlers[i])
    BY <2>3
  <2>5. DOMAIN handlers \subseteq DOMAIN Append(handlers, new)
    BY <2>3
  <2>6. \A m \in ModDlls : GoesBy(m)' = GoesBy(m)
    BY DEF GoesBy, MayBeCalled, Called
  <2> QED
    BY <2>2, <2>3, <2>4, <2>5 DEF GoesBy, MayBeCalled, Called
<1>2. CASE UNCHANGED handlers
  BY <1>2 DEF GoesBy, MayBeCalled, Called
<1> QED
  BY <1>1, <1>2 DEF HostNext, Boot, Loading, Dispatching, Hot, HotTurn, Registering, BeginLoad,
     Rename,
     HotBegin, EnterLoad, LeaveLoad, Fail, EnterMain, LeaveMain, EnterOnLoad, LeaveOnLoad,
        FinishLoad,
     BeginDispatch, Call, CallReturns, FindOwner, NextPhase, HotEnter, HotLeave, RegisterModLang

(* What is yet to be called is among the handlers.                         *)
LEMMA TodoIsThereStep ==
  ASSUME HostInv, HostNext
  PROVE  TodoIsThere'
<1> USE DEF HostInv, TodoIsThere, runs
<1>1. DOMAIN handlers \subseteq DOMAIN handlers'
  BY HandlersStep
<1>2. CASE \E kind : todo' = OfKind(kind)
  BY <1>1, <1>2, HandlersOfKind
<1>3. CASE CallReturns
  BY <1>1, <1>3, RestOfTodo DEF CallReturns, At, InHand, CallPlaces, HostTypes
<1>4. CASE UNCHANGED todo
  BY <1>1, <1>4
<1> QED
  BY <1>2, <1>3, <1>4 DEF HostNext, Boot, Loading, Dispatching, Hot, HotTurn, Registering,
     BeginLoad, Rename,
     HotBegin, EnterLoad, LeaveLoad, Fail, EnterMain, LeaveMain, EnterOnLoad, LeaveOnLoad,
        FinishLoad,
     BeginDispatch, Take, Call, FindOwner, NextPhase, HotEnter, HotLeave, HostRegister, RegisterModLang

(* A text is of the mod that registered it, under a name of that mod's.     *)
LEMMA TextsNamedStep ==
  ASSUME HostInv, HostNext
  PROVE  TextsNamed'
<1> USE DEF HostInv, TextsNamed
<1>1. ASSUME NEW s \in Speakers, NEW locale, RegisterModLang(s, locale)
      PROVE  TextsNamed'
  <2> DEFINE new == <<OwnerName(s.thread), locale>>
  <2>1. s.by \in ModDlls
    BY <1>1 DEF RegisterModLang
  <2>2. new[1] \in GoesBy(s.by)
    BY <2>1, OwnersNamed
  <2>3. texts' = [k \in DOMAIN texts \cup {new} |-> IF k = new THEN s.by ELSE texts[k]]
    BY <1>1 DEF RegisterModLang
  <2> HIDE DEF new
  <2>4. \A k \in DOMAIN texts' : texts'[k] \in ModDlls /\ k[1] \in GoesBy(texts'[k])
    BY <2>1, <2>2, <2>3
  <2> QED
    BY <2>4 DEF GoesBy, MayBeCalled, Called
<1>2. CASE UNCHANGED texts
  BY <1>2 DEF GoesBy, MayBeCalled, Called
<1> QED
  BY <1>1, <1>2 DEF HostNext, Boot, Loading, Dispatching, Hot, HotTurn, Registering, BeginLoad,
     Rename,
     HotBegin, EnterLoad, LeaveLoad, Fail, EnterMain, LeaveMain, EnterOnLoad, LeaveOnLoad,
        FinishLoad,
     BeginDispatch, Call, CallReturns, FindOwner, NextPhase, HotEnter, HotLeave, HostRegister

(* The mod in hand goes by its names, and who is found for it can be taken  *)
(* for it.                                                                 *)
LEMMA InHandStep ==
  ASSUME HostInv, HostNext
  PROVE  InHand'
<1> USE DEF HostInv, InHand, At, Goto
<1>0. \A m \in ModDlls : GoesBy(m)' = GoesBy(m) /\ Called(m)' = Called(m)
  BY DEF GoesBy, MayBeCalled, Called
<1>1. CASE \E m \in Mods : BeginLoad(m)
  BY <1>1 DEF BeginLoad, HostTypes, LoadPlaces, CallPlaces, Called, modState
<1>2. CASE \/ EnterLoad \/ LeaveLoad \/ Fail \/ EnterMain \/ LeaveMain
           \/ EnterOnLoad \/ LeaveOnLoad \/ FinishLoad
  <2>1. boot.at \in LoadPlaces /\ (boot'.at \in LoadPlaces \cup {"next"})
    BY <1>2 DEF EnterLoad, LeaveLoad, Fail, EnterMain, LeaveMain, EnterOnLoad, LeaveOnLoad,
       FinishLoad,
       HostTypes, LoadPlaces
  <2>2. boot'.mod = boot.mod /\ boot'.name = boot.name
    BY <1>2 DEF EnterLoad, LeaveLoad, Fail, EnterMain, LeaveMain, EnterOnLoad, LeaveOnLoad,
       FinishLoad,
       HostTypes
  <2>3. boot'.at \notin CallPlaces /\ "next" \notin LoadPlaces
    BY <2>1 DEF LoadPlaces, CallPlaces
  <2>4. hot' = hot
    BY <1>2 DEF EnterLoad, LeaveLoad, Fail, EnterMain, LeaveMain, EnterOnLoad, LeaveOnLoad,
       FinishLoad
  <2> QED
    BY <2>1, <2>2, <2>3, <2>4 DEF Called
<1>3. CASE Rename
  BY <1>3 DEF Rename, HostTypes, LoadPlaces, CallPlaces, Called
<1>4. CASE BeginDispatch
  BY <1>4 DEF BeginDispatch, Take, Nowhere, LoadPlaces, CallPlaces
<1>5. CASE Call
  <2>1. boot.at \in CallPlaces /\ boot'.at \in CallPlaces
        /\ boot'.at \notin LoadPlaces \cup {"next"}
    BY <1>5 DEF Call, HostTypes, LoadPlaces, CallPlaces
  <2>2. boot'.mod = boot.mod /\ boot'.name = boot.name /\ boot'.row = boot.row
        /\ boot'.phase = boot.phase /\ todo' = todo
    BY <1>5 DEF Call, HostTypes
  <2> QED
    BY <1>0, <2>1, <2>2 DEF Called, GoesBy, MayBeCalled
<1>6. CASE CallReturns
  BY <1>6 DEF CallReturns, Nowhere, LoadPlaces, CallPlaces, EventPhases
<1>7. CASE \E i \in DOMAIN Phases : FindOwner(i)
  <2>1. PICK i \in DOMAIN Phases : FindOwner(i)
    BY <1>7
  <2> DEFINE h == handlers[Head(todo)]
  <2>2. todo' = todo /\ todo # <<>> /\ Phases[i] \in EventPhases
    BY <2>1 DEF FindOwner, Phases, EventPhases
  <2>3. h \in Handlers /\ h.owner \in GoesBy(h.by)
    BY <2>2, RestOfTodo DEF HostTypes, HandlersNamed, TodoIsThere
  <2>4. boot' = [at |-> "found", mod |-> h.by, name |-> h.owner, row |-> FindByName(h.owner),
                 phase |-> Phases[i]]
    BY <2>1 DEF FindOwner
  <2> HIDE DEF h
  <2>5. h.by \in ModDlls
    BY <2>3 DEF Handlers
  <2>6. ASSUME FindByName(h.owner) # NoRow
        PROVE  /\ FindByName(h.owner).dll \in Mistaken[h.by]
               /\ FindByName(h.owner).name \in Called(FindByName(h.owner).dll)
    <3> DEFINE row == FindByName(h.owner)
    <3>1. row \in Rows /\ Sound(row) /\ h.owner \in AnswersTo(row.dll) /\ h.owner \in Names
      BY <2>6, FoundAnswers
    <3> HIDE DEF row
    <3>2. row.dll \in ModDlls
      BY <3>1 DEF Rows
    <3>3. h.owner \in MayBeCalled(h.by)
      BY <2>3, <3>1, NamesAssumption DEF GoesBy
    <3>4. PICK j \in Mistaken[h.by] : h.owner \in Called(j)
      BY <3>3 DEF MayBeCalled
    <3>5. row.dll \in Mistaken[h.by]
      BY <2>5, <3>1, <3>2, <3>4, NamesOfOthers
    <3> QED
      BY <3>1, <3>5 DEF row, Sound
  <2> QED
    BY <2>2, <2>3, <2>4, <2>5, <2>6 DEF LoadPlaces, CallPlaces, GoesBy, MayBeCalled, Called
<1>8. CASE \E i \in DOMAIN Phases : NextPhase(i)
  <2>1. boot'.at \in EventPhases \cup {"done"}
    BY <1>8 DEF NextPhase, Take, Nowhere, Phases, EventPhases, HostTypes
  <2> QED
    BY <2>1 DEF EventPhases, LoadPlaces, CallPlaces
<1>9. CASE UNCHANGED <<boot, todo>> /\ (hot = "unborn" => hot' = hot)
  BY <1>9 DEF GoesBy, MayBeCalled, Called
<1> QED
  BY <1>1, <1>2, <1>3, <1>4, <1>5, <1>6, <1>7, <1>8, <1>9 DEF HostNext, Boot, Loading,
     Dispatching, Hot,
     HotTurn, HotBegin, HotEnter, HotLeave, Registering, HostRegister, RegisterModLang, runs

(* The name in the slot is one of the mod that runs, or "BL".               *)
LEMMA SlotNamedStep ==
  ASSUME HostInv, HostNext
  PROVE  SlotNamed'
<1> USE DEF HostInv, SlotNamed, At, Goto, runs
<1>0. \A m \in ModDlls : Called(m) \subseteq GoesBy(m) /\ Mistaken[m] \subseteq ModDlls
  BY NamesOfMods, TakenForItself DEF GoesBy
<1>1. CASE EnterMain \/ EnterOnLoad
  <2>1. boot.mod \in ModDlls /\ boot.name \in Called(boot.mod)
    BY <1>1 DEF EnterMain, EnterOnLoad, InHand, LoadPlaces, ModDlls
  <2>2. boot'.mod = boot.mod /\ (slot' = slot \/ (slot' = boot.name /\ boot'.at \in Runs))
    BY <1>1 DEF EnterMain, EnterOnLoad, RunAs, HostTypes, Runs
  <2>3. boot.at \notin Runs
    BY <1>1 DEF EnterMain, EnterOnLoad, Runs
  <2> QED
    BY <1>0, <2>1, <2>2, <2>3 DEF GoesBy, MayBeCalled, Called
<1>2. CASE LeaveMain \/ LeaveOnLoad \/ CallReturns
  BY <1>2 DEF LeaveMain, LeaveOnLoad, CallReturns
<1>3. CASE Call
  <2>1. boot.mod \in ModDlls /\ boot.name \in GoesBy(boot.mod) /\ boot'.mod = boot.mod /\ boot'.at \in Runs
    BY <1>3 DEF Call, InHand, CallPlaces, Runs, HostTypes
  <2>2. boot.row # NoRow => boot.row.name \in GoesBy(boot.mod)
    BY <1>3 DEF Call, InHand, CallPlaces, GoesBy, MayBeCalled
  <2>3. slot' = boot.name \/ (boot.row # NoRow /\ slot' = boot.row.name)
    BY <1>3 DEF Call
  <2> QED
    BY <2>1, <2>2, <2>3 DEF GoesBy, MayBeCalled, Called
<1>4. CASE boot.at \notin Runs /\ slot' = slot
  BY <1>4
<1>5. CASE UNCHANGED <<boot, slot>>
  BY <1>5 DEF GoesBy, MayBeCalled, Called
<1>6. CASE Boot
  <2>1. SUFFICES ASSUME ~ (EnterMain \/ EnterOnLoad \/ LeaveMain \/ LeaveOnLoad \/ CallReturns \/ Call)
                 PROVE  boot.at \notin Runs /\ slot' = slot
    BY <1>1, <1>2, <1>3, <1>4
  <2>2. \A i \in DOMAIN Phases : Phases[i] \notin Runs
    BY DEF Phases, Runs
  <2>3. CASE \E i \in DOMAIN Phases : FindOwner(i) \/ NextPhase(i)
    BY <2>2, <2>3 DEF FindOwner, NextPhase
  <2>4. CASE \/ \E m \in Mods : BeginLoad(m)
             \/ EnterLoad \/ LeaveLoad \/ Fail \/ Rename \/ FinishLoad \/ BeginDispatch
    BY <2>4 DEF BeginLoad, EnterLoad, LeaveLoad, Fail, Rename, FinishLoad, BeginDispatch, Runs
  <2> QED
    BY <1>6, <2>1, <2>3, <2>4 DEF Boot, Loading, Dispatching
<1> QED
  BY <1>5, <1>6 DEF HostNext, Hot, HotTurn, HotBegin, HotEnter, HotLeave, Registering,
     HostRegister,
     RegisterModLang

(* A scope comes with the code that runs in it and goes with it.           *)
LEMMA ScopesNamedStep ==
  ASSUME HostInv, HostNext
  PROVE  ScopesNamed'
<1> USE DEF HostInv, At, Goto, runs, modState
<1> DEFINE Boots(s) == /\ s.thread = "boot" /\ InModsCode
                       /\ s.dll \in Mistaken[boot.mod] /\ s.name \in Called(s.dll)
           Hots(s)  == hot = "dll" /\ s = Scope("hot", Native, Manifest[Native].name)
           There    == InModsCode /\ boot.at # "callback" => Scope("boot", boot.mod, boot.name) \in scopes
<1>1. \A s \in scopes : Boots(s) \/ Hots(s)
  BY DEF ScopesNamed
<1>2. \A m \in ModDlls : Called(m)' = Called(m) /\ m \in Mistaken[m]
  BY TakenForItself DEF Called
<1>3. CASE EnterLoad \/ EnterMain \/ EnterOnLoad
  <2>1. boot.mod \in ModDlls /\ boot.name \in Called(boot.mod)
    BY <1>3 DEF EnterLoad, EnterMain, EnterOnLoad, InHand, LoadPlaces, ModDlls
  <2>2. ~ InModsCode
    BY <1>3 DEF EnterLoad, EnterMain, EnterOnLoad, InModsCode
  <2>3. hot' = hot /\ boot'.mod = boot.mod /\ boot'.name = boot.name
    BY <1>3 DEF EnterLoad, EnterMain, EnterOnLoad, HostTypes
  <2>4. \/ scopes' = scopes /\ ~ InModsCode'
        \/ scopes' = scopes \cup {Scope("boot", boot.mod, boot.name)} /\ InModsCode'
    BY <1>3 DEF EnterLoad, EnterMain, EnterOnLoad, RunAs, InModsCode, HostTypes
  <2>5. \A s \in scopes' : Boots(s)' \/ Hots(s)'
    BY <1>1, <1>2, <2>1, <2>2, <2>3, <2>4 DEF Scope
  <2>6. There'
    BY <2>3, <2>4 DEF Scope
  <2> QED
    BY <2>5, <2>6 DEF ScopesNamed
<1>4. CASE LeaveLoad \/ LeaveMain \/ LeaveOnLoad \/ CallReturns
  <2>1. scopes' = Without("boot") /\ hot' = hot
    BY <1>4 DEF LeaveLoad, LeaveMain, LeaveOnLoad, CallReturns
  <2>2. ~ InModsCode'
    BY <1>4 DEF LeaveLoad, LeaveMain, LeaveOnLoad, CallReturns, InModsCode, HostTypes, Nowhere,
       InHand,
       CallPlaces, EventPhases
  <2>3. \A s \in scopes' : s \in scopes /\ s.thread # "boot"
    BY <2>1 DEF Without
  <2> QED
    BY <1>1, <2>1, <2>2, <2>3 DEF ScopesNamed, Scope
<1>5. CASE Call
  <2>1. /\ boot.row # NoRow =>
             boot.row.dll \in Mistaken[boot.mod] /\ boot.row.name \in Called(boot.row.dll)
        /\ ~ InModsCode
    BY <1>5 DEF Call, InHand, CallPlaces, InModsCode
  <2>2. boot'.at = "callback" /\ boot'.mod = boot.mod /\ hot' = hot
    BY <1>5 DEF Call, HostTypes
  <2>3. \/ scopes' = scopes
        \/ boot.row # NoRow /\ scopes' = scopes \cup {Scope("boot", boot.row.dll, boot.row.name)}
    BY <1>5 DEF Call
  <2>4. \A s \in scopes' : Boots(s)' \/ Hots(s)'
    BY <1>1, <2>1, <2>2, <2>3 DEF Scope, InModsCode, Called
  <2> QED
    BY <2>2, <2>4 DEF ScopesNamed
<1>6. CASE \/ \E m \in Mods : BeginLoad(m)
           \/ Fail \/ Rename \/ FinishLoad \/ BeginDispatch
           \/ \E i \in DOMAIN Phases : FindOwner(i) \/ NextPhase(i)
  <2>1. \A i \in DOMAIN Phases : Phases[i] \in EventPhases
    BY DEF Phases, EventPhases
  <2>2. \A i \in DOMAIN Phases : i < Len(Phases) => i + 1 \in DOMAIN Phases
    BY DEF Phases
  <2>3. ~ InModsCode /\ ~ InModsCode'
    <3>1. CASE \E i \in DOMAIN Phases : FindOwner(i) \/ NextPhase(i)
      <4>1. PICK i \in DOMAIN Phases : FindOwner(i) \/ NextPhase(i)
        BY <3>1
      <4>2. boot.at \in EventPhases
        BY <2>1, <4>1 DEF FindOwner, NextPhase
      <4>3. boot'.at \in EventPhases \cup {"found", "done"}
        BY <2>1, <2>2, <4>1 DEF FindOwner, NextPhase, Take, Nowhere, HostTypes
      <4> QED
        BY <4>2, <4>3 DEF InModsCode, EventPhases
    <3>2. CASE \E m \in Mods : BeginLoad(m)
      BY <3>2 DEF BeginLoad, InModsCode, HostTypes
    <3>3. CASE Fail \/ Rename \/ FinishLoad
      BY <3>3 DEF Fail, Rename, FinishLoad, InModsCode, HostTypes
    <3>4. CASE BeginDispatch
      BY <3>4 DEF BeginDispatch, Take, Nowhere, InModsCode
    <3> QED
      BY <1>6, <3>1, <3>2, <3>3, <3>4
  <2>4. scopes' = scopes /\ (hot = "dll" => hot' = hot \/ BeginDispatch)
    BY <1>6 DEF BeginLoad, Fail, Rename, FinishLoad, BeginDispatch, FindOwner, NextPhase
  <2>5. hot = "dll" => hot' = hot
    BY <2>4 DEF BeginDispatch, InHand
  <2> QED
    BY <1>1, <2>3, <2>4, <2>5 DEF ScopesNamed
<1>7. CASE Hot \/ Registering
  <2>1. boot' = boot
    BY <1>7 DEF Hot, HotTurn, HotBegin, HotEnter, HotLeave, Registering, HostRegister,
       RegisterModLang
  <2>2. InModsCode' = InModsCode
    BY <2>1 DEF InModsCode
  <2>3. CASE HotEnter
    <3>1. scopes' = scopes \cup {Scope("hot", Native, Manifest[Native].name)} /\ hot' = "dll"
      BY <2>3 DEF HotEnter, HotTurn
    <3> QED
      BY <1>1, <2>1, <2>2, <3>1 DEF ScopesNamed, Called
  <2>4. CASE HotLeave
    <3>1. \A s \in scopes' : s \in scopes /\ s.thread # "hot"
      BY <2>4 DEF HotLeave, Without
    <3>2. Scope("boot", boot.mod, boot.name) \in scopes => Scope("boot", boot.mod, boot.name) \in scopes'
      BY <2>4 DEF HotLeave, Without, Scope
    <3> QED
      BY <1>1, <2>1, <2>2, <3>1, <3>2 DEF ScopesNamed, Called, Scope
  <2>5. CASE scopes' = scopes /\ (hot = "dll" => hot' = hot)
    BY <1>1, <2>1, <2>2, <2>5 DEF ScopesNamed, Called
  <2> QED
    BY <1>7, <2>3, <2>4, <2>5 DEF Hot, HotBegin, HotTurn, Registering, HostRegister,
       RegisterModLang
<1> QED
  BY <1>3, <1>4, <1>5, <1>6, <1>7 DEF HostNext, Boot, Loading, Dispatching

LEMMA HostInvStutters == HostInv /\ UNCHANGED hostVars => HostInv'
<1> SUFFICES ASSUME HostInv, UNCHANGED hostVars PROVE HostInv'
  OBVIOUS
<1> QED
  BY DEF HostInv, hostVars, modState, runs, HostTypes, RowsSound, HandlersNamed, TodoIsThere,
     TextsNamed,
     InHand, SlotNamed, ScopesNamed, InModsCode, GoesBy, MayBeCalled, Called, Sound, AnswersTo

(* The host's inductive invariant.                                         *)
THEOREM HostInvariant == HostSpec => []HostInv
<1>1. HostInv /\ HostNext => HostInv'
  BY HostTypesStep, RowsSoundStep, HandlersStep, TodoIsThereStep, TextsNamedStep, InHandStep,
     SlotNamedStep,
     ScopesNamedStep DEF HostInv
<1>2. HostInv /\ [HostNext]_hostVars => HostInv'
  BY <1>1, HostInvStutters
<1> QED
  BY HostInvInit, <1>2, PTL DEF HostSpec

-----------------------------------------------------------------------------
(* ModScopeGuard, with_active_mod_identity, run_mod_callback_safely: a scope *)
(* is there for as long as its thread runs the mod's code, and it is of that *)
(* mod or of one that it can be taken for.                                  *)
THEOREM ScopesAreOfTheirRuns == HostSpec => []ScopesFollowRuns
<1>1. HostInv => ScopesFollowRuns
  <2> SUFFICES ASSUME HostInv PROVE ScopesFollowRuns
    OBVIOUS
  <2>1. slot # NoName => InModsCode /\ boot.at # "dll"
    BY DEF HostInv, SlotNamed, Runs, InModsCode
  <2>2. \A s \in scopes :
          \/ s.thread = "boot" /\ InModsCode /\ s.dll \in Mistaken[boot.mod]
          \/ s.thread = "hot" /\ hot = "dll" /\ s.dll = Native
    BY DEF HostInv, ScopesNamed, Scope
  <2> QED
    BY <2>1, <2>2 DEF HostInv, ScopesNamed, ScopesFollowRuns
<1> QED
  BY <1>1, HostInvariant, PTL

(* active_identity: whatever thread asks, the scope it is given is that of a *)
(* mod that is being run.                                                   *)
LEMMA ActiveIsRun ==
  ASSUME HostInv, NEW t, ActiveIdentity(t) # NoName
  PROVE  ActiveIdentity(t) \in BeingRun
<1> DEFINE own  == {s \in scopes : s.thread = t}
           pool == IF Cardinality(scopes) = 1 THEN scopes ELSE own
<1>1. Cardinality(pool) = 1 /\ ActiveIdentity(t) = (CHOOSE s \in pool : TRUE).name
  BY DEF ActiveIdentity
<1>2. pool # {}
  <2> HIDE DEF pool
  <2> QED
    BY <1>1, FS_EmptySet
<1>3. PICK s \in scopes : ActiveIdentity(t) = s.name
  BY <1>1, <1>2
<1>4. CASE InModsCode /\ s.dll \in Mistaken[boot.mod] /\ s.name \in Called(s.dll)
  BY <1>3, <1>4 DEF BeingRun, MayBeCalled
<1>5. CASE hot = "dll" /\ s = Scope("hot", Native, Manifest[Native].name)
  <2>1. Native \in ModDlls /\ s.name \in Called(Native)
    BY <1>5 DEF ModDlls, Scope, Called
  <2>2. s.name \in MayBeCalled(Native)
    BY <2>1, NamesOfMods
  <2> QED
    BY <1>3, <1>5, <2>2 DEF BeingRun
<1> QED
  BY <1>4, <1>5 DEF HostInv, ScopesNamed

(* The line itself names whoever is found by what it says.                 *)
LEMMA FoundIsNamed ==
  ASSUME HostInv, NEW line
  PROVE  /\ FindByName(line.prefix) # NoRow => FindByName(line.prefix).name \in NamedBy(line)
         /\ OwnerBySaying(line) # NoName => OwnerBySaying(line) \in NamedBy(line)
<1> USE DEF HostInv
<1>1. ASSUME NEW row \in Rows, Sound(row), AnswersTo(row.dll) \cap (line.mentions \cup {line.prefix}) # {}
      PROVE  row.name \in NamedBy(line)
  <2>1. row.dll \in ModDlls
    BY DEF Rows
  <2> QED
    BY <1>1, <2>1 DEF NamedBy, Sound
<1>2. ASSUME FindByName(line.prefix) # NoRow
      PROVE  FindByName(line.prefix).name \in NamedBy(line)
  <2>1. FindByName(line.prefix) \in Rows /\ Sound(FindByName(line.prefix))
        /\ line.prefix \in AnswersTo(FindByName(line.prefix).dll)
    BY <1>2, FoundAnswers
  <2> QED
    BY <1>1, <2>1
<1> DEFINE mentioned == {i \in DOMAIN registry : registry[i].answers \cap line.mentions # {}}
<1>3. CASE FindByName(line.prefix) # NoRow
  BY <1>2, <1>3 DEF OwnerBySaying
<1>4. CASE FindByName(line.prefix) = NoRow /\ Cardinality(mentioned) = 1
  <2>1. mentioned # {}
    <3> HIDE DEF mentioned
    <3> QED
      BY <1>4, FS_EmptySet
  <2>2. PICK i \in mentioned : OwnerBySaying(line) = registry[i].name
    BY <1>4, <2>1 DEF OwnerBySaying
  <2>3. registry[i] \in Rows /\ Sound(registry[i]) /\ registry[i].answers \cap line.mentions # {}
    BY <2>2 DEF HostTypes, RowsSound
  <2>4. AnswersTo(registry[i].dll) \cap (line.mentions \cup {line.prefix}) # {}
    BY <2>3 DEF Sound
  <2> QED
    BY <1>1, <1>4, <2>2, <2>3, <2>4
<1>5. CASE FindByName(line.prefix) = NoRow /\ ~ (Cardinality(mentioned) = 1)
  BY <1>5 DEF OwnerBySaying
<1> QED
  BY <1>2, <1>3, <1>4, <1>5

LEMMA ConsoleOwnersKnown ==
  ASSUME HostInv, NEW t, NEW line
  PROVE  ConsoleOwner(t, line) \in {"game-stdio"} \cup NamedBy(line) \cup BeingRun
<1>1. line.prefix \in NamedBy(line)
  BY DEF NamedBy
<1> QED
  BY <1>1, ActiveIsRun, FoundIsNamed DEF ConsoleOwner, ConsoleSource, ResolveOutputOwner

LEMMA HostLogOwnersKnown ==
  ASSUME HostInv, NEW s \in Speakers, s.by \in ModDlls, NEW line
  PROVE  HostLogOwner(s.thread, line) \in {"BL"} \cup MayBeCalled(s.by) \cup NamedBy(line)
<1>1. CurrentModName(s.thread) # NoName => CurrentModName(s.thread) \in GoesBy(s.by)
  BY OwnersNamed DEF OwnerName
<1>2. FindByName(line.prefix).kind = "BL" => FindByName(line.prefix) # NoRow
  BY DEF NoRow
<1> QED
  BY <1>1, <1>2, FoundIsNamed DEF HostLogOwner, GoesBy

(* I18nService::translate_for: whoever asks for a text gets one of a mod that *)
(* registers under the name it asks by.                                     *)
LEMMA TextsAreOwn ==
  ASSUME HostInv, NEW owner, owner # "BL", Translation(owner) # Nobody
  PROVE  owner \in MayBeCalled(Translation(owner))
<1> DEFINE found == {i \in DOMAIN Locales : <<owner, Locales[i]>> \in DOMAIN texts}
           best  == CHOOSE i \in found : \A j \in found : i <= j
<1>1. found # {} /\ Translation(owner) = texts[<<owner, Locales[best]>>]
  BY DEF Translation
<1>2. found \subseteq Nat
  BY BoundsAssumption
<1>3. best \in found
  <2>1. Min(found) \in found /\ \A n \in found : Min(found) <= n
    <3> HIDE DEF found
    <3> QED
      BY <1>1, <1>2, LeastOne
  <2> HIDE DEF found
  <2> QED
    BY <2>1
<1>4. <<owner, Locales[best]>> \in DOMAIN texts
  BY <1>3
<1> HIDE DEF best
<1> QED
  BY <1>1, <1>4 DEF HostInv, TextsNamed, GoesBy

(* resolve_host_log, captured_console_output, bl_i18n_tr, host_register: a   *)
(* line is filed and a text is read under the name of the mod that speaks,  *)
(* of one that it can be taken for, or of one that the line names, unless   *)
(* it was captured while another was being run.                             *)
THEOREM NobodyIsAnother == HostSpec => []NamedAsItself
<1>1. HostInv => NamedAsItself
  <2> SUFFICES ASSUME HostInv PROVE NamedAsItself
    OBVIOUS
  <2>1. ASSUME NEW s \in Speakers, s.by \in ModDlls, OwnerName(s.thread) # "BL"
        PROVE  /\ OwnerName(s.thread) \in MayBeCalled(s.by)
               /\ \/ Translation(OwnerName(s.thread)) = Nobody
                  \/ OwnerName(s.thread) \in MayBeCalled(Translation(OwnerName(s.thread)))
    BY <2>1, OwnersNamed, TextsAreOwn DEF GoesBy
  <2>2. \A s \in Speakers, line \in Lines : s.by \in ModDlls =>
          /\ HostLogOwner(s.thread, line) \in {"BL"} \cup MayBeCalled(s.by) \cup NamedBy(line)
          /\ ConsoleOwner(s.thread, line) \in
               {"game-stdio"} \cup MayBeCalled(s.by) \cup NamedBy(line) \cup BeingRun
    BY HostLogOwnersKnown, ConsoleOwnersKnown
  <2>3. \A line \in Lines : ConsoleOwner("game", line) \in {"game-stdio"} \cup NamedBy(line) \cup BeingRun
    BY ConsoleOwnersKnown
  <2> QED
    BY <2>1, <2>2, <2>3 DEF NamedAsItself
<1> QED
  BY <1>1, HostInvariant, PTL

-----------------------------------------------------------------------------
(* Texts that are taken one element after the other.                       *)

(* The beginnings of a sequence.                                           *)
First(s, i) == SubSeq(s, 1, i)

LEMMA FirstOnes ==
  ASSUME NEW E, NEW s \in Seq(E)
  PROVE  /\ Len(s) \in Nat /\ First(s, 0) = <<>> /\ First(s, Len(s)) = s
         /\ \A i \in 0 .. Len(s) : First(s, i) \in Seq(E) /\ Len(First(s, i)) = i
         /\ \A i \in 1 .. Len(s) : /\ s[i] \in E
                                   /\ First(s, i) = Append(First(s, i - 1), s[i])
BY DEF First

(* What holds of the empty sequence, and stays so as it grows, holds of all. *)
LEMMA GrowingUp ==
  ASSUME NEW E, NEW Good \in SUBSET Seq(E), <<>> \in Good,
         \A s \in Good, e \in E : Append(s, e) \in Good
  PROVE  Good = Seq(E)
<1> SUFFICES ASSUME NEW s \in Seq(E) PROVE s \in Good
  OBVIOUS
<1> DEFINE Reached == {i \in 0 .. Len(s) : First(s, i) \in Good}
<1>1. Len(s) \in Nat /\ 0 \in Reached
  BY FirstOnes
<1>2. \A n \in 1 .. Len(s) : n - 1 \in Reached => n \in Reached
  <2> SUFFICES ASSUME NEW n \in 1 .. Len(s), n - 1 \in Reached PROVE n \in Reached
    OBVIOUS
  <2>1. First(s, n) = Append(First(s, n - 1), s[n]) /\ s[n] \in E
    BY FirstOnes
  <2>2. First(s, n - 1) \in Good /\ n \in 0 .. Len(s)
    OBVIOUS
  <2>3. Append(First(s, n - 1), s[n]) \in Good
    BY <2>1, <2>2
  <2> QED
    BY <2>1, <2>2, <2>3
<1>3. Reached = 0 .. Len(s)
  <2>1. Reached \in SUBSET (0 .. Len(s))
    OBVIOUS
  <2> HIDE DEF Reached
  <2> QED
    BY <1>1, <1>2, <2>1, CountingUp
<1>4. First(s, Len(s)) \in Good
  <2>1. Len(s) \in Reached
    <3> HIDE DEF Reached
    <3> QED
      BY <1>1, <1>3
  <2> QED
    BY <2>1
<1> QED
  BY <1>4, FirstOnes

(* A function on 0 .. L may be defined by recursion ...                    *)
StaysIn(step, L, S) == \A i \in 1 .. L : \A x \in S : step[<<i, x>>] \in S
Follows(f, step, L, S, a) ==
  /\ f \in [0 .. L -> S] /\ f[0] = a
  /\ \A i \in 1 .. L : f[i] = step[<<i, f[i - 1]>>]

LEMMA RecursionExists ==
  ASSUME NEW L \in Nat, NEW S, NEW a \in S, NEW step, StaysIn(step, L, S)
  PROVE  \E f : Follows(f, step, L, S, a)
<1> USE DEF StaysIn
<1> DEFINE Good(f, n) == /\ f \in [0 .. n -> S] /\ f[0] = a
                         /\ \A i \in 1 .. n : f[i] = step[<<i, f[i - 1]>>]
           Reached == {n \in 0 .. L : \E f : Good(f, n)}
<1>1. 0 \in Reached
  <2>1. Good([i \in 0 .. 0 |-> a], 0)
    OBVIOUS
  <2>2. 0 \in 0 .. L
    OBVIOUS
  <2> HIDE DEF Good
  <2> QED
    BY <2>1, <2>2
<1>2. ASSUME NEW n \in 1 .. L, n - 1 \in Reached PROVE n \in Reached
  <2>1. PICK f : Good(f, n - 1)
    BY <1>2
  <2>2. f[n - 1] \in S /\ step[<<n, f[n - 1]>>] \in S
    BY <2>1
  <2> DEFINE g == [i \in 0 .. n |-> IF i = n THEN step[<<n, f[n - 1]>>] ELSE f[i]]
  <2>3. g \in [0 .. n -> S] /\ g[0] = a
    BY <2>1, <2>2
  <2>4. ASSUME NEW i \in 1 .. n PROVE g[i] = step[<<i, g[i - 1]>>]
    <3>1. i - 1 \in 0 .. n - 1 /\ g[i - 1] = f[i - 1]
      OBVIOUS
    <3>2. CASE i = n
      <4>1. g[n] = step[<<n, f[n - 1]>>]
        OBVIOUS
      <4> HIDE DEF g
      <4> QED
        BY <3>1, <3>2, <4>1, Zenon
    <3>3. CASE i # n
      <4>1. i \in 1 .. n - 1 /\ g[i] = f[i]
        BY <3>3
      <4>2. f[i] = step[<<i, f[i - 1]>>]
        BY <2>1, <4>1
      <4> HIDE DEF g
      <4> QED
        BY <3>1, <4>1, <4>2, Zenon
    <3> QED
      BY <3>2, <3>3
  <2>5. Good(g, n)
    BY <2>3, <2>4
  <2>6. n \in 0 .. L
    OBVIOUS
  <2> HIDE DEF Good
  <2> QED
    BY <2>5, <2>6
<1>3. L \in Reached
  <2> HIDE DEF Reached
  <2>1. Reached \in SUBSET (0 .. L)
    BY DEF Reached
  <2> QED
    BY <1>1, <1>2, <2>1, CountingUp
<1>4. PICK f : Good(f, L)
  BY <1>3
<1> QED
  BY <1>4 DEF Follows


(* ... and has values of its kind, whatever else is chosen for it.         *)
LEMMA RecursionStays ==
  ASSUME NEW L \in Nat, NEW S, NEW f, f = [i \in 0 .. L |-> f[i]], f[0] \in S,
         \A i \in 1 .. L : f[i - 1] \in S => f[i] \in S
  PROVE  f \in [0 .. L -> S]
<1> DEFINE Reached == {n \in 0 .. L : f[n] \in S}
<1>1. 0 \in Reached /\ \A n \in 1 .. L : n - 1 \in Reached => n \in Reached
  OBVIOUS
<1>2. Reached = 0 .. L
  <2> HIDE DEF Reached
  <2>1. Reached \in SUBSET (0 .. L)
    BY DEF Reached
  <2> QED
    BY <1>1, <2>1, CountingUp
<1> QED
  BY <1>2
-----------------------------------------------------------------------------
(* spawn_pipe_reader: the bytes and the letters of them.                   *)

LEMMA VisibleIsNoSpace ==
  /\ Visible \subseteq Bytes /\ Visible \cap (Space \cup {Null}) = {}
  /\ Feed \in Bytes /\ Feed # Lead /\ Feed # Trail
  BY DEF Visible, Space, Bytes, Letter, Blank, Return, Feed, Null, Lead, Trail, Lost

LEMMA LettersAre ==
  ASSUME NEW s \in Seq(Bytes)
  PROVE  \E f \in [0 .. Len(s) -> Seq(Bytes)] :
            /\ f[0] = <<>> /\ Letters(s) = f[Len(s)]
            /\ \A i \in 1 .. Len(s) :
                 f[i] = IF s[i] \in Visible THEN Append(f[i - 1], s[i]) ELSE f[i - 1]
<1> DEFINE S == Seq(Bytes)
           On(i, x) == IF s[i] \in Visible THEN Append(x, s[i]) ELSE x
           step == [y \in (1 .. Len(s)) \X S |-> On(y[1], y[2])]
           Is(g) == g = [i \in 0 .. Len(s) |-> IF i = 0 THEN <<>> ELSE On(i, g[i - 1])]
<1>1. Len(s) \in Nat /\ <<>> \in S
  OBVIOUS
<1>2. \A i \in 1 .. Len(s), x \in S : On(i, x) \in S
  OBVIOUS
<1>3. \A i \in 1 .. Len(s), x \in S : step[<<i, x>>] = On(i, x)
  OBVIOUS
<1> HIDE DEF On, step, S
<1>4. PICK f : Follows(f, step, Len(s), S, <<>>)
  BY <1>1, <1>2, <1>3, RecursionExists DEF StaysIn
<1>5. Is(f)
  <2>1. f \in [0 .. Len(s) -> S] /\ f[0] = <<>> /\ \A i \in 1 .. Len(s) : f[i] = step[<<i, f[i - 1]>>]
    BY <1>4 DEF Follows
  <2>2. \A i \in 1 .. Len(s) : f[i - 1] \in S
    BY <1>1, <2>1
  <2>3. \A i \in 1 .. Len(s) : f[i] = On(i, f[i - 1])
    BY <1>3, <2>1, <2>2
  <2> QED
    BY <1>1, <2>1, <2>3
<1> DEFINE F == CHOOSE g : Is(g)
<1>6. Is(F)
  <2> HIDE DEF Is
  <2> QED
    BY <1>5
<1>7. Letters(s) = F[Len(s)]
  BY DEF Letters, On
<1> HIDE DEF F
<1>8. F[0] = <<>> /\ \A i \in 1 .. Len(s) : F[i] = On(i, F[i - 1])
  BY <1>1, <1>6
<1>9. F = [i \in 0 .. Len(s) |-> F[i]]
  BY <1>6
<1>10. F \in [0 .. Len(s) -> S]
  <2>1. \A i \in 1 .. Len(s) : F[i - 1] \in S => F[i] \in S
    BY <1>2, <1>8
  <2>2. F[0] \in S /\ Len(s) \in Nat
    BY <1>1, <1>8
  <2> QED
    BY <1>9, <2>1, <2>2, RecursionStays
<1> QED
  BY <1>7, <1>8, <1>10 DEF On, S

LEMMA AppendedTo ==
  ASSUME NEW E, NEW s \in Seq(E), NEW e \in E
  PROVE  /\ Append(s, e) \in Seq(E) /\ Len(s) \in Nat /\ Len(Append(s, e)) = Len(s) + 1
         /\ Append(s, e)[Len(s) + 1] = e
         /\ \A i \in 1 .. Len(s) : Append(s, e)[i] = s[i]
OBVIOUS

LEMMA JoinedTo ==
  \A s, t \in Seq(Bytes) :
    /\ s \o t \in Seq(Bytes) /\ Len(s \o t) = Len(s) + Len(t)
    /\ \A i \in 1 .. Len(s) : (s \o t)[i] = s[i]
    /\ \A i \in 1 .. Len(t) : (s \o t)[Len(s) + i] = t[i]
    /\ \A b \in Bytes : Append(s \o t, b) = s \o Append(t, b) /\ Append(t, b) \in Seq(Bytes)
<1> SUFFICES ASSUME NEW s \in Seq(Bytes), NEW t \in Seq(Bytes)
             PROVE  /\ s \o t \in Seq(Bytes) /\ Len(s \o t) = Len(s) + Len(t)
                    /\ \A i \in 1 .. Len(s) : (s \o t)[i] = s[i]
                    /\ \A i \in 1 .. Len(t) : (s \o t)[Len(s) + i] = t[i]
                    /\ \A b \in Bytes : /\ Append(s \o t, b) = s \o Append(t, b)
                                        /\ Append(t, b) \in Seq(Bytes)
  OBVIOUS
<1> QED
  OBVIOUS

(* Letters takes the letters one by one, ...                               *)
LEMMA LettersGrow ==
  /\ Letters(<<>>) = <<>>
  /\ \A s \in Seq(Bytes), b \in Bytes :
       /\ Letters(s) \in Seq(Bytes)
       /\ Letters(Append(s, b)) = IF b \in Visible THEN Append(Letters(s), b) ELSE Letters(s)
<1>1. Letters(<<>>) = <<>>
  <2>1. <<>> \in Seq(Bytes) /\ Len(<<>>) = 0
    OBVIOUS
  <2> QED
    BY <2>1, LettersAre
<1>2. ASSUME NEW s \in Seq(Bytes), NEW b \in Bytes
      PROVE  /\ Letters(s) \in Seq(Bytes)
             /\ Letters(Append(s, b)) = IF b \in Visible THEN Append(Letters(s), b) ELSE Letters(s)
  <2> DEFINE t == Append(s, b)
             n == Len(s)
  <2>1. /\ t \in Seq(Bytes) /\ n \in Nat /\ Len(t) = n + 1 /\ t[n + 1] = b
        /\ \A i \in 1 .. n : t[i] = s[i]
    BY AppendedTo
  <2> HIDE DEF t, n
  <2>2. PICK f \in [0 .. n -> Seq(Bytes)] :
          /\ f[0] = <<>> /\ Letters(s) = f[n]
          /\ \A i \in 1 .. n : f[i] = IF s[i] \in Visible THEN Append(f[i - 1], s[i]) ELSE f[i - 1]
    BY LettersAre DEF n
  <2>3. PICK g \in [0 .. Len(t) -> Seq(Bytes)] :
          /\ g[0] = <<>> /\ Letters(t) = g[Len(t)]
          /\ \A i \in 1 .. Len(t) : g[i] = IF t[i] \in Visible THEN Append(g[i - 1], t[i]) ELSE g[i - 1]
    BY <2>1, LettersAre
  <2>4. ASSUME NEW i \in 1 .. n, f[i - 1] = g[i - 1] PROVE f[i] = g[i]
    <3>1. i \in 1 .. Len(t) /\ t[i] = s[i]
      BY <2>1
    <3>2. g[i] = IF s[i] \in Visible THEN Append(g[i - 1], s[i]) ELSE g[i - 1]
      BY <2>3, <3>1
    <3> QED
      BY <2>2, <2>4, <3>2
  <2> DEFINE Same == {i \in 0 .. n : f[i] = g[i]}
  <2>5. f[n] = g[n]
    <3>1. 0 \in Same /\ n \in Nat /\ n \in 0 .. n
      BY <2>1, <2>2, <2>3
    <3>2. ASSUME NEW i \in 1 .. n, i - 1 \in Same PROVE i \in Same
      <4>1. f[i - 1] = g[i - 1]
        BY <3>2
      <4>2. f[i] = g[i] /\ i \in 0 .. n
        BY <2>1, <2>4, <4>1
      <4> QED
        BY <4>2
    <3>3. Same = 0 .. n
      <4>1. Same \in SUBSET (0 .. n)
        OBVIOUS
      <4> HIDE DEF Same
      <4> QED
        BY <3>1, <3>2, <4>1, CountingUp
    <3> QED
      BY <3>1, <3>3
  <2>6. g[n + 1] = IF b \in Visible THEN Append(g[n], b) ELSE g[n]
    <3>1. n + 1 \in 1 .. Len(t) /\ (n + 1) - 1 = n
      BY <2>1
    <3> QED
      BY <2>1, <2>3, <3>1
  <2>7. f[n] \in Seq(Bytes)
    BY <2>1, <2>2
  <2> QED
    BY <2>1, <2>2, <2>3, <2>5, <2>6, <2>7 DEF t
<1> QED
  BY <1>1, <1>2

(* ... those of the first part before those of the second ...              *)
LEMMA LettersOfBoth ==
  \A s, t \in Seq(Bytes) : Letters(s \o t) = Letters(s) \o Letters(t)
<1> SUFFICES ASSUME NEW s \in Seq(Bytes)
             PROVE  \A t \in Seq(Bytes) : Letters(s \o t) = Letters(s) \o Letters(t)
  OBVIOUS
<1> DEFINE Good == {t \in Seq(Bytes) : Letters(s \o t) = Letters(s) \o Letters(t)}
<1>1. <<>> \in Good
  <2>1. s \o <<>> = s /\ Letters(s) \o <<>> = Letters(s)
    BY LettersGrow
  <2> QED
    BY <2>1, LettersGrow
<1>2. ASSUME NEW t \in Good, NEW b \in Bytes PROVE Append(t, b) \in Good
  <2>1. s \o Append(t, b) = Append(s \o t, b) /\ s \o t \in Seq(Bytes) /\ Append(t, b) \in Seq(Bytes)
    OBVIOUS
  <2>2. Letters(s \o t) = Letters(s) \o Letters(t)
    OBVIOUS
  <2>3. Letters(s) \in Seq(Bytes) /\ Letters(t) \in Seq(Bytes)
    BY LettersGrow
  <2>4. Letters(s) \o Append(Letters(t), b) = Append(Letters(s) \o Letters(t), b)
    BY <2>3
  <2>5. Letters(Append(s \o t, b)) = IF b \in Visible THEN Append(Letters(s \o t), b) ELSE Letters(s \o t)
    BY <2>1, LettersGrow
  <2>6. Letters(Append(t, b)) = IF b \in Visible THEN Append(Letters(t), b) ELSE Letters(t)
    BY LettersGrow
  <2> QED
    BY <2>1, <2>2, <2>4, <2>5, <2>6
<1>3. Good = Seq(Bytes)
  <2>1. Good \in SUBSET Seq(Bytes)
    OBVIOUS
  <2> HIDE DEF Good
  <2> QED
    BY <1>1, <1>2, <2>1, GrowingUp
<1> QED
  BY <1>3

(* ... and nothing where there is none.                                    *)
LEMMA NoLetters ==
  \A s \in Seq(Bytes) : (\A i \in 1 .. Len(s) : s[i] \notin Visible) => Letters(s) = <<>>
<1> DEFINE Good == {s \in Seq(Bytes) : (\A i \in 1 .. Len(s) : s[i] \notin Visible) => Letters(s) = <<>>}
<1>1. <<>> \in Good
  BY LettersGrow
<1>2. ASSUME NEW s \in Good, NEW b \in Bytes PROVE Append(s, b) \in Good
  <2> DEFINE t == Append(s, b)
  <2>1. /\ t \in Seq(Bytes) /\ Len(s) \in Nat /\ Len(t) = Len(s) + 1 /\ t[Len(s) + 1] = b
        /\ \A i \in 1 .. Len(s) : t[i] = s[i]
    BY AppendedTo
  <2>2. Letters(t) = IF b \in Visible THEN Append(Letters(s), b) ELSE Letters(s)
    BY LettersGrow
  <2> HIDE DEF t
  <2>3. ASSUME \A i \in 1 .. Len(t) : t[i] \notin Visible PROVE Letters(t) = <<>>
    <3>1. b \notin Visible /\ \A i \in 1 .. Len(s) : s[i] \notin Visible
      BY <2>1, <2>3
    <3> QED
      BY <2>2, <3>1
  <2> QED
    BY <2>1, <2>3 DEF t
<1>3. Good = Seq(Bytes)
  <2>1. Good \in SUBSET Seq(Bytes)
    OBVIOUS
  <2> HIDE DEF Good
  <2> QED
    BY <1>1, <1>2, <2>1, GrowingUp
<1> QED
  BY <1>3

LEMMA JoinedAre ==
  ASSUME NEW s \in Seq(Seq(Bytes))
  PROVE  \E f \in [0 .. Len(s) -> Seq(Bytes)] :
            /\ f[0] = <<>> /\ Joined(s) = f[Len(s)]
            /\ \A i \in 1 .. Len(s) :
                 f[i] = f[i - 1] \o s[i]
<1> DEFINE n == Len(s)
           S == Seq(Bytes)
           On(i, x) == x \o s[i]
           step == [y \in (1 .. n) \X S |-> On(y[1], y[2])]
           Is(g) == g = [i \in 0 .. n |-> IF i = 0 THEN <<>> ELSE On(i, g[i - 1])]
<1>1. n \in Nat /\ <<>> \in S
  OBVIOUS
<1>2. \A i \in 1 .. n, x \in S : On(i, x) \in S
  OBVIOUS
<1>3. \A i \in 1 .. n, x \in S : step[<<i, x>>] = On(i, x)
  OBVIOUS
<1> HIDE DEF On, step, S, n
<1>4. PICK f : Follows(f, step, n, S, <<>>)
  BY <1>1, <1>2, <1>3, RecursionExists DEF StaysIn
<1>5. Is(f)
  <2>1. f \in [0 .. n -> S] /\ f[0] = <<>> /\ \A i \in 1 .. n : f[i] = step[<<i, f[i - 1]>>]
    BY <1>4 DEF Follows
  <2>2. \A i \in 1 .. n : f[i - 1] \in S
    BY <1>1, <2>1
  <2>3. \A i \in 1 .. n : f[i] = On(i, f[i - 1])
    BY <1>3, <2>1, <2>2
  <2> QED
    BY <1>1, <2>1, <2>3
<1> DEFINE F == CHOOSE g : Is(g)
<1>6. Is(F)
  <2> HIDE DEF Is
  <2> QED
    BY <1>5
<1>7. Joined(s) = F[n]
  BY DEF Joined, On, n
<1> HIDE DEF F
<1>8. F[0] = <<>> /\ \A i \in 1 .. n : F[i] = On(i, F[i - 1])
  BY <1>1, <1>6
<1>9. F = [i \in 0 .. n |-> F[i]]
  BY <1>6
<1>10. F \in [0 .. n -> S]
  <2>1. \A i \in 1 .. n : F[i - 1] \in S => F[i] \in S
    BY <1>2, <1>8
  <2>2. F[0] \in S /\ n \in Nat
    BY <1>1, <1>8
  <2> QED
    BY <1>9, <2>1, <2>2, RecursionStays
<1> QED
  BY <1>7, <1>8, <1>10 DEF On, S, n

(* Joined takes the lines one by one, ...                                 *)
LEMMA JoinedGrow ==
  /\ Joined(<<>>) = <<>>
  /\ \A s \in Seq(Seq(Bytes)), b \in Seq(Bytes) :
       /\ Joined(s) \in Seq(Bytes)
       /\ Joined(Append(s, b)) = Joined(s) \o b
<1>1. Joined(<<>>) = <<>>
  <2>1. <<>> \in Seq(Seq(Bytes)) /\ Len(<<>>) = 0
    OBVIOUS
  <2> QED
    BY <2>1, JoinedAre
<1>2. ASSUME NEW s \in Seq(Seq(Bytes)), NEW b \in Seq(Bytes)
      PROVE  /\ Joined(s) \in Seq(Bytes)
             /\ Joined(Append(s, b)) = Joined(s) \o b
  <2> DEFINE t == Append(s, b)
             n == Len(s)
  <2>1. /\ t \in Seq(Seq(Bytes)) /\ n \in Nat /\ Len(t) = n + 1 /\ t[n + 1] = b
        /\ \A i \in 1 .. n : t[i] = s[i]
    BY AppendedTo
  <2> HIDE DEF t, n
  <2>2. PICK f \in [0 .. n -> Seq(Bytes)] :
          /\ f[0] = <<>> /\ Joined(s) = f[n]
          /\ \A i \in 1 .. n : f[i] = f[i - 1] \o s[i]
    BY JoinedAre DEF n
  <2>3. PICK g \in [0 .. Len(t) -> Seq(Bytes)] :
          /\ g[0] = <<>> /\ Joined(t) = g[Len(t)]
          /\ \A i \in 1 .. Len(t) : g[i] = g[i - 1] \o t[i]
    BY <2>1, JoinedAre
  <2>4. ASSUME NEW i \in 1 .. n, f[i - 1] = g[i - 1] PROVE f[i] = g[i]
    <3>1. i \in 1 .. Len(t) /\ t[i] = s[i]
      BY <2>1
    <3>2. g[i] = g[i - 1] \o s[i]
      BY <2>3, <3>1
    <3> QED
      BY <2>2, <2>4, <3>2
  <2> DEFINE Same == {i \in 0 .. n : f[i] = g[i]}
  <2>5. f[n] = g[n]
    <3>1. 0 \in Same /\ n \in Nat /\ n \in 0 .. n
      BY <2>1, <2>2, <2>3
    <3>2. ASSUME NEW i \in 1 .. n, i - 1 \in Same PROVE i \in Same
      <4>1. f[i - 1] = g[i - 1]
        BY <3>2
      <4>2. f[i] = g[i] /\ i \in 0 .. n
        BY <2>1, <2>4, <4>1
      <4> QED
        BY <4>2
    <3>3. Same = 0 .. n
      <4>1. Same \in SUBSET (0 .. n)
        OBVIOUS
      <4> HIDE DEF Same
      <4> QED
        BY <3>1, <3>2, <4>1, CountingUp
    <3> QED
      BY <3>1, <3>3
  <2>6. g[n + 1] = g[n] \o b
    <3>1. n + 1 \in 1 .. Len(t) /\ (n + 1) - 1 = n
      BY <2>1
    <3> QED
      BY <2>1, <2>3, <3>1
  <2>7. f[n] \in Seq(Bytes)
    BY <2>1, <2>2
  <2> QED
    BY <2>1, <2>2, <2>3, <2>5, <2>6, <2>7 DEF t
<1> QED
  BY <1>1, <1>2

(* ... those of the first part before those of the second.                 *)
LEMMA JoinedOfBoth ==
  \A s, t \in Seq(Seq(Bytes)) : Joined(s \o t) = Joined(s) \o Joined(t)
<1> SUFFICES ASSUME NEW s \in Seq(Seq(Bytes))
             PROVE  \A t \in Seq(Seq(Bytes)) : Joined(s \o t) = Joined(s) \o Joined(t)
  OBVIOUS
<1> DEFINE Good == {t \in Seq(Seq(Bytes)) : Joined(s \o t) = Joined(s) \o Joined(t)}
<1>1. <<>> \in Good
  <2>1. s \o <<>> = s /\ Joined(s) \o <<>> = Joined(s)
    BY JoinedGrow
  <2> QED
    BY <2>1, JoinedGrow
<1>2. ASSUME NEW t \in Good, NEW b \in Seq(Bytes) PROVE Append(t, b) \in Good
  <2>1. s \o Append(t, b) = Append(s \o t, b) /\ s \o t \in Seq(Seq(Bytes)) /\ Append(t, b) \in Seq(Seq(Bytes))
    OBVIOUS
  <2>2. Joined(s \o t) = Joined(s) \o Joined(t)
    OBVIOUS
  <2>3. Joined(s) \in Seq(Bytes) /\ Joined(t) \in Seq(Bytes)
    BY JoinedGrow
  <2>4. Joined(s) \o (Joined(t) \o b) = (Joined(s) \o Joined(t)) \o b
    BY <2>3
  <2>5. Joined(Append(s \o t, b)) = Joined(s \o t) \o b
    BY <2>1, JoinedGrow
  <2>6. Joined(Append(t, b)) = Joined(t) \o b
    BY JoinedGrow
  <2> QED
    BY <2>1, <2>2, <2>4, <2>5, <2>6
<1>3. Good = Seq(Seq(Bytes))
  <2>1. Good \in SUBSET Seq(Seq(Bytes))
    OBVIOUS
  <2> HIDE DEF Good
  <2> QED
    BY <1>1, <1>2, <2>1, GrowingUp
<1> QED
  BY <1>3


(* A set of numbers up to n that is not empty has a greatest one.          *)
LEMMA GreatestOne ==
  ASSUME NEW n \in Nat, NEW S, S \subseteq 0 .. n, S # {}
  PROVE  \E i \in S : \A j \in S : j <= i
<1> DEFINE T == {k \in 0 .. n : n - k \in S}
<1>1. T \subseteq Nat /\ T # {}
  <2>1. PICK i \in S : TRUE
    OBVIOUS
  <2>2. i \in 0 .. n /\ n - i \in 0 .. n /\ n - (n - i) = i
    OBVIOUS
  <2>3. n - i \in T
    BY <2>1, <2>2
  <2>4. T \subseteq Nat
    OBVIOUS
  <2> HIDE DEF T
  <2> QED
    BY <2>3, <2>4
<1>2. Min(T) \in T /\ \A k \in T : Min(T) <= k
  <2> HIDE DEF T
  <2> QED
    BY <1>1, LeastOne
<1>3. ASSUME NEW j \in S PROVE j <= n - Min(T)
  <2>1. j \in 0 .. n /\ n - j \in 0 .. n /\ n - (n - j) = j
    OBVIOUS
  <2>2. n - j \in T
    BY <2>1
  <2>3. Min(T) <= n - j /\ Min(T) \in 0 .. n
    BY <1>2, <2>2
  <2> QED
    BY <2>1, <2>3
<1>4. n - Min(T) \in S
  BY <1>2
<1> QED
  BY <1>3, <1>4

(* A sequence cut in two.                                                  *)
LEMMA CutInTwo ==
  ASSUME NEW E, NEW s \in Seq(E), NEW m \in 0 .. Len(s)
  PROVE  /\ SubSeq(s, 1, m) \in Seq(E) /\ SubSeq(s, m + 1, Len(s)) \in Seq(E)
         /\ s = SubSeq(s, 1, m) \o SubSeq(s, m + 1, Len(s))
         /\ Len(SubSeq(s, 1, m)) = m /\ Len(SubSeq(s, m + 1, Len(s))) = Len(s) - m
         /\ \A i \in 1 .. m : SubSeq(s, 1, m)[i] = s[i]
         /\ \A i \in 1 .. Len(s) - m : SubSeq(s, m + 1, Len(s))[i] = s[m + i]
<1> DEFINE t == SubSeq(s, 1, m)
           u == SubSeq(s, m + 1, Len(s))
<1>1. t \in Seq(E) /\ Len(t) = m /\ \A i \in 1 .. m : t[i] = s[i]
  OBVIOUS
<1>2. u \in Seq(E) /\ Len(u) = Len(s) - m /\ \A i \in 1 .. Len(s) - m : u[i] = s[m + i]
  OBVIOUS
<1>3. t \o u = s
  <2>1. 1 \in 1 .. Len(s) + 1 /\ m \in 1 - 1 .. Len(s) /\ Len(s) \in m .. Len(s)
    OBVIOUS
  <2>2. t \o u = SubSeq(s, 1, Len(s))
    BY <2>1, ConcatAdjacentSubSeq
  <2> QED
    BY <2>2, SubSeqFull
<1> HIDE DEF t, u
<1> QED
  BY <1>1, <1>2, <1>3 DEF t, u

(* TrimmedEnd and Trimmed take off what is to be taken off.                *)
LEMMA EndsAreOff ==
  ASSUME NEW s \in Seq(Bytes), NEW Off
  PROVE  \E m \in 0 .. Len(s) : /\ TrimmedEnd(s, Off) = SubSeq(s, 1, m)
                                /\ \A i \in m + 1 .. Len(s) : s[i] \in Off
<1> DEFINE last == {i \in DOMAIN s : s[i] \notin Off}
           m == IF last = {} THEN 0 ELSE CHOOSE i \in last : \A j \in last : j <= i
<1>1. TrimmedEnd(s, Off) = SubSeq(s, 1, m)
  BY DEF TrimmedEnd
<1>2. last \subseteq 0 .. Len(s) /\ Len(s) \in Nat /\ DOMAIN s = 1 .. Len(s)
  OBVIOUS
<1>3. m \in 0 .. Len(s) /\ \A j \in last : j <= m
  <2>1. last # {} => \E i \in last : \A j \in last : j <= i
    <3> HIDE DEF last
    <3> QED
      BY <1>2, GreatestOne
  <2> HIDE DEF last
  <2>2. CASE last = {}
    BY <1>2, <2>2
  <2>3. CASE last # {}
    <3>1. m = CHOOSE i \in last : \A j \in last : j <= i
      BY <2>3
    <3> HIDE DEF m
    <3>2. m \in last /\ \A j \in last : j <= m
      BY <2>1, <2>3, <3>1
    <3> QED
      BY <1>2, <3>2
  <2> QED
    BY <2>2, <2>3
<1>4. \A i \in m + 1 .. Len(s) : s[i] \in Off
  <2> SUFFICES ASSUME NEW i \in m + 1 .. Len(s), s[i] \notin Off PROVE FALSE
    OBVIOUS
  <2> HIDE DEF m
  <2>1. i \in DOMAIN s /\ ~ (i <= m)
    BY <1>2, <1>3
  <2>2. i \in last
    BY <2>1
  <2> HIDE DEF last
  <2> QED
    BY <1>3, <2>1, <2>2
<1> HIDE DEF m
<1> QED
  BY <1>1, <1>3, <1>4

LEMMA BothEndsAreOff ==
  ASSUME NEW s \in Seq(Bytes), NEW Off
  PROVE  LET e == TrimmedEnd(s, Off)
         IN  \E k \in 0 .. Len(e) : /\ Trimmed(s, Off) = SubSeq(e, k + 1, Len(e))
                                    /\ \A i \in 1 .. k : e[i] \in Off
<1> DEFINE e     == TrimmedEnd(s, Off)
           first == {i \in DOMAIN e : e[i] \notin Off}
           k     == CHOOSE i \in first \cup {Len(e) + 1} : \A j \in first : i <= j
<1>1. Trimmed(s, Off) = SubSeq(e, k, Len(e))
  BY DEF Trimmed
<1>2. e \in Seq(Bytes)
  BY EndsAreOff, CutInTwo
<1> HIDE DEF e
<1>3. first \subseteq 1 .. Len(e) /\ Len(e) \in Nat /\ DOMAIN e = 1 .. Len(e)
  BY <1>2
<1>4. \E i \in first \cup {Len(e) + 1} : \A j \in first : i <= j
  <2>1. first # {} => Min(first) \in first /\ \A j \in first : Min(first) <= j
    <3>1. first \subseteq Nat
      BY <1>3
    <3> HIDE DEF first
    <3> QED
      BY <3>1, LeastOne
  <2> HIDE DEF first
  <2>2. CASE first = {}
    BY <2>2
  <2>3. CASE first # {}
    BY <2>1, <2>3
  <2> QED
    BY <2>2, <2>3
<1>5. k \in first \cup {Len(e) + 1} /\ \A j \in first : k <= j
  <2> HIDE DEF first
  <2> QED
    BY <1>4
<1>6. k \in 1 .. Len(e) + 1 /\ k - 1 \in 0 .. Len(e) /\ (k - 1) + 1 = k
  <2> HIDE DEF first, k
  <2> QED
    BY <1>3, <1>5
<1>7. \A i \in 1 .. k - 1 : e[i] \in Off
  <2> SUFFICES ASSUME NEW i \in 1 .. k - 1, e[i] \notin Off PROVE FALSE
    OBVIOUS
  <2> HIDE DEF k
  <2>1. i \in DOMAIN e /\ ~ (k <= i)
    BY <1>3, <1>6
  <2>2. i \in first
    BY <2>1
  <2> HIDE DEF first
  <2> QED
    BY <1>5, <2>1, <2>2
<1> HIDE DEF k
<1> QED
  BY <1>1, <1>6, <1>7 DEF e

(* No letter is taken off.                                                 *)
LEMMA TrimmingKeepsLetters ==
  ASSUME NEW Off \in SUBSET (Space \cup {Null})
  PROVE  \A s \in Seq(Bytes) :
           /\ TrimmedEnd(s, Off) \in Seq(Bytes) /\ Trimmed(s, Off) \in Seq(Bytes)
           /\ Letters(TrimmedEnd(s, Off)) = Letters(s)
           /\ Letters(Trimmed(s, Off)) = Letters(s)
<1>1. ASSUME NEW s \in Seq(Bytes), NEW m \in 0 .. Len(s),
             \A i \in m + 1 .. Len(s) : s[i] \in Off
      PROVE  SubSeq(s, 1, m) \in Seq(Bytes) /\ Letters(SubSeq(s, 1, m)) = Letters(s)
  <2> DEFINE t == SubSeq(s, 1, m)
             u == SubSeq(s, m + 1, Len(s))
  <2>1. /\ t \in Seq(Bytes) /\ u \in Seq(Bytes) /\ s = t \o u /\ Len(u) = Len(s) - m
        /\ \A i \in 1 .. Len(s) - m : u[i] = s[m + i]
    BY CutInTwo
  <2>2. \A i \in 1 .. Len(s) - m : m + i \in m + 1 .. Len(s)
    OBVIOUS
  <2>3. \A i \in 1 .. Len(u) : u[i] \notin Visible
    BY <1>1, <2>1, <2>2, VisibleIsNoSpace
  <2> HIDE DEF t, u
  <2>4. Letters(u) = <<>> /\ Letters(t) \in Seq(Bytes)
    BY <2>1, <2>3, NoLetters, LettersGrow
  <2>5. Letters(s) = Letters(t) \o Letters(u)
    BY <2>1, LettersOfBoth
  <2> QED
    BY <2>1, <2>4, <2>5 DEF t
<1>2. ASSUME NEW s \in Seq(Bytes), NEW k \in 0 .. Len(s),
             \A i \in 1 .. k : s[i] \in Off
      PROVE  SubSeq(s, k + 1, Len(s)) \in Seq(Bytes) /\ Letters(SubSeq(s, k + 1, Len(s))) = Letters(s)
  <2> DEFINE t == SubSeq(s, 1, k)
             u == SubSeq(s, k + 1, Len(s))
  <2>1. /\ t \in Seq(Bytes) /\ u \in Seq(Bytes) /\ s = t \o u /\ Len(t) = k
        /\ \A i \in 1 .. k : t[i] = s[i]
    BY CutInTwo
  <2>2. \A i \in 1 .. Len(t) : t[i] \notin Visible
    BY <1>2, <2>1, VisibleIsNoSpace
  <2> HIDE DEF t, u
  <2>3. Letters(t) = <<>> /\ Letters(u) \in Seq(Bytes)
    BY <2>1, <2>2, NoLetters, LettersGrow
  <2>4. Letters(s) = Letters(t) \o Letters(u)
    BY <2>1, LettersOfBoth
  <2> QED
    BY <2>1, <2>3, <2>4 DEF u
<1>3. ASSUME NEW s \in Seq(Bytes)
      PROVE  TrimmedEnd(s, Off) \in Seq(Bytes) /\ Letters(TrimmedEnd(s, Off)) = Letters(s)
  <2>1. PICK m \in 0 .. Len(s) : /\ TrimmedEnd(s, Off) = SubSeq(s, 1, m)
                                 /\ \A i \in m + 1 .. Len(s) : s[i] \in Off
    BY EndsAreOff
  <2> QED
    BY <1>1, <2>1
<1>4. ASSUME NEW s \in Seq(Bytes)
      PROVE  Trimmed(s, Off) \in Seq(Bytes) /\ Letters(Trimmed(s, Off)) = Letters(s)
  <2> DEFINE e == TrimmedEnd(s, Off)
  <2>1. e \in Seq(Bytes) /\ Letters(e) = Letters(s)
    BY <1>3
  <2>2. PICK k \in 0 .. Len(e) : /\ Trimmed(s, Off) = SubSeq(e, k + 1, Len(e))
                                 /\ \A i \in 1 .. k : e[i] \in Off
    BY BothEndsAreOff
  <2> HIDE DEF e
  <2> QED
    BY <1>2, <2>1, <2>2
<1> QED
  BY <1>3, <1>4

(* What byte i of a text becomes. *)
ByteOf(s, Cuts, i) ==
  IF \/ s[i] = Lead /\ ~Whole(s, Cuts, i)
     \/ s[i] = Trail /\ ~Whole(s, Cuts, i - 1)
  THEN Lost ELSE s[i]

LEMMA LossyIs ==
  ASSUME NEW s \in Seq(Bytes), NEW Cuts
  PROVE  /\ LossyAt(s, Cuts) \in Seq(Bytes) /\ Len(LossyAt(s, Cuts)) = Len(s)
         /\ \A i \in 1 .. Len(s) : LossyAt(s, Cuts)[i] = ByteOf(s, Cuts, i)
<1> DEFINE n == Len(s)
<1>1. n \in Nat /\ DOMAIN s = 1 .. n /\ \A i \in 1 .. n : s[i] \in Bytes
  OBVIOUS
<1>2. \A i \in 1 .. n : ByteOf(s, Cuts, i) \in Bytes
  BY <1>1 DEF ByteOf, Bytes
<1>3. LossyAt(s, Cuts) = [i \in 1 .. n |-> ByteOf(s, Cuts, i)]
  BY <1>1 DEF LossyAt, ByteOf
<1> HIDE DEF n
<1>4. [i \in 1 .. n |-> ByteOf(s, Cuts, i)] \in Seq(Bytes)
  BY <1>1, <1>2
<1>5. Len([i \in 1 .. n |-> ByteOf(s, Cuts, i)]) = n
  BY <1>1
<1>6. \A i \in 1 .. n : [j \in 1 .. n |-> ByteOf(s, Cuts, j)][i] = ByteOf(s, Cuts, i)
  OBVIOUS
<1> QED
  BY <1>3, <1>4, <1>5, <1>6 DEF n

(* A text in two pieces, no character of which goes across their border.   *)
Apart(u, v, Cuts) ==
  \/ u = <<>> \/ v = <<>>
  \/ Len(u) \in Cuts \/ u[Len(u)] # Lead \/ v[1] # Trail

LEMMA LossyOfBoth ==
  ASSUME NEW u \in Seq(Bytes), NEW v \in Seq(Bytes), NEW Cuts \in SUBSET (1 .. Len(u)),
         Apart(u, v, Cuts)
  PROVE  LossyAt(u \o v, Cuts) = LossyAt(u, Cuts) \o Lossy(v)
<1> DEFINE s == u \o v
           m == Len(u)
           n == Len(v)
           a == LossyAt(u, Cuts)
           b == Lossy(v)
<1>1. /\ s \in Seq(Bytes) /\ m \in Nat /\ n \in Nat /\ Len(s) = m + n
      /\ \A i \in 1 .. m : s[i] = u[i]
      /\ \A i \in 1 .. n : s[m + i] = v[i]
  OBVIOUS
<1>2. /\ a \in Seq(Bytes) /\ Len(a) = m
      /\ \A i \in 1 .. m : a[i] = ByteOf(u, Cuts, i)
  BY LossyIs
<1>3. /\ b \in Seq(Bytes) /\ Len(b) = n
      /\ \A i \in 1 .. n : b[i] = ByteOf(v, {}, i)
  BY LossyIs DEF Lossy
<1>4. /\ LossyAt(s, Cuts) \in Seq(Bytes) /\ Len(LossyAt(s, Cuts)) = m + n
      /\ \A i \in 1 .. m + n : LossyAt(s, Cuts)[i] = ByteOf(s, Cuts, i)
  <2> HIDE DEF s
  <2> QED
    BY <1>1, LossyIs
<1>5. Cuts \in SUBSET (1 .. m) /\ Lead # Trail
  BY DEF Lead, Trail
<1>6. m \in 1 .. m + n - 1 /\ s[m] = Lead /\ s[m + 1] = Trail => m \in Cuts
  <2> SUFFICES ASSUME m \in 1 .. m + n - 1, s[m] = Lead, s[m + 1] = Trail PROVE m \in Cuts
    OBVIOUS
  <2>1. 1 \in 1 .. n /\ m \in 1 .. m
    BY <1>1
  <2>2. u[m] = Lead /\ v[1] = Trail /\ u # <<>> /\ v # <<>>
    BY <1>1, <2>1
  <2> QED
    BY <2>2 DEF Apart
<1> HIDE DEF s, m, n, a, b
<1>7. ASSUME NEW i \in 0 .. m PROVE Whole(s, Cuts, i) <=> Whole(u, Cuts, i)
  <2>1. CASE i \in 1 .. m - 1
    <3>1. i \in 1 .. m /\ i + 1 \in 1 .. m /\ i \in 1 .. m + n - 1
      BY <1>1, <2>1
    <3> QED
      BY <1>1, <2>1, <3>1 DEF Whole, m
  <2>2. CASE i = m
    <3>1. ~ Whole(u, Cuts, i)
      BY <1>1, <2>2 DEF Whole, m
    <3>2. ~ Whole(s, Cuts, i)
      BY <1>1, <1>6, <2>2 DEF Whole
    <3> QED
      BY <3>1, <3>2
  <2>3. CASE i = 0
    BY <2>3 DEF Whole
  <2> QED
    BY <1>1, <2>1, <2>2, <2>3
<1>8. ASSUME NEW i \in 1 .. n PROVE Whole(s, Cuts, m + i) <=> Whole(v, {}, i)
  <2>1. m + i \notin Cuts /\ i \notin {}
    BY <1>1, <1>5
  <2>2. CASE i \in 1 .. n - 1
    <3>1. i + 1 \in 1 .. n /\ m + i \in 1 .. m + n - 1 /\ (m + i) + 1 = m + (i + 1)
      BY <1>1, <2>2
    <3>2. s[m + i] = v[i] /\ s[(m + i) + 1] = v[i + 1]
      BY <1>1, <3>1
    <3> QED
      BY <1>1, <2>1, <2>2, <3>1, <3>2 DEF Whole, n
  <2>3. CASE i = n
    <3>1. ~ (m + i \in 1 .. Len(s) - 1) /\ ~ (i \in 1 .. n - 1)
      BY <1>1, <2>3
    <3> QED
      BY <3>1 DEF Whole, n
  <2> QED
    BY <1>1, <2>2, <2>3
<1>9. ~ Whole(s, Cuts, m + 0) /\ ~ Whole(v, {}, 0)
  BY <1>1, <1>6 DEF Whole
<1>10. /\ a \o b \in Seq(Bytes) /\ Len(a \o b) = m + n
       /\ \A i \in 1 .. m : (a \o b)[i] = a[i]
       /\ \A i \in 1 .. n : (a \o b)[m + i] = b[i]
  BY <1>2, <1>3, JoinedTo
<1>11. ASSUME NEW i \in 1 .. m PROVE LossyAt(s, Cuts)[i] = (a \o b)[i]
  <2>1. i \in 0 .. m /\ i - 1 \in 0 .. m /\ i \in 1 .. m + n /\ s[i] = u[i]
    BY <1>1
  <2>2. Whole(s, Cuts, i) <=> Whole(u, Cuts, i)
    BY <1>7, <2>1
  <2>3. Whole(s, Cuts, i - 1) <=> Whole(u, Cuts, i - 1)
    BY <1>7, <2>1
  <2>4. (a \o b)[i] = ByteOf(u, Cuts, i)
    BY <1>2, <1>10
  <2>5. LossyAt(s, Cuts)[i] = ByteOf(s, Cuts, i)
    BY <1>4, <2>1
  <2> QED
    BY <2>1, <2>2, <2>3, <2>4, <2>5 DEF ByteOf
<1>12. ASSUME NEW i \in 1 .. n PROVE LossyAt(s, Cuts)[m + i] = (a \o b)[m + i]
  <2>1. m + i \in 1 .. m + n /\ s[m + i] = v[i] /\ (m + i) - 1 = m + (i - 1) /\ i - 1 \in 0 .. n
    BY <1>1
  <2>2. Whole(s, Cuts, m + i) <=> Whole(v, {}, i)
    BY <1>8
  <2>3. Whole(s, Cuts, m + (i - 1)) <=> Whole(v, {}, i - 1)
    <3>1. CASE i - 1 = 0
      BY <1>9, <3>1
    <3>2. CASE i - 1 \in 1 .. n
      BY <1>8, <3>2
    <3> QED
      BY <1>1, <2>1, <3>1, <3>2
  <2>4. (a \o b)[m + i] = ByteOf(v, {}, i)
    BY <1>3, <1>10
  <2>5. LossyAt(s, Cuts)[m + i] = ByteOf(s, Cuts, m + i)
    BY <1>4, <2>1
  <2> QED
    BY <2>1, <2>2, <2>3, <2>4, <2>5 DEF ByteOf
<1>13. \A i \in 1 .. Len(LossyAt(s, Cuts)) : LossyAt(s, Cuts)[i] = (a \o b)[i]
  <2> SUFFICES ASSUME NEW i \in 1 .. m + n PROVE LossyAt(s, Cuts)[i] = (a \o b)[i]
    BY <1>4
  <2>1. CASE i \in 1 .. m
    BY <1>11, <2>1
  <2>2. CASE ~ (i \in 1 .. m)
    <3>1. i - m \in 1 .. n /\ m + (i - m) = i
      BY <1>1, <2>2
    <3> QED
      BY <1>12, <3>1
  <2> QED
    BY <2>1, <2>2
<1>14. LossyAt(s, Cuts) = a \o b
  BY <1>4, <1>10, <1>13, SeqEqual
<1> QED
  BY <1>14 DEF s, a, b

(* Nothing goes across the very end of a text.                             *)
LEMMA CutAtTheEnd ==
  ASSUME NEW s \in Seq(Bytes), NEW Cuts
  PROVE  LossyAt(s, Cuts \cup {Len(s)}) = LossyAt(s, Cuts)
<1>1. Len(s) \in Nat
  OBVIOUS
<1>2. \A i : Whole(s, Cuts \cup {Len(s)}, i) <=> Whole(s, Cuts, i)
  BY <1>1 DEF Whole
<1> QED
  BY <1>2 DEF LossyAt

(* What comes out for a line has the letters of the line.                  *)
LEMMA LettersOfLine ==
  ASSUME NEW s \in Seq(Bytes)
  PROVE  /\ Finished(s) \in Seq(Seq(Bytes)) /\ Unfinished(s) \in Seq(Seq(Bytes))
         /\ Lossy(s) \in Seq(Bytes)
         /\ Letters(Joined(Finished(s))) = Letters(Lossy(s))
         /\ Letters(Joined(Unfinished(s))) = Letters(Lossy(s))
<1>1. ASSUME NEW x \in Seq(Bytes) PROVE <<x>> \in Seq(Seq(Bytes)) /\ Joined(<<x>>) = x
  <2>1. <<>> \in Seq(Seq(Bytes)) /\ <<x>> = Append(<<>>, x) /\ <<>> \o x = x
    OBVIOUS
  <2>2. Joined(Append(<<>>, x)) = Joined(<<>>) \o x /\ Joined(<<>>) = <<>>
    BY <2>1, JoinedGrow
  <2> QED
    BY <2>1, <2>2
<1>2. Lossy(s) \in Seq(Bytes)
  BY LossyIs DEF Lossy
<1>3. ASSUME NEW Off \in {{Return}, {Null}, Space}
      PROVE  \A u \in Seq(Bytes) :
               /\ TrimmedEnd(u, Off) \in Seq(Bytes) /\ Trimmed(u, Off) \in Seq(Bytes)
               /\ Letters(TrimmedEnd(u, Off)) = Letters(u)
               /\ Letters(Trimmed(u, Off)) = Letters(u)
  <2>1. Off \in SUBSET (Space \cup {Null})
    BY DEF Space
  <2> QED
    BY <2>1, TrimmingKeepsLetters
<1> DEFINE e == Line(s)
           t == Part(s)
           v == Trimmed(e, Space)
<1>4. e \in Seq(Bytes) /\ Letters(e) = Letters(Lossy(s))
  <2> DEFINE u == TrimmedEnd(Lossy(s), {Return})
  <2>1. u \in Seq(Bytes) /\ Letters(u) = Letters(Lossy(s))
    BY <1>2, <1>3
  <2>2. e = Trimmed(u, {Null})
    BY DEF Line
  <2> HIDE DEF u, e
  <2> QED
    BY <1>3, <2>1, <2>2
<1>5. t \in Seq(Bytes) /\ Letters(t) = Letters(Lossy(s))
  <2> DEFINE u == Trimmed(Lossy(s), {Null})
  <2>1. u \in Seq(Bytes) /\ Letters(u) = Letters(Lossy(s))
    BY <1>2, <1>3
  <2>2. t = Trimmed(u, Space)
    BY DEF Part
  <2> HIDE DEF u, t
  <2> QED
    BY <1>3, <2>1, <2>2
<1> HIDE DEF e, t
<1>6. Letters(v) = Letters(e)
  BY <1>3, <1>4
<1>7. Finished(s) = IF v = <<>> THEN <<>> ELSE <<e>>
  BY DEF Finished, e
<1>8. Unfinished(s) = IF t = <<>> THEN <<>> ELSE <<t>>
  BY DEF Unfinished, t
<1> HIDE DEF v
<1>9. <<>> \in Seq(Seq(Bytes)) /\ Joined(<<>>) = <<>> /\ Letters(<<>>) = <<>>
  BY JoinedGrow, LettersGrow
<1>10. Finished(s) \in Seq(Seq(Bytes)) /\ Letters(Joined(Finished(s))) = Letters(Lossy(s))
  <2>1. CASE v = <<>>
    BY <1>4, <1>6, <1>7, <1>9, <2>1
  <2>2. CASE v # <<>>
    BY <1>1, <1>4, <1>7, <2>2
  <2> QED
    BY <2>1, <2>2
<1>11. Unfinished(s) \in Seq(Seq(Bytes)) /\ Letters(Joined(Unfinished(s))) = Letters(Lossy(s))
  <2>1. CASE t = <<>>
    BY <1>5, <1>8, <1>9, <2>1
  <2>2. CASE t # <<>>
    BY <1>1, <1>5, <1>8, <2>2
  <2> QED
    BY <2>1, <2>2
<1> QED
  BY <1>2, <1>10, <1>11

-----------------------------------------------------------------------------
(* drain_lines, byte by byte.                                              *)
LEMMA DrainIs ==
  ASSUME NEW s \in Seq(Bytes)
  PROVE  \E from \in [0 .. Len(s) -> Nat \ {0}], lines \in [0 .. Len(s) -> Seq(Seq(Bytes))] :
            /\ from[0] = 1 /\ lines[0] = <<>>
            /\ \A i \in 1 .. Len(s) :
                 /\ from[i] = IF s[i] = Feed THEN i + 1 ELSE from[i - 1]
                 /\ lines[i] = IF s[i] = Feed
                               THEN lines[i - 1] \o Finished(SubSeq(s, from[i - 1], i - 1))
                               ELSE lines[i - 1]
            /\ Drain(s) = [lines |-> lines[Len(s)], left |-> SubSeq(s, from[Len(s)], Len(s))]
<1> DEFINE n == Len(s)
           P == Nat \ {0}
           On(i, x) == IF s[i] = Feed THEN i + 1 ELSE x
           step == [y \in (1 .. n) \X P |-> On(y[1], y[2])]
           Is(g) == g = [i \in 0 .. n |-> IF i = 0 THEN 1 ELSE On(i, g[i - 1])]
<1>1. n \in Nat /\ 1 \in P
  OBVIOUS
<1>2. \A i \in 1 .. n, x \in P : On(i, x) \in P
  OBVIOUS
<1>3. \A i \in 1 .. n, x \in P : step[<<i, x>>] = On(i, x)
  OBVIOUS
<1> HIDE DEF On, step, n, P
<1>4. PICK f : Follows(f, step, n, P, 1)
  BY <1>1, <1>2, <1>3, RecursionExists DEF StaysIn
<1>5. Is(f)
  <2>1. f \in [0 .. n -> P] /\ f[0] = 1 /\ \A i \in 1 .. n : f[i] = step[<<i, f[i - 1]>>]
    BY <1>4 DEF Follows
  <2>2. \A i \in 1 .. n : f[i - 1] \in P
    BY <1>1, <2>1
  <2>3. \A i \in 1 .. n : f[i] = On(i, f[i - 1])
    BY <1>3, <2>1, <2>2
  <2> QED
    BY <1>1, <2>1, <2>3
<1> DEFINE from == CHOOSE g : Is(g)
<1>6. Is(from)
  <2> HIDE DEF Is
  <2> QED
    BY <1>5
<1> DEFINE Then(i, x) == IF s[i] = Feed THEN x \o Finished(SubSeq(s, from[i - 1], i - 1)) ELSE x
           Are(g) == g = [i \in 0 .. n |-> IF i = 0 THEN <<>> ELSE Then(i, g[i - 1])]
           lines  == CHOOSE g : Are(g)
<1>7. Drain(s) = [lines |-> lines[n], left |-> SubSeq(s, from[n], n)]
  BY DEF Drain, On, n
<1> HIDE DEF from
<1>8. from[0] = 1 /\ \A i \in 1 .. n : from[i] = On(i, from[i - 1])
  BY <1>1, <1>6
<1>9. from \in [0 .. n -> P]
  <2>1. \A i \in 1 .. n : from[i - 1] \in P => from[i] \in P
    BY <1>2, <1>8
  <2>2. from[0] \in P /\ n \in Nat /\ from = [i \in 0 .. n |-> from[i]]
    BY <1>1, <1>6, <1>8
  <2> QED
    BY <2>1, <2>2, RecursionStays
<1> DEFINE S == Seq(Seq(Bytes))
           next == [y \in (1 .. n) \X S |-> Then(y[1], y[2])]
<1>10. \A i \in 1 .. n, x \in S : Then(i, x) \in S
  <2> SUFFICES ASSUME NEW i \in 1 .. n, NEW x \in S PROVE Then(i, x) \in S
    OBVIOUS
  <2>1. from[i - 1] \in P /\ i - 1 \in 0 .. n
    BY <1>1, <1>9
  <2>2. SubSeq(s, from[i - 1], i - 1) \in Seq(Bytes)
    BY <2>1 DEF P, n
  <2>3. Finished(SubSeq(s, from[i - 1], i - 1)) \in S
    BY <2>2, LettersOfLine
  <2> QED
    BY <2>3
<1>11. \A i \in 1 .. n, x \in S : next[<<i, x>>] = Then(i, x)
  OBVIOUS
<1>12. <<>> \in S
  OBVIOUS
<1> HIDE DEF S, next, Then
<1>13. PICK h : Follows(h, next, n, S, <<>>)
  BY <1>1, <1>10, <1>11, <1>12, RecursionExists DEF StaysIn
<1>14. Are(h)
  <2>1. h \in [0 .. n -> S] /\ h[0] = <<>> /\ \A i \in 1 .. n : h[i] = next[<<i, h[i - 1]>>]
    BY <1>13 DEF Follows
  <2>2. \A i \in 1 .. n : h[i - 1] \in S
    BY <1>1, <2>1
  <2>3. \A i \in 1 .. n : h[i] = Then(i, h[i - 1])
    BY <1>11, <2>1, <2>2
  <2> QED
    BY <1>1, <2>1, <2>3
<1>15. Are(lines)
  <2> HIDE DEF Are
  <2> QED
    BY <1>14
<1> HIDE DEF lines
<1>16. lines[0] = <<>> /\ \A i \in 1 .. n : lines[i] = Then(i, lines[i - 1])
  BY <1>1, <1>15
<1>17. lines \in [0 .. n -> S]
  <2>1. \A i \in 1 .. n : lines[i - 1] \in S => lines[i] \in S
    BY <1>10, <1>16
  <2>2. lines[0] \in S /\ lines = [i \in 0 .. n |-> lines[i]]
    BY <1>12, <1>15, <1>16
  <2> QED
    BY <1>1, <2>1, <2>2, RecursionStays
<1> from \in [0 .. Len(s) -> Nat \ {0}] /\ lines \in [0 .. Len(s) -> Seq(Seq(Bytes))]
  BY <1>9, <1>17 DEF n, P, S
<1> WITNESS from \in [0 .. Len(s) -> Nat \ {0}], lines \in [0 .. Len(s) -> Seq(Seq(Bytes))]
<1> QED
  BY <1>7, <1>8, <1>16 DEF On, Then, n

LEMMA PartsOfAppended ==
  ASSUME NEW E, NEW s \in Seq(E), NEW e \in E
  PROVE  /\ \A m \in Nat \ {0}, i \in 0 .. Len(s) :
              /\ SubSeq(Append(s, e), m, i) = SubSeq(s, m, i) /\ SubSeq(s, m, i) \in Seq(E)
         /\ \A m \in 1 .. Len(s) + 1 :
              SubSeq(Append(s, e), m, Len(s) + 1) = Append(SubSeq(s, m, Len(s)), e)
<1> DEFINE t == Append(s, e)
           n == Len(s)
<1>1. /\ t \in Seq(E) /\ n \in Nat /\ Len(t) = n + 1 /\ t[n + 1] = e
      /\ \A i \in 1 .. n : t[i] = s[i]
  BY AppendedTo
<1>2. ASSUME NEW m \in Nat \ {0}, NEW i \in 0 .. n
      PROVE  SubSeq(t, m, i) = SubSeq(s, m, i) /\ SubSeq(s, m, i) \in Seq(E)
  <2> HIDE DEF t
  <2>1. SubSeq(s, m, i) \in Seq(E) /\ SubSeq(t, m, i) \in Seq(E)
    BY <1>1
  <2>2. Len(SubSeq(s, m, i)) = Len(SubSeq(t, m, i))
    BY <1>1
  <2>3. \A j \in 1 .. Len(SubSeq(s, m, i)) : SubSeq(s, m, i)[j] = SubSeq(t, m, i)[j]
    BY <1>1
  <2> QED
    BY <2>1, <2>2, <2>3, SeqEqual
<1>3. ASSUME NEW m \in 1 .. n + 1
      PROVE  SubSeq(t, m, n + 1) = Append(SubSeq(s, m, n), e)
  <2> DEFINE u == SubSeq(s, m, n)
  <2>1. u \in Seq(E) /\ Len(u) = n + 1 - m /\ \A j \in 1 .. n + 1 - m : u[j] = s[m + j - 1]
    BY <1>1
  <2>2. /\ SubSeq(t, m, n + 1) \in Seq(E) /\ Len(SubSeq(t, m, n + 1)) = n + 2 - m
        /\ \A j \in 1 .. n + 2 - m : SubSeq(t, m, n + 1)[j] = t[m + j - 1]
    <3> HIDE DEF t, n
    <3> QED
      BY <1>1
  <2> HIDE DEF u, t, n
  <2>3. /\ Append(u, e) \in Seq(E) /\ Len(Append(u, e)) = n + 2 - m
        /\ Append(u, e)[n + 2 - m] = e
        /\ \A j \in 1 .. n + 1 - m : Append(u, e)[j] = u[j]
    <3>1. n + 1 - m \in Nat /\ (n + 1 - m) + 1 = n + 2 - m
      BY <1>1
    <3> QED
      BY <2>1, <3>1, AppendedTo
  <2>4. ASSUME NEW j \in 1 .. n + 2 - m PROVE SubSeq(t, m, n + 1)[j] = Append(u, e)[j]
    <3>1. CASE j = n + 2 - m
      <4>1. m + j - 1 = n + 1
        BY <1>1, <3>1
      <4> QED
        BY <1>1, <2>2, <2>3, <3>1, <4>1
    <3>2. CASE j # n + 2 - m
      <4>1. j \in 1 .. n + 1 - m /\ m + j - 1 \in 1 .. n
        BY <1>1, <3>2
      <4> QED
        BY <1>1, <2>1, <2>2, <2>3, <4>1
    <3> QED
      BY <3>1, <3>2
  <2>5. SubSeq(t, m, n + 1) = Append(u, e)
    BY <2>2, <2>3, <2>4, SeqEqual
  <2> QED
    BY <2>5 DEF u
<1> QED
  BY <1>2, <1>3

Fed(read, b) ==
  IF b = Feed THEN [lines |-> read.lines \o Finished(read.left), left |-> <<>>]
  ELSE [lines |-> read.lines, left |-> Append(read.left, b)]

ReadSoFar == [lines : Seq(Seq(Bytes)), left : Seq(Bytes)]

LEMMA DrainGrows ==
  /\ Drain(<<>>) = [lines |-> <<>>, left |-> <<>>]
  /\ \A s \in Seq(Bytes), b \in Bytes :
       Drain(s) \in ReadSoFar /\ Drain(Append(s, b)) = Fed(Drain(s), b)
<1>1. Drain(<<>>) = [lines |-> <<>>, left |-> <<>>]
  <2> DEFINE e == <<>>
  <2>1. e \in Seq(Bytes) /\ Len(e) = 0 /\ SubSeq(e, 1, 0) = <<>>
    OBVIOUS
  <2> HIDE DEF e
  <2>2. PICK from \in [0 .. Len(e) -> Nat \ {0}], lines \in [0 .. Len(e) -> Seq(Seq(Bytes))] :
          /\ from[0] = 1 /\ lines[0] = <<>>
          /\ \A i \in 1 .. Len(e) :
               /\ from[i] = IF e[i] = Feed THEN i + 1 ELSE from[i - 1]
               /\ lines[i] = IF e[i] = Feed
                             THEN lines[i - 1] \o Finished(SubSeq(e, from[i - 1], i - 1))
                             ELSE lines[i - 1]
          /\ Drain(e) = [lines |-> lines[Len(e)], left |-> SubSeq(e, from[Len(e)], Len(e))]
    BY <2>1, DrainIs
  <2> QED
    BY <2>1, <2>2 DEF e
<1>2. ASSUME NEW s \in Seq(Bytes), NEW b \in Bytes
      PROVE  Drain(s) \in ReadSoFar /\ Drain(Append(s, b)) = Fed(Drain(s), b)
  <2> DEFINE t == Append(s, b)
             n == Len(s)
  <2>1. /\ t \in Seq(Bytes) /\ n \in Nat /\ Len(t) = n + 1 /\ t[n + 1] = b
        /\ \A i \in 1 .. n : t[i] = s[i]
    BY AppendedTo
  <2>2. /\ \A m \in Nat \ {0}, i \in 0 .. n :
             SubSeq(t, m, i) = SubSeq(s, m, i) /\ SubSeq(s, m, i) \in Seq(Bytes)
        /\ \A m \in 1 .. n + 1 : SubSeq(t, m, n + 1) = Append(SubSeq(s, m, n), b)
    BY PartsOfAppended
  <2> HIDE DEF t, n
  <2>3. PICK from \in [0 .. n -> Nat \ {0}], lines \in [0 .. n -> Seq(Seq(Bytes))] :
          /\ from[0] = 1 /\ lines[0] = <<>>
          /\ \A i \in 1 .. n :
               /\ from[i] = IF s[i] = Feed THEN i + 1 ELSE from[i - 1]
               /\ lines[i] = IF s[i] = Feed
                             THEN lines[i - 1] \o Finished(SubSeq(s, from[i - 1], i - 1))
                             ELSE lines[i - 1]
          /\ Drain(s) = [lines |-> lines[n], left |-> SubSeq(s, from[n], n)]
    BY DrainIs DEF n
  <2>4. PICK start \in [0 .. Len(t) -> Nat \ {0}], out \in [0 .. Len(t) -> Seq(Seq(Bytes))] :
          /\ start[0] = 1 /\ out[0] = <<>>
          /\ \A i \in 1 .. Len(t) :
               /\ start[i] = IF t[i] = Feed THEN i + 1 ELSE start[i - 1]
               /\ out[i] = IF t[i] = Feed
                           THEN out[i - 1] \o Finished(SubSeq(t, start[i - 1], i - 1))
                           ELSE out[i - 1]
          /\ Drain(t) = [lines |-> out[Len(t)], left |-> SubSeq(t, start[Len(t)], Len(t))]
    BY <2>1, DrainIs
  <2>a. from[0] = 1 /\ lines[0] = <<>> /\ start[0] = 1 /\ out[0] = <<>>
    BY <2>3, <2>4
  <2>b. \A i \in 1 .. n : from[i] = IF s[i] = Feed THEN i + 1 ELSE from[i - 1]
    BY <2>3
  <2>c. \A i \in 1 .. n : lines[i] = IF s[i] = Feed
                                     THEN lines[i - 1] \o Finished(SubSeq(s, from[i - 1], i - 1))
                                     ELSE lines[i - 1]
    BY <2>3
  <2>d. \A i \in 1 .. Len(t) : start[i] = IF t[i] = Feed THEN i + 1 ELSE start[i - 1]
    BY <2>4
  <2>e. \A i \in 1 .. Len(t) : out[i] = IF t[i] = Feed
                                        THEN out[i - 1] \o Finished(SubSeq(t, start[i - 1], i - 1))
                                        ELSE out[i - 1]
    BY <2>4
  <2>f. /\ Drain(s) = [lines |-> lines[n], left |-> SubSeq(s, from[n], n)]
        /\ Drain(t) = [lines |-> out[Len(t)], left |-> SubSeq(t, start[Len(t)], Len(t))]
    BY <2>3, <2>4
  <2> DEFINE Same == {i \in 0 .. n : from[i] = start[i] /\ lines[i] = out[i] /\ from[i] <= i + 1}
  <2>5. ASSUME NEW i \in 1 .. n, i - 1 \in Same PROVE i \in Same
    <3>1. i \in 1 .. Len(t) /\ t[i] = s[i] /\ i \in 0 .. n /\ i - 1 \in 0 .. n
      <4>1. n \in Nat /\ Len(t) = n + 1
        BY <2>1
      <4>2. i \in 1 .. Len(t) /\ i \in 0 .. n /\ i - 1 \in 0 .. n
        BY ONLY <4>1, i \in 1 .. n
      <4>3. t[i] = s[i]
        BY <2>1
      <4> QED
        BY <4>2, <4>3
    <3>2. from[i - 1] = start[i - 1] /\ lines[i - 1] = out[i - 1] /\ from[i - 1] <= (i - 1) + 1
      BY <2>5
    <3>3. from[i - 1] \in Nat \ {0}
      BY <2>3, <3>1
    <3>4. SubSeq(t, start[i - 1], i - 1) = SubSeq(s, from[i - 1], i - 1)
      BY <2>2, <3>1, <3>2, <3>3
    <3>5. from[i] = start[i] /\ from[i] <= i + 1
      <4>1. from[i] = IF s[i] = Feed THEN i + 1 ELSE from[i - 1]
        BY <2>b
      <4>2. start[i] = IF s[i] = Feed THEN i + 1 ELSE start[i - 1]
        BY <2>d, <3>1
      <4>0. n \in Nat
        BY <2>1
      <4>3. i \in Nat /\ (i - 1) + 1 = i /\ i <= i + 1
        BY ONLY <4>0, i \in 1 .. n
      <4>4. from[i - 1] <= i + 1
        BY <3>2, <3>3, <4>3
      <4>5. CASE s[i] = Feed
        BY <4>1, <4>2, <4>3, <4>5
      <4>6. CASE s[i] # Feed
        BY <3>2, <4>1, <4>2, <4>4, <4>6
      <4> QED
        BY <4>5, <4>6
    <3>6. lines[i] = out[i]
      BY <2>c, <2>e, <3>1, <3>2, <3>4
    <3> QED
      BY <3>1, <3>5, <3>6
  <2>6. n \in Same
    <3>0. 0 \in 0 .. n /\ 1 <= 0 + 1 /\ Same \in SUBSET (0 .. n)
      BY <2>1
    <3>1. 0 \in Same /\ Same \in SUBSET (0 .. n)
      BY <2>a, <3>0
    <3>2. \A i \in 1 .. n : i - 1 \in Same => i \in Same
      BY <2>5
    <3> HIDE DEF Same
    <3>3. Same = 0 .. n
      BY <2>1, <3>1, <3>2, CountingUp
    <3> QED
      BY <2>1, <3>3
  <2>7. /\ from[n] = start[n] /\ lines[n] = out[n] /\ from[n] \in 1 .. n + 1
        /\ lines[n] \in Seq(Seq(Bytes)) /\ n \in 0 .. n /\ n + 1 \in 1 .. Len(t) /\ (n + 1) - 1 = n
    <3>1. n \in 0 .. n /\ n + 1 \in 1 .. Len(t) /\ (n + 1) - 1 = n
      BY <2>1
    <3>2. from[n] \in Nat \ {0} /\ lines[n] \in Seq(Seq(Bytes))
      BY <3>1
    <3>3. from[n] = start[n] /\ lines[n] = out[n] /\ from[n] <= n + 1
      BY <2>6
    <3>4. from[n] \in 1 .. n + 1
      BY <2>1, <3>2, <3>3
    <3> QED
      BY <3>1, <3>2, <3>3, <3>4
  <2>8. Drain(s).lines = lines[n] /\ Drain(s).left = SubSeq(s, from[n], n)
        /\ Drain(s).left \in Seq(Bytes)
    <3>1. from[n] \in Nat \ {0}
      BY <2>7
    <3>2. SubSeq(s, from[n], n) \in Seq(Bytes)
      BY <2>2, <2>7, <3>1
    <3> DEFINE a == lines[n]
               c == SubSeq(s, from[n], n)
    <3>3. Drain(s) = [lines |-> a, left |-> c]
      BY <2>f
    <3> HIDE DEF a, c
    <3>4. Drain(s).lines = a /\ Drain(s).left = c
      BY <3>3
    <3> QED
      BY <3>2, <3>4 DEF a, c
  <2>9. Drain(s) \in ReadSoFar
    BY <2>f, <2>7, <2>8 DEF ReadSoFar
  <2>10. /\ start[n + 1] = IF b = Feed THEN n + 2 ELSE start[n]
         /\ out[n + 1] = IF b = Feed THEN out[n] \o Finished(SubSeq(t, start[n], n)) ELSE out[n]
    BY <2>1, <2>7, <2>d, <2>e
  <2>11. SubSeq(t, start[n], n) = Drain(s).left
    BY <2>2, <2>7, <2>8
  <2>12. CASE b = Feed
    <3>1. SubSeq(t, n + 2, n + 1) = <<>>
      BY <2>1
    <3> QED
      BY <2>1, <2>f, <2>7, <2>8, <2>9, <2>10, <2>11, <2>12, <3>1 DEF Fed, t
  <2>13. CASE b # Feed
    <3>1. SubSeq(t, start[n], n + 1) = Append(Drain(s).left, b)
      BY <2>2, <2>7, <2>8
    <3> QED
      BY <2>1, <2>f, <2>7, <2>8, <2>9, <2>10, <2>13, <3>1 DEF Fed, t
  <2> QED
    BY <2>12, <2>13
<1> QED
  BY <1>1, <1>2

(* What is left has no line feed, and drained again gives nothing.         *)
LEMMA LeftHasNoFeed ==
  \A s \in Seq(Bytes) : \A i \in 1 .. Len(Drain(s).left) : Drain(s).left[i] # Feed
<1> DEFINE NoFeedLeft(s) == \A i \in 1 .. Len(Drain(s).left) : Drain(s).left[i] # Feed
           Good == {s \in Seq(Bytes) : NoFeedLeft(s)}
<1>1. <<>> \in Good
  BY DrainGrows
<1>2. ASSUME NEW s \in Good, NEW b \in Bytes PROVE Append(s, b) \in Good
  <2>1. /\ s \in Seq(Bytes) /\ Append(s, b) \in Seq(Bytes)
        /\ \A i \in 1 .. Len(Drain(s).left) : Drain(s).left[i] # Feed
    OBVIOUS
  <2>2. Drain(s) \in ReadSoFar /\ Drain(Append(s, b)) = Fed(Drain(s), b)
    BY <2>1, DrainGrows
  <2> DEFINE l == Drain(s).left
  <2>3. l \in Seq(Bytes)
    BY <2>2 DEF ReadSoFar
  <2>4. CASE b = Feed
    BY <2>1, <2>2, <2>4 DEF Fed
  <2>5. CASE b # Feed
    <3>1. Drain(Append(s, b)).left = Append(l, b)
      BY <2>2, <2>5 DEF Fed
    <3> HIDE DEF l
    <3>2. /\ Append(l, b) \in Seq(Bytes) /\ Len(l) \in Nat /\ Len(Append(l, b)) = Len(l) + 1
          /\ Append(l, b)[Len(l) + 1] = b /\ \A i \in 1 .. Len(l) : Append(l, b)[i] = l[i]
      BY <2>3, AppendedTo
    <3>3. \A i \in 1 .. Len(Append(l, b)) : Append(l, b)[i] # Feed
      <4>1. \A i \in 1 .. Len(l) : l[i] # Feed
        BY <2>1 DEF l
      <4> QED
        BY <2>5, <3>2, <4>1
    <3> QED
      BY <2>1, <3>1, <3>3
  <2> QED
    BY <2>4, <2>5
<1>3. Good = Seq(Bytes)
  <2>1. Good \in SUBSET Seq(Bytes)
    OBVIOUS
  <2> HIDE DEF Good
  <2> QED
    BY <1>1, <1>2, <2>1, GrowingUp
<1> QED
  BY <1>3

LEMMA NothingToDrain ==
  \A s \in Seq(Bytes) :
    (\A i \in 1 .. Len(s) : s[i] # Feed) => Drain(s) = [lines |-> <<>>, left |-> s]
<1> DEFINE None(s) == \A i \in 1 .. Len(s) : s[i] # Feed
           Good == {s \in Seq(Bytes) : None(s) => Drain(s) = [lines |-> <<>>, left |-> s]}
<1>1. <<>> \in Good
  BY DrainGrows
<1>2. ASSUME NEW s \in Good, NEW b \in Bytes PROVE Append(s, b) \in Good
  <2> DEFINE t == Append(s, b)
  <2>1. /\ t \in Seq(Bytes) /\ Len(s) \in Nat /\ Len(t) = Len(s) + 1 /\ t[Len(s) + 1] = b
        /\ \A i \in 1 .. Len(s) : t[i] = s[i]
    BY AppendedTo
  <2>2. Drain(t) = Fed(Drain(s), b)
    BY DrainGrows
  <2> HIDE DEF t
  <2>3. ASSUME None(t) PROVE Drain(t) = [lines |-> <<>>, left |-> t]
    <3>1. b # Feed /\ None(s)
      BY <2>1, <2>3
    <3>2. Drain(s) = [lines |-> <<>>, left |-> s]
      BY <3>1
    <3> QED
      BY <2>2, <3>1, <3>2 DEF Fed, t
  <2> HIDE DEF None
  <2> QED
    BY <2>1, <2>3 DEF t
<1>3. Good = Seq(Bytes)
  <2>1. Good \in SUBSET Seq(Bytes)
    OBVIOUS
  <2> HIDE DEF Good
  <2> QED
    BY <1>1, <1>2, <2>1, GrowingUp
<1> QED
  BY <1>3

LEMMA DrainedTwice ==
  ASSUME NEW s \in Seq(Bytes)
  PROVE  Drain(Drain(s).left) = [lines |-> <<>>, left |-> Drain(s).left]
<1> DEFINE l == Drain(s).left
<1>1. l \in Seq(Bytes)
  <2>1. Feed \in Bytes
    BY DEF Bytes
  <2> QED
    BY <2>1, DrainGrows DEF ReadSoFar
<1>2. \A i \in 1 .. Len(l) : l[i] # Feed
  BY LeftHasNoFeed
<1> HIDE DEF l
<1>3. Drain(l) = [lines |-> <<>>, left |-> l]
  BY <1>1, <1>2, NothingToDrain
<1> QED
  BY <1>3 DEF l

LEMMA BothInPieces ==
  ASSUME NEW out \in Seq(Seq(Bytes)), NEW more \in Seq(Seq(Bytes))
  PROVE  /\ out \o more \in Seq(Seq(Bytes))
         /\ Letters(Joined(out)) \in Seq(Bytes) /\ Letters(Joined(more)) \in Seq(Bytes)
         /\ Letters(Joined(out \o more)) = Letters(Joined(out)) \o Letters(Joined(more))
<1>1. Joined(out) \in Seq(Bytes) /\ Joined(more) \in Seq(Bytes)
  BY JoinedGrow
<1>2. Letters(Joined(out)) \in Seq(Bytes) /\ Letters(Joined(more)) \in Seq(Bytes)
  BY <1>1, LettersGrow
<1>3. Joined(out \o more) = Joined(out) \o Joined(more)
  BY JoinedOfBoth
<1>4. Letters(Joined(out) \o Joined(more)) = Letters(Joined(out)) \o Letters(Joined(more))
  BY <1>1, LettersOfBoth
<1>5. out \o more \in Seq(Seq(Bytes))
  OBVIOUS
<1> QED
  BY <1>2, <1>3, <1>4, <1>5

(* drain_lines takes whole lines off a text, and no letter of one is lost. *)
Drained(s, u) ==
  /\ s = u \o Drain(s).left
  /\ Letters(Joined(Drain(s).lines)) = Letters(Lossy(u))
  /\ u = <<>> \/ u[Len(u)] = Feed

LEMMA DrainParts == \A s \in Seq(Bytes) : \E u \in Seq(Bytes) : Drained(s, u)
<1> DEFINE Good == {s \in Seq(Bytes) : \E u \in Seq(Bytes) : Drained(s, u)}
<1>0. Lossy(<<>>) = <<>> /\ Letters(<<>>) = <<>> /\ Joined(<<>>) = <<>> /\ <<>> \in Seq(Bytes)
  <2>1. <<>> \in Seq(Bytes)
    OBVIOUS
  <2>2. Lossy(<<>>) \in Seq(Bytes) /\ Len(Lossy(<<>>)) = Len(<<>>)
    BY <2>1, LossyIs DEF Lossy
  <2>3. Lossy(<<>>) = <<>>
    BY <2>2
  <2> QED
    BY <2>1, <2>3, JoinedGrow, LettersGrow
<1>1. <<>> \in Good
  <2>1. Drain(<<>>).lines = <<>> /\ Drain(<<>>).left = <<>>
    BY DrainGrows
  <2>2. Drained(<<>>, <<>>)
    BY <1>0, <2>1 DEF Drained
  <2> QED
    BY <1>0, <2>2
<1>2. ASSUME NEW s \in Good, NEW b \in Bytes PROVE Append(s, b) \in Good
  <2> DEFINE out == Drain(s).lines
             l   == Drain(s).left
             t   == Append(s, b)
  <2>1. out \in Seq(Seq(Bytes)) /\ l \in Seq(Bytes) /\ s \in Seq(Bytes) /\ t \in Seq(Bytes)
    BY DrainGrows DEF ReadSoFar
  <2>2. Drain(t) = IF b = Feed THEN [lines |-> out \o Finished(l), left |-> <<>>]
                   ELSE [lines |-> out, left |-> Append(l, b)]
    BY DrainGrows DEF Fed
  <2>3. PICK u \in Seq(Bytes) : Drained(s, u)
    OBVIOUS
  <2>4. /\ s = u \o l /\ Letters(Joined(out)) = Letters(Lossy(u))
        /\ u = <<>> \/ u[Len(u)] = Feed
    BY <2>3 DEF Drained
  <2> HIDE DEF out, l
  <2>5. t = u \o Append(l, b) /\ Append(l, b) \in Seq(Bytes)
    <3>1. Append(u \o l, b) = u \o Append(l, b) /\ Append(l, b) \in Seq(Bytes)
      BY <2>1, JoinedTo
    <3> QED
      BY <2>4, <3>1
  <2> HIDE DEF t
  <2>6. CASE b = Feed
    <3> DEFINE f == <<Feed>>
    <3>1. /\ f \in Seq(Bytes) /\ Len(f) = 1 /\ f[1] = Feed /\ Append(l, b) = l \o f /\ Feed # Trail
          /\ f # <<>>
      BY <2>1, <2>6 DEF Bytes, Feed, Trail
    <3> HIDE DEF f
    <3>2. Lossy(f) \in Seq(Bytes) /\ Letters(Lossy(f)) = <<>>
      <4>1. /\ Lossy(f) \in Seq(Bytes) /\ Len(Lossy(f)) = 1
            /\ \A i \in 1 .. 1 : Lossy(f)[i] = ByteOf(f, {}, i)
        BY <3>1, LossyIs DEF Lossy
      <4>2. \A i \in 1 .. Len(Lossy(f)) : Lossy(f)[i] \notin Visible
        BY <3>1, <4>1 DEF ByteOf, Visible, Feed, Lead, Trail, Letter, Lost
      <4> QED
        BY <4>1, <4>2, NoLetters
    <3>3. Lossy(l \o f) = Lossy(l) \o Lossy(f)
      <4>1. Apart(l, f, {})
        BY <3>1 DEF Apart
      <4>2. {} \in SUBSET (1 .. Len(l))
        OBVIOUS
      <4> QED
        BY <2>1, <3>1, <4>1, <4>2, LossyOfBoth DEF Lossy
    <3>4. Lossy(u \o (l \o f)) = Lossy(u) \o Lossy(l \o f)
      <4>1. Apart(u, l \o f, {})
        BY <2>4, <3>1 DEF Apart, Feed, Lead
      <4>2. {} \in SUBSET (1 .. Len(u)) /\ l \o f \in Seq(Bytes)
        BY <2>1, <3>1
      <4> QED
        BY <4>1, <4>2, LossyOfBoth DEF Lossy
    <3>5. /\ Lossy(u) \in Seq(Bytes) /\ Lossy(l) \in Seq(Bytes)
          /\ Finished(l) \in Seq(Seq(Bytes)) /\ Letters(Joined(Finished(l))) = Letters(Lossy(l))
      BY <2>1, LettersOfLine
    <3>6. Letters(Lossy(t)) = Letters(Lossy(u)) \o Letters(Lossy(l))
      <4> DEFINE x == Lossy(u)
                 y == Lossy(l)
                 z == Lossy(f)
      <4>1. x \in Seq(Bytes) /\ y \in Seq(Bytes) /\ z \in Seq(Bytes) /\ Letters(z) = <<>>
        BY <3>2, <3>5
      <4>2. Lossy(t) = x \o (y \o z)
        BY <2>5, <3>1, <3>3, <3>4
      <4> HIDE DEF x, y, z
      <4>3. y \o z \in Seq(Bytes)
        BY <4>1
      <4>4. Letters(x \o (y \o z)) = Letters(x) \o Letters(y \o z)
        BY <4>1, <4>3, LettersOfBoth
      <4>5. Letters(y \o z) = Letters(y) \o Letters(z)
        BY <4>1, LettersOfBoth
      <4>6. Letters(y) \in Seq(Bytes)
        BY <4>1, LettersGrow
      <4>7. Letters(y) \o <<>> = Letters(y)
        BY <4>6
      <4>8. Letters(Lossy(t)) = Letters(x) \o Letters(y)
        BY <4>1, <4>2, <4>4, <4>5, <4>7
      <4> QED
        BY <4>8 DEF x, y
    <3>7. Letters(Joined(out \o Finished(l))) = Letters(Lossy(t))
      BY <2>1, <2>4, <3>5, <3>6, BothInPieces
    <3>8. Drain(t).lines = out \o Finished(l) /\ Drain(t).left = <<>> /\ t = t \o <<>>
      BY <2>1, <2>2, <2>6
    <3>9. t[Len(t)] = Feed
      BY <2>1, <2>6 DEF t
    <3>10. Drained(t, t)
      BY <3>7, <3>8, <3>9 DEF Drained
    <3> QED
      BY <2>1, <3>10 DEF t
  <2>7. CASE b # Feed
    <3>1. Drain(t).lines = out /\ Drain(t).left = Append(l, b)
      BY <2>2, <2>7
    <3>2. Drained(t, u)
      BY <2>4, <2>5, <3>1 DEF Drained
    <3> QED
      BY <2>1, <3>2 DEF t
  <2> QED
    BY <2>6, <2>7
<1>3. Good = Seq(Bytes)
  <2>1. Good \in SUBSET Seq(Bytes)
    OBVIOUS
  <2> HIDE DEF Good
  <2> QED
    BY <1>1, <1>2, <2>1, GrowingUp
<1> QED
  BY <1>3

-----------------------------------------------------------------------------
(* spawn_pipe_reader, byte by byte: what it has after b, which may or may  *)
(* not be the last of a read.                                              *)
Reading(before, b, ends) ==
  LET read == Drain(Append(before.left, b))
  IN IF ~ ends THEN [before EXCEPT !.left = Append(@, b)]
     ELSE IF Len(read.left) > Limit
          THEN [lines |-> before.lines \o read.lines \o Unfinished(read.left), left |-> <<>>]
          ELSE [read EXCEPT !.lines = before.lines \o @]

LEMMA ReadingTypes ==
  ASSUME NEW read \in ReadSoFar, NEW b \in Bytes, NEW ends
  PROVE  Reading(read, b, ends) \in ReadSoFar
<1> DEFINE d == Drain(Append(read.left, b))
<1>1. read.lines \in Seq(Seq(Bytes)) /\ Append(read.left, b) \in Seq(Bytes)
  BY DEF ReadSoFar
<1>2. d \in ReadSoFar
  BY <1>1, DrainGrows
<1>3. Reading(read, b, ends) =
        IF ~ ends THEN [read EXCEPT !.left = Append(@, b)]
        ELSE IF Len(d.left) > Limit
             THEN [lines |-> read.lines \o d.lines \o Unfinished(d.left), left |-> <<>>]
             ELSE [d EXCEPT !.lines = read.lines \o @]
  BY DEF Reading
<1> HIDE DEF d
<1>4. d.lines \in Seq(Seq(Bytes)) /\ d.left \in Seq(Bytes) /\ Unfinished(d.left) \in Seq(Seq(Bytes))
  BY <1>2, LettersOfLine DEF ReadSoFar
<1>5. [read EXCEPT !.left = Append(@, b)] \in ReadSoFar
  BY <1>1 DEF ReadSoFar
<1>6. [lines |-> read.lines \o d.lines \o Unfinished(d.left), left |-> <<>>] \in ReadSoFar
  <2>1. read.lines \o d.lines \o Unfinished(d.left) \in Seq(Seq(Bytes)) /\ <<>> \in Seq(Bytes)
    BY <1>1, <1>4
  <2> QED
    BY <2>1 DEF ReadSoFar
<1>7. [d EXCEPT !.lines = read.lines \o @] \in ReadSoFar
  <2>1. read.lines \o d.lines \in Seq(Seq(Bytes))
    BY <1>1, <1>4
  <2> QED
    BY <1>2, <2>1 DEF ReadSoFar
<1> QED
  BY <1>3, <1>5, <1>6, <1>7

LEMMA EmittedIs ==
  ASSUME NEW text \in Seq(Bytes), NEW Ends
  PROVE  \E reader \in [0 .. Len(text) -> ReadSoFar] :
            /\ reader[0] = [lines |-> <<>>, left |-> <<>>]
            /\ \A i \in 1 .. Len(text) : reader[i] = Reading(reader[i - 1], text[i], i \in Ends)
            /\ Emitted(text, Ends) = reader[Len(text)].lines \o Unfinished(reader[Len(text)].left)
<1> DEFINE n == Len(text)
           S == ReadSoFar
           a == [lines |-> <<>>, left |-> <<>>]
           On(i, x) == LET before == x
                           read   == Drain(Append(before.left, text[i]))
                       IN IF i \notin Ends
                          THEN [before EXCEPT !.left = Append(@, text[i])]
                          ELSE IF Len(read.left) > Limit
                               THEN [lines |-> before.lines \o read.lines \o Unfinished(read.left),
                                     left |-> <<>>]
                               ELSE [read EXCEPT !.lines = before.lines \o @]
           step == [y \in (1 .. n) \X S |-> On(y[1], y[2])]
           Is(g) == g = [i \in 0 .. n |-> IF i = 0 THEN a ELSE On(i, g[i - 1])]
<1>1. n \in Nat /\ a \in S /\ \A i \in 1 .. n : text[i] \in Bytes
  BY DEF ReadSoFar
<1>2. \A i, x : On(i, x) = Reading(x, text[i], i \in Ends)
  BY DEF Reading
<1>3. \A i \in 1 .. n, x \in S : step[<<i, x>>] = On(i, x)
  OBVIOUS
<1> HIDE DEF On, step, S, n, a
<1>4. \A i \in 1 .. n, x \in S : On(i, x) \in S
  BY <1>1, <1>2, ReadingTypes DEF S
<1>5. PICK f : Follows(f, step, n, S, a)
  BY <1>1, <1>3, <1>4, RecursionExists DEF StaysIn
<1>6. Is(f)
  <2>1. f \in [0 .. n -> S] /\ f[0] = a /\ \A i \in 1 .. n : f[i] = step[<<i, f[i - 1]>>]
    BY <1>5 DEF Follows
  <2>2. \A i \in 1 .. n : f[i - 1] \in S
    BY <1>1, <2>1
  <2>3. \A i \in 1 .. n : f[i] = On(i, f[i - 1])
    BY <1>3, <2>1, <2>2
  <2> QED
    BY <1>1, <2>1, <2>3
<1> DEFINE reader == CHOOSE g : Is(g)
<1>7. Is(reader)
  <2> HIDE DEF Is
  <2> QED
    BY <1>6
<1>8. Emitted(text, Ends) = reader[n].lines \o Unfinished(reader[n].left)
  BY DEF Emitted, On, n, a
<1> HIDE DEF reader
<1>9. reader[0] = a /\ \A i \in 1 .. n : reader[i] = On(i, reader[i - 1])
  BY <1>1, <1>7
<1> reader \in [0 .. Len(text) -> ReadSoFar]
  <2>1. \A i \in 1 .. n : reader[i - 1] \in S => reader[i] \in S
    BY <1>4, <1>9
  <2>2. reader[0] \in S /\ reader = [i \in 0 .. n |-> reader[i]]
    BY <1>1, <1>7, <1>9
  <2>3. reader \in [0 .. n -> S]
    BY <1>1, <2>1, <2>2, RecursionStays
  <2> QED
    BY <2>3 DEF S, n
<1> WITNESS reader \in [0 .. Len(text) -> ReadSoFar]
<1> QED
  BY <1>2, <1>8, <1>9 DEF n, a

(* The reader has lost no letter of what it read, but for a character that *)
(* goes across the end of a read at which its line exceeded the limit.     *)
Border(done, Cuts) == done = <<>> \/ Len(done) \in Cuts \/ done[Len(done)] # Lead

Has(read, done, Cuts, sofar) ==
  /\ Cuts \subseteq 1 .. Len(done)
  /\ Border(done, Cuts)
  /\ sofar = done \o read.left
  /\ Letters(Joined(read.lines)) = Letters(LossyAt(done, Cuts))

StillHas(read, Cuts, sofar, ends) ==
  \E d \in Seq(Bytes), C \in SUBSET (1 .. Len(sofar)) :
     /\ Has(read, d, C, sofar)
     /\ \/ C = Cuts
        \/ /\ ends /\ C = Cuts \cup {Len(sofar)}
           /\ Len(sofar) > Limit
           /\ \A j \in Len(sofar) - Limit .. Len(sofar) : sofar[j] # Feed

LEMMA ReadingHas ==
  ASSUME NEW read \in ReadSoFar, NEW b \in Bytes, NEW ends \in BOOLEAN,
         NEW done \in Seq(Bytes), NEW Cuts, NEW sofar, Has(read, done, Cuts, sofar),
         NEW next, next = Append(sofar, b), NEW r, r = Reading(read, b, ends)
  PROVE  StillHas(r, Cuts, next, ends)
<1> DEFINE pend == Append(read.left, b)
           dr   == Drain(pend)
           ls   == read.lines
           dl   == dr.lines
           df   == dr.left
           a    == LossyAt(done, Cuts)
<1>1. ls \in Seq(Seq(Bytes)) /\ read.left \in Seq(Bytes) /\ pend \in Seq(Bytes) /\ read \in ReadSoFar
  BY DEF ReadSoFar
<1>2. /\ Cuts \in SUBSET (1 .. Len(done)) /\ Border(done, Cuts)
      /\ sofar = done \o read.left
      /\ Letters(Joined(ls)) = Letters(a)
  BY DEF Has
<1>3. next = done \o pend /\ next \in Seq(Bytes) /\ Len(next) = Len(done) + Len(pend)
      /\ Len(done) \in Nat /\ Len(pend) \in Nat
  <2> DEFINE l == read.left
  <2>1. l \in Seq(Bytes)
    BY <1>1
  <2> HIDE DEF l
  <2>2. Append(done \o l, b) = done \o Append(l, b)
    BY <2>1, JoinedTo
  <2>3. done \o Append(l, b) \in Seq(Bytes) /\ Len(done \o Append(l, b)) = Len(done) + Len(Append(l, b))
    BY <2>1
  <2>4. Len(done) \in Nat /\ Len(Append(l, b)) \in Nat
    BY <2>1
  <2>5. next = done \o Append(l, b)
    BY <1>2, <2>2 DEF l
  <2> QED
    BY <2>3, <2>4, <2>5 DEF l
<1>4. dr \in ReadSoFar /\ dl \in Seq(Seq(Bytes)) /\ df \in Seq(Bytes)
  BY <1>1, DrainGrows DEF ReadSoFar
<1>5. \A j \in 1 .. Len(df) : df[j] # Feed
  BY <1>1, LeftHasNoFeed
<1>6. r = IF ~ ends THEN [read EXCEPT !.left = pend]
          ELSE IF Len(df) > Limit
               THEN [lines |-> ls \o dl \o Unfinished(df), left |-> <<>>]
               ELSE [dr EXCEPT !.lines = ls \o @]
  BY DEF Reading
<1>7. PICK u \in Seq(Bytes) : Drained(pend, u)
  BY <1>1, DrainParts
<1>8. pend = u \o df /\ Letters(Joined(dl)) = Letters(Lossy(u)) /\ (u = <<>> \/ u[Len(u)] = Feed)
  BY <1>7 DEF Drained
<1>9. a \in Seq(Bytes) /\ Len(a) = Len(done) /\ Lossy(u) \in Seq(Bytes) /\ Lossy(df) \in Seq(Bytes)
  BY <1>4, LossyIs DEF Lossy
<1>10. /\ Unfinished(df) \in Seq(Seq(Bytes)) /\ Letters(Joined(Unfinished(df))) = Letters(Lossy(df))
  BY <1>4, LettersOfLine
<1> DEFINE whole == done \o u
<1>11. /\ whole \in Seq(Bytes) /\ next = whole \o df /\ Len(whole) = Len(done) + Len(u)
       /\ Len(u) \in Nat /\ Len(df) \in Nat /\ Len(next) = Len(whole) + Len(df)
       /\ Cuts \in SUBSET (1 .. Len(whole)) /\ Cuts \in SUBSET (1 .. Len(next))
  <2> HIDE DEF pend, dr, dl, df
  <2>1. done \o (u \o df) = (done \o u) \o df
    BY <1>4
  <2>2. Len(u) \in Nat /\ Len(df) \in Nat /\ whole \in Seq(Bytes) /\ Len(whole) = Len(done) + Len(u)
    BY <1>4
  <2>3. next = whole \o df
    BY <1>3, <1>8, <2>1
  <2>4. Len(next) = Len(whole) + Len(df)
    BY <1>4, <2>2, <2>3
  <2> HIDE DEF whole
  <2>5. Cuts \in SUBSET (1 .. Len(whole)) /\ Cuts \in SUBSET (1 .. Len(next))
    <3>1. Len(done) <= Len(whole) /\ Len(done) <= Len(next)
      BY <1>3, <2>2, <2>4
    <3>2. 1 .. Len(done) \subseteq 1 .. Len(whole) /\ 1 .. Len(done) \subseteq 1 .. Len(next)
      BY <1>3, <2>2, <2>4, <3>1
    <3> QED
      BY <1>2, <3>2
  <2> QED
    BY <2>2, <2>3, <2>4, <2>5
<1> HIDE DEF pend, dr, ls, dl, df
<1>12. Border(whole, Cuts)
  <2>1. CASE u = <<>>
    <3>1. whole = done
      BY <2>1
    <3> HIDE DEF whole
    <3> QED
      BY <1>2, <3>1
  <2>2. CASE u # <<>>
    <3>1. whole[Len(whole)] = u[Len(u)] /\ u[Len(u)] = Feed /\ Feed # Lead
      BY <1>8, <2>2 DEF Feed, Lead
    <3> QED
      BY <3>1 DEF Border
  <2> QED
    BY <2>1, <2>2
<1>13. LossyAt(whole, Cuts) = a \o Lossy(u)
  <2>1. Apart(done, u, Cuts)
    BY <1>2 DEF Apart, Border
  <2> QED
    BY <1>2, <2>1, LossyOfBoth
<1>14. LossyAt(next, Cuts) = LossyAt(whole, Cuts) \o Lossy(df)
  <2> HIDE DEF whole
  <2>1. Apart(whole, df, Cuts)
    BY <1>12 DEF Apart, Border
  <2> QED
    BY <1>4, <1>11, <2>1, LossyOfBoth
<1>15. Letters(Joined(ls \o dl)) = Letters(LossyAt(whole, Cuts)) /\ ls \o dl \in Seq(Seq(Bytes))
  <2> HIDE DEF whole, a
  <2>1. Letters(Joined(ls \o dl)) = Letters(Joined(ls)) \o Letters(Joined(dl))
    BY <1>1, <1>4, BothInPieces
  <2>2. Letters(LossyAt(whole, Cuts)) = Letters(a) \o Letters(Lossy(u))
    BY <1>9, <1>13, LettersOfBoth
  <2>3. ls \o dl \in Seq(Seq(Bytes))
    BY <1>1, <1>4
  <2> QED
    BY <1>2, <1>8, <2>1, <2>2, <2>3
<1> HIDE DEF a
<1>16. CASE ~ ends
  <2>1. r.lines = ls /\ r.left = pend
    <3>1. r = [read EXCEPT !.left = pend]
      BY <1>6, <1>16
    <3> QED
      BY <1>1, <3>1 DEF ReadSoFar, ls
  <2>2. Has(r, done, Cuts, next)
    BY <1>2, <1>3, <2>1 DEF Has, a
  <2> QED
    BY <1>11, <2>2 DEF StillHas
<1>17. CASE ends /\ Len(df) > Limit
  <2> DEFINE C == Cuts \cup {Len(next)}
  <2>1. r = [lines |-> ls \o dl \o Unfinished(df), left |-> <<>>]
    BY <1>6, <1>17
  <2>2. r.lines = (ls \o dl) \o Unfinished(df) /\ r.left = <<>>
    BY <2>1
  <2>3. Limit \in Nat \ {0} /\ Len(next) > Limit /\ Len(next) \in Nat /\ Len(whole) \in Nat
    BY <1>11, <1>17, BytesAssumption
  <2>4. \A j \in Len(next) - Limit .. Len(next) : next[j] # Feed
    <3> SUFFICES ASSUME NEW j \in Len(next) - Limit .. Len(next) PROVE next[j] # Feed
      OBVIOUS
    <3> HIDE DEF whole
    <3>1. j - Len(whole) \in 1 .. Len(df) /\ j = Len(whole) + (j - Len(whole))
      BY <1>11, <1>17, <2>3
    <3>2. next[Len(whole) + (j - Len(whole))] = df[j - Len(whole)]
      BY <1>4, <1>11, <3>1
    <3> QED
      BY <1>5, <3>1, <3>2
  <2>5. Letters(Joined(r.lines)) = Letters(LossyAt(next, C))
    <3>1. LossyAt(next, C) = LossyAt(next, Cuts)
      BY <1>3, CutAtTheEnd
    <3>2. LossyAt(whole, Cuts) \in Seq(Bytes)
      BY <1>11, LossyIs
    <3>3. Letters(LossyAt(next, Cuts)) = Letters(LossyAt(whole, Cuts)) \o Letters(Lossy(df))
      BY <1>9, <1>14, <3>2, LettersOfBoth
    <3>4. Letters(Joined((ls \o dl) \o Unfinished(df)))
            = Letters(Joined(ls \o dl)) \o Letters(Joined(Unfinished(df)))
      BY <1>10, <1>15, BothInPieces
    <3> HIDE DEF whole, C
    <3> QED
      BY <1>10, <1>15, <2>2, <3>1, <3>3, <3>4
  <2>6. C \in SUBSET (1 .. Len(next)) /\ Len(next) \in C
    <3> HIDE DEF whole
    <3>1. Len(next) \in 1 .. Len(next)
      BY <2>3
    <3> QED
      BY <1>11, <3>1
  <2>7. next = next \o <<>>
    BY <1>3
  <2>8. Has(r, next, C, next)
    <3> HIDE DEF C
    <3> QED
      BY <2>2, <2>5, <2>6, <2>7 DEF Has, Border
  <2> QED
    BY <1>3, <1>17, <2>3, <2>4, <2>6, <2>8 DEF StillHas
<1>18. CASE ends /\ ~ (Len(df) > Limit)
  <2>1. r.lines = ls \o dl /\ r.left = df
    <3>1. r = [dr EXCEPT !.lines = ls \o @]
      BY <1>6, <1>18
    <3> QED
      BY <1>4, <3>1 DEF ReadSoFar, dl, df
  <2>2. Has(r, whole, Cuts, next)
    <3> HIDE DEF whole
    <3> QED
      BY <1>11, <1>12, <1>15, <2>1 DEF Has
  <2> QED
    BY <1>11, <2>2 DEF StillHas
<1> QED
  BY <1>16, <1>17, <1>18

LEMMA NoLetterIsLost ==
  ASSUME NEW text \in Seq(Bytes), NEW Ends
  PROVE  \E broken \in SUBSET {i \in Ends : Exceeds(text, i)} :
           Letters(Joined(Emitted(text, Ends))) = Letters(LossyAt(text, broken))
<1> DEFINE n == Len(text)
           May == {i \in Ends : Exceeds(text, i)}
<1>1. /\ n \in Nat /\ First(text, 0) = <<>> /\ First(text, n) = text
      /\ \A i \in 0 .. n : First(text, i) \in Seq(Bytes) /\ Len(First(text, i)) = i
      /\ \A i \in 1 .. n : text[i] \in Bytes /\ First(text, i) = Append(First(text, i - 1), text[i])
  BY FirstOnes
<1>2. \A i \in 0 .. n : \A j \in 1 .. i : First(text, i)[j] = text[j]
  BY <1>1 DEF First
<1> HIDE DEF n
<1>3. PICK reader \in [0 .. n -> ReadSoFar] :
        /\ reader[0] = [lines |-> <<>>, left |-> <<>>]
        /\ \A i \in 1 .. n : reader[i] = Reading(reader[i - 1], text[i], i \in Ends)
        /\ Emitted(text, Ends) = reader[n].lines \o Unfinished(reader[n].left)
  BY EmittedIs DEF n
<1> DEFINE Kept == {i \in 0 .. n : \E done \in Seq(Bytes), C \in SUBSET May :
                                      Has(reader[i], done, C, First(text, i))}
<1>4. 0 \in Kept
  <2>1. <<>> \in Seq(Bytes) /\ Len(<<>>) = 0 /\ <<>> \o <<>> = <<>> /\ 0 \in 0 .. n /\ {} \in SUBSET May
    BY <1>1
  <2>2. LossyAt(<<>>, {}) \in Seq(Bytes) /\ Len(LossyAt(<<>>, {})) = 0
    BY <2>1, LossyIs
  <2>3. LossyAt(<<>>, {}) = <<>>
    BY <2>2
  <2>4. Joined(<<>>) = <<>> /\ reader[0].lines = <<>> /\ reader[0].left = <<>>
    BY <1>3, JoinedGrow
  <2>5. Has(reader[0], <<>>, {}, First(text, 0))
    BY <1>1, <2>1, <2>3, <2>4 DEF Has, Border
  <2> HIDE DEF May
  <2> QED
    BY <2>1, <2>5
<1>5. ASSUME NEW i \in 1 .. n, i - 1 \in Kept PROVE i \in Kept
  <2>1. i - 1 \in 0 .. n /\ i \in 0 .. n /\ text[i] \in Bytes /\ i \in Nat
    BY <1>1
  <2> DEFINE r == reader[i - 1]
             b == text[i]
             u == First(text, i - 1)
             v == First(text, i)
  <2>2. r \in ReadSoFar /\ b \in Bytes /\ reader[i] = Reading(r, b, i \in Ends) /\ v = Append(u, b) /\ Len(v) = i
    BY <1>1, <1>3, <2>1
  <2>3. PICK done \in Seq(Bytes), Cuts \in SUBSET May : Has(r, done, Cuts, u)
    BY <1>5
  <2>4. \A j \in 1 .. i : v[j] = text[j]
    BY <1>2, <2>1
  <2>e. (i \in Ends => reader[i] = Reading(r, b, TRUE)) /\ (i \notin Ends => reader[i] = Reading(r, b, FALSE))
    BY <2>2 DEF Reading
  <2> HIDE DEF r, b, u, v, May, Kept
  <2>5. PICK d \in Seq(Bytes), C \in SUBSET (1 .. Len(v)) :
          /\ Has(reader[i], d, C, v)
          /\ \/ C = Cuts
             \/ /\ i \in Ends /\ C = Cuts \cup {Len(v)}
                /\ Len(v) > Limit
                /\ \A j \in Len(v) - Limit .. Len(v) : v[j] # Feed
    <3>1. CASE i \in Ends
      <4>1. StillHas(reader[i], Cuts, v, TRUE)
        <5> DEFINE q == reader[i]
        <5>1. q = Reading(r, b, TRUE) /\ TRUE \in BOOLEAN
          BY <2>e, <3>1
        <5> HIDE DEF q
        <5>2. StillHas(q, Cuts, v, TRUE)
          BY <2>2, <2>3, <5>1, ReadingHas
        <5> QED
          BY <5>2 DEF q
      <4> QED
        BY <3>1, <4>1 DEF StillHas
    <3>2. CASE i \notin Ends
      <4>1. StillHas(reader[i], Cuts, v, FALSE)
        <5> DEFINE q == reader[i]
        <5>1. q = Reading(r, b, FALSE) /\ FALSE \in BOOLEAN
          BY <2>e, <3>2
        <5> HIDE DEF q
        <5>2. StillHas(q, Cuts, v, FALSE)
          BY <2>2, <2>3, <5>1, ReadingHas
        <5> QED
          BY <5>2 DEF q
      <4> QED
        BY <4>1 DEF StillHas
    <3> QED
      BY <3>1, <3>2
  <2>6. C \in SUBSET May
    <3>1. CASE C = Cuts
      BY <2>3, <3>1
    <3>2. CASE C # Cuts
      <4>1. i \in Ends /\ C = Cuts \cup {i} /\ i > Limit /\ \A j \in i - Limit .. i : v[j] # Feed
        BY <2>2, <2>5, <3>2
      <4>2. \A j \in i - Limit .. i : j \in 1 .. i
        BY <2>1, <4>1, BytesAssumption
      <4>3. Exceeds(text, i)
        BY <2>4, <4>1, <4>2 DEF Exceeds
      <4>4. i \in May
        BY <4>1, <4>3 DEF May
      <4> QED
        BY <2>3, <4>1, <4>4
    <3> QED
      BY <3>1, <3>2
  <2>7. Has(reader[i], d, C, First(text, i))
    BY <2>2, <2>5 DEF v
  <2> QED
    BY <2>1, <2>6, <2>7 DEF Kept
<1>6. n \in Kept
  <2>1. Kept \in SUBSET (0 .. n)
    OBVIOUS
  <2> HIDE DEF Kept
  <2>2. Kept = 0 .. n
    BY <1>1, <1>4, <1>5, <2>1, CountingUp
  <2> QED
    BY <1>1, <2>2
<1>7. PICK done \in Seq(Bytes), broken \in SUBSET May : Has(reader[n], done, broken, text)
  BY <1>1, <1>6
<1> DEFINE rest == reader[n].left
           lines == reader[n].lines
<1>8. reader[n] \in ReadSoFar
  BY <1>1
<1>9. rest \in Seq(Bytes) /\ lines \in Seq(Seq(Bytes)) /\ Emitted(text, Ends) = lines \o Unfinished(rest)
  BY <1>3, <1>8 DEF ReadSoFar
<1>10. /\ broken \in SUBSET (1 .. Len(done)) /\ Border(done, broken) /\ text = done \o rest
       /\ Letters(Joined(lines)) = Letters(LossyAt(done, broken))
  BY <1>7 DEF Has
<1> HIDE DEF rest, lines, May
<1>11. LossyAt(text, broken) = LossyAt(done, broken) \o Lossy(rest)
  <2>1. Apart(done, rest, broken)
    BY <1>10 DEF Apart, Border
  <2> QED
    BY <1>9, <1>10, <2>1, LossyOfBoth
<1>12. /\ Unfinished(rest) \in Seq(Seq(Bytes)) /\ Lossy(rest) \in Seq(Bytes)
       /\ Letters(Joined(Unfinished(rest))) = Letters(Lossy(rest))
  BY <1>9, LettersOfLine
<1>13. LossyAt(done, broken) \in Seq(Bytes)
  BY LossyIs
<1>14. Letters(LossyAt(text, broken)) = Letters(LossyAt(done, broken)) \o Letters(Lossy(rest))
  BY <1>11, <1>12, <1>13, LettersOfBoth
<1>15. Letters(Joined(lines \o Unfinished(rest))) = Letters(Joined(lines)) \o Letters(Joined(Unfinished(rest)))
  BY <1>9, <1>12, BothInPieces
<1>16. Letters(Joined(Emitted(text, Ends))) = Letters(LossyAt(text, broken))
  BY <1>9, <1>10, <1>12, <1>14, <1>15
<1> QED
  BY <1>7, <1>16 DEF May

(* While no line exceeds the limit, the reader has, with what is unread of   *)
(* the line it is in, what drain_lines makes of all that was read.         *)
Seen(read) == [lines |-> read.lines \o Drain(read.left).lines, left |-> Drain(read.left).left]

LEMMA ReadingDrains ==
  ASSUME NEW read \in ReadSoFar, NEW b \in Bytes, NEW ends,
         Len(Fed(Seen(read), b).left) <= Limit
  PROVE  /\ Seen(Reading(read, b, ends)) = Fed(Seen(read), b)
         /\ ends => Reading(read, b, ends) = Seen(Reading(read, b, ends))
<1> DEFINE d  == Drain(Append(read.left, b))
           r  == Reading(read, b, ends)
           ls == read.lines
           lf == read.left
           dl == d.lines
           df == d.left
           before == Drain(lf)
<1>1. ls \in Seq(Seq(Bytes)) /\ lf \in Seq(Bytes) /\ Append(lf, b) \in Seq(Bytes) /\ read \in ReadSoFar
  BY DEF ReadSoFar
<1>2. d \in ReadSoFar /\ before \in ReadSoFar /\ d = Fed(before, b)
  BY <1>1, DrainGrows
<1>3. Drain(df) = [lines |-> <<>>, left |-> df]
  BY <1>1, DrainedTwice
<1>4. r = IF ~ ends THEN [read EXCEPT !.left = Append(lf, b)]
          ELSE IF Len(df) > Limit
               THEN [lines |-> ls \o dl \o Unfinished(df), left |-> <<>>]
               ELSE [d EXCEPT !.lines = ls \o @]
  BY DEF Reading
<1>5. Seen(read) = [lines |-> ls \o before.lines, left |-> before.left]
  BY DEF Seen
<1>6. d = [lines |-> dl, left |-> df] /\ dl \in Seq(Seq(Bytes)) /\ df \in Seq(Bytes)
  <2> HIDE DEF d
  <2> QED
    BY <1>2 DEF ReadSoFar
<1>7. Fed(Seen(read), b) = [lines |-> ls \o dl, left |-> df]
  <2> DEFINE bl == before.lines
             bf == before.left
  <2>1. bl \in Seq(Seq(Bytes)) /\ bf \in Seq(Bytes) /\ Finished(bf) \in Seq(Seq(Bytes))
    BY <1>2, LettersOfLine DEF ReadSoFar
  <2>2. Fed(Seen(read), b) = IF b = Feed THEN [lines |-> (ls \o bl) \o Finished(bf), left |-> <<>>]
                             ELSE [lines |-> ls \o bl, left |-> Append(bf, b)]
    BY <1>5 DEF Fed
  <2>3. d = IF b = Feed THEN [lines |-> bl \o Finished(bf), left |-> <<>>]
            ELSE [lines |-> bl, left |-> Append(bf, b)]
    BY <1>2 DEF Fed
  <2> HIDE DEF d, bl, bf, before, ls, lf
  <2>4. (ls \o bl) \o Finished(bf) = ls \o (bl \o Finished(bf))
    BY <1>1, <2>1
  <2>5. CASE b = Feed
    <3>1. dl = bl \o Finished(bf) /\ df = <<>>
      BY <2>3, <2>5
    <3> QED
      BY <2>2, <2>4, <2>5, <3>1
  <2>6. CASE b # Feed
    <3>1. dl = bl /\ df = Append(bf, b)
      BY <2>3, <2>6
    <3> QED
      BY <2>2, <2>6, <3>1
  <2> QED
    BY <2>5, <2>6
<1>8. Len(df) <= Limit
  <2>1. Fed(Seen(read), b).left = df
    <3> HIDE DEF df, dl, ls
    <3> QED
      BY <1>7
  <2> QED
    BY <2>1
<1>9. CASE ~ ends
  <2>1. r.lines = ls /\ r.left = Append(lf, b)
    <3>1. r = [read EXCEPT !.left = Append(lf, b)]
      BY <1>4, <1>9
    <3> HIDE DEF r
    <3> QED
      BY <1>1, <3>1 DEF ReadSoFar
  <2>2. Seen(r) = [lines |-> ls \o dl, left |-> df]
    <3> HIDE DEF r
    <3> QED
      BY <2>1 DEF Seen
  <2> QED
    BY <1>7, <1>9, <2>2
<1>10. CASE ends
  <2>1. r = [lines |-> ls \o dl, left |-> df]
    <3>1. Len(df) \in Nat /\ Limit \in Nat
      BY <1>6, BytesAssumption
    <3>2. ~ (Len(df) > Limit)
      BY <1>8, <3>1
    <3>3. r = [d EXCEPT !.lines = ls \o @]
      BY <1>4, <1>10, <3>2
    <3> HIDE DEF r, d
    <3> QED
      BY <1>2, <3>3 DEF ReadSoFar
  <2>2. (ls \o dl) \o <<>> = ls \o dl
    BY <1>1, <1>6
  <2> HIDE DEF r, dl, df, ls, d
  <2>3. r.lines = ls \o dl /\ r.left = df
    BY <2>1
  <2>4. Seen(r) = [lines |-> (ls \o dl) \o <<>>, left |-> df]
    <3>1. Seen(r) = [lines |-> r.lines \o Drain(r.left).lines, left |-> Drain(r.left).left]
      BY DEF Seen
    <3>2. Drain(r.left) = [lines |-> <<>>, left |-> df]
      BY <1>3, <2>3
    <3>3. Drain(r.left).lines = <<>> /\ Drain(r.left).left = df
      BY <3>2
    <3> QED
      BY <2>3, <3>1, <3>3
  <2>5. Seen(r) = r /\ Seen(r) = Fed(Seen(read), b)
    BY <1>7, <2>1, <2>2, <2>4
  <2> QED
    BY <2>5 DEF r
<1> QED
  BY <1>9, <1>10

LEMMA EmittedIsDrained ==
  ASSUME NEW text \in Seq(Bytes), NEW Ends, Len(text) \in Ends,
         \A i \in 0 .. Len(text) : Len(Drain(First(text, i)).left) <= Limit
  PROVE  Emitted(text, Ends) = Drain(text).lines \o Unfinished(Drain(text).left)
<1> DEFINE n == Len(text)
<1>1. /\ n \in Nat /\ First(text, 0) = <<>> /\ First(text, n) = text
      /\ \A i \in 0 .. n : First(text, i) \in Seq(Bytes)
      /\ \A i \in 1 .. n : text[i] \in Bytes /\ First(text, i) = Append(First(text, i - 1), text[i])
  BY FirstOnes
<1>2. PICK reader \in [0 .. n -> ReadSoFar] :
        /\ reader[0] = [lines |-> <<>>, left |-> <<>>]
        /\ \A i \in 1 .. n : reader[i] = Reading(reader[i - 1], text[i], i \in Ends)
        /\ Emitted(text, Ends) = reader[n].lines \o Unfinished(reader[n].left)
  BY EmittedIs
<1>3. n \in Ends /\ \A i \in 0 .. n : Len(Drain(First(text, i)).left) <= Limit
  OBVIOUS
<1> HIDE DEF n
<1> DEFINE Same == {i \in 0 .. n : Seen(reader[i]) = Drain(First(text, i))}
<1>4. 0 \in Same /\ (reader[0] = Seen(reader[0]))
  <2> DEFINE r == reader[0]
  <2>1. r = [lines |-> <<>>, left |-> <<>>] /\ 0 \in 0 .. n
    BY <1>1, <1>2
  <2> HIDE DEF r
  <2>2. Drain(r.left) = [lines |-> <<>>, left |-> <<>>] /\ r.lines = <<>> /\ <<>> \o <<>> = <<>>
    BY <2>1, DrainGrows
  <2>3. Seen(r) = [lines |-> <<>>, left |-> <<>>]
    BY <2>2 DEF Seen
  <2>4. Seen(r) = Drain(First(text, 0)) /\ r = Seen(r)
    BY <1>1, <2>1, <2>3, DrainGrows
  <2> QED
    BY <2>1, <2>4 DEF r
<1>5. ASSUME NEW i \in 1 .. n, i - 1 \in Same
      PROVE  i \in Same /\ (i \in Ends => reader[i] = Seen(reader[i]))
  <2> DEFINE r == reader[i - 1]
             b == text[i]
             e == i \in Ends
             u == First(text, i - 1)
  <2>1. i - 1 \in 0 .. n /\ i \in 0 .. n /\ b \in Bytes /\ u \in Seq(Bytes) /\ First(text, i) = Append(u, b)
    <3>1. i - 1 \in 0 .. n /\ i \in 0 .. n
      BY <1>1
    <3> QED
      BY <1>1, <3>1
  <2>2. r \in ReadSoFar /\ reader[i] = Reading(r, b, e)
    BY <1>2, <2>1
  <2>3. Seen(r) = Drain(u)
    BY <1>5
  <2>4. Len(Drain(First(text, i)).left) <= Limit
    BY <1>3, <2>1
  <2> HIDE DEF r, b, e, u
  <2>5. Drain(First(text, i)) = Fed(Seen(r), b)
    BY <2>1, <2>3, DrainGrows
  <2>6. Seen(Reading(r, b, e)) = Fed(Seen(r), b) /\ (e => Reading(r, b, e) = Seen(Reading(r, b, e)))
    BY <2>1, <2>2, <2>4, <2>5, ReadingDrains
  <2>7. Seen(reader[i]) = Drain(First(text, i)) /\ (e => reader[i] = Seen(reader[i]))
    BY <2>2, <2>5, <2>6
  <2> QED
    BY <2>1, <2>7 DEF e
<1>6. Same = 0 .. n
  <2>1. Same \in SUBSET (0 .. n) /\ \A i \in 1 .. n : i - 1 \in Same => i \in Same
    BY <1>5
  <2> HIDE DEF Same
  <2> QED
    BY <1>1, <1>4, <2>1, CountingUp
<1>7. reader[n] = Seen(reader[n]) /\ Seen(reader[n]) = Drain(text)
  <2>1. n \in Same
    <3> HIDE DEF Same
    <3> QED
      BY <1>1, <1>6
  <2>2. CASE n = 0
    BY <1>1, <1>4, <2>1, <2>2
  <2>3. CASE n # 0
    <3>1. n \in 1 .. n /\ n - 1 \in 0 .. n
      BY <1>1, <2>3
    <3>2. n - 1 \in Same
      <4> HIDE DEF Same
      <4> QED
        BY <1>6, <3>1
    <3>3. reader[n] = Seen(reader[n])
      <4> HIDE DEF Same
      <4> QED
        BY <1>3, <1>5, <3>1, <3>2
    <3> QED
      BY <1>1, <2>1, <3>3
  <2> QED
    BY <2>2, <2>3
<1> QED
  BY <1>2, <1>7

-----------------------------------------------------------------------------
(* What was printed: lines are counted by the line feeds before them.       *)
LEMMA FeedsAreCounted ==
  ASSUME NEW s \in Seq(Bytes)
  PROVE  /\ FeedsBefore(s, 1) = 0
         /\ \A i \in 1 .. Len(s) + 1 : FeedsBefore(s, i) \in 0 .. i - 1
         /\ \A i, j \in 1 .. Len(s) + 1 : i <= j => FeedsBefore(s, i) <= FeedsBefore(s, j)
         /\ \A i \in 1 .. Len(s) :
              FeedsBefore(s, i + 1) = IF s[i] = Feed THEN FeedsBefore(s, i) + 1 ELSE FeedsBefore(s, i)
<1> DEFINE Feeds(i) == {j \in 1 .. i - 1 : s[j] = Feed}
<1>1. \A i : FeedsBefore(s, i) = Cardinality(Feeds(i))
  BY DEF FeedsBefore
<1>2. Len(s) \in Nat
  OBVIOUS
<1>3. ASSUME NEW i \in 1 .. Len(s) + 1
      PROVE  IsFiniteSet(Feeds(i)) /\ Cardinality(Feeds(i)) \in 0 .. i - 1
  <2>1. i \in Int /\ IsFiniteSet(1 .. i - 1) /\ Cardinality(1 .. i - 1) = i - 1
    <3>1. i \in Int /\ 1 \in Int /\ i - 1 \in Int /\ i >= 1
      BY <1>2
    <3>2. IsFiniteSet(1 .. i - 1)
          /\ Cardinality(1 .. i - 1) = IF 1 > i - 1 THEN 0 ELSE (i - 1) - 1 + 1
      BY <3>1, FS_Interval
    <3> QED
      BY <3>1, <3>2
  <2>2. Feeds(i) \subseteq 1 .. i - 1
    OBVIOUS
  <2> HIDE DEF Feeds
  <2>3. IsFiniteSet(Feeds(i)) /\ Cardinality(Feeds(i)) <= i - 1
    BY <2>1, <2>2, FS_Subset
  <2>4. Cardinality(Feeds(i)) \in Nat
    BY <2>3, FS_CardinalityType
  <2> QED
    BY <2>1, <2>3, <2>4
<1>4. ASSUME NEW i \in 1 .. Len(s) + 1, NEW j \in 1 .. Len(s) + 1, i <= j
      PROVE  FeedsBefore(s, i) <= FeedsBefore(s, j)
  <2>1. Feeds(i) \subseteq Feeds(j)
    BY <1>4
  <2> HIDE DEF Feeds
  <2> QED
    BY <1>1, <1>3, <2>1, FS_Subset
<1>5. ASSUME NEW i \in 1 .. Len(s)
      PROVE  FeedsBefore(s, i + 1) = IF s[i] = Feed THEN FeedsBefore(s, i) + 1 ELSE FeedsBefore(s, i)
  <2>1. i \in 1 .. Len(s) + 1 /\ i \notin Feeds(i)
    BY <1>2
  <2>2. s[i] = Feed => Feeds(i + 1) = Feeds(i) \cup {i}
    OBVIOUS
  <2>3. s[i] # Feed => Feeds(i + 1) = Feeds(i)
    OBVIOUS
  <2> HIDE DEF Feeds
  <2>4. Cardinality(Feeds(i) \cup {i}) = Cardinality(Feeds(i)) + 1
    BY <1>3, <2>1, FS_AddElement
  <2> QED
    BY <1>1, <2>2, <2>3, <2>4
<1>6. Feeds(1) = {}
  OBVIOUS
<1>7. FeedsBefore(s, 1) = 0
  BY <1>1, <1>6, FS_EmptySet
<1> QED
  BY <1>1, <1>3, <1>4, <1>5, <1>7

(* The bytes of line k.                                                    *)
BytesOf(s, k) == {i \in DOMAIN s : FeedsBefore(s, i) = k /\ s[i] # Feed}

LEMMA LineOfBytes ==
  ASSUME NEW s \in Seq(Bytes), NEW k
  PROVE  /\ LineNumber(s, k) \in Seq(Bytes) /\ IsFiniteSet(BytesOf(s, k))
         /\ Len(LineNumber(s, k)) = Cardinality(BytesOf(s, k))
         /\ BytesOf(s, k) = {} => LineNumber(s, k) = <<>>
         /\ BytesOf(s, k) # {} =>
              LET m == Min(BytesOf(s, k))
                  n == m + Cardinality(BytesOf(s, k)) - 1
              IN  /\ LineNumber(s, k) = SubSeq(s, m, n)
                  /\ m \in BytesOf(s, k) /\ m \in 1 .. Len(s) /\ n \in 0 .. Len(s)
                  /\ \A i \in BytesOf(s, k) : m <= i
<1> DEFINE B == BytesOf(s, k)
           m == Min(B)
           n == m + Cardinality(B) - 1
           start == CHOOSE i \in B : \A j \in B : i <= j
<1>1. /\ Len(s) \in Nat /\ B \subseteq 1 .. Len(s)
      /\ LineNumber(s, k) = IF B = {} THEN <<>> ELSE SubSeq(s, start, start + Cardinality(B) - 1)
  BY DEF BytesOf, LineNumber
<1> HIDE DEF B
<1>2. IsFiniteSet(B) /\ Cardinality(B) \in Nat
  <2>1. IsFiniteSet(1 .. Len(s))
    BY <1>1, FS_Interval
  <2> QED
    BY <1>1, <2>1, FS_Subset, FS_CardinalityType
<1>3. CASE B = {}
  <2>1. Cardinality(B) = 0
    BY <1>3, FS_EmptySet
  <2>2. LineNumber(s, k) = <<>>
    BY <1>1, <1>3
  <2> QED
    BY <1>2, <1>3, <2>1, <2>2 DEF B
<1>4. CASE B # {}
  <2>1. m \in B /\ \A i \in B : m <= i
    <3>1. B \subseteq Nat
      BY <1>1
    <3> QED
      BY <1>4, <3>1, LeastOne
  <2>2. m = start
    BY DEF Min
  <2> HIDE DEF start
  <2>3. m \in 1 .. Len(s)
    BY <1>1, <2>1
  <2> HIDE DEF m
  <2>4. B \subseteq m .. Len(s)
    BY <1>1, <2>1
  <2>5. Cardinality(B) <= Len(s) - m + 1
    <3>1. IsFiniteSet(m .. Len(s)) /\ Cardinality(m .. Len(s)) = Len(s) - m + 1
      <4>1. m \in Int /\ Len(s) \in Int /\ ~ (m > Len(s))
        BY <1>1, <2>3
      <4>2. IsFiniteSet(m .. Len(s))
            /\ Cardinality(m .. Len(s)) = IF m > Len(s) THEN 0 ELSE Len(s) - m + 1
        BY <4>1, FS_Interval
      <4> QED
        BY <4>1, <4>2
    <3> QED
      BY <2>4, <3>1, FS_Subset
  <2>6. n \in 0 .. Len(s) /\ n - m + 1 = Cardinality(B)
    BY <1>1, <1>2, <2>3, <2>5
  <2>7. LineNumber(s, k) = SubSeq(s, m, n)
    BY <1>1, <1>4, <2>2
  <2>8. SubSeq(s, m, n) \in Seq(Bytes) /\ Len(SubSeq(s, m, n)) = Cardinality(B)
    <3> HIDE DEF n
    <3>1. SubSeq(s, m, n) \in Seq(Bytes) /\ Len(SubSeq(s, m, n)) = IF m <= n THEN n - m + 1 ELSE 0
      BY <2>3, <2>6
    <3> QED
      BY <1>2, <2>3, <2>6, <3>1
  <2> HIDE DEF n
  <2> QED
    BY <1>2, <1>4, <2>1, <2>3, <2>6, <2>7, <2>8 DEF B, m, n
<1> QED
  BY <1>3, <1>4

LEMMA LineOfInterval ==
  ASSUME NEW s \in Seq(Bytes), NEW k, NEW m \in 1 .. Len(s) + 1, BytesOf(s, k) = m .. Len(s)
  PROVE  LineNumber(s, k) = SubSeq(s, m, Len(s))
<1> DEFINE n == Len(s)
<1>1. n \in Nat
  OBVIOUS
<1>2. CASE m = n + 1
  <2>1. BytesOf(s, k) = {}
    BY <1>1, <1>2
  <2>2. SubSeq(s, m, n) = <<>>
    BY <1>2
  <2> QED
    BY <2>1, <2>2, LineOfBytes
<1>3. CASE m \in 1 .. n
  <2> DEFINE B == BytesOf(s, k)
  <2>1. m \in B /\ B # {} /\ \A i \in B : m <= i
    BY <1>1, <1>3
  <2>2. Cardinality(B) = n - m + 1
    <3>1. m \in Int /\ n \in Int /\ ~ (m > n)
      BY <1>1, <1>3
    <3>2. Cardinality(m .. n) = IF m > n THEN 0 ELSE n - m + 1
      BY <3>1, FS_Interval
    <3> QED
      BY <3>1, <3>2
  <2>3. /\ LineNumber(s, k) = SubSeq(s, Min(B), Min(B) + Cardinality(B) - 1)
        /\ Min(B) \in B /\ Min(B) \in 1 .. n /\ \A i \in B : Min(B) <= i
    <3> HIDE DEF n
    <3> QED
      BY <2>1, LineOfBytes DEF n
  <2>4. Min(B) = m
    <3> HIDE DEF B
    <3> QED
      BY <1>3, <2>1, <2>3
  <2>5. m + Cardinality(B) - 1 = n
    BY <1>1, <1>3, <2>2
  <2> QED
    BY <2>3, <2>4, <2>5
<1> QED
  BY <1>1, <1>2, <1>3

(* A byte more is a byte of the line after the last line feed, and changes   *)
(* no line before that.                                                    *)
LastLine(s) == FeedsBefore(s, Len(s) + 1)

LEMMA LinesGrow ==
  ASSUME NEW s \in Seq(Bytes), NEW b \in Bytes
  PROVE  LET t == Append(s, b)
             F == LastLine(s)
             n == Len(s)
         IN  /\ F \in Nat /\ LastLine(t) = IF b = Feed THEN F + 1 ELSE F
             /\ \A k : k # F \/ b = Feed => BytesOf(t, k) = BytesOf(s, k)
             /\ b # Feed => BytesOf(t, F) = BytesOf(s, F) \cup {n + 1}
             /\ \A k : k # F \/ b = Feed => LineNumber(t, k) = LineNumber(s, k)
             /\ BytesOf(s, F + 1) = {}
<1> DEFINE t == Append(s, b)
           F == LastLine(s)
           n == Len(s)
<1>1. /\ t \in Seq(Bytes) /\ n \in Nat /\ Len(t) = n + 1 /\ t[n + 1] = b
      /\ \A i \in 1 .. n : t[i] = s[i]
  BY AppendedTo
<1>2. /\ \A m \in Nat \ {0}, i \in 0 .. n : SubSeq(t, m, i) = SubSeq(s, m, i)
  BY PartsOfAppended
<1>3. F = FeedsBefore(s, n + 1)
  BY DEF LastLine
<1> HIDE DEF t, F, n
<1>4. \A i \in 1 .. n + 1 : FeedsBefore(t, i) = FeedsBefore(s, i)
  <2> SUFFICES ASSUME NEW i \in 1 .. n + 1 PROVE FeedsBefore(t, i) = FeedsBefore(s, i)
    OBVIOUS
  <2>1. \A j \in 1 .. i - 1 : t[j] = s[j]
    BY <1>1
  <2>2. {j \in 1 .. i - 1 : t[j] = Feed} = {j \in 1 .. i - 1 : s[j] = Feed}
    BY <2>1
  <2> QED
    BY <2>2 DEF FeedsBefore
<1>5. F \in Nat /\ FeedsBefore(t, n + 1) = F /\ \A i \in 1 .. n : FeedsBefore(s, i) <= F
  <2>1. n + 1 \in 1 .. n + 1 /\ \A i \in 1 .. n : i \in 1 .. n + 1 /\ i <= n + 1
    BY <1>1
  <2>2. /\ \A i \in 1 .. n + 1 : FeedsBefore(s, i) \in 0 .. i - 1
        /\ \A i, j \in 1 .. n + 1 : i <= j => FeedsBefore(s, i) <= FeedsBefore(s, j)
    BY FeedsAreCounted DEF n
  <2>3. \A i \in 1 .. n : FeedsBefore(s, i) <= FeedsBefore(s, n + 1)
    BY <2>1, <2>2
  <2>4. FeedsBefore(s, n + 1) \in Nat
    BY <1>1, <2>1, <2>2
  <2> QED
    BY <1>3, <1>4, <2>1, <2>3, <2>4
<1>6. LastLine(t) = IF b = Feed THEN F + 1 ELSE F
  <2>1. n + 1 \in 1 .. Len(t)
    BY <1>1
  <2>2. FeedsBefore(t, (n + 1) + 1) = IF t[n + 1] = Feed THEN FeedsBefore(t, n + 1) + 1
                                      ELSE FeedsBefore(t, n + 1)
    BY <1>1, <2>1, FeedsAreCounted
  <2> QED
    BY <1>1, <1>5, <2>2 DEF LastLine
<1>7. DOMAIN s = 1 .. n /\ DOMAIN t = 1 .. n + 1
  BY <1>1 DEF n
<1>8. ASSUME NEW k
      PROVE  /\ k # F \/ b = Feed => BytesOf(t, k) = BytesOf(s, k)
             /\ k = F /\ b # Feed => BytesOf(t, k) = BytesOf(s, k) \cup {n + 1}
  <2>1. ASSUME NEW i \in 1 .. n PROVE i \in BytesOf(t, k) <=> i \in BytesOf(s, k)
    <3>1. i \in 1 .. n + 1 /\ t[i] = s[i] /\ FeedsBefore(t, i) = FeedsBefore(s, i)
      BY <1>1, <1>4
    <3> QED
      BY <1>7, <3>1 DEF BytesOf
  <2>2. n + 1 \in BytesOf(t, k) <=> k = F /\ b # Feed
    <3>1. n + 1 \in 1 .. n + 1
      BY <1>1
    <3> QED
      BY <1>1, <1>5, <1>7, <3>1 DEF BytesOf
  <2>3. BytesOf(s, k) \subseteq 1 .. n /\ BytesOf(t, k) \subseteq 1 .. n + 1
    BY <1>7 DEF BytesOf
  <2>4. 1 .. n + 1 = (1 .. n) \cup {n + 1} /\ n + 1 \notin 1 .. n
    BY <1>1
  <2> QED
    BY <2>1, <2>2, <2>3, <2>4
<1>9. ASSUME NEW k, k # F \/ b = Feed PROVE LineNumber(t, k) = LineNumber(s, k)
  <2> DEFINE B == BytesOf(s, k)
             m == Min(B)
             l == m + Cardinality(B) - 1
  <2>1. BytesOf(t, k) = B
    BY <1>8, <1>9
  <2>2. CASE B = {}
    BY <1>1, <2>1, <2>2, LineOfBytes
  <2>3. CASE B # {}
    <3>1. LineNumber(s, k) = SubSeq(s, m, l) /\ m \in 1 .. n /\ l \in 0 .. n
      BY <2>3, LineOfBytes DEF n
    <3>2. LineNumber(t, k) = SubSeq(t, m, l)
      BY <1>1, <2>1, <2>3, LineOfBytes
    <3> HIDE DEF m, l
    <3>3. m \in Nat \ {0}
      BY <3>1
    <3> QED
      BY <1>2, <3>1, <3>2, <3>3
  <2> QED
    BY <2>2, <2>3
<1>10. BytesOf(s, F + 1) = {}
  <2> SUFFICES ASSUME NEW i \in BytesOf(s, F + 1) PROVE FALSE
    OBVIOUS
  <2>1. i \in 1 .. n /\ FeedsBefore(s, i) = F + 1
    BY <1>7 DEF BytesOf
  <2> QED
    BY <1>5, <2>1
<1> QED
  BY <1>5, <1>6, <1>8, <1>9, <1>10 DEF t, F, n

(* drain_lines, and what it leaves, are the lines that were printed and the  *)
(* one that has not ended.                                                 *)
Lists(L, s, k) ==
  L[0] = <<>> /\ \A j \in 1 .. k : L[j] = L[j - 1] \o Finished(LineNumber(s, j - 1))

DrainedWhole(s) ==
  /\ \E m \in 1 .. Len(s) + 1 : /\ BytesOf(s, LastLine(s)) = m .. Len(s)
                                /\ Drain(s).left = SubSeq(s, m, Len(s))
  /\ \A L : Lists(L, s, LastLine(s)) => L[LastLine(s)] = Drain(s).lines

LEMMA DrainedAsPrinted == \A s \in Seq(Bytes) : DrainedWhole(s)
<1> DEFINE Good == {s \in Seq(Bytes) : DrainedWhole(s)}
<1>1. <<>> \in Good
  <2> DEFINE s == <<>>
  <2>1. s \in Seq(Bytes) /\ Len(s) = 0 /\ DOMAIN s = {} /\ SubSeq(s, 1, 0) = <<>>
    OBVIOUS
  <2>2. Drain(s) = [lines |-> <<>>, left |-> <<>>]
    BY DrainGrows
  <2> HIDE DEF s
  <2>3. LastLine(s) = 0
    <3>1. FeedsBefore(s, 1) = 0
      BY <2>1, FeedsAreCounted
    <3>2. Len(s) + 1 = 1
      BY <2>1
    <3> QED
      BY <3>1, <3>2 DEF LastLine
  <2>4. BytesOf(s, 0) = 1 .. 0
    BY <2>1 DEF BytesOf
  <2>5. 1 \in 1 .. Len(s) + 1 /\ BytesOf(s, LastLine(s)) = 1 .. Len(s)
        /\ Drain(s).left = SubSeq(s, 1, Len(s)) /\ Drain(s).lines = <<>>
    BY <2>1, <2>2, <2>3, <2>4
  <2>6. \A L : Lists(L, s, LastLine(s)) => L[LastLine(s)] = Drain(s).lines
    BY <2>3, <2>5 DEF Lists
  <2> QED
    BY <2>1, <2>5, <2>6 DEF DrainedWhole, s
<1>2. ASSUME NEW s \in Good, NEW b \in Bytes PROVE Append(s, b) \in Good
  <2> DEFINE t == Append(s, b)
             n == Len(s)
             F == LastLine(s)
  <2>0. s \in Seq(Bytes) /\ DrainedWhole(s)
    OBVIOUS
  <2>1. /\ t \in Seq(Bytes) /\ n \in Nat /\ Len(t) = n + 1 /\ t[n + 1] = b
        /\ \A i \in 1 .. n : t[i] = s[i]
    BY AppendedTo
  <2>2. /\ F \in Nat /\ LastLine(t) = IF b = Feed THEN F + 1 ELSE F
        /\ \A k : k # F \/ b = Feed => BytesOf(t, k) = BytesOf(s, k)
        /\ b # Feed => BytesOf(t, F) = BytesOf(s, F) \cup {n + 1}
        /\ \A k : k # F \/ b = Feed => LineNumber(t, k) = LineNumber(s, k)
        /\ BytesOf(s, F + 1) = {}
    BY LinesGrow
  <2>3. PICK m \in 1 .. n + 1 : BytesOf(s, F) = m .. n /\ Drain(s).left = SubSeq(s, m, n)
    BY <2>0 DEF DrainedWhole
  <2>4. \A L : Lists(L, s, F) => L[F] = Drain(s).lines
    BY <2>0 DEF DrainedWhole
  <2>5. Drain(t) = Fed(Drain(s), b)
    BY DrainGrows
  <2>6. \A i \in 1 .. n + 1 : SubSeq(t, i, n + 1) = Append(SubSeq(s, i, n), b)
    BY PartsOfAppended
  <2>7. LineNumber(s, F) = Drain(s).left
    BY <2>3, LineOfInterval
  <2> HIDE DEF t, n, F
  <2>8. ASSUME NEW L, Lists(L, t, F) PROVE L[F] = Drain(s).lines
    <3>1. ASSUME NEW j \in 1 .. F PROVE LineNumber(t, j - 1) = LineNumber(s, j - 1)
      <4>1. j - 1 # F
        BY <2>2
      <4> QED
        BY <2>2, <4>1
    <3>2. Lists(L, s, F)
      BY <2>8, <3>1 DEF Lists
    <3> QED
      BY <2>4, <3>2
  <2>9. CASE b = Feed
    <3>1. Drain(t).lines = Drain(s).lines \o Finished(Drain(s).left) /\ Drain(t).left = <<>>
      <4> DEFINE out == Drain(s).lines \o Finished(Drain(s).left)
      <4>1. Drain(t) = [lines |-> out, left |-> <<>>]
        BY <2>5, <2>9 DEF Fed
      <4> HIDE DEF out
      <4>2. Drain(t).lines = out /\ Drain(t).left = <<>>
        BY <4>1
      <4> QED
        BY <4>2 DEF out
    <3>2. LastLine(t) = F + 1 /\ BytesOf(t, F + 1) = {} /\ LineNumber(t, F) = LineNumber(s, F)
      BY <2>2, <2>9
    <3>3. /\ n + 2 \in 1 .. Len(t) + 1 /\ BytesOf(t, LastLine(t)) = n + 2 .. Len(t)
          /\ Drain(t).left = SubSeq(t, n + 2, Len(t))
      <4>1. n + 2 \in 1 .. Len(t) + 1 /\ n + 2 .. Len(t) = {} /\ SubSeq(t, n + 2, Len(t)) = <<>>
        BY <2>1
      <4> QED
        BY <3>1, <3>2, <4>1
    <3>4. ASSUME NEW L, Lists(L, t, LastLine(t)) PROVE L[LastLine(t)] = Drain(t).lines
      <4>1. Lists(L, t, F)
        <5>1. \A j \in 1 .. F : j \in 1 .. F + 1
          BY <2>2
        <5>2. Lists(L, t, F + 1)
          BY <3>2, <3>4
        <5> QED
          BY <5>1, <5>2 DEF Lists
      <4>2. L[F + 1] = L[F] \o Finished(LineNumber(t, F))
        <5>1. F + 1 \in 1 .. F + 1 /\ (F + 1) - 1 = F
          BY <2>2
        <5> QED
          BY <3>2, <3>4, <5>1 DEF Lists
      <4> QED
        BY <2>7, <2>8, <3>1, <3>2, <4>1, <4>2
    <3>5. DrainedWhole(t)
      BY <3>3, <3>4 DEF DrainedWhole
    <3> QED
      BY <2>1, <3>5 DEF t
  <2>10. CASE b # Feed
    <3>1. Drain(t).lines = Drain(s).lines /\ Drain(t).left = Append(Drain(s).left, b)
      BY <2>5, <2>10 DEF Fed
    <3>2. LastLine(t) = F /\ BytesOf(t, F) = (m .. n) \cup {n + 1}
      BY <2>2, <2>3, <2>10
    <3>3. m \in 1 .. Len(t) + 1 /\ (m .. n) \cup {n + 1} = m .. Len(t)
      BY <2>1, <2>3
    <3>4. Drain(t).left = SubSeq(t, m, Len(t))
      BY <2>1, <2>3, <2>6, <3>1
    <3>5. ASSUME NEW L, Lists(L, t, LastLine(t)) PROVE L[LastLine(t)] = Drain(t).lines
      BY <2>8, <3>1, <3>2, <3>5
    <3>6. DrainedWhole(t)
      BY <3>2, <3>3, <3>4, <3>5 DEF DrainedWhole
    <3> QED
      BY <2>1, <3>6 DEF t
  <2> QED
    BY <2>9, <2>10
<1>3. Good = Seq(Bytes)
  <2>1. Good \in SUBSET Seq(Bytes)
    OBVIOUS
  <2> HIDE DEF Good
  <2> QED
    BY <1>1, <1>2, <2>1, GrowingUp
<1> QED
  BY <1>3

LEMMA PrintedIs ==
  ASSUME NEW text \in Seq(Bytes)
  PROVE  \E L : /\ Lists(L, text, LastLine(text))
                /\ Printed(text) = L[LastLine(text)] \o Unfinished(LineNumber(text, LastLine(text)))
<1> DEFINE n == LastLine(text)
           S == Seq(Seq(Bytes))
           On(i, x) == x \o Finished(LineNumber(text, i - 1))
           step == [y \in (1 .. n) \X S |-> On(y[1], y[2])]
           Is(g) == g = [i \in 0 .. n |-> IF i = 0 THEN <<>> ELSE On(i, g[i - 1])]
<1>1. n \in Nat /\ <<>> \in S
  <2>1. Feed \in Bytes
    BY DEF Bytes
  <2> QED
    BY <2>1, LinesGrow
<1>2. \A i \in 1 .. n, x \in S : On(i, x) \in S
  <2> SUFFICES ASSUME NEW i \in 1 .. n, NEW x \in S PROVE On(i, x) \in S
    OBVIOUS
  <2>1. LineNumber(text, i - 1) \in Seq(Bytes)
    BY LineOfBytes
  <2>2. Finished(LineNumber(text, i - 1)) \in S
    BY <2>1, LettersOfLine
  <2> HIDE DEF n
  <2> QED
    BY <2>2
<1>3. \A i \in 1 .. n, x \in S : step[<<i, x>>] = On(i, x)
  OBVIOUS
<1> HIDE DEF On, step, S, n
<1>4. PICK f : Follows(f, step, n, S, <<>>)
  BY <1>1, <1>2, <1>3, RecursionExists DEF StaysIn
<1>5. Is(f)
  <2>1. f \in [0 .. n -> S] /\ f[0] = <<>> /\ \A i \in 1 .. n : f[i] = step[<<i, f[i - 1]>>]
    BY <1>4 DEF Follows
  <2>2. \A i \in 1 .. n : f[i - 1] \in S
    BY <1>1, <2>1
  <2>3. \A i \in 1 .. n : f[i] = On(i, f[i - 1])
    BY <1>3, <2>1, <2>2
  <2> QED
    BY <1>1, <2>1, <2>3
<1> DEFINE F == CHOOSE g : Is(g)
<1>6. Is(F)
  <2> HIDE DEF Is
  <2> QED
    BY <1>5
<1>7. Printed(text) = F[n] \o Unfinished(LineNumber(text, n))
  BY DEF Printed, On, n, LastLine
<1> HIDE DEF F
<1>8. F[0] = <<>> /\ \A i \in 1 .. n : F[i] = On(i, F[i - 1])
  BY <1>1, <1>6
<1>9. Lists(F, text, n)
  BY <1>8 DEF Lists, On
<1> QED
  BY <1>7, <1>9 DEF n

LEMMA PrintedIsDrained ==
  ASSUME NEW text \in Seq(Bytes)
  PROVE  /\ Printed(text) = Drain(text).lines \o Unfinished(Drain(text).left)
         /\ Drain(text).left = LineNumber(text, LastLine(text))
<1>1. DrainedWhole(text)
  BY DrainedAsPrinted
<1>2. PICK m \in 1 .. Len(text) + 1 : /\ BytesOf(text, LastLine(text)) = m .. Len(text)
                                      /\ Drain(text).left = SubSeq(text, m, Len(text))
  BY <1>1 DEF DrainedWhole
<1>3. Drain(text).left = LineNumber(text, LastLine(text))
  BY <1>2, LineOfInterval
<1>4. PICK L : /\ Lists(L, text, LastLine(text))
               /\ Printed(text) = L[LastLine(text)] \o Unfinished(LineNumber(text, LastLine(text)))
  BY PrintedIs
<1>5. L[LastLine(text)] = Drain(text).lines
  BY <1>1, <1>4 DEF DrainedWhole
<1> QED
  BY <1>3, <1>4, <1>5

(* The reader has no more of a line than there is of it.                   *)
LEMMA LeftIsShorter ==
  ASSUME NEW text \in Seq(Bytes), Shorter(text), NEW i \in 0 .. Len(text)
  PROVE  Len(Drain(First(text, i)).left) <= Limit
<1> DEFINE n == Len(text)
           u == First(text, i)
           k == LastLine(u)
<1>1. n \in Nat /\ u \in Seq(Bytes) /\ Len(u) = i
  BY FirstOnes
<1>2. \A j \in 1 .. i : u[j] = text[j]
  BY <1>1 DEF First
<1> HIDE DEF n, u
<1>3. k \in 0 .. n
  <2>1. FeedsBefore(u, i + 1) \in 0 .. (i + 1) - 1
    <3>1. i + 1 \in 1 .. Len(u) + 1
      BY <1>1
    <3> QED
      BY <1>1, <3>1, FeedsAreCounted
  <2> QED
    BY <1>1, <2>1 DEF LastLine, n
<1> HIDE DEF k
<1>4. BytesOf(u, k) \subseteq BytesOf(text, k)
  <2> SUFFICES ASSUME NEW j \in BytesOf(u, k) PROVE j \in BytesOf(text, k)
    OBVIOUS
  <2>1. j \in 1 .. i /\ FeedsBefore(u, j) = k /\ u[j] # Feed
    BY <1>1 DEF BytesOf
  <2>2. {l \in 1 .. j - 1 : u[l] = Feed} = {l \in 1 .. j - 1 : text[l] = Feed}
    <3>1. \A l \in 1 .. j - 1 : u[l] = text[l]
      BY <1>2, <2>1
    <3> QED
      BY <3>1
  <2>3. FeedsBefore(text, j) = k
    BY <2>1, <2>2 DEF FeedsBefore
  <2>4. j \in DOMAIN text /\ text[j] # Feed
    BY <1>2, <2>1
  <2> QED
    BY <2>3, <2>4 DEF BytesOf
<1>5. /\ Len(LineNumber(u, k)) = Cardinality(BytesOf(u, k))
      /\ Len(LineNumber(text, k)) = Cardinality(BytesOf(text, k))
      /\ IsFiniteSet(BytesOf(text, k)) /\ IsFiniteSet(BytesOf(u, k))
  BY <1>1, LineOfBytes
<1>6. Cardinality(BytesOf(u, k)) <= Cardinality(BytesOf(text, k))
  BY <1>4, <1>5, FS_Subset
<1>7. Len(LineNumber(text, k)) <= Limit
  BY <1>3 DEF Shorter, n
<1>8. Cardinality(BytesOf(u, k)) \in Nat /\ Cardinality(BytesOf(text, k)) \in Nat /\ Limit \in Nat
  BY <1>5, FS_CardinalityType, BytesAssumption
<1>9. Drain(u).left = LineNumber(u, k)
  BY <1>1, PrintedIsDrained DEF k
<1> QED
  BY <1>5, <1>6, <1>7, <1>8, <1>9 DEF u

(* spawn_pipe_reader: however the reads cut a text, its lines come out as    *)
(* they were printed if none exceeds the limit; of one that does no letter   *)
(* is lost but a character that goes across the end of a read at which it    *)
(* exceeds the limit.                                                        *)
THEOREM LinesComeWhole == LinesAsPrinted
<1> SUFFICES ASSUME NEW n \in 0 .. MaxText, NEW text \in [1 .. n -> Bytes \ {Lost}],
                    NEW cuts \in SUBSET (1 .. n - 1)
             PROVE  LET ends == cuts \cup {n}
                        out  == Emitted(text, ends)
                    IN /\ Shorter(text) => out = Printed(text)
                       /\ \E broken \in SUBSET {i \in ends : Exceeds(text, i)} :
                            Letters(Joined(out)) = Letters(LossyAt(text, broken))
  BY DEF LinesAsPrinted
<1>1. text \in Seq(Bytes) /\ Len(text) = n
  <2>1. n \in Nat
    BY BytesAssumption
  <2> QED
    BY <2>1
<1> DEFINE ends == cuts \cup {n}
<1>2. \E broken \in SUBSET {i \in ends : Exceeds(text, i)} :
        Letters(Joined(Emitted(text, ends))) = Letters(LossyAt(text, broken))
  <2> HIDE DEF ends
  <2> QED
    BY <1>1, NoLetterIsLost
<1>3. ASSUME Shorter(text) PROVE Emitted(text, ends) = Printed(text)
  <2>1. \A i \in 0 .. Len(text) : Len(Drain(First(text, i)).left) <= Limit
    BY <1>1, <1>3, LeftIsShorter
  <2>2. Len(text) \in ends
    BY <1>1
  <2>3. Emitted(text, ends) = Drain(text).lines \o Unfinished(Drain(text).left)
    BY <1>1, <2>1, <2>2, EmittedIsDrained
  <2> QED
    BY <1>1, <2>3, PrintedIsDrained
<1> QED
  BY <1>2, <1>3

(* emit_line: a line from the pipe is filed under the mod that is being run   *)
(* as it is read, or under one that it names, and it comes whole.           *)
THEOREM PipedLinesAreWhole == HostSpec => []PipedAsPrinted
<1>1. HostInv => PipedAsPrinted
  <2> SUFFICES ASSUME HostInv, NEW line \in Lines
               PROVE  /\ EmittedByScope(line) \subseteq NamedBy(line) \cup BeingRun
                      /\ EmittedBySaying(line) \in {"game-stdio"} \cup NamedBy(line)
    BY LinesComeWhole DEF PipedAsPrinted
  <2>1. line.source \in NamedBy(line)
    BY DEF NamedBy
  <2>2. ActiveIdentity("reader") # NoName => ActiveIdentity("reader") \in BeingRun
    BY ActiveIsRun
  <2>3. OwnerBySaying(line) # NoName => OwnerBySaying(line) \in NamedBy(line)
    BY FoundIsNamed
  <2> QED
    BY <2>1, <2>2, <2>3 DEF EmittedByScope, EmittedBySaying, CapturedAs
<1> QED
  BY <1>1, HostInvariant, PTL

-----------------------------------------------------------------------------
(* The text of the host's services and its bytes.                          *)
Chars == {"char", "NUL", "lost", "wide"}

(* What a character takes, and what a byte makes of what was read.         *)
BytesFor(c) == IF c = "wide" THEN <<"lead", "trail">> ELSE <<c>>
Read(text, last, b) ==
  IF last = "lead" /\ b = "trail" THEN Append(Front(text), "wide")
  ELSE Append(text, IF b \in {"lead", "trail"} THEN "lost" ELSE b)
LastOf(s) == IF s = <<>> THEN "none" ELSE s[Len(s)]

LEMMA ReadTypes ==
  ASSUME NEW text \in Seq(Chars), NEW last, NEW b \in Octets
  PROVE  Read(text, last, b) \in Seq(Chars)
<1>1. Front(text) \in Seq(Chars)
  BY DEF Front
<1> QED
  BY <1>1 DEF Read, Chars, Octets

LEMMA EncodedIs ==
  ASSUME NEW s \in Seq(Chars)
  PROVE  \E f \in [0 .. Len(s) -> Seq(Octets)] :
            /\ f[0] = <<>> /\ Encoded(s) = f[Len(s)]
            /\ \A i \in 1 .. Len(s) : f[i] = f[i - 1] \o BytesFor(s[i])
<1> DEFINE n == Len(s)
           S == Seq(Octets)
           On(i, x) == IF s[i] = "wide" THEN x \o <<"lead", "trail">> ELSE Append(x, s[i])
           step == [y \in (1 .. n) \X S |-> On(y[1], y[2])]
           Is(g) == g = [i \in 0 .. n |-> IF i = 0 THEN <<>> ELSE On(i, g[i - 1])]
<1>1. n \in Nat /\ <<>> \in S
  OBVIOUS
<1>2. \A i \in 1 .. n, x \in S : On(i, x) \in S /\ On(i, x) = x \o BytesFor(s[i])
  <2> SUFFICES ASSUME NEW i \in 1 .. n, NEW x \in S
               PROVE  On(i, x) \in S /\ On(i, x) = x \o BytesFor(s[i])
    OBVIOUS
  <2>1. s[i] \in Chars
    OBVIOUS
  <2>2. CASE s[i] = "wide"
    BY <2>2 DEF BytesFor, Octets
  <2>3. CASE s[i] # "wide"
    <3>1. s[i] \in Octets
      BY <2>1, <2>3 DEF Chars, Octets
    <3>2. Append(x, s[i]) = x \o <<s[i]>>
      BY <3>1
    <3> QED
      BY <2>3, <3>1, <3>2 DEF BytesFor
  <2> QED
    BY <2>2, <2>3
<1>3. \A i \in 1 .. n, x \in S : step[<<i, x>>] = On(i, x)
  OBVIOUS
<1> HIDE DEF On, step, S, n
<1>4. PICK f : Follows(f, step, n, S, <<>>)
  BY <1>1, <1>2, <1>3, RecursionExists DEF StaysIn
<1>5. Is(f)
  <2>1. f \in [0 .. n -> S] /\ f[0] = <<>> /\ \A i \in 1 .. n : f[i] = step[<<i, f[i - 1]>>]
    BY <1>4 DEF Follows
  <2>2. \A i \in 1 .. n : f[i - 1] \in S
    BY <1>1, <2>1
  <2>3. \A i \in 1 .. n : f[i] = On(i, f[i - 1])
    BY <1>3, <2>1, <2>2
  <2> QED
    BY <1>1, <2>1, <2>3
<1> DEFINE F == CHOOSE g : Is(g)
<1>6. Is(F)
  <2> HIDE DEF Is
  <2> QED
    BY <1>5
<1>7. Encoded(s) = F[n]
  BY DEF Encoded, On, n
<1> HIDE DEF F
<1>8. F[0] = <<>> /\ \A i \in 1 .. n : F[i] = On(i, F[i - 1])
  BY <1>1, <1>6
<1>9. F \in [0 .. n -> S]
  <2>1. \A i \in 1 .. n : F[i - 1] \in S => F[i] \in S
    BY <1>2, <1>8
  <2>2. F[0] \in S /\ F = [i \in 0 .. n |-> F[i]]
    BY <1>1, <1>6, <1>8
  <2> QED
    BY <1>1, <2>1, <2>2, RecursionStays
<1>10. \A i \in 1 .. n : F[i] = F[i - 1] \o BytesFor(s[i])
  <2>1. \A i \in 1 .. n : F[i - 1] \in S
    BY <1>1, <1>9
  <2> QED
    BY <1>2, <1>8, <2>1
<1> QED
  BY <1>7, <1>8, <1>9, <1>10 DEF S, n

LEMMA DecodedIs ==
  ASSUME NEW s \in Seq(Octets)
  PROVE  \E f \in [0 .. Len(s) -> Seq(Chars)] :
            /\ f[0] = <<>> /\ Decoded(s) = f[Len(s)]
            /\ \A i \in 1 .. Len(s) :
                 f[i] = Read(f[i - 1], IF i = 1 THEN "none" ELSE s[i - 1], s[i])
<1> DEFINE n == Len(s)
           S == Seq(Chars)
           On(i, x) == IF i > 1 /\ s[i - 1] = "lead" /\ s[i] = "trail" THEN Append(Front(x), "wide")
                       ELSE Append(x, IF s[i] \in {"lead", "trail"} THEN "lost" ELSE s[i])
           step == [y \in (1 .. n) \X S |-> On(y[1], y[2])]
           Is(g) == g = [i \in 0 .. n |-> IF i = 0 THEN <<>> ELSE On(i, g[i - 1])]
<1>1. n \in Nat /\ <<>> \in S
  OBVIOUS
<1>2. \A i \in 1 .. n, x \in S :
        On(i, x) \in S /\ On(i, x) = Read(x, IF i = 1 THEN "none" ELSE s[i - 1], s[i])
  <2> SUFFICES ASSUME NEW i \in 1 .. n, NEW x \in S
               PROVE  On(i, x) \in S /\ On(i, x) = Read(x, IF i = 1 THEN "none" ELSE s[i - 1], s[i])
    OBVIOUS
  <2>1. On(i, x) = Read(x, IF i = 1 THEN "none" ELSE s[i - 1], s[i])
    BY DEF Read
  <2>2. s[i] \in Octets
    OBVIOUS
  <2> HIDE DEF On
  <2> QED
    BY <2>1, <2>2, ReadTypes
<1>3. \A i \in 1 .. n, x \in S : step[<<i, x>>] = On(i, x)
  OBVIOUS
<1> HIDE DEF On, step, S, n
<1>4. PICK f : Follows(f, step, n, S, <<>>)
  BY <1>1, <1>2, <1>3, RecursionExists DEF StaysIn
<1>5. Is(f)
  <2>1. f \in [0 .. n -> S] /\ f[0] = <<>> /\ \A i \in 1 .. n : f[i] = step[<<i, f[i - 1]>>]
    BY <1>4 DEF Follows
  <2>2. \A i \in 1 .. n : f[i - 1] \in S
    BY <1>1, <2>1
  <2>3. \A i \in 1 .. n : f[i] = On(i, f[i - 1])
    BY <1>3, <2>1, <2>2
  <2> QED
    BY <1>1, <2>1, <2>3
<1> DEFINE F == CHOOSE g : Is(g)
<1>6. Is(F)
  <2> HIDE DEF Is
  <2> QED
    BY <1>5
<1>7. Decoded(s) = F[n]
  BY DEF Decoded, On, n
<1> HIDE DEF F
<1>8. F[0] = <<>> /\ \A i \in 1 .. n : F[i] = On(i, F[i - 1])
  BY <1>1, <1>6
<1>9. F \in [0 .. n -> S]
  <2>1. \A i \in 1 .. n : F[i - 1] \in S => F[i] \in S
    BY <1>2, <1>8
  <2>2. F[0] \in S /\ F = [i \in 0 .. n |-> F[i]]
    BY <1>1, <1>6, <1>8
  <2> QED
    BY <1>1, <2>1, <2>2, RecursionStays
<1>10. \A i \in 1 .. n : F[i] = Read(F[i - 1], IF i = 1 THEN "none" ELSE s[i - 1], s[i])
  <2>1. \A i \in 1 .. n : F[i - 1] \in S
    BY <1>1, <1>9
  <2> QED
    BY <1>2, <1>8, <2>1
<1> QED
  BY <1>7, <1>8, <1>9, <1>10 DEF S, n

(* A text is encoded character by character, and read byte by byte.        *)
LEMMA EncodedGrows ==
  /\ Encoded(<<>>) = <<>>
  /\ \A s \in Seq(Chars), c \in Chars :
       Encoded(s) \in Seq(Octets) /\ Encoded(Append(s, c)) = Encoded(s) \o BytesFor(c)
<1>1. Encoded(<<>>) = <<>>
  <2>1. <<>> \in Seq(Chars) /\ Len(<<>>) = 0
    OBVIOUS
  <2> QED
    BY <2>1, EncodedIs
<1>2. ASSUME NEW s \in Seq(Chars), NEW c \in Chars
      PROVE  Encoded(s) \in Seq(Octets) /\ Encoded(Append(s, c)) = Encoded(s) \o BytesFor(c)
  <2> DEFINE t == Append(s, c)
             n == Len(s)
  <2>1. /\ t \in Seq(Chars) /\ n \in Nat /\ Len(t) = n + 1 /\ t[n + 1] = c
        /\ \A i \in 1 .. n : t[i] = s[i]
    BY AppendedTo
  <2> HIDE DEF t, n
  <2>2. PICK f \in [0 .. n -> Seq(Octets)] :
          /\ f[0] = <<>> /\ Encoded(s) = f[n]
          /\ \A i \in 1 .. n : f[i] = f[i - 1] \o BytesFor(s[i])
    BY EncodedIs DEF n
  <2>3. PICK g \in [0 .. Len(t) -> Seq(Octets)] :
          /\ g[0] = <<>> /\ Encoded(t) = g[Len(t)]
          /\ \A i \in 1 .. Len(t) : g[i] = g[i - 1] \o BytesFor(t[i])
    BY <2>1, EncodedIs
  <2> DEFINE Same == {i \in 0 .. n : f[i] = g[i]}
  <2>4. ASSUME NEW i \in 1 .. n, i - 1 \in Same PROVE i \in Same
    <3>1. i \in 1 .. Len(t) /\ t[i] = s[i] /\ i \in 0 .. n
      <4>1. n \in Nat /\ Len(t) = n + 1
        BY <2>1
      <4>2. i \in 1 .. Len(t) /\ i \in 0 .. n
        BY ONLY <4>1, i \in 1 .. n
      <4>3. t[i] = s[i]
        BY <2>1
      <4> QED
        BY <4>2, <4>3
    <3>2. f[i - 1] = g[i - 1]
      BY <2>4
    <3>3. f[i] = g[i]
      BY <2>2, <2>3, <3>1, <3>2
    <3> QED
      BY <3>1, <3>3
  <2>5. f[n] = g[n]
    <3>1. 0 \in Same /\ n \in 0 .. n /\ Same \in SUBSET (0 .. n)
      BY <2>1, <2>2, <2>3
    <3>2. Same = 0 .. n
      <4> HIDE DEF Same
      <4> QED
        BY <2>1, <2>4, <3>1, CountingUp
    <3> QED
      BY <3>1, <3>2
  <2>6. g[n + 1] = g[n] \o BytesFor(c)
    <3>1. n + 1 \in 1 .. Len(t) /\ (n + 1) - 1 = n
      BY <2>1
    <3> QED
      BY <2>1, <2>3, <3>1
  <2>7. f[n] \in Seq(Octets)
    BY <2>1, <2>2
  <2> QED
    BY <2>1, <2>2, <2>3, <2>5, <2>6, <2>7 DEF t
<1> QED
  BY <1>1, <1>2

LEMMA DecodedGrows ==
  /\ Decoded(<<>>) = <<>>
  /\ \A s \in Seq(Octets), b \in Octets :
       Decoded(s) \in Seq(Chars) /\ Decoded(Append(s, b)) = Read(Decoded(s), LastOf(s), b)
<1>1. Decoded(<<>>) = <<>>
  <2>1. <<>> \in Seq(Octets) /\ Len(<<>>) = 0
    OBVIOUS
  <2> QED
    BY <2>1, DecodedIs
<1>2. ASSUME NEW s \in Seq(Octets), NEW b \in Octets
      PROVE  Decoded(s) \in Seq(Chars) /\ Decoded(Append(s, b)) = Read(Decoded(s), LastOf(s), b)
  <2> DEFINE t == Append(s, b)
             n == Len(s)
             Before(u, i) == IF i = 1 THEN "none" ELSE u[i - 1]
  <2>1. /\ t \in Seq(Octets) /\ n \in Nat /\ Len(t) = n + 1 /\ t[n + 1] = b
        /\ \A i \in 1 .. n : t[i] = s[i]
    BY AppendedTo
  <2>2. LastOf(s) = Before(t, n + 1)
    <3>1. s = <<>> <=> n = 0
      OBVIOUS
    <3>2. n # 0 => n \in 1 .. n /\ (n + 1) - 1 = n
      BY <2>1
    <3> HIDE DEF t
    <3> QED
      BY <2>1, <3>1, <3>2 DEF LastOf
  <2> HIDE DEF t, n
  <2>3. PICK f \in [0 .. n -> Seq(Chars)] :
          /\ f[0] = <<>> /\ Decoded(s) = f[n]
          /\ \A i \in 1 .. n : f[i] = Read(f[i - 1], Before(s, i), s[i])
    BY DecodedIs DEF n
  <2>4. PICK g \in [0 .. Len(t) -> Seq(Chars)] :
          /\ g[0] = <<>> /\ Decoded(t) = g[Len(t)]
          /\ \A i \in 1 .. Len(t) : g[i] = Read(g[i - 1], Before(t, i), t[i])
    BY <2>1, DecodedIs
  <2>5. \A i \in 1 .. n : Before(s, i) = Before(t, i)
    BY <2>1
  <2> HIDE DEF Before
  <2> DEFINE Same == {i \in 0 .. n : f[i] = g[i]}
  <2>6. ASSUME NEW i \in 1 .. n, i - 1 \in Same PROVE i \in Same
    <3>1. i \in 1 .. Len(t) /\ t[i] = s[i] /\ i \in 0 .. n
      <4>1. n \in Nat /\ Len(t) = n + 1
        BY <2>1
      <4>2. i \in 1 .. Len(t) /\ i \in 0 .. n
        BY ONLY <4>1, i \in 1 .. n
      <4>3. t[i] = s[i]
        BY <2>1
      <4> QED
        BY <4>2, <4>3
    <3>2. f[i - 1] = g[i - 1] /\ Before(s, i) = Before(t, i)
      BY <2>5, <2>6
    <3>3. f[i] = g[i]
      BY <2>3, <2>4, <3>1, <3>2
    <3> QED
      BY <3>1, <3>3
  <2>7. f[n] = g[n]
    <3>1. 0 \in Same /\ n \in 0 .. n /\ Same \in SUBSET (0 .. n)
      BY <2>1, <2>3, <2>4
    <3>2. Same = 0 .. n
      <4> HIDE DEF Same
      <4> QED
        BY <2>1, <2>6, <3>1, CountingUp
    <3> QED
      BY <3>1, <3>2
  <2>8. g[n + 1] = Read(g[n], LastOf(s), b)
    <3>1. n + 1 \in 1 .. Len(t) /\ (n + 1) - 1 = n
      BY <2>1
    <3> QED
      BY <2>1, <2>2, <2>4, <3>1
  <2>9. f[n] \in Seq(Chars)
    BY <2>1, <2>3
  <2> QED
    BY <2>1, <2>3, <2>4, <2>7, <2>8, <2>9 DEF t
<1> QED
  BY <1>1, <1>2

LEMMA FrontAppended ==
  ASSUME NEW E, NEW s \in Seq(E), NEW e \in E
  PROVE  Front(Append(s, e)) = s
<1>1. Append(s, e) \in Seq(E) /\ Len(s) \in Nat /\ Len(Append(s, e)) = Len(s) + 1
  BY AppendedTo
<1>2. Front(Append(s, e)) = SubSeq(Append(s, e), 1, Len(s))
  BY <1>1 DEF Front
<1> QED
  BY <1>2

(* What is written can be read: a text is what its bytes are read as.       *)
LEMMA RoundTrip ==
  \A s \in Seq(Chars) : Decoded(Encoded(s)) = s /\ LastOf(Encoded(s)) # "lead"
<1> DEFINE Back(s) == Decoded(Encoded(s)) = s /\ LastOf(Encoded(s)) # "lead"
           Good == {s \in Seq(Chars) : Back(s)}
<1>1. <<>> \in Good
  BY EncodedGrows, DecodedGrows DEF LastOf
<1>2. ASSUME NEW s \in Good, NEW c \in Chars PROVE Append(s, c) \in Good
  <2> DEFINE u == Encoded(s)
             t == Append(s, c)
  <2>1. s \in Seq(Chars) /\ t \in Seq(Chars) /\ u \in Seq(Octets) /\ Decoded(u) = s /\ LastOf(u) # "lead"
    BY EncodedGrows
  <2>2. Encoded(t) = u \o BytesFor(c)
    BY EncodedGrows
  <2> HIDE DEF u, t
  <2>3. ASSUME NEW w \in Seq(Octets), NEW b \in Octets
        PROVE  LastOf(Append(w, b)) = b
    <3>1. /\ Len(w) \in Nat /\ Len(Append(w, b)) = Len(w) + 1
          /\ Append(w, b)[Len(w) + 1] = b
      BY AppendedTo
    <3>2. Append(w, b) # <<>>
      BY <3>1
    <3> QED
      BY <3>1, <3>2 DEF LastOf
  <2>4. CASE c = "wide"
    <3>1. "lead" \in Octets /\ "trail" \in Octets
      BY DEF Octets
    <3> DEFINE v == Append(u, "lead")
    <3>2. v \in Seq(Octets) /\ LastOf(v) = "lead"
      BY <2>1, <2>3, <3>1
    <3>3. u \o BytesFor(c) = Append(v, "trail")
      BY <2>1, <2>4, <3>1 DEF BytesFor
    <3>4. Decoded(v) = Append(s, "lost")
      <4>1. Decoded(v) = Read(s, LastOf(u), "lead")
        BY <2>1, <3>1, DecodedGrows
      <4> QED
        BY <4>1 DEF Read
    <3> HIDE DEF v
    <3>5. Decoded(Append(v, "trail")) = Append(Front(Append(s, "lost")), "wide")
      <4>1. Decoded(Append(v, "trail")) = Read(Decoded(v), "lead", "trail")
        BY <3>1, <3>2, DecodedGrows
      <4> QED
        BY <3>4, <4>1 DEF Read
    <3>6. Front(Append(s, "lost")) = s
      <4>1. "lost" \in Chars
        BY DEF Chars
      <4> QED
        BY <2>1, <4>1, FrontAppended
    <3>7. LastOf(Append(v, "trail")) = "trail"
      BY <2>3, <3>1, <3>2
    <3>8. Back(t)
      BY <2>2, <2>4, <3>3, <3>5, <3>6, <3>7 DEF t
    <3> QED
      BY <2>1, <3>8 DEF t
  <2>5. CASE c # "wide"
    <3>1. c \in Octets /\ c \notin {"lead", "trail"}
      BY <2>5 DEF Chars, Octets
    <3>2. u \o BytesFor(c) = Append(u, c)
      BY <2>1, <2>5, <3>1 DEF BytesFor
    <3>3. Decoded(Append(u, c)) = Read(s, LastOf(u), c)
      BY <2>1, <3>1, DecodedGrows
    <3>4. Decoded(Append(u, c)) = Append(s, c)
      BY <3>1, <3>3 DEF Read
    <3>5. LastOf(Append(u, c)) # "lead"
      BY <2>1, <2>3, <3>1
    <3>6. Back(t)
      BY <2>2, <3>2, <3>4, <3>5 DEF t
    <3> QED
      BY <2>1, <3>6 DEF t
  <2> QED
    BY <2>4, <2>5
<1>3. Good = Seq(Chars)
  <2>1. Good \in SUBSET Seq(Chars)
    OBVIOUS
  <2> HIDE DEF Good
  <2> QED
    BY <1>1, <1>2, <2>1, GrowingUp
<1> QED
  BY <1>3

LEMMA ShownIsText ==
  ASSUME NEW view \in Views
  PROVE  ViewToString(view) \in Seq(Chars)
<1> DEFINE text  == Decoded(view)
           shown == {i \in DOMAIN text : text[i] # "NUL"}
<1>1. text \in Seq(Chars)
  <2>1. view \in Seq(Octets) /\ "char" \in Octets
    BY HostServicesAssumption DEF Octets
  <2> QED
    BY <2>1, DecodedGrows
<1>2. ViewToString(view) = IF shown = {} THEN <<>> ELSE SubSeq(text, Min(shown), Max(shown))
  BY DEF ViewToString
<1> HIDE DEF text
<1>3. CASE shown = {}
  BY <1>2, <1>3
<1>4. CASE shown # {}
  <2>1. shown \subseteq 1 .. Len(text) /\ Len(text) \in Nat /\ shown \subseteq Nat
        /\ shown \subseteq 0 .. Len(text)
    BY <1>1
  <2> HIDE DEF shown
  <2>2. Min(shown) \in 1 .. Len(text)
    BY <1>4, <2>1, LeastOne
  <2>3. Max(shown) \in 1 .. Len(text)
    <3>1. PICK i \in shown : \A j \in shown : j <= i
      BY <1>4, <2>1, GreatestOne
    <3>2. \A j \in shown : i >= j
      BY <2>1, <3>1
    <3>3. Max(shown) \in shown
      BY <3>2 DEF Max
    <3> QED
      BY <2>1, <3>3
  <2>4. SubSeq(text, Min(shown), Max(shown)) \in Seq(Chars)
    BY <1>1, <2>2, <2>3
  <2> QED
    BY <1>2, <1>4, <2>4
<1> QED
  BY <1>3, <1>4

(* copy_text: nothing is written past the buffer.                          *)
LEMMA BufferIs ==
  ASSUME NEW room \in Nat
  PROVE  /\ Buffer(room) \in Seq({"old"}) /\ Len(Buffer(room)) = room
         /\ Buffer(room) = <<>> <=> room = 0
         /\ \A k \in 1 .. room + 1 : SubSeq(Buffer(room), k, room) = Buffer(room + 1 - k)
<1> DEFINE B == Buffer(room)
<1>1. B \in Seq({"old"}) /\ Len(B) = room /\ \A i \in 1 .. room : B[i] = "old"
  BY DEF Buffer
<1>2. B = <<>> <=> room = 0
  BY <1>1
<1>3. ASSUME NEW k \in 1 .. room + 1
      PROVE  SubSeq(B, k, room) = Buffer(room + 1 - k)
  <2> DEFINE s == SubSeq(B, k, room)
             t == Buffer(room + 1 - k)
  <2>1. room + 1 - k \in Nat
    OBVIOUS
  <2>2. t \in Seq({"old"}) /\ Len(t) = room + 1 - k /\ \A i \in 1 .. Len(t) : t[i] = "old"
    BY <2>1 DEF Buffer
  <2> HIDE DEF B
  <2>3. s \in Seq({"old"}) /\ Len(s) = room + 1 - k /\ \A i \in 1 .. Len(s) : s[i] = "old"
    BY <1>1
  <2> HIDE DEF s, t
  <2>4. s = t
    BY <2>2, <2>3, SeqEqual
  <2> QED
    BY <2>4 DEF s, t
<1> QED
  BY <1>1, <1>2, <1>3

LEMMA AnythingFits ==
  ASSUME NEW bytes \in Seq(Octets), NEW room \in Nat
  PROVE  FitsIn(bytes, room)
<1> DEFINE B == Buffer(room)
           length == Min({Len(bytes), Len(B) - 1})
           end == Min({Len(bytes), room - 1})
           copied == SubSeq(bytes, 1, length) \o <<"NUL">>
           got == CopyText(bytes, B)
<1>1. /\ B \in Seq({"old"}) /\ Len(B) = room /\ (B = <<>> <=> room = 0)
      /\ \A k \in 1 .. room + 1 : SubSeq(B, k, room) = Buffer(room + 1 - k)
  BY BufferIs
<1>2. got.length = Len(bytes) /\
      got.buffer = IF B = <<>> THEN <<>> ELSE copied \o SubSeq(B, Len(copied) + 1, Len(B))
  BY DEF CopyText
<1> HIDE DEF B, got
<1>3. length = end
  BY <1>1
<1>4. CASE room = 0
  BY <1>1, <1>2, <1>4 DEF FitsIn, got, B
<1>5. CASE room > 0
  <2>1. end \in {Len(bytes), room - 1} /\ end <= Len(bytes) /\ end <= room - 1
    <3> DEFINE S == {Len(bytes), room - 1}
    <3>1. S \subseteq Nat /\ S # {} /\ Len(bytes) \in S /\ room - 1 \in S
      BY <1>5
    <3> HIDE DEF S
    <3>2. Min(S) \in S /\ \A i \in S : Min(S) <= i
      BY <3>1, LeastOne
    <3> QED
      BY <3>1, <3>2 DEF S
  <2>2. end \in 0 .. Len(bytes) /\ end \in 0 .. room - 1
    BY <1>5, <2>1
  <2> HIDE DEF end, length
  <2> DEFINE begin == SubSeq(bytes, 1, end)
             rest  == Buffer(room - 1 - end)
  <2>3. begin \in Seq(Octets) /\ Len(begin) = end
    BY <2>2
  <2>4. copied \in Seq(Octets) /\ Len(copied) = end + 1
    <3> HIDE DEF begin
    <3>1. "NUL" \in Octets /\ copied = begin \o <<"NUL">>
      BY <1>3 DEF Octets, begin
    <3> HIDE DEF copied
    <3> QED
      BY <2>2, <2>3, <3>1
  <2>5. SubSeq(B, end + 2, room) = rest
    <3>1. end + 2 \in 1 .. room + 1 /\ room + 1 - (end + 2) = room - 1 - end
      BY <2>2
    <3> QED
      BY <1>1, <3>1
  <2>6. rest \in Seq({"old"}) /\ Len(rest) = room - 1 - end
    <3>1. room - 1 - end \in Nat
      BY <2>2
    <3> QED
      BY <3>1, BufferIs
  <2>7. got.buffer = copied \o rest
    <3> HIDE DEF copied, rest
    <3>1. Len(copied) + 1 = end + 2
      BY <2>2, <2>4
    <3>2. B # <<>>
      BY <1>1, <1>5
    <3>3. got.buffer = copied \o SubSeq(B, Len(copied) + 1, Len(B))
      BY <1>2, <3>2
    <3>4. SubSeq(B, Len(copied) + 1, Len(B)) = rest
      BY <1>1, <2>5, <3>1
    <3> QED
      BY <3>3, <3>4
  <2>8. Len(copied \o rest) = room
    <3> HIDE DEF copied, rest
    <3>1. copied \in Seq(Octets \cup {"old"}) /\ rest \in Seq(Octets \cup {"old"})
      BY <2>4, <2>6
    <3>2. Len(copied \o rest) = Len(copied) + Len(rest)
      BY <3>1, ConcatProperties
    <3> QED
      BY <2>2, <2>4, <2>6, <3>2
  <2>9. got.buffer = begin \o <<"NUL">> \o rest
    BY <1>3, <2>7
  <2> HIDE DEF begin, rest, copied
  <2> QED
    BY <1>2, <2>7, <2>8, <2>9 DEF FitsIn, got, B, end, begin, rest
<1> QED
  BY <1>4, <1>5

(* CreateDirAll adds directories and nothing else.                         *)
LEMMA WayOnlyAdds ==
  ASSUME NEW disk \in Disks, NEW p, NEW depth
  PROVE  /\ WithWayTo(disk, p, depth) \in Disks
         /\ \A q \in Places :
              \/ WithWayTo(disk, p, depth)[q] = disk[q]
              \/ disk[q] = Absent /\ WithWayTo(disk, p, depth)[q] = Directory
BY DEF WithWayTo, Disks

LEMMA DirsOnlyAdd ==
  ASSUME NEW disk \in Disks, NEW p
  PROVE  /\ CreateDirAll(disk, p) \in Disks
         /\ \A q \in Places :
              \/ CreateDirAll(disk, p)[q] = disk[q]
              \/ disk[q] = Absent /\ CreateDirAll(disk, p)[q] = Directory
BY WayOnlyAdds DEF CreateDirAll

(* A mod that has room for it reads back a text that was written.          *)
LEMMA TextReadsBack ==
  ASSUME NEW disk, NEW p, NEW view \in Views, disk[p] \in Contents,
         Says[disk[p]] = Encoded(ViewToString(view))
  PROVE  LET text == Encoded(ViewToString(view))
         IN HostReadTextFile(disk, p, Buffer(Len(text) + 1))
              = [length |-> Len(text), buffer |-> Append(text, "NUL")]
<1> DEFINE shown == ViewToString(view)
           text == Encoded(shown)
           room == Len(text) + 1
           got  == CopyText(text, Buffer(room))
<1>1. shown \in Seq(Chars)
  BY ShownIsText
<1> HIDE DEF shown
<1>2. text \in Seq(Octets)
  <2>1. "char" \in Chars
    BY DEF Chars
  <2> QED
    BY <1>1, <2>1, EncodedGrows
<1>3. Unicode(text)
  BY <1>1, RoundTrip DEF Unicode
<1> HIDE DEF text
<1>4. HostReadTextFile(disk, p, Buffer(room)) = got
  BY <1>3 DEF HostReadTextFile, IsFile, text, shown
<1>5. Len(text) \in Nat /\ room \in Nat /\ room > 0 /\ room - 1 = Len(text) /\ room - 1 - Len(text) = 0
  BY <1>2
<1> HIDE DEF room
<1>6. Min({Len(text), room - 1}) = Len(text)
  <2>1. {Len(text), room - 1} = {Len(text)}
    BY <1>5
  <2>2. Min({Len(text)}) \in {Len(text)}
    BY <1>5, LeastOne
  <2> QED
    BY <2>1, <2>2
<1>7. got.buffer = Append(text, "NUL")
  <2>1. got.buffer = SubSeq(text, 1, Len(text)) \o <<"NUL">> \o Buffer(0)
    <3>1. FitsIn(text, room)
      BY <1>2, <1>5, AnythingFits
    <3> QED
      BY <1>5, <1>6, <3>1 DEF FitsIn
  <2>2. Buffer(0) = <<>>
    BY BufferIs
  <2>3. SubSeq(text, 1, Len(text)) = text
    BY <1>2
  <2>4. text \o <<"NUL">> \o <<>> = Append(text, "NUL")
    BY <1>2 DEF Octets
  <2> QED
    BY <2>1, <2>2, <2>3, <2>4
<1>8. got = [length |-> Len(text), buffer |-> got.buffer]
  BY DEF CopyText
<1> HIDE DEF got
<1>9. got = [length |-> Len(text), buffer |-> Append(text, "NUL")]
  BY <1>7, <1>8
<1> QED
  BY <1>4, <1>9 DEF text, shown, room

LEMMA WritesStay ==
  WritesAreKept
<1> SUFFICES ASSUME NEW disk \in ConsistentDisks, NEW p \in Places, NEW allowed \in BOOLEAN
             PROVE  LET Kept(after) ==
                          \A q \in Places :
                            after[q] = disk[q]
                            \/ (allowed /\ disk[q] = Absent /\ after[q] = Directory)
                    IN /\ \A kind \in {"game", "mods", "cache", "other"} :
                            Kept(HostGetPath(allowed, disk, kind).disk)
                       /\ LET made == HostCreateDir(allowed, disk, p)
                          IN Kept(made.disk) /\ (made.answer => HostPathExists(made.disk, p))
                       /\ \A view \in Views :
                            LET wrote == HostWriteTextFile(allowed, disk, p, view)
                                text  == Encoded(ViewToString(view))
                                read  == HostReadTextFile(wrote.disk, p, Buffer(Len(text) + 1))
                            IN IF wrote.answer = 0
                               THEN /\ allowed
                                    /\ read = [length |-> Len(text), buffer |-> Append(text, "NUL")]
                                    /\ Kept([wrote.disk EXCEPT ![p] = disk[p]])
                               ELSE Kept(wrote.disk)
  BY DEF WritesAreKept
<1> DEFINE Kept(after) ==
             \A q \in Places :
               after[q] = disk[q] \/ (allowed /\ disk[q] = Absent /\ after[q] = Directory)
<1>1. disk \in Disks
  BY DEF ConsistentDisks
<1>2. Kept(disk)
  OBVIOUS
<1>3. ASSUME NEW at, allowed PROVE Kept(CreateDirAll(disk, at))
  BY <1>1, <1>3, DirsOnlyAdd
<1>4. ASSUME NEW kind \in {"game", "mods", "cache", "other"}
      PROVE  Kept(HostGetPath(allowed, disk, kind).disk)
  <2> DEFINE place == CASE kind = "game"  -> GameDir
                        [] kind = "mods"  -> Append(GameDir, ModsName)
                        [] kind = "cache" -> GameDir \o <<ModsName, CacheName>>
                        [] OTHER          -> <<>>
  <2>1. HostGetPath(allowed, disk, kind).disk
          = IF kind = "cache" /\ allowed THEN CreateDirAll(disk, place) ELSE disk
    BY DEF HostGetPath, Result
  <2> HIDE DEF Kept, place
  <2> QED
    BY <1>2, <1>3, <2>1
<1>5. LET made == HostCreateDir(allowed, disk, p)
      IN Kept(made.disk) /\ (made.answer => HostPathExists(made.disk, p))
  <2> DEFINE made == HostCreateDir(allowed, disk, p)
             after == CreateDirAll(disk, p)
  <2> HIDE DEF Kept, after
  <2>1. made = IF ~allowed THEN [disk |-> disk, answer |-> FALSE]
               ELSE [disk |-> after, answer |-> (after[p] = Directory)]
    BY DEF HostCreateDir, Result, after
  <2> HIDE DEF made
  <2>2. CASE ~allowed
    <3>1. made.disk = disk /\ made.answer = FALSE
      BY <2>1, <2>2
    <3>2. Kept(made.disk)
      BY <1>2, <3>1
    <3> QED
      BY <3>1, <3>2 DEF made
  <2>3. CASE allowed
    <3>1. made.disk = after /\ made.answer = (after[p] = Directory)
      BY <2>1, <2>3
    <3>2. Kept(after)
      BY <1>3, <2>3 DEF after
    <3>3. made.answer => made.disk[p] = Directory
      BY <3>1
    <3>4. made.answer => HostPathExists(made.disk, p)
      BY <3>3 DEF HostPathExists, Absent, Directory
    <3>5. Kept(made.disk)
      BY <3>1, <3>2
    <3> QED
      BY <3>4, <3>5 DEF made
  <2> QED
    BY <2>2, <2>3 DEF made
<1>6. ASSUME NEW view \in Views
      PROVE  LET wrote == HostWriteTextFile(allowed, disk, p, view)
                 text  == Encoded(ViewToString(view))
                 read  == HostReadTextFile(wrote.disk, p, Buffer(Len(text) + 1))
             IN IF wrote.answer = 0
                THEN /\ allowed
                     /\ read = [length |-> Len(text), buffer |-> Append(text, "NUL")]
                     /\ Kept([wrote.disk EXCEPT ![p] = disk[p]])
                ELSE Kept(wrote.disk)
  <2> DEFINE wrote == HostWriteTextFile(allowed, disk, p, view)
             text  == Encoded(ViewToString(view))
             read  == HostReadTextFile(wrote.disk, p, Buffer(Len(text) + 1))
             way   == CreateDirAll(disk, Front(p))
             new   == CHOOSE c \in Contents : Says[c] = text
             put   == Put(way, p, new)
             done  == IF put.answer = "done" THEN 0 ELSE -1
  <2>1. way \in Disks
    BY <1>1, DirsOnlyAdd
  <2>2. new \in Contents /\ Says[new] = text
    <3>1. \E c \in Contents : Says[c] = text
      BY ContentsAssumption
    <3> HIDE DEF text
    <3> QED
      BY <3>1
  <2>3. wrote = IF ~allowed THEN [disk |-> disk, answer |-> -3]
                ELSE IF ~IsDirectory(way, Front(p)) THEN [disk |-> way, answer |-> -2]
                ELSE [disk |-> put.disk, answer |-> done]
    BY DEF HostWriteTextFile, Result
  <2>4. put = IF ~IsDirectory(way, Front(p)) THEN [disk |-> way, answer |-> "no path"]
              ELSE IF way[p] = Directory THEN [disk |-> way, answer |-> "denied"]
              ELSE [disk |-> [way EXCEPT ![p] = new], answer |-> "done"]
    BY DEF Put, CanHold, Refused, Result
  <2>5. ASSUME allowed PROVE Kept(way)
    BY <1>3, <2>5
  <2> HIDE DEF Kept, way, text, new, put, wrote
  <2>6. CASE ~allowed
    <3>1. wrote.answer # 0 /\ wrote.disk = disk
      BY <2>3, <2>6
    <3> QED
      BY <1>2, <3>1 DEF wrote
  <2>7. CASE allowed /\ ~IsDirectory(way, Front(p))
    <3>1. wrote.answer # 0 /\ wrote.disk = way
      BY <2>3, <2>7
    <3> QED
      BY <2>5, <2>7, <3>1 DEF wrote
  <2>8. CASE allowed /\ IsDirectory(way, Front(p)) /\ way[p] = Directory
    <3>1. put.answer # "done" /\ put.disk = way
      BY <2>4, <2>8
    <3>2. wrote.answer # 0 /\ wrote.disk = way
      BY <2>3, <2>8, <3>1
    <3> QED
      BY <2>5, <2>8, <3>2 DEF wrote
  <2>9. CASE allowed /\ IsDirectory(way, Front(p)) /\ way[p] # Directory
    <3>1. put.answer = "done" /\ put.disk = [way EXCEPT ![p] = new]
      BY <2>4, <2>9
    <3>2. wrote.answer = 0 /\ wrote.disk = [way EXCEPT ![p] = new]
      BY <2>3, <2>9, <3>1
    <3>3. wrote.disk[p] = new
      BY <2>1, <3>2 DEF Disks
    <3>4. read = [length |-> Len(text), buffer |-> Append(text, "NUL")]
      BY <2>2, <3>3, TextReadsBack DEF text
    <3>5. Kept([wrote.disk EXCEPT ![p] = disk[p]])
      BY <2>1, <2>5, <2>9, <3>2 DEF Kept, Disks
    <3> QED
      BY <2>9, <3>2, <3>4, <3>5 DEF wrote, text
  <2> QED
    BY <2>6, <2>7, <2>8, <2>9
<1> QED
  BY <1>4, <1>5, <1>6

(* loaded_mods grows by one mod at a time.                                 *)
LEMMA LoadedGrowsByOne ==
  ASSUME HostNext
  PROVE  loadedMods' = loadedMods \/ loadedMods' = loadedMods \cup {boot.mod}
<1> USE DEF modState
<1>1. CASE Loading
  BY <1>1 DEF Loading, BeginLoad, EnterLoad, LeaveLoad, Fail, EnterMain, LeaveMain, Rename,
     EnterOnLoad, LeaveOnLoad, FinishLoad
<1>2. CASE Dispatching
  BY <1>2 DEF Dispatching, BeginDispatch, Call, CallReturns, FindOwner, NextPhase
<1>3. CASE Hot
  BY <1>3 DEF Hot, HotBegin, HotEnter, HotLeave, HotTurn
<1>4. CASE Registering
  BY <1>4 DEF Registering, HostRegister, RegisterModLang
<1> QED
  BY <1>1, <1>2, <1>3, <1>4 DEF HostNext, Boot

(* What a mod asks for fits in whatever room it has for it.                *)
LEMMA InfoFits ==
  ASSUME IsFiniteSet(loadedMods), NEW key \in InfoKeys, NEW room \in Nat
  PROVE  FitsIn(Encoded(HostRuntimeInfo(key)), room)
<1> DEFINE info == HostRuntimeInfo(key)
<1>1. info \in Seq(Chars)
  <2>1. "char" \in Chars /\ <<"char">> \in Seq(Chars) /\ <<>> \in Seq(Chars)
    BY DEF Chars
  <2> DEFINE n == Cardinality(loadedMods)
             list == [i \in 1 .. n |-> "char"]
  <2>2. n \in Nat
    BY FS_CardinalityType
  <2> HIDE DEF n
  <2>3. list \in Seq(Chars)
    BY <2>1, <2>2
  <2> HIDE DEF list
  <2> QED
    BY <2>1, <2>3 DEF HostRuntimeInfo, IsPublicRuntimeInfoKey, InfoKeys, list, n
<1> HIDE DEF info
<1>2. Encoded(info) \in Seq(Octets)
  <2>1. "char" \in Chars
    BY DEF Chars
  <2> QED
    BY <1>1, <2>1, EncodedGrows
<1> QED
  BY <1>2, AnythingFits DEF info

(* host_get_path, host_create_dir, host_read_text_file, host_write_text_file *)
(* and host_get_runtime_info: an answer fits in the room a mod has for it, a *)
(* mod reads what it wrote, and nothing else is taken from the disk.        *)
THEOREM ServicesAreKept == HostSpec => []ServicesKeepWord
<1>1. HostInit => IsFiniteSet(loadedMods)
  BY FS_EmptySet DEF HostInit
<1>2. IsFiniteSet(loadedMods) /\ [HostNext]_hostVars => IsFiniteSet(loadedMods)'
  <2> SUFFICES ASSUME IsFiniteSet(loadedMods), [HostNext]_hostVars
               PROVE  IsFiniteSet(loadedMods)'
    OBVIOUS
  <2>1. loadedMods' = loadedMods \/ loadedMods' = loadedMods \cup {boot.mod}
    BY LoadedGrowsByOne DEF hostVars, modState
  <2>2. IsFiniteSet(loadedMods \cup {boot.mod})
    BY FS_AddElement
  <2> QED
    BY <2>1, <2>2
<1>3. IsFiniteSet(loadedMods) => ServicesKeepWord
  <2> SUFFICES ASSUME IsFiniteSet(loadedMods), NEW key \in InfoKeys, NEW room \in 0 .. MaxRoom
               PROVE  FitsIn(Encoded(HostRuntimeInfo(key)), room)
    BY WritesStay DEF ServicesKeepWord
  <2>1. room \in Nat
    BY HostServicesAssumption
  <2> QED
    BY <2>1, InfoFits
<1> QED
  BY <1>1, <1>2, <1>3, PTL DEF HostSpec
=============================================================================
