---------------------------- MODULE ModLoader ----------------------------
(***************************************************************************)
(* How BLoader loads native modules: src/core/preloader_proxy.rs and       *)
(* src/core/loader.rs, with the LoadLibrary calls of src/bl/loader.rs.     *)
(*                                                                         *)
(* One package after another goes through load_and_verify_native, in up to *)
(* four passes over the same mods directory: the PreLoader, the native     *)
(* preloads before the game's entry point (only when there is no working   *)
(* PreLoader), then every preload package again in load_mods, the BL mods  *)
(* and the hot mods.  Between the check of the loaded modules, the         *)
(* LoadLibrary call and the verification, code that is not BLoader's loads *)
(* and frees modules.                                                      *)
(*                                                                         *)
(* The packages are numbered in the order of their names.  A package whose *)
(* manifest cannot be read takes no part: both passes skip it and none of  *)
(* its reports is required.                                                *)
(***************************************************************************)
EXTENDS Naturals, FiniteSets

CONSTANTS
    N,            \* the number of packages
    Manifests,    \* the manifests a package may have
    Dlls,         \* canonical DLL paths
    NoDll,        \* no module, or one of another path
    Base,         \* the file name of each
    PreLoaderDll, \* the file name PreLoader.dll
    Files,        \* the paths at which there is a file
    Present,      \* the sets of modules that may be loaded at the start
    Brings,       \* the DLLs whose loading may load others, and which
    Foreign,      \* the DLLs other code may load and free at any time
    TellLimit     \* the failures listed in a dialog (8)

Packages == 1..N
Types == {"preload", "native", "loose", "hot", "BL"}

ASSUME ModLoaderAssumption ==
    /\ N \in Nat /\ TellLimit \in Nat
    /\ NoDll \notin Dlls
    /\ Brings \in [Dlls -> SUBSET Dlls]
    /\ Files \subseteq Dlls /\ Foreign \subseteq Dlls
    /\ Present \subseteq SUBSET Dlls
    /\ \A m \in Manifests :
          /\ m.type \in Types
          /\ m.dll \in Dlls
          /\ {m.preLoader, m.required, m.exports} \subseteq BOOLEAN

VARIABLES
    mods,     \* the manifest of each package
    loaded,   \* the modules in the process
    held,     \* those BLoader called LoadLibrary for: it never frees them
    keys,     \* LOADED_DLL_KEYS
    proxy,    \* PreloaderProxyState
    pass,     \* the pass the loader is in
    left,     \* the packages this pass has still to handle
    cur,      \* the package in load_and_verify_native
    reports,  \* NATIVE_LOAD_REPORTS
    told      \* the packages whose failure the user has been told of

moduleVars == <<loaded, held>>
passVars == <<pass, left, cur, reports, told>>
vars == <<mods, loaded, held, keys, proxy, pass, left, cur, reports, told>>

Idle == [mod |-> 0, at |-> "idle", got |-> NoDll, found |-> FALSE]

Dll(p) == mods[p].dll
OnDisk(p) == Dll(p) \in Files

\* What GetModuleHandleW may return for a file name.
Handles(name) == {d \in loaded : Base[d] = name}

\* A package named PreLoader comes before the others, which keep their order.
Precedes(p, q) ==
    \/ mods[p].preLoader /\ ~mods[q].preLoader
    \/ mods[p].preLoader = mods[q].preLoader /\ p < q

\* discover_candidates of the proxy; the priority load takes the first path.
Candidates ==
    {p \in Packages : mods[p].type = "preload" /\ Base[Dll(p)] = PreLoaderDll
                                               /\ OnDisk(p)}

\* The discovery of load_native_preloads_in_dllmain, which keeps packages
\* without a DLL, and of discover_mods, which drops them.
NativePreloads == {p \in Packages : mods[p].type = "native"}
Discovered(types) == {p \in Packages : mods[p].type \in types /\ OnDisk(p)}

\* The DLLs lying in mods itself, which discover_mods moves into packages of
\* their own.  When it cannot, or may not in the read-only mode, it leaves the
\* DLL out.
Packagings == SUBSET Discovered({"loose"})

Init ==
    /\ mods \in [Packages -> Manifests]
    /\ \A p, q, r \in Packages :
          p < q /\ q < r /\ mods[p].preLoader /\ mods[r].preLoader
              => mods[q].preLoader
    /\ loaded \in Present
    /\ held = {}
    /\ keys = {}
    /\ proxy = "untried"
    /\ pass = "preloader"
    /\ left = {}
    /\ cur = Idle
    /\ reports = {}
    /\ told = {}

-----------------------------------------------------------------------------
(* LoadLibrary, and code that is not BLoader's.                            *)

\* LoadLibrary runs the DLL's entry, which may load others before it succeeds
\* or fails.  It can also end up with a module of another path.
LoadLibrary(d, got) ==
    /\ \E others \in SUBSET Brings[d] :
          loaded' = loaded \cup others \cup ({got} \ {NoDll})
    /\ held' = held \cup ({got} \ {NoDll})

OthersLoad(d) ==
    /\ d \in Foreign \ loaded
    /\ loaded' = loaded \cup {d}
    /\ UNCHANGED <<mods, held, keys, proxy, passVars>>

OthersFree(d) ==
    /\ d \in (Foreign \cap loaded) \ held
    /\ loaded' = loaded \ {d}
    /\ UNCHANGED <<mods, held, keys, proxy, passVars>>

-----------------------------------------------------------------------------
(* try_load: the PreLoader.                                                *)

AfterProxy(state) ==
    /\ proxy' = state
    /\ pass' = IF state = "Loaded" THEN "publish" ELSE "premain"
    /\ left' = IF state = "Loaded" THEN {} ELSE NativePreloads
    /\ UNCHANGED <<mods, keys, cur, reports, told>>

NoCandidate ==
    /\ pass = "preloader"
    /\ Candidates = {}
    /\ AfterProxy("NotFound")
    /\ UNCHANGED moduleVars

\* A PreLoader.dll is in the process already, this one or another.
PreLoaderPresent(p) ==
    /\ pass = "preloader"
    /\ p \in Candidates
    /\ \E h \in Handles(PreLoaderDll) :
          AfterProxy(IF h = Dll(p) THEN "Loaded" ELSE "Failed")
    /\ UNCHANGED moduleVars

LoadPreLoader(p) ==
    /\ pass = "preloader"
    /\ p \in Candidates
    /\ Handles(PreLoaderDll) = {}
    /\ \E got \in {Dll(p), NoDll} :
          /\ LoadLibrary(Dll(p), got)
          /\ AfterProxy(IF got = Dll(p) THEN "Loaded" ELSE "Failed")

-----------------------------------------------------------------------------
(* load_and_verify_native.                                                 *)

Turn(p) ==
    /\ pass \in {"premain", "preload", "hot"}
    /\ cur = Idle
    /\ p \in left
    /\ \A q \in left \ {p} :
          CASE pass = "premain" -> p < q
            [] pass = "preload" -> Precedes(p, q)
            [] OTHER -> TRUE   \* by inject_delay_ms, which is the user's

(* Mutant: the first failure ends the pass. *)
ReportStops(p, state) ==
    /\ reports' = reports \cup {[mod |-> p, pass |-> pass, state |-> state]}
    /\ left' = IF state = "Failed" THEN {} ELSE left \ {p}
    /\ told' = IF pass # "premain" /\ state = "Failed" /\ mods[p].required
               THEN told \cup {p} ELSE told
    /\ cur' = Idle
    /\ UNCHANGED <<mods, proxy, pass>>

\* What the pass does with the report of p: the second pass stops at a working
\* package named PreLoader; all but the first tell of a required failure.
Report(p, state) ==
    /\ reports' = reports \cup {[mod |-> p, pass |-> pass, state |-> state]}
    /\ left' = IF pass = "preload" /\ mods[p].preLoader /\ state # "Failed"
               THEN {} ELSE left \ {p}
    /\ told' = IF pass # "premain" /\ state = "Failed" /\ mods[p].required
               THEN told \cup {p} ELSE told
    /\ cur' = Idle
    /\ UNCHANGED <<mods, proxy, pass>>

Proceed(p, at, got, found) ==
    /\ cur' = [mod |-> p, at |-> at, got |-> got, found |-> found]
    /\ UNCHANGED <<mods, proxy, pass, left, reports, told>>

\* The entry is no DLL, or this path was verified before.
Settled(p) ==
    /\ Turn(p)
    /\ \/ ~OnDisk(p) /\ Report(p, "Failed")
       \/ Dll(p) \in keys /\ Report(p, "AlreadyVerified")
    /\ UNCHANGED <<moduleVars, keys>>

\* The module of that file name, if there is one.
LookUp(p) ==
    /\ Turn(p)
    /\ OnDisk(p)
    /\ Dll(p) \notin keys
    /\ \/ /\ Handles(Base[Dll(p)]) = {}
          /\ Proceed(p, "load", NoDll, FALSE)
       \/ \E h \in Handles(Base[Dll(p)]) :
             IF h = Dll(p) THEN Proceed(p, "verify", h, TRUE)
                           ELSE Report(p, "Failed")
    /\ UNCHANGED <<moduleVars, keys>>

Fails(p) ==
    /\ LoadLibrary(Dll(p), NoDll)
    /\ Report(p, "Failed")
    /\ UNCHANGED keys

(* Mutant: the path counts as verified as soon as it is loaded. *)
LoadEarlyKey ==
    /\ cur.at = "load"
    /\ LET p == cur.mod
       IN  \/ Fails(p)
           \/ /\ LoadLibrary(Dll(p), Dll(p))
              /\ Proceed(p, "verify", Dll(p), FALSE)
              /\ keys' = keys \cup {Dll(p)}

\* load_native_library: it fails, or returns a module of this or another path.
Load ==
    /\ cur.at = "load"
    /\ LET p == cur.mod
       IN  \/ Fails(p)
           \/ \E got \in {Dll(p), NoDll} :
                 /\ LoadLibrary(Dll(p), got)
                 /\ Proceed(p, "verify", got, FALSE)
                 /\ UNCHANGED keys

\* The module's path, the exports and the modules the manifest lists.  A module
\* that was found may be gone again.
Verified(p) ==
    /\ cur.got = Dll(p)
    /\ Dll(p) \in loaded
    /\ mods[p].exports
    /\ \A name \in mods[p].modules : Handles(name) # {}

Verify ==
    /\ cur.at = "verify"
    /\ LET p == cur.mod
       IN  IF Verified(p)
           THEN /\ keys' = keys \cup {Dll(p)}
                /\ Report(p, IF cur.found THEN "AlreadyVerified" ELSE "Verified")
           ELSE /\ Report(p, "Failed")
                /\ UNCHANGED keys
    /\ UNCHANGED moduleVars

-----------------------------------------------------------------------------
(* The passes.                                                             *)

PassOver == left = {} /\ cur = Idle

ToPass(next, list) ==
    /\ pass' = next
    /\ left' = list
    /\ UNCHANGED <<mods, moduleVars, keys, proxy, cur, reports>>

EndPremain ==
    /\ pass = "premain"
    /\ PassOver
    /\ ToPass("publish", {})
    /\ UNCHANGED told

\* The required failures of the first pass, and the first of them.
RequiredFailures ==
    {p \in Packages : /\ mods[p].required
                      /\ \E r \in reports : /\ r.mod = p /\ r.pass = "premain"
                                             /\ r.state = "Failed"}
Listed(p) == Cardinality({q \in RequiredFailures : q < p}) < TellLimit

(* Mutant: the reports of the first pass are published but nobody is told. *)
PublishSilently ==
    /\ pass = "publish"
    /\ UNCHANGED told
    /\ \/ \E loose \in Packagings :
             ToPass("preload", Discovered({"preload", "native"}) \cup loose)
       \/ ToPass("disabled", {})

(* Mutant: load_mods leaves the packages named PreLoader to the proxy. *)
PublishWithoutPreLoader ==
    /\ pass = "publish"
    /\ told' = told \cup {p \in RequiredFailures : Listed(p)}
    /\ \/ ToPass("preload", {p \in Discovered({"preload", "native"}) :
                                ~mods[p].preLoader})
       \/ ToPass("disabled", {})

\* publish_native_preload_reports and the dialog of bootstrap, then load_mods
\* unless disable_mod_loading is set.
Publish ==
    /\ pass = "publish"
    /\ told' = told \cup {p \in RequiredFailures : Listed(p)}
    /\ \/ \E loose \in Packagings :
             ToPass("preload", Discovered({"preload", "native"}) \cup loose)
       \/ ToPass("disabled", {})

EndPreload ==
    /\ pass = "preload"
    /\ PassOver
    /\ ToPass("BL", Discovered({"BL"}))
    /\ UNCHANGED told

BlTurn(p) == pass = "BL" /\ p \in left /\ \A q \in left : p <= q

\* load_bl_mod calls LoadLibrary itself, without looking at keys or modules;
\* an unsupported API version or a symbol requirement skips the mod.
LoadBl(p) ==
    /\ BlTurn(p)
    /\ left' = left \ {p}
    /\ \/ \E got \in {Dll(p), NoDll} : LoadLibrary(Dll(p), got)
       \/ UNCHANGED moduleVars
    /\ UNCHANGED <<mods, keys, proxy, pass, cur, reports, told>>

EndBl ==
    /\ pass = "BL"
    /\ PassOver
    /\ ToPass("hot", Discovered({"hot"}))
    /\ UNCHANGED told

EndHot ==
    /\ pass = "hot"
    /\ PassOver
    /\ ToPass("done", {})
    /\ UNCHANGED told

Rest == pass \in {"done", "disabled"} /\ UNCHANGED vars

PassStep ==
    \/ NoCandidate
    \/ EndPremain \/ Publish \/ EndPreload \/ EndBl \/ EndHot
    \/ \E p \in Packages : PreLoaderPresent(p) \/ LoadPreLoader(p) \/ LoadBl(p)
PackageStep ==
    \/ \E p \in Packages : Settled(p) \/ LookUp(p)
    \/ Load \/ Verify
OthersStep == \E d \in Dlls : OthersLoad(d) \/ OthersFree(d)

Next == PassStep \/ PackageStep \/ OthersStep \/ Rest

Spec == Init /\ [][Next]_vars

-----------------------------------------------------------------------------
(* Properties.                                                             *)

Passes == {"preloader", "premain", "publish", "preload", "BL", "hot", "done",
           "disabled"}
States == {"Verified", "AlreadyVerified", "Failed"}

TypeOK ==
    /\ mods \in [Packages -> Manifests]
    /\ loaded \in SUBSET Dlls
    /\ held \in SUBSET loaded
    /\ keys \in SUBSET Dlls
    /\ proxy \in {"untried", "NotFound", "Loaded", "Failed"}
    /\ pass \in Passes
    /\ left \in SUBSET Packages
    /\ \/ cur = Idle
       \/ cur \in [mod : left, at : {"load", "verify"}, got : Dlls \cup {NoDll},
                   found : BOOLEAN]
    /\ reports \in SUBSET [mod : Packages, pass : {"premain", "preload", "hot"},
                           state : States]
    /\ told \in SUBSET Packages

\* load_and_verify_native never sets out to load a DLL that BLoader has loaded
\* before, though the passes go over the same packages, packages share DLLs and
\* a DLL that failed its verification stays loaded.
LoadedOnce == cur.at = "load" => Dll(cur.mod) \notin held

\* A success is only ever reported for a DLL that passed the checks of a
\* package that names it: what failed its verification in one pass does not
\* become verified in the next because it is loaded.
VerifiedWasChecked ==
    \A r \in reports :
        r.state # "Failed" =>
            \E s \in reports : /\ s.state # "Failed"
                               /\ Dll(s.mod) = Dll(r.mod)
                               /\ mods[s.mod].exports

\* Without a working PreLoader every native preload has been attempted by the
\* time its reports are published, however many of the others failed
\* (docs/releases/0.2.16.md: the fallback is complete before the OEP).
FallbackComplete ==
    proxy # "Loaded" /\ pass \notin {"preloader", "premain"} =>
        \A p \in NativePreloads :
            \E r \in reports : r.mod = p /\ r.pass = "premain"

Succeeded(p) == \E r \in reports : r.mod = p /\ r.state # "Failed"

\* When loading is over, each required package BLoader answers for has been
\* verified at one time, or the user was told that it was not, unless the first
\* dialog was full.
RequiredAccounted ==
    pass = "done" =>
        \A p \in Packages :
            /\ mods[p].required
            /\ \/ mods[p].type = "native" /\ proxy # "Loaded" /\ Listed(p)
               \/ mods[p].type = "hot" /\ OnDisk(p)
            => Succeeded(p) \/ p \in told

\* What the releases promise: once the PreLoader is active BLoader loads no
\* preload package itself (docs/releases/0.2.14.md, 0.2.15.md, 0.2.16.md).
Delegated == proxy = "Loaded" /\ cur.at = "load" => mods[cur.mod].type = "hot"

\* p is the one package named PreLoader and the only one of its DLL; it asks for
\* no modules, and its exports are there.  Were another package to name the same
\* DLL, BLoader would load that one for it if the game had freed the PreLoader,
\* and the rest of the pass with it.
OnePreLoader(p) ==
    /\ p \in Candidates
    /\ mods[p].preLoader /\ mods[p].exports /\ mods[p].modules = {}
    /\ \A q \in Packages : mods[q].preLoader \/ Dll(q) = Dll(p) => q = p
    /\ \A d \in Dlls : Base[d] = PreLoaderDll => d = Dll(p)

\* The promise is kept when BLoader itself loaded such a PreLoader.
DelegationKept ==
    \A p \in Packages : OnePreLoader(p) /\ Dll(p) \in held => Delegated
=============================================================================
