------------------------------- MODULE ModHost -------------------------------
(***************************************************************************)
(* BL mods and whose words the log gives them: src/bl/host.rs,             *)
(* src/bl/loader.rs, the registry and scopes of                            *)
(* src/runtime/foundation/mod_diagnostics.rs, the capture of what they     *)
(* print (native_stdio.rs, console_capture.rs and the captured_* functions *)
(* of logging.rs) and their translations (i18n.rs).                        *)
(*                                                                         *)
(* "boot" loads the BL mods one after the other and then tells their       *)
(* handlers that the bootstrap is complete, while "hot" loads a native     *)
(* mod.  A mod has a thread of its own as soon as its DLL is mapped, the   *)
(* game prints too, and "reader" reads the pipe of standard output.  One   *)
(* step is one critical section, or one call of a mod's code.              *)
(*                                                                         *)
(* A callback returns: the shipped loader is built with panic = "abort",   *)
(* so one that panics ends the process (CrashReports has that).  No code   *)
(* calls dispatch_shutdown or dispatch_render_frame, and neither is here.  *)
(***************************************************************************)
EXTENDS PipeLines, HostServices

CONSTANTS
  Mods,        \* the BL mods, in whatever order they were discovered
  Native,      \* the DLL of a hot native mod
  Names,       \* what a mod may be called
  NoName,
  Nobody,      \* no mod
  Manifest,    \* Manifest[m]: its name in the manifest and what it answers to
  Runtime,     \* Runtime[m]: the same once its API table has named it
  Tags,        \* names that captured_console_output takes for a source
  Lines,       \* what is said: [prefix, mentions, source]
  Locales,     \* the locale in use and the default one, which may be the same
  MaxRegistered \* bound: how many handlers and texts are registered

ModDlls    == Mods \cup {Native}

ASSUME NamesAssumption ==
  /\ NoName \notin Names /\ Nobody \notin ModDlls /\ Native \notin Mods
  /\ {"BL", "game-stdio"} \cap (Names \cup {NoName}) = {}
  /\ {"boot", "hot", "game", "reader"} \cap ModDlls = {}
ASSUME ModsAssumption ==
  \A m \in ModDlls : \A c \in {Manifest[m], Runtime[m]} :
    c.name \in c.answers /\ c.answers \subseteq Names
ASSUME LinesAssumption ==
  /\ Tags \subseteq Names
  /\ Lines \subseteq [prefix : Names \cup {NoName}, mentions : SUBSET Names,
                      source : Names \cup {NoName}]
ASSUME BoundsAssumption == MaxRegistered \in Nat /\ DOMAIN Locales \subseteq Nat

VARIABLES
  registry, \* MODS: [dll, kind, name, answers], oldest first (CrashReports
            \* has the state of each)
  scopes,   \* ACTIVE_SCOPES: [thread, dll, name]; nobody enters a second one
  slot,     \* ACTIVE_MOD_NAME of "boot"; no other thread ever sets its own
  handlers, \* HOST_STATE: event_handlers and resources, in order
  loadedMods,   \* HOST_STATE: loaded_mods
  mapped,   \* the DLLs in the process
  given,    \* the mods that have been given HOST_API
  boot,     \* where the loader's thread is, and with which mod
  waiting,  \* the mods it has yet to load
  todo,     \* the handlers the dispatch has yet to call
  hot,      \* where the hot mods' thread is
  heard,     \* history: what each handler was told, in order
  texts     \* mod_translations: whose text there is for an owner and a locale

modState    == <<registry, loadedMods, mapped, given>>
runs    == <<boot, waiting, todo, slot, scopes>>
hostVars    == <<modState, runs, handlers, heard, texts, hot>>

NoRow  == [dll |-> Nobody, kind |-> "none", name |-> NoName, answers |-> {}]
Nowhere(at) == [at |-> at, mod |-> Nobody, name |-> NoName, row |-> NoRow, phase |-> "none"]

HostInit ==
  /\ registry = <<>> /\ scopes = {} /\ slot = NoName
  /\ handlers = <<>> /\ loadedMods = {} /\ mapped = {} /\ given = {}
  /\ boot = Nowhere("next") /\ waiting = Mods /\ todo = <<>> /\ hot = "unborn"
  /\ heard = <<>> /\ texts = <<>>

-----------------------------------------------------------------------------
(* The registry and the scopes.                                            *)

(* find_by_name: the first by name, id or alias, without regard to case *)
FindByName(n) ==
  LET rows == {i \in DOMAIN registry : n \in registry[i].answers}
  IN IF rows = {} THEN NoRow ELSE registry[Min(rows)]

(* register_discovered: a mod found again at the same path is renamed, and  *)
(* with default_aliases answers to its new id and name                      *)
Registered(rows, m, kind, as) ==
  IF \E i \in DOMAIN rows : rows[i].dll = m
  THEN [i \in DOMAIN rows |->
          IF rows[i].dll = m
          THEN [rows[i] EXCEPT !.kind = kind, !.name = as.name, !.answers = as.answers]
          ELSE rows[i]]
  ELSE Append(rows, [dll |-> m, kind |-> kind, name |-> as.name,
                     answers |-> as.answers])

Scope(t, m, n) == [thread |-> t, dll |-> m, name |-> n]

(* ModScopeGuard::drop *)
Without(t) == {s \in scopes : s.thread # t}

(* active_identity: the only scope there is, whoever asks, or the asking    *)
(* thread's own                                                             *)
ActiveIdentity(t) ==
  LET own == {s \in scopes : s.thread = t}
      pool == IF Cardinality(scopes) = 1 THEN scopes ELSE own
  IN IF Cardinality(pool) = 1 THEN (CHOOSE s \in pool : TRUE).name ELSE NoName

(* resolve_output_owner, when no scope says: the mod the line begins with,  *)
(* or the only one it mentions                                              *)
OwnerBySaying(line) ==
  LET mentioned == {i \in DOMAIN registry : registry[i].answers \cap line.mentions # {}}
  IN IF FindByName(line.prefix) # NoRow THEN FindByName(line.prefix).name
     ELSE IF Cardinality(mentioned) = 1
          THEN registry[CHOOSE i \in mentioned : TRUE].name
          ELSE NoName

ResolveOutputOwner(t, line) ==
  IF ActiveIdentity(t) # NoName THEN ActiveIdentity(t) ELSE OwnerBySaying(line)

-----------------------------------------------------------------------------
(* Who is speaking, on each thread.                                         *)

InModsCode == boot.at \in {"dll", "main", "onload", "callback"}

Speakers ==
  {[thread |-> m, by |-> m] : m \in mapped}
  \cup (IF InModsCode THEN {[thread |-> "boot", by |-> boot.mod]} ELSE {})
  \cup (IF hot = "dll" THEN {[thread |-> "hot", by |-> Native]} ELSE {})
  \cup {[thread |-> "game", by |-> "game"]}

(* current_mod_name *)
CurrentModName(t) == IF t = "boot" THEN slot ELSE NoName

(* What a mod is called, and the mods that find_by_name can take for it:     *)
(* one that answers to one of its names, and because what it registers while *)
(* it is taken for that one goes under that one's name, also one that        *)
(* answers to such a name, and so on.                                       *)
Called(m)    == {Manifest[m].name, Runtime[m].name}
AnswersTo(m) == Manifest[m].answers \cup Runtime[m].answers
Closed(S)    == \A m \in S, k \in ModDlls : Called(m) \cap AnswersTo(k) # {} => k \in S
Mistaken ==
  [m \in ModDlls |-> {k \in ModDlls :
                        \A S \in SUBSET ModDlls : m \in S /\ Closed(S) => k \in S}]
MayBeCalled(m) == UNION {Called(k) : k \in Mistaken[m]}

(* history: the names of the mods that are being run *)
BeingRun == (IF InModsCode THEN MayBeCalled(boot.mod) ELSE {})
            \cup (IF hot = "dll" THEN MayBeCalled(Native) ELSE {})

-----------------------------------------------------------------------------
(* Under whose name a line goes into the log.  Saying it changes nothing     *)
(* else, so these are functions of the state it is said (or read) in.        *)

(* resolve_host_log, and the lookup host_log passes to it: a worker's line   *)
(* goes to the BL mod its prefix names                                      *)
HostLogOwner(t, line) ==
  LET row    == FindByName(line.prefix)
      active == CurrentModName(t)
  IN IF active # NoName THEN active
     ELSE IF line.prefix # NoName /\ row.kind = "BL" THEN row.name ELSE "BL"

(* captured_console_output: the tag the line begins with, or the owner of   *)
(* the thread                                                               *)
ConsoleSource(owner, line) ==
  IF line.prefix \in Tags THEN line.prefix
  ELSE IF owner = NoName THEN "game-stdio" ELSE owner

(* intercept_w, intercept_a, intercept_file: text written to a console while *)
(* it is up is taken on the thread that writes it and goes no further; what   *)
(* the loader writes itself (with_passthrough) and anything else goes to the *)
(* function that was hooked                                                  *)
ConsoleOwner(t, line) == ConsoleSource(ResolveOutputOwner(t, line), line)

(* captured_mod_output, captured_process_output: a line in the format of     *)
(* another loader's log names its source itself                             *)
CapturedAs(owner, line) ==
  IF line.source # NoName THEN line.source
  ELSE IF owner = NoName THEN "game-stdio" ELSE owner

(* emit_line, on the thread that reads the pipe of standard output, at any   *)
(* time after it was printed: the scopes first, and if they do not say, the  *)
(* registry as it is then                                                   *)
EmittedByScope(line) ==
  IF ActiveIdentity("reader") = NoName THEN {}
  ELSE {CapturedAs(ActiveIdentity("reader"), line)}
EmittedBySaying(line) == CapturedAs(OwnerBySaying(line), line)

(* bl_register_mod_lang, I18nService::register_mod_lang and host_register    *)
(* take the owner this way, without asking what the caller calls itself      *)
OwnerName(t) == IF CurrentModName(t) = NoName THEN "BL" ELSE CurrentModName(t)

IsLoading == boot.at \in {"next", "load", "dll", "entry", "failed", "main", "rename",
                          "ready", "onload", "finish"}

Room == Len(handlers) + Cardinality(DOMAIN texts) < MaxRegistered

(* bl_register_mod_lang, an exported function that DllMain can call too:     *)
(* I18nService::register_mod_lang, a later text in place of the earlier     *)
RegisterModLang(s, locale) ==
  /\ s.by \in ModDlls
  /\ LET new == <<OwnerName(s.thread), locale>>
     IN /\ Room \/ new \in DOMAIN texts
        /\ texts' = [k \in DOMAIN texts \cup {new} |-> IF k = new THEN s.by ELSE texts[k]]
  /\ UNCHANGED <<modState, runs, handlers, heard, hot>>

(* bl_i18n_tr, I18nService::translate_for: the owner's text for the locale,  *)
(* for the default locale, or else the loader's                             *)
Translation(owner) ==
  LET found == {i \in DOMAIN Locales : <<owner, Locales[i]>> \in DOMAIN texts}
  IN IF found = {} THEN Nobody
     ELSE texts[<<owner, Locales[CHOOSE i \in found : \A j \in found : i <= j]>>]

(* host_register: the kinds of the panel service are refused and change     *)
(* nothing                                                                  *)
HostRegister(s, kind) ==
  /\ s.by \in given /\ Room
  /\ handlers' = Append(handlers, [kind |-> kind, owner |-> OwnerName(s.thread),
                                   by |-> s.by, early |-> IsLoading])
  /\ heard' = Append(heard, <<>>)
  /\ UNCHANGED <<modState, runs, texts, hot>>

(* host_get_runtime_info: loaded_mod_summaries, one character for each mod   *)
HostRuntimeInfo(key) ==
  IF ~IsPublicRuntimeInfoKey(key) THEN <<>>
  ELSE CASE key = "constant" -> <<"char">>
         [] key = "mod_list" -> [i \in 1 .. Cardinality(loadedMods) |-> "char"]
         [] key = "prefixed" -> <<>>

-----------------------------------------------------------------------------
(* load_bl_mod, on the loader's thread.                                     *)

At(from) == boot.at = from
Goto(to) == boot' = [boot EXCEPT !.at = to]

(* register_discovered and mark_loading, then the scope of LoadLibraryW and  *)
(* the active capture, which come and go together; DllMain runs in them     *)
BeginLoad(m) ==
  /\ At("next") /\ m \in waiting
  /\ waiting' = waiting \ {m}
  /\ registry' = Registered(registry, m, "BL", Manifest[m])
  /\ boot' = [boot EXCEPT !.at = "load", !.mod = m, !.name = Manifest[m].name]
  /\ UNCHANGED <<loadedMods, mapped, given, todo, slot, scopes, handlers, heard, texts, hot>>

EnterLoad ==
  /\ At("load") /\ Goto("dll")
  /\ scopes' = scopes \cup {Scope("boot", boot.mod, boot.name)}
  /\ UNCHANGED <<modState, waiting, todo, slot, handlers, heard, texts, hot>>

(* Mutant: a failed load leaves its scope behind. *)
LeaveLoadScoped ==
  /\ At("dll")
  /\ \/ Goto("entry") /\ scopes' = Without("boot") /\ mapped' = mapped \cup {boot.mod}
     \/ Goto("failed") /\ UNCHANGED <<scopes, mapped>>
  /\ UNCHANGED <<registry, loadedMods, given, waiting, todo, slot, handlers, heard, texts, hot>>

(* LoadLibraryW may fail, before any of the DLL's code has run or after      *)
(* DllMain returned FALSE.  Its threads start when DllMain has returned.    *)
LeaveLoad ==
  /\ At("dll")
  /\ scopes' = Without("boot")
  /\ \/ Goto("entry") /\ mapped' = mapped \cup {boot.mod}
     \/ Goto("failed") /\ UNCHANGED mapped
  /\ UNCHANGED <<registry, loadedMods, given, waiting, todo, slot, handlers, heard, texts, hot>>

(* mark_failed: LoadLibraryW failed, bl_mod_main_v1 is missing or returned   *)
(* null or another version.  What the mod has registered stays registered.   *)
Fail ==
  /\ At("failed") /\ Goto("next")
  /\ UNCHANGED <<modState, waiting, todo, slot, scopes, handlers, heard, texts, hot>>

(* with_active_mod_identity: the scope, then the name                        *)
RunAs(name) ==
  /\ scopes' = scopes \cup {Scope("boot", boot.mod, name)}
  /\ slot' = name

EnterMain ==
  /\ At("entry")
  /\ \/ Goto("main") /\ RunAs(boot.name) /\ given' = given \cup {boot.mod}
     \/ Goto("failed") /\ UNCHANGED <<scopes, slot, given>>
  /\ UNCHANGED <<registry, loadedMods, mapped, waiting, todo, handlers, heard, texts, hot>>

(* Mutant: the name is not put back. *)
LeaveMainNamed ==
  /\ At("main")
  /\ scopes' = Without("boot") /\ UNCHANGED slot
  /\ Goto("rename") \/ Goto("failed")
  /\ UNCHANGED <<modState, waiting, todo, handlers, heard, texts, hot>>

LeaveMain ==
  /\ At("main")
  /\ scopes' = Without("boot") /\ slot' = NoName
  /\ Goto("rename") \/ Goto("failed")
  /\ UNCHANGED <<modState, waiting, todo, handlers, heard, texts, hot>>

(* The API table names the mod: it is registered again, at the same path.    *)
Rename ==
  /\ At("rename")
  /\ registry' = Registered(registry, boot.mod, "BL", Runtime[boot.mod])
  /\ \/ boot' = [boot EXCEPT !.at = "ready", !.name = Runtime[boot.mod].name]
     \/ boot' = [boot EXCEPT !.at = "finish", !.name = Runtime[boot.mod].name]
  /\ UNCHANGED <<loadedMods, mapped, given, waiting, todo, slot, scopes, handlers, heard, texts, hot>>

EnterOnLoad ==
  /\ At("ready") /\ Goto("onload") /\ RunAs(boot.name)
  /\ UNCHANGED <<modState, waiting, todo, handlers, heard, texts, hot>>

(* A result other than 0 is only warned of. *)
LeaveOnLoad ==
  /\ At("onload") /\ Goto("finish")
  /\ scopes' = Without("boot") /\ slot' = NoName
  /\ UNCHANGED <<modState, waiting, todo, handlers, heard, texts, hot>>

(* register_loaded_mod, mark_loaded *)
FinishLoad ==
  /\ At("finish") /\ Goto("next")
  /\ loadedMods' = loadedMods \cup {boot.mod}
  /\ UNCHANGED <<registry, mapped, given, waiting, todo, slot, scopes, handlers, heard, texts, hot>>

-----------------------------------------------------------------------------
(* spawn_hot_mod_loader, then dispatch_bootstrap_complete: dispatch_event    *)
(* and, through dispatch_resource_reload, dispatch_event again and the      *)
(* resources.                                                               *)

(* A phase takes the handlers there are, and calls them outside the lock.      *)
Phases == <<"complete", "reload", "resources">>

Kind(phase) == IF phase = "resources" THEN "resource" ELSE "event"

OfKind(kind) ==
  LET Count(i) == Cardinality({j \in 1 .. i : handlers[j].kind = kind})
  IN [k \in 1 .. Count(Len(handlers)) |->
        CHOOSE i \in DOMAIN handlers : handlers[i].kind = kind /\ Count(i) = k]

Take(phase) ==
  /\ todo' = OfKind(Kind(phase))
  /\ boot' = Nowhere(phase)

(* Mutant: the resources are asked, and nobody hears of the bootstrap. *)
BeginDispatchOfResources ==
  /\ At("next") /\ waiting = {} /\ Take("resources")
  /\ hot' = "waits"
  /\ UNCHANGED <<modState, waiting, slot, scopes, handlers, heard, texts>>

BeginDispatch ==
  /\ At("next") /\ waiting = {} /\ Take("complete")
  /\ hot' = "waits"
  /\ UNCHANGED <<modState, waiting, slot, scopes, handlers, heard, texts>>

NextPhase(i) ==
  /\ At(Phases[i]) /\ todo = <<>>
  /\ IF i < Len(Phases) THEN Take(Phases[i + 1])
     ELSE Goto("done") /\ UNCHANGED todo
  /\ UNCHANGED <<modState, waiting, slot, scopes, handlers, heard, texts, hot>>

(* run_mod_callback_safely: the owner is looked up by the name it registered *)
(* under,                                                                   *)
FindOwner(i) ==
  /\ At(Phases[i]) /\ todo # <<>>
  /\ LET h == handlers[Head(todo)]
     IN boot' = [at |-> "found", mod |-> h.by, name |-> h.owner,
                 row |-> FindByName(h.owner), phase |-> Phases[i]]
  /\ UNCHANGED <<modState, waiting, todo, slot, scopes, handlers, heard, texts, hot>>

(* with or without a scope it runs under that name,                          *)
Call ==
  /\ At("found") /\ Goto("callback")
  /\ scopes' = IF boot.row = NoRow THEN scopes
               ELSE scopes \cup {Scope("boot", boot.row.dll, boot.row.name)}
  /\ slot' = IF boot.row = NoRow THEN boot.name ELSE boot.row.name
  /\ heard' = [heard EXCEPT ![Head(todo)] = Append(@, boot.phase)]
  /\ UNCHANGED <<modState, waiting, todo, handlers, texts, hot>>

(* and the name and the scope go when it returns.                            *)
CallReturns ==
  /\ At("callback")
  /\ scopes' = Without("boot") /\ slot' = NoName /\ todo' = Tail(todo)
  /\ boot' = Nowhere(boot.phase)
  /\ UNCHANGED <<modState, waiting, handlers, heard, texts, hot>>

-----------------------------------------------------------------------------
(* The hot mods' thread: the registration and the scope of a native DLL.     *)

HotTurn(from, to) ==
  /\ hot = from /\ hot' = to
  /\ UNCHANGED <<loadedMods, given, boot, waiting, todo, slot, handlers, heard, texts>>

HotBegin ==
  /\ HotTurn("waits", "load")
  /\ registry' = Registered(registry, Native, "hot-inject", Manifest[Native])
  /\ UNCHANGED <<mapped, scopes>>

HotEnter ==
  /\ HotTurn("load", "dll")
  /\ scopes' = scopes \cup {Scope("hot", Native, Manifest[Native].name)}
  /\ UNCHANGED <<registry, mapped>>

HotLeave ==   \* whether Windows took the DLL or refused it
  /\ HotTurn("dll", "done")
  /\ scopes' = Without("hot") /\ mapped' \in {mapped, mapped \cup {Native}}
  /\ UNCHANGED registry

-----------------------------------------------------------------------------
Loading ==
  \/ \E m \in Mods : BeginLoad(m)
  \/ EnterLoad \/ LeaveLoad \/ Fail \/ EnterMain \/ LeaveMain \/ Rename
  \/ EnterOnLoad \/ LeaveOnLoad \/ FinishLoad

Dispatching ==
  \/ BeginDispatch \/ Call \/ CallReturns
  \/ \E i \in DOMAIN Phases : FindOwner(i) \/ NextPhase(i)

Boot == Loading \/ Dispatching

Hot == HotBegin \/ HotEnter \/ HotLeave

Registering ==
  \E s \in Speakers :
    \/ \E kind \in {"event", "resource"} : HostRegister(s, kind)
    \/ \E i \in DOMAIN Locales : RegisterModLang(s, Locales[i])

HostNext == Boot \/ Hot \/ Registering

HostSpec == HostInit /\ [][HostNext]_hostVars

(* The loader's thread never waits, and the code of a mod returns to it.     *)
(* Nobody has to register anything.                                          *)
FairSpec == HostSpec /\ WF_hostVars(Boot)

-----------------------------------------------------------------------------
(* What is logged under the name of a mod was said by that mod, or by one    *)
(* that it can be taken for; or the line itself names the mod, by its        *)
(* prefix, by a mention or as its source; or it was captured while the mod   *)
(* was being run.  A mod on its own thread is "BL", which all share; elsewhere *)
(* what it registers goes under a name it can be called by, and it reads no  *)
(* text but of a mod that can be called so, too.                            *)
NamedBy(line) ==
  {line.prefix, line.source} \cup
  UNION {Called(m) : m \in {k \in ModDlls :
                            AnswersTo(k) \cap (line.mentions \cup {line.prefix}) # {}}}

NamedAsItself ==
  /\ \A s \in Speakers : s.by \in ModDlls =>
       /\ LET owner == OwnerName(s.thread)
          IN owner # "BL" =>
               /\ owner \in MayBeCalled(s.by)
               /\ Translation(owner) = Nobody \/ owner \in MayBeCalled(Translation(owner))
       /\ \A line \in Lines :
            /\ HostLogOwner(s.thread, line) \in {"BL"} \cup MayBeCalled(s.by) \cup NamedBy(line)
            /\ ConsoleOwner(s.thread, line) \in
                 {"game-stdio"} \cup MayBeCalled(s.by) \cup NamedBy(line) \cup BeingRun
  /\ \A line \in Lines :
       ConsoleOwner("game", line) \in {"game-stdio"} \cup NamedBy(line) \cup BeingRun

(* What comes through the pipe of standard output is in order the lines that *)
(* were printed, wherever the reads cut them, whole unless one exceeds the   *)
(* limit (see LinesAsPrinted), and each is filed under a mod that the line   *)
(* names or that is being run as it is read.                                 *)
PipedAsPrinted ==
  /\ LinesAsPrinted
  /\ \A line \in Lines :
       /\ EmittedByScope(line) \subseteq NamedBy(line) \cup BeingRun
       /\ EmittedBySaying(line) \in {"game-stdio"} \cup NamedBy(line)

(* Whatever room a mod has for an answer, nothing is written past it, and a   *)
(* mod that comes again with as much as the answer takes has all of it, if   *)
(* no other was loaded meanwhile; a mod reads what it wrote, and no service   *)
(* takes from the disk what it was not asked to.                             *)
ServicesKeepWord ==
  /\ WritesAreKept
  /\ \A key \in InfoKeys, room \in 0 .. MaxRoom : FitsIn(Encoded(HostRuntimeInfo(key)), room)

(* A scope is there for as long as its thread runs code of the mod: on every *)
(* way out of a load or a callback it is gone, and it names the mod whose    *)
(* code runs, or one that it can be taken for.                              *)
ScopesFollowRuns ==
  /\ \A s \in scopes :
       \/ s.thread = "boot" /\ InModsCode /\ s.dll \in Mistaken[boot.mod]
       \/ s.thread = "hot" /\ hot = "dll" /\ s.dll = Native
  /\ InModsCode /\ boot.at # "callback" =>
       Scope("boot", boot.mod, boot.name) \in scopes
  /\ slot # NoName => InModsCode /\ boot.at # "dll"

(* The bootstrap comes to its end whatever the mods do, and then each event  *)
(* handler that was registered while mods were loaded has been told once     *)
(* that the bootstrap is complete and, after that, once that resources are   *)
(* to be reloaded; each resource was asked once.  One that a handler of the  *)
(* first event registered hears the later ones only.                         *)
Expected(h) == IF h.kind = "resource" THEN <<"resources">> ELSE <<"complete", "reload">>

EachIsTold ==
  <>[](/\ boot.at = "done"
       /\ \A i \in DOMAIN handlers :
            IF handlers[i].early THEN heard[i] = Expected(handlers[i])
            ELSE heard[i] \in {<<>>, Tail(Expected(handlers[i])), Expected(handlers[i])}
                 /\ "complete" \notin {heard[i][k] : k \in DOMAIN heard[i]})
=============================================================================
