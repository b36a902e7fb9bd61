--------------------------- MODULE Configuration ---------------------------
(***************************************************************************)
(* config.json and the network hooks that live by it: src/config.rs,       *)
(* src/core/network_hook.rs, src/runtime/foundation/file_io_policy.rs and  *)
(* the bootstrap's use of them (src/lib.rs).                               *)
(*                                                                         *)
(* Two of BLoader's threads read the file, repair it, save it and store    *)
(* its settings: the bootstrap and the file watcher.  The launcher writes  *)
(* the same file.  Nothing locks it: a save reads it, empties it and fills *)
(* it again, and the settings of the network hooks are stored one by one   *)
(* while the game's threads send datagrams through the hooks.              *)
(***************************************************************************)
EXTENDS Naturals, Sequences

CONSTANTS
    Configs,        \* BLoader's part of the file: [hooks, detail, p2p, peer]
    Peers,          \* the usable values of p2p_target_ip
    NoPeer,         \* an empty or unreadable p2p_target_ip
    Destinations,   \* where the game sends: [ip, port]
    NoFile,         \* the file is absent
    Torn,           \* the file is empty, cut off or garbled
    Writable,       \* the values writes_allowed() may have
    LauncherEdits   \* bound: how often the launcher writes the file

Settings == [hooks : BOOLEAN, detail : {"brief", "verbose"}, p2p : BOOLEAN,
             peer : Peers \cup {NoPeer}]
(* Config::default *)
DefaultConfig == [hooks |-> FALSE, detail |-> "brief", p2p |-> FALSE, peer |-> NoPeer]
(* The ports the code tells apart: at most 1024, 7897 in network_ignore_ports,
   7551 for NetherNet, network_listen_port, and others above 1024. *)
Ports == {"system", "ignored", "nethernet", "listen", "high"}
(* Two addresses of this machine, of each family, one of elsewhere, of each,
   and the peers, which are IPv4.  Exempt are the two that
   redirect_p2p_sockaddr leaves alone: it compares text. *)
Local == {"127.0.0.1", "127.0.0.2", "::1"}
Exempt == {"127.0.0.1", "0.0.0.0"}
Addresses == [ip : Local \cup Exempt \cup {"::", "wan", "wan6"} \cup Peers, port : Ports]

ASSUME ConfigurationAssumption ==
    /\ Configs \subseteq Settings /\ DefaultConfig \in Configs
    /\ Destinations \subseteq Addresses
    /\ Writable \subseteq BOOLEAN /\ Writable # {}
    /\ LauncherEdits \in Nat
    /\ NoPeer \notin Peers /\ NoFile # Torn
    /\ Peers \cap {"::1", "::", "wan6"} = {}

VARIABLES
    writes,     \* file_io_policy::writes_allowed()
    file,       \* config.json
    event,      \* the watcher has a change of the file to look at
    watching,   \* CONFIG_WATCHER holds a watcher
    actor,      \* what each of BLoader's threads is doing with the file
    launcher,   \* what the launcher is doing with the file
    live,       \* ENABLED .. P2P_TARGET_IP of network_hook.rs
    installed,  \* HOOK_INSTALLED of network_hook.rs
    call,       \* the hooked call of the game in progress
    line,       \* what the last such call had logged
    due,        \* history: that call moved a signal the hook had to log
    past,       \* history: what may explain a setting or a field that is lost
    edits       \* how often the launcher has written the file

fileVars == <<file, event, past>>
netVars == <<live, installed, call, line, due>>
vars == <<writes, fileVars, watching, actor, launcher, netVars, edits>>

Actors == {"boot", "watcher"}

(* An object of the file: BLoader's fields, the launcher's (which of its
   edits), and whether every field is there and no removed one is. *)
Object(own, theirs, tidy) == [own |-> own, launcher |-> theirs, tidy |-> tidy]
Objects == [own : Configs, launcher : 0..LauncherEdits, tidy : BOOLEAN]
ASSUME ContentAssumption == NoFile \notin Objects /\ Torn \notin Objects
IsObject(content) == content \notin {NoFile, Torn}

-----------------------------------------------------------------------------
(***************************************************************************)
(* Routines.  `todo` is what a thread has still to do, Head(todo) what it  *)
(* does now; `pc` is where in it, `cfg` the configuration in hand.         *)
(***************************************************************************)
EntryOf(routine) ==
    CASE routine = "load" -> "exists"
      [] routine = "save" -> "existing"
      [] routine = "watch" -> "watch"
      [] routine = "hooks" -> "hooks"
      [] OTHER -> "enabled"

Idle(cfg) == [pc |-> "idle", todo |-> <<>>, cfg |-> cfg, existing |-> NoFile]
Start(routines, cfg) ==
    [pc |-> EntryOf(Head(routines)), todo |-> routines, cfg |-> cfg,
     existing |-> NoFile]
Proceed(me) ==
    IF Len(me.todo) = 1 THEN Idle(me.cfg) ELSE Start(Tail(me.todo), me.cfg)

At(a, where) == actor[a].pc = where
Goto(a, where) == actor' = [actor EXCEPT ![a].pc = where]
Finish(a) == actor' = [actor EXCEPT ![a] = Proceed(@)]

(* The configuration read is default or outdated and has to be saved; the
   rest of what was to be done comes after. *)
SaveFirst(a, cfg) ==
    actor' = [actor EXCEPT ![a] =
        Start(<<"save">> \o Tail(actor[a].todo), cfg)]
LoadDone(a, cfg) ==
    actor' = [actor EXCEPT ![a] = Proceed([actor[a] EXCEPT !.cfg = cfg])]
UseDefault(a) ==
    IF writes THEN SaveFirst(a, DefaultConfig) ELSE LoadDone(a, DefaultConfig)

-----------------------------------------------------------------------------
Init ==
    /\ writes \in Writable
    /\ file \in {NoFile, Torn} \cup
                {Object(own, 0, tidy) : own \in Configs, tidy \in BOOLEAN}
    /\ event = FALSE /\ watching = FALSE
    /\ actor = [a \in Actors |->
         IF a = "boot"
         THEN Start(<<"load", "watch", "apply", "apply", "hooks">>, DefaultConfig)
         ELSE Idle(DefaultConfig)]
    /\ launcher = "idle"
    /\ live = [hooks |-> FALSE, detail |-> "brief", p2p |-> FALSE,
               peer |-> NoPeer]
    /\ installed = FALSE
    /\ call = [pc |-> "none"] /\ line = "none" /\ due = FALSE
    /\ past = [torn |-> FALSE, overtaken |-> FALSE, failed |-> FALSE,
               stale |-> FALSE]
    /\ edits = 0

(* What the bootstrap has read is not yet stored, or no longer the file's. *)
Missed ==
    CASE actor["boot"].pc \in {"exists", "read"} -> past.stale
      [] actor["boot"].pc \in {"hooks", "idle"} -> FALSE
      [] OTHER -> TRUE

(* Every change of the file is an event for the watcher; it may come within
   the save of another thread. *)
Change(by, content) ==
    /\ file' = content
    /\ event' = watching
    /\ past' = [past EXCEPT
         !.overtaken = @ \/ \E a \in Actors \ {by} : At(a, "open") \/ At(a, "fill"),
         !.stale = IF by = "launcher" THEN Missed ELSE @]

-----------------------------------------------------------------------------
(* Config::load. *)
LoadExists(a) ==
    /\ At(a, "exists")
    /\ IF file = NoFile THEN UseDefault(a) ELSE Goto(a, "read")
    /\ UNCHANGED <<writes, fileVars, watching, launcher, netVars, edits>>

(* is_config_file_outdated *)
Outdated(content) == ~content.tidy

(* A file that does not parse is replaced by the defaults, an outdated one
   is saved. *)
LoadRead(a) ==
    /\ At(a, "read")
    /\ past' = [past EXCEPT !.torn = @ \/ file = Torn]
    /\ IF ~IsObject(file) THEN UseDefault(a)
       ELSE IF Outdated(file) /\ writes THEN SaveFirst(a, file.own)
       ELSE LoadDone(a, file.own)
    /\ UNCHANGED <<writes, file, event, watching, launcher, netVars, edits>>

(* Config::save: without permission to write it only applies. *)
SaveExisting(a) ==
    /\ At(a, "existing")
    /\ actor' = [actor EXCEPT
         ![a].existing = IF writes THEN file ELSE @,
         ![a].pc = IF writes THEN "open" ELSE "enabled"]
    /\ past' = [past EXCEPT !.torn = @ \/ (writes /\ file = Torn)]
    /\ UNCHANGED <<writes, file, event, watching, launcher, netVars, edits>>

(* fs::write opens and empties the file ... *)
SaveOpen(a) ==
    /\ At(a, "open")
    /\ Change(a, Torn)
    /\ Goto(a, "fill")
    /\ UNCHANGED <<writes, watching, launcher, netVars, edits>>

(* ... or cannot: then nothing is applied. *)
SaveFails(a) ==
    /\ At(a, "open")
    /\ past' = [past EXCEPT !.failed = TRUE]
    /\ Finish(a)
    /\ UNCHANGED <<writes, file, event, watching, launcher, netVars, edits>>

(* Mutant: the fields the launcher owns are not carried over. *)
MergedAfresh(existing, cfg) == Object(cfg, 0, TRUE)
(* merged_config_json: BLoader's fields over what the file held. *)
Merged(existing, cfg) ==
    Object(cfg, IF IsObject(existing) THEN existing.launcher ELSE 0, TRUE)

(* ... and writes it.  Over what another has written meanwhile, the result
   may be a mixture. *)
SaveFill(a) ==
    /\ At(a, "fill")
    /\ LET content == Merged(actor[a].existing, actor[a].cfg)
       IN \/ Change(a, content)
          \/ file # Torn /\ Change(a, Torn)
    /\ Goto(a, "enabled")
    /\ UNCHANGED <<writes, watching, launcher, netVars, edits>>

-----------------------------------------------------------------------------
(* network_hook::update_config, a store at a time; LISTEN_PORT to
   IGNORE_PORTS are one. *)
Store(a, where, settings) ==
    /\ At(a, where)
    /\ live' = settings
    /\ call' = IF call.pc = "none" \/ settings = live THEN call
               ELSE [call EXCEPT !.steady = FALSE]
    /\ UNCHANGED <<writes, fileVars, watching, launcher, installed, line,
                   due, edits>>

StoreEnabled(a) ==
    /\ Store(a, "enabled", [live EXCEPT !.hooks = actor[a].cfg.hooks])
    /\ Goto(a, "detail")
StoreDetail(a) ==
    /\ Store(a, "detail", [live EXCEPT !.detail = actor[a].cfg.detail])
    /\ Goto(a, "p2p")
StoreRedirection(a) ==
    /\ Store(a, "p2p", [live EXCEPT !.p2p = actor[a].cfg.p2p])
    /\ Goto(a, "peer")
(* Mutant: the address is stored only with the redirection on. *)
StorePeerIfOn(a) ==
    /\ Store(a, "peer", IF live.p2p THEN [live EXCEPT !.peer = actor[a].cfg.peer]
                        ELSE live)
    /\ Finish(a)
StorePeer(a) ==
    /\ Store(a, "peer", [live EXCEPT !.peer = actor[a].cfg.peer])
    /\ Finish(a)

-----------------------------------------------------------------------------
(* The bootstrap: after its load it starts the watcher, which may fail ... *)
EnsureWatcher ==
    /\ At("boot", "watch")
    /\ watching' \in BOOLEAN
    /\ Finish("boot")
    /\ UNCHANGED <<writes, fileVars, launcher, netVars, edits>>

HooksRequested(cfg) == cfg.hooks \/ cfg.p2p

(* ... and last, in network_hook::install, it hooks WinSock if the
   configuration asks for it; that may fail. *)
InstallHooks ==
    /\ At("boot", "hooks")
    /\ installed' \in IF HooksRequested(actor["boot"].cfg) THEN BOOLEAN ELSE {FALSE}
    /\ Finish("boot")
    /\ UNCHANGED <<writes, fileVars, watching, launcher, live, call, line,
                   due, edits>>

(* The watcher's callback: load what the file holds now and apply it. *)
WatcherWakes ==
    /\ event /\ At("watcher", "idle")
    /\ event' = FALSE
    /\ actor' = [actor EXCEPT !["watcher"] = Start(<<"load", "apply">>, DefaultConfig)]
    /\ UNCHANGED <<writes, file, past, watching, launcher, netVars, edits>>

(* The launcher replaces the file at once, or empties and fills it. *)
LauncherWrites(from, content, to) ==
    /\ launcher = from
    /\ from = "idle" => edits < LauncherEdits
    /\ edits' = IF from = "idle" THEN edits + 1 ELSE edits
    /\ launcher' = to
    /\ Change("launcher", content)
    /\ UNCHANGED <<writes, watching, actor, netVars>>

LauncherReplaces ==
    \E own \in Configs, tidy \in BOOLEAN :
        LauncherWrites("idle", Object(own, edits + 1, tidy), "idle")
LauncherEmpties == LauncherWrites("idle", Torn, "emptied")
LauncherFills ==
    \E own \in Configs, tidy \in BOOLEAN :
        LauncherWrites("emptied", Object(own, edits, tidy), "idle")

-----------------------------------------------------------------------------
(***************************************************************************)
(* The hooked calls.  Every address is one parse_sockaddr can read.        *)
(***************************************************************************)
Creating == {"socket", "WSASocketW", "WSASocketA"}
Connecting == {"connect", "WSAConnect"}
Serving == {"bind", "listen", "accept", "WSAAccept"}
Streams == {"send", "recv", "WSASend", "WSARecv"}
Datagrams == {"sendto", "recvfrom", "WSASendTo", "WSARecvFrom"}
Apis == Creating \cup Connecting \cup Serving \cup Streams \cup Datagrams
Rerouted == {"sendto", "WSASendTo"}

(* What the original function did: whether it succeeded, whether the hook
   learns how much was moved (not in overlapped calls), and whether what
   moved is a NetherNet signal. *)
Outcomes == [ok : BOOLEAN, counted : BOOLEAN, signal : BOOLEAN]

Ignored(to) == to.port = "ignored"
Listening(to) == to.port \in {"listen", "nethernet"}

(* parse_nethernet_packet, and the rest of what moves only if asked for. *)
Packet(outcome, more) ==
    IF outcome.signal THEN "signal" ELSE IF more THEN "packet" ELSE "none"
Verbose == live.detail = "verbose"

CreatingLogs(outcome) == IF outcome.ok THEN "call" ELSE "none"
ConnectingLogs(to) == IF Ignored(to) THEN "none" ELSE "call"
ServingLogs == "call"
StreamLogs(outcome) == IF outcome.ok THEN Packet(outcome, Verbose) ELSE "none"
OverlappedStreamLogs(outcome) ==
    IF outcome.ok /\ outcome.counted THEN Packet(outcome, Verbose) ELSE "none"

(* Of a datagram the hook looks at the address the game gave. *)
DatagramLogs(to, outcome) ==
    IF outcome.ok /\ ~Ignored(to) THEN Packet(outcome, Verbose \/ Listening(to))
    ELSE "none"
(* WSASendTo has a length to fall back on when it is not told how much was
   sent. *)
OverlappedDatagramLogs(api, to, outcome) ==
    IF api = "WSASendTo" \/ outcome.counted THEN DatagramLogs(to, outcome)
    ELSE "none"

Logs(api, to, outcome) ==
    IF ~live.hooks THEN "none"
    ELSE CASE api \in Creating -> CreatingLogs(outcome)
           [] api \in Connecting -> ConnectingLogs(to)
           [] api \in Serving -> ServingLogs
           [] api \in {"send", "recv"} -> StreamLogs(outcome)
           [] api \in {"WSASend", "WSARecv"} -> OverlappedStreamLogs(outcome)
           [] api \in {"sendto", "recvfrom"} -> DatagramLogs(to, outcome)
           [] OTHER -> OverlappedDatagramLogs(api, to, outcome)

(* Mutant: the exemption of local addresses is dropped. *)
RedirectLocal(to, peer) ==
    IF peer = NoPeer \/ to.port = "system" THEN to ELSE [to EXCEPT !.ip = peer]
(* redirect_p2p_sockaddr, after its look at the flag: the new address is an
   AF_INET one, of whatever family the old one was. *)
Redirect(to, peer) ==
    IF \/ peer = NoPeer
       \/ to.ip \in Exempt \cup {peer}
       \/ to.port = "system"
    THEN to ELSE [to EXCEPT !.ip = peer]

(* A NetherNet signal went through a hook of data that is on, on a port that
   is not ignored, and the hook could know its length. *)
SignalDue(api, to, outcome) ==
    /\ live.hooks /\ outcome.ok /\ outcome.signal
    /\ api \in Streams \cup (IF Ignored(to) THEN {} ELSE Datagrams)
    /\ outcome.counted \/ api \in {"send", "recv", "sendto", "recvfrom", "WSASendTo"}

(* These detours look at no setting before the original has returned. *)
PlainCall(api, to, outcome) ==
    /\ installed /\ call.pc = "none" /\ api \notin Rerouted
    /\ line' = Logs(api, to, outcome)
    /\ due' = SignalDue(api, to, outcome)
    /\ UNCHANGED <<writes, fileVars, watching, actor, launcher, live, installed,
                   call, edits>>

BeginCall(api, to) ==
    /\ installed /\ call.pc = "none"
    /\ call' = [pc |-> "flag", api |-> api, to |-> to, via |-> to, steady |-> TRUE]
    /\ line' = "none" /\ due' = FALSE
    /\ UNCHANGED <<writes, fileVars, watching, actor, launcher, live, installed,
                   edits>>

ReadFlag ==
    /\ call.pc = "flag"
    /\ call' = [call EXCEPT !.pc = IF live.p2p THEN "peer" ELSE "original"]
    /\ UNCHANGED <<writes, fileVars, watching, actor, launcher, live, installed,
                   line, due, edits>>

ReadPeer ==
    /\ call.pc = "peer"
    /\ call' = [call EXCEPT !.pc = "original", !.via = Redirect(call.to, live.peer)]
    /\ UNCHANGED <<writes, fileVars, watching, actor, launcher, live, installed,
                   line, due, edits>>

EndCall(outcome) ==
    /\ call.pc = "original"
    /\ line' = Logs(call.api, call.to, outcome)
    /\ due' = SignalDue(call.api, call.to, outcome)
    /\ call' = [pc |-> "none"]
    /\ UNCHANGED <<writes, fileVars, watching, actor, launcher, live, installed,
                   edits>>

-----------------------------------------------------------------------------
Load(a) == LoadExists(a) \/ LoadRead(a)
Save(a) == SaveExisting(a) \/ SaveOpen(a) \/ SaveFails(a) \/ SaveFill(a)
Apply(a) ==
    StoreEnabled(a) \/ StoreDetail(a) \/ StoreRedirection(a) \/ StorePeer(a)
Routine(a) == Load(a) \/ Save(a) \/ Apply(a)

Boot == EnsureWatcher \/ InstallHooks
Launcher == LauncherReplaces \/ LauncherEmpties \/ LauncherFills
Call ==
    \/ \E api \in Apis, to \in Destinations, outcome \in Outcomes :
           PlainCall(api, to, outcome)
    \/ \E api \in Rerouted, to \in Destinations : BeginCall(api, to)
    \/ ReadFlag \/ ReadPeer \/ \E outcome \in Outcomes : EndCall(outcome)

Next ==
    \/ \E a \in Actors : Routine(a)
    \/ Boot \/ WatcherWakes \/ Launcher \/ Call

(* Nothing has to happen while nothing is under way. *)
Quiet == ~event /\ launcher = "idle" /\ \A a \in Actors : At(a, "idle")
Rest == Quiet /\ UNCHANGED vars

Spec == Init /\ [][Next \/ Rest]_vars

(* BLoader's own threads go on; a launcher that has emptied the file fills
   it.  Nobody has to edit anything, and the game has to call nothing. *)
Fairness ==
    /\ \A a \in Actors : WF_vars(Routine(a))
    /\ WF_vars(Boot) /\ WF_vars(WatcherWakes)
    /\ WF_vars(LauncherFills)
FairSpec == Spec /\ Fairness

-----------------------------------------------------------------------------
(* When nothing is under way the network hooks go by the configuration that
   is in the file, whatever writes and reads there were: unless the launcher
   wrote between the bootstrap's load and its last store of what it loaded
   (lib.rs:232-371), or nobody watches. *)
SettledMeansApplied ==
    Quiet /\ watching /\ ~past.stale /\ IsObject(file)
        => live = file.own

(* The launcher's fields in a complete file are those of its last edit, unless
   BLoader has read the file while somebody had emptied it, or somebody else
   wrote it within a save of BLoader's.  merged_config_json is there to keep
   them (config.rs:355). *)
LauncherFieldsKept ==
    IsObject(file) /\ launcher = "idle" /\ ~past.torn /\ ~past.overtaken
        => file.launcher = edits

Tidy == IsObject(file) /\ file.tidy


(* A datagram goes where the game sends it, or to a peer of the P2P
   redirection on the same port.  What goes to 127.0.0.1 or 0.0.0.0 is never
   rewritten (what goes to another address of this machine may be), and while
   the settings do not change during the call they alone decide. *)
RoutedAsConfigured ==
    call.pc = "original" =>
        /\ call.via.port = call.to.port
        /\ call.via # call.to =>
             call.via.ip \in Peers /\ call.to.ip \notin Exempt
        /\ call.steady =>
             (call.via # call.to <=>
                /\ live.p2p /\ live.peer \in Peers \ {call.to.ip}
                /\ call.to.ip \notin Exempt /\ call.to.port # "system")
        /\ call.steady /\ call.via # call.to => call.via.ip = live.peer

(* With the hooks on, a NetherNet signal that went through a hook, and whose
   length the hook could know, is logged as one, whatever else is configured. *)
SignalsLogged ==
    due => line = "signal"

(* What a hooked call does is what the settings say, though they are stored
   one by one while it runs: where its datagram goes and what is logged of it
   (redirect_p2p_sockaddr, the detours). *)
HooksAsConfigured == RoutedAsConfigured /\ SignalsLogged
=============================================================================
