---------------------------- MODULE XUserBridge ----------------------------
(***************************************************************************)
(* How the XUser bridge gets its session and the game its XUser:           *)
(* src/core/xuser_bridge/mod.rs and ipc.rs.                                *)
(*                                                                         *)
(* The launcher may serve a pipe named for the game's process.  The        *)
(* bootstrap reads a header and a payload from it, piece by piece, and     *)
(* takes the session only when all of it is right; then it hooks           *)
(* QueryApiImpl of Microsoft's runtime, through which the game asks for    *)
(* its XUser.  Otherwise the game is to get Microsoft's.                   *)
(*                                                                         *)
(* One unit of time is 30 seconds.                                         *)
(***************************************************************************)
EXTENDS HookInstalls

CONSTANTS
    Packages,  \* what the launcher may send: a function of names, to [parent,
               \* header, intact, issued, expires, document]
    NoSession, \* nothing received
    MaxNow     \* bound: how long time is followed

Parties == {"xboxlive", "playfab", "multiplayer", "realms", "licensing"}
(* usable: it is JSON with a nonzero XUID and a gamertag, each token and each
   user hash is there; key: the private key's blob, whether its length, its
   magic number and its coordinates' size are those of a P-256 key; named: the
   relying parties that are named are the expected ones. *)
Documents == [usable : BOOLEAN, key : [length : BOOLEAN, magic : BOOLEAN], named : BOOLEAN,
              licensing : {"none", "part", "whole"}, expiry : [Parties -> Nat]]

ASSUME BridgeAssumption ==
    /\ MaxNow \in Nat
    /\ \A name \in DOMAIN Packages :
         Packages[name] \in [parent : BOOLEAN, header : BOOLEAN, intact : BOOLEAN,
                             issued : Nat, expires : Nat, document : Documents]
    /\ NoSession \notin DOMAIN Packages

VARIABLES
    now,      \* the clock
    launcher, \* [package, pipe, sent]: what it sends, how much of it it has
    bridge,   \* [at, read, candidate]: how far receive_session is
    session,  \* SESSION: the package its document came in
    given     \* whose XUser the game has been given

bridgeVars == <<launcher, bridge, session, given>>

HeaderSize == 2  \* pieces the header and the whole of it may arrive in
WholeSize == 4

BridgeInit ==
    /\ HookInit
    /\ now = 0
    /\ \E name \in DOMAIN Packages : launcher = [package |-> name, pipe |-> "none", sent |-> 0]
    /\ bridge = [at |-> "connect", read |-> 0, candidate |-> NoSession]
    /\ session = NoSession /\ given = {}

-----------------------------------------------------------------------------
(* The launcher, which may be late, slow, or gone at any moment. *)
Awaited == bridge.at \in {"connect", "header", "payload"}
Serve == /\ Awaited /\ launcher.pipe = "none"
         /\ launcher' = [launcher EXCEPT !.pipe = "open"]
         /\ UNCHANGED <<hookVars, now, bridge, session, given>>
Send == /\ Awaited /\ launcher.pipe = "open" /\ launcher.sent < WholeSize
        /\ launcher' = [launcher EXCEPT !.sent = @ + 1]
        /\ UNCHANGED <<hookVars, now, bridge, session, given>>
Close == /\ Awaited /\ launcher.pipe = "open"
         /\ launcher' = [launcher EXCEPT !.pipe = "closed"]
         /\ UNCHANGED <<hookVars, now, bridge, session, given>>

Tick == /\ now < MaxNow /\ now' = now + 1 /\ UNCHANGED <<hookVars, bridgeVars>>

-----------------------------------------------------------------------------
(***************************************************************************)
(* receive_session.                                                        *)
(***************************************************************************)
package == Packages[launcher.package]
Receiving(at) == Turn("query") /\ install["query"] = "waiting" /\ bridge.at = at

Goto(at) == bridge' = [bridge EXCEPT !.at = at]
(* Our end of the pipe is closed. *)
Drop == launcher' = [launcher EXCEPT !.pipe = "closed"]
(* Without a session nothing is hooked (an absent pipe, or Err). *)
Refuse == /\ Goto("refused") /\ Drop
          /\ Leave("query", "skipped") /\ UNCHANGED <<mode, plan, table, stored>>
Continue == UNCHANGED <<hookVars, launcher>>

(* No pipe: the launcher wants no session, or does not serve it yet.  One
   that somebody else serves is not believed. *)
Connect ==
    /\ Receiving("connect")
    /\ IF launcher.pipe = "open" /\ package.parent
       THEN Goto("header") /\ Continue
       ELSE Refuse
    /\ UNCHANGED <<now, session, given>>

(* read_exact takes what has come, waits for more, and gives up once the
   pipe is closed and empty. *)
Read ==
    /\ \E at \in {"header", "payload"} : Receiving(at)
    /\ bridge.read < (IF bridge.at = "header" THEN HeaderSize ELSE WholeSize)
    /\ IF bridge.read < launcher.sent
       THEN bridge' = [bridge EXCEPT !.read = @ + 1] /\ Continue
       ELSE launcher.pipe = "closed" /\ Refuse
    /\ UNCHANGED <<now, session, given>>

(* Issued at most 30 seconds ahead, still open, and for two minutes at most. *)
WindowOpen == /\ package.issued <= now + 1 /\ package.expires > now
              /\ package.expires <= package.issued + 4
CheckHeader ==
    /\ Receiving("header") /\ bridge.read = HeaderSize
    /\ IF package.header /\ WindowOpen
       THEN Goto("payload") /\ Continue
       ELSE Refuse
    /\ UNCHANGED <<now, session, given>>

(* A token has to be good for 30 seconds more. *)
StillGood(expiry) == expiry > now + 1
Granted(document) ==
    IF document.licensing = "whole" THEN Parties ELSE Parties \ {"licensing"}
(* SigningKey::import_private_blob: whether the key is there to sign with; the
   system's provider may open no algorithm or take no key. *)
ImportPrivateBlob(blob) == IF blob.length /\ blob.magic THEN BOOLEAN ELSE {FALSE}
Parses(document) ==
    /\ document.usable /\ document.named /\ document.licensing # "part"
    /\ \A party \in Granted(document) : StillGood(document.expiry[party])
Parse ==
    /\ Receiving("payload") /\ bridge.read = WholeSize
    /\ \E imported \in ImportPrivateBlob(package.document.key) :
         IF package.intact /\ imported /\ Parses(package.document)
         THEN /\ bridge' = [bridge EXCEPT !.at = "install", !.candidate = launcher.package]
              /\ Drop /\ UNCHANGED hookVars
         ELSE Refuse
    /\ UNCHANGED <<now, session, given>>

-----------------------------------------------------------------------------
(***************************************************************************)
(* install_hook.  The runtime is the one of System32, and exports          *)
(* QueryApiImpl, or the installation fails.                                *)
(***************************************************************************)
CreateQuery ==
    /\ bridge.at = "install" /\ (Create("query") \/ CreateFails("query"))
    /\ UNCHANGED <<now, bridgeVars>>
SetOriginal == Store("query") /\ UNCHANGED <<now, bridgeVars>>
SetSession ==
    /\ install["query"] = "stored" /\ session = NoSession
    /\ session' = bridge.candidate
    /\ UNCHANGED <<hookVars, now, launcher, bridge, given>>
EnableQuery ==
    /\ session # NoSession /\ Enable("query") /\ UNCHANGED <<now, bridgeVars>>

(* The others, in their turn; the exit hook waits for a title that has our
   XUser to register for its events (ensure_process_exit_hook). *)
Installer(c) ==
    /\ c # "query" /\ (c = "exit" => "bridge" \in given)
    /\ Skip(c) \/ Create(c) \/ CreateFails(c) \/ Store(c) \/ Enable(c)
    /\ UNCHANGED <<now, bridgeVars>>

-----------------------------------------------------------------------------
(* query_api_hook: what the game gets when it asks for its XUser.  Every
   other class is the runtime's own affair. *)
Provider == CASE ~Live("query") -> "official"
              [] Live("query") /\ session = NoSession -> "none"
              [] OTHER -> "bridge"
AskForUser ==
    /\ GameRuns /\ given' = given \cup {Provider}
    /\ UNCHANGED <<hookVars, now, launcher, bridge, session>>

BridgeNext ==
    \/ Serve \/ Send \/ Close \/ Tick
    \/ Connect \/ Read \/ CheckHeader \/ Parse
    \/ CreateQuery \/ SetOriginal \/ SetSession \/ EnableQuery
    \/ \E c \in Components : Installer(c)
    \/ AskForUser
=============================================================================
