--------------------------- MODULE XUserRequests ---------------------------
(***************************************************************************)
(* The XUser that BLoader gives to a game: src/core/xuser_bridge/xuser.rs, *)
(* xasync.rs, token.rs and crypto.rs.                                      *)
(*                                                                         *)
(* Adding the user and asking for a token are asynchronous.  The runtime's *)
(* XAsync drives them: it calls the provider to begin, has a thread of the *)
(* queue do the work, hands the result to the game when it asks, and calls *)
(* the provider a last time to clean up.  Who owns the request's context   *)
(* changes on the way.  The user's own state is UserSession, which         *)
(* XUserLifecycle implements; the accesses it makes there are one step     *)
(* here.                                                                   *)
(***************************************************************************)
EXTENDS XUserBridge, TokenRules

CONSTANTS
    Blocks,       \* XAsyncBlocks of the game
    Requests,     \* for tokens: a function of names, to what TokenRules has
    NoRequest,    \* the block's request is for the user
    Nothing,      \* no signature, no result
    MaxRequests,  \* bound: asynchronous requests the game makes
    MaxHandles    \* bound: user handles the game holds at once

VARIABLES
    userState, userWasAdded, held, shutdownStarted, exited, \* of UserSession
    handleCount, \* USER_HANDLE_COUNT
    handles,     \* history: the user handles the game holds
    again,       \* history: the user has been signed in again
    block,       \* what became of each block's last request
    requests     \* how many requests the game has made

userVars == <<userState, userWasAdded, held, shutdownStarted, exited>>
handleVars == <<handleCount, handles, again>>
requestVars == <<block, requests>>
vars == <<hookVars, now, bridgeVars, userVars, handleVars, requestVars>>

User == INSTANCE UserSession

ASSUME RequestsAssumption ==
    /\ MaxRequests \in Nat /\ MaxHandles \in Nat
    /\ NoRequest \notin DOMAIN Requests
    /\ \A name \in DOMAIN Requests : Requests[name] \in TokenRequests

Free == [phase |-> "free", identity |-> "none", request |-> NoRequest, asked |-> 0, token |-> Nothing,
         context |-> "none", claimed |-> FALSE, signature |-> Nothing,
         status |-> "pending", result |-> Nothing]

Init ==
    /\ BridgeInit /\ User!Init
    /\ handleCount = 0 /\ handles = 0 /\ again = FALSE
    /\ block = [b \in Blocks |-> Free] /\ requests = 0

(* The game has our XUser (it may have Microsoft's too). *)
Playing == "bridge" \in given

Becomes(b, fields) == block' = [block EXCEPT ![b] = fields]
Elsewhere == UNCHANGED <<hookVars, now, bridgeVars>>

-----------------------------------------------------------------------------
(***************************************************************************)
(* Beginning.  A context is made and XAsync told of it; if XAsync does not *)
(* take it, it never calls the provider and the context is dropped here.   *)
(***************************************************************************)
Begin(b, fields) ==
    /\ Playing /\ block[b].phase = "free" /\ requests < MaxRequests
    /\ Becomes(b, [fields EXCEPT !.phase = "beginning", !.context = "live"])
    /\ requests' = requests + 1
    /\ UNCHANGED <<userVars, handleVars>> /\ Elsewhere

(* add_async *)
AddAsync(b) == userState # "SigningOut" /\ Begin(b, [Free EXCEPT !.identity = "XUserAdd"])

(* begin_token_request and TokenContext::new.  The user's state is not asked. *)
Expiry(party) == Packages[session].document.expiry[party]
HasToken(party) == party \in Granted(Packages[session].document)
TokenOf(request) == RelyingParty(request.url.host)
(* Mutant: the token's age is not looked at. *)
GrantableAtAnyAge(request) ==
    /\ Refusal(request) = Fine
    /\ HasToken(TokenOf(request))
    /\ RequestTarget(request.url) # NoTarget
Grantable(request) ==
    /\ Refusal(request) = Fine
    /\ HasToken(TokenOf(request))
    /\ StillGood(Expiry(TokenOf(request)))
    /\ RequestTarget(request.url) # NoTarget
TokenIdentity(utf16) ==
    IF utf16 THEN "XUserGetTokenAndSignatureUtf16" ELSE "XUserGetTokenAndSignature"
GetTokenAsync(b, name) ==
    /\ Begin(b, [Free EXCEPT !.identity = TokenIdentity(Requests[name].utf16),
                             !.request = name, !.asked = now,
                             !.token = TokenOf(Requests[name])])
    /\ Grantable(Requests[name])

(* XAsyncBegin: no memory for the state, or the provider is told to begin.
   It schedules its work; if it cannot, that completes the block. *)
NotTaken(b) == Becomes(b, Free)
Taken(b) ==
    \/ Becomes(b, [block[b] EXCEPT !.phase = "queued"])
    \/ Becomes(b, [block[b] EXCEPT !.phase = "completed", !.status = "failed"])
XAsyncBegin(b) ==
    /\ Playing /\ block[b].phase = "beginning"
    /\ NotTaken(b) \/ Taken(b)
    /\ UNCHANGED <<requests, userVars, handleVars>> /\ Elsewhere

-----------------------------------------------------------------------------
(***************************************************************************)
(* Work, on the queue's thread.  Cancelling changes nothing (XAsyncOp::    *)
(* Cancel): the work goes on, or the queue is ended and drops it.          *)
(***************************************************************************)
QueueEnded(b) ==
    /\ Playing /\ block[b].phase = "queued"
    /\ Becomes(b, [block[b] EXCEPT !.phase = "completed", !.status = "aborted"])
    /\ UNCHANGED <<requests, userVars, handleVars>> /\ Elsewhere

(* SigningKey::sign_request and sign_digest: the system may refuse to sign, or
   write something else than a signature's 64 bytes. *)
Coverage == [name \in DOMAIN Requests |-> Covered(Requests[name])]
Signatures(name) == {Coverage[name], Nothing}

(* TokenContext::prepare signs the request. *)
(* Mutant: a request that cannot be signed stays as it is. *)
DoWorkOrNothing(b) ==
    LET me == block[b]
    IN /\ Playing /\ me.phase = "queued" /\ me.request = NoRequest
       /\ Becomes(b, [me EXCEPT !.phase = "completed", !.status = "ok"])
       /\ UNCHANGED <<requests, userVars, handleVars>> /\ Elsewhere
DoWork(b) ==
    LET me == block[b]
    IN /\ Playing /\ me.phase = "queued"
       /\ \/ /\ me.request = NoRequest
             /\ Becomes(b, [me EXCEPT !.phase = "completed", !.status = "ok"])
          \/ /\ me.request # NoRequest
             /\ \E signature \in Signatures(me.request) :
                  Becomes(b, [me EXCEPT !.phase = "completed", !.signature = signature,
                              !.status = IF signature = Nothing THEN "failed" ELSE "ok"])
       /\ UNCHANGED <<requests, userVars, handleVars>> /\ Elsewhere

-----------------------------------------------------------------------------
(***************************************************************************)
(* Results.  The runtime hands out what completed well, to the function    *)
(* that names what it began, into a buffer that is large enough, for as    *)
(* long as it has not cleaned up.                                          *)
(***************************************************************************)
Ready(b, identity) ==
    /\ Playing /\ block[b].phase = "completed" /\ block[b].status = "ok"
    /\ block[b].identity = identity

(* acquire_added_handle: a user who has signed out signs in again.  What it
   does not change it refuses. *)
Acquire ==
    \/ User!Add /\ handleCount' = handleCount + 1 /\ again' = again
    \/ User!SignInAgain /\ handleCount' = 1 /\ again' = TRUE

(* Mutant: asking again takes another handle. *)
AddResultUnclaimed(b) ==
    LET me == block[b]
    IN /\ Ready(b, "XUserAdd") /\ handles < MaxHandles
       /\ Acquire /\ handles' = IF me.claimed THEN handles ELSE handles + 1
       /\ Becomes(b, [me EXCEPT !.claimed = TRUE, !.result = "user"])
       /\ UNCHANGED requests /\ Elsewhere
AddResult(b) ==
    LET me == block[b]
        Claim == Acquire /\ handles' = handles + 1
    IN /\ Ready(b, "XUserAdd") /\ handles < MaxHandles
       /\ IF me.claimed THEN UNCHANGED <<userVars, handleVars>> ELSE Claim
       /\ Becomes(b, [me EXCEPT !.claimed = TRUE, !.result = "user"])
       /\ UNCHANGED requests /\ Elsewhere

TokenResult(b, utf16) ==
    LET me == block[b]
    IN /\ Ready(b, TokenIdentity(utf16))
       /\ Becomes(b, [me EXCEPT !.result = [token |-> me.token, signature |-> me.signature]])
       /\ UNCHANGED <<requests, userVars, handleVars>> /\ Elsewhere

AnsiResult(b) == TokenResult(b, FALSE)
Utf16Result(b) == TokenResult(b, TRUE)

(* XAsyncOp::Cleanup, once the block has completed, with or without the
   game having asked.  The game may use the block again. *)
Cleanup(b) ==
    /\ Playing /\ block[b].phase = "completed"
    /\ Becomes(b, Free)
    /\ UNCHANGED <<requests, userVars, handleVars>> /\ Elsewhere

-----------------------------------------------------------------------------
(***************************************************************************)
(* What is answered at once.                                               *)
(***************************************************************************)
Queries == {"duplicate", "find user", "privilege", "state", "who", "max users", "guest"}

(* Who the user is, is known in any state; the rest only of one who is
   signed in. *)
NeedSignIn == {"duplicate", "find user", "privilege"}
Answered(query) ==
    CASE query \in NeedSignIn /\ userState # "SignedIn" -> "refused"
      [] query \in NeedSignIn /\ userState = "SignedIn" -> "yes"
      [] query = "state" -> userState
      [] query = "who" -> "the session's account"
      [] query = "max users" -> "1"
      [] query = "guest" -> "no"

(* duplicate_handle, find_user_by_id, find_user_by_local_id *)
AnotherHandle ==
    /\ Playing /\ handles > 0 /\ handles < MaxHandles
    /\ \E query \in {"duplicate", "find user"} : Answered(query) = "yes"
    /\ handleCount' = handleCount + 1 /\ handles' = handles + 1 /\ again' = again
    /\ UNCHANGED <<userVars, requestVars>> /\ Elsewhere

(* close_handle, release_user_handle: at zero, it takes the handle for one
   that has been closed already. *)
CloseHandle ==
    /\ Playing /\ handles > 0 /\ handles' = handles - 1
    /\ handleCount' = IF handleCount = 0 THEN 0 ELSE handleCount - 1
    /\ again' = again
    /\ UNCHANGED <<userVars, requestVars>> /\ Elsewhere

(* What XUserLifecycle does about the user.  Signing out takes a title that
   has registered; only a hooked exit signs out first. *)
SessionStep ==
    /\ Playing
    /\ \/ install["exit"] # "waiting" /\ User!SignOut
       \/ User!Complete
       \/ Live("exit") /\ User!Leave
       \/ User!LeaveUnused
    /\ UNCHANGED <<handleVars, requestVars>> /\ Elsewhere

BridgeStep ==
    BridgeNext /\ UNCHANGED <<userVars, handleVars, requestVars>>

Next ==
    \/ BridgeStep
    \/ \E b \in Blocks :
         \/ AddAsync(b)
         \/ \E name \in DOMAIN Requests : GetTokenAsync(b, name)
         \/ XAsyncBegin(b) \/ QueueEnded(b) \/ DoWork(b)
         \/ AddResult(b) \/ AnsiResult(b) \/ Utf16Result(b) \/ Cleanup(b)
    \/ AnotherHandle \/ CloseHandle \/ SessionStep

(* The game's call returns from XAsyncBegin, the queue's thread does what is
   queued (or ends), the runtime cleans up what has completed. *)
Fairness ==
    \A b \in Blocks :
        /\ WF_vars(XAsyncBegin(b)) /\ WF_vars(DoWork(b))
        /\ WF_vars(Cleanup(b))
Spec == Init /\ [][Next]_vars
FairSpec == Spec /\ Fairness

-----------------------------------------------------------------------------
(* A hook is live only once its component has stored what it replaces, though
   every component enables all the hooks of the process, whichever
   installations fail and come on with another's.  In a process BLoader came
   to late, a thread of the game may enable what the bootstrap is about to
   finish, and the bootstrap what that thread is: the exit hook, which looks
   first; the rest is at risk only after the exit hook's installation.  In any
   process a live hook of QueryApiImpl has its session and its original
   (install_hook, the installers of the other components, MinHook's table). *)
LiveHooksReady ==
    /\ \A c \in Components : Live(c) =>
         \/ c \in stored
         \/ /\ mode = "attached"
            /\ c \in LooksFirst \/ install["exit"] \in {"reported", "failed"}
    /\ Live("query") => session # NoSession /\ "query" \in stored

(* A context belongs to its request from begin to clean-up, and is dropped
   once: by the call that began when XAsync does not take it, otherwise by the
   clean-up (add_async, begin_token_request, XAsyncOp::Cleanup). *)
ContextsDroppedOnce ==
    \A b \in Blocks :
        block[b].context = IF block[b].phase = "free" THEN "none" ELSE "live"

(* USER_HANDLE_COUNT never claims more handles than the game holds, however
   often it asks for one result, and exactly those until the user is signed
   in again (acquire_added_handle, XUserAddContext::claimed). *)
HandlesCounted == handleCount <= handles /\ (~again => handleCount = handles)

(* Whatever the order in which the game begins requests, asks for results and
   lets go of them, and wherever beginning one fails, contexts and handles come
   out even. *)
NothingLeaks == ContextsDroppedOnce /\ HandlesCounted

(* A token the game is given comes from a session that was whole, its
   parent's and in time; it is the one of the service asked, was good when it
   was asked for, and its signature covers every header that service checks,
   once (receive_session, TokenContext::new, sign_request).  What one of the
   two functions takes the other takes, unless it is as long as the one for
   UTF-16 looks for an end. *)
Serves(token, host) ==
    <<token, host>> \in {<<"licensing", "licensing">>, <<"licensing", "store">>,
        <<"playfab", "playfab">>, <<"multiplayer", "multiplayer">>, <<"realms", "realms">>,
        <<"xboxlive", "device">>, <<"xboxlive", "xboxlive">>, <<"xboxlive", "custom">>}
Checked(request) ==
    IF request.url.host \in {"device", "xboxlive", "licensing"} THEN {}
    ELSE {LowerCase[request.headers[i].name] : i \in DOMAIN request.headers} \ Transport
TokensAsAsked ==
    \A b \in Blocks :
        LET me == block[b]
        IN me.result # Nothing /\ me.request # NoRequest =>
             /\ package.parent /\ package.header /\ package.intact
             /\ launcher.sent = WholeSize /\ session = launcher.package
             /\ Serves(me.result.token, Requests[me.request].url.host)
             /\ Expiry(me.result.token) > me.asked + 1
             /\ Len(me.result.signature.values) = Cardinality(Checked(Requests[me.request]))
             /\ \/ Refusal([Requests[me.request] EXCEPT !.utf16 = ~@]) = Fine
                \/ Requests[me.request].url.length = Limits["units"]

(* Every request comes to its end, and its context with it (token_provider, xuser_add_provider). *)
EveryRequestCompletes ==
    \A b \in Blocks :
        block[b].phase \in {"beginning", "queued", "completed"}
            ~> block[b].phase = "free"

(* After "the hook could not be installed, the custom XUser is off, Microsoft's
   is used" (initialize_before_mods) the game is given Microsoft's.  It need not
   be: v_official.cfg. *)
OfficialAfterFailure == install["query"] = "failed" => "bridge" \notin given
=============================================================================
