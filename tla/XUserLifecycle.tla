--------------------------- MODULE XUserLifecycle ---------------------------
(***************************************************************************)
(* The sign-in life cycle of BLoader's own XUser provider,                 *)
(* src/core/xuser_bridge/xuser_lifecycle.rs: the user's state, the         *)
(* sign-out deferrals, what unregistering the last change event and what   *)
(* leaving the process trigger, on top of the registration protocol of     *)
(* ChangeRegistrations.                                                    *)
(*                                                                         *)
(* A call is in code of this module while at[c] = "body", and pc[c] then   *)
(* names its next step; while the call dispatches an event, pc[c] is where *)
(* it goes on afterwards.  One step is one access to an atomic.  Accesses  *)
(* taken together commute: USER_WAS_ADDED is only ever set,                *)
(* USER_HANDLE_COUNT is read by log messages alone.                        *)
(***************************************************************************)
EXTENDS ChangeRegistrations

CONSTANTS
  TitleOps,     \* what the title calls from its threads
  CallbackOps,  \* what it calls from its callbacks
  HookOutcomes, \* how installing the exit hook may end
  CountLimit,   \* 2^w for the w-bit SIGNOUT_DEFERRALS
  MaxThreads,   \* bound: threads inside the bridge at once
  MaxHandles,   \* bound: user handles the title asks for
  MaxHeld       \* bound: deferrals the title holds at once

Ops == {"add", "duplicate", "close", "register", "unregister", "exit",
        "getDeferral", "closeDeferral"}

ASSUME OpsAssumption == TitleOps \subseteq Ops /\ CallbackOps \subseteq Ops
ASSUME HookAssumption ==
  HookOutcomes # {} /\ HookOutcomes \subseteq {"installed", "failed"}
ASSUME BoundsAssumption ==
  /\ CountLimit \in Nat \ {0, 1} /\ MaxHandles \in Nat
  /\ MaxThreads \in Nat /\ MaxHeld \in Nat

VARIABLES
  userState,         \* USER_STATE
  userWasAdded,      \* USER_WAS_ADDED
  handleCount,       \* USER_HANDLE_COUNT
  callbacksComplete, \* SIGNOUT_CALLBACKS_COMPLETE
  deferrals,         \* SIGNOUT_DEFERRALS
  shutdownStarted,   \* PROCESS_SHUTDOWN_STARTED
  exitHook,          \* PROCESS_EXIT_HOOK: "absent" until the OnceLock is set
  exited,            \* the original RtlExitUserProcess has been called
  pc,                \* next step of a call, or where it resumes
  op,                \* the function a call is in
  event,             \* the event a call dispatches, or "none"
  held,              \* deferrals granted and not yet closed
  heard              \* history: the last event each registration was given

userVars == <<userState, userWasAdded, handleCount, callbacksComplete,
              deferrals, shutdownStarted, exitHook, exited>>
callVars == <<pc, op, event>>
histVars == <<held, heard>>
vars == <<regVars, userVars, callVars, histVars>>

UserStates == {"SignedIn", "SigningOut", "SignedOut"}
Events     == {"SignedInAgain", "SigningOut", "SignedOut"}
Steps == {"idle", "return",
          "add_load", "add_count", "add_gate", "add_cas", "add_count_again",
          "restore_deferrals", "restore_complete", "announce",
          "register_gate", "register_cas", "insert", "insert_again",
          "unregister_state", "unregister_gate", "deactivate",
          "begin_cas", "begin_flag", "begin_dispatch", "begin_done",
          "try_flag", "try_count", "try_cas", "try_dispatch",
          "exit_added", "exit_store", "exit_wait", "exit_force",
          "exit_dispatch", "exit_forward",
          "deferral_add", "deferral_check", "deferral_undo"}

Init ==
  /\ RegInit
  /\ userState = "SignedIn" /\ userWasAdded = FALSE /\ handleCount = 0
  /\ callbacksComplete = TRUE /\ deferrals = 0 /\ shutdownStarted = FALSE
  /\ exitHook = "absent" /\ exited = FALSE
  /\ pc    = [c \in Calls |-> "idle"]
  /\ op    = [c \in Calls |-> "none"]
  /\ event = [c \in Calls |-> "none"]
  /\ held = 0
  /\ heard = [t \in Tokens |-> "none"]

-----------------------------------------------------------------------------
(* Calls, steps and dispatches.                                            *)

Threads == {c \in Calls : at[c] # "idle" /\ caller[c] = NoCall}

(* The title makes call o from a thread of its own or from a callback. *)
Allowed(o, p) ==
  IF p = NoCall THEN o \in TitleOps /\ Cardinality(Threads) < MaxThreads
                ELSE o \in CallbackOps

Start(c, p, o, first) ==
  /\ Allowed(o, p)
  /\ Enter(c, p)
  /\ op' = [op EXCEPT ![c] = o]
  /\ pc' = [pc EXCEPT ![c] = first]
  /\ UNCHANGED <<event, heard>>

Jump(c, from, to) ==
  /\ at[c] = "body" /\ pc[c] = from
  /\ pc' = [pc EXCEPT ![c] = to]

(* A step that changes neither the registrations nor who runs what *)
Step(c, from, to) ==
  Jump(c, from, to) /\ UNCHANGED <<regVars, op, event, heard>>

(* dispatch_change_event(e); the call goes on at `to' *)
Dispatch(c, from, e, to) ==
  /\ Jump(c, from, to)
  /\ StartDispatch(c)
  /\ event' = [event EXCEPT ![c] = e]
  /\ UNCHANGED <<userVars, op, histVars>>

(* Where begin_sign_out and try_complete_sign_out return to *)
AfterSignOut(c) ==
  CASE op[c] = "unregister"    -> "deactivate"
    [] op[c] = "exit"          -> "exit_wait"
    [] op[c] = "closeDeferral" -> "return"

-----------------------------------------------------------------------------
(* acquire_added_handle (XUserAddResult), duplicate_active_handle and      *)
(* release_user_handle.                                                    *)

Add(c, p) ==
  /\ handleCount < MaxHandles
  /\ Start(c, p, "add", "add_load")
  /\ UNCHANGED <<userVars, held>>

AddLoad(c) ==
  /\ Step(c, "add_load", CASE userState = "SignedIn"   -> "add_count"
                           [] userState = "SignedOut"  -> "add_gate"
                           [] userState = "SigningOut" -> "return")
  /\ UNCHANGED <<userVars, held>>

AddCount(c) ==
  /\ Step(c, "add_count", "return")
  /\ userWasAdded' = TRUE /\ handleCount' = handleCount + 1
  /\ UNCHANGED <<userState, callbacksComplete, deferrals, shutdownStarted,
                 exitHook, exited, held>>

AddGate(c) ==
  /\ Step(c, "add_gate", IF shutdownStarted THEN "return" ELSE "add_cas")
  /\ UNCHANGED <<userVars, held>>

(* compare_exchange on USER_STATE: on success the call goes on at `won' *)
UserStateCas(c, from, expected, new, won, lost) ==
  LET ok == userState = expected IN
  /\ Step(c, from, IF ok THEN won ELSE lost)
  /\ userState' = IF ok THEN new ELSE userState
  /\ UNCHANGED <<userWasAdded, handleCount, callbacksComplete, deferrals,
                 shutdownStarted, exitHook, exited, held>>

AddCas(c) == UserStateCas(c, "add_cas", "SignedOut", "SignedIn",
                          "add_count_again", "add_load")

AddCountAgain(c) ==
  /\ Step(c, "add_count_again", "restore_deferrals")
  /\ userWasAdded' = TRUE /\ handleCount' = 1
  /\ UNCHANGED <<userState, callbacksComplete, deferrals, shutdownStarted,
                 exitHook, exited, held>>

(* The resets of the sign-out after signing in again, shared with          *)
(* restore_signed_in_for_registration.                                     *)
RestoreDeferrals(c) ==
  /\ Step(c, "restore_deferrals", "restore_complete")
  /\ deferrals' = 0
  /\ UNCHANGED <<userState, userWasAdded, handleCount, callbacksComplete,
                 shutdownStarted, exitHook, exited, held>>

SetCallbacksComplete(c, from, to, value) ==
  /\ Step(c, from, to)
  /\ callbacksComplete' = value
  /\ UNCHANGED <<userState, userWasAdded, handleCount, deferrals,
                 shutdownStarted, exitHook, exited, held>>

RestoreComplete(c) ==
  SetCallbacksComplete(c, "restore_complete",
    IF op[c] = "register" THEN "insert_again" ELSE "announce", TRUE)

(* Mutant: the sign-in is not announced. *)
AnnounceNot(c) == Step(c, "announce", "return") /\ UNCHANGED <<userVars, held>>

Announce(c) == Dispatch(c, "announce", "SignedInAgain", "return")

DuplicateHandle(p) ==
  /\ Allowed("duplicate", p) /\ MayCall(p)
  /\ userState = "SignedIn" /\ handleCount < MaxHandles
  /\ handleCount' = handleCount + 1
  /\ UNCHANGED <<regVars, userState, userWasAdded, callbacksComplete,
                 deferrals, shutdownStarted, exitHook, exited, callVars,
                 histVars>>

ReleaseHandle(p) ==
  /\ Allowed("close", p) /\ MayCall(p)
  /\ handleCount # 0
  /\ handleCount' = handleCount - 1
  /\ UNCHANGED <<regVars, userState, userWasAdded, callbacksComplete,
                 deferrals, shutdownStarted, exitHook, exited, callVars,
                 histVars>>

-----------------------------------------------------------------------------
(* register_for_change_event                                               *)

(* bound: Tokens is not used up *)
TokensLeft ==
  IsFiniteSet(Tokens) =>
    Cardinality(issued) + Cardinality({c \in Calls : op[c] = "register"})
      < Cardinality(Tokens)

Register(c, p) ==
  /\ TokensLeft
  /\ Start(c, p, "register", "register_gate")
  /\ IF exitHook = "absent" THEN exitHook' \in HookOutcomes
                            ELSE UNCHANGED exitHook
  /\ UNCHANGED <<userState, userWasAdded, handleCount, callbacksComplete,
                 deferrals, shutdownStarted, exited, held>>

RegisterGate(c) ==
  /\ Step(c, "register_gate",
          IF shutdownStarted THEN "insert" ELSE "register_cas")
  /\ UNCHANGED <<userVars, held>>

RegisterCas(c) == UserStateCas(c, "register_cas", "SignedOut", "SignedIn",
                               "restore_deferrals", "insert")

Insert(c) ==
  /\ \/ Jump(c, "insert", "return")
     \/ Jump(c, "insert_again", "announce")
  /\ InsertRegistration(c)
  /\ UNCHANGED <<userVars, op, event, histVars>>

-----------------------------------------------------------------------------
(* unregister_for_change_event up to active.store(false); the rest of it   *)
(* is the protocol's own.                                                  *)

Unregister(c, p, t, w) ==
  /\ Allowed("unregister", p)
  /\ UnregisterFound(c, p, t, w)
  /\ op' = [op EXCEPT ![c] = "unregister"]
  /\ pc' = [pc EXCEPT ![c] = IF Cardinality(Active) = 1
                             THEN "unregister_state" ELSE "deactivate"]
  /\ UNCHANGED <<userVars, event, histVars>>

UnregisterState(c) ==
  /\ Step(c, "unregister_state",
          IF userState = "SignedIn" THEN "unregister_gate" ELSE "deactivate")
  /\ UNCHANGED <<userVars, held>>

UnregisterGate(c) ==
  /\ Step(c, "unregister_gate", IF userWasAdded /\ ~shutdownStarted
                                THEN "begin_cas" ELSE "deactivate")
  /\ UNCHANGED <<userVars, held>>

DeactivateRegistration(c) ==
  /\ Jump(c, "deactivate", "idle")
  /\ Deactivate(c)
  /\ UNCHANGED <<userVars, op, event, histVars>>

-----------------------------------------------------------------------------
(* begin_sign_out and try_complete_sign_out                                *)

BeginCas(c) == UserStateCas(c, "begin_cas", "SignedIn", "SigningOut",
                            "begin_flag", AfterSignOut(c))

(* Mutant: the flag is not cleared before the callbacks run. *)
BeginFlagNot(c) ==
  SetCallbacksComplete(c, "begin_flag", "begin_dispatch", callbacksComplete)

BeginFlag(c) == SetCallbacksComplete(c, "begin_flag", "begin_dispatch", FALSE)

BeginDispatch(c) == Dispatch(c, "begin_dispatch", "SigningOut", "begin_done")

BeginDone(c) == SetCallbacksComplete(c, "begin_done", "try_flag", TRUE)

TryFlag(c) ==
  /\ Step(c, "try_flag",
          IF callbacksComplete THEN "try_count" ELSE AfterSignOut(c))
  /\ UNCHANGED <<userVars, held>>

(* Mutant: try_complete_sign_out forgets the deferrals. *)
TryCountNot(c) ==
  Step(c, "try_count", "try_cas") /\ UNCHANGED <<userVars, held>>

TryCount(c) ==
  /\ Step(c, "try_count", IF deferrals = 0 THEN "try_cas" ELSE AfterSignOut(c))
  /\ UNCHANGED <<userVars, held>>

TryCas(c) == UserStateCas(c, "try_cas", "SigningOut", "SignedOut",
                          "try_dispatch", AfterSignOut(c))

TryDispatch(c) == Dispatch(c, "try_dispatch", "SignedOut", AfterSignOut(c))

-----------------------------------------------------------------------------
(* get_sign_out_deferral and close_sign_out_deferral_handle                *)

(* The first state() test refuses, or the call goes on. *)
GetDeferral(c, p) ==
  /\ held < MaxHeld /\ userState = "SigningOut"
  /\ Start(c, p, "getDeferral", "deferral_add")
  /\ UNCHANGED <<userVars, held>>

AddDeferral(c, from, to, delta) ==
  /\ Step(c, from, to)
  /\ deferrals' = (deferrals + delta) % CountLimit
  /\ UNCHANGED <<userState, userWasAdded, handleCount, callbacksComplete,
                 shutdownStarted, exitHook, exited, held>>

DeferralAdd(c)  == AddDeferral(c, "deferral_add", "deferral_check", 1)

DeferralCheck(c) ==
  LET granted == userState = "SigningOut" IN
  /\ Step(c, "deferral_check", IF granted THEN "return" ELSE "deferral_undo")
  /\ held' = IF granted THEN held + 1 ELSE held
  /\ UNCHANGED userVars

(* fetch_sub wraps around *)
DeferralUndo(c) == AddDeferral(c, "deferral_undo", "return", CountLimit - 1)

CloseDeferral(c, p) ==
  /\ held > 0
  /\ Start(c, p, "closeDeferral", IF deferrals = 1 THEN "try_flag" ELSE "return")
  /\ held' = held - 1
  /\ deferrals' = IF deferrals = 0 THEN 0 ELSE deferrals - 1
  /\ UNCHANGED <<userState, userWasAdded, handleCount, callbacksComplete,
                 shutdownStarted, exitHook, exited>>

-----------------------------------------------------------------------------
(* rtl_exit_user_process_hook and begin_process_shutdown                   *)

(* Without its hook the process simply exits. *)
ExitUnhooked(p) ==
  /\ Allowed("exit", p) /\ MayCall(p)
  /\ exitHook # "installed"
  /\ exited' = TRUE
  /\ UNCHANGED <<regVars, userState, userWasAdded, handleCount,
                 callbacksComplete, deferrals, shutdownStarted, exitHook,
                 callVars, histVars>>

Exit(c, p) ==
  /\ exitHook = "installed"
  /\ Start(c, p, "exit", IF shutdownStarted THEN "exit_forward" ELSE "exit_added")
  /\ shutdownStarted' = TRUE
  /\ UNCHANGED <<userState, userWasAdded, handleCount, callbacksComplete,
                 deferrals, exitHook, exited, held>>

ExitAdded(c) ==
  /\ Step(c, "exit_added", IF userWasAdded THEN "begin_cas" ELSE "exit_store")
  /\ UNCHANGED <<userVars, held>>

ExitStore(c) ==
  /\ Step(c, "exit_store", "exit_forward")
  /\ userState' = "SignedOut"
  /\ UNCHANGED <<userWasAdded, handleCount, callbacksComplete, deferrals,
                 shutdownStarted, exitHook, exited, held>>

(* Mutant: the wait has no timeout. *)
ExitWaitForever(c) ==
  /\ userState = "SignedOut"
  /\ Step(c, "exit_wait", "exit_forward") /\ UNCHANGED <<userVars, held>>

(* wait_for_signed_out: it sees SignedOut, or its two seconds are over.    *)
(* Its condition variable only decides how soon it looks again.            *)
ExitWait(c) ==
  /\ Step(c, "exit_wait",
          IF userState = "SignedOut" THEN "exit_forward" ELSE "exit_force")
  /\ UNCHANGED <<userVars, held>>

ExitForce(c) == UserStateCas(c, "exit_force", "SigningOut", "SignedOut",
                             "exit_dispatch", "exit_forward")

ExitDispatch(c) == Dispatch(c, "exit_dispatch", "SignedOut", "exit_forward")

ExitForward(c) ==
  /\ Step(c, "exit_forward", "exit_forward")
  /\ exited' = TRUE
  /\ UNCHANGED <<userState, userWasAdded, handleCount, callbacksComplete,
                 deferrals, shutdownStarted, exitHook, held>>

-----------------------------------------------------------------------------
(* The protocol's steps                                                    *)

Return(c) ==
  /\ Jump(c, "return", "idle") /\ Leave(c)
  /\ op' = [op EXCEPT ![c] = "none"]
  /\ UNCHANGED <<userVars, event, histVars>>

CallBack(c, t) ==
  /\ BeginCallback(c, t)
  /\ heard' = [heard EXCEPT ![t] = event[c]]
  /\ UNCHANGED <<userVars, callVars, held>>

CallbackReturns(c) ==
  FinishCallback(c) /\ UNCHANGED <<userVars, callVars, histVars>>

DispatchLoop(c) ==
  /\ (\E t \in Tokens : SkipCallback(c, t)) \/ PruneIdle(c)
  /\ UNCHANGED <<userVars, callVars, histVars>>

DispatchEnds(c) ==
  /\ EndDispatch(c)
  /\ event' = [event EXCEPT ![c] = "none"]
  /\ UNCHANGED <<userVars, pc, op, histVars>>

UnregisterEnds(c) ==
  /\ CheckInFlight(c) \/ Wake(c) \/ RemoveRegistration(c)
  /\ op' = [op EXCEPT ![c] = IF at'[c] = "idle" THEN "none" ELSE @]
  /\ UNCHANGED <<userVars, pc, event, histVars>>

UnregisterAbsent(p, t) ==
  /\ Allowed("unregister", p) /\ UnregisterMissing(p, t)
  /\ UNCHANGED <<userVars, callVars, histVars>>

-----------------------------------------------------------------------------
CallStart(c, p) ==
  \/ Add(c, p) \/ Register(c, p) \/ Exit(c, p)
  \/ GetDeferral(c, p) \/ CloseDeferral(c, p)
  \/ \E t \in Tokens, w \in BOOLEAN : Unregister(c, p, t, w)

CallStep(c) ==
  \/ AddLoad(c) \/ AddCount(c) \/ AddGate(c) \/ AddCas(c) \/ AddCountAgain(c)
  \/ RestoreDeferrals(c) \/ RestoreComplete(c) \/ Announce(c)
  \/ RegisterGate(c) \/ RegisterCas(c) \/ Insert(c)
  \/ UnregisterState(c) \/ UnregisterGate(c) \/ DeactivateRegistration(c)
  \/ BeginCas(c) \/ BeginFlag(c) \/ BeginDispatch(c) \/ BeginDone(c)
  \/ TryFlag(c) \/ TryCount(c) \/ TryCas(c) \/ TryDispatch(c)
  \/ DeferralAdd(c) \/ DeferralCheck(c) \/ DeferralUndo(c)
  \/ ExitAdded(c) \/ ExitStore(c) \/ ExitWait(c) \/ ExitForce(c)
  \/ ExitDispatch(c) \/ ExitForward(c)
  \/ Return(c)
  \/ \E t \in Tokens : CallBack(c, t)
  \/ DispatchLoop(c) \/ DispatchEnds(c) \/ UnregisterEnds(c)

Instant(p) ==
  \/ DuplicateHandle(p) \/ ReleaseHandle(p) \/ ExitUnhooked(p)
  \/ \E t \in Tokens : UnregisterAbsent(p, t)

Callers == Calls \cup {NoCall}

Running ==
  /\ ~exited
  /\ \/ \E c \in Calls, p \in Callers : CallStart(c, p)
     \/ \E c \in Calls : CallStep(c)
     \/ \E c \in Calls : CallbackReturns(c)
     \/ \E p \in Callers : Instant(p)

(* The process is gone. *)
Exited == exited /\ UNCHANGED vars

Next == Running \/ Exited

Spec == Init /\ [][Next]_vars

(* Windows schedules every thread, so a call that can take its next step   *)
(* takes it; a callback that can return again and again, having made no    *)
(* further call, does return.  The title is not bound to make any call.    *)
Fairness ==
  \A c \in Calls : /\ WF_vars(~exited /\ CallStep(c))
                   /\ SF_vars(~exited /\ CallbackReturns(c))

FairSpec == Spec /\ Fairness

-----------------------------------------------------------------------------
LifeTypeOK ==
  /\ userState \in UserStates /\ userWasAdded \in BOOLEAN
  /\ handleCount \in Nat /\ callbacksComplete \in BOOLEAN
  /\ deferrals \in 0 .. CountLimit - 1 /\ shutdownStarted \in BOOLEAN
  /\ exitHook \in HookOutcomes \cup {"absent"} /\ exited \in BOOLEAN
  /\ pc    \in [Calls -> Steps]
  /\ op    \in [Calls -> Ops \cup {"none"}]
  /\ event \in [Calls -> Events \cup {"none"}]
  /\ held \in Nat
  /\ heard \in [Tokens -> Events \cup {"none"}]

(* Type correctness of the life cycle and of the calls' control: the count *)
(* of handles never drops below 0, which release_user_handle's update      *)
(* guards, and a sign-out is only entered from the functions that begin    *)
(* or complete one.                                                        *)
TypeOK == RegTypeOK /\ LifeTypeOK

(* A call delivering SigningOut, or about to *)
SigningOutCalls ==
  {c \in Calls : pc[c] \in {"begin_flag", "begin_dispatch", "begin_done"}}

(* try_complete_sign_out moves the user to SignedOut *)
Completes == \E c \in Calls : pc[c] = "try_cas" /\ pc'[c] = "try_dispatch"

Quiet == \A c \in Calls : at[c] = "idle"

(* The message at line 298 says the sign-out callbacks and deferrals are    *)
(* done when the user becomes SignedOut.  First half: nobody is still       *)
(* delivering SigningOut.                                                   *)
SignedOutAfterCallbacks == [][Completes => SigningOutCalls = {}]_vars

(* Second half: every deferral that was granted has been closed. *)
SignedOutAfterDeferrals == [][Completes => held = 0]_vars

(* While a user is signed in, the step that takes away the last active      *)
(* subscription was preceded by SigningOut (lines 515-518).                 *)
FinalUnregisterSignsOut ==
  [][Active # {} /\ Active' = {} /\ userWasAdded /\ ~shutdownStarted
     => userState # "SignedIn"]_vars

(* When no call is in progress, the last event each subscriber was given    *)
(* agrees with what XUserGetState answers.                                  *)
SubscribersUpToDate ==
  Quiet => \A t \in Active :
             /\ heard[t] = "SigningOut"    => userState = "SigningOut"
             /\ heard[t] = "SignedOut"     => userState = "SignedOut"
             /\ heard[t] = "SignedInAgain" => userState = "SignedIn"

(* A sign-out that waits for no deferral is over: with no call in progress, *)
(* the user is SigningOut only while the title holds a deferral.            *)
NoStuckSignOut == Quiet /\ userState = "SigningOut" => held > 0

(* What is left when every call has returned: subscribers that know how the *)
(* user stands, and no sign-out that nothing will end.                      *)
QuietMeansSettled == SubscribersUpToDate /\ NoStuckSignOut

(* The user is signed out once the callbacks have heard of it, and no       *)
(* subscriber leaves a user signed in behind.                               *)
SignOutsAreHeard == SignedOutAfterCallbacks /\ FinalUnregisterSignsOut

(* The life cycle keeps the promise of UserSession: the order of the        *)
(* states, no sign-out completed over a deferral, no sign-in while leaving, *)
(* no normal exit without the sign-out.                                     *)
Session == INSTANCE UserSession
ImplementsSession == Session!Spec

(* A normal exit reaches the original RtlExitUserProcess, whatever the      *)
(* title does with its deferrals: the wait for them has a timeout.          *)
ExitProceeds == \A c \in Calls : op[c] = "exit" ~> exited

(* An unregister that waits for a running callback returns. *)
WaitingUnregisterReturns ==
  \A c \in Calls : at[c] = "waiting" ~> (at[c] # "waiting" \/ exited)
=============================================================================
