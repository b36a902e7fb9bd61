------------------------ MODULE ChangeRegistrations ------------------------
(***************************************************************************)
(* The XUser change-event registrations of                                 *)
(* src/core/xuser_bridge/xuser_lifecycle.rs: the CHANGE_REGISTRATIONS      *)
(* map, the active flag and the in_flight count of each registration, the  *)
(* dispatch loop that calls the title back, and unregistering, with and    *)
(* without wait.                                                           *)
(*                                                                         *)
(* The title may call back into the bridge from a callback, so a thread is *)
(* a chain of activations: a call of the bridge is a member of Calls, and  *)
(* caller[c] is the call whose callback made c.  A chain's root has no     *)
(* caller; two roots are two threads.  One action is one critical section  *)
(* or one atomic access of the code.                                       *)
(*                                                                         *)
(* active only ever goes from TRUE to FALSE, which lets begin_callback's   *)
(* unlocked test and finish_callback's unlocked test be taken together     *)
(* with the critical section next to them.                                 *)
(***************************************************************************)
EXTENDS Naturals, FiniteSets

CONSTANTS
  Calls,      \* activations of the bridge's functions
  NoCall,     \* the caller of a thread's outermost call
  Tokens,     \* registration tokens (u64, never reused)
  NoToken,    \* token 0, which next_registration_token skips
  NestedWait  \* may a callback unregister another token with wait?

ASSUME CallsAssumption  == IsFiniteSet(Calls) /\ NoCall \notin Calls
ASSUME TokensAssumption == NoToken \notin Tokens
ASSUME NestedWaitAssumption == NestedWait \in BOOLEAN

VARIABLES
  registered, \* keys of CHANGE_REGISTRATIONS
  issued,     \* tokens NEXT_REGISTRATION_TOKEN has handed out
  active,     \* ChangeRegistration.active
  inFlight,   \* ChangeRegistration.in_flight
  caller,     \* the call whose callback made this call, or NoCall
  at,         \* where each call is, as far as the registrations go
  todo,       \* the rest of the snapshot a dispatching call works through
  running,    \* the registration whose callback a call is running
  target,     \* the token a call is unregistering, or NoToken
  waits,      \* the wait argument of that unregister
  quiesced,   \* history: tokens an unregister found and answered 1 for
  gone        \* history: tokens an unregister did not find and answered 1 for

regVars == <<registered, issued, active, inFlight, caller, at, todo, running,
             target, waits, quiesced, gone>>

(* "body": in code that touches no registration.  "loop" to "prune": in    *)
(* dispatch_change_event.  "inactive" to "removing": the end of            *)
(* unregister_for_change_event.                                            *)
Places == {"idle", "body", "loop", "callback", "prune",
           "inactive", "waiting", "removing"}

Runners(t) == {c \in Calls : at[c] = "callback" /\ running[c] = t}
Active     == {t \in registered : active[t]}
Children(p) == {c \in Calls : at[c] # "idle" /\ caller[c] = p}

(* CURRENT_CALLBACK_TOKEN of the thread that makes call c *)
CurrentToken(c) == IF caller[c] = NoCall THEN NoToken ELSE running[caller[c]]

(* The title calls from a thread of its own or from a callback, which makes *)
(* one call at a time.                                                      *)
MayCall(p) == \/ p = NoCall
              \/ p \in Calls /\ at[p] = "callback" /\ Children(p) = {}

RegInit ==
  /\ registered = {} /\ issued = {}
  /\ active   = [t \in Tokens |-> FALSE]
  /\ inFlight = [t \in Tokens |-> 0]
  /\ caller   = [c \in Calls |-> NoCall]
  /\ at       = [c \in Calls |-> "idle"]
  /\ todo     = [c \in Calls |-> {}]
  /\ running  = [c \in Calls |-> NoToken]
  /\ target   = [c \in Calls |-> NoToken]
  /\ waits    = [c \in Calls |-> FALSE]
  /\ quiesced = {} /\ gone = {}

Goto(c, from, to) == at[c] = from /\ at' = [at EXCEPT ![c] = to]

(* A function of the bridge other than unregister is called. *)
Enter(c, p) ==
  /\ MayCall(p)
  /\ Goto(c, "idle", "body")
  /\ caller' = [caller EXCEPT ![c] = p]
  /\ UNCHANGED <<registered, issued, active, inFlight, todo, running, target,
                 waits, quiesced, gone>>

(* Such a function returns. *)
Leave(c) ==
  /\ target[c] = NoToken
  /\ Goto(c, "body", "idle")
  /\ caller' = [caller EXCEPT ![c] = NoCall]
  /\ UNCHANGED <<registered, issued, active, inFlight, todo, running, target,
                 waits, quiesced, gone>>

(* register_for_change_event: a fresh token, inserted active and idle.  The *)
(* token means nothing to anyone before the insertion.                      *)
InsertRegistration(c) ==
  /\ at[c] = "body" /\ target[c] = NoToken
  /\ \E t \in Tokens \ issued :
       /\ issued'     = issued \cup {t}
       /\ registered' = registered \cup {t}
       /\ active'     = [active EXCEPT ![t] = TRUE]
  /\ UNCHANGED <<inFlight, caller, at, todo, running, target, waits, quiesced,
                 gone>>

(* dispatch_change_event: the active registrations, cloned under the lock *)
StartDispatch(c) ==
  /\ Goto(c, "body", "loop")
  /\ todo' = [todo EXCEPT ![c] = Active]
  /\ UNCHANGED <<registered, issued, active, inFlight, caller, running, target,
                 waits, quiesced, gone>>

(* Mutant: begin_callback forgets to test active. *)
BeginCallbackUntested(c, t) ==
  /\ t \in todo[c]
  /\ Goto(c, "loop", "callback")
  /\ inFlight' = [inFlight EXCEPT ![t] = @ + 1]
  /\ running'  = [running EXCEPT ![c] = t]
  /\ todo'     = [todo EXCEPT ![c] = @ \ {t}]
  /\ UNCHANGED <<registered, issued, active, caller, target, waits, quiesced,
                 gone>>

(* begin_callback answers true, and the title's callback is called *)
BeginCallback(c, t) ==
  /\ t \in todo[c] /\ active[t]
  /\ Goto(c, "loop", "callback")
  /\ inFlight' = [inFlight EXCEPT ![t] = @ + 1]
  /\ running'  = [running EXCEPT ![c] = t]
  /\ todo'     = [todo EXCEPT ![c] = @ \ {t}]
  /\ UNCHANGED <<registered, issued, active, caller, target, waits, quiesced,
                 gone>>

(* begin_callback answers false: the registration is skipped *)
SkipCallback(c, t) ==
  /\ at[c] = "loop" /\ t \in todo[c] /\ ~active[t]
  /\ todo' = [todo EXCEPT ![c] = @ \ {t}]
  /\ UNCHANGED <<registered, issued, active, inFlight, caller, at, running,
                 target, waits, quiesced, gone>>

(* The callback returns; finish_callback's critical section *)
FinishCallback(c) ==
  LET t == running[c] IN
  /\ at[c] = "callback" /\ Children(c) = {}
  /\ inFlight' = [inFlight EXCEPT ![t] = @ - 1]
  /\ at' = [at EXCEPT ![c] = IF inFlight[t] = 1 THEN "prune" ELSE "loop"]
  /\ running' = IF inFlight[t] = 1 THEN running
                                   ELSE [running EXCEPT ![c] = NoToken]
  /\ UNCHANGED <<registered, issued, active, caller, todo, target, waits,
                 quiesced, gone>>

(* finish_callback saw the count reach 0: it drops the entry if inactive *)
PruneIdle(c) ==
  /\ Goto(c, "prune", "loop")
  /\ registered' = IF active[running[c]] THEN registered
                                         ELSE registered \ {running[c]}
  /\ running' = [running EXCEPT ![c] = NoToken]
  /\ UNCHANGED <<issued, active, inFlight, caller, todo, target, waits,
                 quiesced, gone>>

EndDispatch(c) ==
  /\ todo[c] = {}
  /\ Goto(c, "loop", "body")
  /\ UNCHANGED <<registered, issued, active, inFlight, caller, todo, running,
                 target, waits, quiesced, gone>>

(* unregister_for_change_event, its lookup under the map's lock.  With      *)
(* NestedWait a title may wait in one callback for another, which only its  *)
(* own discipline keeps from waiting for itself.                            *)
UnregisterFound(c, p, t, w) ==
  /\ MayCall(p) /\ t \in registered
  /\ w /\ p # NoCall => NestedWait \/ running[p] = t
  /\ Goto(c, "idle", "body")
  /\ caller' = [caller EXCEPT ![c] = p]
  /\ target' = [target EXCEPT ![c] = t]
  /\ waits'  = [waits EXCEPT ![c] = w]
  /\ UNCHANGED <<registered, issued, active, inFlight, todo, running, quiesced,
                 gone>>

UnregisterMissing(p, t) ==
  /\ MayCall(p) /\ t \in issued \ registered
  /\ gone' = gone \cup {t}
  /\ UNCHANGED <<registered, issued, active, inFlight, caller, at, todo,
                 running, target, waits, quiesced>>

(* registration.active.store(false) *)
Deactivate(c) ==
  /\ target[c] # NoToken
  /\ Goto(c, "body", "inactive")
  /\ active' = [active EXCEPT ![target[c]] = FALSE]
  /\ UNCHANGED <<registered, issued, inFlight, caller, todo, running, target,
                 waits, quiesced, gone>>

(* The first look at in_flight: idle, answered 0 at once, or wait on the    *)
(* condition variable.                                                      *)
CheckInFlight(c) ==
  LET idle  == inFlight[target[c]] = 0
      again == CurrentToken(c) = target[c]
      quit  == ~idle /\ (~waits[c] \/ again)
  IN /\ at[c] = "inactive"
     /\ at' = [at EXCEPT ![c] = IF idle THEN "removing"
                                ELSE IF quit THEN "idle" ELSE "waiting"]
     /\ target' = IF quit THEN [target EXCEPT ![c] = NoToken] ELSE target
     /\ caller' = IF quit THEN [caller EXCEPT ![c] = NoCall] ELSE caller
     /\ waits'  = IF quit THEN [waits EXCEPT ![c] = FALSE] ELSE waits
     /\ UNCHANGED <<registered, issued, active, inFlight, todo, running,
                    quiesced, gone>>

(* Mutant: the waiter looks for its entry, which PruneIdle may have taken. *)
WakeByEntry(c) ==
  /\ Goto(c, "waiting", "removing")
  /\ inFlight[target[c]] = 0 /\ target[c] \in registered
  /\ UNCHANGED <<registered, issued, active, inFlight, caller, todo, running,
                 target, waits, quiesced, gone>>

(* idle.wait returned with in_flight = 0.  finish_callback notifies while   *)
(* it holds the lock, so no wake-up is lost.                                *)
Wake(c) ==
  /\ Goto(c, "waiting", "removing")
  /\ inFlight[target[c]] = 0
  /\ UNCHANGED <<registered, issued, active, inFlight, caller, todo, running,
                 target, waits, quiesced, gone>>

(* remove_registration_if_same, and the answer 1 *)
RemoveRegistration(c) ==
  /\ Goto(c, "removing", "idle")
  /\ registered' = registered \ {target[c]}
  /\ quiesced'   = quiesced \cup {target[c]}
  /\ target'     = [target EXCEPT ![c] = NoToken]
  /\ caller'     = [caller EXCEPT ![c] = NoCall]
  /\ waits'      = [waits EXCEPT ![c] = FALSE]
  /\ UNCHANGED <<issued, active, inFlight, todo, running, gone>>

RegStep(c) ==
  \/ Leave(c)
  \/ InsertRegistration(c)
  \/ StartDispatch(c)
  \/ \E t \in Tokens : BeginCallback(c, t)
  \/ \E t \in Tokens : SkipCallback(c, t)
  \/ FinishCallback(c)
  \/ PruneIdle(c)
  \/ EndDispatch(c)
  \/ Deactivate(c)
  \/ CheckInFlight(c)
  \/ Wake(c)
  \/ RemoveRegistration(c)

RegEntry(c, p) ==
  \/ Enter(c, p)
  \/ \E t \in Tokens, w \in BOOLEAN : UnregisterFound(c, p, t, w)

RegNext ==
  \/ \E c \in Calls : RegStep(c)
  \/ \E c \in Calls, p \in Calls \cup {NoCall} : RegEntry(c, p)
  \/ \E p \in Calls \cup {NoCall}, t \in Tokens : UnregisterMissing(p, t)

RegSpec == RegInit /\ [][RegNext]_regVars

-----------------------------------------------------------------------------
(* Type correctness of the registrations and of the calls' places. *)
RegTypeOK ==
  /\ registered \subseteq issued /\ issued \subseteq Tokens
  /\ active   \in [Tokens -> BOOLEAN]
  /\ inFlight \in [Tokens -> Nat]
  /\ caller   \in [Calls -> Calls \cup {NoCall}]
  /\ at       \in [Calls -> Places]
  /\ todo     \in [Calls -> SUBSET Tokens]
  /\ running  \in [Calls -> Tokens \cup {NoToken}]
  /\ target   \in [Calls -> Tokens \cup {NoToken}]
  /\ waits    \in [Calls -> BOOLEAN]
  /\ quiesced \subseteq issued /\ gone \subseteq issued

(* Once unregister_for_change_event has found a registration and answered  *)
(* 1, the title may free the callback's context: no callback of that token *)
(* is running, whatever dispatches were under way, and in_flight stays 0.  *)
QuiescedNeverRuns ==
  \A t \in quiesced : Runners(t) = {} /\ inFlight[t] = 0

(* An unregister that does not find the token also answers 1, which tells  *)
(* the title the same thing: no callback of that token is running.         *)
MissingNeverRuns == \A t \in gone : Runners(t) = {}

(* The strengthening that makes QuiescedNeverRuns inductive: in_flight     *)
(* counts the running callbacks, and what an unregister has learnt about   *)
(* its target stays true while it goes on.                                 *)
InFlightCounts == \A t \in Tokens : inFlight[t] = Cardinality(Runners(t))

CallsConsistent == \A c \in Calls :
  /\ at[c] \in {"callback", "prune"} => running[c] \in Tokens
  /\ at[c] \in {"inactive", "waiting", "removing"} =>
       target[c] \in issued /\ ~active[target[c]]
  /\ at[c] = "removing" => inFlight[target[c]] = 0
  /\ target[c] # NoToken => target[c] \in issued
  /\ todo[c] \subseteq issued

QuiescedInactive ==
  \A t \in quiesced : ~active[t] /\ inFlight[t] = 0

RegInv == RegTypeOK /\ InFlightCounts /\ CallsConsistent /\ QuiescedInactive
=============================================================================
