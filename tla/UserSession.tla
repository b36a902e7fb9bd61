---------------------------- MODULE UserSession ----------------------------
(***************************************************************************)
(* What the XUser provider promises a title about its one user: the state  *)
(* machine SignedIn -> SigningOut -> SignedOut of                          *)
(* docs/releases/0.2.12.md, the deferrals that hold a sign-out up, and *)
(* the sign-out a normal process exit completes first                      *)
(* (docs/releases/0.2.13.md).  Every step is atomic and nothing is     *)
(* said about threads, registrations or callbacks.                         *)
(***************************************************************************)
EXTENDS Naturals

VARIABLES
  userState,       \* what XUserGetState answers
  userWasAdded,    \* the title has asked for the user
  held,            \* deferrals the title holds
  shutdownStarted, \* a normal exit has begun
  exited           \* the process is gone

vars == <<userState, userWasAdded, held, shutdownStarted, exited>>

Init == /\ userState = "SignedIn" /\ userWasAdded = FALSE /\ held = 0
        /\ shutdownStarted = FALSE /\ exited = FALSE

Add == /\ userState = "SignedIn" /\ userWasAdded' = TRUE
       /\ UNCHANGED <<userState, held, shutdownStarted, exited>>

SignOut == /\ userState = "SignedIn" /\ userWasAdded
           /\ userState' = "SigningOut"
           /\ UNCHANGED <<userWasAdded, held, shutdownStarted, exited>>

(* A deferral is granted only while the user signs out. *)
Defer == /\ userState = "SigningOut" /\ held' = held + 1
         /\ UNCHANGED <<userState, userWasAdded, shutdownStarted, exited>>

Release == /\ held > 0 /\ held' = held - 1
           /\ UNCHANGED <<userState, userWasAdded, shutdownStarted, exited>>

(* The sign-out is over once nobody holds it up; a process that leaves      *)
(* gives up waiting.                                                        *)
Complete == /\ userState = "SigningOut" /\ (held = 0 \/ shutdownStarted)
            /\ userState' = "SignedOut"
            /\ UNCHANGED <<userWasAdded, held, shutdownStarted, exited>>

(* A process that leaves does not sign in again. *)
SignInAgain == /\ userState = "SignedOut" /\ ~shutdownStarted
               /\ userState' = "SignedIn"
               /\ UNCHANGED <<userWasAdded, held, shutdownStarted, exited>>

Leave == /\ ~shutdownStarted /\ shutdownStarted' = TRUE
         /\ UNCHANGED <<userState, userWasAdded, held, exited>>

(* A user the title never asked for needs no sign-out. *)
LeaveUnused == /\ shutdownStarted /\ ~userWasAdded
               /\ userState' = "SignedOut"
               /\ UNCHANGED <<userWasAdded, held, shutdownStarted, exited>>

(* A normal exit leaves with the user signed out; any other just leaves. *)
Exit == /\ ~exited /\ exited' = TRUE
        /\ shutdownStarted => userState = "SignedOut"
        /\ UNCHANGED <<userState, userWasAdded, held, shutdownStarted>>

Next == \/ Add \/ SignOut \/ Defer \/ Release \/ Complete \/ SignInAgain
        \/ Leave \/ LeaveUnused \/ Exit

Spec == Init /\ [][Next]_vars
=============================================================================
