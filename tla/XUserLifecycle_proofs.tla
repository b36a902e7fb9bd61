------------------------ MODULE XUserLifecycle_proofs ------------------------
(***************************************************************************)
(* Proofs about the registration protocol of ChangeRegistrations, for any  *)
(* finite set of calls and any set of tokens, and about XUserLifecycle,    *)
(* for any number of calls, threads, tokens and deferrals: the whole life  *)
(* cycle follows the protocol, so what is proved of it holds there too.    *)
(* What becomes of the user is proved for a title that calls from one      *)
(* thread, any number of tokens and deferrals: with two threads it does    *)
(* not hold (README.md, "Disagreements found").                            *)
(***************************************************************************)
EXTENDS XUserLifecycle, FiniteSetTheorems, TLAPS

-----------------------------------------------------------------------------
(* The registration protocol by itself.                                    *)

LEMMA RunnersFinite ==
  ASSUME NEW t
  PROVE  IsFiniteSet(Runners(t)) /\ Cardinality(Runners(t)) \in Nat
BY CallsAssumption, FS_Subset, FS_CardinalityType DEF Runners

(* A step that starts and ends no callback keeps the count right. *)
LEMMA CountsKept ==
  ASSUME InFlightCounts, UNCHANGED inFlight,
         \A t \in Tokens : Runners(t)' = Runners(t)
  PROVE  InFlightCounts'
BY DEF InFlightCounts

(* A call that a finite set of calls does not hold yet adds one to the     *)
(* count, and one it holds takes one away.                                 *)
LEMMA CountOneMore ==
  ASSUME NEW S, NEW T, NEW c, IsFiniteSet(S), c \notin S, T = S \cup {c}
  PROVE  Cardinality(T) = Cardinality(S) + 1
BY FS_AddElement

LEMMA CountOneLess ==
  ASSUME NEW S, NEW T, NEW c, IsFiniteSet(S), c \in S, T = S \ {c}
  PROVE  Cardinality(T) = Cardinality(S) - 1 /\ Cardinality(S) # 0
BY FS_RemoveElement, FS_EmptySet

LEMMA RegInitInv == RegInit => RegInv
<1> SUFFICES ASSUME RegInit PROVE RegInv
  OBVIOUS
<1>1. RegTypeOK
  BY DEF RegInit, RegTypeOK, Places
<1>2. InFlightCounts
  <2>1. \A t \in Tokens : Runners(t) = {}
    BY DEF RegInit, Runners
  <2> QED
    BY <2>1, FS_EmptySet DEF InFlightCounts, RegInit
<1>3. CallsConsistent /\ QuiescedInactive
  BY DEF RegInit, CallsConsistent, QuiescedInactive
<1> QED
  BY <1>1, <1>2, <1>3 DEF RegInv

(* No step of a call breaks the invariant: one case per action. *)
LEMMA RegStepInv ==
  ASSUME RegInv, NEW c \in Calls, RegStep(c)
  PROVE  RegInv'
<1> USE DEF RegInv
<1>1. CASE Leave(c)
  <2>1. RegTypeOK'
    BY <1>1 DEF Leave, Goto, RegTypeOK, Places, CallsConsistent
  <2>2. \A t \in Tokens : Runners(t)' = Runners(t)
    BY <1>1 DEF Leave, Goto, RegTypeOK, Places, Runners
  <2>3. InFlightCounts'
    BY <1>1, <2>2, CountsKept DEF Leave
  <2>4. CallsConsistent'
    BY <1>1 DEF Leave, Goto, RegTypeOK, CallsConsistent, Places
  <2>5. QuiescedInactive'
    BY <1>1 DEF Leave, Goto, RegTypeOK, QuiescedInactive, CallsConsistent
  <2> QED
    BY <2>1, <2>3, <2>4, <2>5
<1>2. CASE InsertRegistration(c)
  <2>1. RegTypeOK'
    BY <1>2 DEF InsertRegistration, RegTypeOK, Places, CallsConsistent
  <2>2. \A t \in Tokens : Runners(t)' = Runners(t)
    BY <1>2 DEF InsertRegistration, RegTypeOK, Places, Runners
  <2>3. InFlightCounts'
    BY <1>2, <2>2, CountsKept DEF InsertRegistration
  <2>4. CallsConsistent'
    BY <1>2 DEF InsertRegistration, RegTypeOK, CallsConsistent, Places
  <2>5. QuiescedInactive'
    BY <1>2 DEF InsertRegistration, RegTypeOK, QuiescedInactive, CallsConsistent
  <2> QED
    BY <2>1, <2>3, <2>4, <2>5
<1>3. CASE StartDispatch(c)
  <2>1. RegTypeOK'
    BY <1>3 DEF StartDispatch, Goto, RegTypeOK, Places, Active
  <2>2. \A t \in Tokens : Runners(t)' = Runners(t)
    BY <1>3 DEF StartDispatch, Goto, RegTypeOK, Places, Runners
  <2>3. InFlightCounts'
    BY <1>3, <2>2, CountsKept DEF StartDispatch
  <2>4. CallsConsistent'
    BY <1>3 DEF StartDispatch, Goto, RegTypeOK, CallsConsistent, Active
  <2>5. QuiescedInactive'
    BY <1>3 DEF StartDispatch, Goto, RegTypeOK, QuiescedInactive, CallsConsistent
  <2> QED
    BY <2>1, <2>3, <2>4, <2>5
<1>4. ASSUME NEW t \in Tokens, BeginCallback(c, t)
      PROVE  RegInv'
  <2> USE <1>4 DEF BeginCallback, Goto
  <2>1. RegTypeOK'
    BY DEF RegTypeOK, Places
  <2>2. c \notin Runners(t) /\ Runners(t)' = Runners(t) \cup {c}
    BY DEF RegTypeOK, Runners
  <2>3. \A u \in Tokens \ {t} : Runners(u)' = Runners(u)
    BY DEF RegTypeOK, Runners
  <2>4. Cardinality(Runners(t)') = Cardinality(Runners(t)) + 1
    BY <2>2, RunnersFinite, CountOneMore
  <2>5. InFlightCounts'
    BY <2>3, <2>4 DEF InFlightCounts, RegTypeOK
  <2>6. CallsConsistent'
    BY DEF RegTypeOK, CallsConsistent
  <2>7. QuiescedInactive'
    BY DEF RegTypeOK, QuiescedInactive
  <2> QED
    BY <2>1, <2>5, <2>6, <2>7
<1>5. CASE \E t \in Tokens : SkipCallback(c, t)
  <2>1. RegTypeOK'
    BY <1>5 DEF SkipCallback, RegTypeOK, Places
  <2>2. \A t \in Tokens : Runners(t)' = Runners(t)
    BY <1>5 DEF SkipCallback, RegTypeOK, Places, Runners
  <2>3. InFlightCounts'
    BY <1>5, <2>2, CountsKept DEF SkipCallback
  <2>4. CallsConsistent'
    BY <1>5 DEF SkipCallback, RegTypeOK, CallsConsistent
  <2>5. QuiescedInactive'
    BY <1>5 DEF SkipCallback, RegTypeOK, QuiescedInactive, CallsConsistent
  <2> QED
    BY <2>1, <2>3, <2>4, <2>5
<1>6. CASE FinishCallback(c)
  <2> USE <1>6 DEF FinishCallback
  <2>0. PICK t : t = running[c]
    OBVIOUS
  <2>1. t \in Tokens /\ at[c] = "callback" /\ running[c] = t
    BY <2>0 DEF CallsConsistent
  <2>2. c \in Runners(t) /\ Runners(t)' = Runners(t) \ {c}
    BY <2>1 DEF RegTypeOK, Runners
  <2>3. \A u \in Tokens \ {t} : Runners(u)' = Runners(u)
    BY <2>1 DEF RegTypeOK, Runners
  <2>4. /\ Cardinality(Runners(t)') = Cardinality(Runners(t)) - 1
        /\ Cardinality(Runners(t)) # 0
    BY <2>2, RunnersFinite, CountOneLess
  <2>5. inFlight[t] # 0 /\ inFlight[t] = Cardinality(Runners(t))
    BY <2>1, <2>4 DEF InFlightCounts
  <2>6. RegTypeOK'
    BY <2>1, <2>5 DEF RegTypeOK, Places
  <2>7. InFlightCounts'
    BY <2>1, <2>3, <2>4 DEF InFlightCounts, RegTypeOK
  <2>8. CallsConsistent'
    BY <2>1, <2>5 DEF RegTypeOK, CallsConsistent
  <2>9. QuiescedInactive'
    BY <2>1, <2>5 DEF RegTypeOK, QuiescedInactive
  <2> QED
    BY <2>6, <2>7, <2>8, <2>9
<1>7. CASE PruneIdle(c)
  <2>1. RegTypeOK'
    BY <1>7 DEF PruneIdle, Goto, RegTypeOK, Places, CallsConsistent
  <2>2. \A t \in Tokens : Runners(t)' = Runners(t)
    BY <1>7 DEF PruneIdle, Goto, RegTypeOK, Places, Runners
  <2>3. InFlightCounts'
    BY <1>7, <2>2, CountsKept DEF PruneIdle
  <2>4. CallsConsistent'
    BY <1>7 DEF PruneIdle, Goto, RegTypeOK, CallsConsistent, Places
  <2>5. QuiescedInactive'
    BY <1>7 DEF PruneIdle, Goto, RegTypeOK, QuiescedInactive, CallsConsistent
  <2> QED
    BY <2>1, <2>3, <2>4, <2>5
<1>8. CASE EndDispatch(c)
  <2>1. RegTypeOK'
    BY <1>8 DEF EndDispatch, Goto, RegTypeOK, Places, CallsConsistent
  <2>2. \A t \in Tokens : Runners(t)' = Runners(t)
    BY <1>8 DEF EndDispatch, Goto, RegTypeOK, Places, Runners
  <2>3. InFlightCounts'
    BY <1>8, <2>2, CountsKept DEF EndDispatch
  <2>4. CallsConsistent'
    BY <1>8 DEF EndDispatch, Goto, RegTypeOK, CallsConsistent, Places
  <2>5. QuiescedInactive'
    BY <1>8 DEF EndDispatch, Goto, RegTypeOK, QuiescedInactive, CallsConsistent
  <2> QED
    BY <2>1, <2>3, <2>4, <2>5
<1>9. CASE Deactivate(c)
  <2>1. RegTypeOK'
    BY <1>9 DEF Deactivate, Goto, RegTypeOK, Places, CallsConsistent
  <2>2. \A t \in Tokens : Runners(t)' = Runners(t)
    BY <1>9 DEF Deactivate, Goto, RegTypeOK, Places, Runners
  <2>3. InFlightCounts'
    BY <1>9, <2>2, CountsKept DEF Deactivate
  <2>4. CallsConsistent'
    BY <1>9 DEF Deactivate, Goto, RegTypeOK, CallsConsistent, Places
  <2>5. QuiescedInactive'
    BY <1>9 DEF Deactivate, Goto, RegTypeOK, QuiescedInactive, CallsConsistent
  <2> QED
    BY <2>1, <2>3, <2>4, <2>5
<1>10. CASE CheckInFlight(c)
  <2>1. RegTypeOK'
    BY <1>10 DEF CheckInFlight, RegTypeOK, Places, CallsConsistent
  <2>2. \A t \in Tokens : Runners(t)' = Runners(t)
    BY <1>10 DEF CheckInFlight, RegTypeOK, Places, Runners
  <2>3. InFlightCounts'
    BY <1>10, <2>2, CountsKept DEF CheckInFlight
  <2>4. CallsConsistent'
    BY <1>10 DEF CheckInFlight, RegTypeOK, CallsConsistent, Places
  <2>5. QuiescedInactive'
    BY <1>10 DEF CheckInFlight, RegTypeOK, QuiescedInactive, CallsConsistent
  <2> QED
    BY <2>1, <2>3, <2>4, <2>5
<1>11. CASE Wake(c)
  <2>1. RegTypeOK'
    BY <1>11 DEF Wake, Goto, RegTypeOK, Places, CallsConsistent
  <2>2. \A t \in Tokens : Runners(t)' = Runners(t)
    BY <1>11 DEF Wake, Goto, RegTypeOK, Places, Runners
  <2>3. InFlightCounts'
    BY <1>11, <2>2, CountsKept DEF Wake
  <2>4. CallsConsistent'
    BY <1>11 DEF Wake, Goto, RegTypeOK, CallsConsistent, Places
  <2>5. QuiescedInactive'
    BY <1>11 DEF Wake, Goto, RegTypeOK, QuiescedInactive, CallsConsistent
  <2> QED
    BY <2>1, <2>3, <2>4, <2>5
<1>12. CASE RemoveRegistration(c)
  <2>1. RegTypeOK'
    BY <1>12 DEF RemoveRegistration, Goto, RegTypeOK, Places, CallsConsistent
  <2>2. \A t \in Tokens : Runners(t)' = Runners(t)
    BY <1>12 DEF RemoveRegistration, Goto, RegTypeOK, Places, Runners
  <2>3. InFlightCounts'
    BY <1>12, <2>2, CountsKept DEF RemoveRegistration
  <2>4. CallsConsistent'
    BY <1>12 DEF RemoveRegistration, Goto, RegTypeOK, CallsConsistent, Places
  <2>5. QuiescedInactive'
    BY <1>12 DEF RemoveRegistration, Goto, RegTypeOK, QuiescedInactive, CallsConsistent
  <2> QED
    BY <2>1, <2>3, <2>4, <2>5
<1> QED
  BY <1>1, <1>2, <1>3, <1>4, <1>5, <1>6, <1>7, <1>8, <1>9, <1>10, <1>11, <1>12 DEF RegStep

(* Nor does a call into the bridge. *)
LEMMA RegEntryInv ==
  ASSUME RegInv, NEW c \in Calls, NEW p \in Calls \cup {NoCall},
         RegEntry(c, p)
  PROVE  RegInv'
<1> USE DEF RegInv
<1>1. CASE Enter(c, p)
  <2>1. RegTypeOK'
    BY <1>1 DEF Enter, Goto, RegTypeOK, Places
  <2>2. \A t \in Tokens : Runners(t)' = Runners(t)
    BY <1>1 DEF Enter, Goto, RegTypeOK, Runners
  <2>3. InFlightCounts'
    BY <1>1, <2>2, CountsKept DEF Enter
  <2>4. CallsConsistent' /\ QuiescedInactive'
    BY <1>1 DEF Enter, Goto, RegTypeOK, CallsConsistent, QuiescedInactive
  <2> QED
    BY <2>1, <2>3, <2>4
<1>2. ASSUME NEW t \in Tokens, NEW w \in BOOLEAN, UnregisterFound(c, p, t, w)
      PROVE  RegInv'
  <2>1. RegTypeOK'
    BY <1>2 DEF UnregisterFound, Goto, RegTypeOK, Places
  <2>2. \A u \in Tokens : Runners(u)' = Runners(u)
    BY <1>2 DEF UnregisterFound, Goto, RegTypeOK, Runners
  <2>3. InFlightCounts'
    BY <1>2, <2>2, CountsKept DEF UnregisterFound
  <2>4. CallsConsistent' /\ QuiescedInactive'
    BY <1>2 DEF UnregisterFound, Goto, RegTypeOK, CallsConsistent,
                QuiescedInactive
  <2> QED
    BY <2>1, <2>3, <2>4
<1> QED
  BY <1>1, <1>2 DEF RegEntry

LEMMA RegMissingInv ==
  ASSUME RegInv, NEW p, NEW t \in Tokens, UnregisterMissing(p, t)
  PROVE  RegInv'
<1>1. UNCHANGED <<registered, issued, active, inFlight, caller, at, todo,
                  running, target, waits, quiesced>>
  BY DEF UnregisterMissing
<1>2. gone' \subseteq issued'
  BY DEF UnregisterMissing, RegInv, RegTypeOK
<1>3. \A u \in Tokens : Runners(u)' = Runners(u)
  BY <1>1 DEF Runners
<1>4. InFlightCounts'
  BY <1>1, <1>3, CountsKept DEF RegInv
<1>5. RegTypeOK' /\ CallsConsistent' /\ QuiescedInactive'
  BY <1>1, <1>2 DEF RegInv, RegTypeOK, CallsConsistent, QuiescedInactive
<1> QED
  BY <1>4, <1>5 DEF RegInv

LEMMA RegStutterInv == RegInv /\ UNCHANGED regVars => RegInv'
BY DEF RegInv, RegTypeOK, InFlightCounts, CallsConsistent, QuiescedInactive,
       Runners, regVars

LEMMA RegNextInv == RegInv /\ [RegNext]_regVars => RegInv'
BY RegStepInv, RegEntryInv, RegMissingInv, RegStutterInv DEF RegNext

(* The invariant of the registration protocol. *)
THEOREM RegInvariant == RegSpec => []RegInv
BY RegInitInv, RegNextInv, PTL DEF RegSpec

(* The registrations and the calls' places keep their types: in particular *)
(* in_flight, which finish_callback decrements, never drops below 0.       *)
THEOREM RegTypeCorrect == RegSpec => []RegTypeOK
<1>1. RegInv => RegTypeOK
  BY DEF RegInv
<1> QED
  BY <1>1, RegInvariant, PTL

(* After an unregister that found its registration has answered 1, no      *)
(* callback of that registration runs, and none begins.                    *)
THEOREM QuiescedCorrect == RegSpec => []QuiescedNeverRuns
<1>1. RegInv => QuiescedNeverRuns
  <2> SUFFICES ASSUME RegInv, NEW t \in quiesced
               PROVE  Runners(t) = {} /\ inFlight[t] = 0
    BY DEF QuiescedNeverRuns
  <2>1. t \in Tokens /\ inFlight[t] = 0
    BY DEF RegInv, RegTypeOK, QuiescedInactive
  <2>2. Cardinality(Runners(t)) = 0
    BY <2>1 DEF RegInv, InFlightCounts
  <2> QED
    BY <2>1, <2>2, RunnersFinite, FS_EmptySet
<1> QED
  BY <1>1, RegInvariant, PTL

-----------------------------------------------------------------------------
(* Every step of the life cycle is a step of the protocol or leaves the    *)
(* registrations alone.                                                    *)

LEMMA EntryIsProtocol ==
  ASSUME NEW c \in Calls, NEW p \in Callers, CallStart(c, p)
  PROVE  RegEntry(c, p)
<1>1. CASE Add(c, p) \/ Register(c, p) \/ Exit(c, p) \/ GetDeferral(c, p)
           \/ CloseDeferral(c, p)
  BY <1>1 DEF Add, Register, Exit, GetDeferral, CloseDeferral, Start, RegEntry
<1>2. CASE \E t \in Tokens, w \in BOOLEAN : Unregister(c, p, t, w)
  BY <1>2 DEF Unregister, RegEntry
<1> QED
  BY <1>1, <1>2 DEF CallStart

LEMMA CallStepIsProtocol ==
  ASSUME NEW c \in Calls, CallStep(c)
  PROVE  RegStep(c) \/ UNCHANGED regVars
<1>1. CASE \/ AddLoad(c) \/ AddCount(c) \/ AddGate(c) \/ AddCas(c)
           \/ AddCountAgain(c) \/ RestoreDeferrals(c) \/ RestoreComplete(c)
           \/ RegisterGate(c) \/ RegisterCas(c)
  BY <1>1 DEF AddLoad, AddCount, AddGate, AddCas, AddCountAgain,
     RestoreDeferrals, RestoreComplete, SetCallbacksComplete, RegisterGate,
     RegisterCas, UserStateCas, Step
<1>2. CASE \/ UnregisterState(c) \/ UnregisterGate(c) \/ BeginCas(c)
           \/ BeginFlag(c) \/ BeginDone(c) \/ TryFlag(c) \/ TryCount(c)
           \/ TryCas(c)
  BY <1>2 DEF UnregisterState, UnregisterGate, BeginCas, BeginFlag, BeginDone,
     TryFlag, TryCount, TryCas, SetCallbacksComplete, UserStateCas, Step
<1>3. CASE \/ DeferralAdd(c) \/ DeferralCheck(c) \/ DeferralUndo(c)
           \/ ExitAdded(c) \/ ExitStore(c) \/ ExitWait(c) \/ ExitForce(c)
           \/ ExitForward(c)
  BY <1>3 DEF DeferralAdd, DeferralCheck, DeferralUndo, AddDeferral, ExitAdded,
     ExitStore, ExitWait, ExitForce, ExitForward, UserStateCas, Step
<1>4. CASE \/ Announce(c) \/ BeginDispatch(c) \/ TryDispatch(c)
           \/ ExitDispatch(c)
  BY <1>4 DEF Announce, BeginDispatch, TryDispatch, ExitDispatch, Dispatch,
     RegStep
<1>5. CASE Insert(c) \/ DeactivateRegistration(c) \/ Return(c)
  BY <1>5 DEF Insert, DeactivateRegistration, Return, RegStep
<1>6. CASE \/ \E t \in Tokens : CallBack(c, t)
           \/ DispatchLoop(c) \/ DispatchEnds(c) \/ UnregisterEnds(c)
  BY <1>6 DEF CallBack, DispatchLoop, DispatchEnds, UnregisterEnds, RegStep
<1> QED
  BY <1>1, <1>2, <1>3, <1>4, <1>5, <1>6 DEF CallStep

LEMMA InstantIsProtocol ==
  ASSUME NEW p \in Callers, Instant(p)
  PROVE  RegNext \/ UNCHANGED regVars
<1>1. CASE DuplicateHandle(p) \/ ReleaseHandle(p) \/ ExitUnhooked(p)
  BY <1>1 DEF DuplicateHandle, ReleaseHandle, ExitUnhooked
<1>2. CASE \E t \in Tokens : UnregisterAbsent(p, t)
  BY <1>2 DEF UnregisterAbsent, RegNext, Callers
<1> QED
  BY <1>1, <1>2 DEF Instant

LEMMA StepIsProtocol == [Next]_vars => [RegNext]_regVars
<1> SUFFICES ASSUME [Next]_vars PROVE RegNext \/ UNCHANGED regVars
  OBVIOUS
<1>1. CASE \E c \in Calls, p \in Callers : CallStart(c, p)
  BY <1>1, EntryIsProtocol DEF RegNext, Callers
<1>2. CASE \E c \in Calls : CallStep(c)
  BY <1>2, CallStepIsProtocol DEF RegNext
<1>3. CASE \E c \in Calls : CallbackReturns(c)
  BY <1>3 DEF CallbackReturns, RegNext, RegStep
<1>4. CASE \E p \in Callers : Instant(p)
  BY <1>4, InstantIsProtocol
<1>5. CASE UNCHANGED vars
  BY <1>5 DEF vars
<1> QED
  BY <1>1, <1>2, <1>3, <1>4, <1>5 DEF Next, Running, Exited

(* The life cycle is an implementation of the registration protocol: none  *)
(* of the calls the title makes, and none of the calls BLoader makes for   *)
(* itself, gets around it.                                                 *)
THEOREM FollowsProtocol == Spec => RegSpec
<1>1. Init => RegInit
  BY DEF Init
<1> QED
  BY <1>1, StepIsProtocol, PTL DEF Spec, RegSpec

(* Whatever the threads of the title do at once, and wherever the sign-out *)
(* and the exit stand, no callback runs for a token that an unregister     *)
(* found and answered 1 for.                                               *)
THEOREM LifeQuiesced == Spec => []QuiescedNeverRuns
BY FollowsProtocol, QuiescedCorrect, PTL

(* The invariant of the protocol is an invariant of the life cycle.        *)
THEOREM LifeRegInvariant == Spec => []RegInv
BY FollowsProtocol, RegInvariant, PTL

-----------------------------------------------------------------------------
(* Type correctness.  begin_sign_out and try_complete_sign_out return to   *)
(* the function that called them (AfterSignOut), so the types depend on    *)
(* which functions those are.                                              *)

OpFits(step, o) ==
  /\ step \in {"unregister_state", "unregister_gate"} => o = "unregister"
  /\ step = "exit_added" => o = "exit"
  /\ step \in {"begin_cas", "begin_flag", "begin_dispatch", "begin_done"} =>
       o \in {"unregister", "exit"}
  /\ step \in {"try_flag", "try_count", "try_cas", "try_dispatch"} =>
       o \in {"unregister", "exit", "closeDeferral"}

OpsInStep == \A c \in Calls :
  /\ at[c] \in {"inactive", "waiting", "removing"} => pc[c] = "idle"
  /\ OpFits(pc[c], op[c])

LifeInv == RegInv /\ LifeTypeOK /\ OpsInStep

LEMMA Remainder ==
  ASSUME NEW n \in Nat, NEW m \in Nat \ {0}
  PROVE  n % m \in 0 .. m - 1
OBVIOUS

LEMMA StepTypes ==
  ASSUME LifeInv, NEW c \in Calls, NEW from, NEW to \in Steps,
         Step(c, from, to), OpFits(to, op[c])
  PROVE  /\ pc' \in [Calls -> Steps]
         /\ op' \in [Calls -> Ops \cup {"none"}]
         /\ event' \in [Calls -> Events \cup {"none"}]
         /\ heard' \in [Tokens -> Events \cup {"none"}]
         /\ OpsInStep'
<1> USE DEF Step, Jump, LifeInv, LifeTypeOK
<1>1. /\ pc' \in [Calls -> Steps]
      /\ op' \in [Calls -> Ops \cup {"none"}]
      /\ event' \in [Calls -> Events \cup {"none"}]
      /\ heard' \in [Tokens -> Events \cup {"none"}]
  OBVIOUS
<1>2. OpsInStep'
  BY DEF OpsInStep, regVars
<1> QED
  BY <1>1, <1>2

LEMMA CasTypes ==
  ASSUME LifeInv, NEW c \in Calls, NEW from, NEW expected,
         NEW new \in UserStates, NEW won \in Steps, NEW lost \in Steps,
         UserStateCas(c, from, expected, new, won, lost),
         OpFits(won, op[c]), OpFits(lost, op[c])
  PROVE  LifeTypeOK' /\ OpsInStep'
<1> DEFINE to == IF userState = expected THEN won ELSE lost
<1>1. Step(c, from, to) /\ to \in Steps /\ OpFits(to, op[c])
  BY DEF UserStateCas
<1> HIDE DEF to
<1>2. /\ pc' \in [Calls -> Steps]
      /\ op' \in [Calls -> Ops \cup {"none"}]
      /\ event' \in [Calls -> Events \cup {"none"}]
      /\ heard' \in [Tokens -> Events \cup {"none"}]
      /\ OpsInStep'
  BY <1>1, StepTypes
<1> QED
  BY <1>2 DEF UserStateCas, LifeInv, LifeTypeOK

LEMMA DispatchTypes ==
  ASSUME LifeInv, NEW c \in Calls, NEW from, NEW e \in Events,
         NEW to \in Steps, Dispatch(c, from, e, to), OpFits(to, op[c])
  PROVE  LifeTypeOK' /\ OpsInStep'
<1>1. LifeTypeOK'
  BY DEF Dispatch, Jump, userVars, histVars, LifeInv, LifeTypeOK
<1>2. OpsInStep'
  BY DEF Dispatch, Jump, StartDispatch, Goto, LifeInv, LifeTypeOK, RegInv,
     RegTypeOK, OpsInStep
<1> QED
  BY <1>1, <1>2

LEMMA StartTypes ==
  ASSUME LifeInv, NEW c \in Calls, NEW p, NEW o \in Ops, NEW first \in Steps,
         Start(c, p, o, first), OpFits(first, o)
  PROVE  /\ pc' \in [Calls -> Steps]
         /\ op' \in [Calls -> Ops \cup {"none"}]
         /\ event' \in [Calls -> Events \cup {"none"}]
         /\ heard' \in [Tokens -> Events \cup {"none"}]
         /\ OpsInStep'
<1> USE DEF Start, LifeInv, LifeTypeOK
<1>1. /\ pc' \in [Calls -> Steps]
      /\ op' \in [Calls -> Ops \cup {"none"}]
      /\ event' \in [Calls -> Events \cup {"none"}]
      /\ heard' \in [Tokens -> Events \cup {"none"}]
  OBVIOUS
<1>2. OpsInStep'
  BY DEF Enter, Goto, RegInv, RegTypeOK, OpsInStep
<1> QED
  BY <1>1, <1>2

(* Where begin_sign_out and try_complete_sign_out return to is a step.     *)
LEMMA AfterSignOutIsStep ==
  ASSUME NEW c, op[c] \in {"unregister", "exit", "closeDeferral"}
  PROVE  AfterSignOut(c) \in {"deactivate", "exit_wait", "return"}
BY DEF AfterSignOut

LEMMA EntryTypes ==
  ASSUME LifeInv, NEW c \in Calls, NEW p \in Callers, CallStart(c, p)
  PROVE  LifeTypeOK' /\ OpsInStep'
<1> USE DEF LifeInv, LifeTypeOK
<1>1. CASE Add(c, p)
  <2>1. Start(c, p, "add", "add_load")
    BY <1>1 DEF Add
  <2> QED
    BY <1>1, <2>1, StartTypes DEF Add, userVars, Ops, Steps, OpFits
<1>2. CASE Register(c, p)
  <2>1. Start(c, p, "register", "register_gate")
    BY <1>2 DEF Register
  <2> QED
    BY <1>2, <2>1, StartTypes DEF Register, Ops, Steps, OpFits
<1>3. CASE Exit(c, p)
  <2>1. \E s \in {"exit_forward", "exit_added"} : Start(c, p, "exit", s)
    BY <1>3 DEF Exit
  <2> QED
    BY <1>3, <2>1, StartTypes DEF Exit, Ops, Steps, OpFits
<1>4. CASE GetDeferral(c, p)
  <2>1. Start(c, p, "getDeferral", "deferral_add")
    BY <1>4 DEF GetDeferral
  <2> QED
    BY <1>4, <2>1, StartTypes DEF GetDeferral, userVars, Ops, Steps, OpFits
<1>5. CASE CloseDeferral(c, p)
  <2>1. \E s \in {"try_flag", "return"} : Start(c, p, "closeDeferral", s)
    BY <1>5 DEF CloseDeferral
  <2>2. held' \in Nat /\ deferrals' \in 0 .. CountLimit - 1
    BY <1>5, BoundsAssumption DEF CloseDeferral
  <2> QED
    BY <1>5, <2>1, <2>2, StartTypes DEF CloseDeferral, Ops, Steps, OpFits
<1>6. CASE \E t \in Tokens, w \in BOOLEAN : Unregister(c, p, t, w)
  <2>1. LifeTypeOK'
    BY <1>6 DEF Unregister, userVars, histVars, Ops, Steps
  <2>2. OpsInStep'
    BY <1>6 DEF Unregister, UnregisterFound, Goto, RegInv, RegTypeOK,
       OpsInStep, OpFits
  <2> QED
    BY <2>1, <2>2
<1> QED
  BY <1>1, <1>2, <1>3, <1>4, <1>5, <1>6 DEF CallStart

(* The steps that change the user's side alone, by what they go on to.     *)
LEMMA UserStepTypes ==
  ASSUME LifeInv, NEW c \in Calls,
         \/ AddLoad(c) \/ AddGate(c) \/ RegisterGate(c)
         \/ UnregisterState(c) \/ UnregisterGate(c) \/ ExitAdded(c)
         \/ ExitWait(c)
  PROVE  LifeTypeOK' /\ OpsInStep'
<1>1. PICK from \in Steps, to \in Steps : Step(c, from, to) /\ OpFits(to, op[c])
  <2>1. CASE AddLoad(c)
    BY <2>1 DEF AddLoad, Steps, OpFits, LifeInv, LifeTypeOK, UserStates
  <2>2. CASE AddGate(c) \/ RegisterGate(c) \/ ExitWait(c)
    BY <2>2 DEF AddGate, RegisterGate, ExitWait, Steps, OpFits
  <2>3. CASE UnregisterState(c)
    BY <2>3 DEF UnregisterState, Step, Jump, Steps, OpFits, LifeInv, OpsInStep
  <2>4. CASE UnregisterGate(c)
    BY <2>4 DEF UnregisterGate, Step, Jump, Steps, OpFits, LifeInv, OpsInStep
  <2>5. CASE ExitAdded(c)
    BY <2>5 DEF ExitAdded, Step, Jump, Steps, OpFits, LifeInv, OpsInStep
  <2> QED
    BY <2>1, <2>2, <2>3, <2>4, <2>5
<1>2. UNCHANGED <<userVars, held>>
  BY DEF AddLoad, AddGate, RegisterGate, UnregisterState, UnregisterGate,
     ExitAdded, ExitWait
<1> QED
  BY <1>1, <1>2, StepTypes DEF userVars, LifeInv, LifeTypeOK

LEMMA CountStepTypes ==
  ASSUME LifeInv, NEW c \in Calls,
         \/ AddCount(c) \/ AddCountAgain(c) \/ RestoreDeferrals(c)
         \/ RestoreComplete(c) \/ BeginFlag(c) \/ BeginDone(c)
         \/ DeferralAdd(c) \/ DeferralCheck(c) \/ DeferralUndo(c)
         \/ ExitStore(c) \/ ExitForward(c)
  PROVE  LifeTypeOK' /\ OpsInStep'
<1>1. PICK from \in Steps, to \in Steps : Step(c, from, to) /\ OpFits(to, op[c])
  <2>1. CASE \/ AddCount(c) \/ AddCountAgain(c) \/ RestoreDeferrals(c)
             \/ RestoreComplete(c) \/ ExitStore(c) \/ ExitForward(c)
    BY <2>1 DEF AddCount, AddCountAgain, RestoreDeferrals, RestoreComplete,
       ExitStore, ExitForward, SetCallbacksComplete, Steps, OpFits
  <2>2. CASE BeginFlag(c)
    BY <2>2 DEF BeginFlag, SetCallbacksComplete, Step, Jump, Steps, OpFits,
       LifeInv, OpsInStep
  <2>3. CASE BeginDone(c)
    BY <2>3 DEF BeginDone, SetCallbacksComplete, Step, Jump, Steps, OpFits,
       LifeInv, OpsInStep
  <2>4. CASE DeferralAdd(c) \/ DeferralCheck(c) \/ DeferralUndo(c)
    BY <2>4 DEF DeferralAdd, DeferralCheck, DeferralUndo, AddDeferral, Steps,
       OpFits
  <2> QED
    BY <2>1, <2>2, <2>3, <2>4
<1>2. deferrals' \in 0 .. CountLimit - 1
  <2>1. CASE DeferralAdd(c) \/ DeferralUndo(c)
    <3>1. PICK delta \in Nat : deferrals' = (deferrals + delta) % CountLimit
      BY <2>1, BoundsAssumption DEF DeferralAdd, DeferralUndo, AddDeferral
    <3> QED
      BY <3>1, BoundsAssumption, Remainder DEF LifeInv, LifeTypeOK
  <2>2. CASE RestoreDeferrals(c)
    BY <2>2, BoundsAssumption DEF RestoreDeferrals
  <2> QED
    BY <2>1, <2>2 DEF AddCount, AddCountAgain, RestoreComplete, BeginFlag,
       BeginDone, DeferralCheck, ExitStore, ExitForward, SetCallbacksComplete,
       userVars, LifeInv, LifeTypeOK
<1>3. /\ userState' \in UserStates /\ userWasAdded' \in BOOLEAN
      /\ handleCount' \in Nat /\ callbacksComplete' \in BOOLEAN
      /\ shutdownStarted' \in BOOLEAN
      /\ exitHook' \in HookOutcomes \cup {"absent"} /\ exited' \in BOOLEAN
      /\ held' \in Nat
  <2> USE DEF LifeInv, LifeTypeOK
  <2>1. CASE AddCount(c) \/ AddCountAgain(c)
    <3>1. handleCount' \in Nat
      BY <2>1 DEF AddCount, AddCountAgain
    <3>2. userWasAdded' = TRUE
      BY <2>1 DEF AddCount, AddCountAgain
    <3> QED
      BY <2>1, <3>1, <3>2 DEF AddCount, AddCountAgain
  <2>2. CASE RestoreDeferrals(c) \/ DeferralAdd(c) \/ DeferralUndo(c)
    BY <2>2 DEF RestoreDeferrals, DeferralAdd, DeferralUndo, AddDeferral
  <2>3. CASE RestoreComplete(c) \/ BeginFlag(c) \/ BeginDone(c)
    BY <2>3 DEF RestoreComplete, BeginFlag, BeginDone, SetCallbacksComplete
  <2>4. CASE DeferralCheck(c)
    BY <2>4 DEF DeferralCheck, userVars
  <2>5. CASE ExitStore(c) \/ ExitForward(c)
    BY <2>5 DEF ExitStore, ExitForward, UserStates
  <2> QED
    BY <2>1, <2>2, <2>3, <2>4, <2>5
<1> QED
  BY <1>1, <1>2, <1>3, StepTypes DEF LifeTypeOK

(* The exchanges that are not part of a sign-out's beginning               *)
LEMMA OtherCasTypes ==
  ASSUME LifeInv, NEW c \in Calls, AddCas(c) \/ RegisterCas(c) \/ ExitForce(c)
  PROVE  LifeTypeOK' /\ OpsInStep'
<1>1. CASE AddCas(c)
  <2>1. UserStateCas(c, "add_cas", "SignedOut", "SignedIn", "add_count_again", "add_load")
    BY <1>1 DEF AddCas
  <2>2. "add_count_again" \in Steps /\ "add_load" \in Steps /\ "SignedIn" \in UserStates
    BY DEF Steps, UserStates
  <2>3. OpFits("add_count_again", op[c]) /\ OpFits("add_load", op[c])
    BY DEF OpFits
  <2> QED
    BY <2>1, <2>2, <2>3, CasTypes
<1>2. CASE RegisterCas(c)
  <2>1. UserStateCas(c, "register_cas", "SignedOut", "SignedIn", "restore_deferrals", "insert")
    BY <1>2 DEF RegisterCas
  <2>2. "restore_deferrals" \in Steps /\ "insert" \in Steps /\ "SignedIn" \in UserStates
    BY DEF Steps, UserStates
  <2>3. OpFits("restore_deferrals", op[c]) /\ OpFits("insert", op[c])
    BY DEF OpFits
  <2> QED
    BY <2>1, <2>2, <2>3, CasTypes
<1>3. CASE ExitForce(c)
  <2>1. UserStateCas(c, "exit_force", "SigningOut", "SignedOut", "exit_dispatch", "exit_forward")
    BY <1>3 DEF ExitForce
  <2>2. "exit_dispatch" \in Steps /\ "exit_forward" \in Steps /\ "SignedOut" \in UserStates
    BY DEF Steps, UserStates
  <2>3. OpFits("exit_dispatch", op[c]) /\ OpFits("exit_forward", op[c])
    BY DEF OpFits
  <2> QED
    BY <2>1, <2>2, <2>3, CasTypes
<1> QED
  BY <1>1, <1>2, <1>3

LEMMA SignOutStepTypes ==
  ASSUME LifeInv, NEW c \in Calls,
         \/ AddCas(c) \/ RegisterCas(c) \/ BeginCas(c) \/ TryFlag(c)
         \/ TryCount(c) \/ TryCas(c) \/ ExitForce(c)
         \/ Announce(c) \/ BeginDispatch(c) \/ TryDispatch(c)
         \/ ExitDispatch(c)
  PROVE  LifeTypeOK' /\ OpsInStep'
<1> USE DEF Steps, OpFits, UserStates, Events
<1>1. CASE AddCas(c) \/ RegisterCas(c) \/ ExitForce(c)
  BY <1>1, OtherCasTypes
<1>2. CASE Announce(c) \/ ExitDispatch(c)
  BY <1>2, DispatchTypes DEF Announce, ExitDispatch
<1>3. CASE BeginDispatch(c)
  <2>1. op[c] \in {"unregister", "exit"}
    BY <1>3 DEF BeginDispatch, Dispatch, Jump, LifeInv, OpsInStep
  <2> QED
    BY <1>3, <2>1, DispatchTypes DEF BeginDispatch
<1>4. CASE BeginCas(c) \/ TryFlag(c) \/ TryCount(c) \/ TryCas(c)
           \/ TryDispatch(c)
  <2>1. op[c] \in {"unregister", "exit", "closeDeferral"}
    BY <1>4 DEF BeginCas, TryFlag, TryCount, TryCas, TryDispatch, Dispatch,
       UserStateCas, Step, Jump, LifeInv, OpsInStep
  <2>2. AfterSignOut(c) \in {"deactivate", "exit_wait", "return"}
    BY <2>1, AfterSignOutIsStep
  <2>3. CASE TryDispatch(c)
    BY <2>3, <2>2, DispatchTypes DEF TryDispatch
  <2>4. CASE TryCas(c)
    <3>1. UserStateCas(c, "try_cas", "SigningOut", "SignedOut",
                       "try_dispatch", AfterSignOut(c))
      BY <2>4 DEF TryCas
    <3>2. AfterSignOut(c) \in Steps /\ OpFits(AfterSignOut(c), op[c])
      BY <2>2
    <3>3. "try_dispatch" \in Steps /\ OpFits("try_dispatch", op[c])
      BY <2>1
    <3>4. "SignedOut" \in UserStates
      OBVIOUS
    <3> HIDE DEF Steps, OpFits, UserStates, Events
    <3> QED
      BY <3>1, <3>2, <3>3, <3>4, CasTypes
  <2>5. CASE BeginCas(c)
    <3>1. op[c] \in {"unregister", "exit"}
      BY <2>5 DEF BeginCas, UserStateCas, Step, Jump, LifeInv, OpsInStep
    <3>2. UserStateCas(c, "begin_cas", "SignedIn", "SigningOut", "begin_flag",
                       AfterSignOut(c))
      BY <2>5 DEF BeginCas
    <3>3. AfterSignOut(c) \in Steps /\ OpFits(AfterSignOut(c), op[c])
      BY <2>2
    <3>4. "begin_flag" \in Steps /\ OpFits("begin_flag", op[c])
      BY <3>1
    <3>5. "SigningOut" \in UserStates
      OBVIOUS
    <3> HIDE DEF Steps, OpFits, UserStates, Events
    <3> QED
      BY <3>2, <3>3, <3>4, <3>5, CasTypes
  <2>6. CASE TryFlag(c) \/ TryCount(c)
    <3>1. PICK from, to \in Steps : Step(c, from, to) /\ OpFits(to, op[c])
      BY <2>6, <2>1, <2>2 DEF TryFlag, TryCount
    <3>2. UNCHANGED <<userVars, held>>
      BY <2>6 DEF TryFlag, TryCount
    <3> QED
      BY <3>1, <3>2, StepTypes DEF userVars, LifeInv, LifeTypeOK
  <2> QED
    BY <1>4, <2>3, <2>4, <2>5, <2>6
<1> QED
  BY <1>1, <1>2, <1>3, <1>4

(* A call of the title's from a thread or a callback                       *)
LEMMA InstantTypes ==
  ASSUME LifeInv, NEW p \in Callers, Instant(p)
  PROVE  LifeTypeOK' /\ OpsInStep'
<1> USE DEF LifeInv, LifeTypeOK
<1>1. CASE DuplicateHandle(p) \/ ReleaseHandle(p) \/ ExitUnhooked(p)
  <2>1. handleCount' \in Nat
    BY <1>1 DEF DuplicateHandle, ReleaseHandle, ExitUnhooked
  <2>2. UNCHANGED <<regVars, userState, userWasAdded, callbacksComplete,
                    deferrals, shutdownStarted, exitHook, callVars, histVars>>
        /\ exited' \in BOOLEAN
    BY <1>1 DEF DuplicateHandle, ReleaseHandle, ExitUnhooked
  <2> QED
    BY <2>1, <2>2 DEF regVars, callVars, histVars, OpsInStep
<1>2. CASE \E t \in Tokens : UnregisterAbsent(p, t)
  BY <1>2 DEF UnregisterAbsent, UnregisterMissing, userVars, callVars,
     histVars, OpsInStep
<1> QED
  BY <1>1, <1>2 DEF Instant

(* The steps that are the protocol's                                       *)
LEMMA ProtocolStepTypes ==
  ASSUME LifeInv, NEW c \in Calls,
         \/ Insert(c) \/ DeactivateRegistration(c) \/ Return(c)
         \/ \E t \in Tokens : CallBack(c, t)
         \/ CallbackReturns(c) \/ DispatchLoop(c) \/ DispatchEnds(c)
         \/ UnregisterEnds(c)
  PROVE  LifeTypeOK' /\ OpsInStep'
<1>1. LifeTypeOK'
  BY DEF Insert, DeactivateRegistration, Return, CallBack, CallbackReturns,
     DispatchLoop, DispatchEnds, UnregisterEnds, Jump, userVars, callVars,
     histVars, LifeInv, LifeTypeOK, Steps
<1>2. OpsInStep'
  <2> USE DEF LifeInv, LifeTypeOK, RegInv, RegTypeOK, OpsInStep, Places
  <2>1. CASE Insert(c)
    BY <2>1 DEF Insert, InsertRegistration, Jump, OpFits
  <2>2. CASE DeactivateRegistration(c)
    BY <2>2 DEF DeactivateRegistration, Deactivate, Goto, Jump, OpFits
  <2>3. CASE Return(c)
    BY <2>3 DEF Return, Leave, Goto, Jump, OpFits
  <2>4. CASE \E t \in Tokens : CallBack(c, t)
    BY <2>4 DEF CallBack, BeginCallback, Goto, callVars
  <2>5. CASE CallbackReturns(c)
    BY <2>5 DEF CallbackReturns, FinishCallback, callVars
  <2>6. CASE DispatchLoop(c)
    BY <2>6 DEF DispatchLoop, SkipCallback, PruneIdle, Goto, callVars
  <2>7. CASE DispatchEnds(c)
    BY <2>7 DEF DispatchEnds, EndDispatch, Goto
  <2>8. CASE UnregisterEnds(c)
    <3>1. pc[c] = "idle"
      BY <2>8 DEF UnregisterEnds, CheckInFlight, Wake, RemoveRegistration, Goto
    <3> QED
      BY <2>8, <3>1 DEF UnregisterEnds, CheckInFlight, Wake,
         RemoveRegistration, Goto, OpFits
  <2> QED
    BY <2>1, <2>2, <2>3, <2>4, <2>5, <2>6, <2>7, <2>8
<1> QED
  BY <1>1, <1>2

LEMMA LifeInvInit == Init => LifeInv
<1> SUFFICES ASSUME Init PROVE LifeInv
  OBVIOUS
<1>1. RegInv
  BY RegInitInv DEF Init
<1>2. LifeTypeOK
  <2>1. 0 \in 0 .. CountLimit - 1
    BY BoundsAssumption
  <2> QED
    BY <2>1 DEF Init, LifeTypeOK, UserStates, Steps
<1>3. OpsInStep
  BY DEF Init, RegInit, OpsInStep, OpFits
<1> QED
  BY <1>1, <1>2, <1>3 DEF LifeInv

LEMMA LifeInvStep == LifeInv /\ [Next]_vars => LifeInv'
<1> SUFFICES ASSUME LifeInv, [Next]_vars PROVE LifeInv'
  OBVIOUS
<1>1. RegInv'
  BY StepIsProtocol, RegNextInv DEF LifeInv
<1>2. LifeTypeOK' /\ OpsInStep'
  <2>1. CASE \E c \in Calls, p \in Callers : CallStart(c, p)
    BY <2>1, EntryTypes
  <2>2. CASE \E c \in Calls : CallStep(c)
    BY <2>2, UserStepTypes, CountStepTypes, SignOutStepTypes,
       ProtocolStepTypes DEF CallStep
  <2>3. CASE \E c \in Calls : CallbackReturns(c)
    BY <2>3, ProtocolStepTypes
  <2>4. CASE \E p \in Callers : Instant(p)
    BY <2>4, InstantTypes
  <2>5. CASE UNCHANGED vars
    BY <2>5 DEF vars, regVars, userVars, callVars, histVars, LifeInv,
       LifeTypeOK, OpsInStep
  <2> QED
    BY <2>1, <2>2, <2>3, <2>4, <2>5 DEF Next, Running, Exited
<1> QED
  BY <1>1, <1>2 DEF LifeInv

(* Type correctness of the whole life cycle: the handle count, which       *)
(* release_user_handle decrements, never drops below 0, and a sign-out     *)
(* always returns to a function that may begin or complete one.            *)
THEOREM LifeTypeCorrect == Spec => []TypeOK
<1>1. LifeInv => TypeOK
  BY DEF LifeInv, RegInv, TypeOK
<1> QED
  BY <1>1, LifeInvInit, LifeInvStep, PTL DEF Spec
-----------------------------------------------------------------------------
(* A title that calls from one thread.  Its callbacks may take and close    *)
(* deferrals and count handles, but not add a user, register, unregister or *)
(* exit: with those, a state is announced while the one before it still is, *)
(* and with two threads a deferral can be granted to a sign-out that ends.  *)
OneThread ==
  /\ MaxThreads = 1 /\ MaxHeld < CountLimit
  /\ CallbackOps \cap {"add", "register", "unregister", "exit"} = {}

Own(c)         == at[c] # "idle" /\ caller[c] = NoCall
Nested(c)      == at[c] # "idle" /\ caller[c] # NoCall
Dispatching(c) == at[c] \in {"loop", "callback", "prune"}

(* Such a title has one call of its own at a time, and one from the callback *)
(* that call runs.                                                          *)
NestedSteps == {"deferral_add", "deferral_check", "try_flag", "try_count", "try_cas", "return"}

OneChain ==
  /\ \A c, d \in Calls : Own(c) /\ Own(d) => c = d
  /\ \A c, d \in Calls : Nested(c) /\ Nested(d) => c = d
  /\ \A c \in Calls : Nested(c) =>
       /\ at[c] = "body" /\ op[c] \in {"getDeferral", "closeDeferral"}
       /\ caller[c] \in Calls
       /\ at[caller[c]] = "callback" /\ caller[caller[c]] = NoCall
       /\ pc[c] \in NestedSteps
       /\ pc[c] \in {"try_count", "try_cas"} => userState = "SignedOut"
  /\ \A c \in Calls : at[c] = "idle" => pc[c] = "idle"

(* What is known of the user where a call stands.                           *)
FactsAt(step, o) ==
  /\ step \in {"add_count", "add_count_again", "restore_deferrals", "restore_complete",
               "insert_again", "announce", "unregister_gate"} => userState = "SignedIn"
  /\ step \in {"begin_flag", "begin_dispatch", "begin_done", "exit_force",
               "deferral_add", "deferral_check"} => userState = "SigningOut"
  /\ step \in {"add_gate", "add_cas", "try_dispatch", "exit_dispatch", "exit_forward"} =>
       userState = "SignedOut"
  /\ step \in {"try_flag", "try_count", "try_cas", "exit_wait"} => userState # "SignedIn"
  /\ step \in {"add_cas", "register_cas"} => ~shutdownStarted
  /\ o = "exit" \/ step \in {"exit_added", "exit_store", "exit_wait", "exit_force",
                             "exit_dispatch", "exit_forward"} => shutdownStarted
  /\ step = "begin_cas" => userWasAdded
  /\ step = "exit_store" => ~userWasAdded
  /\ step = "try_cas" /\ userState = "SigningOut" => deferrals = 0
  /\ step = "deactivate" /\ Cardinality(Active) = 1 /\ userState = "SignedIn" /\ userWasAdded =>
       shutdownStarted
  /\ step \in {"deferral_add", "deferral_check"} => held < MaxHeld
  /\ step # "deferral_undo"

StepFacts == \A c \in Calls : FactsAt(pc[c], op[c])

(* The count is what the title holds, and one more while it is being        *)
(* granted; a sign-out that holds none is being finished by some call.      *)
Somewhere(S) == \E c \in Calls : pc[c] \in S
Granting  == {"deferral_check"}
Telling   == {"begin_dispatch", "begin_done"}
Finishing == {"begin_flag", "begin_dispatch", "begin_done", "try_flag", "try_count", "try_cas"}

UserFacts ==
  /\ shutdownStarted => exitHook = "installed"
  /\ held <= MaxHeld
  /\ held > 0 => userState = "SigningOut" \/ (userState = "SignedOut" /\ shutdownStarted)
  /\ deferrals = held + (IF Somewhere(Granting) THEN 1 ELSE 0)
  /\ callbacksComplete = ~Somewhere(Telling)
  /\ userState = "SigningOut" /\ held = 0 => Somewhere(Finishing)

(* A subscriber was last told how the user stands, but for those an event   *)
(* has yet to reach, or when the call has yet to announce a new state.      *)
Agrees(e) ==
  /\ e = "SigningOut"    => userState = "SigningOut"
  /\ e = "SignedOut"     => userState = "SignedOut"
  /\ e = "SignedInAgain" => userState = "SignedIn"

Untold == {"add_count_again", "restore_deferrals", "restore_complete", "insert_again", "announce",
           "begin_flag", "begin_dispatch", "try_dispatch", "exit_dispatch", "exit_forward"}
Resuming == {"begin_done", "return", "deactivate", "exit_wait", "exit_forward"}

Subscribers ==
  /\ \A t \in Tokens \ issued : heard[t] = "none"
  /\ \A c \in Calls : Dispatching(c) =>
       /\ event[c] # "none" /\ Agrees(event[c]) /\ pc[c] \in Resuming
       /\ event[c] = "SigningOut" => pc[c] = "begin_done"
       /\ \A t \in Active \ todo[c] : Agrees(heard[t])
  /\ (\A c \in Calls : ~Dispatching(c) /\ pc[c] \notin Untold) =>
       \A t \in Active : Agrees(heard[t])

SessionFacts == OneChain /\ StepFacts /\ UserFacts /\ Subscribers
SessionInv   == LifeInv /\ SessionFacts

-----------------------------------------------------------------------------
(* Who else is there while a call takes a step.                             *)
Alone(c) == \A d \in Calls \ {c} : at[d] = "idle" /\ pc[d] = "idle"

LEMMA OwnIsAlone ==
  ASSUME SessionInv, NEW c \in Calls, Own(c), at[c] # "callback"
  PROVE  Alone(c)
<1> SUFFICES ASSUME NEW d \in Calls \ {c}, at[d] # "idle" PROVE FALSE
  BY DEF Alone, SessionInv, SessionFacts, OneChain
<1>1. Nested(d)
  BY DEF SessionInv, SessionFacts, OneChain, Own, Nested
<1>2. Own(caller[d]) /\ caller[d] \in Calls /\ at[caller[d]] = "callback"
  BY <1>1 DEF SessionInv, SessionFacts, OneChain, Own
<1> QED
  BY <1>2 DEF SessionInv, SessionFacts, OneChain

LEMMA NestedInOwn ==
  ASSUME SessionInv, NEW c \in Calls, Nested(c)
  PROVE  /\ caller[c] \in Calls /\ caller[c] # c /\ Own(caller[c])
         /\ at[caller[c]] = "callback" /\ pc[caller[c]] \in Resuming
         /\ \A d \in Calls \ {c, caller[c]} : at[d] = "idle" /\ pc[d] = "idle"
<1>1. /\ caller[c] \in Calls /\ caller[c] # c /\ Own(caller[c])
      /\ at[caller[c]] = "callback"
  BY DEF SessionInv, SessionFacts, OneChain, Own, Nested
<1>2. pc[caller[c]] \in Resuming
  BY <1>1 DEF SessionInv, SessionFacts, Subscribers, Dispatching
<1>3. \A d \in Calls \ {c, caller[c]} : at[d] = "idle" /\ pc[d] = "idle"
  BY <1>1 DEF SessionInv, SessionFacts, OneChain, Own, Nested
<1> QED
  BY <1>1, <1>2, <1>3

(* A title of one thread that makes a call of its own has none in progress. *)
LEMMA OwnIsFirst ==
  ASSUME OneThread, SessionInv, NEW o \in Ops, Allowed(o, NoCall)
  PROVE  \A d \in Calls : at[d] = "idle" /\ pc[d] = "idle"
<1>1. Threads = {}
  <2>1. IsFiniteSet(Threads)
    BY CallsAssumption, FS_Subset DEF Threads
  <2>2. Cardinality(Threads) \in Nat /\ Cardinality(Threads) < 1
    BY <2>1, FS_CardinalityType DEF Allowed, OneThread
  <2> QED
    BY <2>1, <2>2, FS_EmptySet
<1>2. \A d \in Calls : ~Own(d)
  BY <1>1 DEF Threads, Own
<1>3. \A d \in Calls : at[d] = "idle"
  BY <1>2 DEF SessionInv, SessionFacts, OneChain, Own, Nested
<1> QED
  BY <1>3 DEF SessionInv, SessionFacts, OneChain

LEMMA OwnCallOf ==
  ASSUME OneThread, NEW o \in {"add", "register", "unregister", "exit"}, NEW p \in Callers,
         Allowed(o, p)
  PROVE  p = NoCall
BY DEF OneThread, Allowed

(* The same as UserFacts when the calls are at these two steps.             *)
UserFactsAt(step, resume) ==
  /\ shutdownStarted => exitHook = "installed"
  /\ held <= MaxHeld
  /\ held > 0 => userState = "SigningOut" \/ (userState = "SignedOut" /\ shutdownStarted)
  /\ deferrals = held + (IF step \in Granting \/ resume \in Granting THEN 1 ELSE 0)
  /\ callbacksComplete = (step \notin Telling /\ resume \notin Telling)
  /\ userState = "SigningOut" /\ held = 0 => step \in Finishing \/ resume \in Finishing

LEMMA AloneUser ==
  ASSUME NEW c \in Calls, Alone(c)
  PROVE  UserFacts <=> UserFactsAt(pc[c], "idle")
<1>1. /\ Somewhere(Granting) <=> pc[c] \in Granting \/ "idle" \in Granting
      /\ Somewhere(Telling) <=> pc[c] \in Telling \/ "idle" \in Telling
      /\ Somewhere(Finishing) <=> pc[c] \in Finishing \/ "idle" \in Finishing
  BY DEF Alone, Somewhere, Granting, Telling, Finishing
<1> QED
  BY <1>1 DEF UserFacts, UserFactsAt

LEMMA NestedUser ==
  ASSUME SessionInv, NEW c \in Calls, Nested(c)
  PROVE  UserFacts <=> UserFactsAt(pc[c], pc[caller[c]])
<1>1. /\ Somewhere(Granting) <=> pc[c] \in Granting \/ pc[caller[c]] \in Granting
      /\ Somewhere(Telling) <=> pc[c] \in Telling \/ pc[caller[c]] \in Telling
      /\ Somewhere(Finishing) <=> pc[c] \in Finishing \/ pc[caller[c]] \in Finishing
  <2>1. /\ caller[c] \in Calls
        /\ \A d \in Calls : d \in {c, caller[c]} \/ pc[d] = "idle"
    BY NestedInOwn
  <2> QED
    BY <2>1 DEF Somewhere, Granting, Telling, Finishing
<1> QED
  BY <1>1 DEF UserFacts, UserFactsAt

(* A step of c that changes no more than where c is and what is known of    *)
(* the user.                                                                *)
Moves(c) ==
  /\ at[c] = "body" /\ \A d \in Calls \ {c} : pc'[d] = pc[d]
  /\ UNCHANGED <<regVars, op, event, heard>>

(* What such a step has to keep, of a call of its own,                      *)
LEMMA OwnStepKeeps ==
  ASSUME SessionInv, LifeInv', NEW c \in Calls, Moves(c), Own(c),
         FactsAt(pc[c], op[c])', UserFactsAt(pc[c], "idle")', shutdownStarted' = shutdownStarted,
         pc'[c] \in Untold \/ (pc[c] \notin Untold /\ userState' = userState)
  PROVE  SessionFacts'
<1> USE DEF SessionInv, SessionFacts, Moves, regVars
<1>1. Alone(c)
  BY OwnIsAlone
<1>2. /\ at'[c] = "body" /\ at' = at /\ caller' = caller /\ op' = op
      /\ \A d \in Calls \ {c} : at'[d] = "idle" /\ pc'[d] = "idle"
  BY <1>1 DEF Alone, LifeInv, LifeTypeOK
<1>3. OneChain'
  BY <1>2 DEF OneChain, Own, Nested
<1>4. StepFacts'
  <2> SUFFICES ASSUME NEW d \in Calls \ {c} PROVE FactsAt(pc[d], op[d])'
    BY DEF StepFacts
  <2>1. FactsAt(pc[d], op[d])
    BY DEF StepFacts
  <2> QED
    BY <1>2, <2>1 DEF FactsAt
<1>5. Subscribers'
  <2>1. \A d \in Calls : ~Dispatching(d)'
    BY <1>2 DEF Dispatching
  <2>2. ASSUME pc'[c] \notin Untold, NEW t \in Active' PROVE Agrees(heard[t])'
    <3>1. Agrees(heard[t])
      BY <1>1, <1>2, <2>2 DEF Subscribers, Dispatching, Active, Untold, Alone
    <3> QED
      BY <2>2, <3>1 DEF Agrees
  <2> QED
    BY <2>1, <2>2 DEF Subscribers
<1>6. UserFacts'
  <2>1. /\ Somewhere(Granting)' <=> pc'[c] \in Granting \/ "idle" \in Granting
        /\ Somewhere(Telling)' <=> pc'[c] \in Telling \/ "idle" \in Telling
        /\ Somewhere(Finishing)' <=> pc'[c] \in Finishing \/ "idle" \in Finishing
    BY <1>2 DEF Somewhere, Granting, Telling, Finishing
  <2> QED
    BY <2>1 DEF UserFacts, UserFactsAt
<1> QED
  BY <1>3, <1>4, <1>5, <1>6

(* and of one from a callback, which never changes how the user stands.      *)
LEMMA NestedStepKeeps ==
  ASSUME SessionInv, LifeInv', NEW c \in Calls, Moves(c), Nested(c),
         FactsAt(pc[c], op[c])', UserFactsAt(pc[c], pc[caller[c]])',
         UNCHANGED <<userState, userWasAdded, shutdownStarted>>,
         pc'[c] \in NestedSteps, pc'[c] \in {"try_count", "try_cas"} => userState = "SignedOut"
  PROVE  SessionFacts'
<1> USE DEF SessionInv, SessionFacts, Moves, regVars
<1>1. /\ at' = at /\ caller' = caller /\ op' = op
      /\ \A d \in Calls \ {c} : pc'[d] = pc[d]
  BY DEF LifeInv, LifeTypeOK
<1>2. OneChain'
  <2>1. \A d \in Calls : Own(d)' = Own(d) /\ Nested(d)' = Nested(d)
    BY <1>1 DEF Own, Nested
  <2> QED
    BY <1>1, <2>1 DEF OneChain, Nested
<1>3. StepFacts'
  <2> SUFFICES ASSUME NEW d \in Calls \ {c} PROVE FactsAt(pc[d], op[d])'
    BY DEF StepFacts
  <2>1. FactsAt(pc[d], op[d]) /\ Active' = Active
    BY DEF StepFacts, Active
  <2>2. pc[d] \in Resuming \cup {"idle"}
    BY NestedInOwn DEF Resuming
  <2> QED
    BY <1>1, <2>1, <2>2 DEF FactsAt, Resuming
<1>4. Subscribers'
  <2>1. Dispatching(caller[c]) /\ caller[c] \in Calls
    BY NestedInOwn DEF Dispatching
  <2>2. \A d \in Calls : Dispatching(d)' = Dispatching(d) /\ (Dispatching(d) => d # c)
    BY <1>1 DEF Dispatching
  <2>3. Active' = Active /\ (\A e : Agrees(e)' = Agrees(e))
    BY DEF Active, Agrees
  <2>4. \A d \in Calls : Dispatching(d)' =>
          /\ event'[d] # "none" /\ Agrees(event[d])' /\ pc'[d] \in Resuming
          /\ event'[d] = "SigningOut" => pc'[d] = "begin_done"
          /\ \A t \in Active' \ todo'[d] : Agrees(heard[t])'
    BY <1>1, <2>2, <2>3 DEF Subscribers
  <2> QED
    BY <2>1, <2>2, <2>3, <2>4 DEF Subscribers
<1>5. UserFacts'
  <2>1. /\ Somewhere(Granting)' <=> pc'[c] \in Granting \/ pc'[caller'[c]] \in Granting
        /\ Somewhere(Telling)' <=> pc'[c] \in Telling \/ pc'[caller'[c]] \in Telling
        /\ Somewhere(Finishing)' <=> pc'[c] \in Finishing \/ pc'[caller'[c]] \in Finishing
    <3>1. /\ caller'[c] \in Calls
          /\ \A d \in Calls : d \in {c, caller'[c]} \/ pc'[d] = "idle"
      BY <1>1, NestedInOwn
    <3> QED
      BY <3>1 DEF Somewhere, Granting, Telling, Finishing
  <2> QED
    BY <2>1 DEF UserFacts, UserFactsAt
<1> QED
  BY <1>2, <1>3, <1>4, <1>5

(* Each step of a call of its own that neither dispatches nor touches the   *)
(* registrations keeps the invariant.                                       *)
OwnMoves(c) ==
  \/ AddLoad(c) \/ AddCount(c) \/ AddGate(c) \/ AddCas(c) \/ AddCountAgain(c)
  \/ RestoreDeferrals(c) \/ RestoreComplete(c) \/ RegisterGate(c) \/ RegisterCas(c) \/
    UnregisterState(c)
  \/ UnregisterGate(c) \/ BeginCas(c) \/ BeginFlag(c) \/ BeginDone(c) \/ TryFlag(c)
  \/ TryCount(c) \/ TryCas(c) \/ DeferralAdd(c) \/ DeferralCheck(c) \/ DeferralUndo(c)
  \/ ExitAdded(c) \/ ExitStore(c) \/ ExitWait(c) \/ ExitForce(c) \/ ExitForward(c)

LEMMA OwnMovesKeep ==
  ASSUME OneThread, SessionInv, LifeInv', NEW c \in Calls, Own(c), OwnMoves(c)
  PROVE  SessionFacts'
<1>1. /\ FactsAt(pc[c], op[c]) /\ UserFactsAt(pc[c], "idle")
      /\ OpFits(pc[c], op[c]) /\ pc \in [Calls -> Steps] /\ userState \in UserStates
      /\ held \in Nat /\ deferrals \in Nat
  <2>1. at[c] # "callback"
    BY DEF OwnMoves, AddCas, AddCount, AddCountAgain, AddDeferral, AddGate, AddLoad, BeginCas,
    BeginDone, BeginFlag, DeferralAdd, DeferralCheck, DeferralUndo, ExitAdded, ExitForce, ExitForward,
    ExitStore, ExitWait, RegisterCas, RegisterGate, RestoreComplete, RestoreDeferrals,
    SetCallbacksComplete, TryCas, TryCount, TryFlag, UnregisterGate, UnregisterState, UserStateCas,
    Step, Jump
  <2> QED
    BY <2>1, OwnIsAlone, AloneUser DEF SessionInv, SessionFacts, StepFacts, LifeInv, LifeTypeOK,
    OpsInStep
<1> USE <1>1 DEF Moves, Step, Jump, userVars
<1>a. /\ pc[c] \in {"begin_cas", "begin_flag", "try_flag", "try_count", "try_cas"} =>
           AfterSignOut(c) = CASE op[c] = "unregister" -> "deactivate"
                               [] op[c] = "exit" -> "exit_wait"
                               [] op[c] = "closeDeferral" -> "return"
      /\ pc[c] = "begin_cas" => op[c] \in {"unregister", "exit"}
      /\ pc[c] \in {"try_flag", "try_count", "try_cas"} =>
           op[c] \in {"unregister", "exit", "closeDeferral"}
  BY DEF AfterSignOut, OpFits
<1>b. pc[c] = "deferral_add" => (deferrals + 1) % CountLimit = deferrals + 1
  BY BoundsAssumption DEF OneThread, FactsAt, UserFactsAt, Granting
<1>2. CASE AddLoad(c)
  <2>1. /\ Moves(c) /\ shutdownStarted' = shutdownStarted
        /\ pc'[c] \in Untold \/ (pc[c] \notin Untold /\ userState' = userState)
    BY <1>2 DEF AddLoad, Untold
  <2>2. FactsAt(pc[c], op[c])'
    BY <1>2 DEF AddLoad, UserStates, FactsAt, UserFactsAt, Active, regVars
  <2>3. UserFactsAt(pc[c], "idle")'
    BY <1>2 DEF AddLoad, UserStates, FactsAt, UserFactsAt, Granting, Telling, Finishing
  <2> QED
    BY <2>1, <2>2, <2>3, OwnStepKeeps
<1>3. CASE AddCount(c)
  <2>1. /\ Moves(c) /\ shutdownStarted' = shutdownStarted
        /\ pc'[c] \in Untold \/ (pc[c] \notin Untold /\ userState' = userState)
    BY <1>3 DEF AddCount, Untold
  <2>2. FactsAt(pc[c], op[c])'
    BY <1>3 DEF AddCount, FactsAt, UserFactsAt, Active, regVars
  <2>3. UserFactsAt(pc[c], "idle")'
    BY <1>3 DEF AddCount, FactsAt, UserFactsAt, Granting, Telling, Finishing
  <2> QED
    BY <2>1, <2>2, <2>3, OwnStepKeeps
<1>4. CASE AddGate(c)
  <2>1. /\ Moves(c) /\ shutdownStarted' = shutdownStarted
        /\ pc'[c] \in Untold \/ (pc[c] \notin Untold /\ userState' = userState)
    BY <1>4 DEF AddGate, Untold
  <2>2. FactsAt(pc[c], op[c])'
    BY <1>4 DEF AddGate, FactsAt, UserFactsAt, Active, regVars
  <2>3. UserFactsAt(pc[c], "idle")'
    BY <1>4 DEF AddGate, FactsAt, UserFactsAt, Granting, Telling, Finishing
  <2> QED
    BY <2>1, <2>2, <2>3, OwnStepKeeps
<1>5. CASE AddCas(c)
  <2>1. /\ Moves(c) /\ shutdownStarted' = shutdownStarted
        /\ pc'[c] \in Untold \/ (pc[c] \notin Untold /\ userState' = userState)
    BY <1>5 DEF AddCas, UserStateCas, Untold
  <2>2. FactsAt(pc[c], op[c])'
    BY <1>5 DEF AddCas, UserStateCas, FactsAt, UserFactsAt, Active, regVars
  <2>3. UserFactsAt(pc[c], "idle")'
    BY <1>5 DEF AddCas, UserStateCas, FactsAt, UserFactsAt, Granting, Telling, Finishing
  <2> QED
    BY <2>1, <2>2, <2>3, OwnStepKeeps
<1>6. CASE AddCountAgain(c)
  <2>1. /\ Moves(c) /\ shutdownStarted' = shutdownStarted
        /\ pc'[c] \in Untold \/ (pc[c] \notin Untold /\ userState' = userState)
    BY <1>6 DEF AddCountAgain, Untold
  <2>2. FactsAt(pc[c], op[c])'
    BY <1>6 DEF AddCountAgain, FactsAt, UserFactsAt, Active, regVars
  <2>3. UserFactsAt(pc[c], "idle")'
    BY <1>6 DEF AddCountAgain, FactsAt, UserFactsAt, Granting, Telling, Finishing
  <2> QED
    BY <2>1, <2>2, <2>3, OwnStepKeeps
<1>7. CASE RestoreDeferrals(c)
  <2>1. /\ Moves(c) /\ shutdownStarted' = shutdownStarted
        /\ pc'[c] \in Untold \/ (pc[c] \notin Untold /\ userState' = userState)
    BY <1>7 DEF RestoreDeferrals, Untold
  <2>2. FactsAt(pc[c], op[c])'
    BY <1>7 DEF RestoreDeferrals, FactsAt, UserFactsAt, Active, regVars
  <2>3. UserFactsAt(pc[c], "idle")'
    BY <1>7 DEF RestoreDeferrals, FactsAt, UserFactsAt, Granting, Telling, Finishing
  <2> QED
    BY <2>1, <2>2, <2>3, OwnStepKeeps
<1>8. CASE RestoreComplete(c)
  <2>1. /\ Moves(c) /\ shutdownStarted' = shutdownStarted
        /\ pc'[c] \in Untold \/ (pc[c] \notin Untold /\ userState' = userState)
    BY <1>8 DEF RestoreComplete, SetCallbacksComplete, Untold
  <2>2. FactsAt(pc[c], op[c])'
    BY <1>8 DEF RestoreComplete, SetCallbacksComplete, FactsAt, UserFactsAt, Active, regVars
  <2>3. UserFactsAt(pc[c], "idle")'
    BY <1>8 DEF RestoreComplete, SetCallbacksComplete, FactsAt, UserFactsAt, Granting, Telling,
    Finishing
  <2> QED
    BY <2>1, <2>2, <2>3, OwnStepKeeps
<1>9. CASE RegisterGate(c)
  <2>1. /\ Moves(c) /\ shutdownStarted' = shutdownStarted
        /\ pc'[c] \in Untold \/ (pc[c] \notin Untold /\ userState' = userState)
    BY <1>9 DEF RegisterGate, Untold
  <2>2. FactsAt(pc[c], op[c])'
    BY <1>9 DEF RegisterGate, FactsAt, UserFactsAt, Active, regVars
  <2>3. UserFactsAt(pc[c], "idle")'
    BY <1>9 DEF RegisterGate, FactsAt, UserFactsAt, Granting, Telling, Finishing
  <2> QED
    BY <2>1, <2>2, <2>3, OwnStepKeeps
<1>10. CASE RegisterCas(c)
  <2>1. /\ Moves(c) /\ shutdownStarted' = shutdownStarted
        /\ pc'[c] \in Untold \/ (pc[c] \notin Untold /\ userState' = userState)
    BY <1>10 DEF RegisterCas, UserStateCas, Untold
  <2>2. FactsAt(pc[c], op[c])'
    BY <1>10 DEF RegisterCas, UserStateCas, FactsAt, UserFactsAt, Active, regVars
  <2>3. UserFactsAt(pc[c], "idle")'
    BY <1>10 DEF RegisterCas, UserStateCas, FactsAt, UserFactsAt, Granting, Telling, Finishing
  <2> QED
    BY <2>1, <2>2, <2>3, OwnStepKeeps
<1>11. CASE UnregisterState(c)
  <2>1. /\ Moves(c) /\ shutdownStarted' = shutdownStarted
        /\ pc'[c] \in Untold \/ (pc[c] \notin Untold /\ userState' = userState)
    BY <1>11 DEF UnregisterState, Untold
  <2>2. FactsAt(pc[c], op[c])'
    BY <1>11 DEF UnregisterState, FactsAt, UserFactsAt, Active, regVars
  <2>3. UserFactsAt(pc[c], "idle")'
    BY <1>11 DEF UnregisterState, FactsAt, UserFactsAt, Granting, Telling, Finishing
  <2> QED
    BY <2>1, <2>2, <2>3, OwnStepKeeps
<1>12. CASE UnregisterGate(c)
  <2>1. /\ Moves(c) /\ shutdownStarted' = shutdownStarted
        /\ pc'[c] \in Untold \/ (pc[c] \notin Untold /\ userState' = userState)
    BY <1>12 DEF UnregisterGate, Untold
  <2>2. FactsAt(pc[c], op[c])'
    BY <1>12 DEF UnregisterGate, FactsAt, UserFactsAt, Active, regVars
  <2>3. UserFactsAt(pc[c], "idle")'
    BY <1>12 DEF UnregisterGate, FactsAt, UserFactsAt, Granting, Telling, Finishing
  <2> QED
    BY <2>1, <2>2, <2>3, OwnStepKeeps
<1>13. CASE BeginCas(c)
  <2>1. /\ Moves(c) /\ shutdownStarted' = shutdownStarted
        /\ pc'[c] \in Untold \/ (pc[c] \notin Untold /\ userState' = userState)
    BY <1>13, <1>a DEF BeginCas, UserStateCas, AfterSignOut, Untold
  <2>2. FactsAt(pc[c], op[c])'
    BY <1>13, <1>a DEF BeginCas, UserStateCas, AfterSignOut, FactsAt, UserFactsAt, Active, regVars
  <2>3. UserFactsAt(pc[c], "idle")'
    BY <1>13, <1>a DEF BeginCas, UserStateCas, AfterSignOut, FactsAt, UserFactsAt, Granting, Telling,
    Finishing
  <2> QED
    BY <2>1, <2>2, <2>3, OwnStepKeeps
<1>14. CASE BeginFlag(c)
  <2>1. /\ Moves(c) /\ shutdownStarted' = shutdownStarted
        /\ pc'[c] \in Untold \/ (pc[c] \notin Untold /\ userState' = userState)
    BY <1>14 DEF BeginFlag, SetCallbacksComplete, Untold
  <2>2. FactsAt(pc[c], op[c])'
    BY <1>14 DEF BeginFlag, SetCallbacksComplete, FactsAt, UserFactsAt, Active, regVars
  <2>3. UserFactsAt(pc[c], "idle")'
    BY <1>14 DEF BeginFlag, SetCallbacksComplete, FactsAt, UserFactsAt, Granting, Telling, Finishing
  <2> QED
    BY <2>1, <2>2, <2>3, OwnStepKeeps
<1>15. CASE BeginDone(c)
  <2>1. /\ Moves(c) /\ shutdownStarted' = shutdownStarted
        /\ pc'[c] \in Untold \/ (pc[c] \notin Untold /\ userState' = userState)
    BY <1>15 DEF BeginDone, SetCallbacksComplete, Untold
  <2>2. FactsAt(pc[c], op[c])'
    BY <1>15 DEF BeginDone, SetCallbacksComplete, FactsAt, UserFactsAt, Active, regVars
  <2>3. UserFactsAt(pc[c], "idle")'
    BY <1>15 DEF BeginDone, SetCallbacksComplete, FactsAt, UserFactsAt, Granting, Telling, Finishing
  <2> QED
    BY <2>1, <2>2, <2>3, OwnStepKeeps
<1>16. CASE TryFlag(c)
  <2>1. /\ Moves(c) /\ shutdownStarted' = shutdownStarted
        /\ pc'[c] \in Untold \/ (pc[c] \notin Untold /\ userState' = userState)
    BY <1>16, <1>a DEF TryFlag, AfterSignOut, Untold
  <2>2. FactsAt(pc[c], op[c])'
    BY <1>16, <1>a DEF TryFlag, AfterSignOut, FactsAt, UserFactsAt, Active, regVars
  <2>3. UserFactsAt(pc[c], "idle")'
    BY <1>16, <1>a DEF TryFlag, AfterSignOut, FactsAt, UserFactsAt, Granting, Telling, Finishing
  <2> QED
    BY <2>1, <2>2, <2>3, OwnStepKeeps
<1>17. CASE TryCount(c)
  <2>1. /\ Moves(c) /\ shutdownStarted' = shutdownStarted
        /\ pc'[c] \in Untold \/ (pc[c] \notin Untold /\ userState' = userState)
    BY <1>17, <1>a DEF TryCount, AfterSignOut, Untold
  <2>2. FactsAt(pc[c], op[c])'
    BY <1>17, <1>a DEF TryCount, AfterSignOut, FactsAt, UserFactsAt, Active, regVars
  <2>3. UserFactsAt(pc[c], "idle")'
    BY <1>17, <1>a DEF TryCount, AfterSignOut, FactsAt, UserFactsAt, Granting, Telling, Finishing
  <2> QED
    BY <2>1, <2>2, <2>3, OwnStepKeeps
<1>18. CASE TryCas(c)
  <2>1. /\ Moves(c) /\ shutdownStarted' = shutdownStarted
        /\ pc'[c] \in Untold \/ (pc[c] \notin Untold /\ userState' = userState)
    BY <1>18, <1>a DEF TryCas, UserStateCas, AfterSignOut, Untold
  <2>2. FactsAt(pc[c], op[c])'
    BY <1>18, <1>a DEF TryCas, UserStateCas, AfterSignOut, FactsAt, UserFactsAt, Active, regVars
  <2>3. UserFactsAt(pc[c], "idle")'
    BY <1>18, <1>a DEF TryCas, UserStateCas, AfterSignOut, FactsAt, UserFactsAt, Granting, Telling,
    Finishing
  <2> QED
    BY <2>1, <2>2, <2>3, OwnStepKeeps
<1>19. CASE DeferralAdd(c)
  <2>1. /\ Moves(c) /\ shutdownStarted' = shutdownStarted
        /\ pc'[c] \in Untold \/ (pc[c] \notin Untold /\ userState' = userState)
    BY <1>19 DEF DeferralAdd, AddDeferral, Untold
  <2>2. FactsAt(pc[c], op[c])'
    BY <1>19 DEF DeferralAdd, AddDeferral, FactsAt, UserFactsAt, Active, regVars
  <2>3. UserFactsAt(pc[c], "idle")'
    BY <1>19, <1>b DEF DeferralAdd, AddDeferral, FactsAt, UserFactsAt, Granting, Telling, Finishing
  <2> QED
    BY <2>1, <2>2, <2>3, OwnStepKeeps
<1>20. CASE DeferralCheck(c)
  <2>1. /\ Moves(c) /\ shutdownStarted' = shutdownStarted
        /\ pc'[c] \in Untold \/ (pc[c] \notin Untold /\ userState' = userState)
    BY <1>20 DEF DeferralCheck, Untold
  <2>2. FactsAt(pc[c], op[c])'
    BY <1>20 DEF DeferralCheck, FactsAt, UserFactsAt, Active, regVars
  <2>3. UserFactsAt(pc[c], "idle")'
    BY <1>20, BoundsAssumption DEF DeferralCheck, FactsAt, UserFactsAt, Granting, Telling, Finishing
  <2> QED
    BY <2>1, <2>2, <2>3, OwnStepKeeps
<1>21. CASE DeferralUndo(c)
  <2>1. /\ Moves(c) /\ shutdownStarted' = shutdownStarted
        /\ pc'[c] \in Untold \/ (pc[c] \notin Untold /\ userState' = userState)
    BY <1>21 DEF DeferralUndo, AddDeferral, Untold
  <2>2. FactsAt(pc[c], op[c])'
    BY <1>21 DEF DeferralUndo, AddDeferral, FactsAt, UserFactsAt, Active, regVars
  <2>3. UserFactsAt(pc[c], "idle")'
    BY <1>21 DEF DeferralUndo, AddDeferral, FactsAt, UserFactsAt, Granting, Telling, Finishing
  <2> QED
    BY <2>1, <2>2, <2>3, OwnStepKeeps
<1>22. CASE ExitAdded(c)
  <2>1. /\ Moves(c) /\ shutdownStarted' = shutdownStarted
        /\ pc'[c] \in Untold \/ (pc[c] \notin Untold /\ userState' = userState)
    BY <1>22 DEF ExitAdded, Untold
  <2>2. FactsAt(pc[c], op[c])'
    BY <1>22 DEF ExitAdded, FactsAt, UserFactsAt, Active, regVars
  <2>3. UserFactsAt(pc[c], "idle")'
    BY <1>22 DEF ExitAdded, FactsAt, UserFactsAt, Granting, Telling, Finishing
  <2> QED
    BY <2>1, <2>2, <2>3, OwnStepKeeps
<1>23. CASE ExitStore(c)
  <2>1. /\ Moves(c) /\ shutdownStarted' = shutdownStarted
        /\ pc'[c] \in Untold \/ (pc[c] \notin Untold /\ userState' = userState)
    BY <1>23 DEF ExitStore, Untold
  <2>2. FactsAt(pc[c], op[c])'
    BY <1>23 DEF ExitStore, FactsAt, UserFactsAt, Active, regVars
  <2>3. UserFactsAt(pc[c], "idle")'
    BY <1>23 DEF ExitStore, FactsAt, UserFactsAt, Granting, Telling, Finishing
  <2> QED
    BY <2>1, <2>2, <2>3, OwnStepKeeps
<1>24. CASE ExitWait(c)
  <2>1. /\ Moves(c) /\ shutdownStarted' = shutdownStarted
        /\ pc'[c] \in Untold \/ (pc[c] \notin Untold /\ userState' = userState)
    BY <1>24 DEF ExitWait, Untold
  <2>2. FactsAt(pc[c], op[c])'
    BY <1>24 DEF ExitWait, UserStates, FactsAt, UserFactsAt, Active, regVars
  <2>3. UserFactsAt(pc[c], "idle")'
    BY <1>24 DEF ExitWait, UserStates, FactsAt, UserFactsAt, Granting, Telling, Finishing
  <2> QED
    BY <2>1, <2>2, <2>3, OwnStepKeeps
<1>25. CASE ExitForce(c)
  <2>1. /\ Moves(c) /\ shutdownStarted' = shutdownStarted
        /\ pc'[c] \in Untold \/ (pc[c] \notin Untold /\ userState' = userState)
    BY <1>25 DEF ExitForce, UserStateCas, Untold
  <2>2. FactsAt(pc[c], op[c])'
    BY <1>25 DEF ExitForce, UserStateCas, FactsAt, UserFactsAt, Active, regVars
  <2>3. UserFactsAt(pc[c], "idle")'
    BY <1>25 DEF ExitForce, UserStateCas, FactsAt, UserFactsAt, Granting, Telling, Finishing
  <2> QED
    BY <2>1, <2>2, <2>3, OwnStepKeeps
<1>26. CASE ExitForward(c)
  <2>1. /\ Moves(c) /\ shutdownStarted' = shutdownStarted
        /\ pc'[c] \in Untold \/ (pc[c] \notin Untold /\ userState' = userState)
    BY <1>26 DEF ExitForward, Untold
  <2>2. FactsAt(pc[c], op[c])'
    BY <1>26 DEF ExitForward, FactsAt, UserFactsAt, Active, regVars
  <2>3. UserFactsAt(pc[c], "idle")'
    BY <1>26 DEF ExitForward, FactsAt, UserFactsAt, Granting, Telling, Finishing
  <2> QED
    BY <2>1, <2>2, <2>3, OwnStepKeeps
<1> QED
  BY <1>2, <1>3, <1>4, <1>5, <1>6, <1>7, <1>8, <1>9, <1>10, <1>11, <1>12, <1>13, <1>14, <1>15,
    <1>16, <1>17, <1>18, <1>19, <1>20, <1>21, <1>22, <1>23, <1>24, <1>25, <1>26 DEF OwnMoves

(* Such a step of a call from a callback: while SigningOut is announced the *)
(* flag says so, and closing the last deferral changes nothing.             *)
LEMMA NestedMovesKeep ==
  ASSUME OneThread, SessionInv, LifeInv', NEW c \in Calls, Nested(c), OwnMoves(c)
  PROVE  SessionFacts'
<1>1. /\ FactsAt(pc[c], op[c]) /\ UserFactsAt(pc[c], pc[caller[c]])
      /\ OpFits(pc[c], op[c]) /\ pc \in [Calls -> Steps]
      /\ held \in Nat /\ deferrals \in Nat
  BY NestedUser DEF SessionInv, SessionFacts, StepFacts, LifeInv, LifeTypeOK, OpsInStep
<1>2. /\ pc[c] \in NestedSteps /\ op[c] \in {"getDeferral", "closeDeferral"}
      /\ pc[c] \in {"try_count", "try_cas"} => userState = "SignedOut"
  BY DEF SessionInv, SessionFacts, OneChain
<1>3. /\ caller[c] \in Calls /\ caller[c] # c /\ at[caller[c]] = "callback"
      /\ pc[caller[c]] \in Resuming
  BY NestedInOwn
<1>4. userState = "SigningOut" => pc[caller[c]] = "begin_done"
  <2>1. /\ event[caller[c]] \in Events /\ Agrees(event[caller[c]])
        /\ event[caller[c]] = "SigningOut" => pc[caller[c]] = "begin_done"
    BY <1>3 DEF SessionInv, SessionFacts, Subscribers, Dispatching, LifeInv, LifeTypeOK
  <2> QED
    BY <2>1 DEF Agrees, Events
<1>5. pc[c] \in {"try_flag", "try_count", "try_cas"} => AfterSignOut(c) = "return"
  BY <1>1, <1>2 DEF AfterSignOut, OpFits
<1>6. pc[c] = "deferral_add" => (deferrals + 1) % CountLimit = deferrals + 1
  BY <1>1, <1>3, BoundsAssumption DEF OneThread, FactsAt, UserFactsAt, Granting, Resuming
<1> USE <1>1, <1>2, <1>3 DEF Moves, Step, Jump, userVars, NestedSteps
<1>7. CASE TryFlag(c)
  <2>1. /\ Moves(c) /\ UNCHANGED <<userState, userWasAdded, shutdownStarted>>
        /\ pc'[c] \in NestedSteps
        /\ pc'[c] \in {"try_count", "try_cas"} => userState = "SignedOut"
    BY <1>7, <1>4, <1>5 DEF TryFlag, UserStates, FactsAt, UserFactsAt, Telling, LifeInv,
       LifeTypeOK, UserStates, SessionInv
  <2>2. FactsAt(pc[c], op[c])'
    BY <1>7, <1>5 DEF TryFlag, UserStates, FactsAt, UserFactsAt
  <2>3. UserFactsAt(pc[c], pc[caller[c]])'
    <3>1. pc'[caller'[c]] = pc[caller[c]]
      BY <2>1 DEF regVars
    <3> QED
      BY <1>7, <3>1, <1>4, <1>5, <1>6, BoundsAssumption DEF TryFlag, UserStates, FactsAt,
         UserFactsAt, Granting, Telling, Finishing, Resuming
  <2> QED
    BY <2>1, <2>2, <2>3, NestedStepKeeps
<1>8. CASE TryCount(c)
  <2>1. /\ Moves(c) /\ UNCHANGED <<userState, userWasAdded, shutdownStarted>>
        /\ pc'[c] \in NestedSteps
        /\ pc'[c] \in {"try_count", "try_cas"} => userState = "SignedOut"
    BY <1>8, <1>4, <1>5 DEF TryCount, FactsAt, UserFactsAt, Telling, LifeInv, LifeTypeOK,
       UserStates, SessionInv
  <2>2. FactsAt(pc[c], op[c])'
    BY <1>8, <1>5 DEF TryCount, FactsAt, UserFactsAt
  <2>3. UserFactsAt(pc[c], pc[caller[c]])'
    <3>1. pc'[caller'[c]] = pc[caller[c]]
      BY <2>1 DEF regVars
    <3> QED
      BY <1>8, <3>1, <1>4, <1>5, <1>6, BoundsAssumption DEF TryCount, FactsAt, UserFactsAt,
         Granting, Telling, Finishing, Resuming
  <2> QED
    BY <2>1, <2>2, <2>3, NestedStepKeeps
<1>9. CASE TryCas(c)
  <2>1. /\ Moves(c) /\ UNCHANGED <<userState, userWasAdded, shutdownStarted>>
        /\ pc'[c] \in NestedSteps
        /\ pc'[c] \in {"try_count", "try_cas"} => userState = "SignedOut"
    BY <1>9, <1>4, <1>5 DEF TryCas, UserStateCas, FactsAt, UserFactsAt, Telling, LifeInv,
       LifeTypeOK, UserStates, SessionInv
  <2>2. FactsAt(pc[c], op[c])'
    BY <1>9, <1>5 DEF TryCas, UserStateCas, FactsAt, UserFactsAt
  <2>3. UserFactsAt(pc[c], pc[caller[c]])'
    <3>1. pc'[caller'[c]] = pc[caller[c]]
      BY <2>1 DEF regVars
    <3> QED
      BY <1>9, <3>1, <1>4, <1>5, <1>6, BoundsAssumption DEF TryCas, UserStateCas, FactsAt,
         UserFactsAt, Granting, Telling, Finishing, Resuming
  <2> QED
    BY <2>1, <2>2, <2>3, NestedStepKeeps
<1>10. CASE DeferralAdd(c)
  <2>1. /\ Moves(c) /\ UNCHANGED <<userState, userWasAdded, shutdownStarted>>
        /\ pc'[c] \in NestedSteps
        /\ pc'[c] \in {"try_count", "try_cas"} => userState = "SignedOut"
    BY <1>10, <1>4, <1>5 DEF DeferralAdd, AddDeferral, FactsAt, UserFactsAt, Telling, LifeInv,
       LifeTypeOK, UserStates, SessionInv
  <2>2. FactsAt(pc[c], op[c])'
    BY <1>10, <1>5 DEF DeferralAdd, AddDeferral, FactsAt, UserFactsAt
  <2>3. UserFactsAt(pc[c], pc[caller[c]])'
    <3>1. pc'[caller'[c]] = pc[caller[c]]
      BY <2>1 DEF regVars
    <3> QED
      BY <1>10, <3>1, <1>4, <1>5, <1>6, BoundsAssumption DEF DeferralAdd, AddDeferral, FactsAt,
         UserFactsAt, Granting, Telling, Finishing, Resuming
  <2> QED
    BY <2>1, <2>2, <2>3, NestedStepKeeps
<1>11. CASE DeferralCheck(c)
  <2>1. /\ Moves(c) /\ UNCHANGED <<userState, userWasAdded, shutdownStarted>>
        /\ pc'[c] \in NestedSteps
        /\ pc'[c] \in {"try_count", "try_cas"} => userState = "SignedOut"
    BY <1>11, <1>4, <1>5 DEF DeferralCheck, FactsAt, UserFactsAt, Telling, LifeInv, LifeTypeOK,
       UserStates, SessionInv
  <2>2. FactsAt(pc[c], op[c])'
    BY <1>11, <1>5 DEF DeferralCheck, FactsAt, UserFactsAt
  <2>3. UserFactsAt(pc[c], pc[caller[c]])'
    <3>1. pc'[caller'[c]] = pc[caller[c]]
      BY <2>1 DEF regVars
    <3> QED
      BY <1>11, <3>1, <1>4, <1>5, <1>6, BoundsAssumption DEF DeferralCheck, FactsAt, UserFactsAt,
         Granting, Telling, Finishing, Resuming
  <2> QED
    BY <2>1, <2>2, <2>3, NestedStepKeeps
<1>12. CASE \/ AddLoad(c) \/ AddCount(c) \/ AddGate(c) \/ AddCas(c) \/ AddCountAgain(c)
            \/ RestoreDeferrals(c) \/ RestoreComplete(c) \/ RegisterGate(c)
            \/ RegisterCas(c) \/ UnregisterState(c)
            \/ UnregisterGate(c) \/ BeginCas(c) \/ BeginFlag(c) \/ BeginDone(c) \/ DeferralUndo(c)
            \/ ExitAdded(c) \/ ExitStore(c) \/ ExitWait(c) \/ ExitForce(c) \/ ExitForward(c)
  BY <1>12 DEF FactsAt, UserStateCas, SetCallbacksComplete, AddDeferral, AddLoad, AddCount,
     AddGate, AddCas, AddCountAgain, RestoreDeferrals, RestoreComplete, RegisterGate, RegisterCas,
     UnregisterState, UnregisterGate, BeginCas, BeginFlag, BeginDone, DeferralUndo, ExitAdded,
     ExitStore, ExitWait, ExitForce, ExitForward
<1> QED
  BY <1>7, <1>8, <1>9, <1>10, <1>11, <1>12 DEF OwnMoves

-----------------------------------------------------------------------------
(* The steps that touch the registrations, or end a call.                   *)

(* A call that neither returned nor has been called from a callback: only   *)
(* such a call dispatches, registers or unregisters.                        *)
LEMMA OnlyOwn ==
  ASSUME SessionInv, NEW c \in Calls, at[c] # "idle", at[c] # "body" \/ pc[c] \notin NestedSteps
  PROVE  Own(c)
BY DEF SessionInv, SessionFacts, OneChain, Own, Nested

(* What is known where the calls stand, when neither the user's state nor   *)
(* the active subscriptions change.                                         *)
LEMMA FactsKept ==
  ASSUME SessionInv, UNCHANGED <<userVars, pc, held, Active>>,
         \A d \in Calls : op'[d] = "exit" => op[d] = "exit"
  PROVE  StepFacts' /\ UserFacts'
<1> USE DEF userVars
<1>1. UserFacts'
  BY DEF SessionInv, SessionFacts, UserFacts, Somewhere
<1>2. StepFacts'
  <2> SUFFICES ASSUME NEW d \in Calls PROVE FactsAt(pc[d], op[d])'
    BY DEF StepFacts
  <2>1. FactsAt(pc[d], op[d]) /\ (op'[d] = "exit" => op[d] = "exit")
    BY DEF SessionInv, SessionFacts, StepFacts
  <2>2. Cardinality(Active)' = Cardinality(Active)
    OBVIOUS
  <2> QED
    BY <2>1, <2>2 DEF FactsAt
<1> QED
  BY <1>1, <1>2

(* When the last call returns.                                              *)
LEMMA QuietKeeps ==
  ASSUME SessionInv, \A d \in Calls : at'[d] = "idle" /\ pc'[d] = "idle",
         \A d \in Calls : op'[d] = "exit" => op[d] = "exit",
         UNCHANGED <<userVars, histVars, registered, active, issued>>,
         \A d \in Calls : at[d] = "body" => pc[d] = "return",
         \A d \in Calls : pc[d] \in {"return", "idle"} /\ ~Dispatching(d)
  PROVE  SessionFacts'
<1> USE DEF userVars, histVars
<1>1. OneChain'
  BY DEF OneChain, Own, Nested
<1>2. UserFacts'
  BY DEF SessionInv, SessionFacts, UserFacts, Somewhere, Granting, Telling, Finishing
<1>3. StepFacts'
  <2>1. \A d \in Calls : op'[d] = "exit" => shutdownStarted
    BY DEF SessionInv, SessionFacts, StepFacts, FactsAt
  <2> QED
    BY <2>1 DEF StepFacts, FactsAt
<1>4. Subscribers'
  <2>1. \A t \in Active : Agrees(heard[t])
    BY DEF SessionInv, SessionFacts, Subscribers, Untold
  <2>2. Active' = Active /\ (\A e : Agrees(e)' = Agrees(e))
    BY DEF Active, Agrees
  <2>3. \A d \in Calls : ~Dispatching(d)'
    BY DEF Dispatching
  <2> QED
    BY <2>1, <2>2, <2>3 DEF SessionInv, SessionFacts, Subscribers
<1> QED
  BY <1>1, <1>2, <1>3, <1>4 DEF SessionFacts

LEMMA ReturnKeeps ==
  ASSUME SessionInv, LifeInv', NEW c \in Calls, Return(c)
  PROVE  SessionFacts'
<1> USE DEF Return, Jump, Leave, Goto
<1>1. /\ at[c] = "body" /\ pc[c] = "return" /\ at'[c] = "idle" /\ pc'[c] = "idle"
      /\ caller'[c] = NoCall /\ op'[c] = "none"
      /\ \A d \in Calls \ {c} : /\ at'[d] = at[d] /\ pc'[d] = pc[d]
                                /\ caller'[d] = caller[d] /\ op'[d] = op[d]
  BY DEF SessionInv, LifeInv, LifeTypeOK, RegInv, RegTypeOK
<1>2. CASE Own(c)
  <2>1. Alone(c)
    BY <1>1, <1>2, OwnIsAlone
  <2> QED
    BY <1>1, <2>1, QuietKeeps DEF Alone, Dispatching
<1>3. CASE Nested(c)
  <2>1. /\ caller[c] \in Calls \ {c} /\ at[caller[c]] = "callback" /\ Own(caller[c])
        /\ \A d \in Calls \ {c, caller[c]} : at[d] = "idle" /\ pc[d] = "idle"
    BY <1>3, NestedInOwn
  <2>2. OneChain'
    BY <1>1, <2>1 DEF OneChain, Own, Nested
  <2>3. Active' = Active /\ userVars' = userVars /\ held' = held
    BY DEF Active, histVars
  <2>4. UserFacts'
    <3>1. /\ Somewhere(Granting)' = Somewhere(Granting)
          /\ Somewhere(Telling)' = Somewhere(Telling)
          /\ Somewhere(Finishing)' = Somewhere(Finishing)
      BY <1>1 DEF Somewhere, Granting, Telling, Finishing
    <3> QED
      BY <2>3, <3>1 DEF SessionInv, SessionFacts, UserFacts, userVars
  <2>5. StepFacts'
    <3> SUFFICES ASSUME NEW d \in Calls PROVE FactsAt(pc[d], op[d])'
      BY DEF StepFacts
    <3>1. FactsAt(pc[d], op[d]) /\ Cardinality(Active)' = Cardinality(Active)
      BY <2>3 DEF SessionInv, SessionFacts, StepFacts
    <3> QED
      BY <1>1, <2>3, <3>1 DEF FactsAt, userVars
  <2>6. Subscribers'
    <3>1. \A e : Agrees(e)' = Agrees(e)
      BY <2>3 DEF Agrees, userVars
    <3>2. \A d \in Calls : Dispatching(d)' = Dispatching(d) /\ (Dispatching(d) => d # c)
      BY <1>1 DEF Dispatching
    <3>3. Dispatching(caller[c])
      BY <2>1 DEF Dispatching
    <3> QED
      BY <1>1, <2>1, <2>3, <3>1, <3>2, <3>3
         DEF SessionInv, SessionFacts, Subscribers, histVars
  <2> QED
    BY <2>2, <2>4, <2>5, <2>6 DEF SessionFacts
<1> QED
  BY <1>1, <1>2, <1>3 DEF Own, Nested

(* The end of an unregister takes away a registration that is inactive.     *)
LEMMA UnregisterEndsKeeps ==
  ASSUME SessionInv, LifeInv', NEW c \in Calls, UnregisterEnds(c)
  PROVE  SessionFacts'
<1>1. /\ at[c] \in {"inactive", "waiting", "removing"}
      /\ at'[c] \in {"waiting", "removing", "idle"}
      /\ \A d \in Calls \ {c} : /\ at'[d] = at[d] /\ caller'[d] = caller[d]
                                /\ op'[d] = op[d]
      /\ op'[c] \in {op[c], "none"} /\ (at'[c] # "idle" => caller'[c] = caller[c])
      /\ UNCHANGED <<issued, active, todo>>
  BY DEF UnregisterEnds, CheckInFlight, Wake, RemoveRegistration, Goto, SessionInv,
     LifeInv, LifeTypeOK, RegInv, RegTypeOK
<1>2. pc[c] = "idle" /\ Own(c) /\ Alone(c)
  BY <1>1, OnlyOwn, OwnIsAlone DEF SessionInv, LifeInv, OpsInStep
<1>3. Active' = Active
  <2>1. registered' = registered \/ registered' = registered \ {target[c]}
    BY DEF UnregisterEnds, CheckInFlight, Wake, RemoveRegistration
  <2>2. ~active[target[c]]
    BY <1>1 DEF SessionInv, LifeInv, RegInv, CallsConsistent
  <2> QED
    BY <1>1, <2>1, <2>2 DEF Active
<1>4. UNCHANGED <<userVars, pc, event, histVars>>
  BY DEF UnregisterEnds
<1>5. OneChain'
  BY <1>1, <1>2, <1>4 DEF OneChain, Own, Nested, Alone
<1>6. StepFacts' /\ UserFacts'
  BY <1>1, <1>3, <1>4, FactsKept DEF histVars
<1>7. Subscribers'
  <2>1. \A d \in Calls : ~Dispatching(d) /\ ~Dispatching(d)' /\ pc[d] \notin Untold
    BY <1>1, <1>2 DEF Alone, Dispatching, Untold
  <2>2. \A e : Agrees(e)' = Agrees(e)
    BY <1>4 DEF Agrees, userVars
  <2> QED
    BY <1>1, <1>3, <1>4, <2>1, <2>2 DEF SessionInv, SessionFacts, Subscribers, histVars
<1> QED
  BY <1>5, <1>6, <1>7 DEF SessionFacts

LEMMA InsertKeeps ==
  ASSUME SessionInv, LifeInv', NEW c \in Calls, Insert(c)
  PROVE  SessionFacts'
<1>1. /\ at[c] = "body" /\ at' = at /\ caller' = caller /\ op' = op /\ todo' = todo
      /\ event' = event
      /\ \/ pc[c] = "insert" /\ pc' = [pc EXCEPT ![c] = "return"]
         \/ pc[c] = "insert_again" /\ pc' = [pc EXCEPT ![c] = "announce"]
      /\ UNCHANGED <<userVars, held, heard>>
  BY DEF Insert, InsertRegistration, Jump, histVars
<1>2. Own(c) /\ Alone(c)
  BY <1>1, OnlyOwn, OwnIsAlone DEF NestedSteps
<1>3. /\ \A d \in Calls \ {c} : pc'[d] = pc[d] /\ at'[d] = "idle" /\ pc'[d] = "idle"
      /\ pc'[c] = IF pc[c] = "insert" THEN "return" ELSE "announce"
  BY <1>1, <1>2 DEF Alone, SessionInv, LifeInv, LifeTypeOK
<1>4. PICK t \in Tokens \ issued : /\ issued' = issued \cup {t}
                                  /\ registered' = registered \cup {t}
                                  /\ active' = [active EXCEPT ![t] = TRUE]
  BY DEF Insert, InsertRegistration
<1>5. Active' \subseteq Active \cup {t} /\ heard[t] = "none"
  BY <1>4 DEF Active, SessionInv, SessionFacts, Subscribers, LifeInv, RegInv, RegTypeOK
<1>6. OneChain'
  BY <1>1, <1>2, <1>3 DEF OneChain, Own, Nested, SessionInv, SessionFacts, Alone
<1>7. UserFacts'
  <2>1. /\ Somewhere(Granting)' = Somewhere(Granting)
        /\ Somewhere(Telling)' = Somewhere(Telling)
        /\ Somewhere(Finishing)' = Somewhere(Finishing)
    BY <1>1, <1>3 DEF Somewhere, Granting, Telling, Finishing
  <2> QED
    BY <1>1, <2>1 DEF SessionInv, SessionFacts, UserFacts, userVars
<1>8. StepFacts'
  <2> SUFFICES ASSUME NEW d \in Calls PROVE FactsAt(pc[d], op[d])'
    BY DEF StepFacts
  <2>1. FactsAt(pc[d], op[d])
    BY DEF SessionInv, SessionFacts, StepFacts
  <2> QED
    BY <1>1, <1>3, <2>1 DEF FactsAt, userVars
<1>9. Subscribers'
  <2>1. \A d \in Calls : ~Dispatching(d) /\ ~Dispatching(d)'
    BY <1>1, <1>2 DEF Alone, Dispatching
  <2>2. \A e : Agrees(e)' = Agrees(e)
    BY <1>1 DEF Agrees, userVars
  <2>3. ASSUME pc'[c] \notin Untold, NEW u \in Active' PROVE Agrees(heard[u])
    <3>1. \A d \in Calls : pc[d] \notin Untold
      BY <1>1, <1>2, <1>3, <2>3 DEF Untold, Alone
    <3> QED
      BY <1>5, <2>1, <3>1 DEF SessionInv, SessionFacts, Subscribers, Agrees
  <2> QED
    BY <1>1, <1>4, <2>1, <2>2, <2>3 DEF SessionInv, SessionFacts, Subscribers
<1> QED
  BY <1>6, <1>7, <1>8, <1>9 DEF SessionFacts

LEMMA DeactivateKeeps ==
  ASSUME SessionInv, LifeInv', NEW c \in Calls, DeactivateRegistration(c)
  PROVE  SessionFacts'
<1>1. /\ at[c] = "body" /\ pc[c] = "deactivate"
      /\ at' = [at EXCEPT ![c] = "inactive"] /\ pc' = [pc EXCEPT ![c] = "idle"]
      /\ active' = [active EXCEPT ![target[c]] = FALSE]
      /\ UNCHANGED <<userVars, held, heard, op, event, registered, issued, caller, todo>>
  BY DEF DeactivateRegistration, Deactivate, Goto, Jump, histVars
<1>2. Own(c) /\ Alone(c)
  BY <1>1, OnlyOwn, OwnIsAlone DEF NestedSteps
<1>3. /\ at'[c] = "inactive" /\ pc'[c] = "idle" /\ caller'[c] = NoCall
      /\ \A d \in Calls \ {c} : at'[d] = "idle" /\ pc'[d] = "idle"
  BY <1>1, <1>2 DEF Alone, SessionInv, LifeInv, LifeTypeOK, RegInv, RegTypeOK, Own
<1>4. Active' \subseteq Active
  BY <1>1 DEF Active, SessionInv, LifeInv, RegInv, RegTypeOK
<1>5. OneChain'
  BY <1>3 DEF OneChain, Own, Nested
<1>6. UserFacts'
  <2>1. /\ Somewhere(Granting)' = Somewhere(Granting)
        /\ Somewhere(Telling)' = Somewhere(Telling)
        /\ Somewhere(Finishing)' = Somewhere(Finishing)
    BY <1>1, <1>2, <1>3 DEF Somewhere, Granting, Telling, Finishing, Alone
  <2> QED
    BY <1>1, <2>1 DEF SessionInv, SessionFacts, UserFacts, userVars
<1>7. StepFacts'
  <2> SUFFICES ASSUME NEW d \in Calls PROVE FactsAt(pc[d], op[d])'
    BY DEF StepFacts
  <2>1. FactsAt(pc[d], op[d])
    BY DEF SessionInv, SessionFacts, StepFacts
  <2> QED
    BY <1>1, <1>3, <2>1 DEF FactsAt, userVars
<1>8. Subscribers'
  <2>1. \A d \in Calls : ~Dispatching(d) /\ ~Dispatching(d)' /\ pc[d] \notin Untold
    BY <1>1, <1>2, <1>3 DEF Alone, Dispatching, Untold
  <2>2. \A e : Agrees(e)' = Agrees(e)
    BY <1>1 DEF Agrees, userVars
  <2> QED
    BY <1>1, <1>4, <2>1, <2>2 DEF SessionInv, SessionFacts, Subscribers
<1> QED
  BY <1>5, <1>6, <1>7, <1>8 DEF SessionFacts

(* An event is dispatched when the user has become what it says.            *)
LEMMA DispatchKeeps ==
  ASSUME SessionInv, LifeInv', NEW c \in Calls,
         Announce(c) \/ BeginDispatch(c) \/ TryDispatch(c) \/ ExitDispatch(c)
  PROVE  SessionFacts'
<1> DEFINE Means(step, e, state, next) ==
      pc[c] = step /\ event'[c] = e /\ userState = state /\ pc'[c] \in next
<1>1. /\ at[c] = "body" /\ at' = [at EXCEPT ![c] = "loop"]
      /\ todo' = [todo EXCEPT ![c] = Active]
      /\ pc' = [pc EXCEPT ![c] = pc'[c]] /\ event' = [event EXCEPT ![c] = event'[c]]
      /\ UNCHANGED <<userVars, held, heard, op, registered, active, issued, caller>>
  BY DEF Announce, BeginDispatch, TryDispatch, ExitDispatch, Dispatch, StartDispatch, Goto,
     Jump, histVars, SessionInv, LifeInv, LifeTypeOK
<1>2. \/ Means("announce", "SignedInAgain", "SignedIn", {"return"})
      \/ Means("begin_dispatch", "SigningOut", "SigningOut", {"begin_done"})
      \/ /\ Means("try_dispatch", "SignedOut", "SignedOut", {"deactivate", "exit_wait", "return"})
         /\ pc'[c] = "exit_wait" => shutdownStarted
      \/ /\ Means("exit_dispatch", "SignedOut", "SignedOut", {"exit_forward"})
         /\ shutdownStarted
  <2>1. FactsAt(pc[c], op[c]) /\ OpFits(pc[c], op[c])
    BY DEF SessionInv, SessionFacts, StepFacts, LifeInv, OpsInStep
  <2>2. pc[c] = "try_dispatch" =>
          /\ AfterSignOut(c) \in {"deactivate", "exit_wait", "return"}
          /\ AfterSignOut(c) = "exit_wait" => op[c] = "exit"
    BY <2>1 DEF OpFits, AfterSignOut
  <2> QED
    BY <2>1, <2>2 DEF Announce, BeginDispatch, TryDispatch, ExitDispatch, Dispatch, Jump,
       FactsAt, SessionInv, LifeInv, LifeTypeOK
<1>3. Own(c) /\ Alone(c)
  BY <1>1, <1>2, OnlyOwn, OwnIsAlone DEF NestedSteps
<1>4. /\ at'[c] = "loop" /\ todo'[c] = Active /\ caller'[c] = NoCall
      /\ \A d \in Calls \ {c} : at'[d] = "idle" /\ pc'[d] = "idle"
      /\ Active' = Active
  BY <1>1, <1>3 DEF Alone, SessionInv, LifeInv, LifeTypeOK, RegInv, RegTypeOK, Own, Active
<1>5. OneChain'
  BY <1>4 DEF OneChain, Own, Nested
<1>6. UserFacts'
  <2>1. /\ Somewhere(Granting)' = Somewhere(Granting)
        /\ Somewhere(Telling)' = Somewhere(Telling)
        /\ userState = "SigningOut" => Somewhere(Finishing)'
    BY <1>2, <1>3, <1>4 DEF Somewhere, Granting, Telling, Finishing, Alone
  <2> QED
    BY <1>1, <2>1 DEF SessionInv, SessionFacts, UserFacts, userVars
<1>7. StepFacts'
  <2> SUFFICES ASSUME NEW d \in Calls PROVE FactsAt(pc[d], op[d])'
    BY DEF StepFacts
  <2>1. FactsAt(pc[d], op[d])
    BY DEF SessionInv, SessionFacts, StepFacts
  <2> QED
    BY <1>1, <1>2, <1>4, <2>1 DEF FactsAt, userVars
<1>8. Subscribers'
  <2>1. \A d \in Calls : Dispatching(d)' <=> d = c
    BY <1>4 DEF Dispatching
  <2>2. /\ event'[c] # "none" /\ Agrees(event[c])' /\ pc'[c] \in Resuming
        /\ event'[c] = "SigningOut" => pc'[c] = "begin_done"
    BY <1>1, <1>2 DEF Agrees, userVars, Resuming
  <2> QED
    BY <1>1, <1>4, <2>1, <2>2 DEF SessionInv, SessionFacts, Subscribers
<1> QED
  BY <1>5, <1>6, <1>7, <1>8 DEF SessionFacts

(* A subscriber is told, which is one that the event had yet to reach.      *)
LEMMA CallBackKeeps ==
  ASSUME SessionInv, LifeInv', NEW c \in Calls, NEW t \in Tokens, CallBack(c, t)
  PROVE  SessionFacts'
<1>1. /\ at[c] = "loop" /\ t \in todo[c] /\ at' = [at EXCEPT ![c] = "callback"]
      /\ todo' = [todo EXCEPT ![c] = @ \ {t}] /\ heard' = [heard EXCEPT ![t] = event[c]]
      /\ UNCHANGED <<userVars, pc, op, event, held, registered, active, issued, caller>>
  BY DEF CallBack, BeginCallback, Goto, callVars
<1>2. Own(c) /\ Alone(c)
  BY <1>1, OnlyOwn, OwnIsAlone
<1>3. /\ at'[c] = "callback" /\ todo'[c] = todo[c] \ {t} /\ Active' = Active
      /\ caller'[c] = NoCall /\ \A d \in Calls \ {c} : at'[d] = "idle" /\ pc'[d] = "idle"
      /\ \A u \in Tokens : heard'[u] = IF u = t THEN event[c] ELSE heard[u]
      /\ t \in issued /\ Active \subseteq Tokens
  BY <1>1, <1>2 DEF Alone, SessionInv, LifeInv, LifeTypeOK, RegInv, RegTypeOK, Own, Active,
     CallsConsistent
<1>4. OneChain'
  BY <1>3 DEF OneChain, Own, Nested
<1>5. StepFacts' /\ UserFacts'
  BY <1>1, <1>3, FactsKept
<1>6. Subscribers'
  <2>1. (\A d \in Calls : Dispatching(d)' <=> d = c) /\ Dispatching(c)
    BY <1>1, <1>3 DEF Dispatching
  <2>2. \A e : Agrees(e)' = Agrees(e)
    BY <1>1 DEF Agrees, userVars
  <2> QED
    BY <1>1, <1>3, <2>1, <2>2 DEF SessionInv, SessionFacts, Subscribers
<1> QED
  BY <1>4, <1>5, <1>6 DEF SessionFacts

LEMMA DispatchLoopKeeps ==
  ASSUME SessionInv, LifeInv', NEW c \in Calls, DispatchLoop(c)
  PROVE  SessionFacts'
<1>1. /\ at[c] \in {"loop", "prune"} /\ at' = [at EXCEPT ![c] = "loop"]
      /\ UNCHANGED <<userVars, callVars, histVars, active, issued, caller>>
  BY DEF DispatchLoop, SkipCallback, PruneIdle, Goto, SessionInv, LifeInv, RegInv, RegTypeOK
<1>2. Own(c) /\ Alone(c)
  BY <1>1, OnlyOwn, OwnIsAlone
<1>3. Active' = Active
  <2>1. \/ registered' = registered
        \/ registered' = registered \ {running[c]} /\ ~active[running[c]]
    BY DEF DispatchLoop, SkipCallback, PruneIdle
  <2> QED
    BY <1>1, <2>1 DEF Active
<1>4. Active \ todo'[c] \subseteq Active \ todo[c]
  <2>1. \/ todo' = todo
        \/ \E t \in Tokens : ~active[t] /\ todo' = [todo EXCEPT ![c] = @ \ {t}]
    BY DEF DispatchLoop, SkipCallback, PruneIdle
  <2> QED
    BY <2>1 DEF Active, SessionInv, LifeInv, RegInv, RegTypeOK
<1>5. /\ at'[c] = "loop" /\ caller'[c] = NoCall
      /\ \A d \in Calls \ {c} : at'[d] = "idle" /\ pc'[d] = "idle"
  BY <1>1, <1>2 DEF Alone, SessionInv, LifeInv, RegInv, RegTypeOK, Own, callVars
<1>6. OneChain'
  BY <1>5 DEF OneChain, Own, Nested
<1>7. StepFacts' /\ UserFacts'
  BY <1>1, <1>3, FactsKept DEF callVars, histVars
<1>8. Subscribers'
  <2>1. (\A d \in Calls : Dispatching(d)' <=> d = c) /\ Dispatching(c)
    BY <1>1, <1>5 DEF Dispatching
  <2>2. \A e : Agrees(e)' = Agrees(e)
    BY <1>1 DEF Agrees, userVars
  <2> QED
    BY <1>1, <1>3, <1>4, <2>1, <2>2
       DEF SessionInv, SessionFacts, Subscribers, callVars, histVars
<1> QED
  BY <1>6, <1>7, <1>8 DEF SessionFacts

(* Then the event has reached everybody.                                    *)
LEMMA DispatchEndsKeeps ==
  ASSUME SessionInv, LifeInv', NEW c \in Calls, DispatchEnds(c)
  PROVE  SessionFacts'
<1>1. /\ at[c] = "loop" /\ todo[c] = {} /\ at' = [at EXCEPT ![c] = "body"]
      /\ UNCHANGED <<userVars, pc, op, histVars, registered, active, issued, caller>>
  BY DEF DispatchEnds, EndDispatch, Goto
<1>2. Own(c) /\ Alone(c)
  BY <1>1, OnlyOwn, OwnIsAlone
<1>3. /\ at'[c] = "body" /\ caller'[c] = NoCall /\ Active' = Active
      /\ \A d \in Calls \ {c} : at'[d] = "idle" /\ pc'[d] = "idle"
  BY <1>1, <1>2 DEF Alone, SessionInv, LifeInv, RegInv, RegTypeOK, Own, Active
<1>4. OneChain'
  BY <1>3 DEF OneChain, Own, Nested
<1>5. StepFacts' /\ UserFacts'
  BY <1>1, <1>3, FactsKept DEF histVars
<1>6. Subscribers'
  <2>1. (\A d \in Calls : ~Dispatching(d)') /\ Dispatching(c)
    BY <1>1, <1>3 DEF Dispatching
  <2>2. \A e : Agrees(e)' = Agrees(e)
    BY <1>1 DEF Agrees, userVars
  <2> QED
    BY <1>1, <1>3, <2>1, <2>2 DEF SessionInv, SessionFacts, Subscribers, histVars
<1> QED
  BY <1>4, <1>5, <1>6 DEF SessionFacts

LEMMA CallbackReturnsKeeps ==
  ASSUME SessionInv, LifeInv', NEW c \in Calls, CallbackReturns(c)
  PROVE  SessionFacts'
<1>1. /\ at[c] = "callback" /\ Children(c) = {}
      /\ at' = [at EXCEPT ![c] = IF inFlight[running[c]] = 1 THEN "prune" ELSE "loop"]
      /\ UNCHANGED <<userVars, callVars, histVars, registered, active, issued, caller, todo>>
  BY DEF CallbackReturns, FinishCallback
<1>2. Own(c)
  BY <1>1, OnlyOwn
<1>3. Alone(c)
  <2> SUFFICES ASSUME NEW d \in Calls \ {c}, at[d] # "idle" PROVE FALSE
    BY DEF Alone, SessionInv, SessionFacts, OneChain
  <2>1. Nested(d)
    BY <1>2 DEF SessionInv, SessionFacts, OneChain, Own, Nested
  <2>2. caller[d] \in Calls /\ Own(caller[d])
    BY <2>1, NestedInOwn
  <2>3. caller[d] = c
    BY <1>2, <2>2 DEF SessionInv, SessionFacts, OneChain
  <2> QED
    BY <1>1, <2>3 DEF Children
<1>4. /\ at'[c] \in {"prune", "loop"} /\ caller'[c] = NoCall /\ Active' = Active
      /\ \A d \in Calls \ {c} : at'[d] = "idle" /\ pc'[d] = "idle"
  BY <1>1, <1>2, <1>3 DEF Alone, SessionInv, LifeInv, RegInv, RegTypeOK, Own, Active, callVars
<1>5. OneChain'
  BY <1>4 DEF OneChain, Own, Nested
<1>6. StepFacts' /\ UserFacts'
  BY <1>1, <1>4, FactsKept DEF callVars, histVars
<1>7. Subscribers'
  <2>1. (\A d \in Calls : Dispatching(d)' <=> d = c) /\ Dispatching(c)
    BY <1>1, <1>4 DEF Dispatching
  <2>2. \A e : Agrees(e)' = Agrees(e)
    BY <1>1 DEF Agrees, userVars
  <2> QED
    BY <1>1, <1>4, <2>1, <2>2
       DEF SessionInv, SessionFacts, Subscribers, callVars, histVars
<1> QED
  BY <1>5, <1>6, <1>7 DEF SessionFacts

-----------------------------------------------------------------------------
(* The title makes a call.                                                  *)
Enters(c, p) ==
  /\ MayCall(p) /\ at[c] = "idle" /\ at' = [at EXCEPT ![c] = "body"]
  /\ caller' = [caller EXCEPT ![c] = p]
  /\ \A d \in Calls \ {c} : pc'[d] = pc[d] /\ op'[d] = op[d]
  /\ UNCHANGED <<registered, issued, active, todo, event, heard, userState>>

LEMMA StartEnters ==
  ASSUME SessionInv, NEW c \in Calls, NEW p \in Callers, NEW o, NEW first,
         Start(c, p, o, first), userState' = userState
  PROVE  Enters(c, p) /\ pc'[c] = first /\ op'[c] = o
BY DEF Start, Enter, Goto, Enters, SessionInv, LifeInv, LifeTypeOK

LEMMA OwnStartKeeps ==
  ASSUME SessionInv, LifeInv', NEW c \in Calls, Enters(c, NoCall),
         \A d \in Calls : at[d] = "idle" /\ pc[d] = "idle",
         FactsAt(pc[c], op[c])', UserFactsAt(pc[c], "idle")', pc'[c] \notin Untold,
         shutdownStarted => shutdownStarted'
  PROVE  SessionFacts'
<1> USE DEF Enters
<1>1. /\ at'[c] = "body" /\ caller'[c] = NoCall /\ Active' = Active
      /\ \A d \in Calls \ {c} : at'[d] = "idle" /\ pc'[d] = "idle"
  BY DEF SessionInv, LifeInv, RegInv, RegTypeOK, Active
<1>2. OneChain'
  BY <1>1 DEF OneChain, Own, Nested
<1>3. UserFacts'
  <2>1. /\ Somewhere(Granting)' <=> pc'[c] \in Granting \/ "idle" \in Granting
        /\ Somewhere(Telling)' <=> pc'[c] \in Telling \/ "idle" \in Telling
        /\ Somewhere(Finishing)' <=> pc'[c] \in Finishing \/ "idle" \in Finishing
    BY <1>1 DEF Somewhere, Granting, Telling, Finishing
  <2> QED
    BY <2>1 DEF UserFacts, UserFactsAt
<1>4. StepFacts'
  <2> SUFFICES ASSUME NEW d \in Calls \ {c} PROVE FactsAt(pc[d], op[d])'
    BY DEF StepFacts
  <2>1. FactsAt(pc[d], op[d])
    BY DEF SessionInv, SessionFacts, StepFacts
  <2> QED
    BY <1>1, <2>1 DEF FactsAt
<1>5. Subscribers'
  <2>1. \A d \in Calls : ~Dispatching(d) /\ ~Dispatching(d)' /\ pc[d] \notin Untold
    BY <1>1 DEF Dispatching, Untold
  <2>2. \A e : Agrees(e)' = Agrees(e)
    BY DEF Agrees
  <2> QED
    BY <1>1, <2>1, <2>2 DEF SessionInv, SessionFacts, Subscribers
<1> QED
  BY <1>2, <1>3, <1>4, <1>5 DEF SessionFacts

(* A callback that makes a call is that of the title's own call.            *)
LEMMA CallbackIsOwn ==
  ASSUME SessionInv, NEW p \in Calls, MayCall(p)
  PROVE  /\ at[p] = "callback" /\ Own(p) /\ pc[p] \in Resuming
         /\ \A d \in Calls \ {p} : at[d] = "idle" /\ pc[d] = "idle"
<1>1. at[p] = "callback" /\ Children(p) = {}
  BY CallsAssumption DEF MayCall
<1>2. Own(p)
  BY <1>1, OnlyOwn
<1>3. \A d \in Calls \ {p} : at[d] = "idle"
  <2> SUFFICES ASSUME NEW d \in Calls \ {p}, at[d] # "idle" PROVE FALSE
    OBVIOUS
  <2>1. Nested(d)
    BY <1>2 DEF SessionInv, SessionFacts, OneChain, Own, Nested
  <2>2. caller[d] \in Calls /\ Own(caller[d])
    BY <2>1, NestedInOwn
  <2>3. caller[d] = p
    BY <1>2, <2>2 DEF SessionInv, SessionFacts, OneChain
  <2> QED
    BY <1>1, <2>3 DEF Children
<1>4. pc[p] \in Resuming
  BY <1>1 DEF SessionInv, SessionFacts, Subscribers, Dispatching
<1> QED
  BY <1>1, <1>2, <1>3, <1>4 DEF SessionInv, SessionFacts, OneChain

LEMMA NestedStartKeeps ==
  ASSUME SessionInv, LifeInv', NEW c \in Calls, NEW p \in Calls, Enters(c, p),
         UNCHANGED <<userWasAdded, shutdownStarted>>,
         FactsAt(pc[c], op[c])', UserFactsAt(pc[c], pc[p])',
         op'[c] \in {"getDeferral", "closeDeferral"},
         pc'[c] \in {"deferral_add", "try_flag", "return"}
  PROVE  SessionFacts'
<1> USE DEF Enters
<1>1. /\ at[p] = "callback" /\ Own(p) /\ pc[p] \in Resuming
      /\ \A d \in Calls \ {p} : at[d] = "idle" /\ pc[d] = "idle"
  BY CallbackIsOwn
<1>2. /\ p # c /\ at'[c] = "body" /\ caller'[c] = p /\ Active' = Active
      /\ at'[p] = "callback" /\ caller'[p] = NoCall /\ pc'[p] = pc[p] /\ p # NoCall
      /\ \A d \in Calls \ {c, p} : at'[d] = "idle" /\ pc'[d] = "idle"
  BY <1>1, CallsAssumption DEF SessionInv, LifeInv, RegInv, RegTypeOK, Active, Own
<1>3. OneChain'
  BY <1>1, <1>2 DEF OneChain, Own, Nested, NestedSteps
<1>4. UserFacts'
  <2>1. /\ Somewhere(Granting)' <=> pc'[c] \in Granting \/ pc'[p] \in Granting
        /\ Somewhere(Telling)' <=> pc'[c] \in Telling \/ pc'[p] \in Telling
        /\ Somewhere(Finishing)' <=> pc'[c] \in Finishing \/ pc'[p] \in Finishing
    BY <1>2 DEF Somewhere, Granting, Telling, Finishing
  <2> QED
    BY <2>1 DEF UserFacts, UserFactsAt
<1>5. StepFacts'
  <2> SUFFICES ASSUME NEW d \in Calls \ {c} PROVE FactsAt(pc[d], op[d])'
    BY DEF StepFacts
  <2>1. FactsAt(pc[d], op[d]) /\ pc[d] \in Resuming \cup {"idle"}
    BY <1>1 DEF SessionInv, SessionFacts, StepFacts
  <2> QED
    BY <1>2, <2>1 DEF FactsAt, Resuming
<1>6. Subscribers'
  <2>1. \A d \in Calls : /\ Dispatching(d) <=> d = p
                         /\ Dispatching(d)' <=> d = p
    BY <1>1, <1>2 DEF Dispatching
  <2>2. \A e : Agrees(e)' = Agrees(e)
    BY DEF Agrees
  <2> QED
    BY <1>2, <2>1, <2>2 DEF SessionInv, SessionFacts, Subscribers
<1> QED
  BY <1>3, <1>4, <1>5, <1>6 DEF SessionFacts

-----------------------------------------------------------------------------
(* The exit hook never returns to the title: a process that has begun to    *)
(* leave has a call that goes on with it, whatever the threads are.         *)
ExitSteps == {"exit_added", "exit_store", "exit_wait", "exit_force", "exit_dispatch",
              "exit_forward", "begin_cas", "begin_flag", "begin_dispatch", "begin_done",
              "try_flag", "try_count", "try_cas", "try_dispatch"}

Leaves(c) == op[c] = "exit" /\ at[c] # "idle" /\ pc[c] \in ExitSteps
ExitInv ==
  /\ \A c \in Calls : op[c] = "exit" => Leaves(c)
  /\ shutdownStarted => \E c \in Calls : op[c] = "exit"

LEMMA StepGoesOn ==
  ASSUME LifeInv, ExitInv, NEW c \in Calls, NEW to, UNCHANGED <<op, shutdownStarted>>,
         pc' = [pc EXCEPT ![c] = to], op[c] = "exit" => to \in ExitSteps,
         \A d \in Calls : at[d] # "idle" => at'[d] # "idle"
  PROVE  ExitInv'
<1>1. /\ pc'[c] = to /\ \A d \in Calls \ {c} : pc'[d] = pc[d]
      /\ \A d \in Calls : op'[d] = op[d]
  BY DEF LifeInv, LifeTypeOK
<1> QED
  BY <1>1 DEF ExitInv, Leaves

LEMMA BodyStepGoesOn ==
  ASSUME LifeInv, ExitInv, NEW c \in Calls, OwnMoves(c)
  PROVE  ExitInv'
<1>1. OpFits(pc[c], op[c]) /\ (op[c] = "exit" => pc[c] \in ExitSteps)
  BY DEF LifeInv, OpsInStep, ExitInv, Leaves
<1>2. op[c] = "exit" => AfterSignOut(c) = "exit_wait"
  BY DEF AfterSignOut
<1>3. \E to : /\ pc' = [pc EXCEPT ![c] = to] /\ (op[c] = "exit" => to \in ExitSteps)
              /\ UNCHANGED <<op, shutdownStarted, at>>
  <2> USE <1>1, <1>2 DEF Step, Jump, ExitSteps, UserStateCas, SetCallbacksComplete, AddDeferral,
          userVars, regVars
  <2>1. CASE AddLoad(c) \/ AddCount(c) \/ AddGate(c) \/ AddCas(c) \/ AddCountAgain(c)
    BY <2>1 DEF AddLoad, AddCount, AddGate, AddCas, AddCountAgain
  <2>2. CASE RestoreDeferrals(c) \/ RestoreComplete(c) \/ RegisterGate(c) \/ RegisterCas(c)
    BY <2>2 DEF RestoreDeferrals, RestoreComplete, RegisterGate, RegisterCas
  <2>3. CASE UnregisterState(c) \/ UnregisterGate(c)
    BY <2>3 DEF UnregisterState, UnregisterGate, OpFits
  <2>4. CASE BeginCas(c) \/ BeginFlag(c) \/ BeginDone(c)
    BY <2>4 DEF BeginCas, BeginFlag, BeginDone
  <2>5. CASE TryFlag(c) \/ TryCount(c) \/ TryCas(c)
    BY <2>5 DEF TryFlag, TryCount, TryCas
  <2>6. CASE DeferralAdd(c) \/ DeferralCheck(c) \/ DeferralUndo(c)
    BY <2>6 DEF DeferralAdd, DeferralCheck, DeferralUndo
  <2>7. CASE ExitAdded(c) \/ ExitStore(c) \/ ExitWait(c) \/ ExitForce(c) \/ ExitForward(c)
    BY <2>7 DEF ExitAdded, ExitStore, ExitWait, ExitForce, ExitForward
  <2> QED
    BY <2>1, <2>2, <2>3, <2>4, <2>5, <2>6, <2>7 DEF OwnMoves
<1> QED
  BY <1>3, StepGoesOn

LEMMA ExitInvStep ==
  ASSUME LifeInv, ExitInv, Next
  PROVE  ExitInv'
<1> USE DEF userVars, callVars, regVars
<1>1. CASE \E c \in Calls, p \in Callers : CallStart(c, p)
  <2>1. PICK c \in Calls, p \in Callers : CallStart(c, p)
    BY <1>1
  <2>2. /\ at[c] = "idle" /\ at' = [at EXCEPT ![c] = "body"]
        /\ \E o, first : op' = [op EXCEPT ![c] = o] /\ pc' = [pc EXCEPT ![c] = first]
                         /\ (o = "exit" <=> Exit(c, p)) /\ (o = "exit" => first \in ExitSteps)
        /\ shutdownStarted' = shutdownStarted \/ Exit(c, p)
    <3>1. CASE \E t \in Tokens, w \in BOOLEAN : Unregister(c, p, t, w)
      <4> DEFINE first == IF Cardinality(Active) = 1 THEN "unregister_state" ELSE "deactivate"
      <4>1. /\ op' = [op EXCEPT ![c] = "unregister"] /\ pc' = [pc EXCEPT ![c] = first]
            /\ at[c] = "idle" /\ at' = [at EXCEPT ![c] = "body"]
            /\ shutdownStarted' = shutdownStarted
        BY <3>1 DEF Unregister, UnregisterFound, Goto
      <4>2. ~Exit(c, p)
        BY <4>1 DEF Exit, Start, LifeInv, LifeTypeOK
      <4>3. \E o, start : /\ op' = [op EXCEPT ![c] = o] /\ pc' = [pc EXCEPT ![c] = start]
                         /\ (o = "exit" <=> Exit(c, p)) /\ (o = "exit" => start \in ExitSteps)
        <5>1. "unregister" # "exit"
          OBVIOUS
        <5> WITNESS "unregister", first
        <5> QED
          BY <4>1, <4>2, <5>1
      <4> QED
        BY <4>1, <4>3
    <3>2. CASE Exit(c, p)
      BY <3>2 DEF Exit, Start, Enter, Goto, ExitSteps
    <3>3. CASE Add(c, p) \/ Register(c, p) \/ GetDeferral(c, p) \/ CloseDeferral(c, p)
      BY <3>3 DEF Add, Register, GetDeferral, CloseDeferral, Exit, Start, Enter, Goto, LifeInv,
         LifeTypeOK
    <3> QED
      BY <2>1, <3>1, <3>2, <3>3 DEF CallStart
  <2>3. PICK o, first : /\ op' = [op EXCEPT ![c] = o] /\ pc' = [pc EXCEPT ![c] = first]
                        /\ (o = "exit" <=> Exit(c, p)) /\ (o = "exit" => first \in ExitSteps)
    BY <2>2
  <2>4. /\ op'[c] = o /\ pc'[c] = first /\ at'[c] = "body" /\ op[c] # "exit"
        /\ \A d \in Calls \ {c} : op'[d] = op[d] /\ pc'[d] = pc[d] /\ at'[d] = at[d]
    BY <2>2, <2>3 DEF LifeInv, LifeTypeOK, RegInv, RegTypeOK, ExitInv, Leaves
  <2>5. \A d \in Calls : op'[d] = "exit" => Leaves(d)'
    BY <2>3, <2>4 DEF ExitInv, Leaves
  <2>6. shutdownStarted' => \E d \in Calls : op'[d] = "exit"
    BY <2>2, <2>3, <2>4 DEF ExitInv
  <2> QED
    BY <2>5, <2>6 DEF ExitInv
<1>2. ASSUME NEW c \in Calls, CallStep(c) PROVE ExitInv'
  <2>1. CASE OwnMoves(c)
    BY <2>1, BodyStepGoesOn
  <2>2. CASE Announce(c) \/ BeginDispatch(c) \/ TryDispatch(c) \/ ExitDispatch(c)
    <3>1. /\ OpFits(pc[c], op[c])
          /\ op[c] = "exit" => pc[c] \in ExitSteps /\ AfterSignOut(c) = "exit_wait"
      BY DEF LifeInv, OpsInStep, ExitInv, Leaves, AfterSignOut
    <3>2. \E to : /\ pc' = [pc EXCEPT ![c] = to] /\ (op[c] = "exit" => to \in ExitSteps)
                  /\ UNCHANGED <<op, shutdownStarted>> /\ at' = [at EXCEPT ![c] = "loop"]
      BY <2>2, <3>1 DEF Announce, BeginDispatch, TryDispatch, ExitDispatch, Dispatch, Jump,
         StartDispatch, Goto, ExitSteps
    <3> QED
      BY <3>2, StepGoesOn DEF LifeInv, RegInv, RegTypeOK
  <2>3. CASE Insert(c)
    BY <2>3, StepGoesOn DEF Insert, InsertRegistration, Jump, ExitInv, Leaves, ExitSteps
  <2>4. CASE DeactivateRegistration(c)
    BY <2>4, StepGoesOn DEF DeactivateRegistration, Deactivate, Goto, Jump, ExitInv, Leaves,
       ExitSteps, LifeInv, RegInv, RegTypeOK
  <2>5. CASE Return(c) \/ UnregisterEnds(c)
    <3>1. /\ op[c] # "exit" /\ op'[c] \in {op[c], "none"} /\ UNCHANGED shutdownStarted
          /\ \A d \in Calls \ {c} : op'[d] = op[d] /\ pc'[d] = pc[d] /\ at'[d] = at[d]
      BY <2>5 DEF Return, UnregisterEnds, Jump, Leave, CheckInFlight, Wake, RemoveRegistration, Goto,
         ExitInv, Leaves, ExitSteps, LifeInv, LifeTypeOK, OpsInStep, RegInv, RegTypeOK
    <3> QED
      BY <3>1 DEF ExitInv, Leaves
  <2>6. CASE (\E t \in Tokens : CallBack(c, t)) \/ DispatchLoop(c) \/ DispatchEnds(c)
    BY <2>6 DEF CallBack, BeginCallback, DispatchLoop, SkipCallback, PruneIdle, DispatchEnds,
       EndDispatch, Goto, ExitInv, Leaves, LifeInv, RegInv, RegTypeOK
  <2> QED
    BY <1>2, <2>1, <2>2, <2>3, <2>4, <2>5, <2>6 DEF CallStep, OwnMoves
<1>3. ASSUME NEW c \in Calls, CallbackReturns(c) PROVE ExitInv'
  BY <1>3 DEF CallbackReturns, FinishCallback, ExitInv, Leaves, LifeInv, RegInv, RegTypeOK
<1>4. ASSUME NEW p \in Callers, Instant(p) PROVE ExitInv'
  BY <1>4 DEF Instant, DuplicateHandle, ReleaseHandle, ExitUnhooked, UnregisterAbsent,
     UnregisterMissing, ExitInv, Leaves
<1>5. CASE UNCHANGED vars
  BY <1>5 DEF vars, ExitInv, Leaves
<1> QED
  BY <1>1, <1>2, <1>3, <1>4, <1>5 DEF Next, Running, Exited

LEMMA EntryKeeps ==
  ASSUME OneThread, SessionInv, ExitInv, LifeInv', NEW c \in Calls, NEW p \in Callers,
         CallStart(c, p)
  PROVE  SessionFacts'
<1> USE DEF userVars
<1>1. /\ held \in Nat /\ deferrals \in Nat /\ MaxHeld \in Nat
      /\ \A q \in Calls : FactsAt(pc[q], op[q])
  BY BoundsAssumption DEF SessionInv, LifeInv, LifeTypeOK, SessionFacts, StepFacts
<1>2. ASSUME \A d \in Calls : at[d] = "idle" /\ pc[d] = "idle"
      PROVE  UserFactsAt("idle", "idle")
  <2>1. ~Somewhere(Granting) /\ ~Somewhere(Telling) /\ ~Somewhere(Finishing)
    BY <1>2 DEF Somewhere, Granting, Telling, Finishing
  <2> QED
    BY <2>1 DEF UserFacts, UserFactsAt, SessionInv, SessionFacts, Granting, Telling, Finishing
<1>3. ASSUME NEW o \in Ops, Allowed(o, p), p = NoCall
      PROVE  \A d \in Calls : at[d] = "idle" /\ pc[d] = "idle"
  BY <1>3, OwnIsFirst
<1>a. ASSUME p \in Calls, Enters(c, p)
      PROVE  UserFactsAt("idle", pc[p]) /\ p # c /\ pc[p] \in Resuming
  <2>1. /\ at[p] = "callback" /\ pc[p] \in Resuming
        /\ \A d \in Calls \ {p} : at[d] = "idle" /\ pc[d] = "idle"
    BY <1>a, CallbackIsOwn DEF Enters
  <2>2. /\ Somewhere(Granting) <=> pc[p] \in Granting \/ "idle" \in Granting
        /\ Somewhere(Telling) <=> pc[p] \in Telling \/ "idle" \in Telling
        /\ Somewhere(Finishing) <=> pc[p] \in Finishing \/ "idle" \in Finishing
    BY <1>a, <2>1 DEF Somewhere, Granting, Telling, Finishing
  <2> QED
    BY <1>a, <2>1, <2>2 DEF UserFacts, UserFactsAt, SessionInv, SessionFacts, Enters
<1>4. CASE Add(c, p)
  <2>1. Start(c, p, "add", "add_load") /\ p = NoCall
    BY <1>4, OwnCallOf DEF Add, Start, Ops
  <2>2. /\ Enters(c, NoCall) /\ pc'[c] = "add_load" /\ op'[c] = "add"
        /\ \A d \in Calls : at[d] = "idle" /\ pc[d] = "idle"
    BY <1>3, <1>4, <2>1, StartEnters DEF Add, Start, Ops
  <2>3. FactsAt(pc[c], op[c])' /\ UserFactsAt(pc[c], "idle")'
    BY <1>2, <1>4, <2>2 DEF Add, FactsAt, UserFactsAt, Granting, Telling, Finishing
  <2> QED
    BY <1>4, <2>2, <2>3, OwnStartKeeps DEF Add, Untold
<1>5. CASE Register(c, p)
  <2>1. Start(c, p, "register", "register_gate") /\ p = NoCall
    BY <1>5, OwnCallOf DEF Register, Start, Ops
  <2>2. /\ Enters(c, NoCall) /\ pc'[c] = "register_gate" /\ op'[c] = "register"
        /\ \A d \in Calls : at[d] = "idle" /\ pc[d] = "idle"
    BY <1>3, <1>5, <2>1, StartEnters DEF Register, Start, Ops
  <2>3. FactsAt(pc[c], op[c])' /\ UserFactsAt(pc[c], "idle")'
    BY <1>2, <1>5, <2>2 DEF Register, FactsAt, UserFactsAt, Granting, Telling, Finishing
  <2> QED
    BY <1>5, <2>2, <2>3, OwnStartKeeps DEF Register, Untold
<1>6. CASE Exit(c, p)
  <2>1. Start(c, p, "exit", IF shutdownStarted THEN "exit_forward" ELSE "exit_added")
        /\ p = NoCall
    BY <1>6, OwnCallOf DEF Exit, Start, Ops
  <2>2. /\ Enters(c, NoCall) /\ op'[c] = "exit"
        /\ pc'[c] = IF shutdownStarted THEN "exit_forward" ELSE "exit_added"
        /\ \A d \in Calls : at[d] = "idle" /\ pc[d] = "idle"
    BY <1>3, <1>6, <2>1, StartEnters DEF Exit, Start, Ops, Enters, Enter, Goto, SessionInv,
       LifeInv, LifeTypeOK
  <2>3. ~shutdownStarted
    BY <2>2 DEF ExitInv, Leaves
  <2>4. FactsAt(pc[c], op[c])' /\ UserFactsAt(pc[c], "idle")'
    BY <1>2, <1>6, <2>2, <2>3 DEF Exit, FactsAt, UserFactsAt, Granting, Telling, Finishing
  <2> QED
    BY <1>6, <2>2, <2>3, <2>4, OwnStartKeeps DEF Exit, Untold
<1>7. CASE \E t \in Tokens, w \in BOOLEAN : Unregister(c, p, t, w)
  <2>1. PICK t \in Tokens, w \in BOOLEAN : Unregister(c, p, t, w)
    BY <1>7
  <2>2. /\ p = NoCall /\ \A d \in Calls : at[d] = "idle" /\ pc[d] = "idle"
    BY <1>3, <2>1, OwnCallOf DEF Unregister, Ops
  <2>3. /\ Enters(c, NoCall) /\ op'[c] = "unregister" /\ Active' = Active
        /\ pc'[c] = IF Cardinality(Active) = 1 THEN "unregister_state" ELSE "deactivate"
    BY <2>1, <2>2 DEF Unregister, UnregisterFound, Goto, Enters, SessionInv, LifeInv, LifeTypeOK,
       histVars, Active
  <2>4. FactsAt(pc[c], op[c])' /\ UserFactsAt(pc[c], "idle")'
    BY <1>2, <2>1, <2>2, <2>3
       DEF Unregister, histVars, FactsAt, UserFactsAt, Granting, Telling, Finishing
  <2> QED
    BY <2>1, <2>2, <2>3, <2>4, OwnStartKeeps DEF Unregister, Untold
<1>8. CASE GetDeferral(c, p)
  <2>1. Start(c, p, "getDeferral", "deferral_add")
    BY <1>8 DEF GetDeferral
  <2>2. Enters(c, p) /\ pc'[c] = "deferral_add" /\ op'[c] = "getDeferral"
    BY <1>8, <2>1, StartEnters DEF GetDeferral
  <2>3. FactsAt(pc[c], op[c])'
    BY <1>8, <2>2 DEF GetDeferral, FactsAt
  <2>4. CASE p = NoCall
    <3>1. \A d \in Calls : at[d] = "idle" /\ pc[d] = "idle"
      BY <1>3, <2>1, <2>4 DEF Start, Ops
    <3>2. UserFactsAt(pc[c], "idle")'
      BY <1>2, <1>8, <2>2, <3>1 DEF GetDeferral, UserFactsAt, Granting, Telling, Finishing
    <3> QED
      BY <1>8, <2>2, <2>3, <2>4, <3>1, <3>2, OwnStartKeeps DEF GetDeferral, Untold
  <2>5. CASE p \in Calls
    <3>1. UserFactsAt("idle", pc[p]) /\ pc'[p] = pc[p]
      BY <2>2, <2>5, <1>a DEF Enters
    <3>2. UserFactsAt(pc[c], pc[p])'
      BY <1>8, <2>2, <3>1 DEF GetDeferral, UserFactsAt, Granting, Telling, Finishing
    <3> QED
      BY <1>8, <2>2, <2>3, <2>5, <3>2, NestedStartKeeps DEF GetDeferral
  <2> QED
    BY <2>4, <2>5 DEF Callers
<1>9. CASE CloseDeferral(c, p)
  <2>1. Start(c, p, "closeDeferral", IF deferrals = 1 THEN "try_flag" ELSE "return")
    BY <1>9 DEF CloseDeferral
  <2>2. /\ Enters(c, p) /\ op'[c] = "closeDeferral"
        /\ pc'[c] = IF deferrals = 1 THEN "try_flag" ELSE "return"
    BY <1>9, <2>1, StartEnters DEF CloseDeferral
  <2>3. userState # "SignedIn"
    BY <1>1, <1>9 DEF CloseDeferral, SessionInv, SessionFacts, UserFacts
  <2>4. FactsAt(pc[c], op[c])'
    BY <1>9, <2>2, <2>3 DEF CloseDeferral, FactsAt
  <2>5. CASE p = NoCall
    <3>1. \A d \in Calls : at[d] = "idle" /\ pc[d] = "idle"
      BY <1>3, <2>1, <2>5 DEF Start, Ops
    <3>2. UserFactsAt(pc[c], "idle")'
      BY <1>1, <1>2, <1>9, <2>2, <3>1
         DEF CloseDeferral, UserFactsAt, Granting, Telling, Finishing
    <3> QED
      BY <1>9, <2>2, <2>4, <2>5, <3>1, <3>2, OwnStartKeeps DEF CloseDeferral, Untold
  <2>6. CASE p \in Calls
    <3>1. UserFactsAt("idle", pc[p]) /\ pc'[p] = pc[p] /\ pc[p] \in Resuming
      BY <2>2, <2>6, <1>a DEF Enters
    <3>2. UserFactsAt(pc[c], pc[p])'
      BY <1>1, <1>9, <2>2, <3>1
         DEF CloseDeferral, UserFactsAt, Granting, Telling, Finishing, Resuming
    <3> QED
      BY <1>9, <2>2, <2>4, <2>6, <3>2, NestedStartKeeps DEF CloseDeferral
  <2> QED
    BY <2>5, <2>6 DEF Callers
<1> QED
  BY <1>4, <1>5, <1>6, <1>7, <1>8, <1>9 DEF CallStart

(* The calls that end where they begin change nothing the invariant names.  *)
LEMMA InstantKeeps ==
  ASSUME SessionInv, NEW p \in Callers, Instant(p)
  PROVE  SessionFacts'
<1>1. UNCHANGED <<registered, issued, active, caller, at, todo, userState, userWasAdded,
                  callbacksComplete, deferrals, shutdownStarted, exitHook, pc, op, event,
                  held, heard>>
  BY DEF Instant, DuplicateHandle, ReleaseHandle, ExitUnhooked, UnregisterAbsent,
     UnregisterMissing, regVars, userVars, callVars, histVars
<1> USE <1>1 DEF SessionInv, SessionFacts
<1>2. OneChain'
  BY DEF OneChain, Own, Nested
<1>3. UserFacts' /\ Active' = Active /\ \A e : Agrees(e)' = Agrees(e)
  BY DEF UserFacts, Somewhere, Active, Agrees
<1>4. StepFacts'
  BY <1>3 DEF StepFacts, FactsAt
<1>5. Subscribers'
  BY <1>3 DEF Subscribers, Dispatching
<1> QED
  BY <1>2, <1>3, <1>4, <1>5

LEMMA SessionStutter == SessionInv /\ UNCHANGED vars => SessionFacts'
<1> SUFFICES ASSUME SessionInv, UNCHANGED vars PROVE SessionFacts'
  OBVIOUS
<1> USE DEF vars, regVars, userVars, callVars, histVars, SessionInv, SessionFacts
<1>1. OneChain'
  BY DEF OneChain, Own, Nested
<1>2. UserFacts' /\ Active' = Active /\ \A e : Agrees(e)' = Agrees(e)
  BY DEF UserFacts, Somewhere, Active, Agrees
<1>3. StepFacts'
  BY <1>2 DEF StepFacts, FactsAt
<1>4. Subscribers'
  BY <1>2 DEF Subscribers, Dispatching
<1> QED
  BY <1>1, <1>2, <1>3, <1>4

LEMMA SessionInvInit == OneThread /\ Init => SessionInv /\ ExitInv
<1> SUFFICES ASSUME OneThread, Init PROVE SessionInv /\ ExitInv
  OBVIOUS
<1> USE BoundsAssumption DEF Init, RegInit
<1>1. LifeInv /\ ExitInv
  BY LifeInvInit DEF ExitInv, Leaves
<1>2. OneChain
  BY DEF OneChain, Own, Nested
<1>3. UserFacts
  <2>1. ~Somewhere(Granting) /\ ~Somewhere(Telling)
    BY DEF Somewhere, Granting, Telling
  <2>2. /\ deferrals = held + (IF Somewhere(Granting) THEN 1 ELSE 0)
        /\ held <= MaxHeld /\ ~(held > 0)
    BY <2>1
  <2>3. callbacksComplete = ~Somewhere(Telling)
    BY <2>1
  <2> QED
    BY <2>2, <2>3 DEF UserFacts
<1>4. StepFacts
  BY DEF StepFacts, FactsAt
<1>5. Subscribers
  BY DEF Subscribers, Dispatching, Active, Untold
<1> QED
  BY <1>1, <1>2, <1>3, <1>4, <1>5 DEF SessionInv, SessionFacts

LEMMA SessionInvStep ==
  ASSUME OneThread, SessionInv, ExitInv, [Next]_vars
  PROVE  SessionInv' /\ ExitInv'
<1>1. LifeInv'
  BY LifeInvStep DEF SessionInv
<1>2. ExitInv'
  <2>1. CASE Next
    BY <2>1, ExitInvStep DEF SessionInv
  <2>2. CASE UNCHANGED vars
    BY <2>2 DEF vars, regVars, userVars, callVars, ExitInv, Leaves
  <2> QED
    BY <2>1, <2>2
<1>3. ASSUME NEW c \in Calls, NEW p \in Callers, CallStart(c, p) PROVE SessionFacts'
  BY <1>1, <1>3, EntryKeeps DEF SessionInv
<1>4. ASSUME NEW c \in Calls, CallStep(c) PROVE SessionFacts'
  <2>1. CASE OwnMoves(c)
    <3>1. at[c] # "idle"
      BY <2>1 DEF OwnMoves, AddLoad, AddCount, AddGate, AddCas, AddCountAgain, RestoreDeferrals,
         RestoreComplete, RegisterGate, RegisterCas, UnregisterState, UnregisterGate, BeginCas,
         BeginFlag, BeginDone, TryFlag, TryCount, TryCas, DeferralAdd, DeferralCheck, DeferralUndo,
         ExitAdded, ExitStore, ExitWait, ExitForce, ExitForward, UserStateCas, AddDeferral,
         SetCallbacksComplete, Step, Jump
    <3>2. Own(c) \/ Nested(c)
      BY <3>1 DEF Own, Nested
    <3> QED
      BY <1>1, <2>1, <3>2, OwnMovesKeep, NestedMovesKeep
  <2>2. CASE Announce(c) \/ BeginDispatch(c) \/ TryDispatch(c) \/ ExitDispatch(c)
    BY <1>1, <2>2, DispatchKeeps
  <2>3. CASE Insert(c) \/ DeactivateRegistration(c) \/ Return(c) \/ UnregisterEnds(c)
    BY <1>1, <2>3, InsertKeeps, DeactivateKeeps, ReturnKeeps, UnregisterEndsKeeps
  <2>4. CASE (\E t \in Tokens : CallBack(c, t)) \/ DispatchLoop(c) \/ DispatchEnds(c)
    BY <1>1, <2>4, CallBackKeeps, DispatchLoopKeeps, DispatchEndsKeeps
  <2> QED
    BY <1>4, <2>1, <2>2, <2>3, <2>4 DEF CallStep, OwnMoves
<1>5. ASSUME NEW c \in Calls, CallbackReturns(c) PROVE SessionFacts'
  BY <1>1, <1>5, CallbackReturnsKeeps
<1>6. ASSUME NEW p \in Callers, Instant(p) PROVE SessionFacts'
  BY <1>6, InstantKeeps
<1>7. ASSUME UNCHANGED vars PROVE SessionFacts'
  BY <1>7, SessionStutter
<1> QED
  BY <1>1, <1>2, <1>3, <1>4, <1>5, <1>6, <1>7 DEF Next, Running, Exited, SessionInv

(* What holds of a session of a title that calls from one thread: where its *)
(* call stands says how the user stands, SIGNOUT_DEFERRALS counts what the  *)
(* title holds, SIGNOUT_CALLBACKS_COMPLETE is false while SigningOut is     *)
(* announced, and each subscriber was last told the user's state unless an  *)
(* announcement is on its way.                                              *)
THEOREM SessionInvariant == OneThread => (Spec => [](SessionInv /\ ExitInv))
<1> SUFFICES ASSUME OneThread PROVE Spec => [](SessionInv /\ ExitInv)
  OBVIOUS
<1>1. Init => SessionInv /\ ExitInv
  BY SessionInvInit
<1>2. SessionInv /\ ExitInv /\ [Next]_vars => (SessionInv /\ ExitInv)'
  BY SessionInvStep
<1> QED
  BY <1>1, <1>2, PTL DEF Spec

(* When every call has returned, the last event each subscriber was given   *)
(* is how the user stands, and a sign-out that goes on waits for a deferral *)
(* the title holds.                                                         *)
THEOREM SettledWhenQuiet == OneThread => (Spec => []QuietMeansSettled)
<1> SUFFICES ASSUME OneThread PROVE Spec => []QuietMeansSettled
  OBVIOUS
<1>1. SessionInv => QuietMeansSettled
  <2> SUFFICES ASSUME SessionInv, Quiet PROVE SubscribersUpToDate /\ NoStuckSignOut
    BY DEF QuietMeansSettled, SubscribersUpToDate, NoStuckSignOut
  <2>1. \A c \in Calls : at[c] = "idle" /\ pc[c] = "idle"
    BY DEF Quiet, SessionInv, SessionFacts, OneChain
  <2>2. SubscribersUpToDate
    BY <2>1 DEF SubscribersUpToDate, SessionInv, SessionFacts, Subscribers, Dispatching, Untold,
       Agrees
  <2>3. NoStuckSignOut
    <3>1. ~Somewhere(Finishing)
      BY <2>1 DEF Somewhere, Finishing
    <3> QED
      BY <3>1 DEF NoStuckSignOut, SessionInv, SessionFacts, UserFacts, LifeInv, LifeTypeOK
  <2> QED
    BY <2>2, <2>3
<1> QED
  BY <1>1, SessionInvariant, PTL

-----------------------------------------------------------------------------
(* What the steps do to the promises.                                       *)

LEMMA CompletesAlone ==
  ASSUME SessionInv, NEW c \in Calls, pc[c] = "try_cas"
  PROVE  SigningOutCalls = {}
<1>1. \A d \in Calls : FactsAt(pc[d], op[d])
  BY DEF SessionInv, SessionFacts, StepFacts
<1>2. at[c] # "idle" /\ ~Dispatching(c)
  BY DEF SessionInv, SessionFacts, OneChain, Subscribers, Resuming
<1>3. CASE Own(c)
  <2>1. Alone(c)
    BY <1>2, <1>3, OwnIsAlone DEF Dispatching
  <2> QED
    BY <2>1 DEF Alone, SigningOutCalls
<1>4. CASE Nested(c)
  <2>1. userState = "SignedOut"
    BY <1>4 DEF SessionInv, SessionFacts, OneChain
  <2> QED
    BY <1>1, <2>1 DEF SigningOutCalls, FactsAt
<1> QED
  BY <1>2, <1>3, <1>4 DEF Own, Nested

(* Only the store to active ends a subscription.                            *)
LEMMA ActiveStays ==
  ASSUME LifeInv, Next, \A c \in Calls : ~DeactivateRegistration(c)
  PROVE  Active \subseteq Active'
<1> USE DEF LifeInv, RegInv, RegTypeOK, userVars, callVars, regVars
<1>1. ASSUME NEW c \in Calls, NEW p \in Callers, CallStart(c, p) PROVE Active' = Active
  <2>1. CASE \E t \in Tokens, w \in BOOLEAN : Unregister(c, p, t, w)
    BY <2>1 DEF Unregister, UnregisterFound, Active
  <2>2. CASE \E o, first : Start(c, p, o, first)
    BY <2>2 DEF Start, Enter, Active
  <2> QED
    BY <1>1, <2>1, <2>2 DEF CallStart, Add, Register, Exit, GetDeferral, CloseDeferral
<1>2. ASSUME NEW c \in Calls, CallStep(c) PROVE Active \subseteq Active'
  <2>1. CASE OwnMoves(c)
    <3>1. UNCHANGED regVars
      BY <2>1 DEF OwnMoves, AddLoad, AddCount, AddGate, AddCas, AddCountAgain, RestoreDeferrals,
         RestoreComplete, RegisterGate, RegisterCas, UnregisterState, UnregisterGate, BeginCas,
         BeginFlag, BeginDone, TryFlag, TryCount, TryCas, DeferralAdd, DeferralCheck, DeferralUndo,
         ExitAdded, ExitStore, ExitWait, ExitForce, ExitForward, UserStateCas, AddDeferral,
         SetCallbacksComplete, Step
    <3> QED
      BY <3>1 DEF Active
  <2>2. CASE \/ Announce(c) \/ BeginDispatch(c) \/ TryDispatch(c) \/ ExitDispatch(c)
             \/ Return(c) \/ DispatchEnds(c) \/ \E t \in Tokens : CallBack(c, t)
    BY <2>2 DEF Announce, BeginDispatch, TryDispatch, ExitDispatch, Dispatch, StartDispatch, Return,
       Leave, DispatchEnds, EndDispatch, CallBack, BeginCallback, Active
  <2>3. CASE Insert(c)
    BY <2>3 DEF Insert, InsertRegistration, Active
  <2>4. CASE UnregisterEnds(c)
    BY <2>4 DEF UnregisterEnds, CheckInFlight, Wake, RemoveRegistration, Goto, Active,
       CallsConsistent
  <2>5. CASE DispatchLoop(c)
    BY <2>5 DEF DispatchLoop, SkipCallback, PruneIdle, Active
  <2> QED
    BY <1>2, <2>1, <2>2, <2>3, <2>4, <2>5 DEF CallStep, OwnMoves
<1>3. ASSUME NEW c \in Calls, CallbackReturns(c) PROVE Active' = Active
  BY <1>3 DEF CallbackReturns, FinishCallback, Active
<1>4. ASSUME NEW p \in Callers, Instant(p) PROVE Active' = Active
  BY <1>4 DEF Instant, DuplicateHandle, ReleaseHandle, ExitUnhooked, UnregisterAbsent,
     UnregisterMissing, Active
<1>5. CASE UNCHANGED vars
  BY <1>5 DEF vars, Active
<1> QED
  BY <1>1, <1>2, <1>3, <1>4, <1>5 DEF Next, Running, Exited

LEMMA LastOneSignsOut ==
  ASSUME SessionInv, Next, Active # {}, Active' = {}, userWasAdded, ~shutdownStarted
  PROVE  userState # "SignedIn"
<1>1. PICK c \in Calls : DeactivateRegistration(c)
  BY ActiveStays DEF SessionInv
<1>2. pc[c] = "deactivate" /\ FactsAt(pc[c], op[c])
  BY <1>1 DEF DeactivateRegistration, Jump, SessionInv, SessionFacts, StepFacts
<1>3. Active = {target[c]}
  BY <1>1 DEF DeactivateRegistration, Deactivate, Active, SessionInv, LifeInv, RegInv, RegTypeOK
<1>4. Cardinality(Active) = 1
  BY <1>3, FS_Singleton
<1> QED
  BY <1>2, <1>4 DEF FactsAt

(* Its one thread never signs the user out while it still tells a           *)
(* subscriber that the user is signing out, and the step that takes the     *)
(* last subscription of a signed-in user away came after SigningOut.        *)
THEOREM SignOutsHeard == OneThread => (Spec => SignOutsAreHeard)
<1> SUFFICES ASSUME OneThread PROVE Spec => SignOutsAreHeard
  OBVIOUS
<1>1. SessionInv => (Completes => SigningOutCalls = {})
  BY CompletesAlone DEF Completes
<1>2. SessionInv /\ [Next]_vars =>
        [Active # {} /\ Active' = {} /\ userWasAdded /\ ~shutdownStarted
           => userState # "SignedIn"]_vars
  BY LastOneSignsOut
<1>3. Spec => SignedOutAfterCallbacks
  BY <1>1, SessionInvariant, PTL DEF SignedOutAfterCallbacks
<1>4. Spec => FinalUnregisterSignsOut
  BY <1>2, SessionInvariant, PTL DEF FinalUnregisterSignsOut, Spec
<1> QED
  BY <1>3, <1>4 DEF SignOutsAreHeard

-----------------------------------------------------------------------------
(* The session of such a title is the one UserSession promises.             *)

SessionStays == UNCHANGED <<userState, userWasAdded, held, shutdownStarted, exited>>

LEMMA StartsAsPromised ==
  ASSUME SessionInv, NEW c \in Calls, NEW p \in Callers, CallStart(c, p)
  PROVE  Session!Next \/ SessionStays
<1> USE DEF SessionStays, userVars, histVars
<1>1. CASE Exit(c, p)
  BY <1>1 DEF Exit, Session!Next, Session!Leave, SessionInv, LifeInv, LifeTypeOK
<1>2. CASE CloseDeferral(c, p)
  BY <1>2 DEF CloseDeferral, Session!Next, Session!Release
<1>3. CASE \/ Add(c, p) \/ Register(c, p) \/ GetDeferral(c, p)
           \/ \E t \in Tokens, w \in BOOLEAN : Unregister(c, p, t, w)
  BY <1>3 DEF Add, Register, GetDeferral, Unregister
<1> QED
  BY <1>1, <1>2, <1>3 DEF CallStart

LEMMA MovesAsPromised ==
  ASSUME SessionInv, ~exited, NEW c \in Calls, OwnMoves(c)
  PROVE  Session!Next \/ SessionStays
<1>1. /\ FactsAt(pc[c], op[c]) /\ held \in Nat /\ deferrals \in Nat
      /\ deferrals = held + (IF Somewhere(Granting) THEN 1 ELSE 0)
      /\ exited \in BOOLEAN
  BY DEF SessionInv, SessionFacts, StepFacts, UserFacts, LifeInv, LifeTypeOK
<1> USE DEF SessionStays, userVars, histVars, Step, Jump, UserStateCas, SetCallbacksComplete,
        AddDeferral, Session!Next
<1>2. CASE AddCount(c) \/ AddCountAgain(c)
  BY <1>1, <1>2 DEF AddCount, AddCountAgain, FactsAt, Session!Add
<1>3. CASE AddCas(c) \/ RegisterCas(c)
  BY <1>1, <1>3 DEF AddCas, RegisterCas, FactsAt, Session!SignInAgain
<1>4. CASE BeginCas(c)
  BY <1>1, <1>4 DEF BeginCas, FactsAt, Session!SignOut
<1>5. CASE TryCas(c)
  <2>1. pc[c] = "try_cas" /\ userState = "SigningOut" => held = 0
    BY <1>1 DEF FactsAt
  <2> QED
    BY <1>5, <2>1 DEF TryCas, Session!Complete
<1>6. CASE DeferralCheck(c)
  BY <1>1, <1>6 DEF DeferralCheck, Session!Defer
<1>7. CASE ExitStore(c)
  BY <1>1, <1>7 DEF ExitStore, FactsAt, Session!LeaveUnused
<1>8. CASE ExitForce(c)
  BY <1>1, <1>8 DEF ExitForce, FactsAt, Session!Complete
<1>9. CASE ExitForward(c)
  BY <1>1, <1>9 DEF ExitForward, FactsAt, Session!Exit
<1>10. CASE \/ AddLoad(c) \/ AddGate(c) \/ RestoreDeferrals(c) \/ RestoreComplete(c)
            \/ RegisterGate(c) \/ UnregisterState(c) \/ UnregisterGate(c) \/ BeginFlag(c)
            \/ BeginDone(c) \/ TryFlag(c) \/ TryCount(c) \/ DeferralAdd(c) \/ DeferralUndo(c)
            \/ ExitAdded(c) \/ ExitWait(c)
  BY <1>10 DEF AddLoad, AddGate, RestoreDeferrals, RestoreComplete, RegisterGate, UnregisterState,
     UnregisterGate, BeginFlag, BeginDone, TryFlag, TryCount, DeferralAdd, DeferralUndo, ExitAdded,
     ExitWait
<1> QED
  BY <1>2, <1>3, <1>4, <1>5, <1>6, <1>7, <1>8, <1>9, <1>10 DEF OwnMoves

LEMMA StepAsPromised ==
  ASSUME SessionInv, Next
  PROVE  Session!Next \/ SessionStays
<1> USE DEF SessionStays, userVars, callVars, histVars
<1>1. CASE \E c \in Calls, p \in Callers : CallStart(c, p)
  BY <1>1, StartsAsPromised
<1>2. ASSUME NEW c \in Calls, CallStep(c), ~exited PROVE Session!Next \/ SessionStays
  <2>1. CASE OwnMoves(c)
    BY <1>2, <2>1, MovesAsPromised
  <2>2. CASE \/ Announce(c) \/ BeginDispatch(c) \/ TryDispatch(c) \/ ExitDispatch(c)
             \/ Insert(c) \/ DeactivateRegistration(c) \/ Return(c) \/ UnregisterEnds(c)
             \/ DispatchLoop(c) \/ DispatchEnds(c) \/ \E t \in Tokens : CallBack(c, t)
    BY <2>2 DEF Announce, BeginDispatch, TryDispatch, ExitDispatch, Dispatch, Insert,
       DeactivateRegistration, Return, UnregisterEnds, DispatchLoop, DispatchEnds, CallBack
  <2> QED
    BY <1>2, <2>1, <2>2 DEF CallStep, OwnMoves
<1>3. ASSUME NEW c \in Calls, CallbackReturns(c) PROVE SessionStays
  BY <1>3 DEF CallbackReturns
<1>4. ASSUME NEW p \in Callers, Instant(p), ~exited PROVE Session!Next \/ SessionStays
  <2>1. CASE ExitUnhooked(p)
    <3>1. ~shutdownStarted
      BY <2>1 DEF ExitUnhooked, SessionInv, SessionFacts, UserFacts
    <3> QED
      BY <1>4, <2>1, <3>1 DEF ExitUnhooked, Session!Next, Session!Exit
  <2>2. CASE DuplicateHandle(p) \/ ReleaseHandle(p) \/ \E t \in Tokens : UnregisterAbsent(p, t)
    BY <2>2 DEF DuplicateHandle, ReleaseHandle, UnregisterAbsent
  <2> QED
    BY <1>4, <2>1, <2>2 DEF Instant
<1>5. CASE UNCHANGED vars
  BY <1>5 DEF vars
<1> QED
  BY <1>1, <1>2, <1>3, <1>4, <1>5 DEF Next, Running, Exited

(* The life cycle keeps what UserSession promises a title: no sign-out is   *)
(* over while a deferral is held, nobody signs in while the process leaves, *)
(* and the process leaves normally only with the user signed out.           *)
THEOREM IsASession == OneThread => (Spec => ImplementsSession)
<1> SUFFICES ASSUME OneThread PROVE Spec => ImplementsSession
  OBVIOUS
<1>1. Init => Session!Init
  BY DEF Init, Session!Init
<1>2. SessionInv /\ [Next]_vars => [Session!Next]_Session!vars
  <2> SUFFICES ASSUME SessionInv, [Next]_vars PROVE [Session!Next]_Session!vars
    OBVIOUS
  <2>1. CASE Next
    BY <2>1, StepAsPromised DEF SessionStays, Session!vars
  <2>2. CASE UNCHANGED vars
    BY <2>2 DEF vars, userVars, histVars, Session!vars
  <2> QED
    BY <2>1, <2>2
<1> QED
  BY <1>1, <1>2, SessionInvariant, PTL DEF Spec, ImplementsSession, Session!Spec
=============================================================================
