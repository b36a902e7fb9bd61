------------------------ MODULE XUserRequests_proofs ------------------------
(***************************************************************************)
(* The hooks of BLoader's components are ready when they come on, for any  *)
(* launcher, any set of components and however many installations fail.    *)
(*                                                                         *)
(* The property is about two tables, MinHook's and the stored originals,   *)
(* and says nothing of the order that keeps them together.  The invariant  *)
(* adds it: the bootstrap installs one component at a time, and none but   *)
(* the first in its list is half installed (OneAtATime); the game's thread *)
(* comes later (GatedLater, ExitLater); the query                          *)
(* hook is the first of all, and is enabled with its session (QueryKnown). *)
(* The second part has the accounts of contexts and handles, the third the *)
(* tokens: what is known of the session at each point of its reception     *)
(* (SessionInv), and of a block by the request it is for (AsAsked).        *)
(***************************************************************************)
EXTENDS XUserRequests, FiniteSetTheorems, SequenceTheorems, WellFoundedInduction, TLAPS

Hooks == [of : Components, live : BOOLEAN]
Stages == {"waiting", "skipped", "created", "stored", "reported", "failed"}
Over == {"skipped", "reported", "failed"}
Bootstrapped == {"query", "capture", "launch", "files", "network"}

HookTypeOK ==
    /\ mode \in {"gated", "attached"}
    /\ table \in Seq(Hooks) /\ stored \in SUBSET Components
    /\ install \in [Components -> Stages]
    /\ todo \in Seq(Bootstrapped)

\* A hook is in the table before its original is stored, never otherwise.
EntriesKnown ==
    \A i \in DOMAIN table : table[i].of \in stored \/ install[table[i].of] = "created"
StoredKnown == \A c \in Components : install[c] = "stored" => c \in stored

\* Half installed: created, and not yet enabled with the rest.
OneAtATime ==
    \A c \in Bootstrapped :
        install[c] \in {"created", "stored"} => todo # <<>> /\ Head(todo) = c
GatedLater == mode = "gated" /\ install["exit"] # "waiting" => todo = <<>>
LiveStored ==
    \A c \in Components : Live(c) =>
        \/ c \in stored
        \/ /\ mode = "attached"
           /\ c = "exit" \/ install["exit"] \in {"reported", "failed"}

HookInv == /\ HookTypeOK /\ EntriesKnown /\ StoredKnown
           /\ OneAtATime /\ GatedLater /\ LiveStored

BridgeTypeOK ==
    /\ launcher \in [package : DOMAIN Packages, pipe : {"none", "open", "closed"}, sent : Nat]
    /\ bridge \in [at : {"connect", "header", "payload", "install", "refused"},
                   read : Nat, candidate : DOMAIN Packages \cup {NoSession}]

CandidateKnown ==
    /\ bridge.at = "install" => bridge.candidate # NoSession
    /\ install["query"] \in {"created", "stored"} => bridge.at = "install"

QueryFirst ==
    /\ install["query"] \notin Over => todo # <<>> /\ Head(todo) = "query"
    /\ \A c \in Components \ {"query", "exit"} :
         install[c] # "waiting" => install["query"] \in Over

\* The title that registers, and so has the exit hook installed, has our XUser.
ExitLater ==
    /\ install["exit"] # "waiting" => "bridge" \in given
    /\ "bridge" \in given => Live("query")

QueryReady == session # NoSession /\ "query" \in stored
QueryKnown ==
    /\ Live("query") => QueryReady
    /\ \A i \in DOMAIN table :
         table[i].of = "query" =>
             /\ install["query"] # "waiting"
             /\ install["query"] \in Over => QueryReady

BridgeInv ==
    HookInv /\ BridgeTypeOK /\ CandidateKnown /\ QueryFirst /\ ExitLater /\ QueryKnown

-----------------------------------------------------------------------------
(* What happens to the tables.                                             *)

\* A new entry is added at the end, off, and the others stay.
LEMMA TableAppended ==
    ASSUME HookTypeOK, NEW c \in Components,
           table' = Append(table, [of |-> c, live |-> FALSE])
    PROVE  /\ table' \in Seq(Hooks)
           /\ \A i \in DOMAIN table : i \in DOMAIN table' /\ table'[i] = table[i]
           /\ \A i \in DOMAIN table' :
                \/ i \in DOMAIN table /\ table'[i] = table[i]
                \/ table'[i] = [of |-> c, live |-> FALSE]
<1>1. [of |-> c, live |-> FALSE] \in Hooks
  BY DEF Hooks
<1>2. table \in Seq(Hooks)
  BY DEF HookTypeOK
<1>3. /\ table' \in Seq(Hooks) /\ Len(table') = Len(table) + 1 /\ Len(table) \in Nat
      /\ \A i \in 1 .. Len(table) : table'[i] = table[i]
      /\ table'[Len(table) + 1] = [of |-> c, live |-> FALSE]
  BY <1>1, <1>2, AppendProperties, LenProperties
<1>4. DOMAIN table = 1 .. Len(table) /\ DOMAIN table' = 1 .. Len(table) + 1
  BY <1>2, <1>3, LenProperties
<1> QED
  BY <1>3, <1>4

LEMMA EntriesOfComponents ==
    ASSUME HookTypeOK PROVE \A i \in DOMAIN table : table[i].of \in Components
<1>1. table \in Seq(Hooks) /\ DOMAIN table = 1 .. Len(table)
  BY LenProperties DEF HookTypeOK
<1>2. \A i \in 1 .. Len(table) : table[i] \in Hooks
  BY <1>1, ElementOfSeq
<1> QED
  BY <1>1, <1>2 DEF Hooks

\* Enabling changes no entry but to make it live, and never turns one off.
LEMMA TableEnabled ==
    ASSUME HookTypeOK, NEW n \in 0 .. Len(table), table' = Enabled(n)
    PROVE  /\ table' \in Seq(Hooks) /\ DOMAIN table' = DOMAIN table
           /\ \A i \in DOMAIN table :
                table'[i].of = table[i].of /\ (table[i].live => table'[i].live)
<1>1. table \in Seq(Hooks) /\ Len(table) \in Nat /\ DOMAIN table = 1 .. Len(table)
  BY LenProperties DEF HookTypeOK
<1>2. \A i \in DOMAIN table : table[i] \in Hooks
  BY <1>1, ElementOfSeq
<1>3. \A i \in DOMAIN table :
        /\ [table[i] EXCEPT !.live = @ \/ i <= n] \in Hooks
        /\ [table[i] EXCEPT !.live = @ \/ i <= n].of = table[i].of
        /\ table[i].live => [table[i] EXCEPT !.live = @ \/ i <= n].live
  BY <1>2 DEF Hooks
<1>4. table' = [i \in 1 .. Len(table) |-> [table[i] EXCEPT !.live = @ \/ i <= n]]
  BY <1>1 DEF Enabled
<1>5. table' \in [1 .. Len(table) -> Hooks]
  BY <1>1, <1>3, <1>4
<1>6. table' \in Seq(Hooks)
  BY <1>1, <1>5, SeqDef
<1> QED
  BY <1>1, <1>3, <1>4, <1>6

\* A component that has come to its end is taken from the head of the list.
LEMMA LeaveEffect ==
    ASSUME HookTypeOK, NEW c \in Components, NEW how \in Stages, Leave(c, how), mode' = mode
    PROVE  /\ install' \in [Components -> Stages] /\ install'[c] = how
           /\ \A d \in Components : d # c => install'[d] = install[d]
           /\ todo' \in Seq(Bootstrapped) /\ (todo = <<>> => todo' = <<>>)
           /\ todo # <<>> /\ Head(todo) # c => todo' = todo
<1>1. install' = [install EXCEPT ![c] = how]
  BY DEF Leave
<1>2. todo' \in Seq(Bootstrapped)
  <2>1. CASE todo # <<>> /\ Head(todo) = c
    BY <2>1, HeadTailProperties DEF HookTypeOK, Leave
  <2>2. CASE ~(todo # <<>> /\ Head(todo) = c)
    BY <2>2 DEF HookTypeOK, Leave
  <2> QED
    BY <2>1, <2>2
<1> QED
  BY <1>1, <1>2 DEF HookTypeOK, Leave

-----------------------------------------------------------------------------
(* The installers keep the order among themselves.                         *)

HookSkip(c) ==
    /\ Turn(c) /\ install[c] = "waiting"
    /\ Leave(c, "skipped") /\ UNCHANGED <<mode, plan, table, stored>>
HookStep(c) == HookSkip(c) \/ Create(c) \/ CreateFails(c) \/ Store(c) \/ Enable(c)

\* Whose turn it is among the bootstrap's own, and when the other threads' is.
LEMMA TurnMeans ==
    ASSUME HookTypeOK, NEW c \in Components, Turn(c)
    PROVE  /\ c \in Bootstrapped => todo # <<>> /\ Head(todo) = c
           /\ mode = "gated" /\ c = "exit" => todo = <<>>
<1>1. todo # <<>> => Head(todo) \in Bootstrapped
  BY HeadTailProperties DEF HookTypeOK
<1> QED
  BY <1>1 DEF HookTypeOK, Turn, GameRuns, Bootstrapped, Components

LEMMA HookInvStep ==
    ASSUME HookInv, NEW c \in Components, HookStep(c)
    PROVE  HookInv'
<1>1. CASE HookSkip(c) \/ CreateFails(c)
  <2>1. PICK how \in Over : Leave(c, how) /\ UNCHANGED <<mode, table, stored>>
    BY <1>1 DEF HookSkip, CreateFails, Over
  <2>2. install[c] = "waiting" /\ Turn(c)
    BY <1>1 DEF HookSkip, CreateFails
  <2>3. how \in Stages
    BY DEF Over, Stages
  <2>4. HookTypeOK'
    BY <2>1, <2>3, LeaveEffect DEF HookInv, HookTypeOK
  <2>5. EntriesKnown' /\ StoredKnown'
    BY <2>1, <2>2, <2>3, LeaveEffect, EntriesOfComponents
    DEF HookInv, EntriesKnown, StoredKnown, Over
  <2>6. OneAtATime'
    BY <2>1, <2>2, <2>3, LeaveEffect DEF HookInv, OneAtATime, Over, Bootstrapped, Components
  <2>7. GatedLater'
    BY <2>1, <2>2, <2>3, LeaveEffect, TurnMeans DEF HookInv, GatedLater, Components
  <2>8. LiveStored'
    <3>1. install["exit"] \in {"reported", "failed"} => install'["exit"] = install["exit"]
      BY <2>1, <2>2, <2>3, LeaveEffect DEF HookInv, Components
    <3> QED
      BY <2>1, <3>1 DEF HookInv, LiveStored, Live
  <2> QED
    BY <2>4, <2>5, <2>6, <2>7, <2>8 DEF HookInv
<1>2. CASE Create(c)
  <2>1. /\ install[c] = "waiting" /\ Turn(c)
        /\ table' = Append(table, [of |-> c, live |-> FALSE])
        /\ install' = [install EXCEPT ![c] = "created"]
        /\ UNCHANGED <<mode, stored, todo>>
    BY <1>2 DEF Create
  <2>2. /\ table' \in Seq(Hooks)
        /\ \A i \in DOMAIN table' :
             \/ i \in DOMAIN table /\ table'[i] = table[i]
             \/ table'[i].of = c /\ ~table'[i].live
    BY <2>1, TableAppended DEF HookInv
  <2>3. HookTypeOK'
    BY <2>1, <2>2 DEF HookInv, HookTypeOK, Stages
  <2>4. EntriesKnown' /\ StoredKnown'
    BY <2>1, <2>2 DEF HookInv, HookTypeOK, EntriesKnown, StoredKnown
  <2>5. OneAtATime'
    BY <2>1, TurnMeans DEF HookInv, HookTypeOK, OneAtATime, Bootstrapped, Components
  <2>6. GatedLater'
    BY <2>1, TurnMeans DEF HookInv, HookTypeOK, GatedLater
  <2>7. LiveStored'
    BY <2>1, <2>2 DEF HookInv, HookTypeOK, LiveStored, Live, Components
  <2> QED
    BY <2>3, <2>4, <2>5, <2>6, <2>7 DEF HookInv
<1>3. CASE Store(c)
  <2>1. /\ install[c] = "created" /\ stored' = stored \cup {c}
        /\ install' = [install EXCEPT ![c] = "stored"]
        /\ UNCHANGED <<mode, table, todo>>
    BY <1>3 DEF Store
  <2>2. HookTypeOK'
    BY <2>1 DEF HookInv, HookTypeOK, Stages
  <2>3. EntriesKnown' /\ StoredKnown' /\ OneAtATime' /\ GatedLater'
    BY <2>1 DEF HookInv, HookTypeOK, EntriesKnown, StoredKnown, OneAtATime, GatedLater
  <2>4. LiveStored'
    BY <2>1 DEF HookInv, HookTypeOK, LiveStored, Live, Components
  <2> QED
    BY <2>2, <2>3, <2>4 DEF HookInv
<1>4. CASE Enable(c)
  <2>1. PICK n \in 0 .. Len(table) : table' = Enabled(n)
    BY <1>4 DEF Enable, EnableAt
  <2>2. PICK how \in {"reported", "failed"} : Leave(c, how)
    BY <1>4 DEF Enable, EnableAt
  <2>3. install[c] = "stored" /\ UNCHANGED <<mode, stored>> /\ how \in Stages
    BY <1>4 DEF Enable, EnableAt, Stages
  <2>4. /\ table' \in Seq(Hooks) /\ DOMAIN table' = DOMAIN table
        /\ \A i \in DOMAIN table : table'[i].of = table[i].of
    BY <2>1, TableEnabled DEF HookInv
  <2>5. HookTypeOK'
    BY <2>2, <2>3, <2>4, LeaveEffect DEF HookInv, HookTypeOK
  <2>6. EntriesKnown' /\ StoredKnown'
    BY <2>2, <2>3, <2>4, LeaveEffect, EntriesOfComponents
    DEF HookInv, EntriesKnown, StoredKnown
  <2>7. OneAtATime'
    BY <2>2, <2>3, LeaveEffect DEF HookInv, OneAtATime, Bootstrapped, Components
  <2>8. GatedLater'
    BY <2>2, <2>3, LeaveEffect DEF HookInv, GatedLater, Components
  <2>9. c = "exit" => mode' = mode /\ install'["exit"] \in {"reported", "failed"}
    BY <2>2, <2>3, LeaveEffect DEF HookInv
  <2>10. ASSUME NEW d \in Components, install[d] = "created", d # "exit"
         PROVE  mode = "attached" /\ c = "exit"
    BY <2>3, <2>10 DEF HookInv, HookTypeOK, OneAtATime, GatedLater, Bootstrapped, Components
  <2>11. install["exit"] = "created" => mode = "attached"
    BY <2>3 DEF HookInv, HookTypeOK, OneAtATime, GatedLater, Bootstrapped, Components
  <2>12. LiveStored'
    <3> SUFFICES ASSUME NEW d \in Components, Live(d)', d \notin stored
                 PROVE  /\ mode = "attached"
                        /\ d = "exit" \/ install'["exit"] \in {"reported", "failed"}
      BY <2>3 DEF LiveStored
    <3>1. PICK i \in DOMAIN table : table[i].of = d
      BY <2>4 DEF Live
    <3>2. install[d] = "created"
      BY <3>1 DEF HookInv, EntriesKnown
    <3> QED
      BY <3>2, <2>9, <2>10, <2>11
  <2> QED
    BY <2>5, <2>6, <2>7, <2>8, <2>12 DEF HookInv
<1> QED
  BY <1>1, <1>2, <1>3, <1>4 DEF HookStep

-----------------------------------------------------------------------------
(* The query hook is the first of the bootstrap's, and comes on with its   *)
(* session; what follows it finds it done.                                 *)

\* While nothing is in the table of the query hook, or after it is done.
LEMMA QuerySettled ==
    ASSUME BridgeInv, NEW c \in Components, c # "query", install[c] # "waiting"
    PROVE  install["query"] \in Over \/ QueryReady
<1>1. CASE c = "exit"
  BY <1>1 DEF BridgeInv, ExitLater, QueryKnown
<1>2. CASE c # "exit"
  BY <1>2 DEF BridgeInv, QueryFirst
<1> QED
  BY <1>1, <1>2

\* The steps of the other installers.
LEMMA InstallerStep ==
    ASSUME BridgeInv, NEW c \in Components, Installer(c)
    PROVE  BridgeInv'
<1>1. c # "query" /\ (c = "exit" => "bridge" \in given)
      /\ UNCHANGED <<launcher, bridge, session, given>>
  BY DEF Installer, bridgeVars
<1>2. HookStep(c)
  BY DEF Installer, HookStep, HookSkip, Skip
<1>3. HookInv'
  BY <1>2, HookInvStep DEF BridgeInv
<1>4. HookTypeOK
  BY DEF BridgeInv, HookInv
<1>5. \A d \in Components : d # c => install'[d] = install[d]
  <2>1. CASE HookSkip(c) \/ CreateFails(c) \/ Enable(c)
    <3>1. PICK how \in Over : Leave(c, how) /\ mode' = mode
      BY <2>1 DEF HookSkip, CreateFails, Enable, EnableAt, Over
    <3> QED
      BY <3>1, <1>4, LeaveEffect DEF Over, Stages
  <2>2. CASE Create(c) \/ Store(c)
    BY <2>2, <1>4 DEF HookTypeOK, Create, Store
  <2> QED
    BY <2>1, <2>2, <1>2 DEF HookStep
<1>6. "query" \in Components /\ "exit" \in Components
  BY DEF Components
<1>7. install'["query"] = install["query"]
  BY <1>1, <1>5, <1>6
<1>8. stored \subseteq stored'
  BY <1>2 DEF HookStep, HookSkip, Create, CreateFails, Store, Enable, EnableAt
<1>9. install["query"] \notin Over => todo' = todo
  <2>1. SUFFICES ASSUME install["query"] \notin Over
                 PROVE  todo' = todo
    OBVIOUS
  <2>2. todo # <<>> /\ Head(todo) # c
    BY <1>1, <2>1 DEF BridgeInv, QueryFirst
  <2> QED
    BY <1>2, <2>2 DEF HookStep, HookSkip, Create, CreateFails, Store, Enable, EnableAt, Leave
<1>10. c # "exit" /\ install[c] = "waiting" => install["query"] \in Over \/ install' = install
  <2>1. SUFFICES ASSUME c # "exit", install[c] = "waiting", install["query"] \notin Over
                 PROVE  install' = install
    OBVIOUS
  <2>2. todo # <<>> /\ Head(todo) # c
    BY <1>1, <2>1 DEF BridgeInv, QueryFirst
  <2>3. ~Turn(c)
    BY <1>1, <1>4, <2>1, <2>2, TurnMeans DEF Bootstrapped, Components
  <2> QED
    BY <1>2, <2>1, <2>3 DEF HookStep, HookSkip, Create, CreateFails, Store, Enable, EnableAt
<1>11. QueryFirst'
  <2>1. ASSUME NEW d \in Components \ {"query", "exit"}, install'[d] # "waiting"
        PROVE  install["query"] \in Over
    <3>1. CASE install[d] # "waiting"
      BY <3>1 DEF BridgeInv, QueryFirst
    <3>2. CASE install[d] = "waiting"
      BY <2>1, <3>2, <1>5, <1>10
    <3> QED
      BY <3>1, <3>2
  <2> QED
    BY <2>1, <1>7, <1>9 DEF BridgeInv, QueryFirst
<1>12. Live("query") => Live("query")'
  <2>1. CASE HookSkip(c) \/ CreateFails(c) \/ Store(c)
    BY <2>1 DEF HookSkip, CreateFails, Store, Live
  <2>2. CASE Create(c)
    BY <2>2, <1>4, TableAppended DEF Create, Live
  <2>3. CASE Enable(c)
    <3>1. PICK n \in 0 .. Len(table) : table' = Enabled(n)
      BY <2>3 DEF Enable, EnableAt
    <3> QED
      BY <3>1, <1>4, TableEnabled DEF Live
  <2> QED
    BY <2>1, <2>2, <2>3, <1>2 DEF HookStep
<1>13. ExitLater'
  BY <1>1, <1>5, <1>6, <1>12 DEF BridgeInv, ExitLater
<1>14. QueryKnown'
  <2>1. QueryReady => QueryReady'
    BY <1>1, <1>8 DEF QueryReady
  <2>2. CASE HookSkip(c) \/ CreateFails(c) \/ Store(c)
    <3>1. table' = table
      BY <2>2 DEF HookSkip, CreateFails, Store
    <3> QED
      BY <3>1, <2>1, <1>7 DEF BridgeInv, QueryKnown, Live
  <2>3. CASE Create(c)
    <3>1. \A i \in DOMAIN table' :
            \/ i \in DOMAIN table /\ table'[i] = table[i]
            \/ table'[i].of = c
      BY <2>3, <1>4, TableAppended DEF Create
    <3> QED
      BY <3>1, <2>1, <1>1, <1>7 DEF BridgeInv, QueryKnown, Live
  <2>4. CASE Enable(c)
    <3>1. PICK n \in 0 .. Len(table) : table' = Enabled(n)
      BY <2>4 DEF Enable, EnableAt
    <3>2. DOMAIN table' = DOMAIN table /\ \A i \in DOMAIN table : table'[i].of = table[i].of
      BY <3>1, <1>4, TableEnabled
    <3>3. install["query"] \in Over \/ QueryReady
      BY <2>4, <1>1, QuerySettled DEF Enable, EnableAt
    <3> QED
      BY <3>2, <3>3, <2>1, <1>7 DEF BridgeInv, QueryKnown, Live
  <2> QED
    BY <2>2, <2>3, <2>4, <1>2 DEF HookStep
<1>15. BridgeTypeOK' /\ CandidateKnown'
  BY <1>1, <1>7 DEF BridgeInv, BridgeTypeOK, CandidateKnown
<1> QED
  BY <1>3, <1>11, <1>13, <1>14, <1>15 DEF BridgeInv

\* The steps of the query hook's own installation.
LEMMA QueryInstallStep ==
    ASSUME BridgeInv, UNCHANGED <<launcher, bridge, session, given>>,
           \/ bridge.at = "install" /\ Create("query")
           \/ CreateFails("query")
           \/ Store("query")
           \/ session # NoSession /\ Enable("query")
    PROVE  BridgeInv'
<1>1. "query" \in Components /\ "query" \in Bootstrapped /\ HookTypeOK
  BY DEF BridgeInv, HookInv, Components, Bootstrapped
<1>2. HookStep("query")
  BY DEF HookStep
<1>3. HookInv'
  BY <1>1, <1>2, HookInvStep DEF BridgeInv
<1>4. stored \subseteq stored'
  BY <1>2 DEF HookStep, HookSkip, Create, CreateFails, Store, Enable, EnableAt
<1>5. install["query"] \in Stages \ Over /\ todo # <<>> /\ Head(todo) = "query"
  <2>1. install["query"] \in {"waiting", "created", "stored"}
    BY DEF Create, CreateFails, Store, Enable, EnableAt
  <2> QED
    BY <2>1 DEF BridgeInv, QueryFirst, Over, Stages
<1>6. \A c \in Components : c # "query" => install'[c] = install[c]
  <2>1. CASE CreateFails("query") \/ Enable("query")
    <3>1. PICK how \in Over : Leave("query", how) /\ mode' = mode
      BY <2>1 DEF CreateFails, Enable, EnableAt, Over
    <3> QED
      BY <3>1, <1>1, LeaveEffect DEF Over, Stages
  <2>2. CASE Create("query") \/ Store("query")
    BY <2>2, <1>1 DEF HookTypeOK, Create, Store
  <2> QED
    BY <2>1, <2>2
<1>7. \A c \in Components \ {"query", "exit"} : install[c] = "waiting"
  BY <1>5 DEF BridgeInv, QueryFirst
<1>8. QueryFirst'
  <2>1. install'["query"] \notin Over => todo' = todo
    <3>1. CASE Create("query") \/ Store("query")
      BY <3>1 DEF Create, Store
    <3>2. CASE CreateFails("query") \/ Enable("query")
      <4>1. PICK how \in Over : Leave("query", how) /\ mode' = mode
        BY <3>2 DEF CreateFails, Enable, EnableAt, Over
      <4>2. how \in Stages
        BY DEF Over, Stages
      <4> QED
        BY <4>1, <4>2, <1>1, LeaveEffect
    <3> QED
      BY <3>1, <3>2
  <2> QED
    BY <2>1, <1>5, <1>6, <1>7 DEF QueryFirst
<1>9. BridgeTypeOK'
  BY DEF BridgeInv, BridgeTypeOK
<1>10. CandidateKnown' /\ ExitLater' /\ QueryKnown'
  <2>1. CASE bridge.at = "install" /\ Create("query")
    <3>1. /\ \A i \in DOMAIN table : i \in DOMAIN table' /\ table'[i] = table[i]
          /\ \A i \in DOMAIN table' :
               \/ i \in DOMAIN table /\ table'[i] = table[i]
               \/ table'[i] = [of |-> "query", live |-> FALSE]
      BY <2>1, <1>1, TableAppended DEF Create
    <3>2. install'["query"] = "created" /\ stored' = stored
      BY <2>1, <1>1 DEF HookTypeOK, Create
    <3>3. Live("query")' <=> Live("query")
      BY <3>1 DEF Live
    <3> QED
      BY <2>1, <3>1, <3>2, <3>3, <1>6
      DEF BridgeInv, CandidateKnown, ExitLater, QueryKnown, QueryReady, Over, Components
  <2>2. CASE CreateFails("query")
    <3>1. table' = table /\ stored' = stored /\ Leave("query", "failed") /\ mode' = mode
          /\ install["query"] = "waiting"
      BY <2>2 DEF CreateFails
    <3>2. install'["query"] = "failed"
      BY <3>1, <1>1, LeaveEffect DEF Stages
    <3> QED
      BY <3>1, <3>2, <1>6
      DEF BridgeInv, CandidateKnown, ExitLater, QueryKnown, QueryReady, Live, Components
  <2>3. CASE Store("query")
    <3>1. install["query"] = "created" /\ install'["query"] = "stored" /\ table' = table
      BY <2>3, <1>1 DEF HookTypeOK, Store
    <3> QED
      BY <3>1, <1>4, <1>6
      DEF BridgeInv, CandidateKnown, ExitLater, QueryKnown, QueryReady, Live, Over, Components
  <2>4. CASE session # NoSession /\ Enable("query")
    <3>1. PICK n \in 0 .. Len(table) : table' = Enabled(n)
      BY <2>4 DEF Enable, EnableAt
    <3>2. PICK how \in {"reported", "failed"} : Leave("query", how)
      BY <2>4 DEF Enable, EnableAt
    <3>3. install'["query"] = how
      BY <2>4, <3>2, <1>1, LeaveEffect DEF Enable, EnableAt, Stages
    <3>4. install["query"] = "stored" /\ stored' = stored
      BY <2>4 DEF Enable, EnableAt
    <3>5. QueryReady'
      BY <2>4, <3>4, <1>1 DEF BridgeInv, HookInv, StoredKnown, QueryReady
    <3>6. Live("query") => Live("query")'
      BY <3>1, <1>1, TableEnabled DEF Live
    <3> QED
      BY <3>3, <3>5, <3>6, <1>6
      DEF BridgeInv, CandidateKnown, ExitLater, QueryKnown, Components
  <2> QED
    BY <2>1, <2>2, <2>3, <2>4
<1> QED
  BY <1>3, <1>8, <1>9, <1>10 DEF BridgeInv

\* Receiving the session, until it is taken or refused.
LEMMA ReceiveStep ==
    ASSUME BridgeInv, Connect \/ Read \/ CheckHeader \/ Parse
    PROVE  BridgeInv'
<1>1. install["query"] = "waiting" /\ Turn("query") /\ bridge.at # "install"
      /\ UNCHANGED <<session, given>>
  BY DEF Connect, Read, CheckHeader, Parse, Receiving
<1>2. BridgeTypeOK'
  <2>1. launcher' = launcher \/ launcher' = [launcher EXCEPT !.pipe = "closed"]
    BY DEF Connect, Read, CheckHeader, Parse, Refuse, Drop, Continue
  <2>2. \/ \E at \in {"header", "payload", "refused"} : bridge' = [bridge EXCEPT !.at = at]
        \/ bridge' = [bridge EXCEPT !.read = @ + 1]
        \/ bridge' = [bridge EXCEPT !.at = "install", !.candidate = launcher.package]
    BY DEF Connect, Read, CheckHeader, Parse, Refuse, Goto
  <2>3. launcher \in [package : DOMAIN Packages, pipe : {"none", "open", "closed"}, sent : Nat]
        /\ bridge \in [at : {"connect", "header", "payload", "install", "refused"},
                       read : Nat, candidate : DOMAIN Packages \cup {NoSession}]
    BY DEF BridgeInv, BridgeTypeOK
  <2>4. launcher' \in [package : DOMAIN Packages, pipe : {"none", "open", "closed"}, sent : Nat]
    BY <2>1, <2>3
  <2>5. bridge.read + 1 \in Nat /\ launcher.package \in DOMAIN Packages
    BY <2>3
  <2>6. bridge' \in [at : {"connect", "header", "payload", "install", "refused"},
                     read : Nat, candidate : DOMAIN Packages \cup {NoSession}]
    BY <2>2, <2>3, <2>5
  <2> QED
    BY <2>4, <2>6 DEF BridgeTypeOK
<1>3. bridge'.at = "install" => bridge'.candidate # NoSession
  BY <1>1, BridgeAssumption
  DEF BridgeInv, BridgeTypeOK, Connect, Read, CheckHeader, Parse, Refuse, Goto, Drop, Continue
<1>4. UNCHANGED hookVars \/ HookSkip("query")
  BY <1>1 DEF Connect, Read, CheckHeader, Parse, Refuse, Continue, HookSkip
<1>5. CASE UNCHANGED hookVars
  <2>1. HookInv'
    BY <1>5 DEF BridgeInv, HookInv, HookTypeOK, EntriesKnown, StoredKnown, OneAtATime,
                GatedLater, LiveStored, Live, Bootstrapped, hookVars
  <2> QED
    BY <2>1, <1>1, <1>2, <1>3, <1>5
    DEF BridgeInv, CandidateKnown, QueryFirst, ExitLater, QueryKnown, QueryReady, Live, hookVars
<1>6. CASE HookSkip("query")
  <2>1. "query" \in Components /\ "exit" \in Components /\ HookTypeOK
    BY DEF BridgeInv, HookInv, Components
  <2>2. HookInv'
    BY <1>6, <2>1, HookInvStep DEF BridgeInv, HookStep
  <2>3. Leave("query", "skipped") /\ UNCHANGED <<mode, table, stored>>
    BY <1>6 DEF HookSkip
  <2>4. /\ install'["query"] = "skipped"
        /\ \A c \in Components : c # "query" => install'[c] = install[c]
    BY <2>1, <2>3, LeaveEffect DEF Stages
  <2>5. CandidateKnown' /\ QueryFirst'
    BY <1>3, <2>4 DEF CandidateKnown, QueryFirst, Over
  <2>6. ExitLater' /\ QueryKnown'
    BY <1>1, <2>1, <2>3, <2>4 DEF BridgeInv, ExitLater, QueryKnown, QueryReady, Live
  <2> QED
    BY <1>2, <2>2, <2>5, <2>6 DEF BridgeInv
<1> QED
  BY <1>4, <1>5, <1>6

\* What leaves the hooks alone.
LEMMA AloneStep ==
    ASSUME BridgeInv, UNCHANGED hookVars,
           \/ Serve \/ Send \/ Close \/ Tick \/ SetSession \/ AskForUser
           \/ UNCHANGED bridgeVars
    PROVE  BridgeInv'
<1>1. HookInv'
  BY DEF BridgeInv, HookInv, HookTypeOK, EntriesKnown, StoredKnown, OneAtATime,
         GatedLater, LiveStored, Live, Bootstrapped, hookVars
<1>2. BridgeTypeOK'
  BY DEF BridgeInv, BridgeTypeOK, Serve, Send, Close, Tick, SetSession, AskForUser, bridgeVars
<1>3. CandidateKnown' /\ QueryFirst'
  BY DEF BridgeInv, CandidateKnown, QueryFirst, Serve, Send, Close, Tick, SetSession,
         AskForUser, bridgeVars, hookVars
<1>4. session # NoSession => session' # NoSession
  BY DEF Serve, Send, Close, Tick, SetSession, AskForUser, bridgeVars
<1>5. QueryKnown'
  BY <1>4 DEF BridgeInv, QueryKnown, QueryReady, Live, hookVars
<1>6. "bridge" \in given' => "bridge" \in given \/ Live("query")
  BY DEF Serve, Send, Close, Tick, SetSession, AskForUser, Provider, bridgeVars
<1>7. given \subseteq given'
  BY DEF Serve, Send, Close, Tick, SetSession, AskForUser, bridgeVars
<1>8. ExitLater'
  BY <1>6, <1>7 DEF BridgeInv, ExitLater, Live, hookVars
<1> QED
  BY <1>1, <1>2, <1>3, <1>5, <1>8 DEF BridgeInv

-----------------------------------------------------------------------------
LEMMA BridgeInvInit == Init => BridgeInv
<1> SUFFICES ASSUME Init PROVE BridgeInv
  OBVIOUS
<1>1. /\ mode \in {"gated", "attached"} /\ table = <<>> /\ stored = {}
      /\ install = [c \in Components |-> "waiting"]
      /\ todo = <<"query", "capture", "launch", "files", "network">>
  BY InstallsAssumption DEF Init, BridgeInit, HookInit
<1>2. todo \in Seq(Bootstrapped) /\ todo # <<>> /\ Head(todo) = "query"
  BY <1>1 DEF Bootstrapped
<1>3. table \in Seq(Hooks) /\ DOMAIN table = {}
  BY <1>1
<1>4. HookInv
  BY <1>1, <1>2, <1>3 DEF HookInv, HookTypeOK, EntriesKnown, StoredKnown, OneAtATime,
     GatedLater, LiveStored, Live, Stages, Bootstrapped, Components
<1>5. BridgeTypeOK
  BY DEF Init, BridgeInit, BridgeTypeOK
<1>6. CandidateKnown /\ QueryFirst /\ ExitLater /\ QueryKnown
  BY <1>1, <1>2, <1>3 DEF Init, BridgeInit, CandidateKnown, QueryFirst, ExitLater, QueryKnown,
     Over, Live, Components
<1> QED
  BY <1>4, <1>5, <1>6 DEF BridgeInv

LEMMA BridgeInvStep == BridgeInv /\ [Next]_vars => BridgeInv'
<1> SUFFICES ASSUME BridgeInv, [Next]_vars
             PROVE  BridgeInv'
  OBVIOUS
<1>1. CASE BridgeNext
  <2>1. CASE \E c \in Components : Installer(c)
    BY <2>1, InstallerStep
  <2>2. CASE CreateQuery
    BY <2>2, QueryInstallStep DEF CreateQuery, bridgeVars
  <2>3. CASE SetOriginal
    BY <2>3, QueryInstallStep DEF SetOriginal, bridgeVars
  <2>4. CASE EnableQuery
    BY <2>4, QueryInstallStep DEF EnableQuery, bridgeVars
  <2>5. CASE Connect \/ Read \/ CheckHeader \/ Parse
    BY <2>5, ReceiveStep
  <2>6. CASE Serve \/ Send \/ Close \/ Tick \/ SetSession \/ AskForUser
    BY <2>6, AloneStep DEF Serve, Send, Close, Tick, SetSession, AskForUser
  <2> QED
    BY <1>1, <2>1, <2>2, <2>3, <2>4, <2>5, <2>6 DEF BridgeNext
<1>2. CASE ~BridgeNext
  <2>1. UNCHANGED <<hookVars, bridgeVars>>
    <3>1. CASE UNCHANGED vars
      BY <3>1 DEF vars
    <3>2. CASE Next
      BY <1>2, <3>2 DEF Next, BridgeStep, AddAsync, GetTokenAsync, Begin, XAsyncBegin,
         QueueEnded, DoWork, AddResult, AnsiResult, Utf16Result, TokenResult, Cleanup,
         AnotherHandle, CloseHandle, SessionStep, Elsewhere
    <3> QED
      BY <3>1, <3>2
  <2> QED
    BY <2>1, AloneStep
<1> QED
  BY <1>1, <1>2

\* The installation is in order at every moment: types, who is half installed,
\* and what the query hook has when it is live.
THEOREM BridgeInvariant == Spec => []BridgeInv
  BY BridgeInvInit, BridgeInvStep, PTL DEF Spec

\* No hook is live before its component has stored what it replaces, whatever
\* the others enable and whichever installations fail, but in a process that
\* BLoader came to late: there the exit hook, which looks first, and whatever
\* is half installed when a thread of the game enables the exit hook.  A query
\* hook is live only with its session and its original (LiveHooksReady).
THEOREM HooksComeOnReady == Spec => []LiveHooksReady
<1>1. BridgeInv => LiveHooksReady
  BY DEF BridgeInv, HookInv, LiveStored, QueryKnown, QueryReady, LiveHooksReady,
         LooksFirst, Bootstrapped, Components
<1> QED
  BY <1>1, BridgeInvariant, PTL

-----------------------------------------------------------------------------
(* Contexts and handles.  For the induction a block's record has the       *)
(* two fields, and the numbers are numbers.                                *)

Fields(r) == {"phase", "context"} \subseteq DOMAIN r
InHand(r) == Fields(r) /\ r.context = IF r.phase = "free" THEN "none" ELSE "live"

LeakInv ==
    /\ DOMAIN block = Blocks /\ block = [b \in Blocks |-> block[b]]
    /\ \A b \in Blocks : InHand(block[b])
    /\ handleCount \in Nat /\ handles \in Nat
    /\ HandlesCounted

LEMMA BlockBecomes ==
    ASSUME LeakInv, NEW b \in Blocks, NEW r, InHand(r), Becomes(b, r)
    PROVE  /\ DOMAIN block' = Blocks /\ block' = [c \in Blocks |-> block'[c]]
           /\ \A c \in Blocks : InHand(block'[c])
  BY DEF Becomes, LeakInv

LEMMA FreeInHand == InHand(Free)
  BY DEF InHand, Fields, Free

LEMMA BegunInHand ==
    ASSUME NEW r, Fields(r)
    PROVE  InHand([r EXCEPT !.phase = "beginning", !.context = "live"])
  BY DEF InHand, Fields

\* What a request's own steps make of its block.
LEMMA RequestStep ==
    ASSUME LeakInv, NEW b \in Blocks,
           \/ AddAsync(b) \/ (\E name \in DOMAIN Requests : GetTokenAsync(b, name))
           \/ XAsyncBegin(b) \/ QueueEnded(b) \/ DoWork(b)
           \/ AddResult(b) \/ AnsiResult(b) \/ Utf16Result(b) \/ Cleanup(b)
    PROVE  \E r : InHand(r) /\ Becomes(b, r)
<1>1. InHand(block[b])
  BY DEF LeakInv
<1>2. CASE AddAsync(b)
  <2>1. Becomes(b, [[Free EXCEPT !.identity = "XUserAdd"]
                        EXCEPT !.phase = "beginning", !.context = "live"])
    BY <1>2 DEF AddAsync, Begin
  <2>2. Fields([Free EXCEPT !.identity = "XUserAdd"])
    BY DEF Fields, Free
  <2> QED
    BY <2>1, <2>2, BegunInHand
<1>3. CASE \E name \in DOMAIN Requests : GetTokenAsync(b, name)
  <2>1. PICK name \in DOMAIN Requests : GetTokenAsync(b, name)
    BY <1>3
  <2> DEFINE fields == [Free EXCEPT !.identity = TokenIdentity(Requests[name].utf16),
                                    !.request = name, !.asked = now,
                                    !.token = TokenOf(Requests[name])]
  <2>2. Becomes(b, [fields EXCEPT !.phase = "beginning", !.context = "live"])
    BY <2>1 DEF GetTokenAsync, Begin
  <2>3. Fields(fields)
    BY DEF Fields, Free
  <2> QED
    BY <2>2, <2>3, BegunInHand
<1>4. CASE XAsyncBegin(b)
  <2>1. InHand([block[b] EXCEPT !.phase = "queued"])
        /\ InHand([block[b] EXCEPT !.phase = "completed", !.status = "failed"])
    BY <1>1, <1>4 DEF InHand, Fields, XAsyncBegin
  <2> QED
    BY <1>4, <2>1, FreeInHand DEF XAsyncBegin, NotTaken, Taken
<1>5. CASE QueueEnded(b)
  <2>1. InHand([block[b] EXCEPT !.phase = "completed", !.status = "aborted"])
    BY <1>1, <1>5 DEF InHand, Fields, QueueEnded
  <2> QED
    BY <1>5, <2>1 DEF QueueEnded
<1>6. CASE DoWork(b)
  <2>1. InHand([block[b] EXCEPT !.phase = "completed", !.status = "ok"])
    BY <1>1, <1>6 DEF InHand, Fields, DoWork
  <2>2. ASSUME NEW signature, NEW status
        PROVE  InHand([block[b] EXCEPT !.phase = "completed", !.signature = signature,
                                       !.status = status])
    BY <1>1, <1>6 DEF InHand, Fields, DoWork
  <2> QED
    BY <1>6, <2>1, <2>2 DEF DoWork
<1>7. CASE AddResult(b)
  <2>1. InHand([block[b] EXCEPT !.claimed = TRUE, !.result = "user"])
    BY <1>1 DEF InHand, Fields
  <2> QED
    BY <1>7, <2>1 DEF AddResult
<1>8. CASE AnsiResult(b) \/ Utf16Result(b)
  <2>1. InHand([block[b] EXCEPT !.result = [token |-> block[b].token,
                                            signature |-> block[b].signature]])
    BY <1>1 DEF InHand, Fields
  <2> QED
    BY <1>8, <2>1 DEF AnsiResult, Utf16Result, TokenResult
<1>9. CASE Cleanup(b)
  BY <1>9, FreeInHand DEF Cleanup
<1> QED
  BY <1>2, <1>3, <1>4, <1>5, <1>6, <1>7, <1>8, <1>9

\* The steps that take handles, give them back, or leave them alone.
LEMMA HandlesStep ==
    ASSUME LeakInv, [Next]_vars
    PROVE  handleCount' \in Nat /\ handles' \in Nat /\ HandlesCounted'
<1>1. CASE UNCHANGED handleVars
  BY <1>1 DEF LeakInv, HandlesCounted, handleVars
<1>2. CASE Acquire /\ handles' = handles + 1
  BY <1>2 DEF LeakInv, HandlesCounted, Acquire
<1>3. CASE AnotherHandle
  <2>1. handleCount' = handleCount + 1 /\ handles' = handles + 1 /\ again' = again
    BY <1>3 DEF AnotherHandle
  <2> QED
    BY <2>1 DEF LeakInv, HandlesCounted
<1>4. CASE CloseHandle
  BY <1>4 DEF LeakInv, HandlesCounted, CloseHandle
<1>5. ASSUME NEW b \in Blocks, AddResult(b)
      PROVE  UNCHANGED handleVars \/ (Acquire /\ handles' = handles + 1)
  BY <1>5 DEF AddResult, handleVars
<1>6. CASE BridgeStep \/ SessionStep \/ UNCHANGED vars
  BY <1>1, <1>6 DEF BridgeStep, SessionStep, vars
<1>7. ASSUME NEW b \in Blocks,
             \/ AddAsync(b) \/ (\E name \in DOMAIN Requests : GetTokenAsync(b, name))
             \/ XAsyncBegin(b) \/ QueueEnded(b) \/ DoWork(b)
             \/ AnsiResult(b) \/ Utf16Result(b) \/ Cleanup(b)
      PROVE  UNCHANGED handleVars
  BY <1>7 DEF AddAsync, GetTokenAsync, Begin, XAsyncBegin, QueueEnded, DoWork,
     AnsiResult, Utf16Result, TokenResult, Cleanup
<1> QED
  BY <1>1, <1>2, <1>3, <1>4, <1>5, <1>6, <1>7 DEF Next

LEMMA LeakInvInit == Init => LeakInv
  BY FreeInHand DEF Init, LeakInv, HandlesCounted

LEMMA LeakInvStep == LeakInv /\ [Next]_vars => LeakInv'
<1> SUFFICES ASSUME LeakInv, [Next]_vars
             PROVE  LeakInv'
  OBVIOUS
<1>1. /\ DOMAIN block' = Blocks /\ block' = [c \in Blocks |-> block'[c]]
      /\ \A c \in Blocks : InHand(block'[c])
  <2>1. CASE UNCHANGED block
    BY <2>1 DEF LeakInv
  <2>2. ASSUME NEW b \in Blocks, NEW r, InHand(r), Becomes(b, r)
        PROVE  <1>1
    BY <2>2, BlockBecomes
  <2>3. CASE BridgeStep \/ AnotherHandle \/ CloseHandle \/ SessionStep \/ UNCHANGED vars
    BY <2>1, <2>3 DEF BridgeStep, AnotherHandle, CloseHandle, SessionStep, requestVars, vars
  <2> QED
    BY <2>2, <2>3, RequestStep DEF Next
<1> QED
  BY <1>1, HandlesStep DEF LeakInv

\* Contexts and handles come out even for any number of blocks, requests and
\* handles, wherever a request fails and however often a result is asked for
\* (NothingLeaks).
THEOREM NothingIsLeaked == Spec => []NothingLeaks
<1>1. LeakInv => NothingLeaks
  BY DEF LeakInv, InHand, NothingLeaks, ContextsDroppedOnce
<1> QED
  BY <1>1, LeakInvInit, LeakInvStep, PTL DEF Spec

-----------------------------------------------------------------------------
(* The tokens: what TokenRules' operators return, for any request.  A set  *)
(* of numbers that has 0 and with each number the next one has them all;   *)
(* by this the names of CallerHeaders are there, and are counted.          *)

LEMMA CountingUp ==
    ASSUME NEW L \in Nat, NEW T \in SUBSET (0 .. L), 0 \in T,
           \A n \in 1 .. L : n - 1 \in T => n \in T
    PROVE  T = 0 .. L
<1> DEFINE Less == {pair \in Nat \X Nat : pair[1] < pair[2]}
           Missing == (0 .. L) \ T
<1> SUFFICES ASSUME Missing # {} PROVE FALSE
  OBVIOUS
<1>1. IsWellFoundedOn(Less, Nat)
  BY NatLessThanWellFounded DEF OpToRel
<1>2. Missing \subseteq Nat
  OBVIOUS
<1> HIDE DEF Less
<1>3. PICK n \in Missing : \A m \in Missing : ~ (<<m, n>> \in Less)
  <2> HIDE DEF Missing
  <2> QED
    BY <1>1, <1>2, WFMin, Zenon
<1>4. n \in 1 .. L /\ n - 1 \in Nat /\ n - 1 < n /\ n - 1 \in Missing
  BY <1>3
<1>5. <<n - 1, n>> \in Less
  BY <1>4 DEF Less
<1> QED
  BY <1>3, <1>4, <1>5

\* caller_headers keeps as many names as the headers have different ones that
\* the transport does not set.
LEMMA CallerNames ==
    ASSUME NEW h, NEW L \in Nat, Len(h) = L,
           \A i \in 1 .. L : h[i].name \in HeaderNames
    PROVE  /\ CallerHeaders(h) \in Seq(HeaderNames)
           /\ Len(CallerHeaders(h)) = Cardinality({h[i].name : i \in 1 .. L} \ Transport)
<1> DEFINE Named(i) == h[i].name
           First(i) == \A j \in 1..(i - 1) : Named(j) # Named(i)
           names[n \in 0..Len(h)] ==
              IF n = 0 THEN <<>>
              ELSE IF Named(n) \notin Transport /\ First(n) THEN Append(names[n - 1], Named(n))
              ELSE names[n - 1]
           To(n) == {Named(i) : i \in 1 .. n} \ Transport
           Step(g, n) == IF n = 0 THEN <<>>
                         ELSE IF Named(n) \notin Transport /\ First(n)
                              THEN Append(g[n - 1], Named(n))
                              ELSE g[n - 1]
           Names == Seq(HeaderNames)
           Good == {n \in 0 .. L : \E g \in [0 .. n -> Names] :
                                     \A m \in 0 .. n : g[m] = Step(g, m)}
           Counted == {n \in 0 .. L : /\ names[n] \in Names
                                      /\ IsFiniteSet(To(n))
                                      /\ Len(names[n]) = Cardinality(To(n))}
<1>1. CallerHeaders(h) = names[L]
  BY DEF CallerHeaders
<1>2. Good = 0 .. L
  <2>1. 0 \in Good
    <3> DEFINE g == [m \in 0 .. 0 |-> <<>>]
    <3>1. g \in [0 .. 0 -> Names] /\ \A m \in 0 .. 0 : g[m] = Step(g, m)
      OBVIOUS
    <3> HIDE DEF g, Step, Names
    <3>2. 0 \in 0 .. L
      OBVIOUS
    <3> QED
      BY <3>1, <3>2
  <2>2. ASSUME NEW n \in 1 .. L, n - 1 \in Good
        PROVE  n \in Good
    <3>1. PICK g \in [0 .. n - 1 -> Names] : \A m \in 0 .. n - 1 : g[m] = Step(g, m)
      BY <2>2
    <3> DEFINE e == Step(g, n)
               f == [m \in 0 .. n |-> IF m = n THEN e ELSE g[m]]
    <3>2. n - 1 \in 0 .. n - 1 /\ n # 0 /\ Named(n) \in HeaderNames
      OBVIOUS
    <3>3. g[n - 1] \in Names
      BY <3>1, <3>2
    <3>4. e \in Names
      BY <3>2, <3>3, AppendProperties
    <3>5. f \in [0 .. n -> Names]
      <4> HIDE DEF e, Names
      <4> QED
        BY <3>1, <3>4
    <3>6. f[n] = Step(f, n)
      <4>1. f[n - 1] = g[n - 1]
        BY <3>2
      <4>2. f[n] = Step(g, n)
        BY <3>2
      <4> HIDE DEF f
      <4> QED
        BY <4>1, <4>2, <3>2
    <3>7. ASSUME NEW m \in 0 .. n - 1
          PROVE  f[m] = Step(f, m)
      <4>1. f[m] = g[m] /\ (m # 0 => f[m - 1] = g[m - 1])
        OBVIOUS
      <4>2. g[m] = Step(g, m)
        BY <3>1
      <4> HIDE DEF f
      <4> QED
        BY <4>1, <4>2
    <3> HIDE DEF f, Step, Names
    <3>8. \A m \in 0 .. n : f[m] = Step(f, m)
      BY <3>6, <3>7
    <3> QED
      BY <3>5, <3>8
  <2>3. Good \in SUBSET (0 .. L)
    OBVIOUS
  <2> HIDE DEF Good
  <2> QED
    BY <2>1, <2>2, <2>3, CountingUp
<1>3. \E f : f = [n \in 0 .. L |-> Step(f, n)]
  <2>1. L \in Good
    <3> HIDE DEF Good
    <3> QED
      BY <1>2
  <2>2. PICK g \in [0 .. L -> Names] : \A m \in 0 .. L : g[m] = Step(g, m)
    BY <2>1
  <2> HIDE DEF Step
  <2>3. g = [n \in 0 .. L |-> Step(g, n)]
    BY <2>2
  <2> QED
    BY <2>3
<1>4. names = [n \in 0 .. L |-> Step(names, n)]
  BY <1>3
<1>5. \A n \in 0 .. L : names[n] = Step(names, n)
  <2> HIDE DEF names, Step
  <2> QED
    BY <1>4
<1> HIDE DEF names
<1>6. Counted = 0 .. L
  <2>1. 0 \in Counted
    <3>1. names[0] = <<>> /\ To(0) = {}
      BY <1>5
    <3>2. <<>> \in Names /\ Len(<<>>) = 0 /\ 0 \in 0 .. L
      OBVIOUS
    <3> HIDE DEF To, Names
    <3> QED
      BY <3>1, <3>2, FS_EmptySet
  <2>2. ASSUME NEW n \in 1 .. L, n - 1 \in Counted
        PROVE  n \in Counted
    <3>1. /\ names[n - 1] \in Names /\ IsFiniteSet(To(n - 1))
          /\ Len(names[n - 1]) = Cardinality(To(n - 1))
      BY <2>2
    <3>2. names[n] = Step(names, n) /\ Named(n) \in HeaderNames /\ n # 0
      BY <1>5
    <3>3. CASE Named(n) \notin Transport /\ First(n)
      <4>1. names[n] = Append(names[n - 1], Named(n))
        BY <3>2, <3>3
      <4>2. To(n) = To(n - 1) \cup {Named(n)} /\ Named(n) \notin To(n - 1)
        BY <3>3
      <4> HIDE DEF To, Named
      <4>3. IsFiniteSet(To(n)) /\ Cardinality(To(n)) = Cardinality(To(n - 1)) + 1
        <5>1. IsFiniteSet(To(n - 1) \cup {Named(n)})
          BY <3>1, FS_AddElement
        <5>2. Cardinality(To(n - 1) \cup {Named(n)}) = Cardinality(To(n - 1)) + 1
          BY <3>1, <4>2, FS_AddElement
        <5> QED
          BY <4>2, <5>1, <5>2
      <4>4. names[n] \in Names /\ Len(names[n]) = Len(names[n - 1]) + 1
        BY <3>1, <3>2, <4>1, AppendProperties
      <4> QED
        BY <3>1, <4>3, <4>4
    <3>4. CASE ~(Named(n) \notin Transport /\ First(n))
      <4>1. names[n] = names[n - 1]
        BY <3>2, <3>4
      <4>2. To(n) = To(n - 1)
        <5>1. CASE Named(n) \in Transport
          BY <5>1
        <5>2. CASE ~First(n)
          BY <5>2
        <5> QED
          BY <3>4, <5>1, <5>2
      <4> HIDE DEF To, Names
      <4> QED
        BY <3>1, <4>1, <4>2
    <3> QED
      BY <3>3, <3>4
  <2>3. Counted \in SUBSET (0 .. L)
    OBVIOUS
  <2> HIDE DEF Counted
  <2> QED
    BY <2>1, <2>2, <2>3, CountingUp
<1>7. L \in Counted
  BY <1>6
<1> QED
  BY <1>1, <1>7
\* Nothing is wrong when each of the five checks says so.
LEMMA AllFine ==
    ASSUME NEW a, NEW b, NEW c, NEW d, NEW e
    PROVE  FirstOf(<<a, b, c, d>> \o <<e>>) = Fine
             <=> a = Fine /\ b = Fine /\ c = Fine /\ d = Fine /\ e = Fine
<1> DEFINE s == <<a, b, c, d>> \o <<e>>
<1>1. /\ DOMAIN s = 1 .. 5
      /\ s[1] = a /\ s[2] = b /\ s[3] = c /\ s[4] = d /\ s[5] = e
  OBVIOUS
<1> HIDE DEF s
<1>2. (\A i \in DOMAIN s : s[i] = Fine) <=>
         (a = Fine /\ b = Fine /\ c = Fine /\ d = Fine /\ e = Fine)
  BY <1>1
<1>3. ASSUME NEW i \in DOMAIN s, s[i] # Fine
      PROVE  FirstOf(s) # Fine
  <2>1. \E j \in DOMAIN s : s[j] # Fine /\ \A k \in 1 .. (j - 1) : s[k] = Fine
    <3>1. CASE s[1] # Fine
      BY <1>1, <3>1
    <3>2. CASE s[1] = Fine /\ s[2] # Fine
      BY <1>1, <3>2
    <3>3. CASE s[1] = Fine /\ s[2] = Fine /\ s[3] # Fine
      BY <1>1, <3>3
    <3>4. CASE s[1] = Fine /\ s[2] = Fine /\ s[3] = Fine /\ s[4] # Fine
      BY <1>1, <3>4
    <3>5. CASE s[1] = Fine /\ s[2] = Fine /\ s[3] = Fine /\ s[4] = Fine
      <4>1. i = 5
        BY <1>1, <1>3, <3>5
      <4> QED
        BY <1>1, <1>3, <3>5, <4>1
    <3> QED
      BY <3>1, <3>2, <3>3, <3>4, <3>5
  <2> QED
    BY <1>3, <2>1 DEF FirstOf
<1>4. FirstOf(s) = Fine <=> \A i \in DOMAIN s : s[i] = Fine
  BY <1>3 DEF FirstOf
<1> QED
  BY <1>2, <1>4 DEF s

\* What a request that is not refused is like.
Accepted(r, utf16) ==
    /\ Len(r.headers) <= Limits["headers"] /\ Valid(r.headers)
    /\ r.method.there /\ r.method.length <= Limits["method"] /\ r.method.ascii
    /\ r.url.there /\ r.url.length <= Limits["url"] /\ r.url.ascii
    /\ utf16 => /\ r.method.length < Limits["units"] /\ r.url.length < Limits["units"]
    /\ r.options /\ r.body <= Limits["body"]
    /\ r.method.length > 0 /\ r.url.length > 0

LEMMA RefusalMeans ==
    ASSUME NEW r \in TokenRequests
    PROVE  Refusal(r) = Fine <=> Accepted(r, r.utf16)
<1>1. CASE r.utf16
  <2>1. Refusal(r) = FirstOf(Utf16Checks(r) \o CommonChecks(r))
    BY <1>1 DEF Refusal
  <2> QED
    BY <1>1, <2>1, AllFine DEF Utf16Checks, CommonChecks, Utf16Text, Unless, Fine, Accepted
<1>2. CASE ~r.utf16
  <2>1. Refusal(r) = FirstOf(AnsiChecks(r) \o CommonChecks(r))
    BY <1>2 DEF Refusal
  <2> QED
    BY <1>2, <2>1, AllFine DEF AnsiChecks, CommonChecks, AnsiText, Unless, Fine, Accepted
<1> QED
  BY <1>1, <1>2

LEMMA OtherTakesIt ==
    ASSUME NEW r \in TokenRequests, Refusal(r) = Fine
    PROVE  Refusal([r EXCEPT !.utf16 = ~@]) = Fine \/ r.url.length = Limits["units"]
<1> DEFINE o == [r EXCEPT !.utf16 = ~@]
<1>1. /\ o \in TokenRequests
      /\ o.utf16 = ~r.utf16 /\ o.options = r.options /\ o.method = r.method
      /\ o.url = r.url /\ o.headers = r.headers /\ o.body = r.body
  BY DEF TokenRequests
<1>2. r.method.length \in Nat /\ r.url.length \in Nat /\ r.utf16 \in BOOLEAN
  BY DEF TokenRequests
<1>3. Accepted(r, r.utf16)
  BY RefusalMeans
<1> HIDE DEF o
<1>4. r.url.length # Limits["units"] => Accepted(o, o.utf16)
  BY <1>1, <1>2, <1>3, TokenRulesAssumption DEF Accepted
<1> QED
  BY <1>1, <1>4, RefusalMeans DEF o

\* As many values are signed as the service checks headers.
LEMMA SignsWhatIsChecked ==
    ASSUME NEW r \in TokenRequests
    PROVE  Len(Covered(r).values) = Cardinality(Checked(r))
<1> DEFINE h == Copied(r.headers)
           names == Policy(r.url.host, h).names
           L == Len(r.headers)
<1>1. /\ L \in Nat /\ DOMAIN r.headers = 1 .. L
      /\ \A i \in 1 .. L : r.headers[i] \in [name : HeaderNames, value : Values]
      /\ r.url.host \in Hosts
  <2>1. r.headers \in Seq([name : HeaderNames, value : Values])
    BY DEF TokenRequests
  <2> QED
    BY <2>1, LenProperties, ElementOfSeq DEF TokenRequests
<1>2. /\ h = [i \in 1 .. L |-> [r.headers[i] EXCEPT !.name = LowerCase[@]]]
      /\ \A i \in 1 .. L : h[i].name = LowerCase[r.headers[i].name] /\ h[i].name \in HeaderNames
  BY <1>1, TokenRulesAssumption DEF Copied
<1>3. Len(h) = L
  BY <1>1, <1>2
<1>4. Covered(r).values = PolicyValues(h, names)
  BY DEF Covered
<1>5. CASE r.url.host \in {"device", "xboxlive", "licensing"}
  <2>1. names = <<>>
    BY <1>5 DEF Policy
  <2>2. Len(PolicyValues(h, <<>>)) = 0
    BY DEF PolicyValues
  <2> QED
    BY <1>4, <1>5, <2>1, <2>2, FS_EmptySet DEF Checked
<1>6. CASE r.url.host \notin {"device", "xboxlive", "licensing"}
  <2>1. names = CallerHeaders(h)
    BY <1>6 DEF Policy
  <2> HIDE DEF h, names
  <2>2. /\ names \in Seq(HeaderNames)
        /\ Len(names) = Cardinality({h[i].name : i \in 1 .. L} \ Transport)
    <3> HIDE DEF L
    <3>1. L \in Nat /\ \A i \in 1 .. L : h[i].name \in HeaderNames
      BY <1>1, <1>2
    <3>2. /\ CallerHeaders(h) \in Seq(HeaderNames)
          /\ Len(CallerHeaders(h)) = Cardinality({h[i].name : i \in 1 .. L} \ Transport)
      BY <1>3, <3>1, CallerNames
    <3> QED
      BY <2>1, <3>2
  <2>3. {h[i].name : i \in 1 .. L} = {LowerCase[r.headers[i].name] : i \in DOMAIN r.headers}
    BY <1>1, <1>2
  <2>4. Len(PolicyValues(h, names)) = Len(names)
    <3>1. DOMAIN names = 1 .. Len(names) /\ Len(names) \in Nat
      BY <2>2, LenProperties
    <3> QED
      BY <3>1 DEF PolicyValues
  <2> QED
    BY <1>4, <1>6, <2>2, <2>3, <2>4 DEF Checked, names
<1> QED
  BY <1>5, <1>6
-----------------------------------------------------------------------------
(* What the session and the requests hold.                                 *)

SessionInv ==
    /\ launcher.sent <= WholeSize /\ bridge.read <= launcher.sent
    /\ bridge.at \in {"header", "payload", "install"} => package.parent
    /\ bridge.at \in {"payload", "install"} => package.header
    /\ bridge.at = "install" =>
         package.intact /\ launcher.sent = WholeSize /\ bridge.candidate = launcher.package
    /\ session # NoSession => bridge.at = "install" /\ session = launcher.package

TokenFields(r) ==
    {"phase", "identity", "request", "asked", "token", "status", "signature", "result"}
        \subseteq DOMAIN r
Asked(r) ==
    LET request == Requests[r.request]
    IN /\ r.request \in DOMAIN Requests /\ session # NoSession
       /\ Refusal(request) = Fine /\ RequestTarget(request.url) # NoTarget
       /\ r.token = TokenOf(request) /\ Expiry(r.token) > r.asked + 1
       /\ r.status = "ok" => r.signature = Coverage[r.request]
       /\ r.result # Nothing => r.result = [token |-> r.token, signature |-> Coverage[r.request]]
AsAsked(r) ==
    /\ TokenFields(r)
    /\ r.identity = "XUserAdd" => r.request = NoRequest
    /\ r.request # NoRequest => Asked(r)

TokensInv == SessionInv /\ \A b \in Blocks : AsAsked(block[b])

LEMMA SessionInvStep ==
    ASSUME BridgeInv, SessionInv, BridgeNext
    PROVE  SessionInv'
<1>1. /\ launcher \in [package : DOMAIN Packages, pipe : {"none", "open", "closed"}, sent : Nat]
      /\ bridge \in [at : {"connect", "header", "payload", "install", "refused"},
                     read : Nat, candidate : DOMAIN Packages \cup {NoSession}]
  BY DEF BridgeInv, BridgeTypeOK
<1>2. CASE UNCHANGED bridgeVars \/ AskForUser
  BY <1>2 DEF SessionInv, package, bridgeVars, AskForUser
<1>3. CASE Serve \/ Send \/ Close
  BY <1>1, <1>3 DEF SessionInv, package, Serve, Send, Close, Awaited, WholeSize
<1>4. CASE SetSession
  <2>1. bridge.at = "install"
    BY <1>4 DEF SetSession, BridgeInv, CandidateKnown
  <2> QED
    BY <1>4, <2>1 DEF SetSession, SessionInv, package
<1>5. CASE Refuse /\ UNCHANGED session /\ bridge.at # "install"
  BY <1>1, <1>5 DEF Refuse, Goto, Drop, SessionInv, package
<1>6. CASE Connect
  BY <1>1, <1>5, <1>6 DEF Connect, Receiving, Goto, Continue, SessionInv, package
<1>7. CASE Read
  BY <1>1, <1>5, <1>7 DEF Read, Receiving, Continue, SessionInv, package, HeaderSize, WholeSize
<1>8. CASE CheckHeader
  BY <1>1, <1>5, <1>8 DEF CheckHeader, Receiving, Goto, Continue, SessionInv, package
<1>9. CASE Parse
  <2>1. CASE Refuse
    BY <1>5, <1>9, <2>1 DEF Parse, Receiving
  <2>2. CASE ~Refuse
    <3>1. /\ bridge' = [bridge EXCEPT !.at = "install", !.candidate = launcher.package]
          /\ launcher' = [launcher EXCEPT !.pipe = "closed"] /\ package.intact
          /\ bridge.at = "payload" /\ bridge.read = WholeSize /\ session' = session
      BY <1>9, <2>2 DEF Parse, Receiving, Drop
    <3>2. launcher.sent = WholeSize
      BY <1>1, <3>1 DEF SessionInv, WholeSize
    <3> QED
      BY <1>1, <3>1, <3>2 DEF SessionInv, package
  <2> QED
    BY <2>1, <2>2
<1>10. CASE Tick \/ CreateQuery \/ SetOriginal \/ EnableQuery \/ \E c \in Components : Installer(c)
  BY <1>2, <1>10 DEF Tick, CreateQuery, SetOriginal, EnableQuery, Installer
<1> QED
  BY <1>2, <1>3, <1>4, <1>6, <1>7, <1>8, <1>9, <1>10 DEF BridgeNext

\* The session is taken once, and the game has no XUser before.
LEMMA SessionStays ==
    ASSUME [Next]_vars, session # NoSession
    PROVE  session' = session
<1>1. CASE BridgeNext
  BY <1>1 DEF BridgeNext, Serve, Send, Close, Tick, Connect, Read, CheckHeader, Parse,
     CreateQuery, SetOriginal, SetSession, EnableQuery, Installer, AskForUser, bridgeVars
<1>2. CASE ~BridgeNext
  BY <1>2 DEF Next, BridgeStep, AddAsync, GetTokenAsync, Begin, XAsyncBegin, QueueEnded, DoWork,
     AddResult, AnsiResult, Utf16Result, TokenResult, Cleanup, AnotherHandle, CloseHandle,
     SessionStep, Elsewhere, bridgeVars, vars
<1> QED
  BY <1>1, <1>2

LEMMA PlayingHasSession == BridgeInv /\ Playing => session # NoSession
  BY DEF BridgeInv, ExitLater, QueryKnown, QueryReady, Playing

LEMMA AskedStays ==
    ASSUME NEW r, AsAsked(r), session # NoSession => session' = session
    PROVE  AsAsked(r)'
  BY DEF AsAsked, Asked, Expiry

\* What a request's own steps make of its block.
LEMMA BlockStep ==
    ASSUME BridgeInv, NEW b \in Blocks, AsAsked(block[b]),
           \/ AddAsync(b) \/ (\E name \in DOMAIN Requests : GetTokenAsync(b, name))
           \/ XAsyncBegin(b) \/ QueueEnded(b) \/ DoWork(b)
           \/ AddResult(b) \/ AnsiResult(b) \/ Utf16Result(b) \/ Cleanup(b)
    PROVE  \E r : AsAsked(r) /\ Becomes(b, r)
<1>1. AsAsked(Free)
  BY DEF AsAsked, TokenFields, Free
<1>2. CASE AddAsync(b)
  <2> DEFINE r == [[Free EXCEPT !.identity = "XUserAdd"]
                      EXCEPT !.phase = "beginning", !.context = "live"]
  <2>1. Becomes(b, r)
    BY <1>2 DEF AddAsync, Begin
  <2>2. AsAsked(r)
    BY DEF AsAsked, TokenFields, Free
  <2> QED
    BY <2>1, <2>2
<1>3. CASE \E name \in DOMAIN Requests : GetTokenAsync(b, name)
  <2>1. PICK name \in DOMAIN Requests : GetTokenAsync(b, name)
    BY <1>3
  <2> DEFINE identity == TokenIdentity(Requests[name].utf16)
             fields == [Free EXCEPT !.identity = identity, !.request = name, !.asked = now,
                                    !.token = TokenOf(Requests[name])]
             r == [fields EXCEPT !.phase = "beginning", !.context = "live"]
  <2>2. Becomes(b, r) /\ Playing /\ Grantable(Requests[name])
    BY <2>1 DEF GetTokenAsync, Begin
  <2>3. identity # "XUserAdd"
    BY DEF TokenIdentity
  <2> HIDE DEF identity
  <2>4. /\ r.request = name /\ r.identity = identity /\ r.token = TokenOf(Requests[name])
        /\ r.asked = now /\ r.status = "pending" /\ r.result = Nothing /\ TokenFields(r)
    BY DEF Free, TokenFields
  <2> HIDE DEF r
  <2>5. Asked(r)
    BY <2>2, <2>4, PlayingHasSession DEF Asked, Grantable, StillGood
  <2> QED
    BY <2>2, <2>3, <2>4, <2>5 DEF AsAsked
<1>4. CASE XAsyncBegin(b) \/ QueueEnded(b)
  <2>1. ASSUME NEW status \in {"failed", "aborted"}
        PROVE  AsAsked([block[b] EXCEPT !.phase = "completed", !.status = status])
    BY DEF AsAsked, Asked, TokenFields
  <2>2. AsAsked([block[b] EXCEPT !.phase = "queued"])
    BY DEF AsAsked, Asked, TokenFields
  <2> QED
    BY <1>1, <1>4, <2>1, <2>2 DEF XAsyncBegin, NotTaken, Taken, QueueEnded
<1>5. CASE DoWork(b)
  <2>1. ASSUME block[b].request = NoRequest
        PROVE  AsAsked([block[b] EXCEPT !.phase = "completed", !.status = "ok"])
    BY <2>1 DEF AsAsked, TokenFields
  <2>2. ASSUME block[b].request # NoRequest, NEW signature \in Signatures(block[b].request)
        PROVE  AsAsked([block[b] EXCEPT !.phase = "completed", !.signature = signature,
                          !.status = IF signature = Nothing THEN "failed" ELSE "ok"])
    BY <2>2 DEF AsAsked, Asked, TokenFields, Signatures
  <2> QED
    BY <1>5, <2>1, <2>2 DEF DoWork
<1>6. CASE AddResult(b)
  <2>1. block[b].request = NoRequest
    BY <1>6 DEF AddResult, Ready, AsAsked
  <2>2. AsAsked([block[b] EXCEPT !.claimed = TRUE, !.result = "user"])
    BY <2>1 DEF AsAsked, TokenFields
  <2> QED
    BY <1>6, <2>2 DEF AddResult
<1>7. CASE AnsiResult(b) \/ Utf16Result(b)
  <2> DEFINE r == [block[b] EXCEPT !.result = [token |-> block[b].token,
                                               signature |-> block[b].signature]]
  <2>1. Becomes(b, r) /\ block[b].status = "ok"
    BY <1>7 DEF AnsiResult, Utf16Result, TokenResult, Ready
  <2>2. AsAsked(r)
    BY <2>1 DEF AsAsked, Asked, TokenFields
  <2> QED
    BY <2>1, <2>2
<1>8. CASE Cleanup(b)
  BY <1>1, <1>8 DEF Cleanup
<1> QED
  BY <1>2, <1>3, <1>4, <1>5, <1>6, <1>7, <1>8

LEMMA TokensInvInit == Init => TokensInv
<1> SUFFICES ASSUME Init PROVE TokensInv
  OBVIOUS
<1>1. SessionInv
  BY DEF Init, BridgeInit, SessionInv, WholeSize
<1>2. AsAsked(Free)
  BY DEF AsAsked, TokenFields, Free
<1> QED
  BY <1>1, <1>2 DEF Init, TokensInv

LEMMA TokensInvStep == BridgeInv /\ LeakInv /\ TokensInv /\ [Next]_vars => TokensInv'
<1> SUFFICES ASSUME BridgeInv, LeakInv, TokensInv, [Next]_vars
             PROVE  TokensInv'
  OBVIOUS
<1>1. SessionInv'
  <2>1. CASE BridgeNext
    BY <2>1, SessionInvStep DEF TokensInv
  <2>2. CASE ~BridgeNext
    <3>1. UNCHANGED bridgeVars
      BY <2>2 DEF Next, BridgeStep, AddAsync, GetTokenAsync, Begin, XAsyncBegin, QueueEnded,
         DoWork, AddResult, AnsiResult, Utf16Result, TokenResult, Cleanup, AnotherHandle,
         CloseHandle, SessionStep, Elsewhere, vars
    <3> QED
      BY <3>1 DEF TokensInv, SessionInv, package, bridgeVars
  <2> QED
    BY <2>1, <2>2
<1>2. \A c \in Blocks : AsAsked(block'[c])
  <2>1. CASE UNCHANGED block
    BY <2>1 DEF TokensInv
  <2>2. ASSUME NEW b \in Blocks, NEW r, AsAsked(r), Becomes(b, r)
        PROVE  <1>2
    BY <2>2 DEF Becomes, LeakInv, TokensInv
  <2>3. CASE BridgeStep \/ AnotherHandle \/ CloseHandle \/ SessionStep \/ UNCHANGED vars
    BY <2>1, <2>3 DEF BridgeStep, AnotherHandle, CloseHandle, SessionStep, requestVars, vars
  <2>4. \A b \in Blocks : AsAsked(block[b])
    BY DEF TokensInv
  <2> QED
    BY <2>2, <2>3, <2>4, BlockStep DEF Next
<1>3. \A c \in Blocks : AsAsked(block[c])'
  <2>1. session # NoSession => session' = session
    BY SessionStays
  <2> QED
    BY <1>2, <2>1 DEF AsAsked, Asked, Expiry
<1> QED
  BY <1>1, <1>3 DEF TokensInv

\* The service a request goes to takes the token of its relying party.
LEMMA TokenServes ==
    ASSUME NEW url, url.host \in Hosts, RequestTarget(url) # NoTarget
    PROVE  Serves(RelyingParty(url.host), url.host)
<1>1. url.host # "none"
  BY DEF RequestTarget
<1>2. CASE url.host \in {"licensing", "store"}
  <2>1. RelyingParty(url.host) = "licensing"
    BY <1>2 DEF RelyingParty
  <2> QED
    BY <1>2, <2>1, Zenon DEF Serves
<1>3. CASE url.host \in {"playfab", "multiplayer", "realms"}
  <2>1. RelyingParty(url.host) = url.host
    BY <1>3 DEF RelyingParty
  <2> QED
    BY <1>3, <2>1, Zenon DEF Serves
<1>4. CASE url.host \in {"device", "xboxlive", "custom"}
  <2>1. RelyingParty(url.host) = "xboxlive"
    BY <1>4 DEF RelyingParty
  <2> QED
    BY <1>4, <2>1, Zenon DEF Serves
<1> QED
  BY <1>1, <1>2, <1>3, <1>4 DEF Hosts

LEMMA TokensInvSuffices == TokensInv => TokensAsAsked
<1> SUFFICES ASSUME TokensInv, NEW b \in Blocks,
                    block[b].result # Nothing, block[b].request # NoRequest
             PROVE  TokensAsAsked!(b)
  BY DEF TokensAsAsked
<1> DEFINE me == block[b]
           request == Requests[me.request]
<1>1. /\ me.request \in DOMAIN Requests /\ session # NoSession
      /\ Refusal(request) = Fine /\ RequestTarget(request.url) # NoTarget
      /\ me.token = TokenOf(request) /\ Expiry(me.token) > me.asked + 1
      /\ me.result = [token |-> me.token, signature |-> Coverage[me.request]]
  BY DEF TokensInv, AsAsked, Asked
<1>2. /\ package.parent /\ package.header /\ package.intact
      /\ launcher.sent = WholeSize /\ session = launcher.package
  BY <1>1 DEF TokensInv, SessionInv
<1>3. request \in TokenRequests /\ request.url.host \in Hosts
  BY <1>1, RequestsAssumption DEF TokenRequests
<1>4. me.result.token = me.token /\ me.result.signature = Covered(request)
  BY <1>1 DEF Coverage
<1> HIDE DEF me, request
<1>5. Serves(me.result.token, request.url.host)
  BY <1>1, <1>3, <1>4, TokenServes DEF TokenOf
<1>6. Expiry(me.result.token) > me.asked + 1
  BY <1>1, <1>4
<1>7. Len(me.result.signature.values) = Cardinality(Checked(request))
  BY <1>3, <1>4, SignsWhatIsChecked
<1>8. Refusal([request EXCEPT !.utf16 = ~@]) = Fine \/ request.url.length = Limits["units"]
  BY <1>1, <1>3, OtherTakesIt
<1> QED
  BY <1>2, <1>5, <1>6, <1>7, <1>8 DEF me, request

\* A token the game is given is of a whole session of its parent's, is the one
\* of the service asked, was good when it was asked for, and is signed over
\* every header the service checks, for any launcher, requests and headers
\* (TokensAsAsked).
THEOREM TokensAreAsAsked == Spec => []TokensAsAsked
<1> DEFINE Inv == BridgeInv /\ LeakInv /\ TokensInv
<1>1. Init => Inv
  BY BridgeInvInit, LeakInvInit, TokensInvInit
<1>2. Inv /\ [Next]_vars => Inv'
  BY BridgeInvStep, LeakInvStep, TokensInvStep
<1>3. Inv => TokensAsAsked
  BY TokensInvSuffices
<1> QED
  BY <1>1, <1>2, <1>3, PTL DEF Spec
=============================================================================
