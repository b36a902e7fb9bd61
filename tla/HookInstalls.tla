---------------------------- MODULE HookInstalls ----------------------------
(***************************************************************************)
(* How BLoader's components put their hooks into the game.                 *)
(*                                                                         *)
(* Each creates its hooks, stores the functions they replace, and has      *)
(* MinHook enable every hook of the process: its own and whatever others   *)
(* left in the table.  The bootstrap goes through most of them one after   *)
(* another, the capture of the console among them (it is asked for before  *)
(* the preloader, or never); the exit hook is installed by a thread of the *)
(* game.                                                                   *)
(***************************************************************************)
EXTENDS Naturals, Sequences, FiniteSets

CONSTANTS
    Modes,  \* "gated": the bootstrap ends before the game's code begins;
            \* "attached": BLoader came late and the game runs already
    Plans,  \* the sets of components that may have hooks to install
    Faults  \* bound: how many installations fail

Components == {"query", "capture", "launch", "files", "network", "exit"}

ASSUME InstallsAssumption ==
    /\ Modes # {} /\ Modes \subseteq {"gated", "attached"}
    /\ Plans # {} /\ Plans \subseteq SUBSET Components /\ Faults \in Nat

VARIABLES
    mode,    \* how BLoader came into the process
    plan,    \* the components with something to install: no session, no launch
             \* file, no rules or no writing, both features off, no console
             \* leave one out
    table,   \* MinHook's hooks in the order they were created: [of, live]
    stored,  \* the components that have stored what their hooks replace
    install, \* how far each component's installation is
    todo     \* what the bootstrap has still to install, in this order

hookVars == <<mode, plan, table, stored, install, todo>>

HookInit ==
    /\ mode \in Modes /\ plan \in Plans
    /\ table = <<>> /\ stored = {}
    /\ install = [c \in Components |-> "waiting"]
    /\ todo = <<"query", "capture", "launch", "files", "network">>

Live(c) == \E i \in DOMAIN table : table[i].of = c /\ table[i].live
GameRuns == mode = "attached" \/ todo = <<>>

(* The bootstrap's part and the game's. *)
Turn(c) ==
    \/ todo # <<>> /\ Head(todo) = c
    \/ c = "exit" /\ GameRuns

Leave(c, how) ==
    /\ install' = [install EXCEPT ![c] = how]
    /\ todo' = IF todo # <<>> /\ Head(todo) = c THEN Tail(todo) ELSE todo

Skip(c) ==
    /\ Turn(c) /\ install[c] = "waiting" /\ c \notin plan
    /\ Leave(c, "skipped") /\ UNCHANGED <<mode, plan, table, stored>>
MayFail == Cardinality({c \in Components : install[c] = "failed"}) < Faults

(* MinHook::create_hook: the hook is in the table, and off. *)
Create(c) ==
    /\ Turn(c) /\ install[c] = "waiting" /\ c \in plan
    /\ table' = Append(table, [of |-> c, live |-> FALSE])
    /\ install' = [install EXCEPT ![c] = "created"]
    /\ UNCHANGED <<mode, plan, stored, todo>>
(* The module or its export is missing, or MinHook creates no hook. *)
CreateFails(c) ==
    /\ Turn(c) /\ install[c] = "waiting" /\ c \in plan /\ MayFail
    /\ Leave(c, "failed") /\ UNCHANGED <<mode, plan, table, stored>>

Store(c) ==
    /\ install[c] = "created" /\ stored' = stored \cup {c}
    /\ install' = [install EXCEPT ![c] = "stored"]
    /\ UNCHANGED <<mode, plan, table, todo>>

(* MinHook::enable_all_hooks goes through the table and stops at the first
   hook it cannot enable; what it has enabled stays so. *)
Enabled(n) == [i \in DOMAIN table |-> [table[i] EXCEPT !.live = @ \/ i <= n]]
EnableAt(c, stage) ==
    /\ install[c] = stage
    /\ \E n \in 0..Len(table) :
         /\ table' = Enabled(n)
         /\ IF \A i \in DOMAIN table : table'[i].live
            THEN Leave(c, "reported") ELSE MayFail /\ Leave(c, "failed")
    /\ UNCHANGED <<mode, plan, stored>>
(* Mutant: the hooks come on before their originals are stored. *)
EnableUnstored(c) == EnableAt(c, "created")
Enable(c) == EnableAt(c, "stored")

-----------------------------------------------------------------------------
(* A hook without the function it replaces: its calls would go nowhere.
   These hooks look first (call_original_query, rtl_exit_user_process_hook,
   call_original); the others transmute what they find. *)
LooksFirst == {"query", "exit", "capture"}
=============================================================================
