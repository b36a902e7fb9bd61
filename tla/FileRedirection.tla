-------------------------- MODULE FileRedirection --------------------------
(***************************************************************************)
(* File redirection: src/core/file_redirection.rs.                         *)
(*                                                                         *)
(* The rules of config.json say that what is named below one directory is  *)
(* to be found below another.  The functions that take names are hooked at *)
(* two levels, in kernelbase.dll and again in ntdll.dll, which the first   *)
(* level calls; a function one level misses the other one may catch.  A    *)
(* flag of the thread keeps the second level, and what the hooks do        *)
(* themselves, from being redirected once more.                            *)
(*                                                                         *)
(* The program runs in the game's directory, and there is one drive.       *)
(***************************************************************************)
EXTENDS Disk, FiniteSets

CONSTANTS
    Threads,      \* the game's threads
    Requests,     \* what they call: [api, kind, paths]
    Nobody,       \* no request
    NewContent,   \* what a creation writes
    Configs,      \* [rules, root]: file_redirections, and the redirection root
    Disabled,     \* enable_redirection is false
    DataRoots,    \* the directories add_known_data_root_rules knows
    Systems,      \* what the game's process offers to hooks: see below
    Names,        \* of files and directories, "." and ".." among them
    LowerCase,    \* to_ascii_lowercase: [Names -> Names]
    GameDir       \* the game's directory

(* A path: its namespace prefix, whether it starts at the drive, at the
   current directory or at the current drive's root, and its components.
   Separators and blanks have been dealt with (split_windows_namespace). *)
Paths == [ns : {"none", "extended", "nt"},
          form : {"drive", "relative", "rooted"}, names : Seq(Names)]
Configured == [source : Paths, target : Paths, directory : BOOLEAN]

NoPath == [ns |-> "none", form |-> "relative", names |-> <<>>]
Drive(ns, names) == [ns |-> ns, form |-> "drive", names |-> names]

-----------------------------------------------------------------------------
(***************************************************************************)
(* The hooked functions, and the functions of ntdll.dll each one reaches   *)
(* for each of the names it is given.                                      *)
(***************************************************************************)
FileOpeners == {"CreateFileW", "CreateFileFromAppW", "CreateFile2", "CreateFile2FromAppW"}
DirectoryMakers == {"CreateDirectoryW", "CreateDirectoryFromAppW"}
Removers ==
    {"DeleteFileW", "DeleteFileFromAppW", "RemoveDirectoryW", "RemoveDirectoryFromAppW"}
Queries ==
    {"GetFileAttributesW", "GetFileAttributesExW", "GetFileAttributesExFromAppW"}
Finders == {"FindFirstFileW", "FindFirstFileExW", "FindFirstFileExFromAppW"}
Movers == {"MoveFileW", "MoveFileExW", "MoveFileFromAppW"}
Copiers == {"CopyFileW", "CopyFileFromAppW"}
Setters == {"SetFileAttributesW", "SetFileAttributesFromAppW"}
OneName == DirectoryMakers \cup Removers \cup Queries \cup Finders \cup Setters
TwoNames == {"CreateDirectoryExW"} \cup Movers \cup Copiers

NtOpeners == {"NtCreateFile", "NtOpenFile"}
NtOthers == {"NtDeleteFile", "NtQueryAttributesFile", "NtQueryFullAttributesFile"}
NtFunctions == NtOpeners \cup NtOthers \cup {"NtSetInformationFile"}
KernelFunctions == FileOpeners \cup OneName \cup TwoNames \cup {"ReplaceFileW"}

(* Which function of ntdll.dll the n-th name of a call goes through. *)
NtFunction(api, n) ==
    CASE api \in NtFunctions -> api
      [] api \in FileOpeners \cup Copiers \cup DirectoryMakers \cup {"CreateDirectoryExW"} ->
             "NtCreateFile"
      [] api = "GetFileAttributesW" -> "NtQueryAttributesFile"
      [] api \in Queries \ {"GetFileAttributesW"} -> "NtQueryFullAttributesFile"
      [] api \in Movers /\ n = 2 -> "NtSetInformationFile"
      [] OTHER -> "NtOpenFile"

ASSUME FileRedirectionAssumption ==
    /\ LowerCase \in [Names -> Names]
    /\ {".", ".."} \subseteq Names
    /\ GameDir \in Seq(Names) /\ DataRoots \in Seq(Seq(Names))
    /\ \A c \in Configs : c.rules \in Seq(Configured) /\ c.root \in Paths \cup {Disabled}
    /\ \A r \in Requests :
         /\ r.api \in KernelFunctions \cup NtFunctions /\ r.kind \in Kinds
         /\ r.paths \in Seq(Paths) /\ Len(r.paths) >= NamesFor(r.kind)
         /\ r.api \in NtFunctions =>
              \A n \in 1..Len(r.paths) : r.paths[n].ns = "nt" /\ r.paths[n].form = "drive"
    /\ \A s \in Systems :
         /\ s \in [kernelbase : SUBSET KernelFunctions, kernel32 : SUBSET KernelFunctions,
                   ntdll : SUBSET NtFunctions, enables : BOOLEAN,
                   refused : SUBSET (KernelFunctions \cup NtFunctions)]
    /\ Nobody \notin Requests /\ NewContent \in Contents /\ "pending" \notin Contents

(* A relative name comes to ntdll.dll with a handle of the current directory,
   but for the new name of a file that is moved. *)
WithHandle(function, path) ==
    path.form = "relative" /\ function # "NtSetInformationFile"

VARIABLES
    rules,   \* REDIRECTION_STATE: the rules in the order they are tried
    config,  \* the configuration they were made from
    hooked,  \* the functions whose hooks could be created
    placing, \* history: where the names of each request are meant to be
    disk,    \* what is on the disk
    call,    \* what each thread is doing
    guard,   \* IN_FILE_REDIRECTION_HOOK of each thread
    taken    \* history: a directory on the way to what the thread is about to
             \* create has been removed or moved away by another

fixed == <<rules, config, hooked, placing>>
filesVars == <<fixed, disk, call, guard, taken>>

-----------------------------------------------------------------------------
(* Paths. *)
Key(names) == [i \in 1..Len(names) |-> LowerCase[names[i]]]

(* canonicalize_lexical_windows_path. *)
After(stack, name) ==
    IF name = "." \/ (name = ".." /\ stack = <<>>) THEN stack
    ELSE IF name = ".." THEN Front(stack) ELSE Append(stack, name)
Stacks(names) ==
    LET stack[i \in 0..Len(names)] ==
            IF i = 0 THEN <<>> ELSE After(stack[i - 1], names[i])
    IN stack
Canonical(names) == Stacks(names)[Len(names)]

(* What the operating system makes of a path.  It reads more names alike than
   the code does: dots and blanks at the end of a component, letters beyond
   ASCII and short names are not in the model. *)
Absolute(path) ==
    Canonical(IF path.form = "relative" THEN GameDir \o path.names ELSE path.names)
PlaceOf(path) == Key(Absolute(path))

-----------------------------------------------------------------------------
(* The rules. *)
Usable(path) == path.form = "drive" \/ (path.ns = "none" /\ path.form = "relative")
Rule(configured) ==
    [source |-> Absolute(configured.source), target |-> Absolute(configured.target),
     ns |-> configured.target.ns, directory |-> configured.directory]

(* default_redirection_root and add_known_data_root_rules. *)
KnownRoots(root) ==
    IF root = Disabled THEN <<>>
    ELSE [i \in DOMAIN DataRoots |->
            [source |-> Drive("none", DataRoots[i]), target |-> root, directory |-> TRUE]]
Listed(cfg) == cfg.rules \o KnownRoots(cfg.root)

(* from_config makes rules of the usable ones, and of those for one source
   only the first counts. *)
Made(cfg) ==
    {i \in DOMAIN Listed(cfg) :
       Usable(Listed(cfg)[i].source) /\ Usable(Listed(cfg)[i].target)}
RuleOf(cfg, i) == Rule(Listed(cfg)[i])
Counting(cfg) ==
    {i \in Made(cfg) : \A j \in Made(cfg) :
       j < i => Key(RuleOf(cfg, j).source) # Key(RuleOf(cfg, i).source)}

(* Mutant: the rules are tried in the order they are written. *)
RulesOfUnsorted(cfg) ==
    LET order == SetToSortSeq(Counting(cfg), LAMBDA i, j : i < j)
    IN [n \in DOMAIN order |-> RuleOf(cfg, order[n])]
(* The rules that count, those with the longest source first: the code compares
   the lengths of the texts, which for two sources of one file is the same. *)
Orders(cfg) ==
    {order \in [1..Cardinality(Counting(cfg)) -> Counting(cfg)] :
       \A m, n \in DOMAIN order : m < n =>
         /\ order[m] # order[n]
         /\ Len(RuleOf(cfg, order[m]).source) >= Len(RuleOf(cfg, order[n]).source)}
RulesOf(cfg) ==
    LET order == CHOOSE o \in Orders(cfg) : TRUE
    IN [n \in DOMAIN order |-> RuleOf(cfg, order[n])]

(* A rule for a drive's root has no descendants: its child key ends in two
   separators. *)
Covers(rule, names) ==
    \/ Key(names) = Key(rule.source)
    \/ /\ rule.directory /\ rule.source # <<>>
       /\ IsStrictPrefix(Key(rule.source), Key(names))
Below(rule, names) == rule.target \o SubSeq(names, Len(rule.source) + 1, Len(names))

(* redirect_path_impl: NoPath when no rule applies. *)
Redirected(path, relativeToo) ==
    LET names == Absolute(path)
        n == SelectInSeq(rules, LAMBDA rule : Covers(rule, names))
        refused == path.form # "drive" /\
                     (~relativeToo \/ path.ns # "none" \/ path.form = "rooted")
    IN IF refused \/ n = 0 THEN NoPath
       ELSE Drive(IF path.ns = "none" THEN rules[n].ns ELSE path.ns,
                  Below(rules[n], names))

RedirectWide(path) == Redirected(path, TRUE)
RedirectObject(path) == Redirected(path, FALSE)
RedirectRename(path) == Redirected(path, FALSE)
Either(redirected, path) == IF redirected = NoPath THEN path ELSE redirected

-----------------------------------------------------------------------------
(* Where the file named in a request is meant to be: of the rules that count
   and apply to the name, the one with the deepest source decides. *)
Covering(cfg, names) == {i \in Counting(cfg) : Covers(RuleOf(cfg, i), names)}
Meant(path) ==
    LET names == Absolute(path)
        covering == Covering(config, names)
        deepest == CHOOSE i \in covering : \A j \in covering :
            Len(RuleOf(config, i).source) >= Len(RuleOf(config, j).source)
    IN IF covering = {} THEN PlaceOf(path) ELSE Key(Below(RuleOf(config, deepest), names))

(* A hook in kernelbase.dll does not touch a name that starts at the root of
   the current drive, nor a relative one with a namespace prefix, and keeps
   the one in ntdll.dll from doing it; that one passes over relative names. *)
PlaceIn(req, n) ==
    LET path == req.paths[n]
        function == NtFunction(req.api, n)
    IN IF req.api \in hooked \cap KernelFunctions
       THEN IF Usable(path) THEN Meant(path) ELSE PlaceOf(path)
       ELSE IF function \in hooked /\ ~WithHandle(function, path) THEN Meant(path)
       ELSE PlaceOf(path)

(* The places reach as far as the names of the requests. *)
ASSUME PlacesAssumption ==
    \A r \in Requests : \A n \in DOMAIN r.paths :
        LET names == Absolute(r.paths[n])
        IN /\ Key(names) \in Places
           /\ \A c \in Configs : \A i \in Covering(c, names) :
                Key(Below(RuleOf(c, i), names)) \in Places

(* So they do once a directory has been moved. *)
Spots(path) ==
    LET names == Absolute(path)
    IN {Key(names)} \cup
       UNION {{Key(Below(RuleOf(c, i), names)) : i \in Covering(c, names)} : c \in Configs}
ASSUME MovesAssumption ==
    \A r \in Requests : r.kind = "move" =>
        \A p \in Spots(r.paths[1]), q \in Spots(r.paths[2]), s \in Places :
            IsPrefix(p, s) => q \o SubSeq(s, Len(p) + 1, Len(s)) \in Places

(* Fixed in the initial state, as `config` and `hooked` are. *)
Placing == [req \in Requests |-> [n \in DOMAIN req.paths |-> PlaceIn(req, n)]]

-----------------------------------------------------------------------------
Idle == [pc |-> "idle", req |-> Nobody, paths |-> <<>>, moved |-> FALSE,
         failed |-> FALSE, answer |-> "pending"]

(* prepare_rule_targets has made the targets' directories. *)
Prepared(before) ==
    LET targets == {IF rules[i].directory THEN Key(rules[i].target)
                    ELSE Front(Key(rules[i].target)) : i \in DOMAIN rules}
    IN [p \in Places |->
          IF before[p] = Absent /\ \E q \in targets : IsPrefix(p, q) THEN Directory
          ELSE before[p]]

(* Each module's exports, those MinHook makes no hook for, and whether it
   enables what it has made.  hook_export_from_modules: the first of the
   modules that exports the function. *)
HookExport(system, function, modules) ==
    /\ \E i \in DOMAIN modules : function \in modules[i]
    /\ function \notin system.refused
InstallFileHooks(system) ==
    {f \in KernelFunctions : HookExport(system, f, <<system.kernelbase, system.kernel32>>)}
    \cup {f \in NtFunctions : HookExport(system, f, <<system.ntdll>>)}
(* Without a rule no hook is made. *)
Hooks(system) ==
    IF rules = <<>> \/ ~system.enables THEN {} ELSE InstallFileHooks(system)

FilesInit ==
    /\ config \in Configs /\ rules = RulesOf(config)
    /\ hooked \in {Hooks(system) : system \in Systems} /\ placing = Placing
    /\ disk = Prepared([p \in Places |->
                 IF IsPrefix(p, Key(GameDir)) THEN Directory ELSE Absent])
    /\ call = [t \in Threads |-> Idle]
    /\ guard = [t \in Threads |-> FALSE]
    /\ taken = [t \in Threads |-> FALSE]

Creating(req) == req.api \in FileOpeners /\ req.kind = "create"
Goto(t, where) == call' = [call EXCEPT ![t].pc = where]

(* The game calls a function whose hook is there: the guard goes up, and the
   names are replaced ... *)
Enter(t, req, where) ==
    /\ call[t].pc = "idle" /\ req.api \in hooked \cap KernelFunctions
    /\ LET redirected == [n \in DOMAIN req.paths |-> RedirectWide(req.paths[n])]
       IN call' = [call EXCEPT ![t] =
              [pc |-> where, req |-> req,
               paths |-> [n \in DOMAIN redirected |-> Either(redirected[n], req.paths[n])],
               moved |-> redirected[1] # NoPath, failed |-> FALSE,
               answer |-> "pending"]]
    /\ guard' = [guard EXCEPT ![t] = TRUE]
    /\ UNCHANGED <<fixed, disk, taken>>

Open(t, req) ==
    /\ req.api \in FileOpeners
    /\ Enter(t, req, IF Creating(req) THEN "prepare" ELSE "original")
CreateDirectory(t, req) ==
    /\ req.api \in DirectoryMakers \cup {"CreateDirectoryExW"}
    /\ Enter(t, req, "original")
Delete(t, req) == req.api \in Removers /\ Enter(t, req, "original")
Query(t, req) == req.api \in Queries \cup Setters /\ Enter(t, req, "original")
Find(t, req) == req.api \in Finders /\ Enter(t, req, "original")
MoveFile(t, req) == req.api \in Movers /\ Enter(t, req, "original")
CopyFile(t, req) == req.api \in Copiers /\ Enter(t, req, "original")
ReplaceFile(t, req) == req.api = "ReplaceFileW" /\ Enter(t, req, "original")

(* ... or one that is not hooked in kernelbase.dll. *)
EnterUnhooked(t, req) ==
    /\ call[t].pc = "idle" /\ req.api \notin hooked \cap KernelFunctions
    /\ call' = [call EXCEPT ![t] =
           [pc |-> "original", req |-> req, paths |-> req.paths, moved |-> FALSE,
            failed |-> FALSE, answer |-> "pending"]]
    /\ UNCHANGED <<fixed, disk, guard, taken>>

(* Where a name ends up once it comes to a function of ntdll.dll: the hook
   there looks at it unless the thread is within a hook already. *)
Reached(t, function, path) ==
    LET full == Drive("nt", Absolute(path))
    IN IF guard[t] \/ function \notin hooked \/ WithHandle(function, path)
       THEN PlaceOf(path)
       ELSE IF function = "NtSetInformationFile" THEN PlaceOf(Either(RedirectRename(full), full))
       ELSE PlaceOf(Either(RedirectObject(full), full))

(* The directory of what a thread is about to create. *)
WayOf(t) == Front(Reached(t, "NtCreateFile", call[t].paths[1]))

(* Mutant: no directory is made for what is to be created. *)
PrepareNoParent(t) ==
    /\ call[t].pc = "prepare" /\ Goto(t, "original")
    /\ UNCHANGED <<fixed, disk, guard, taken>>
(* prepare_redirect_parent: only for a name that was replaced, and through
   functions that are hooked as well.  It may fail. *)
PrepareParent(t) ==
    /\ call[t].pc = "prepare"
    /\ LET way == WayOf(t)
           needed == call[t].moved /\ way # <<>> /\ disk[way] = Absent
       IN \E depth \in IF needed THEN Passable(disk, way) ELSE {0} :
            /\ disk' = IF needed THEN WithWayTo(disk, way, depth) ELSE disk
            /\ call' = [call EXCEPT ![t].pc = "original",
                                   ![t].failed = ~IsDirectory(disk', way)]
    /\ UNCHANGED <<fixed, guard, taken>>

(* The original function does its work.  The system's own steps in it are
   taken as one, and no request leaves a handle open. *)
Original(t) ==
    /\ call[t].pc = "original"
    /\ LET me == call[t]
           at == [n \in DOMAIN me.paths |->
                    Reached(t, NtFunction(me.req.api, n), me.paths[n])]
           performed == Performed(me.req.kind, disk, at, NewContent)
           takes == disk[at[1]] = Directory /\ performed.disk[at[1]] # Directory
       IN /\ disk' = performed.disk
          /\ call' = [call EXCEPT ![t].pc = "logged", ![t].answer = performed.answer]
          /\ taken' = [u \in Threads |->
                 taken[u] \/ (takes /\ u # t /\ call[u].pc = "original"
                              /\ Creating(call[u].req) /\ IsPrefix(at[1], WayOf(u)))]
    /\ UNCHANGED <<fixed, guard>>

(* log_redirected_create_result, after a creation or opening by name; what
   it logs leaves the caller's last error as it was. *)
Return(t) ==
    /\ call[t].pc = "logged"
    /\ call' = [call EXCEPT ![t] = Idle]
    /\ guard' = [guard EXCEPT ![t] = FALSE]
    /\ taken' = [taken EXCEPT ![t] = FALSE]
    /\ UNCHANGED <<fixed, disk>>

HookedCall(t, req) ==
    \/ Open(t, req) \/ CreateDirectory(t, req) \/ Delete(t, req) \/ Query(t, req)
    \/ Find(t, req) \/ MoveFile(t, req) \/ CopyFile(t, req) \/ ReplaceFile(t, req)

FilesNext ==
    \E t \in Threads :
        \/ \E req \in Requests : HookedCall(t, req) \/ EnterUnhooked(t, req)
        \/ PrepareParent(t) \/ Original(t) \/ Return(t)

FilesSpec == FilesInit /\ [][FilesNext]_filesVars

-----------------------------------------------------------------------------
Placed == INSTANCE PlacedFiles WITH
    asked <- [t \in Threads |-> call[t].req],
    answer <- [t \in Threads |-> call[t].answer]

(* The redirected file system is one in which each request's names have fixed
   places: the hooks of both levels, and what they do themselves, never send a
   name twice through the rules, never half of a call's names, and make
   directories only on the way to a file being created. *)
ImplementsPlacedFiles == Placed!Spec

(* A call that may create a file, and whose name a hook of kernelbase.dll has
   replaced, finds the directory it needs, though the game never made it at
   the new place: unless the hook could not make it, or found a file there
   (which prepare_redirect_parent logs), or another thread has removed or
   moved away a directory on the way between the hook's look and the original
   function (which nothing notices). *)
CreationsPrepared ==
    \A t \in Threads :
        /\ call[t].pc = "logged" /\ call[t].moved /\ Creating(call[t].req)
        /\ call[t].answer = "no path"
        => call[t].failed \/ taken[t]
=============================================================================
