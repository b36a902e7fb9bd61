---------------------------- MODULE MCModLoader ----------------------------
(* An instance of ModLoader for TLC: a PreLoader, two DLLs of one file name *)
(* in two packages, one that needs a module of that name, and a lost one.   *)
EXTENDS ModLoader
CONSTANTS pre, a1, a2, b, lost

FileName == [d \in Dlls |-> CASE d = pre -> "PreLoader.dll"
                              [] d \in {a1, a2} -> "a.dll"
                              [] d = b -> "b.dll" [] OTHER -> "lost.dll"]
MCBrings == [d \in Dlls |-> IF d = pre THEN {a1, b} ELSE {}]
MCPresent == {{}, {pre}, {a2}}

Manifest(type, dll, preLoader, required, exports, modules) ==
    [type |-> type, dll |-> dll, preLoader |-> preLoader, required |-> required,
     exports |-> exports, modules |-> modules]

MCManifests ==
    {Manifest("preload", pre, named, FALSE, TRUE, {}) : named \in BOOLEAN}
    \cup {Manifest("native", d, FALSE, TRUE, TRUE, {}) : d \in {a1, a2, lost}}
    \cup {Manifest("native", a1, FALSE, TRUE, FALSE, {}),
          Manifest("native", b, FALSE, TRUE, TRUE, {"a.dll"}),
          Manifest("loose", a1, FALSE, FALSE, TRUE, {}),
          Manifest("hot", a1, FALSE, TRUE, TRUE, {}),
          Manifest("BL", a2, FALSE, FALSE, TRUE, {})}
=============================================================================
