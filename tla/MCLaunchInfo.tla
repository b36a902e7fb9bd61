--------------------------- MODULE MCLaunchInfo ---------------------------
(* An instance of LaunchInfo for TLC: three language files, one of which
   cannot be read beforehand, one of the same name elsewhere, and one
   that Windows does not name. *)
EXTENDS LaunchInfo

CONSTANTS t1, t2, h1, h2

L(bom, key, value, end) == [bom |-> bom, key |-> key, value |-> value, end |-> end]
MCFiles == {"en", "zh", "locked", "other", "pipe"}
MCText ==
    [f \in MCFiles |->
        CASE f = "en" -> <<L(TRUE, "copyright", "mojang", "crlf"), L(FALSE, "other", "mojang", "none")>>
          [] f = "zh" -> <<L(TRUE, "other", "mojang", "crlf"), L(TRUE, "copyright", "mojang", "none")>>
          [] OTHER -> <<L(FALSE, "copyright", "mojang", "lf")>>]
MCPath ==
    [f \in MCFiles |->
        CASE f = "en" -> <<"TEXTS", "en.lang">>
          [] f = "zh" -> <<"texts", "sub", "zh.lang">>
          [] f = "locked" -> <<"texts", "en.lang">>
          [] f \in {"other", "pipe"} -> <<"packs", "en.lang">>]
MCNames == {"texts", "TEXTS", "sub", "packs", "en.lang", "zh.lang"}
MCLowerCase == [n \in MCNames |-> IF n = "TEXTS" THEN "texts" ELSE n]
MCLangNames == {"en.lang", "zh.lang"}
MCTextsDir == <<"texts">>
MCHookable == UNION {Exports(op) : op \in Ops}

Request(op, h, from, at, count) ==
    [op |-> op, handle |-> h, from |-> from, at |-> at, count |-> count]
MCRequests ==
    {Request("readAt", h1, "cursor", 1, 2), Request("seek", h1, "cursor", 0, 1),
     Request("seek", h1, "end", 0, -2), Request("map", h1, "cursor", 0, 0)}
    \cup UNION {{Request("read", h, "cursor", 0, 1), Request("size", h, "cursor", 0, 0),
                 Request("close", h, "cursor", 0, 0)} : h \in {h1, h2}}
============================================================================
