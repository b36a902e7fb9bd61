-------------------------- MODULE MCXUserRequests --------------------------
(* An instance of XUserRequests for TLC: packages that are right, that expire
   on the way, and that are wrong in one respect each. *)
EXTENDS XUserRequests

Expiring(late, never) ==
    [p \in Parties |-> IF p = "xboxlive" THEN late ELSE never]
GoodDocument == [usable |-> TRUE, key |-> [length |-> TRUE, magic |-> TRUE], named |-> TRUE, licensing |-> "whole",
                 expiry |-> Expiring(2, 9)]
GoodPackage == [parent |-> TRUE, header |-> TRUE, intact |-> TRUE,
                issued |-> 0, expires |-> 2, document |-> GoodDocument]
With(document) == [GoodPackage EXCEPT !.document = document]
MCPackages ==
    [good |-> GoodPackage,
     old |-> With([GoodDocument EXCEPT !.expiry = Expiring(1, 9)]),
     partly |-> With([GoodDocument EXCEPT !.licensing = "part"]),
     keyless |-> With([GoodDocument EXCEPT !.key = [length |-> TRUE, magic |-> FALSE]]),
     strange |-> [GoodPackage EXCEPT !.parent = FALSE],
     garbled |-> [GoodPackage EXCEPT !.intact = FALSE],
     misled |-> [GoodPackage EXCEPT !.header = FALSE],
     lasting |-> [GoodPackage EXCEPT !.expires = 9]]

MCPlans == {{"query", "capture", "exit"}, {"query", "launch", "files", "network"}}

MCHeaderNames == {"", "accept", "Accept", "Host", "host", "custom"}
MCLowerCase == [n \in MCHeaderNames |-> CASE n = "Accept" -> "accept"
                                          [] n = "Host" -> "host" [] OTHER -> n]
MCValues == {"v", "w", "\n"}
Header(name, value) == [name |-> name, value |-> value]
Mixed == <<Header("Accept", "v"), Header("Host", "v"), Header("custom", "w"),
           Header("accept", "w")>>
Text(length) == [there |-> TRUE, length |-> length, ascii |-> TRUE]
Request(utf16, url, host, tail, headers) ==
    [utf16 |-> utf16, options |-> TRUE, method |-> Text(1), headers |-> headers, body |-> 2,
     url |-> [there |-> url.there, length |-> url.length, ascii |-> url.ascii,
              host |-> host, tail |-> tail]]
MCLimits == [method |-> 1, url |-> 3, units |-> 3, headers |-> 4, body |-> 2]
MCRequests ==
    [presence |-> Request(TRUE, Text(2), "xboxlive", "path", Mixed),
     purchase |-> Request(FALSE, Text(3), "store", "query", Mixed),
     unending |-> Request(TRUE, Text(3), "store", "query", <<>>),
     overlong |-> Request(FALSE, Text(4), "store", "query", <<>>),
     empty |-> Request(FALSE, Text(0), "none", "", <<>>),
     missing |-> Request(TRUE, [Text(0) EXCEPT !.there = FALSE], "none", "", <<>>),
     spoiled |-> Request(FALSE, Text(2), "xboxlive", "", <<Header("custom", "\n")>>)]
=============================================================================
