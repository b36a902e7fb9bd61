----------------------------- MODULE TokenRules -----------------------------
(***************************************************************************)
(* Which token a request of the game gets, and what its signature covers:  *)
(* the pure part of src/core/xuser_bridge/token.rs and crypto.rs.          *)
(*                                                                         *)
(* A request: [utf16, options, method, url, headers, body]: which of the   *)
(* two functions it is made through, a method and a url, each of them      *)
(* [there, length, ascii] and the url a host and what comes after it, the  *)
(* headers in the caller's order, the body's length.                       *)
(***************************************************************************)
EXTENDS Naturals, Sequences

CONSTANTS
    HeaderNames, \* as the game spells them
    LowerCase,   \* to_ascii_lowercase: [HeaderNames -> HeaderNames]
    Values,      \* of headers
    BodyLimit,   \* DEFAULT_XBOX_MAX_BODY_BYTES
    Limits       \* MAX_...: [method, url, units, headers, body]

(* Kinds of hosts: licensing.xboxlive.com and its like, the store's at
   mp.microsoft.com, device.mgt and data-vef.xboxlive.com, others below
   xboxlive.com, PlayFab, the multiplayer service, Realms, none of these, and
   a url without a host. *)
Hosts == {"licensing", "store", "device", "xboxlive", "playfab", "multiplayer",
          "realms", "custom", "none"}
Tails == {"", "path", "query", "path and fragment", "fragment"}
Transport == {"authorization", "signature", "host", "content-length"}

ASSUME TokenRulesAssumption ==
    /\ LowerCase \in [HeaderNames -> HeaderNames]
    /\ BodyLimit \in Nat \ {0}
    /\ Limits \in [{"method", "url", "units", "headers", "body"} -> Nat]
    /\ Limits["method"] < Limits["units"] /\ Limits["url"] <= Limits["units"]

TokenRequests ==
    [utf16 : BOOLEAN, options : BOOLEAN,
     method : [there : BOOLEAN, length : Nat, ascii : BOOLEAN],
     url : [there : BOOLEAN, length : Nat, ascii : BOOLEAN, host : Hosts, tail : Tails],
     headers : Seq([name : HeaderNames, value : Values]), body : Nat]

(* relying_party_for_url *)
RelyingParty(host) ==
    CASE host \in {"licensing", "store"} -> "licensing"
      [] host \in {"playfab", "multiplayer", "realms"} -> host
      [] OTHER -> "xboxlive"

(* request_target_from_url: the path and the query, "/" in front of a query
   and for nothing; a url without "://" has none. *)
NoTarget == "no target"
RequestTarget(url) ==
    IF url.host = "none" THEN NoTarget
    ELSE CASE url.tail \in {"", "fragment"} -> "/"
           [] url.tail \in {"path", "path and fragment"} -> "path"
           [] url.tail = "query" -> "/query"

(* copy_ansi_headers, copy_utf16_headers, validate_header: names and values
   that HTTP does not allow spoil the request, names become lower case. *)
Valid(headers) == \A i \in DOMAIN headers : headers[i].name # "" /\ headers[i].value # "\n"
Copied(headers) == [i \in DOMAIN headers |-> [headers[i] EXCEPT !.name = LowerCase[@]]]

-----------------------------------------------------------------------------
(***************************************************************************)
(* What a request is refused for before a token is looked for.  The two    *)
(* functions look in different orders, and for different things.           *)
(***************************************************************************)
Fine == "fine"
Unless(condition, refusal) == IF condition THEN Fine ELSE refusal
FirstOf(checks) ==
    IF \A i \in DOMAIN checks : checks[i] = Fine THEN Fine
    ELSE checks[CHOOSE i \in DOMAIN checks :
                    checks[i] # Fine /\ \A j \in 1..(i - 1) : checks[j] = Fine]

AnsiText(text, limit) == Unless(text.length <= limit /\ text.ascii, "argument")

(* utf16_to_string_bounded looks for the end among the first of MAX_UTF16_INPUT_UNITS
   units: what is as long as that has none. *)
Utf16Text(text, limit) ==
    IF ~text.there THEN "pointer"
    ELSE Unless(text.length <= limit /\ text.length < Limits["units"] /\ text.ascii,
                "argument")

(* get_token_and_signature_async *)
AnsiChecks(request) ==
    <<Unless(/\ request.method.there /\ request.url.there
             /\ Len(request.headers) <= Limits["headers"], "pointer"),
      Unless(Valid(request.headers), "argument"),
      AnsiText(request.method, Limits["method"]), AnsiText(request.url, Limits["url"])>>
(* get_token_and_signature_utf16_async *)
Utf16Checks(request) ==
    <<Unless(Len(request.headers) <= Limits["headers"], "pointer"),
      Unless(Valid(request.headers), "argument"),
      Utf16Text(request.method, Limits["method"]), Utf16Text(request.url, Limits["url"])>>
(* begin_token_request, of both. *)
CommonChecks(request) ==
    <<Unless(/\ request.options /\ request.body <= Limits["body"]
             /\ request.method.length > 0 /\ request.url.length > 0, "argument")>>

Refusal(request) ==
    FirstOf((IF request.utf16 THEN Utf16Checks(request) ELSE AnsiChecks(request))
            \o CommonChecks(request))

-----------------------------------------------------------------------------
(* SigningPolicy::caller_headers: every name once, where it comes first,
   but those the transport sets. *)
CallerHeaders(headers) ==
    LET Named(i) == headers[i].name
        First(i) == \A j \in 1..(i - 1) : Named(j) # Named(i)
        names[n \in 0..Len(headers)] ==
            IF n = 0 THEN <<>>
            ELSE IF Named(n) \notin Transport /\ First(n) THEN Append(names[n - 1], Named(n))
            ELSE names[n - 1]
    IN names[Len(headers)]

(* signing_policy_for_url: Xbox services sign no header, and only the two
   sign the whole body; unknown hosts sign all that the caller gives. *)
Policy(host, headers) ==
    CASE host = "device" -> [names |-> <<>>, limited |-> FALSE]
      [] host \in {"licensing", "xboxlive"} -> [names |-> <<>>, limited |-> TRUE]
      [] OTHER -> [names |-> CallerHeaders(headers), limited |-> FALSE]

(* select_policy_header_values: of each name its first value. *)
PolicyValues(headers, names) ==
    [i \in DOMAIN names |->
        headers[CHOOSE j \in DOMAIN headers :
                    /\ headers[j].name = names[i]
                    /\ \A k \in 1..(j - 1) : headers[k].name # names[i]].value]

(* What sign_request is given: [method, target, values, body]. *)
Covered(request) ==
    LET headers == Copied(request.headers)
        policy == Policy(request.url.host, headers)
    IN [method |-> request.method, target |-> RequestTarget(request.url),
        values |-> PolicyValues(headers, policy.names),
        body |-> IF policy.limited /\ request.body > BodyLimit
                 THEN BodyLimit ELSE request.body]
=============================================================================
