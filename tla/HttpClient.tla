------------------------------ MODULE HttpClient ------------------------------
(***************************************************************************)
(* http_request of reference/separan/http_client.py with the cookie jar of *)
(* cookies.py: a request follows the redirects of servers that answer what *)
(* they like, and the jar collects their cookies on the way.               *)
(*                                                                         *)
(* A host is the sequence of its labels and a path that of its segments.   *)
(* All cookies have one name, so that they compete.  Of the headers the    *)
(* model keeps whether they hold Authorization.                            *)
(*                                                                         *)
(* An operator named X_Mistake is X with one mistake in it; no action uses *)
(* it, it shows which property would notice.                               *)
(***************************************************************************)
EXTENDS Naturals, Sequences, FiniteSets, SequencesExt

CONSTANTS MaxRedirects,  \* the option max_redirects
          URLs,          \* the addresses that servers and the program know
          SetCookies,    \* the Set-Cookie headers that servers send
          OwnCookies,    \* domain and secure of the cookies the program sets
          Calls,         \* the options of its calls
          MaxCookies     \* bound: cookies in the jar

ASSUME ClientAssumption == MaxRedirects \in Nat /\ MaxCookies \in Nat

URL(scheme, host, path) == [scheme |-> scheme, host |-> host, path |-> path]
Origin(url) == <<url.scheme, url.host>>
NoDomain == <<"no domain">>

\* A host has a label at least; a text with a space in it is no host.
HostNames == Seq(STRING) \ {<<>>, NoDomain}
ASSUME AddressesAssumption ==
  URLs \subseteq [scheme : {"http", "https"}, host : HostNames, path : Seq(STRING)]
ASSUME CookiesAssumption ==
  /\ SetCookies \subseteq [domain : HostNames \cup {NoDomain}, path : Seq(STRING), secure : BOOLEAN,
                           expires : {"never", "later", "past"}]
  /\ OwnCookies \subseteq [domain : HostNames \cup {NoDomain}, secure : BOOLEAN]

Cookie(setter, domain, path, secure, host_only, expires) ==
  [setter |-> setter, domain |-> domain, path |-> path, secure |-> secure, host_only |-> host_only,
   expires |-> expires, hosts |-> {}]

VARIABLES
  jar,       \* the cookies, oldest first, each with its setter and where it was sent
  request,   \* the call in progress
  sent       \* what the last exchange carried

clientVars == <<jar, request, sent>>
NoRequest == [none |-> TRUE]
NoSent    == [nothing |-> TRUE]
Requesting == request # NoRequest

----------------------------------------------------------------------------
(* cookies.py                                                              *)

\* The cookies that a list comprehension keeps.
Those(cookies, keep) ==
  LET upTo[n \in 0..Len(cookies)] ==
        IF n = 0 THEN <<>> ELSE IF n \in keep THEN Append(upTo[n - 1], cookies[n]) ELSE upTo[n - 1]
  IN  upTo[Len(cookies)]

\* _store: the same domain and path replaces; what is past only removes.
Stored(cookies, c) ==
  LET others == Those(cookies, {k \in DOMAIN cookies :
                                  ~(cookies[k].domain = c.domain /\ cookies[k].path = c.path)})
  IN  IF c.expires = "past" THEN others ELSE Append(others, c)
Live(cookies) == Those(cookies, {k \in DOMAIN cookies : cookies[k].expires # "past"})

\* cookie_header gives every cookie the program set without a domain the host of
\* the first request it is looked at for.
Bound_Never(cookies, host) == Live(cookies)
Bound(cookies, host) ==
  [k \in DOMAIN Live(cookies) |->
     LET c == Live(cookies)[k]
     IN  IF c.domain = NoDomain THEN [c EXCEPT !.domain = host, !.host_only = TRUE] ELSE c]

DomainMatch(host, c) ==
  \/ c.domain = NoDomain
  \/ IF c.host_only THEN host = c.domain ELSE IsSuffix(c.domain, host)
TransportMatch_Any(url, c) == TRUE
TransportMatch(url, c) == c.secure => url.scheme = "https"
Selected(cookies, url) ==
  {k \in DOMAIN cookies : /\ DomainMatch(url.host, cookies[k]) /\ IsPrefix(cookies[k].path, url.path)
                          /\ TransportMatch(url, cookies[k])}
\* They are sorted, longer paths first and older ones first; of one name the
\* values of _request keep the last.
Sends(cookies, url) ==
  CHOOSE k \in Selected(cookies, url) : \A j \in Selected(cookies, url) \ {k} :
    \/ Len(cookies[j].path) > Len(cookies[k].path)
    \/ Len(cookies[j].path) = Len(cookies[k].path) /\ j < k

\* cookie_set, cookie_remove and cookie_clear; with one name the latter are one.
CookieSet(domain, secure) ==
  /\ ~Requesting /\ Len(jar) < MaxCookies
  /\ jar' = Stored(jar, Cookie(NoDomain, domain, <<>>, secure, domain = NoDomain, "never"))
  /\ UNCHANGED <<request, sent>>
CookieClear == ~Requesting /\ jar # <<>> /\ jar' = <<>> /\ UNCHANGED <<request, sent>>

TimePasses(k) ==
  /\ jar[k].expires = "later" /\ jar' = [jar EXCEPT ![k].expires = "past"]
  /\ UNCHANGED <<request, sent>>

\* receive_cookies: the domain of a server is its own or one above; without an
\* attribute the cookie is for its host only and the directory of the path.
SetCookie(domain, path, secure, expires) ==
  [domain |-> domain, path |-> path, secure |-> secure, expires |-> expires]
DomainAllowed_Any(set, host) == TRUE
DomainAllowed(set, host) == set.domain = NoDomain \/ IsSuffix(set.domain, host)
Received(set, url) ==
  Cookie(url.host, IF set.domain = NoDomain THEN url.host ELSE set.domain,
         IF set.path # NoDomain THEN set.path ELSE IF url.path = <<>> THEN <<>> ELSE Front(url.path),
         set.secure, set.domain = NoDomain, set.expires)

----------------------------------------------------------------------------
(* http_client.py                                                          *)

Call(method, authorized, explicit) ==
  [method |-> method, body |-> method = "POST", authorized |-> authorized, explicit |-> explicit]
ASSUME CallsAssumption ==
  Calls \subseteq {Call(method, authorized, explicit) :
                    method \in {"GET", "POST"}, authorized \in BOOLEAN, explicit \in BOOLEAN}
BeginRequest(url, call) ==
  /\ ~Requesting /\ sent' = NoSent
  /\ request' = [visited |-> <<url>>, method |-> call.method, body |-> call.body,
                 authorized |-> call.authorized, explicit |-> call.explicit]
  /\ UNCHANGED jar

Current == Last(request.visited)
Initial == Head(request.visited)

\* The request of one turn of the loop: the cookies of the jar for this address,
\* then the explicit ones, to the first origin only.
Explicit_Everywhere(url) == request.explicit
Explicit(url) == request.explicit /\ Origin(url) = Origin(Initial)
Carries(url, cookies) ==
  [url |-> url, initial |-> Initial, method |-> request.method, body |-> request.body,
   authorized |-> request.authorized, explicit |-> Explicit(url),
   cookie |-> IF Explicit(url) \/ Selected(cookies, url) = {} THEN 0 ELSE Sends(cookies, url),
   secure |-> ~Explicit(url) /\ Selected(cookies, url) # {} /\ cookies[Sends(cookies, url)].secure]

\* The target of a redirect that may be followed, and the request that follows.
Follows_Twice(target) ==
  Len(request.visited) <= MaxRedirects /\ ~(Current.scheme = "https" /\ target.scheme = "http")
Follows_Unbounded(target) ==
  /\ ~(Current.scheme = "https" /\ target.scheme = "http")
  /\ target \notin ToSet(request.visited)
Follows(target) == Len(request.visited) <= MaxRedirects /\ Follows_Unbounded(target)
Authorized_SameHost(target) == request.authorized /\ target.host = Initial.host
Authorized(target) == request.authorized /\ Origin(target) = Origin(Current)
Redirected_BodyKept(target, status) ==
  [request EXCEPT !.visited = Append(@, target), !.authorized = Authorized(target),
     !.method = IF status = 303 THEN "GET" ELSE @]
Redirected(target, status) ==
  [Redirected_BodyKept(target, status) EXCEPT !.body = @ /\ status # 303]

\* One turn: what is sent; a cookie of the answer that is refused ends it with an
\* error, otherwise the cookies are kept and the answer is the result, one the
\* checks refuse, or a redirect.  303 stands for 301 and 302 too.
Exchange ==
  /\ Requesting
  /\ LET url     == Current
         bound   == Bound(jar, url.host)
         carried == Carries(url, bound)
         kept    == IF carried.cookie = 0 THEN bound
                    ELSE [bound EXCEPT ![carried.cookie].hosts = @ \cup {url.host}]
     IN  /\ sent' = carried
         /\ \/ \E set \in SetCookies : /\ ~DomainAllowed(set, url.host)
                                      /\ jar' = kept /\ request' = NoRequest
            \/ /\ jar' \in {kept} \cup {Stored(kept, Received(set, url)) :
                                      set \in {c \in SetCookies : DomainAllowed(c, url.host)}}
               /\ Len(jar') <= MaxCookies
               /\ \/ request' = NoRequest
                  \/ \E target \in URLs, status \in {303, 307} :
                       Follows(target) /\ request' = Redirected(target, status)

\* The transport fails, or the answer is larger than max_bytes.
TransportFails ==
  /\ Requesting /\ request' = NoRequest
  /\ sent' = Carries(Current, Bound(jar, Current.host)) /\ jar' = Bound(jar, Current.host)

----------------------------------------------------------------------------
ClientInit == jar = <<>> /\ request = NoRequest /\ sent = NoSent

ClientNext ==
  \/ \E own \in OwnCookies : CookieSet(own.domain, own.secure)
  \/ CookieClear \/ Exchange \/ TransportFails
  \/ \E k \in DOMAIN jar : TimePasses(k)
  \/ \E url \in URLs, call \in Calls : BeginRequest(url, call)

ClientSpec == ClientInit /\ [][ClientNext]_clientVars

----------------------------------------------------------------------------
\* Every variable has its type.
ClientTypeOK ==
  /\ Len(jar) <= MaxCookies
  /\ Requesting => /\ request.visited \in SeqOf(URLs, MaxRedirects + 1)
                   /\ {request.authorized, request.explicit, request.body} \subseteq BOOLEAN
                   /\ request.method \in {"GET", "POST"}

\* "Domain, path, expiry, and transport security are checked before every send"
\* (spec/cookies.md): a cookie for one host is only ever sent to one, also when
\* the program set it without a host and its first request was redirected.
HostOnlyStays ==
  \A k \in DOMAIN jar : jar[k].host_only => Cardinality(jar[k].hosts) <= 1

\* A cookie for a domain stays below it: none reaches a host that shares no
\* domain with the server that set the cookie.
DomainStays ==
  \A k \in DOMAIN jar : jar[k].setter # NoDomain =>
    \A host \in jar[k].hosts : Last(host) = Last(jar[k].setter)

\* A secure cookie never travels in the clear, in a chain of redirects or not.
SecureStays == sent # NoSent /\ sent.secure => sent.url.scheme = "https"

\* "Explicit one-shot cookies never cross an origin-changing redirect"
\* (spec/cookies.md), and Authorization is gone for good once the origin changed,
\* whether or not a later redirect comes back.
ExplicitStays == sent # NoSent /\ sent.explicit => Origin(sent.url) = Origin(sent.initial)
AuthorizationStays == sent # NoSent /\ sent.authorized => Origin(sent.url) = Origin(sent.initial)

\* "Redirect loops are errors", "max_redirects counts followed redirects",
\* "HTTPS-to-HTTP downgrade redirects are rejected" (spec/http.md).
RedirectsSound ==
  Requesting => /\ IsInjective(request.visited) /\ Len(request.visited) <= MaxRedirects + 1
                /\ \A j, k \in DOMAIN request.visited :
                     j < k /\ request.visited[j].scheme = "https" => request.visited[k].scheme = "https"

\* A redirect that changes the method leaves the body behind.
BodyWithMethod == sent # NoSent /\ sent.body => sent.method = "POST"

\* Of two cookies of one name the one for the more specific path is sent.
MostSpecificSent ==
  sent # NoSent /\ sent.cookie \in DOMAIN jar =>
    \A k \in Selected(jar, sent.url) : Len(jar[k].path) <= Len(jar[sent.cookie].path)

\* The five about cookies together: a cookie goes where it may.
CookiesStay == ClientTypeOK /\ HostOnlyStays /\ DomainStays /\ SecureStays /\ ExplicitStays

\* The three about the requests of a chain together.
RequestsSound == AuthorizationStays /\ RedirectsSound /\ BodyWithMethod
=============================================================================
