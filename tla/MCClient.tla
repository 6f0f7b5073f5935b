------------------------------- MODULE MCClient -------------------------------
(***************************************************************************)
(* HttpClient, NetworkResources, Files, Lambda and BytecodeCache for TLC.  *)
(* They share no state, so one check looks at the behaviours of each, with *)
(* the others at a start of theirs.                                        *)
(***************************************************************************)
EXTENDS HttpClient, NetworkResources, Files, Lambda, BytecodeCache

CONSTANTS p1, p2, t1
MCPrograms == {p1, p2}
MCThreads == {t1}
ProgramsPermuted == Permutations(MCPrograms)

MCURLs == {URL("https", <<"a">>, <<>>), URL("https", <<"a">>, <<"p">>), URL("http", <<"a">>, <<>>),
           URL("https", <<"x", "a">>, <<>>), URL("https", <<"b">>, <<>>)}
MCSetCookies == {SetCookie(NoDomain, NoDomain, FALSE, "never"), SetCookie(<<"a">>, NoDomain, TRUE, "later"),
                 SetCookie(<<"a">>, <<"p">>, FALSE, "never"), SetCookie(<<"a">>, NoDomain, FALSE, "past"),
                 SetCookie(<<"b">>, NoDomain, FALSE, "never")}
MCOwnCookies == {[domain |-> NoDomain, secure |-> FALSE], [domain |-> <<"a">>, secure |-> TRUE]}
MCCalls == {Call("GET", FALSE, FALSE), Call("GET", FALSE, TRUE), Call("POST", TRUE, FALSE)}

\* The alerts and the configuration file of Lambda have nothing to do with one another.
VARIABLE part  \* the module whose steps the behaviour takes
Parts == {"client", "resources", "files", "alerts", "configuration", "cache"}

\* One start of a module that has several, for when another one moves.
OneHost == netCapabilities = CHOOSE c \in NetworkCapabilities : TRUE

Init ==
  /\ part \in Parts
  /\ ClientInit /\ FilesInit /\ LambdaInit
  /\ ResourcesInit /\ (part # "resources" => OneHost)
  /\ CacheInit /\ (part # "cache" => system = "posix")
Next ==
  /\ UNCHANGED part
  /\ \/ part = "client" /\ ClientNext /\ UNCHANGED <<resourceVars, fileVars, lambdaVars, cacheVars>>
     \/ part = "resources" /\ ResourcesNext /\ UNCHANGED <<clientVars, fileVars, lambdaVars, cacheVars>>
     \/ part = "files" /\ FilesNext /\ UNCHANGED <<clientVars, resourceVars, lambdaVars, cacheVars>>
     \/ part = "alerts" /\ AlertNext /\ UNCHANGED <<clientVars, resourceVars, fileVars, cacheVars>>
     \/ part = "configuration" /\ FileNext /\ UNCHANGED <<clientVars, resourceVars, fileVars, cacheVars>>
     \/ part = "cache" /\ CacheNext /\ UNCHANGED <<clientVars, resourceVars, fileVars, lambdaVars>>
Spec == Init /\ [][Next]_<<part, clientVars, resourceVars, fileVars, lambdaVars, cacheVars>>
=============================================================================
