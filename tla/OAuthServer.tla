---------------------------- MODULE OAuthServer ----------------------------
(***************************************************************************)
(* http_server_get_oauth_token (build-hnp/horpkg/src/http_server.c), which *)
(* horpkg init and install wait in for the user's login: a server thread   *)
(* takes requests of the browser, the main thread a URL or token that is   *)
(* pasted, and they share g_received_token and g_server_should_stop        *)
(* without a lock.                                                         *)
(*                                                                         *)
(* A request is what extract_param finds in it.                            *)
(***************************************************************************)
EXTENDS Naturals, Sequences

CONSTANTS
  Tokens,          \* that the login page sends or the user pastes
  TIMEOUT,         \* of the server thread, in ticks of the clock: a number
  MaxRequests      \* connections of browsers

VARIABLES
  main, server,    \* where the threads are
  g_server_should_stop, g_received_token,
  queue,           \* requests that wait to be accepted
  request,         \* the one the server thread handles
  requests, age    \* made so far; ticks since the server thread started

vars == <<main, server, g_server_should_stop, g_received_token, queue, request, requests, age>>

NoToken == "none"
Cut == "cut"       \* the beginning of a token
Params(url, cookie) == [url |-> url, cookie |-> cookie]
NoRequest == Params(NoToken, NoToken)

Init ==
  /\ main = "setup" /\ server = "none"
  /\ g_server_should_stop = FALSE /\ g_received_token = NoToken
  /\ queue = <<>> /\ request = NoRequest /\ requests = 0 /\ age = 0

-----------------------------------------------------------------------------
(* The main thread *)

\* socket, bind, listen and pthread_create, or NULL when one fails.
StartServer ==
  /\ main = "setup"
  /\ g_server_should_stop' = FALSE /\ g_received_token' = NoToken
  /\ \/ main' = "wait" /\ server' = "loop"
     \/ main' = "failed" /\ UNCHANGED server
  /\ UNCHANGED <<queue, request, requests, age>>

\* The loop looks at the flag and then waits for input.
CheckStop ==
  /\ main = "wait" /\ main' = (IF g_server_should_stop THEN "join" ELSE "select")
  /\ UNCHANGED <<server, g_server_should_stop, g_received_token, queue, request, requests, age>>

\* Nothing comes within 100 ms, or nothing that could be a token.
NoInput ==
  /\ main = "select" /\ main' = "wait"
  /\ UNCHANGED <<server, g_server_should_stop, g_received_token, queue, request, requests, age>>

Paste ==
  /\ main = "select" /\ g_received_token' \in Tokens /\ main' = "pasted"
  /\ UNCHANGED <<server, g_server_should_stop, queue, request, requests, age>>

StopServer ==
  /\ main = "pasted" /\ g_server_should_stop' = TRUE /\ main' = "join"
  /\ UNCHANGED <<server, g_received_token, queue, request, requests, age>>

\* pthread_join: whichever token was written last is the result.
Join ==
  /\ main = "join" /\ server = "ended"
  /\ main' = (IF g_received_token = NoToken THEN "failed" ELSE "done")
  /\ UNCHANGED <<server, g_server_should_stop, g_received_token, queue, request, requests, age>>

-----------------------------------------------------------------------------
(* The server thread and the browser *)

\* A page of the login, with or without the token, in the URL or a cookie.
Browse ==
  /\ server # "none" /\ requests < MaxRequests /\ requests' = requests + 1
  /\ \E url, cookie \in Tokens \cup {NoToken} : queue' = Append(queue, Params(url, cookie))
  /\ UNCHANGED <<main, server, g_server_should_stop, g_received_token, request, age>>

\* The loop of server_thread ends when it should stop or its time is over.
ServerEnds ==
  /\ server = "loop" /\ (g_server_should_stop \/ age > TIMEOUT) /\ server' = "ended"
  /\ UNCHANGED <<main, g_server_should_stop, g_received_token, queue, request, requests, age>>

Accept ==
  /\ server = "loop" /\ ~g_server_should_stop /\ age <= TIMEOUT /\ queue # <<>>
  /\ request' = Head(queue) /\ queue' = Tail(queue) /\ server' = "handle"
  /\ UNCHANGED <<main, g_server_should_stop, g_received_token, requests, age>>

\* handle_request: the parameters before the cookie.  The rest of a body is
\* read once, which may give a part of it and cut the token.
TokenOf(r) == IF r.url # NoToken THEN {r.url, Cut} ELSE {r.cookie}

HandleRequest ==
  /\ server = "handle" /\ request' = NoRequest
  /\ \E token \in TokenOf(request) :
       IF token = NoToken
       THEN server' = "loop" /\ UNCHANGED g_received_token
       ELSE server' = "found" /\ g_received_token' = token
  /\ UNCHANGED <<main, g_server_should_stop, queue, requests, age>>

StopMain ==
  /\ server = "found" /\ g_server_should_stop' = TRUE /\ server' = "loop"
  /\ UNCHANGED <<main, g_received_token, queue, request, requests, age>>

Tick ==
  /\ server \notin {"none", "ended"} /\ age <= TIMEOUT /\ age' = age + 1
  /\ UNCHANGED <<main, server, g_server_should_stop, g_received_token, queue, request, requests>>

-----------------------------------------------------------------------------

Main == StartServer \/ CheckStop \/ NoInput \/ StopServer \/ Join
Server == ServerEnds \/ Accept \/ HandleRequest \/ StopMain

Next == Main \/ Paste \/ Server \/ Browse \/ Tick

\* Both threads run and time passes; nothing makes the user log in or paste.
Spec == Init /\ [][Next]_vars /\ WF_vars(Main) /\ WF_vars(Server) /\ WF_vars(Tick)

\* "Authentication timeout (5 minutes)": the wait for a login comes to an end.
AuthenticationEnds == main = "wait" ~> main \in {"done", "failed"}
=============================================================================
