----------------------------- MODULE WebSessions ------------------------------
(***************************************************************************)
(* Who a request is from, and which page answers it: the cookies of a HTTP *)
(* server with authentication.  Source: http_cookies.cpp, http_server.cpp. *)
(*                                                                         *)
(* The cookies have a mutex that each operation takes and releases: a      *)
(* request that calls two of them can be overtaken in between.             *)
(***************************************************************************)
EXTENDS Integers, FiniteSets

CONSTANTS
    Browsers,
    WebUsers,
    CookieAge,      \* the age from which a cookie is removed
    MaxWebTime      \* bound: the clock (the code: time())

\* A name of a user is no key: keys are long and random, here numbers.
ASSUME WebAssumption ==
    /\ CookieAge \in Nat /\ MaxWebTime \in Nat
    /\ \A user \in WebUsers : user \notin Nat

VARIABLES
    web,       \* the cookies, the clock and what the server is configured to serve
    browser    \* by browser: its cookie, and the request it waits for

webVars == <<web, browser>>

NoUser == "nobody"
NoKey == 0

\* One key is made per cookie, here a number; none is made twice.  seen: when the
\* cookie was made, or last presented and found.
WebInit ==
    /\ \E admin, archive, rest \in BOOLEAN :
          web = [cookies |-> {}, keys |-> 0, now |-> 0,
                 admin |-> admin, archive |-> archive, rest |-> rest]
    /\ browser = [b \in Browsers |-> [key |-> NoKey, seen |-> 0, at |-> "idle", path |-> "none",
                                      user |-> NoUser, page |-> "none"]]

CookiesOf(user) == {c \in web.cookies : c.user = user}
WithKey(key) == {c \in web.cookies : c.key = key}

-----------------------------------------------------------------------------
(* http_cookies.                                                           *)

WebTime ==
    /\ web.now < MaxWebTime
    /\ web' = [web EXCEPT !.now = @ + 1]
    /\ UNCHANGED browser

\* After each connection that was accepted.
CleanCookies ==
    /\ web' = [web EXCEPT !.cookies = {c \in @ : ~(c.since + CookieAge < web.now)}]
    /\ UNCHANGED browser

\* The cookie the user has already, as old as it is, or a new one.
NewCookie(user) == [key |-> web.keys + 1, user |-> user, since |-> web.now]

GetCookie(user) ==
    IF CookiesOf(user) # {} THEN CHOOSE c \in CookiesOf(user) : TRUE ELSE NewCookie(user)

AddCookie(c) ==
    IF c \in web.cookies THEN web
    ELSE [web EXCEPT !.cookies = @ \cup {c}, !.keys = @ + 1]

UpdateNothing(key) == web.cookies

UpdateCookie(key) ==
    {IF c.key = key THEN [c EXCEPT !.since = web.now] ELSE c : c \in web.cookies}

\* What is compared is the key, with the name of the user.
DeleteCookieForUser(user) == {c \in web.cookies : c.key # user}

-----------------------------------------------------------------------------
(* Requests.                                                               *)

Paths == {"stylesheet.css", "auth.html", "do-auth", "logout", "stream.mjpeg", "index.html",
          "view-snapshots", "rest/", "pause", "elsewhere"}

OpenPages == {"stylesheet.css", "auth.html", "do-auth"}

\* The first test that holds decides.
PageOf(path, auth_ok) ==
    IF path \in OpenPages THEN path
    ELSE IF ~auth_ok THEN "redirect"
    ELSE IF path \in {"logout", "stream.mjpeg", "index.html"} THEN path
    ELSE IF path = "view-snapshots" /\ (web.archive \/ web.admin) THEN path
    ELSE IF path = "rest/" /\ web.rest THEN path
    ELSE IF path = "pause" /\ web.admin THEN path
    ELSE "404"

Requests(b) ==
    /\ browser[b].at = "idle"
    /\ \E path \in Paths : browser' = [browser EXCEPT ![b].at = "authorize", ![b].path = path]
    /\ UNCHANGED web

Serve(b, user) ==
    [browser EXCEPT ![b].at = "page", ![b].user = user,
                    ![b].page = PageOf(browser[b].path, user # NoUser)]

\* A name and a password in the header: they alone decide.  A cookie is sent back.
AuthorizeHeader(b) ==
    /\ browser[b].at = "authorize"
    /\ \/ /\ browser' = Serve(b, NoUser)
          /\ UNCHANGED web
       \/ \E user \in WebUsers :
             LET c == GetCookie(user)
             IN /\ web' = AddCookie(c)
                /\ browser' = [Serve(b, user) EXCEPT ![b].key = c.key, ![b].seen = c.since]

\* The cookie of the browser: whose it is ...
AuthorizeCookie(b) ==
    /\ browser[b].at = "authorize"
    /\ IF WithKey(browser[b].key) = {}
       THEN browser' = Serve(b, NoUser)
       ELSE \E c \in WithKey(browser[b].key) :
               browser' = [browser EXCEPT ![b].at = "update", ![b].user = c.user]
    /\ UNCHANGED web

\* ... and, when it is still there, that it was used.
AuthorizeUpdate(b) ==
    /\ browser[b].at = "update"
    /\ web' = [web EXCEPT !.cookies = UpdateCookie(browser[b].key)]
    /\ browser' = IF WithKey(browser[b].key) = {} THEN Serve(b, browser[b].user)
                  ELSE [Serve(b, browser[b].user) EXCEPT ![b].seen = web.now]

WebAnswered(b) ==
    [browser EXCEPT ![b].at = "idle", ![b].path = "none", ![b].user = NoUser, ![b].page = "none"]

\* The form with a name and a password: wrong, or right.
DoAuth(b) ==
    /\ browser[b].at = "page" /\ browser[b].page = "do-auth"
    /\ \/ /\ browser' = WebAnswered(b)
          /\ UNCHANGED web
       \/ \E user \in WebUsers :
             LET c == GetCookie(user)
             IN /\ web' = AddCookie(c)
                /\ browser' = [WebAnswered(b) EXCEPT ![b].key = c.key, ![b].seen = c.since]

\* The browser is told to forget its cookie.
Logout(b) ==
    /\ browser[b].at = "page" /\ browser[b].page = "logout"
    /\ web' = [web EXCEPT !.cookies = DeleteCookieForUser(browser[b].user)]
    /\ browser' = [WebAnswered(b) EXCEPT ![b].key = NoKey, ![b].seen = 0]

OtherPage(b) ==
    /\ browser[b].at = "page" /\ browser[b].page \notin {"do-auth", "logout"}
    /\ browser' = WebAnswered(b)
    /\ UNCHANGED web

-----------------------------------------------------------------------------
Browse(b) ==
    \/ Requests(b) \/ AuthorizeHeader(b) \/ AuthorizeCookie(b) \/ AuthorizeUpdate(b)
    \/ DoAuth(b) \/ Logout(b) \/ OtherPage(b)

WebNext == WebTime \/ CleanCookies \/ \E b \in Browsers : Browse(b)

WebSpec == WebInit /\ [][WebNext]_webVars

\* A session that is in use is not lost: the cookie of a browser is known as long
\* as it was made, or last presented, at most CookieAge ago.  A user has one
\* cookie, and the pages behind the authentication go to known users only.
SessionsKept ==
    /\ \A b \in Browsers :
          browser[b].key # NoKey /\ web.now <= browser[b].seen + CookieAge
             => WithKey(browser[b].key) # {}
    /\ \A c, d \in web.cookies : c.user = d.user \/ c.key = d.key => c = d
    /\ \A b \in Browsers :
          browser[b].page \in Paths \ OpenPages => browser[b].user \in WebUsers
=============================================================================
