------------------------------ MODULE Session ------------------------------
(***************************************************************************)
(* The session of the web interface: the token the store and localStorage  *)
(* keep (stores/auth.ts), the route guard (router/index.ts), the login     *)
(* form with the page it returns to (Login.vue), the interceptor that ends *)
(* the session on any 401, and the disclaimer shown at login (App.vue).    *)
(*                                                                         *)
(* A token is a number, NoToken the empty one; the server accepts the      *)
(* ones in valid (they expire, and all of them die with the password that  *)
(* signs them).  A route is its path; a navigation is one step.  Two equal *)
(* requests in flight count as one.                                        *)
(***************************************************************************)
EXTENDS Naturals

CONSTANTS Pages,      \* the paths that require a token
          MaxTokens   \* a bound: how many logins succeed

Login == "/login"
Home == "/"
Settings == "/settings"
Nowhere == ""         \* no path remembered
NoToken == 0             \* no token

VARIABLES valid,      \* the tokens the server accepts
          issued,     \* how many tokens it has given out
          token,      \* what the store, localStorage and the header hold
          page,       \* the path in location.hash
          redirect,   \* its ?redirect=
          stored,     \* sessionStorage post_login_redirect
          loggingIn,  \* the login form's loading
          shown,      \* showDisclaimer
          agreed,     \* when the disclaimer was agreed to
          calls,      \* the requests in flight, with the token they carry
          ejected     \* history: the page a 401 has taken the user from

vars == <<valid, issued, token, page, redirect, stored, loggingIn, shown,
          agreed, calls, ejected>>
server == <<valid, issued>>
route == <<page, redirect, stored, loggingIn, ejected>>
disclaimer == <<shown, agreed>>

Tokens == 1..MaxTokens
Call(kind) == [kind |-> kind, token |-> token]
Calls == [kind : {"read", "password", "login"}, token : Tokens \cup {NoToken}]

Init ==
  /\ valid = {} /\ issued = 0 /\ token = NoToken
  /\ page = Login /\ redirect = Nowhere /\ stored = Nowhere
  /\ loggingIn = FALSE /\ shown = FALSE /\ agreed = "never"
  /\ calls = {} /\ ejected = Nowhere

-----------------------------------------------------------------------------
(* The router and the shell. *)

\* a page without a token leads to the login page
Visit(p) ==
  LET to == IF p # Login /\ token = NoToken THEN Login ELSE p
  IN /\ page' = to /\ redirect' = Nowhere
     /\ loggingIn' = (loggingIn /\ page = Login /\ to = Login)
     /\ UNCHANGED <<server, token, stored, disclaimer, calls, ejected>>

\* the page reads something; the settings page may change the password
Read ==
  /\ page # Login /\ calls' = calls \cup {Call("read")}
  /\ UNCHANGED <<server, token, route, disclaimer>>

ChangePassword ==
  /\ page = Settings /\ calls' = calls \cup {Call("password")}
  /\ UNCHANGED <<server, token, route, disclaimer>>

Logout ==
  /\ page # Login /\ token # NoToken
  /\ token' = NoToken /\ shown' = FALSE
  /\ page' = Login /\ redirect' = Nowhere /\ loggingIn' = FALSE
  /\ UNCHANGED <<server, stored, agreed, calls, ejected>>

\* the tab is reloaded: localStorage, sessionStorage and the hash survive
Reload ==
  /\ calls' = {} /\ loggingIn' = FALSE
  /\ shown' = (token # NoToken /\ agreed # "recent")
  /\ UNCHANGED <<server, token, page, redirect, stored, agreed, ejected>>

-----------------------------------------------------------------------------
(* Requests and their answers. *)

\* a mutant: the page is carried in the query alone
UnauthorizedMutant ==
  /\ token' = NoToken /\ shown' = FALSE
  /\ page' = Login /\ stored' = stored
  /\ \/ page # Login /\ redirect' = page /\ ejected' = page
     \/ page = Login /\ redirect' = Nowhere /\ ejected' = ejected

\* any 401: back to the login page, and the session is gone
Unauthorized ==
  /\ token' = NoToken /\ shown' = FALSE
  /\ page' = Login
  /\ \/ /\ page # Login
        /\ redirect' = page /\ stored' = page /\ ejected' = page
     \/ /\ page = Login
        /\ redirect' = Nowhere /\ UNCHANGED <<stored, ejected>>

Answered(c) == /\ c.kind # "login" /\ c.token \in valid
               /\ calls' = calls \ {c}
               /\ valid' \in {valid} \cup (IF c.kind = "password" THEN {{}} ELSE {})
               /\ UNCHANGED <<issued, token, route, disclaimer>>

\* the token is not accepted, or the current password is wrong
Refused(c) == /\ c.kind # "login" /\ (c.token \notin valid \/ c.kind = "password")
              /\ calls' = calls \ {c}
              /\ Unauthorized
              /\ loggingIn' = (loggingIn /\ page = Login)
              /\ UNCHANGED <<server, agreed>>

Failed(c) == /\ calls' = calls \ {c}
             /\ loggingIn' = (loggingIn /\ c.kind # "login")
             /\ UNCHANGED <<server, token, page, redirect, stored, disclaimer, ejected>>

SendLogin ==
  /\ page = Login /\ ~loggingIn
  /\ loggingIn' = TRUE /\ calls' = calls \cup {Call("login")}
  /\ UNCHANGED <<server, token, page, redirect, stored, disclaimer, ejected>>

\* where a login leads
Landing == IF redirect # Nowhere THEN redirect ELSE stored

LoginSucceeds(c) ==
  /\ c.kind = "login" /\ issued < MaxTokens
  /\ issued' = issued + 1 /\ valid' = valid \cup {issued + 1}
  /\ token' = issued + 1
  /\ page' = IF Landing = Nowhere THEN Home ELSE Landing
  /\ redirect' = Nowhere /\ stored' = Nowhere /\ ejected' = Nowhere
  /\ loggingIn' = FALSE
  /\ shown' = IF token = NoToken THEN agreed # "recent" ELSE shown
  /\ calls' = calls \ {c}
  /\ UNCHANGED agreed

\* the answer to a wrong password passes the interceptor as well
LoginRefused(c) ==
  /\ c.kind = "login" /\ calls' = calls \ {c}
  /\ Unauthorized
  /\ loggingIn' = FALSE
  /\ UNCHANGED <<server, agreed>>

-----------------------------------------------------------------------------
(* The server's clock, and the disclaimer. *)

Expire(t) ==
  /\ t \in valid /\ valid' = valid \ {t}
  /\ UNCHANGED <<issued, token, route, disclaimer, calls>>

Accept ==
  /\ shown /\ shown' = FALSE /\ agreed' = "recent"
  /\ UNCHANGED <<server, token, route, calls>>

WeekPasses ==
  /\ agreed = "recent" /\ agreed' = "old"
  /\ UNCHANGED <<server, token, route, shown, calls>>

Next ==
  \/ \E p \in Pages \cup {Login} : Visit(p)
  \/ Read \/ ChangePassword \/ Logout \/ Reload \/ SendLogin
  \/ \E c \in calls : \/ Answered(c) \/ Refused(c) \/ Failed(c)
                      \/ LoginSucceeds(c) \/ LoginRefused(c)
  \/ \E t \in valid : Expire(t)
  \/ Accept \/ WeekPasses

Spec == Init /\ [][Next]_vars

-----------------------------------------------------------------------------
(* The types, and no page but the login page is shown without a token.     *)
TypeOK ==
  /\ valid \subseteq 1..issued /\ issued \in 0..MaxTokens
  /\ token \in 0..issued /\ calls \subseteq Calls
  /\ page \in Pages \cup {Login} /\ (page # Login => token # NoToken)
  /\ {redirect, stored, ejected} \subseteq Pages \cup {Nowhere}
  /\ loggingIn \in BOOLEAN /\ shown \in BOOLEAN
  /\ agreed \in {"never", "recent", "old"}

(* However many requests are refused after the first, whatever logins fail *)
(* and however often the page is reloaded, the login leads back to the     *)
(* page the first 401 took the user from (interceptor, handleLogin).       *)
RedirectRemembered == ejected # Nowhere => Landing = ejected

(* No one uses the interface without having agreed to the disclaimer, a    *)
(* reload of the page included (the immediate watch of App.vue).           *)
DisclaimerFirst == token # NoToken /\ agreed = "never" => shown

(* A page is not left for the login page while the server accepts its      *)
(* token, unless the user logs out: a 401 says that the session is over.   *)
(* It is left: a wrong current password, and a late 401 of an earlier      *)
(* token, end a good session (handleChangePassword of the server, and the  *)
(* interceptor of stores/auth.ts).                                         *)
SessionKept ==
  [][page # Login /\ token \in valid /\ token' = NoToken => Logout]_vars
=============================================================================
