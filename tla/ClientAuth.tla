----------------------------- MODULE ClientAuth -----------------------------
(***************************************************************************)
(* The login of one browser tab: lib/api/client.ts keeps the access token  *)
(* in memory and renews it with the refresh cookie when a request is       *)
(* refused, one renewal for all requests that wait; useAuth restores,      *)
(* enters and leaves the login.  The cookie is rotated by every renewal    *)
(* and shared with the other tabs; the backend refuses an old one.  Access *)
(* tokens are only there or not: whether one has expired is the server's   *)
(* answer.                                                                 *)
(***************************************************************************)
EXTENDS Naturals

CONSTANTS
    Reqs,          \* requests of the page, each sent any number of times
    MaxRotations   \* bound: refresh tokens issued

VARIABLES
    cookie, valid, \* refresh token of the browser (0: none), and those not revoked
    issued,        \* number of refresh tokens so far
    api, store,    \* is there an access token in client.ts, in useAuthStore
    user,          \* is somebody shown as logged in
    req,           \* request -> where it is
    renew,         \* who renews ("shared": tryRefresh, "init": initAuth) -> how far
    page           \* what useAuth is at

vars == <<cookie, valid, issued, api, store, user, req, renew, page>>

InFlight == {"sent", "again", "waiting"}
\* A renewal: not running, asked with a cookie, which is found valid, granted a
\* new one, or refused.
Idle     == <<"idle", 0>>
Asked    == <<"asked", cookie>>
Waiting  == {r \in Reqs : req[r] = "waiting"}
Settle(rs, how) == req' = [r \in Reqs |-> IF r \in rs THEN how ELSE req[r]]

\* A refresh token in the place of others.
Issue(others) ==
    /\ issued < MaxRotations /\ issued' = issued + 1
    /\ valid' = (valid \ others) \cup {issued + 1}

\* storeLogout and setAccessToken(null).
SignOut == user' = FALSE /\ store' = FALSE /\ api' = FALSE

Init ==
    /\ cookie \in {0, 1} /\ valid \in SUBSET ({cookie} \ {0}) /\ issued = 1
    /\ api = FALSE /\ store = FALSE /\ user \in BOOLEAN
    /\ req = [r \in Reqs |-> "settled"]
    /\ renew = [k \in {"shared", "init"} |-> Idle]
    /\ page = "loading"
-----------------------------------------------------------------------------
(* client.ts *)

Send(r) ==
    /\ req[r] = "settled" /\ req' = [req EXCEPT ![r] = "sent"]
    /\ UNCHANGED <<cookie, valid, issued, api, store, user, renew, page>>

\* An answer other than 401, or none.  The second attempt settles with any.
Answered(r) ==
    /\ req[r] \in {"sent", "again"} /\ req' = [req EXCEPT ![r] = "settled"]
    /\ UNCHANGED <<cookie, valid, issued, api, store, user, renew, page>>

\* 401 to the first attempt: wait for the renewal that runs, or start one.
Refused(r) ==
    /\ req[r] = "sent"
    /\ req' = [req EXCEPT ![r] = "waiting"]
    /\ renew' = IF renew["shared"] = Idle THEN [renew EXCEPT !["shared"] = Asked] ELSE renew
    /\ UNCHANGED <<cookie, valid, issued, api, store, user, page>>

\* AuthService.refresh: the row of the cookie is read without a lock, so that two
\* renewals may find the same one valid ...
FindToken(k) ==
    /\ renew[k][1] = "asked"
    /\ LET v == renew[k][2] IN
       renew' = [renew EXCEPT ![k] = IF v \in valid THEN <<"found", v>> ELSE <<"refused", 0>>]
    /\ UNCHANGED <<cookie, valid, issued, api, store, user, req, page>>
\* ... and rotated.  That all tokens are revoked when an old one is sent is
\* rolled back with the exception that refuses it.
Rotate(k) ==
    /\ renew[k][1] = "found" /\ Issue({renew[k][2]})
    /\ renew' = [renew EXCEPT ![k] = <<"granted", issued + 1>>]
    /\ UNCHANGED <<cookie, api, store, user, req, page>>

\* tryRefresh: the token is in memory only, and those that wait send again.
Renewed ==
    /\ renew["shared"][1] = "granted"
    /\ cookie' = renew["shared"][2] /\ api' = TRUE
    /\ renew' = [renew EXCEPT !["shared"] = Idle]
    /\ Settle(Waiting, "again")
    /\ UNCHANGED <<valid, issued, store, user, page>>

\* Mutant: who waits is not told of the failure.
RenewalFailsAlone ==
    /\ renew["shared"] # Idle
    /\ SignOut
    /\ renew' = [renew EXCEPT !["shared"] = Idle]
    /\ UNCHANGED <<cookie, valid, issued, req, page>>

\* Refused, or the network failed before or after the server acted: the
\* handler of useAuth signs out, and those that wait fail.
RenewalFails ==
    /\ renew["shared"] # Idle
    /\ SignOut
    /\ renew' = [renew EXCEPT !["shared"] = Idle]
    /\ Settle(Waiting, "settled")
    /\ UNCHANGED <<cookie, valid, issued, page>>
-----------------------------------------------------------------------------
(* useAuth.  What a 401 does to the requests for the profile, the login    *)
(* and the logout is what it does to those in Reqs.                        *)

\* The effect of a component that is mounted copies the store's token, which
\* tryRefresh does not write.
MountSync ==
    /\ api' = store
    /\ UNCHANGED <<cookie, valid, issued, store, user, req, renew, page>>

InitAuth ==
    /\ page = "loading"
    /\ \/ api /\ page' = "ready" /\ renew' = renew
       \/ ~api /\ page' = "init" /\ renew' = [renew EXCEPT !["init"] = Asked]
    /\ UNCHANGED <<cookie, valid, issued, api, store, user, req>>

InitGranted ==
    /\ renew["init"][1] = "granted"
    /\ cookie' = renew["init"][2] /\ api' = TRUE /\ store' = TRUE
    /\ renew' = [renew EXCEPT !["init"] = Idle]
    /\ page' = IF user THEN "ready" ELSE "profile"
    /\ UNCHANGED <<valid, issued, user, req>>

\* 401 signs out without a word, any other failure keeps the user.
InitRefused ==
    /\ renew["init"][1] = "refused"
    /\ user' = FALSE /\ store' = FALSE
    /\ renew' = [renew EXCEPT !["init"] = Idle] /\ page' = "ready"
    /\ UNCHANGED <<cookie, valid, issued, api, req>>
InitFails ==
    /\ renew["init"] # Idle
    /\ api' = FALSE
    /\ renew' = [renew EXCEPT !["init"] = Idle] /\ page' = "ready"
    /\ UNCHANGED <<cookie, valid, issued, store, user, req>>

\* loadUser.
ProfileLoaded(ok) ==
    /\ page = "profile" /\ page' = "ready"
    /\ \/ ok /\ user' = TRUE /\ UNCHANGED <<api, store>>
       \/ ~ok /\ SignOut
    /\ UNCHANGED <<cookie, valid, issued, req, renew>>

\* login: the answer brings a cookie and a token, and the profile is loaded.
Login ==
    /\ page = "ready" /\ ~user /\ Issue({}) /\ cookie' = issued + 1
    /\ api' = TRUE /\ store' = TRUE
    /\ page' = "profile"
    /\ UNCHANGED <<user, req, renew>>

\* logout: the backend revokes the cookie it is sent and clears it ...
Logout ==
    /\ page = "ready" /\ user /\ page' = "leaving"
    /\ \/ valid' = valid \ {cookie} /\ cookie' = 0
       \/ UNCHANGED <<valid, cookie>>
    /\ UNCHANGED <<issued, api, store, user, req, renew>>
\* ... and whatever it answers, the page forgets the login.
LoggedOut ==
    /\ page = "leaving" /\ page' = "ready"
    /\ SignOut
    /\ UNCHANGED <<cookie, valid, issued, req, renew>>

\* Another tab renews.
OtherTab ==
    /\ cookie \in valid /\ Issue({cookie}) /\ cookie' = issued + 1
    /\ UNCHANGED <<api, store, user, req, renew, page>>
-----------------------------------------------------------------------------
Client == (\E r \in Reqs : Send(r) \/ Answered(r) \/ Refused(r)) \/ Renewed \/ RenewalFails
Server == (\E k \in {"shared", "init"} : FindToken(k) \/ Rotate(k)) \/ OtherTab
Page ==
    \/ MountSync \/ InitAuth \/ InitGranted \/ InitRefused \/ InitFails
    \/ (\E ok \in BOOLEAN : ProfileLoaded(ok)) \/ Login \/ Logout \/ LoggedOut
Next == Client \/ Server \/ Page

\* Requests are answered, renewals come to an end.
Fairness ==
    /\ \A r \in Reqs : WF_vars(Answered(r) \/ Refused(r))
    /\ WF_vars(Renewed \/ RenewalFails)
Spec == Init /\ [][Next]_vars /\ Fairness
-----------------------------------------------------------------------------
(* Properties *)

AuthTypeOK ==
    /\ cookie \in 0 .. issued /\ valid \subseteq 1 .. issued /\ issued \in 1 .. MaxRotations
    /\ api \in BOOLEAN /\ store \in BOOLEAN /\ user \in BOOLEAN
    /\ req \in [Reqs -> InFlight \cup {"settled"}]
    /\ renew \in [{"shared", "init"} -> {"idle", "asked", "found", "granted", "refused"} \X Nat]
    /\ page \in {"loading", "init", "profile", "ready", "leaving"}

\* A request settles, whatever is refused and renewed on the way: it is sent a
\* second time at most.
RequestsSettle == \A r \in Reqs : req[r] \in InFlight ~> req[r] = "settled"

\* A request that waits for a renewal waits for one that is under way.
WaitersAreServed == Waiting # {} => renew["shared"] # Idle

\* Hazards: a login that is lost although the backend holds it valid, and a
\* token that comes back after the logout.
CookieKeepsUp == \A k \in {"shared", "init"} :
    renew[k][1] = "asked" /\ renew[k][2] # 0 => renew[k][2] \in valid \/ valid = {}
NoTokenAfterLogout ==
    [][page = "ready" /\ ~user /\ ~api /\ api' => page' = "profile"]_vars
=============================================================================
