------------------------------ MODULE SignInPage ------------------------------
(***************************************************************************)
(* One browser tab on the site: what the page shows while its requests to  *)
(* the API are under way, and what their answers, their time-outs and the  *)
(* user's clicks make of it.  A handler of the API is one step here; what  *)
(* it does inside is in AppHandoff and MfaLogin.                           *)
(***************************************************************************)
EXTENDS Naturals

CONSTANTS
    Attempt,    \* sign-ins the API may still begin
    None

ASSUME NoneIsNoAttempt == None \notin Attempt

VARIABLES
    place,      \* the document, and what returnTo its address carries
    page,       \* the state of App: loading, user, prompt (a challenge), pending (a form), error
    calls,      \* the requests of the page, by kind
    jar,        \* the browser's cookies
    attempt,    \* what became of each sign-in
    hops        \* history: documents opened by answers alone, since anything else happened

vars == <<place, page, calls, jar, attempt, hops>>

Kind == {"probe", "login", "verify", "resend", "cancel", "logout", "apps"}
Place == [at : {"home", "signin", "portal", "radar"}, back : {"none", "good", "bad"}]
Jar == [session : Attempt \cup {None}, pre : Attempt \cup {None}]

(* Requests with an AbortSignal. *)
BoundedForms == {"login", "verify", "resend", "cancel"}                     \* mutant
BoundedProbe == {"probe", "resend", "cancel"}                               \* mutant
Bounded == {"probe", "login", "verify", "resend", "cancel"}

-----------------------------------------------------------------------------
(* Addresses. *)

At(p, b) == [at |-> p, back |-> b]
Gated(pl) == pl.at = "portal" \/ (pl.at = "home" /\ pl.back # "none")
Destination(pl) == IF pl.back = "good" THEN At("radar", "none") ELSE At("portal", "none")

GuardDropped(pl, authenticated, follow) ==                                  \* mutant
    CASE authenticated /\ follow /\ pl.back = "good" -> At("radar", "none")
      [] ~authenticated /\ Gated(pl) /\ pl.at = "home" -> At("signin", pl.back)
      [] pl.at = "portal" -> At("signin", "none")
      [] authenticated /\ pl.at = "signin" -> At("portal", "none")
      [] OTHER -> pl

(* Where the check of the session leads; follow: the returnTo may be used. *)
AfterSessionCheck(pl, authenticated, follow) ==
    LET returns == authenticated /\ follow /\ pl.back = "good"
    IN  CASE returns -> At("radar", "none")
          [] ~authenticated /\ Gated(pl) /\ pl.at = "home" -> At("signin", pl.back)
          [] ~authenticated /\ pl.at = "portal" -> At("signin", "none")
          [] authenticated /\ ~returns /\ pl.at = "signin" -> At("portal", "none")
          [] OTHER -> pl

Fresh(pl) == [loading |-> Gated(pl), user |-> FALSE, prompt |-> FALSE, pending |-> FALSE,
              error |-> "none"]

NoCall == [at |-> "idle", with |-> [session |-> None, pre |-> None],
           verdict |-> "none", made |-> None]
Sent(cookies) == [NoCall EXCEPT !.at = "sent", !.with = cookies]

(* A new document: its requests are its own, those of the old one are gone. *)
Load(pl) ==
    /\ place' = pl /\ page' = Fresh(pl)
    /\ calls' = [k \in Kind |->
        IF k = "probe" /\ (Gated(pl) \/ pl.at = "signin") THEN Sent(jar') ELSE NoCall]

(* The page becomes pg with call k over, and the effects that follow run. *)
Becomes(pg, k) ==
    LET to == AfterSessionCheck(place, pg.user, FALSE)
    IN  IF ~pg.loading /\ to # place THEN Load(to)
        ELSE /\ page' = pg /\ UNCHANGED place
             /\ calls' = [calls EXCEPT ![k] = NoCall,
                    !["apps"] = IF pg.user /\ ~page.user /\ place.at = "portal"
                                THEN Sent(jar') ELSE IF k = "apps" THEN NoCall ELSE @]

-----------------------------------------------------------------------------
(* Requests. *)

Click(k, pg) ==
    /\ calls[k].at = "idle"
    /\ page' = pg
    /\ calls' = [calls EXCEPT ![k] = Sent(jar)]
    /\ hops' = 0 /\ UNCHANGED <<place, jar, attempt>>

Form == place.at = "signin"
ShowsPortal == place.at = "portal" /\ ~page.loading /\ page.user

Login ==
    /\ Form /\ ~page.prompt /\ ~page.pending
    /\ Click("login", [page EXCEPT !.pending = TRUE, !.error = "none"])
Verify ==
    /\ Form /\ page.prompt /\ ~page.pending
    /\ Click("verify", [page EXCEPT !.pending = TRUE, !.error = "none"])
Resend == Form /\ page.prompt /\ Click("resend", [page EXCEPT !.error = "none"])
Cancel == Form /\ page.prompt /\ Click("cancel", page)
Logout == ShowsPortal /\ Click("logout", page)
UsePortal == ShowsPortal /\ Click("apps", page)

Visit == \E pl \in Place :
    pl.at # "radar" /\ hops' = 0 /\ UNCHANGED <<jar, attempt>> /\ Load(pl)

-----------------------------------------------------------------------------
(* The API. *)

Is(a, status) == a # None /\ attempt[a] = status

Answer(k, verdict, a) ==
    calls' = [calls EXCEPT ![k].at = "answered", ![k].verdict = verdict, ![k].made = a]

Served(k, a, from, to, verdict) ==
    /\ Is(a, from)
    /\ attempt' = [attempt EXCEPT ![a] = to]
    /\ Answer(k, verdict, a)

(* 401, 429, 503: wrong credentials, a limit, the mailbox down. *)
Refuse(k) == UNCHANGED attempt /\ Answer(k, "refused", None)

Serve(k) ==
    LET with == calls[k].with
    IN  /\ calls[k].at = "sent"
        /\ CASE k = "login" ->
                \/ \E a \in Attempt : \/ Served(k, a, "free", "challenge", "mfa")
                                      \/ Served(k, a, "free", "session", "ok")
                \/ Refuse(k)
             [] k = "verify" -> Served(k, with.pre, "challenge", "session", "ok") \/ Refuse(k)
             [] k = "resend" -> Served(k, with.pre, "challenge", "challenge", "ok") \/ Refuse(k)
             [] k = "cancel" ->
                \/ Served(k, with.pre, "challenge", "cancelled", "ok")
                \/ ~Is(with.pre, "challenge") /\ UNCHANGED attempt /\ Answer(k, "ok", None)
             [] k = "logout" ->
                \/ Served(k, with.session, "session", "ended", "ok")
                \/ ~Is(with.session, "session") /\ UNCHANGED attempt /\ Answer(k, "ok", None)
             [] k \in {"probe", "apps"} ->
                IF Is(with.session, "session") THEN UNCHANGED attempt /\ Answer(k, "ok", None)
                ELSE UNCHANGED attempt /\ Answer(k, "refused", None)
        /\ UNCHANGED <<place, page, jar, hops>>

(* An administrator, an expiry or another browser ends a session. *)
EndSession(a) ==
    /\ Is(a, "session")
    /\ attempt' = [attempt EXCEPT ![a] = "ended"]
    /\ hops' = 0 /\ UNCHANGED <<place, page, calls, jar>>

(* The Set-Cookie headers of an answer. *)
Cookies(k) ==
    LET c == calls[k]
    IN  CASE c.verdict = "mfa" -> [jar EXCEPT !.pre = c.made]
          [] c.verdict = "ok" /\ k = "login" -> [jar EXCEPT !.session = c.made]
          [] c.verdict = "ok" /\ k = "verify" -> [session |-> c.made, pre |-> None]
          [] c.verdict = "ok" /\ k = "cancel" -> [jar EXCEPT !.pre = None]
          [] c.verdict = "ok" /\ k = "logout" -> [session |-> None, pre |-> None]
          [] OTHER -> jar

-----------------------------------------------------------------------------
(* The handlers' continuations: verdict is that of the answer, or "failed" *)
(* when there is none or it breaks off.                                    *)

LogoutRejects(verdict) ==                                                   \* mutant
    Becomes(IF verdict = "ok" THEN [page EXCEPT !.user = FALSE] ELSE page, "logout")

(* A failed logout is taken for one. *)
AfterLogout(verdict) == Becomes([page EXCEPT !.user = FALSE], "logout")

AfterProbe(verdict) ==
    LET to == AfterSessionCheck(place, verdict = "ok", verdict = "ok")
        expired == IF verdict = "refused" THEN [page EXCEPT !.prompt = FALSE, !.error = "expired"]
                   ELSE page
    IN  IF to # place THEN Load(to)
        ELSE Becomes([expired EXCEPT !.loading = FALSE, !.user = (verdict = "ok")], "probe")

AfterSubmit(k, verdict) ==
    CASE verdict = "ok" -> Load(Destination(place))
      [] verdict = "mfa" -> Becomes([page EXCEPT !.pending = FALSE, !.prompt = TRUE], k)
      [] OTHER -> Becomes([page EXCEPT !.pending = FALSE, !.error = verdict], k)

AfterResend(verdict) ==
    Becomes(IF verdict = "ok" THEN [page EXCEPT !.prompt = TRUE]
            ELSE [page EXCEPT !.error = verdict], "resend")

AfterCancel == Becomes([page EXCEPT !.prompt = FALSE, !.error = "none"], "cancel")

(* Any 401 outside /api/auth/ ends the page's session. *)
AfterApps(verdict) ==
    Becomes(IF verdict = "refused"
            THEN [page EXCEPT !.user = FALSE, !.prompt = FALSE, !.error = "expired"]
            ELSE page, "apps")

Continue(k, verdict) ==
    CASE k = "probe" -> AfterProbe(verdict)
      [] k \in {"login", "verify"} -> AfterSubmit(k, verdict)
      [] k = "resend" -> AfterResend(verdict)
      [] k = "cancel" -> AfterCancel
      [] k = "logout" -> AfterLogout(verdict)
      [] k = "apps" -> AfterApps(verdict)

Receive(k) ==
    /\ calls[k].at = "answered"
    /\ jar' = Cookies(k)
    /\ Continue(k, calls[k].verdict)
    /\ hops' = IF place' # place /\ hops < 3 THEN hops + 1 ELSE hops
    /\ UNCHANGED attempt

(* The network fails, before the headers of the answer or after them, when *)
(* the browser has stored the cookies and the page reads the body.         *)
GiveUp(k) ==
    /\ calls[k].at # "idle"
    /\ jar' \in {jar, Cookies(k)}
    /\ Continue(k, "failed")
    /\ hops' = 0 /\ UNCHANGED attempt

(* AbortSignal.timeout. *)
Abort(k) == k \in Bounded /\ GiveUp(k)

-----------------------------------------------------------------------------
Init ==
    /\ place \in {pl \in Place : pl.at # "radar"}
    /\ page = Fresh(place)
    /\ jar \in {j \in Jar : j.pre = None}
    /\ attempt = [a \in Attempt |-> IF a = jar.session THEN "session" ELSE "free"]
    /\ calls = [k \in Kind |->
        IF k = "probe" /\ (Gated(place) \/ place.at = "signin") THEN Sent(jar) ELSE NoCall]
    /\ hops = 0

UserActs == Login \/ Verify \/ Resend \/ Cancel \/ Logout \/ UsePortal \/ Visit

Next ==
    \/ UserActs
    \/ \E k \in Kind : Serve(k) \/ Receive(k) \/ GiveUp(k)
    \/ \E a \in Attempt : EndSession(a)

(* The browser's timers fire, and it hands over the answers it has; the    *)
(* API owes the page nothing.                                              *)
Fairness == \A k \in Kind : WF_vars(Receive(k)) /\ WF_vars(Abort(k))

Spec == Init /\ [][Next]_vars /\ Fairness

-----------------------------------------------------------------------------
(* The portal is shown only to a browser that holds the cookie of a        *)
(* sign-in that was completed, never to one with a challenge or after a    *)
(* logout (App, website.md: an unconfirmed session cannot see the portal). *)
PortalIsConfirmed ==
    ShowsPortal => jar.session # None /\ attempt[jar.session] \in {"session", "ended"}

(* A submitted form is enabled again or the page is left (boundedAuth).    *)
FormLeavesPending == page.pending ~> ~page.pending

(* A gated address opens the portal or leads to the form, unless the user  *)
(* loads it again and again (api.me).                                      *)
GateOpens == <>[][~Visit]_vars => (page.loading ~> ~page.loading)

(* Answers alone do not send the browser round in circles: two documents   *)
(* further, the first answer overtaken by the end of its session, it is at *)
(* rest (navigationAfterSessionCheck; website.md: no redirect loop).       *)
NoRedirectLoop == hops <= 2

(* A challenge on the screen is closed by Cancel or by leaving the page    *)
(* only (expire).                                                          *)
ChallengeStays ==
    [][page.prompt /\ ~page'.prompt
        => calls["cancel"].at # "idle" \/ calls'["probe"].at = "sent" \/ place' # place]_vars

=============================================================================
