--------------------------- MODULE SignInPageProofs ---------------------------
(***************************************************************************)
(* The sign-in page for any number of sign-ins: the portal is shown only   *)
(* with the cookie of a completed one, and answers alone open at most two  *)
(* documents.                                                              *)
(*                                                                         *)
(* A place allows certain requests and states of the page (InPlace), every *)
(* document starts afresh (LoadStep), and from each state at most ToGo     *)
(* documents can follow by answers alone.                                  *)
(***************************************************************************)
EXTENDS SignInPage, TLAPS

Verdict == {"none", "ok", "mfa", "refused"}

Page == [loading : BOOLEAN, user : BOOLEAN, prompt : BOOLEAN, pending : BOOLEAN,
         error : {"none", "expired", "ok", "mfa", "refused", "failed"}]

Call == [at : {"idle", "sent", "answered"}, with : Jar, verdict : Verdict,
         made : Attempt \cup {None}]

PageOK == place \in Place /\ page \in Page /\ calls \in [Kind -> Call]

TypeOK ==
    /\ PageOK /\ jar \in Jar
    /\ attempt \in [Attempt -> {"free", "challenge", "session", "cancelled", "ended"}]

(* a is a sign-in that was completed; one the API still accepts. *)
Completed(a) == a # None /\ attempt[a] \in {"session", "ended"}
Accepted(a) == Is(a, "session")

(* A request's session cookie is none or that of a completed sign-in, and  *)
(* the API accepts it, refuses it for good, or makes a new one.            *)
CallSound(k) ==
    /\ calls[k].with.session # None => Completed(calls[k].with.session)
    /\ k \in {"login", "verify"} /\ calls[k].verdict = "ok" => Completed(calls[k].made)
    /\ k \in {"probe", "apps"} /\ calls[k].verdict = "ok" => calls[k].with.session # None
    /\ k \in {"probe", "apps"} /\ calls[k].verdict = "refused" =>
           ~Accepted(calls[k].with.session)
    /\ k \in {"probe", "apps"} /\ calls[k].at = "answered" =>
           calls[k].verdict \in {"ok", "refused"}
    /\ k = "logout" /\ calls[k].at = "answered" => calls[k].verdict = "ok"
    /\ calls[k].verdict = "mfa" => k = "login"

JarSound == jar.session # None => Completed(jar.session)

Idle(ks) == \A k \in ks : calls[k].at = "idle"
Current(k) == calls[k].at # "idle" => calls[k].with.session = jar.session

(* What the page and its requests can be at each place. *)
AtHome == Idle(Kind \ {"probe"}) /\ Current("probe")
AtSignin == Idle({"logout", "apps"}) /\ ~page.user
AtPortal ==
    /\ Idle({"login", "verify", "resend", "cancel"})
    /\ \/ page.loading /\ ~page.user /\ Idle({"logout", "apps"}) /\ Current("probe")
       \/ ~page.loading /\ page.user /\ Idle({"probe"}) /\ jar.session # None /\ Current("apps")

InPlace ==
    /\ place.at = "radar" => Idle(Kind)
    /\ place.at = "home" => AtHome
    /\ place.at = "signin" => AtSignin
    /\ place.at = "portal" => AtPortal

PageInv == TypeOK /\ JarSound /\ (\A k \in Kind : CallSound(k)) /\ InPlace

(* Nothing under way can take the form away. *)
Quiet ==
    /\ Idle({"login", "verify"})
    /\ calls["probe"].at # "idle" =>
        /\ calls["probe"].verdict # "ok"
        /\ calls["probe"].at = "sent" => ~Accepted(calls["probe"].with.session)

(* The documents answers alone may still open. *)
ToGo == IF place.at = "radar" \/ (place.at = "signin" /\ Quiet) THEN 0
        ELSE IF place.at = "signin" THEN 2 ELSE 1

HopsInv == hops \in Nat /\ hops + ToGo <= 2

-----------------------------------------------------------------------------
(* Where the check of a session leads, place by place. *)
LEMMA Checked ==
  ASSUME NEW pl \in Place, NEW a \in BOOLEAN, NEW f \in BOOLEAN
  PROVE  LET to == AfterSessionCheck(pl, a, f) IN
         /\ to \in Place
         /\ ~a /\ pl.at = "signin" => to = pl
         /\ a /\ pl.at = "signin" => to.at \in {"radar", "portal"}
         /\ ~a /\ pl.at = "portal" => to = At("signin", "none")
         /\ a /\ pl.at = "portal" => to.at = "radar" \/ to = pl
         /\ a /\ ~f /\ pl.at \in {"home", "portal"} => to = pl
         /\ a /\ pl.at = "home" => to.at = "radar" \/ to = pl
         /\ ~a /\ pl.at = "home" => to.at = "signin" \/ to = pl
<1>1. \A p \in {"home", "signin", "portal", "radar"}, b \in {"none", "good", "bad"} :
        At(p, b) \in Place /\ At(p, b).at = p /\ At(p, b).back = b
  BY DEF At, Place
<1>2. pl.at \in {"home", "signin", "portal", "radar"} /\ pl.back \in {"none", "good", "bad"}
  BY DEF Place
<1> QED
  BY <1>1, <1>2 DEF AfterSessionCheck, Gated

LEMMA DestinationIsAPlace ==
  ASSUME NEW pl \in Place
  PROVE  Destination(pl) \in Place /\ Destination(pl).at \in {"radar", "portal"}
BY DEF Destination, At, Place

(* A new document: whatever the old one was waiting for is gone. *)
LEMMA LoadStep ==
  ASSUME NEW pl \in Place, Load(pl), jar' \in Jar, JarSound',
         attempt' \in [Attempt -> {"free", "challenge", "session", "cancelled", "ended"}]
  PROVE  /\ PageInv' /\ place' = pl
         /\ pl.at = "signin" /\ (~Accepted(jar.session))' => Quiet'
<1>0. PICK j \in Jar : j = jar'
  OBVIOUS
<1>1. NoCall \in Call /\ NoCall.at = "idle" /\ NoCall.verdict = "none"
      /\ NoCall.with.session = None
  BY DEF NoCall, Call, Jar, Verdict
<1>2. Sent(j) \in Call /\ Sent(j).at = "sent" /\ Sent(j).verdict = "none"
      /\ Sent(j).with = j
  BY DEF Sent, NoCall, Call, Jar, Verdict
<1>3. /\ place' = pl /\ page' = Fresh(pl)
      /\ calls' = [k \in Kind |->
            IF k = "probe" /\ (Gated(pl) \/ pl.at = "signin") THEN Sent(j) ELSE NoCall]
  BY <1>0 DEF Load
<1>4. page' \in Page /\ page'.user = FALSE /\ page'.loading = Gated(pl)
  BY <1>3 DEF Fresh, Page, Gated
<1>5. calls' \in [Kind -> Call]
  BY <1>1, <1>2, <1>3
<1>6. /\ \A k \in Kind \ {"probe"} : calls'[k] = NoCall
      /\ calls'["probe"] = NoCall \/ calls'["probe"] = Sent(j)
  BY <1>3 DEF Kind
<1>7. TypeOK'
  BY <1>3, <1>4, <1>5 DEF TypeOK, PageOK
<1>8. ASSUME NEW k \in Kind PROVE CallSound(k)'
  <2>1. calls'[k].verdict = "none" /\ calls'[k].at \in {"idle", "sent"}
        /\ (calls'[k].at = "sent" => k = "probe")
        /\ (calls'[k].with.session = None \/ calls'[k].with.session = jar'.session)
    BY <1>0, <1>1, <1>2, <1>6
  <2>2. CASE calls'[k].with.session = None
    BY <2>1, <2>2 DEF CallSound
  <2>3. CASE calls'[k].with.session = jar'.session
    BY <2>1, <2>3 DEF CallSound, JarSound, Completed
  <2> QED
    BY <2>1, <2>2, <2>3
<1>9. InPlace'
  <2>1. Idle(Kind \ {"probe"})'
    BY <1>1, <1>6 DEF Idle
  <2>2. Current("probe")'
    BY <1>0, <1>1, <1>2, <1>6 DEF Current
  <2>3. pl.at = "radar" => Idle(Kind)'
    BY <1>1, <1>3 DEF Idle, Gated
  <2>4. pl.at = "portal" => AtPortal'
    BY <1>4, <2>1, <2>2 DEF AtPortal, Idle, Gated, Kind
  <2>5. AtSignin' /\ AtHome'
    BY <1>4, <2>1, <2>2 DEF AtSignin, AtHome, Idle, Kind
  <2> QED
    BY <1>3, <2>3, <2>4, <2>5 DEF InPlace
<1>10. (~Accepted(jar.session))' => Quiet'
  BY <1>0, <1>1, <1>2, <1>6 DEF Quiet, Idle, Kind, Accepted, Is
<1> QED
  BY <1>3, <1>7, <1>8, <1>9, <1>10 DEF PageInv

-----------------------------------------------------------------------------
(* Request k is over: with its answer, or without, as far as the page saw. *)
Ends(k, v) ==
    /\ calls[k].at # "idle" /\ UNCHANGED attempt /\ Continue(k, v)
    /\ \/ v = "failed" /\ jar' \in {jar, Cookies(k)}
       \/ v = calls[k].verdict /\ calls[k].at = "answered" /\ jar' = Cookies(k)

(* An answer spends what it opens. *)
Spends(v) == v # "failed" => ToGo' <= ToGo /\ (place' # place => ToGo' < ToGo)

(* The cookies of an answer are those of a completed sign-in. *)
LEMMA CookiesSound ==
  ASSUME PageInv, NEW k \in Kind
  PROVE  /\ Cookies(k) \in Jar
         /\ Cookies(k).session # None => Completed(Cookies(k).session)
         /\ k \notin {"login", "verify", "logout"} => Cookies(k).session = jar.session
         /\ k = "logout" /\ calls[k].verdict = "ok" => Cookies(k).session = None
<1>1. /\ calls[k].made \in Attempt \cup {None} /\ CallSound(k) /\ jar \in Jar
      /\ jar.session # None => Completed(jar.session)
  BY DEF PageInv, TypeOK, PageOK, Call, JarSound
<1>2. CASE calls[k].verdict = "mfa"
  BY <1>1, <1>2 DEF Cookies, Jar, CallSound
<1>3. CASE calls[k].verdict = "ok"
  BY <1>1, <1>3 DEF Cookies, Jar, CallSound
<1>4. CASE calls[k].verdict \notin {"ok", "mfa"}
  BY <1>1, <1>4 DEF Cookies
<1> QED
  BY <1>2, <1>3, <1>4

LEMMA JarStep ==
  ASSUME PageInv, NEW k \in Kind, NEW v, Ends(k, v)
  PROVE  /\ jar' \in Jar /\ JarSound'
         /\ attempt' \in [Attempt -> {"free", "challenge", "session", "cancelled", "ended"}]
         /\ k \notin {"login", "verify", "logout"} => jar'.session = jar.session
         /\ k = "logout" /\ v # "failed" => jar'.session = None
<1>1. jar' = jar \/ jar' = Cookies(k)
  BY DEF Ends
<1>2. jar \in Jar /\ JarSound /\ CallSound(k)
  BY DEF PageInv, TypeOK
<1>3. attempt' = attempt
  BY DEF Ends
<1>4. jar' \in Jar /\ JarSound'
  BY <1>1, <1>2, <1>3, CookiesSound DEF JarSound, Completed
<1>5. k = "logout" /\ v # "failed" => jar'.session = None
  BY <1>2, CookiesSound DEF Ends, CallSound
<1> QED
  BY <1>1, <1>3, <1>4, <1>5, CookiesSound DEF PageInv, TypeOK

(* A refused probe, or call of the portal, is refused for good. *)
LEMMA RefusedForGood ==
  ASSUME PageInv, NEW k \in {"probe", "apps"}, NEW v, Ends(k, v), Current(k),
         v \notin {"ok", "failed"}
  PROVE  v = "refused" /\ (~Accepted(jar.session))'
<1>1. k \in Kind /\ CallSound(k)
  BY DEF PageInv, Kind
<1>2. v = calls[k].verdict /\ calls[k].at = "answered"
  BY DEF Ends
<1>3. v = "refused" /\ ~Accepted(jar.session)
  BY <1>1, <1>2 DEF CallSound, Current
<1>4. jar'.session = jar.session /\ attempt' = attempt
  BY <1>1, JarStep DEF Ends
<1> QED
  BY <1>3, <1>4 DEF Accepted, Is

(* The document stays, and the request is over. *)
Stays(pg, k) ==
    /\ place' = place /\ page' = pg
    /\ calls' = [calls EXCEPT ![k] = NoCall,
            !["apps"] = IF pg.user /\ ~page.user /\ place.at = "portal"
                        THEN Sent(jar') ELSE IF k = "apps" THEN NoCall ELSE @]

LEMMA BecomesCases ==
  ASSUME NEW pg, NEW k, Becomes(pg, k)
  PROVE  LET to == AfterSessionCheck(place, pg.user, FALSE)
         IN  \/ ~pg.loading /\ to # place /\ Load(to)
             \/ (pg.loading \/ to = place) /\ Stays(pg, k)
BY DEF Becomes, Stays

LEMMA StayStep ==
  ASSUME PageInv, NEW k \in Kind, NEW pg \in Page, Stays(pg, k),
         jar' \in Jar, JarSound', UNCHANGED attempt
  PROVE  /\ TypeOK' /\ \A q \in Kind : CallSound(q)'
         /\ \A q \in Kind \ {k, "apps"} : calls'[q] = calls[q]
         /\ calls'[k] = NoCall \/ k = "apps"
         /\ \/ /\ pg.user /\ ~page.user /\ place.at = "portal"
               /\ calls'["apps"].with.session = jar'.session
            \/ calls'["apps"] = IF k = "apps" THEN NoCall ELSE calls["apps"]
<1>0. PICK j \in Jar : j = jar'
  OBVIOUS
<1>1. NoCall \in Call /\ NoCall.at = "idle" /\ NoCall.verdict = "none"
      /\ NoCall.with.session = None
  BY DEF NoCall, Call, Jar, Verdict
<1>2. Sent(j) \in Call /\ Sent(j).at = "sent" /\ Sent(j).verdict = "none"
      /\ Sent(j).with = j
  BY DEF Sent, NoCall, Call, Jar, Verdict
<1>3. "apps" \in Kind /\ calls \in [Kind -> Call]
  BY DEF Kind, PageInv, TypeOK, PageOK
<1>4. /\ \A q \in Kind \ {k, "apps"} : calls'[q] = calls[q]
      /\ calls'[k] = NoCall \/ k = "apps"
      /\ \/ pg.user /\ ~page.user /\ place.at = "portal" /\ calls'["apps"] = Sent(j)
         \/ calls'["apps"] = IF k = "apps" THEN NoCall ELSE calls["apps"]
      /\ calls' \in [Kind -> Call]
  BY <1>0, <1>1, <1>2, <1>3 DEF Stays
<1>5. TypeOK'
  BY <1>4 DEF PageInv, TypeOK, PageOK, Stays
<1>6. ASSUME NEW q \in Kind PROVE CallSound(q)'
  <2>1. CASE calls'[q] = calls[q]
    BY <2>1 DEF PageInv, CallSound, Completed, Accepted, Is
  <2>2. CASE calls'[q] = NoCall
    BY <1>1, <2>2 DEF CallSound
  <2>3. CASE q = "apps" /\ calls'[q] = Sent(j)
    BY <1>0, <1>2, <2>3 DEF CallSound, JarSound, Completed
  <2> QED
    BY <1>4, <2>1, <2>2, <2>3
<1> QED
  BY <1>0, <1>2, <1>4, <1>5, <1>6

(* What the end of the probe leads to. *)
LEMMA ProbeCases ==
  ASSUME PageInv, NEW v, AfterProbe(v)
  PROVE  LET to == AfterSessionCheck(place, v = "ok", v = "ok")
         IN  \/ to # place /\ Load(to)
             \/ /\ to = place
                /\ \E pg \in Page : pg.user = (v = "ok") /\ ~pg.loading /\ Becomes(pg, "probe")
<1> DEFINE expired == IF v = "refused" THEN [page EXCEPT !.prompt = FALSE, !.error = "expired"]
                      ELSE page
           pg == [expired EXCEPT !.loading = FALSE, !.user = (v = "ok")]
<1>1. page \in Page
  BY DEF PageInv, TypeOK, PageOK
<1>2. expired \in Page
  BY <1>1 DEF Page
<1>3. pg \in Page /\ pg.user = (v = "ok") /\ pg.loading = FALSE
  BY <1>2 DEF Page
<1> HIDE DEF pg
<1> QED
  BY <1>3 DEF AfterProbe, pg

-----------------------------------------------------------------------------
(* The end of a request, place by place. *)

LEMMA LoadEnds ==
  ASSUME PageInv, NEW k \in Kind, NEW v, Ends(k, v), NEW pl \in Place, Load(pl)
  PROVE  /\ PageInv' /\ place' = pl
         /\ pl.at = "radar" => ToGo' = 0
         /\ pl.at = "signin" /\ (~Accepted(jar.session))' => ToGo' = 0
         /\ pl.at # "signin" => ToGo' <= 1
BY JarStep, LoadStep DEF ToGo

LEMMA HomeEnds ==
  ASSUME PageInv, place.at = "home", NEW k \in Kind, NEW v, Ends(k, v)
  PROVE  PageInv' /\ Spends(v)
<1>1. k = "probe" /\ AtHome /\ place \in Place
  BY DEF PageInv, TypeOK, PageOK, InPlace, AtHome, Idle, Ends
<1>2. AfterProbe(v) /\ Current(k)
  BY <1>1 DEF Ends, Continue, AtHome
<1>3. ToGo = 1
  BY DEF ToGo
<1> DEFINE ok == v = "ok"
           to == AfterSessionCheck(place, ok, ok)
<1>4. /\ to \in Place /\ (ok => to.at = "radar" \/ to = place)
      /\ (~ok => to.at = "signin" \/ to = place)
      /\ AfterSessionCheck(place, ok, FALSE) = place \/ ~ok
  BY <1>1, Checked
<1>5. CASE to # place /\ Load(to)
  <2>1. PageInv'
    BY <1>4, <1>5, LoadEnds
  <2>2. v # "failed" => ToGo' = 0
    <3>1. CASE ok
      BY <1>4, <1>5, <3>1, LoadEnds
    <3>2. CASE ~ok /\ v # "failed"
      <4>1. (~Accepted(jar.session))'
        BY <1>1, <1>2, <3>2, RefusedForGood
      <4> QED
        BY <1>4, <1>5, <3>2, <4>1, LoadEnds
    <3> QED
      BY <3>1, <3>2
  <2> QED
    BY <1>3, <2>1, <2>2 DEF Spends
<1>6. ASSUME to = place, NEW pg \in Page, pg.user = ok, ~pg.loading, Becomes(pg, "probe")
      PROVE  PageInv' /\ Spends(v)
  <2>1. AfterSessionCheck(place, pg.user, FALSE) = place
    BY <1>4, <1>6
  <2>2. Stays(pg, k)
    BY <1>1, <1>6, <2>1, BecomesCases
  <2>3. jar' \in Jar /\ JarSound' /\ UNCHANGED attempt
    BY JarStep DEF Ends
  <2> HIDE DEF ok, to
  <2>4. /\ TypeOK' /\ (\A q \in Kind : CallSound(q)') /\ place' = place
        /\ \A q \in Kind \ {k, "apps"} : calls'[q] = calls[q]
        /\ calls'[k] = NoCall /\ calls'["apps"] = calls["apps"]
    BY <1>1, <2>2, <2>3, StayStep DEF Stays
  <2>5. AtHome'
    BY <1>1, <2>4 DEF AtHome, Idle, Current, NoCall, Kind
  <2>6. PageInv'
    BY <2>3, <2>4, <2>5 DEF PageInv, InPlace
  <2>7. ToGo' = 1
    BY <2>4 DEF ToGo
  <2> QED
    BY <1>3, <2>4, <2>6, <2>7 DEF Spends
<1> QED
  BY <1>2, <1>5, <1>6, ProbeCases

LEMMA FormStays ==
  ASSUME PageInv, place.at = "signin", NEW k \in Kind \ {"logout", "apps"}, NEW v, Ends(k, v),
         NEW pg \in Page, ~pg.user, Becomes(pg, k)
  PROVE  PageInv' /\ place' = place /\ (Quiet => Quiet')
<1>1. place \in Place /\ AtSignin
  BY DEF PageInv, TypeOK, PageOK, InPlace
<1>2. Stays(pg, k)
  <2>1. pg.user = FALSE
    BY DEF Page
  <2> QED
    BY <1>1, <2>1, Checked, BecomesCases
<1>3. jar' \in Jar /\ JarSound' /\ UNCHANGED attempt
  BY JarStep DEF Ends
<1>4. /\ TypeOK' /\ (\A q \in Kind : CallSound(q)') /\ place' = place
      /\ \A q \in Kind \ {k, "apps"} : calls'[q] = calls[q]
      /\ calls'[k] = NoCall /\ calls'["apps"] = calls["apps"] /\ page' = pg
  BY <1>2, <1>3, StayStep DEF Stays
<1>5. AtSignin'
  BY <1>1, <1>4 DEF AtSignin, Idle, Kind
<1>6. PageInv'
  BY <1>3, <1>4, <1>5 DEF PageInv, InPlace
<1>7. Quiet => Quiet'
  BY <1>3, <1>4 DEF Quiet, Idle, NoCall, Kind, Accepted, Is
<1> QED
  BY <1>4, <1>6, <1>7

LEMMA SigninEnds ==
  ASSUME PageInv, place.at = "signin", NEW k \in Kind, NEW v, Ends(k, v)
  PROVE  PageInv' /\ Spends(v)
<1>1. k \in Kind \ {"logout", "apps"} /\ ~page.user /\ place \in Place /\ page \in Page
  BY DEF PageInv, TypeOK, PageOK, InPlace, AtSignin, Idle, Ends
<1>2. v \in {"none", "ok", "mfa", "refused", "failed"}
  BY DEF PageInv, TypeOK, PageOK, Call, Verdict, Ends
<1>3. Continue(k, v) /\ calls[k].at # "idle" /\ (v # "failed" => v = calls[k].verdict)
  BY DEF Ends
<1>4. ASSUME NEW pg \in Page, ~pg.user, Becomes(pg, k)
      PROVE  PageInv' /\ Spends(v)
  BY <1>1, <1>4, FormStays DEF Spends, ToGo
<1>5. ASSUME NEW pl \in Place, pl.at \in {"radar", "portal"}, Load(pl), ~Quiet \/ v = "failed"
      PROVE  PageInv' /\ Spends(v)
  BY <1>5, LoadEnds DEF Spends, ToGo
<1>6. CASE k = "probe"
  <2>1. AfterProbe(v)
    BY <1>3, <1>6 DEF Continue
  <2>2. CASE v = "ok"
    <3>1. ~Quiet
      BY <1>3, <1>6, <2>2 DEF Quiet
    <3>2. /\ AfterSessionCheck(place, TRUE, TRUE) \in Place
          /\ AfterSessionCheck(place, TRUE, TRUE).at \in {"radar", "portal"}
      BY <1>1, Checked
    <3>3. Load(AfterSessionCheck(place, TRUE, TRUE))
      BY <2>1, <2>2, <3>2, ProbeCases
    <3> QED
      BY <1>5, <3>1, <3>2, <3>3
  <2>3. CASE v # "ok"
    <3>1. AfterSessionCheck(place, FALSE, FALSE) = place
      BY <1>1, Checked
    <3> QED
      BY <1>4, <1>6, <2>1, <2>3, <3>1, ProbeCases
  <2> QED
    BY <2>2, <2>3
<1>7. CASE k \in {"login", "verify"}
  <2>1. AfterSubmit(k, v) /\ ~Quiet
    BY <1>3, <1>7 DEF Continue, Quiet, Idle
  <2>2. CASE v = "ok"
    BY <1>1, <1>5, <2>1, <2>2, DestinationIsAPlace DEF AfterSubmit
  <2>3. CASE v = "mfa"
    <3>1. /\ [page EXCEPT !.pending = FALSE, !.prompt = TRUE] \in Page
          /\ ~[page EXCEPT !.pending = FALSE, !.prompt = TRUE].user
      BY <1>1 DEF Page
    <3> QED
      BY <1>4, <2>1, <2>3, <3>1 DEF AfterSubmit
  <2>4. CASE v \notin {"ok", "mfa"}
    <3>1. /\ [page EXCEPT !.pending = FALSE, !.error = v] \in Page
          /\ ~[page EXCEPT !.pending = FALSE, !.error = v].user
      BY <1>1, <1>2, <2>4 DEF Page
    <3> QED
      BY <1>4, <2>1, <2>4, <3>1 DEF AfterSubmit
  <2> QED
    BY <2>2, <2>3, <2>4
<1>8. CASE k = "resend"
  <2> DEFINE pg == IF v = "ok" THEN [page EXCEPT !.prompt = TRUE] ELSE [page EXCEPT !.error = v]
  <2>1. pg \in Page /\ ~pg.user
    BY <1>1, <1>2 DEF Page
  <2> QED
    BY <1>3, <1>4, <1>8, <2>1 DEF Continue, AfterResend
<1>9. CASE k = "cancel"
  <2> DEFINE pg == [page EXCEPT !.prompt = FALSE, !.error = "none"]
  <2>1. pg \in Page /\ ~pg.user
    BY <1>1 DEF Page
  <2> QED
    BY <1>3, <1>4, <1>9, <2>1 DEF Continue, AfterCancel
<1> QED
  BY <1>1, <1>6, <1>7, <1>8, <1>9 DEF Kind

LEMMA SigninIsElsewhere == place.at = "portal" => At("signin", "none") # place
<1>1. At("signin", "none").at = "signin"
  BY DEF At
<1> QED
  BY <1>1

LEMMA PortalEnds ==
  ASSUME PageInv, place.at = "portal", NEW k \in Kind, NEW v, Ends(k, v)
  PROVE  PageInv' /\ Spends(v)
<1>1. k \in {"probe", "logout", "apps"} /\ AtPortal /\ place \in Place /\ page \in Page
  BY DEF PageInv, TypeOK, PageOK, InPlace, AtPortal, Idle, Ends, Kind
<1>2. Continue(k, v) /\ calls[k].at # "idle" /\ UNCHANGED attempt
  BY DEF Ends
<1>3. ToGo = 1
  BY DEF ToGo
<1>4. ASSUME Load(At("signin", "none")), v # "failed" => (~Accepted(jar.session))'
      PROVE  PageInv' /\ Spends(v)
  <2>1. At("signin", "none") \in Place /\ At("signin", "none").at = "signin"
    BY DEF At, Place
  <2> QED
    BY <1>3, <1>4, <2>1, LoadEnds DEF Spends
<1>5. ASSUME Stays(page', k), page' \in Page, ~page'.loading, page'.user, k # "logout",
             jar.session # None
      PROVE  PageInv' /\ Spends(v)
  <2>1. jar' \in Jar /\ JarSound' /\ jar'.session = jar.session
    BY <1>1, <1>5, JarStep
  <2>2. /\ TypeOK' /\ (\A q \in Kind : CallSound(q)') /\ place' = place
        /\ \A q \in Kind \ {k, "apps"} : calls'[q] = calls[q]
        /\ calls'[k] = NoCall \/ k = "apps"
        /\ \/ calls'["apps"].with.session = jar'.session
           \/ calls'["apps"] = NoCall \/ calls'["apps"] = calls["apps"]
    <3>1. PICK q \in Page : q = page'
      BY <1>5
    <3> QED
      BY <1>2, <1>5, <2>1, <3>1, StayStep DEF Stays
  <2>3. NoCall.at = "idle"
    BY DEF NoCall
  <2>4. AtPortal'
    <3>1. Idle({"login", "verify", "resend", "cancel"})'
      BY <1>1, <2>2 DEF AtPortal, Idle, Kind
    <3>2. Idle({"probe"})'
      BY <1>1, <1>2, <1>5, <2>2, <2>3 DEF AtPortal, Idle, Kind
    <3>3. Current("apps")'
      BY <1>1, <1>2, <2>1, <2>2, <2>3 DEF AtPortal, Idle, Current
    <3> QED
      BY <1>5, <2>1, <3>1, <3>2, <3>3 DEF AtPortal
  <2>5. PageInv'
    BY <2>1, <2>2, <2>4 DEF PageInv, InPlace
  <2>6. ToGo' = 1
    BY <2>2 DEF ToGo
  <2> QED
    BY <1>3, <2>2, <2>5, <2>6 DEF Spends
<1>6. CASE k = "probe"
  <2>1. AfterProbe(v) /\ Current(k) /\ page.loading /\ ~page.user
    BY <1>1, <1>2, <1>6 DEF Continue, AtPortal, Idle
  <2>2. CASE v = "ok"
    <3>1. /\ AfterSessionCheck(place, TRUE, TRUE) \in Place
          /\ \/ AfterSessionCheck(place, TRUE, TRUE).at = "radar"
             \/ AfterSessionCheck(place, TRUE, TRUE) = place
          /\ AfterSessionCheck(place, TRUE, FALSE) = place
      BY <1>1, Checked
    <3>2. ASSUME NEW to \in Place, to.at = "radar", Load(to)
          PROVE  PageInv' /\ Spends(v)
      BY <1>3, <3>2, LoadEnds DEF Spends
    <3>3. ASSUME NEW pg \in Page, pg.user, ~pg.loading, Becomes(pg, "probe")
          PROVE  PageInv' /\ Spends(v)
      <4>1. pg.user = TRUE
        BY <3>3 DEF Page
      <4>2. Stays(pg, k)
        BY <1>6, <3>1, <3>3, <4>1, BecomesCases
      <4>3. jar.session # None
        <5>1. v = calls[k].verdict /\ CallSound(k)
          BY <2>2 DEF Ends, PageInv
        <5> QED
          BY <1>2, <1>6, <2>1, <2>2, <5>1 DEF CallSound, Current
      <4> QED
        BY <1>5, <1>6, <3>3, <4>2, <4>3 DEF Stays
    <3>4. (v = "ok") = TRUE
      BY <2>2
    <3>5. \/ /\ AfterSessionCheck(place, TRUE, TRUE) # place
             /\ Load(AfterSessionCheck(place, TRUE, TRUE))
          \/ \E pg \in Page : pg.user /\ ~pg.loading /\ Becomes(pg, "probe")
      BY <2>1, <3>4, ProbeCases
    <3> QED
      BY <3>1, <3>2, <3>3, <3>5
  <2>3. CASE v # "ok"
    <3>1. /\ AfterSessionCheck(place, FALSE, FALSE) = At("signin", "none")
          /\ At("signin", "none") # place
      BY <1>1, SigninIsElsewhere, Checked
    <3>2. Load(At("signin", "none"))
      BY <2>1, <2>3, <3>1, ProbeCases
    <3>3. v # "failed" => (~Accepted(jar.session))'
      BY <1>6, <2>1, <2>3, RefusedForGood
    <3> QED
      BY <1>4, <3>2, <3>3
  <2> QED
    BY <2>2, <2>3
<1>7. ASSUME NEW pg \in Page, ~pg.user, ~pg.loading, Becomes(pg, k)
      PROVE  Load(At("signin", "none"))
  <2>1. pg.user = FALSE
    BY <1>7 DEF Page
  <2>2. /\ AfterSessionCheck(place, FALSE, FALSE) = At("signin", "none")
        /\ At("signin", "none") # place
    BY <1>1, SigninIsElsewhere, Checked
  <2> QED
    BY <1>7, <2>1, <2>2, BecomesCases
<1>8. CASE k = "logout"
  <2> DEFINE pg == [page EXCEPT !.user = FALSE]
  <2>1. pg \in Page /\ ~pg.user /\ ~pg.loading
    BY <1>1, <1>2, <1>8 DEF Page, AtPortal, Idle
  <2>2. Load(At("signin", "none"))
    BY <1>2, <1>7, <1>8, <2>1 DEF Continue, AfterLogout
  <2>3. v # "failed" => (~Accepted(jar.session))'
    BY <1>8, JarStep DEF Accepted, Is
  <2> QED
    BY <1>4, <2>2, <2>3
<1>9. CASE k = "apps"
  <2>1. AfterApps(v) /\ Current(k) /\ ~page.loading /\ page.user /\ jar.session # None
    BY <1>1, <1>2, <1>9 DEF Continue, AtPortal, Idle
  <2>2. CASE v = "refused"
    <3> DEFINE pg == [page EXCEPT !.user = FALSE, !.prompt = FALSE, !.error = "expired"]
    <3>1. pg \in Page /\ ~pg.user /\ ~pg.loading
      BY <1>1, <2>1 DEF Page
    <3>2. Load(At("signin", "none"))
      BY <1>7, <1>9, <2>1, <2>2, <3>1 DEF AfterApps
    <3>3. (~Accepted(jar.session))'
      BY <1>9, <2>1, <2>2, RefusedForGood
    <3> QED
      BY <1>4, <3>2, <3>3
  <2>3. CASE v # "refused"
    <3>1. Becomes(page, k) /\ page.user = TRUE
      BY <1>1, <1>9, <2>1, <2>3 DEF AfterApps, Page
    <3>2. AfterSessionCheck(place, TRUE, FALSE) = place
      BY <1>1, Checked
    <3>3. Stays(page, k)
      BY <3>1, <3>2, BecomesCases
    <3> QED
      BY <1>1, <1>5, <1>9, <2>1, <3>3 DEF Stays
  <2> QED
    BY <2>2, <2>3
<1> QED
  BY <1>1, <1>6, <1>8, <1>9

LEMMA EndsStep ==
  ASSUME PageInv, NEW k \in Kind, NEW v, Ends(k, v)
  PROVE  PageInv' /\ Spends(v)
<1>1. place.at \in {"home", "signin", "portal", "radar"}
  BY DEF PageInv, TypeOK, PageOK, Place
<1>2. place.at # "radar"
  BY DEF PageInv, InPlace, Idle, Ends
<1> QED
  BY <1>1, <1>2, HomeEnds, SigninEnds, PortalEnds

-----------------------------------------------------------------------------
(* What the API does: a sign-in once completed stays so, and one that is   *)
(* no longer accepted is not accepted again.                               *)
LEMMA ApiKeeps ==
  ASSUME TypeOK, NEW a \in Attempt, NEW from \in {"free", "challenge", "session"},
         NEW to \in {"challenge", "session", "cancelled", "ended"}, Is(a, from),
         from = "session" => to = "ended", attempt' = [attempt EXCEPT ![a] = to]
  PROVE  /\ attempt' \in [Attempt -> {"free", "challenge", "session", "cancelled", "ended"}]
         /\ \A b \in Attempt : Completed(b) => Completed(b)' /\ (Accepted(b)' => Accepted(b))
BY DEF TypeOK, Completed, Accepted, Is

(* Cookies and calls stay sound when only the API moves, or nobody does. *)
LEMMA SoundStays ==
  ASSUME TypeOK, TypeOK', JarSound, UNCHANGED jar,
         \A b \in Attempt : Completed(b) => Completed(b)' /\ (Accepted(b)' => Accepted(b)),
         NEW k \in Kind, CallSound(k), UNCHANGED calls[k]
  PROVE  CallSound(k)' /\ JarSound'
<1>1. /\ jar.session \in Attempt \cup {None}
      /\ calls[k].with.session \in Attempt \cup {None} /\ calls[k].made \in Attempt \cup {None}
  BY DEF TypeOK, PageOK, Call, Jar
<1>2. \A b \in Attempt \cup {None} :
        Completed(b) => Completed(b)' /\ (Accepted(b)' => Accepted(b))
  BY DEF Completed
<1>3. JarSound'
  BY <1>1, <1>2 DEF JarSound
<1>4. CallSound(k)'
  BY <1>1, <1>2 DEF CallSound, Accepted, Is
<1> QED
  BY <1>3, <1>4

LEMMA ServeCases ==
  ASSUME TypeOK, NEW k \in Kind, Serve(k)
  PROVE  /\ calls[k].at = "sent" /\ UNCHANGED <<place, page, jar, hops>>
         /\ attempt' \in [Attempt -> {"free", "challenge", "session", "cancelled", "ended"}]
         /\ \A b \in Attempt : Completed(b) => Completed(b)' /\ (Accepted(b)' => Accepted(b))
         /\ \E verdict \in {"ok", "mfa", "refused"}, a \in Attempt \cup {None} :
              /\ Answer(k, verdict, a)
              /\ k \in {"login", "verify"} /\ verdict = "ok" => a # None /\ attempt'[a] = "session"
              /\ k \in {"probe", "apps"} => /\ UNCHANGED attempt
                                            /\ verdict = IF Accepted(calls[k].with.session)
                                                         THEN "ok" ELSE "refused"
              /\ k = "logout" => verdict = "ok"
              /\ verdict = "mfa" => k = "login"
<1> DEFINE with == calls[k].with
           Result ==
             /\ attempt' \in [Attempt -> {"free", "challenge", "session", "cancelled", "ended"}]
             /\ \A b \in Attempt :
                    Completed(b) => Completed(b)' /\ (Accepted(b)' => Accepted(b))
             /\ \E verdict \in {"ok", "mfa", "refused"}, a \in Attempt \cup {None} :
                  /\ Answer(k, verdict, a)
                  /\ k \in {"login", "verify"} /\ verdict = "ok"
                        => a # None /\ attempt'[a] = "session"
                  /\ k \in {"probe", "apps"} => /\ UNCHANGED attempt
                                                /\ verdict = IF Accepted(with.session)
                                                             THEN "ok" ELSE "refused"
                  /\ k = "logout" => verdict = "ok"
                  /\ verdict = "mfa" => k = "login"
<1>1. with.session \in Attempt \cup {None} /\ with.pre \in Attempt \cup {None}
  BY DEF TypeOK, PageOK, Call, Jar
<1>2. ASSUME NEW a \in Attempt \cup {None}, NEW from \in {"free", "challenge", "session"},
             NEW to \in {"challenge", "session", "cancelled", "ended"},
             from = "session" => to = "ended",
             NEW verdict \in {"ok", "mfa"}, Served(k, a, from, to, verdict),
             k \in {"login", "verify"} /\ verdict = "ok" => to = "session",
             k \notin {"probe", "apps"}, k = "logout" => verdict = "ok",
             verdict = "mfa" => k = "login"
      PROVE  Result
  <2>1. a \in Attempt
    BY <1>2 DEF Served, Is
  <2>2. /\ attempt' \in [Attempt -> {"free", "challenge", "session", "cancelled", "ended"}]
        /\ \A b \in Attempt : Completed(b) => Completed(b)' /\ (Accepted(b)' => Accepted(b))
    BY <1>2, <2>1, ApiKeeps DEF Served
  <2>3. attempt'[a] = to /\ Answer(k, verdict, a) /\ a # None
    BY <1>2, <2>1, NoneIsNoAttempt DEF Served, TypeOK
  <2> QED
    BY <1>2, <2>1, <2>2, <2>3
<1>3. ASSUME UNCHANGED attempt, NEW verdict \in {"ok", "refused"}, Answer(k, verdict, None),
             k \in {"login", "verify"} => verdict = "refused",
             k \in {"probe", "apps"} => verdict = IF Accepted(with.session)
                                                  THEN "ok" ELSE "refused",
             k = "logout" => verdict = "ok"
      PROVE  Result
  <2>1. /\ attempt' \in [Attempt -> {"free", "challenge", "session", "cancelled", "ended"}]
        /\ \A b \in Attempt : Completed(b) => Completed(b)' /\ (Accepted(b)' => Accepted(b))
    BY <1>3 DEF TypeOK, Completed, Accepted, Is
  <2> QED
    BY <1>3, <2>1
<1>4. Result
  <2>1. CASE k = "login"
    BY <1>2, <1>3, <2>1 DEF Serve, Refuse
  <2>2. CASE k \in {"verify", "resend"}
    BY <1>1, <1>2, <1>3, <2>2 DEF Serve, Refuse
  <2>3. CASE k = "cancel"
    BY <1>1, <1>2, <1>3, <2>3 DEF Serve
  <2>4. CASE k = "logout"
    BY <1>1, <1>2, <1>3, <2>4 DEF Serve
  <2>5. CASE k \in {"probe", "apps"}
    BY <1>3, <2>5 DEF Serve, Accepted
  <2> QED
    BY <2>1, <2>2, <2>3, <2>4, <2>5 DEF Kind
<1> QED
  BY <1>4 DEF Serve

LEMMA ServeStep ==
  ASSUME PageInv, NEW k \in Kind, Serve(k)
  PROVE  PageInv' /\ ToGo' <= ToGo
<1>1. TypeOK /\ JarSound /\ InPlace /\ \A q \in Kind : CallSound(q)
  BY DEF PageInv
<1>2. /\ calls[k].at = "sent" /\ UNCHANGED <<place, page, jar>>
      /\ attempt' \in [Attempt -> {"free", "challenge", "session", "cancelled", "ended"}]
      /\ \A b \in Attempt : Completed(b) => Completed(b)' /\ (Accepted(b)' => Accepted(b))
  BY <1>1, ServeCases
<1>3. PICK verdict \in {"ok", "mfa", "refused"}, a \in Attempt \cup {None} :
        /\ Answer(k, verdict, a)
        /\ k \in {"login", "verify"} /\ verdict = "ok" => a # None /\ attempt'[a] = "session"
        /\ k \in {"probe", "apps"} => /\ UNCHANGED attempt
                                      /\ verdict = IF Accepted(calls[k].with.session)
                                                   THEN "ok" ELSE "refused"
        /\ k = "logout" => verdict = "ok"
        /\ verdict = "mfa" => k = "login"
  BY <1>1, ServeCases
<1>4. calls[k] \in Call /\ DOMAIN calls = Kind
  BY <1>1 DEF TypeOK, PageOK
<1>5. /\ \A q \in Kind \ {k} : calls'[q] = calls[q]
      /\ calls'[k] = [calls[k] EXCEPT !.at = "answered", !.verdict = verdict, !.made = a]
      /\ calls' = [calls EXCEPT ![k] = calls'[k]]
  BY <1>3, <1>4 DEF Answer
<1>6. /\ calls'[k].at = "answered" /\ calls'[k].verdict = verdict /\ calls'[k].made = a
      /\ calls'[k].with = calls[k].with /\ calls'[k] \in Call
  BY <1>4, <1>5 DEF Call, Verdict
<1>7. TypeOK'
  BY <1>1, <1>2, <1>5, <1>6 DEF TypeOK, PageOK
<1>8. calls[k].with.session \in Attempt \cup {None}
  BY <1>4 DEF Call, Jar
<1>9. CallSound(k)'
  BY <1>1, <1>2, <1>3, <1>6, <1>8 DEF CallSound, Completed, Accepted, Is
<1>10. JarSound' /\ \A q \in Kind : CallSound(q)'
  <2>1. ASSUME NEW q \in Kind \ {k} PROVE CallSound(q)'
    BY <1>1, <1>2, <1>5, <1>7, SoundStays
  <2>2. JarSound'
    <3>1. jar.session \in Attempt \cup {None}
      BY <1>1 DEF TypeOK, Jar
    <3> QED
      BY <1>1, <1>2, <3>1 DEF JarSound
  <2> QED
    BY <1>9, <2>1, <2>2
<1>11. \A q \in Kind : /\ calls'[q].at = "idle" <=> calls[q].at = "idle"
                       /\ calls'[q].with = calls[q].with
  BY <1>2, <1>5, <1>6
<1>12. InPlace'
  BY <1>1, <1>2, <1>11 DEF InPlace, AtHome, AtSignin, AtPortal, Idle, Current, Kind
<1>13. Quiet => Quiet'
  <2>1. "probe" \in Kind /\ "login" \in Kind /\ "verify" \in Kind
    BY DEF Kind
  <2>2. CASE k = "probe"
    BY <1>2, <1>3, <1>6, <1>11, <2>1, <2>2 DEF Quiet, Idle
  <2>3. CASE k # "probe"
    <3>1. calls["probe"].with.session \in Attempt \cup {None}
      BY <1>1, <2>1 DEF TypeOK, PageOK, Call, Jar
    <3>2. ~Accepted(calls["probe"].with.session)
            => ~(Accepted(calls["probe"].with.session))'
      BY <1>1, <1>2, <1>5, <2>1, <2>3, <3>1 DEF CallSound, Accepted, Is
    <3> QED
      BY <1>5, <1>11, <2>1, <2>3, <3>2 DEF Quiet, Idle
  <2> QED
    BY <2>2, <2>3
<1> QED
  BY <1>2, <1>7, <1>10, <1>12, <1>13 DEF PageInv, ToGo

LEMMA EndSessionStep ==
  ASSUME PageInv, NEW a \in Attempt, EndSession(a)
  PROVE  PageInv'
<1>1. TypeOK /\ JarSound /\ InPlace /\ \A q \in Kind : CallSound(q)
  BY DEF PageInv
<1>2. /\ attempt' \in [Attempt -> {"free", "challenge", "session", "cancelled", "ended"}]
      /\ \A b \in Attempt : Completed(b) => Completed(b)' /\ (Accepted(b)' => Accepted(b))
  BY <1>1, ApiKeeps DEF EndSession
<1>3. UNCHANGED <<place, page, calls, jar>>
  BY DEF EndSession
<1>4. TypeOK'
  BY <1>1, <1>2, <1>3 DEF TypeOK, PageOK
<1>5. "probe" \in Kind
  BY DEF Kind
<1>6. JarSound' /\ \A q \in Kind : CallSound(q)'
  BY <1>1, <1>2, <1>3, <1>4, <1>5, SoundStays
<1>7. InPlace'
  BY <1>1, <1>3 DEF InPlace, AtHome, AtSignin, AtPortal, Idle, Current
<1> QED
  BY <1>4, <1>6, <1>7 DEF PageInv

(* A click sends a request with the cookies there are. *)
LEMMA ClickStep ==
  ASSUME PageInv, NEW k \in Kind, NEW pg \in Page, Click(k, pg),
         pg.user = page.user, pg.loading = page.loading,
         \/ place.at = "signin" /\ k \in {"login", "verify", "resend", "cancel"}
         \/ ShowsPortal /\ k \in {"logout", "apps"}
  PROVE  PageInv'
<1>1. TypeOK /\ JarSound /\ InPlace /\ \A q \in Kind : CallSound(q)
  BY DEF PageInv
<1>2. /\ Sent(jar) \in Call /\ Sent(jar).at = "sent" /\ Sent(jar).verdict = "none"
      /\ Sent(jar).with = jar
  BY <1>1 DEF Sent, NoCall, Call, Jar, Verdict, TypeOK
<1>3. /\ UNCHANGED <<place, jar, attempt>> /\ page' = pg /\ calls[k].at = "idle"
      /\ calls' = [calls EXCEPT ![k] = Sent(jar)]
  BY DEF Click
<1>4. calls' \in [Kind -> Call] /\ calls'[k] = Sent(jar)
      /\ \A q \in Kind \ {k} : calls'[q] = calls[q]
  BY <1>1, <1>2, <1>3 DEF TypeOK, PageOK
<1>5. TypeOK'
  BY <1>1, <1>3, <1>4 DEF TypeOK, PageOK
<1>6. JarSound'
  BY <1>1, <1>3 DEF JarSound, Completed
<1>7. ASSUME NEW q \in Kind PROVE CallSound(q)'
  <2>1. CASE q = k
    BY <1>1, <1>2, <1>3, <1>4, <2>1 DEF CallSound, JarSound, Completed
  <2>2. CASE q # k
    BY <1>1, <1>3, <1>4, <2>2 DEF CallSound, Completed, Accepted, Is
  <2> QED
    BY <2>1, <2>2
<1>8. InPlace'
  <2>1. CASE place.at = "signin" /\ k \in {"login", "verify", "resend", "cancel"}
    <3>1. AtSignin'
      BY <1>1, <1>3, <1>4, <2>1 DEF InPlace, AtSignin, Idle, Kind
    <3> QED
      BY <1>3, <2>1, <3>1 DEF InPlace
  <2>2. CASE ShowsPortal /\ k \in {"logout", "apps"}
    <3>1. AtPortal'
      BY <1>1, <1>2, <1>3, <1>4, <2>2 DEF InPlace, AtPortal, ShowsPortal, Idle, Current, Kind
    <3> QED
      BY <1>3, <2>2, <3>1 DEF InPlace, ShowsPortal
  <2> QED
    BY <2>1, <2>2
<1> QED
  BY <1>5, <1>6, <1>7, <1>8 DEF PageInv

LEMMA UserStep ==
  ASSUME PageInv, UserActs
  PROVE  PageInv' /\ hops' = 0
<1>1. TypeOK /\ JarSound /\ page \in Page
  BY DEF PageInv, TypeOK, PageOK
<1>2. CASE Login \/ Verify
  <2> DEFINE pg == [page EXCEPT !.pending = TRUE, !.error = "none"]
  <2>1. pg \in Page /\ pg.user = page.user /\ pg.loading = page.loading
    BY <1>1 DEF Page
  <2>2. \E k \in {"login", "verify"} : Click(k, pg) /\ place.at = "signin"
    BY <1>2 DEF Login, Verify, Form
  <2> HIDE DEF pg
  <2> QED
    BY <2>1, <2>2, ClickStep DEF Click, Kind
<1>3. CASE Resend
  <2> DEFINE pg == [page EXCEPT !.error = "none"]
  <2>1. pg \in Page /\ pg.user = page.user /\ pg.loading = page.loading
    BY <1>1 DEF Page
  <2>2. Click("resend", pg) /\ place.at = "signin"
    BY <1>3 DEF Resend, Form
  <2> HIDE DEF pg
  <2> QED
    BY <2>1, <2>2, ClickStep DEF Click, Kind
<1>4. CASE Cancel \/ Logout \/ UsePortal
  <2>1. \/ Click("cancel", page) /\ place.at = "signin"
        \/ (Click("logout", page) \/ Click("apps", page)) /\ ShowsPortal
    BY <1>4 DEF Cancel, Logout, UsePortal, Form
  <2> QED
    BY <1>1, <2>1, ClickStep DEF Click, Kind
<1>5. CASE Visit
  <2>1. PICK pl \in Place : hops' = 0 /\ UNCHANGED <<jar, attempt>> /\ Load(pl)
    BY <1>5 DEF Visit
  <2>2. JarSound' /\ jar' \in Jar
        /\ attempt' \in [Attempt -> {"free", "challenge", "session", "cancelled", "ended"}]
    BY <1>1, <2>1 DEF JarSound, Completed, TypeOK
  <2> QED
    BY <2>1, <2>2, LoadStep
<1> QED
  BY <1>2, <1>3, <1>4, <1>5 DEF UserActs

-----------------------------------------------------------------------------
LEMMA InitPage == Init => PageInv /\ HopsInv
<1> SUFFICES ASSUME Init PROVE PageInv /\ HopsInv
  OBVIOUS
<1>1. jar \in Jar /\ place \in Place /\ place.at # "radar" /\ hops = 0
  BY DEF Init
<1>2. /\ NoCall \in Call /\ NoCall.at = "idle" /\ NoCall.verdict = "none"
      /\ NoCall.with.session = None
      /\ Sent(jar) \in Call /\ Sent(jar).at = "sent" /\ Sent(jar).verdict = "none"
      /\ Sent(jar).with = jar
  BY <1>1 DEF Sent, NoCall, Call, Jar, Verdict
<1>3. /\ calls \in [Kind -> Call] /\ \A k \in Kind \ {"probe"} : calls[k] = NoCall
      /\ calls["probe"] = NoCall \/ calls["probe"] = Sent(jar)
  BY <1>2 DEF Init, Kind
<1>4. page \in Page /\ page.user = FALSE /\ page.loading = Gated(place)
  BY DEF Init, Fresh, Page, Gated
<1>5. TypeOK
  BY <1>1, <1>3, <1>4 DEF Init, TypeOK, PageOK
<1>6. JarSound
  BY <1>1 DEF Init, JarSound, Completed, Jar
<1>7. \A k \in Kind : CallSound(k)
  BY <1>2, <1>3, <1>6 DEF CallSound, JarSound
<1>8. InPlace
  BY <1>1, <1>2, <1>3, <1>4 DEF InPlace, AtHome, AtSignin, AtPortal, Idle, Current, Kind, Gated
<1>9. HopsInv
  BY <1>1 DEF HopsInv, ToGo
<1> QED
  BY <1>5, <1>6, <1>7, <1>8, <1>9 DEF PageInv

LEMMA PageStep == PageInv /\ HopsInv /\ [Next]_vars => PageInv' /\ HopsInv'
<1> SUFFICES ASSUME PageInv, HopsInv, [Next]_vars PROVE PageInv' /\ HopsInv'
  OBVIOUS
<1>1. ToGo' \in {0, 1, 2} /\ ToGo \in {0, 1, 2}
  BY DEF ToGo
<1>2. hops' = 0 => HopsInv'
  BY <1>1 DEF HopsInv, ToGo
<1>3. CASE UserActs
  BY <1>2, <1>3, UserStep
<1>4. ASSUME NEW k \in Kind, Serve(k) PROVE PageInv' /\ HopsInv'
  <2>1. hops' = hops
    BY <1>4 DEF Serve
  <2> QED
    BY <1>1, <1>4, <2>1, ServeStep DEF HopsInv, ToGo
<1>5. ASSUME NEW k \in Kind, Receive(k) PROVE PageInv' /\ HopsInv'
  <2> DEFINE v == calls[k].verdict
  <2>1. Ends(k, v) /\ hops' = IF place' # place /\ hops < 3 THEN hops + 1 ELSE hops
    BY <1>5 DEF Receive, Ends
  <2>2. v # "failed"
    BY DEF PageInv, TypeOK, PageOK, Call, Verdict
  <2>3. PageInv' /\ ToGo' <= ToGo /\ (place' # place => ToGo' < ToGo)
    BY <2>1, <2>2, EndsStep DEF Spends
  <2>4. CASE place' # place
    <3>1. hops' = hops + 1
      BY <1>1, <2>1, <2>4 DEF HopsInv
    <3> QED
      BY <1>1, <2>3, <2>4, <3>1 DEF HopsInv, ToGo
  <2>5. CASE place' = place
    BY <1>1, <2>1, <2>3, <2>5 DEF HopsInv, ToGo
  <2> QED
    BY <2>4, <2>5
<1>6. ASSUME NEW k \in Kind, GiveUp(k) PROVE PageInv' /\ HopsInv'
  <2>1. Ends(k, "failed") /\ hops' = 0
    BY <1>6 DEF GiveUp, Ends
  <2> QED
    BY <1>2, <2>1, EndsStep
<1>7. ASSUME NEW a \in Attempt, EndSession(a) PROVE PageInv' /\ HopsInv'
  BY <1>2, <1>7, EndSessionStep DEF EndSession
<1>8. CASE UNCHANGED vars
  <2>1. PageInv'
    BY <1>8 DEF PageInv, TypeOK, PageOK, JarSound, CallSound, Completed, Accepted, Is,
                InPlace, AtHome, AtSignin, AtPortal, Idle, Current, vars
  <2>2. HopsInv'
    BY <1>8 DEF HopsInv, ToGo, Quiet, Idle, Accepted, Is, vars
  <2> QED
    BY <2>1, <2>2
<1> QED
  BY <1>3, <1>4, <1>5, <1>6, <1>7, <1>8 DEF Next

LEMMA PageInvariance == Spec => [](PageInv /\ HopsInv)
<1>1. (PageInv /\ HopsInv) /\ [Next]_vars => (PageInv /\ HopsInv)'
  BY PageStep
<1> QED
  BY InitPage, <1>1, PTL DEF Spec

(* The portal is shown only to a browser with the cookie of a sign-in that *)
(* was completed, however answers, time-outs and clicks interleave (App).  *)
THEOREM PortalConfirmed == Spec => []PortalIsConfirmed
<1>1. PageInv => PortalIsConfirmed
  BY DEF PageInv, InPlace, AtPortal, JarSound, Completed, PortalIsConfirmed, ShowsPortal
<1> QED
  BY <1>1, PageInvariance, PTL

(* Answers alone open at most two documents, from any state the page can   *)
(* be in: no redirect loop (navigationAfterSessionCheck).                  *)
THEOREM RedirectsEnd == Spec => []NoRedirectLoop
<1>1. HopsInv => NoRedirectLoop
  BY DEF HopsInv, ToGo, NoRedirectLoop
<1> QED
  BY <1>1, PageInvariance, PTL

=============================================================================
