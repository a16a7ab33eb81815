-------------------------------- MODULE Handoff --------------------------------
(***************************************************************************)
(* What the handoff promises, each grant and each ending as one step: a    *)
(* portal session leads to application sessions only by codes that were    *)
(* issued for it and only while it is entitled to them, that is open, with *)
(* its user enabled and the MFA requirement met; and its end takes every   *)
(* application session under it along.  Nothing is promised of the         *)
(* assignment at the moment of a grant: taking it away does not wait for   *)
(* an exchange under way.                                                  *)
(***************************************************************************)
CONSTANTS Session, Code, AppSession

VARIABLES
    portal,     \* "none", "open", "lapsed" or "ended", per portal session
    entitled,   \* open portal sessions of enabled users, MFA met
    codes,      \* the codes kept for each portal session
    live        \* the application sessions that work, by portal session

handoffVars == <<portal, entitled, codes, live>>

Known == {s \in Session : portal[s] # "none"}
Open == {s \in Session : portal[s] = "open"}

(* Rows are cleaned up, and application sessions end by themselves, at any *)
(* time: f with some of its members gone, or with one more first.          *)
Fewer(f) ==
    {g \in [Session -> SUBSET (Code \cup AppSession)] : \A s \in Session : g[s] \subseteq f[s]}
With(f, s, x) == [f EXCEPT ![s] = @ \cup {x}]

Init ==
    /\ portal = [s \in Session |-> "none"] /\ entitled = {}
    /\ codes = [s \in Session |-> {}] /\ live = [s \in Session |-> {}]

(* The account may have changed since the password was checked. *)
SignIn(s) ==
    /\ portal[s] = "none"
    /\ portal' = [portal EXCEPT ![s] = "open"]
    /\ entitled' \in {entitled, entitled \cup {s}}
    /\ UNCHANGED <<codes, live>>

Authorize(s, c) ==
    /\ s \in Known /\ \A t \in Session : c \notin codes[t]
    /\ codes' \in Fewer(With(codes, s, c)) /\ c \in codes'[s]
    /\ live' \in Fewer(live)
    /\ UNCHANGED <<portal, entitled>>

Exchange(s, c, a) ==
    /\ s \in entitled /\ c \in codes[s] /\ \A t \in Session : a \notin live[t]
    /\ live' \in Fewer(With(live, s, a)) /\ a \in live'[s]
    /\ codes' \in Fewer(codes)
    /\ UNCHANGED <<portal, entitled>>

(* Neither brings a session back that was ended. *)
Lapse(s) ==
    /\ s \in Known
    /\ portal' = [portal EXCEPT ![s] = IF @ = "open" THEN "lapsed" ELSE @]
    /\ entitled' = entitled \ {s}
    /\ live' \in Fewer(live)
    /\ UNCHANGED codes

End(S) ==
    /\ portal' = [s \in Session |-> IF s \in S THEN "ended" ELSE portal[s]]
    /\ live' \in Fewer(live) /\ \A s \in S : live'[s] = {}
    /\ UNCHANGED codes

Logout(s) == s \in Known /\ End({s}) /\ entitled' = entitled \ {s}

(* An edit of an account ends sessions, or gives and takes entitlements.   *)
Administer(S) == S \subseteq Known /\ End(S) /\ entitled' \in SUBSET (Open \ S)

Sweep == codes' \in Fewer(codes) /\ live' \in Fewer(live) /\ UNCHANGED <<portal, entitled>>

Next ==
    \/ \E s \in Session : SignIn(s) \/ Lapse(s) \/ Logout(s)
    \/ \E s \in Session, c \in Code :
          Authorize(s, c) \/ \E a \in AppSession : Exchange(s, c, a)
    \/ \E S \in SUBSET Session : Administer(S)
    \/ Sweep

Spec == Init /\ [][Next]_handoffVars

=============================================================================
