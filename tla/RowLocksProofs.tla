---------------------------- MODULE RowLocksProofs ----------------------------
(***************************************************************************)
(* Requests that lock in the order of the services never wait in a circle, *)
(* for any number of requests and sessions.                                *)
(***************************************************************************)
EXTENDS RowLocks, TLAPS

Table == {"session", "code", "app", "pre", "challenge", "user", "radar", "token"}
Mode == {"key", "no key", "update"}
Lock == (Table \X (Session \cup {None})) \X Mode
Place == Nat \X Lock
Kind == {"idle", "login", "mfa login", "verify", "resend", "cancel", "visit", "expire", "logout",
         "authorize", "exchange", "introspect", "revoke", "cleanup", "request reset",
         "complete reset", "reset", "edit", "unassign", "delete"}
RequestRow == [kind : Kind, old : SUBSET Session, todo : SUBSET Place]

LockTypes ==
    /\ req \in [Worker -> RequestRow]
    /\ want \in [Worker -> Lock \cup {NoLock}]
    /\ held \in [Worker -> SUBSET Lock]

(* The order of the services, as a number for each table; the smaller ones *)
(* are for the statements of a cleanup that finds nothing.  Reset links    *)
(* have no place in it: only requests that lock several rows lock them.    *)
Level(l) ==
    CASE l[1][1] = "session" -> 3
      [] l[1][1] = "code" -> 4
      [] l[1][1] = "app" -> 5
      [] l[1][1] = "pre" -> 6
      [] l[1][1] = "challenge" -> 7
      [] l[1][1] = "user" -> 8
      [] l[1][1] = "token" -> 10
      [] OTHER -> 9

(* Who locks one row of a table locks it before the next table. *)
SeveralKinds == {"resend", "cancel", "request reset", "complete reset", "reset", "edit",
                 "unassign", "delete"}
Follows(kind, a, b) == a = 10 \/ a < b \/ (kind \in SeveralKinds /\ a = b)
Before(kind, l, m) == Follows(kind, Level(l), Level(m))

(* A lock the request may ask for. *)
Fitting(kind, l) == kind \in SeveralKinds \/ Level(l) < 10

(* The locks to come are in the order of the services. *)
InOrder(kind, todo) ==
    /\ \A x \in todo : Fitting(kind, x[2])
    /\ \A x, y \in todo : x # y /\ x[1] <= y[1] => Before(kind, x[2], y[2])

(* What a request has comes before the lock it waits for, and both before  *)
(* all it has still to ask for.                                            *)
Orderly(w) ==
    LET kind == req[w].kind IN
    /\ InOrder(kind, req[w].todo)
    /\ \A l \in held[w] : Fitting(kind, l)
    /\ \A l \in held[w], x \in req[w].todo : Before(kind, l, x[2])
    /\ want[w] # NoLock =>
        /\ Fitting(kind, want[w])
        /\ \A l \in held[w] : Before(kind, l, want[w])
        /\ \A x \in req[w].todo : Before(kind, want[w], x[2])

OrderInv ==
    /\ LockTypes
    /\ \A w \in Worker :
        /\ req[w].kind = "idle" => req[w].todo = {} /\ want[w] = NoLock /\ held[w] = {}
        /\ ~Inverted(w) => Orderly(w)

-----------------------------------------------------------------------------
(* Levels are numbers, and a lock that is waited for is one of a table.    *)
LEMMA Levels == \A l : Level(l) \in 3..10
  BY DEF Level

LEMMA NoLockIsNone == NoLock \notin Lock
  BY DEF NoLock, Lock, Table

LEMMA StatementRows ==
    ASSUME NEW t \in Table, NEW mode \in Mode, NEW rows \in SUBSET (Session \cup {None})
    PROVE  On(t, rows, mode) \subseteq Lock
  BY DEF On, Lock

(* The locks of a statement are on one table, and perhaps on one row.      *)
Rows(locks, level) == locks \subseteq Lock /\ \A l \in locks : Level(l) = level
Single(locks) == \A l, m \in locks : l = m

LEMMA StatementLocks ==
    ASSUME NEW mode \in Mode, NEW rows \in SUBSET (Session \cup {None})
    PROVE  /\ Rows(On("session", rows, mode), 3)
           /\ Rows(On("code", rows, mode), 4)
           /\ Rows(On("app", rows, mode), 5)
           /\ Rows(On("pre", rows, mode), 6)
           /\ Rows(On("challenge", rows, mode), 7)
           /\ Rows(On("user", rows, mode), 8)
           /\ Rows(On("radar", rows, mode), 9)
           /\ Rows(On("token", rows, mode), 10)
           /\ \A t, x : rows \subseteq {x} => Single(On(t, rows, mode))
<1>1. ASSUME NEW t \in Table
      PROVE  On(t, rows, mode) \subseteq Lock /\ \A l \in On(t, rows, mode) : l[1][1] = t
  BY DEF On, Lock
<1>2. \A t, x : rows \subseteq {x} => Single(On(t, rows, mode))
  BY DEF On, Single
<1>3. \A t \in {"session", "code", "app", "pre", "challenge", "user", "radar", "token"} :
        t \in Table
  BY DEF Table
<1> QED
  BY <1>1, <1>2, <1>3 DEF Rows, Level

LEMMA OneRow ==
    \A s \in Session, mode \in {"key", "no key", "update"} :
        /\ Rows(On("session", {s}, mode), 3) /\ Single(On("session", {s}, mode))
        /\ Rows(On("code", {s}, mode), 4) /\ Single(On("code", {s}, mode))
        /\ Rows(On("app", {s}, mode), 5) /\ Single(On("app", {s}, mode))
        /\ Rows(On("pre", {s}, mode), 6) /\ Single(On("pre", {s}, mode))
        /\ Rows(On("challenge", {s}, mode), 7) /\ Single(On("challenge", {s}, mode))
        /\ Rows(On("token", {s}, mode), 10) /\ Single(On("token", {s}, mode))
<1> SUFFICES ASSUME NEW s \in Session, NEW mode \in Mode
             PROVE  /\ Rows(On("session", {s}, mode), 3) /\ Single(On("session", {s}, mode))
                    /\ Rows(On("code", {s}, mode), 4) /\ Single(On("code", {s}, mode))
                    /\ Rows(On("app", {s}, mode), 5) /\ Single(On("app", {s}, mode))
                    /\ Rows(On("pre", {s}, mode), 6) /\ Single(On("pre", {s}, mode))
                    /\ Rows(On("challenge", {s}, mode), 7) /\ Single(On("challenge", {s}, mode))
                    /\ Rows(On("token", {s}, mode), 10) /\ Single(On("token", {s}, mode))
  BY DEF Mode
<1>1. {s} \in SUBSET (Session \cup {None}) /\ {s} \subseteq {s}
  OBVIOUS
<1> QED
  BY <1>1, StatementLocks

LEMMA UserRow ==
    \A mode \in {"key", "no key", "update"} :
        /\ Rows(On("user", {None}, mode), 8) /\ Single(On("user", {None}, mode))
        /\ Rows(On("radar", {None}, mode), 9) /\ Single(On("radar", {None}, mode))
<1> SUFFICES ASSUME NEW mode \in Mode
             PROVE  /\ Rows(On("user", {None}, mode), 8) /\ Single(On("user", {None}, mode))
                    /\ Rows(On("radar", {None}, mode), 9) /\ Single(On("radar", {None}, mode))
  BY DEF Mode
<1>1. {None} \in SUBSET (Session \cup {None}) /\ {None} \subseteq {None}
  OBVIOUS
<1> QED
  BY <1>1, StatementLocks

LEMMA AllRows ==
    \A mode \in {"key", "no key", "update"} :
        /\ Rows(On("session", Session, mode), 3)
        /\ Rows(On("code", Session, mode), 4)
        /\ Rows(On("app", Session, mode), 5)
        /\ Rows(On("pre", Session, mode), 6)
        /\ Rows(On("challenge", Session, mode), 7)
        /\ Rows(On("token", Session, mode), 10)
<1> SUFFICES ASSUME NEW mode \in Mode
             PROVE  /\ Rows(On("session", Session, mode), 3)
                    /\ Rows(On("code", Session, mode), 4)
                    /\ Rows(On("app", Session, mode), 5)
                    /\ Rows(On("pre", Session, mode), 6)
                    /\ Rows(On("challenge", Session, mode), 7)
                    /\ Rows(On("token", Session, mode), 10)
  BY DEF Mode
<1>1. Session \in SUBSET (Session \cup {None})
  OBVIOUS
<1> QED
  BY <1>1, StatementLocks

(* Statements whose tables follow each other make an orderly request.      *)
LEMMA TodoOrder ==
    ASSUME NEW n \in Nat, NEW stmts, DOMAIN stmts = 1..n, NEW levels, NEW kind,
           \A i \in 1..n : Rows(stmts[i], levels[i]),
           \A i, j \in 1..n : i < j => Follows(kind, levels[i], levels[j]),
           kind \in SeveralKinds \/ \A i \in 1..n : Single(stmts[i]) /\ levels[i] < 10
    PROVE  Todo(stmts) \subseteq Place /\ InOrder(kind, Todo(stmts))
<1>1. Todo(stmts) \subseteq Place
  BY DEF Todo, Place, Rows
<1>2. ASSUME NEW x \in Todo(stmts), NEW y \in Todo(stmts), x # y, x[1] <= y[1]
      PROVE  Before(kind, x[2], y[2])
  <2>1. PICK i \in 1..n : \E l \in stmts[i] : x = <<i, l>>
    BY DEF Todo
  <2>2. PICK j \in 1..n : \E m \in stmts[j] : y = <<j, m>>
    BY DEF Todo
  <2>3. i <= j
    BY <1>2, <2>1, <2>2
  <2>4. Level(x[2]) = levels[i] /\ Level(y[2]) = levels[j]
    BY <2>1, <2>2 DEF Rows
  <2>5. CASE i < j
    BY <2>4, <2>5 DEF Before
  <2>6. CASE i = j
    <3>1. kind \in SeveralKinds
      BY <1>2, <2>1, <2>2, <2>6 DEF Single
    <3> QED
      BY <2>4, <2>6, <3>1 DEF Before, Follows
  <2> QED
    BY <2>3, <2>5, <2>6
<1>3. ASSUME NEW x \in Todo(stmts) PROVE Fitting(kind, x[2])
  <2>1. PICK i \in 1..n : \E l \in stmts[i] : x = <<i, l>>
    BY DEF Todo
  <2> QED
    BY <2>1 DEF Fitting, Rows
<1> QED
  BY <1>1, <1>2, <1>3 DEF InOrder

LEMMA NoRows == \A t, mode, level : Rows(On(t, {}, mode), level) /\ Single(On(t, {}, mode))
  BY DEF On, Rows, Single

LEMMA LoginOrder ==
    Todo(Login) \subseteq Place /\ InOrder("login", Todo(Login))
<1>1. /\ DOMAIN Login = 1..1
      /\ Login[1] = On("user", {None}, "no key")
  BY DEF Login, User
<1> DEFINE L == <<8>>
<1>2. \A i \in 1..1 : Rows(Login[i], L[i]) /\ Single(Login[i])
  <2>1. Rows(Login[1], 8) /\ Single(Login[1])
    BY <1>1, UserRow
  <2> QED
    BY <2>1
<1>3. \A i, j \in 1..1 : i < j => Follows("login", L[i], L[j])
  BY DEF Follows
<1>4. \A i \in 1..1 : L[i] < 10
  OBVIOUS
<1> QED
  BY <1>1, <1>2, <1>3, <1>4, TodoOrder

LEMMA VerifyOrder ==
    ASSUME NEW s \in Session
    PROVE  Todo(Verify(s)) \subseteq Place /\ InOrder("verify", Todo(Verify(s)))
<1>1. /\ DOMAIN Verify(s) = 1..3
      /\ Verify(s)[1] = On("pre", {s}, "update")
      /\ Verify(s)[2] = On("challenge", {s}, "update")
      /\ Verify(s)[3] = On("user", {None}, "no key")
  BY DEF Verify, User
<1> DEFINE L == <<6, 7, 8>>
<1>2. \A i \in 1..3 : Rows(Verify(s)[i], L[i]) /\ Single(Verify(s)[i])
  <2>1. Rows(Verify(s)[1], 6) /\ Single(Verify(s)[1])
    BY <1>1, OneRow
  <2>2. Rows(Verify(s)[2], 7) /\ Single(Verify(s)[2])
    BY <1>1, OneRow
  <2>3. Rows(Verify(s)[3], 8) /\ Single(Verify(s)[3])
    BY <1>1, UserRow
  <2> QED
    BY <2>1, <2>2, <2>3
<1>3. \A i, j \in 1..3 : i < j => Follows("verify", L[i], L[j])
  BY DEF Follows
<1>4. \A i \in 1..3 : L[i] < 10
  OBVIOUS
<1> QED
  BY <1>1, <1>2, <1>3, <1>4, TodoOrder

LEMMA ResendOrder ==
    ASSUME NEW s \in Session
    PROVE  Todo(Resend(s)) \subseteq Place /\ InOrder("resend", Todo(Resend(s)))
<1>1. /\ DOMAIN Resend(s) = 1..3
      /\ Resend(s)[1] = On("pre", {s}, "update")
      /\ Resend(s)[2] = On("challenge", Session, "no key")
      /\ Resend(s)[3] = On("user", {None}, "key")
  BY DEF Resend, User
<1> DEFINE L == <<6, 7, 8>>
<1>2. \A i \in 1..3 : Rows(Resend(s)[i], L[i])
  <2>1. Rows(Resend(s)[1], 6)
    BY <1>1, OneRow
  <2>2. Rows(Resend(s)[2], 7)
    BY <1>1, AllRows
  <2>3. Rows(Resend(s)[3], 8)
    BY <1>1, UserRow
  <2> QED
    BY <2>1, <2>2, <2>3
<1>3. \A i, j \in 1..3 : i < j => Follows("resend", L[i], L[j])
  BY DEF Follows, SeveralKinds
<1>4. "resend" \in SeveralKinds
  BY DEF SeveralKinds
<1> QED
  BY <1>1, <1>2, <1>3, <1>4, TodoOrder

LEMMA CancelOrder ==
    ASSUME NEW s \in Session
    PROVE  Todo(Cancel(s)) \subseteq Place /\ InOrder("cancel", Todo(Cancel(s)))
<1>1. /\ DOMAIN Cancel(s) = 1..3
      /\ Cancel(s)[1] = On("pre", {s}, "update")
      /\ Cancel(s)[2] = On("challenge", {s}, "no key")
      /\ Cancel(s)[3] = On("user", {None}, "key")
  BY DEF Cancel, User
<1> DEFINE L == <<6, 7, 8>>
<1>2. \A i \in 1..3 : Rows(Cancel(s)[i], L[i])
  <2>1. Rows(Cancel(s)[1], 6)
    BY <1>1, OneRow
  <2>2. Rows(Cancel(s)[2], 7)
    BY <1>1, OneRow
  <2>3. Rows(Cancel(s)[3], 8)
    BY <1>1, UserRow
  <2> QED
    BY <2>1, <2>2, <2>3
<1>3. \A i, j \in 1..3 : i < j => Follows("cancel", L[i], L[j])
  BY DEF Follows, SeveralKinds
<1>4. "cancel" \in SeveralKinds
  BY DEF SeveralKinds
<1> QED
  BY <1>1, <1>2, <1>3, <1>4, TodoOrder

LEMMA VisitOrder ==
    ASSUME NEW s \in Session
    PROVE  Todo(Visit(s)) \subseteq Place /\ InOrder("visit", Todo(Visit(s)))
<1>1. /\ DOMAIN Visit(s) = 1..1
      /\ Visit(s)[1] = On("session", {s}, "no key")
  BY DEF Visit
<1> DEFINE L == <<3>>
<1>2. \A i \in 1..1 : Rows(Visit(s)[i], L[i]) /\ Single(Visit(s)[i])
  <2>1. Rows(Visit(s)[1], 3) /\ Single(Visit(s)[1])
    BY <1>1, OneRow
  <2> QED
    BY <2>1
<1>3. \A i, j \in 1..1 : i < j => Follows("visit", L[i], L[j])
  BY DEF Follows
<1>4. \A i \in 1..1 : L[i] < 10
  OBVIOUS
<1> QED
  BY <1>1, <1>2, <1>3, <1>4, TodoOrder

LEMMA LogoutOrder ==
    ASSUME NEW s \in Session
    PROVE  Todo(Logout(s)) \subseteq Place /\ InOrder("logout", Todo(Logout(s)))
<1>1. /\ DOMAIN Logout(s) = 1..4
      /\ Logout(s)[1] = On("session", {s}, "update")
      /\ Logout(s)[2] = On("code", {s}, "no key")
      /\ Logout(s)[3] = On("app", {s}, "no key")
      /\ Logout(s)[4] = On("user", {None}, "key")
  BY DEF Logout, User
<1> DEFINE L == <<3, 4, 5, 8>>
<1>2. \A i \in 1..4 : Rows(Logout(s)[i], L[i]) /\ Single(Logout(s)[i])
  <2>1. Rows(Logout(s)[1], 3) /\ Single(Logout(s)[1])
    BY <1>1, OneRow
  <2>2. Rows(Logout(s)[2], 4) /\ Single(Logout(s)[2])
    BY <1>1, OneRow
  <2>3. Rows(Logout(s)[3], 5) /\ Single(Logout(s)[3])
    BY <1>1, OneRow
  <2>4. Rows(Logout(s)[4], 8) /\ Single(Logout(s)[4])
    BY <1>1, UserRow
  <2> QED
    BY <2>1, <2>2, <2>3, <2>4
<1>3. \A i, j \in 1..4 : i < j => Follows("logout", L[i], L[j])
  BY DEF Follows
<1>4. \A i \in 1..4 : L[i] < 10
  OBVIOUS
<1> QED
  BY <1>1, <1>2, <1>3, <1>4, TodoOrder

LEMMA ExchangeOrder ==
    ASSUME NEW s \in Session
    PROVE  Todo(Exchange(s, {})) \subseteq Place /\ InOrder("exchange", Todo(Exchange(s, {})))
<1>1. /\ DOMAIN Exchange(s, {}) = 1..6
      /\ Exchange(s, {})[1] = On("code", {}, "update")
      /\ Exchange(s, {})[2] = On("app", {}, "update")
      /\ Exchange(s, {})[3] = On("session", {s}, "update")
      /\ Exchange(s, {})[4] = On("code", {s}, "update")
      /\ Exchange(s, {})[5] = On("user", {None}, "update")
      /\ Exchange(s, {})[6] = On("radar", {None}, "update")
  BY DEF Exchange, User, Radar
<1> DEFINE L == <<1, 2, 3, 4, 8, 9>>
<1>2. \A i \in 1..6 : Rows(Exchange(s, {})[i], L[i]) /\ Single(Exchange(s, {})[i])
  <2>1. Rows(Exchange(s, {})[1], 1) /\ Single(Exchange(s, {})[1])
    BY <1>1, NoRows
  <2>2. Rows(Exchange(s, {})[2], 2) /\ Single(Exchange(s, {})[2])
    BY <1>1, NoRows
  <2>3. Rows(Exchange(s, {})[3], 3) /\ Single(Exchange(s, {})[3])
    BY <1>1, OneRow
  <2>4. Rows(Exchange(s, {})[4], 4) /\ Single(Exchange(s, {})[4])
    BY <1>1, OneRow
  <2>5. Rows(Exchange(s, {})[5], 8) /\ Single(Exchange(s, {})[5])
    BY <1>1, UserRow
  <2>6. Rows(Exchange(s, {})[6], 9) /\ Single(Exchange(s, {})[6])
    BY <1>1, UserRow
  <2> QED
    BY <2>1, <2>2, <2>3, <2>4, <2>5, <2>6
<1>3. \A i, j \in 1..6 : i < j => Follows("exchange", L[i], L[j])
  BY DEF Follows
<1>4. \A i \in 1..6 : L[i] < 10
  OBVIOUS
<1> QED
  BY <1>1, <1>2, <1>3, <1>4, TodoOrder

LEMMA IntrospectOrder ==
    ASSUME NEW s \in Session
    PROVE  Todo(Introspect(s)) \subseteq Place /\ InOrder("introspect", Todo(Introspect(s)))
<1>1. /\ DOMAIN Introspect(s) = 1..2
      /\ Introspect(s)[1] = On("session", {s}, "update")
      /\ Introspect(s)[2] = On("app", {s}, "update")
  BY DEF Introspect
<1> DEFINE L == <<3, 5>>
<1>2. \A i \in 1..2 : Rows(Introspect(s)[i], L[i]) /\ Single(Introspect(s)[i])
  <2>1. Rows(Introspect(s)[1], 3) /\ Single(Introspect(s)[1])
    BY <1>1, OneRow
  <2>2. Rows(Introspect(s)[2], 5) /\ Single(Introspect(s)[2])
    BY <1>1, OneRow
  <2> QED
    BY <2>1, <2>2
<1>3. \A i, j \in 1..2 : i < j => Follows("introspect", L[i], L[j])
  BY DEF Follows
<1>4. \A i \in 1..2 : L[i] < 10
  OBVIOUS
<1> QED
  BY <1>1, <1>2, <1>3, <1>4, TodoOrder

LEMMA RevokeOrder ==
    ASSUME NEW s \in Session
    PROVE  Todo(Revoke(s)) \subseteq Place /\ InOrder("revoke", Todo(Revoke(s)))
<1>1. /\ DOMAIN Revoke(s) = 1..2
      /\ Revoke(s)[1] = On("app", {s}, "update")
      /\ Revoke(s)[2] = On("user", {None}, "key")
  BY DEF Revoke, User
<1> DEFINE L == <<5, 8>>
<1>2. \A i \in 1..2 : Rows(Revoke(s)[i], L[i]) /\ Single(Revoke(s)[i])
  <2>1. Rows(Revoke(s)[1], 5) /\ Single(Revoke(s)[1])
    BY <1>1, OneRow
  <2>2. Rows(Revoke(s)[2], 8) /\ Single(Revoke(s)[2])
    BY <1>1, UserRow
  <2> QED
    BY <2>1, <2>2
<1>3. \A i, j \in 1..2 : i < j => Follows("revoke", L[i], L[j])
  BY DEF Follows
<1>4. \A i \in 1..2 : L[i] < 10
  OBVIOUS
<1> QED
  BY <1>1, <1>2, <1>3, <1>4, TodoOrder

LEMMA RequestResetOrder ==
    Todo(RequestReset) \subseteq Place /\ InOrder("request reset", Todo(RequestReset))
<1>1. /\ DOMAIN RequestReset = 1..2
      /\ RequestReset[1] = On("token", Session, "no key")
      /\ RequestReset[2] = On("user", {None}, "key")
  BY DEF RequestReset, User
<1> DEFINE L == <<10, 8>>
<1>2. \A i \in 1..2 : Rows(RequestReset[i], L[i])
  <2>1. Rows(RequestReset[1], 10)
    BY <1>1, AllRows
  <2>2. Rows(RequestReset[2], 8)
    BY <1>1, UserRow
  <2> QED
    BY <2>1, <2>2
<1>3. \A i, j \in 1..2 : i < j => Follows("request reset", L[i], L[j])
  BY DEF Follows, SeveralKinds
<1>4. "request reset" \in SeveralKinds
  BY DEF SeveralKinds
<1> QED
  BY <1>1, <1>2, <1>3, <1>4, TodoOrder

LEMMA CompleteResetOrder ==
    ASSUME NEW s \in Session
    PROVE  Todo(CompleteReset(s)) \subseteq Place /\ InOrder("complete reset", Todo(CompleteReset(s)))
<1>1. /\ DOMAIN CompleteReset(s) = 1..8
      /\ CompleteReset(s)[1] = On("session", Session, "no key")
      /\ CompleteReset(s)[2] = On("code", Session, "no key")
      /\ CompleteReset(s)[3] = On("app", Session, "no key")
      /\ CompleteReset(s)[4] = On("pre", Session, "no key")
      /\ CompleteReset(s)[5] = On("challenge", Session, "no key")
      /\ CompleteReset(s)[6] = On("user", {None}, "key")
      /\ CompleteReset(s)[7] = On("token", {s}, "no key")
      /\ CompleteReset(s)[8] = On("user", {None}, "no key")
  BY DEF CompleteReset, Ends, User
<1> DEFINE L == <<3, 4, 5, 6, 7, 8, 10, 8>>
<1>2. \A i \in 1..8 : Rows(CompleteReset(s)[i], L[i])
  <2>1. Rows(CompleteReset(s)[1], 3)
    BY <1>1, AllRows
  <2>2. Rows(CompleteReset(s)[2], 4)
    BY <1>1, AllRows
  <2>3. Rows(CompleteReset(s)[3], 5)
    BY <1>1, AllRows
  <2>4. Rows(CompleteReset(s)[4], 6)
    BY <1>1, AllRows
  <2>5. Rows(CompleteReset(s)[5], 7)
    BY <1>1, AllRows
  <2>6. Rows(CompleteReset(s)[6], 8)
    BY <1>1, UserRow
  <2>7. Rows(CompleteReset(s)[7], 10)
    BY <1>1, OneRow
  <2>8. Rows(CompleteReset(s)[8], 8)
    BY <1>1, UserRow
  <2> QED
    BY <2>1, <2>2, <2>3, <2>4, <2>5, <2>6, <2>7, <2>8
<1>3. \A i, j \in 1..8 : i < j => Follows("complete reset", L[i], L[j])
  BY DEF Follows, SeveralKinds
<1>4. "complete reset" \in SeveralKinds
  BY DEF SeveralKinds
<1> QED
  BY <1>1, <1>2, <1>3, <1>4, TodoOrder

LEMMA ResetOrder ==
    Todo(Reset) \subseteq Place /\ InOrder("reset", Todo(Reset))
<1>1. /\ DOMAIN Reset = 1..8
      /\ Reset[1] = On("session", Session, "no key")
      /\ Reset[2] = On("code", Session, "no key")
      /\ Reset[3] = On("app", Session, "no key")
      /\ Reset[4] = On("pre", Session, "no key")
      /\ Reset[5] = On("challenge", Session, "no key")
      /\ Reset[6] = On("token", Session, "no key")
      /\ Reset[7] = On("user", {None}, "no key")
      /\ Reset[8] = {}
  BY DEF Reset, Ends, User
<1> DEFINE L == <<3, 4, 5, 6, 7, 10, 8, 9>>
<1>2. \A i \in 1..8 : Rows(Reset[i], L[i])
  <2>1. Rows(Reset[1], 3)
    BY <1>1, AllRows
  <2>2. Rows(Reset[2], 4)
    BY <1>1, AllRows
  <2>3. Rows(Reset[3], 5)
    BY <1>1, AllRows
  <2>4. Rows(Reset[4], 6)
    BY <1>1, AllRows
  <2>5. Rows(Reset[5], 7)
    BY <1>1, AllRows
  <2>6. Rows(Reset[6], 10)
    BY <1>1, AllRows
  <2>7. Rows(Reset[7], 8)
    BY <1>1, UserRow
  <2>8. Rows(Reset[8], 9)
    BY <1>1 DEF Rows
  <2> QED
    BY <2>1, <2>2, <2>3, <2>4, <2>5, <2>6, <2>7, <2>8
<1>3. \A i, j \in 1..8 : i < j => Follows("reset", L[i], L[j])
  BY DEF Follows, SeveralKinds
<1>4. "reset" \in SeveralKinds
  BY DEF SeveralKinds
<1> QED
  BY <1>1, <1>2, <1>3, <1>4, TodoOrder

LEMMA EditOrder ==
    Todo(Edit) \subseteq Place /\ InOrder("edit", Todo(Edit))
<1>1. /\ DOMAIN Edit = 1..8
      /\ Edit[1] = On("session", Session, "no key")
      /\ Edit[2] = On("code", Session, "no key")
      /\ Edit[3] = On("app", Session, "no key")
      /\ Edit[4] = On("pre", Session, "no key")
      /\ Edit[5] = On("challenge", Session, "no key")
      /\ Edit[6] = On("token", Session, "no key")
      /\ Edit[7] = On("user", {None}, "update")
      /\ Edit[8] = On("radar", {None}, "key")
  BY DEF Edit, Ends, User, Radar
<1> DEFINE L == <<3, 4, 5, 6, 7, 10, 8, 9>>
<1>2. \A i \in 1..8 : Rows(Edit[i], L[i])
  <2>1. Rows(Edit[1], 3)
    BY <1>1, AllRows
  <2>2. Rows(Edit[2], 4)
    BY <1>1, AllRows
  <2>3. Rows(Edit[3], 5)
    BY <1>1, AllRows
  <2>4. Rows(Edit[4], 6)
    BY <1>1, AllRows
  <2>5. Rows(Edit[5], 7)
    BY <1>1, AllRows
  <2>6. Rows(Edit[6], 10)
    BY <1>1, AllRows
  <2>7. Rows(Edit[7], 8)
    BY <1>1, UserRow
  <2>8. Rows(Edit[8], 9)
    BY <1>1, UserRow
  <2> QED
    BY <2>1, <2>2, <2>3, <2>4, <2>5, <2>6, <2>7, <2>8
<1>3. \A i, j \in 1..8 : i < j => Follows("edit", L[i], L[j])
  BY DEF Follows, SeveralKinds
<1>4. "edit" \in SeveralKinds
  BY DEF SeveralKinds
<1> QED
  BY <1>1, <1>2, <1>3, <1>4, TodoOrder

LEMMA UnassignOrder ==
    Todo(Unassign) \subseteq Place /\ InOrder("unassign", Todo(Unassign))
<1>1. /\ DOMAIN Unassign = 1..4
      /\ Unassign[1] = On("code", Session, "no key")
      /\ Unassign[2] = On("app", Session, "no key")
      /\ Unassign[3] = On("user", {None}, "update")
      /\ Unassign[4] = On("radar", {None}, "key")
  BY DEF Unassign, User, Radar
<1> DEFINE L == <<4, 5, 8, 9>>
<1>2. \A i \in 1..4 : Rows(Unassign[i], L[i])
  <2>1. Rows(Unassign[1], 4)
    BY <1>1, AllRows
  <2>2. Rows(Unassign[2], 5)
    BY <1>1, AllRows
  <2>3. Rows(Unassign[3], 8)
    BY <1>1, UserRow
  <2>4. Rows(Unassign[4], 9)
    BY <1>1, UserRow
  <2> QED
    BY <2>1, <2>2, <2>3, <2>4
<1>3. \A i, j \in 1..4 : i < j => Follows("unassign", L[i], L[j])
  BY DEF Follows, SeveralKinds
<1>4. "unassign" \in SeveralKinds
  BY DEF SeveralKinds
<1> QED
  BY <1>1, <1>2, <1>3, <1>4, TodoOrder

LEMMA DeleteOrder ==
    Todo(Delete({})) \subseteq Place /\ InOrder("delete", Todo(Delete({})))
<1>1. /\ DOMAIN Delete({}) = 1..8
      /\ Delete({})[1] = On("session", Session, "update")
      /\ Delete({})[2] = On("code", Session, "update")
      /\ Delete({})[3] = On("app", Session, "update")
      /\ Delete({})[4] = On("token", Session, "update")
      /\ Delete({})[5] = On("pre", Session, "no key")
      /\ Delete({})[6] = On("challenge", Session, "no key")
      /\ Delete({})[7] = On("user", {None}, "update")
      /\ Delete({})[8] = {}
  BY DEF Delete, User, On
<1> DEFINE L == <<3, 4, 5, 10, 6, 7, 8, 9>>
<1>2. \A i \in 1..8 : Rows(Delete({})[i], L[i])
  <2>1. Rows(Delete({})[1], 3)
    BY <1>1, AllRows
  <2>2. Rows(Delete({})[2], 4)
    BY <1>1, AllRows
  <2>3. Rows(Delete({})[3], 5)
    BY <1>1, AllRows
  <2>4. Rows(Delete({})[4], 10)
    BY <1>1, AllRows
  <2>5. Rows(Delete({})[5], 6)
    BY <1>1, AllRows
  <2>6. Rows(Delete({})[6], 7)
    BY <1>1, AllRows
  <2>7. Rows(Delete({})[7], 8)
    BY <1>1, UserRow
  <2>8. Rows(Delete({})[8], 9)
    BY <1>1 DEF Rows
  <2> QED
    BY <2>1, <2>2, <2>3, <2>4, <2>5, <2>6, <2>7, <2>8
<1>3. \A i, j \in 1..8 : i < j => Follows("delete", L[i], L[j])
  BY DEF Follows, SeveralKinds
<1>4. "delete" \in SeveralKinds
  BY DEF SeveralKinds
<1> QED
  BY <1>1, <1>2, <1>3, <1>4, TodoOrder

(* The inverted ones have their types. *)
LEMMA StatementsType ==
    ASSUME NEW n \in Nat, NEW stmts, DOMAIN stmts = 1..n,
           \A i \in 1..n : stmts[i] \subseteq Lock
    PROVE  Todo(stmts) \subseteq Place
  BY DEF Todo, Place

LEMMA AnyRows ==
    ASSUME NEW t \in Table, NEW mode \in Mode, NEW rows \in SUBSET (Session \cup {None})
    PROVE  On(t, rows, mode) \subseteq Lock
  BY DEF On, Lock

LEMMA InvertedTypes ==
    ASSUME NEW s \in Session, NEW old \in SUBSET Session
    PROVE  /\ Todo(Expire(s)) \subseteq Place
           /\ Todo(Authorize(s, old)) \subseteq Place
           /\ Todo(Exchange(s, old)) \subseteq Place
           /\ Todo(Cleanup(old)) \subseteq Place
           /\ Todo(Delete(old)) \subseteq Place
<1>1. /\ "session" \in Table /\ "code" \in Table /\ "app" \in Table /\ "pre" \in Table
      /\ "challenge" \in Table /\ "user" \in Table /\ "radar" \in Table /\ "token" \in Table
      /\ "key" \in Mode /\ "no key" \in Mode /\ "update" \in Mode
  BY DEF Table, Mode
<1>2. /\ {s} \in SUBSET (Session \cup {None}) /\ old \in SUBSET (Session \cup {None})
      /\ Session \ old \in SUBSET (Session \cup {None}) /\ {None} \in SUBSET (Session \cup {None})
      /\ Session \in SUBSET (Session \cup {None})
  OBVIOUS
<1>3. \A t \in Table, mode \in Mode, rows \in SUBSET (Session \cup {None}) :
        On(t, rows, mode) \subseteq Lock
  BY AnyRows
<1>4. Todo(Expire(s)) \subseteq Place
  <2>1. DOMAIN Expire(s) = 1..4
    BY DEF Expire
  <2>2. /\ Expire(s)[1] \subseteq Lock
        /\ Expire(s)[2] \subseteq Lock
        /\ Expire(s)[3] \subseteq Lock
        /\ Expire(s)[4] \subseteq Lock
    BY <1>1, <1>2, <1>3 DEF Expire, User
  <2>3. \A i \in 1..4 : Expire(s)[i] \subseteq Lock
    BY <2>2
  <2> QED
    BY <2>1, <2>3, StatementsType
<1>5. Todo(Authorize(s, old)) \subseteq Place
  <2>1. DOMAIN Authorize(s, old) = 1..4
    BY DEF Authorize
  <2>2. /\ Authorize(s, old)[1] \subseteq Lock
        /\ Authorize(s, old)[2] \subseteq Lock
        /\ Authorize(s, old)[3] \subseteq Lock
        /\ Authorize(s, old)[4] \subseteq Lock
    BY <1>1, <1>2, <1>3 DEF Authorize, User, Radar
  <2>3. \A i \in 1..4 : Authorize(s, old)[i] \subseteq Lock
    BY <2>2
  <2> QED
    BY <2>1, <2>3, StatementsType
<1>6. Todo(Exchange(s, old)) \subseteq Place
  <2>1. DOMAIN Exchange(s, old) = 1..6
    BY DEF Exchange
  <2>2. /\ Exchange(s, old)[1] \subseteq Lock
        /\ Exchange(s, old)[2] \subseteq Lock
        /\ Exchange(s, old)[3] \subseteq Lock
        /\ Exchange(s, old)[4] \subseteq Lock
        /\ Exchange(s, old)[5] \subseteq Lock
        /\ Exchange(s, old)[6] \subseteq Lock
    BY <1>1, <1>2, <1>3 DEF Exchange, User, Radar
  <2>3. \A i \in 1..6 : Exchange(s, old)[i] \subseteq Lock
    BY <2>2
  <2> QED
    BY <2>1, <2>3, StatementsType
<1>7. Todo(Cleanup(old)) \subseteq Place
  <2>1. DOMAIN Cleanup(old) = 1..2
    BY DEF Cleanup
  <2>2. /\ Cleanup(old)[1] \subseteq Lock
        /\ Cleanup(old)[2] \subseteq Lock
    BY <1>1, <1>2, <1>3 DEF Cleanup
  <2>3. \A i \in 1..2 : Cleanup(old)[i] \subseteq Lock
    BY <2>2
  <2> QED
    BY <2>1, <2>3, StatementsType
<1>8. Todo(Delete(old)) \subseteq Place
  <2>1. DOMAIN Delete(old) = 1..8
    BY DEF Delete
  <2>2. /\ Delete(old)[1] \subseteq Lock
        /\ Delete(old)[2] \subseteq Lock
        /\ Delete(old)[3] \subseteq Lock
        /\ Delete(old)[4] \subseteq Lock
        /\ Delete(old)[5] \subseteq Lock
        /\ Delete(old)[6] \subseteq Lock
        /\ Delete(old)[7] \subseteq Lock
        /\ Delete(old)[8] \subseteq Lock
    BY <1>1, <1>2, <1>3 DEF Delete, User
  <2>3. \A i \in 1..8 : Delete(old)[i] \subseteq Lock
    BY <2>2
  <2> QED
    BY <2>1, <2>3, StatementsType
<1> QED
  BY <1>4, <1>5, <1>6, <1>7, <1>8

LEMMA MfaLoginType == Todo(MfaLogin) \subseteq Place
<1>1. DOMAIN MfaLogin = 1..2
  BY DEF MfaLogin
<1>2. MfaLogin[1] \subseteq Lock
  <2>1. Rows(On("user", {None}, "key"), 8)
    BY UserRow
  <2> QED
    BY <2>1 DEF MfaLogin, User, Rows
<1>3. MfaLogin[2] \subseteq Lock
  <2>1. Rows(On("challenge", Session, "no key"), 7)
    BY AllRows
  <2> QED
    BY <2>1 DEF MfaLogin, Rows
<1>4. \A i \in 1..2 : MfaLogin[i] \subseteq Lock
  BY <1>2, <1>3
<1> QED
  BY <1>1, <1>4, StatementsType

LEMMA CleanupOrder == InOrder("cleanup", Todo(Cleanup({})))
<1>1. DOMAIN Cleanup({}) = 1..2 /\ Cleanup({})[1] = {} /\ Cleanup({})[2] = {}
  BY DEF Cleanup, On
<1>2. \A i \in 1..2 : Cleanup({})[i] = {}
  BY <1>1
<1>3. Todo(Cleanup({})) = {}
  BY <1>1, <1>2 DEF Todo
<1> QED
  BY <1>3 DEF InOrder

(* Every request is of its type, and in order unless it is inverted. *)
GoodRequest(r) ==
    /\ r \in RequestRow /\ r.kind # "idle"
    /\ r.kind \notin {"mfa login", "authorize", "expire"} /\ r.old = {} => InOrder(r.kind, r.todo)

LEMMA GoodRecord ==
    ASSUME NEW kind \in Kind, kind # "idle", NEW old \in SUBSET Session, NEW todo,
           todo \subseteq Place,
           kind \notin {"mfa login", "authorize", "expire"} /\ old = {} => InOrder(kind, todo)
    PROVE  GoodRequest([kind |-> kind, old |-> old, todo |-> todo])
  BY DEF GoodRequest, RequestRow

LEMMA RequestsInOrder == \A r \in Requests : GoodRequest(r)
<1> USE DEF Kind, Request
<1>1. GoodRequest(Request("login", {}, Login))
  BY LoginOrder, GoodRecord
<1>2. GoodRequest(Request("mfa login", {}, MfaLogin))
  BY MfaLoginType, GoodRecord
<1>3. GoodRequest(Request("request reset", {}, RequestReset))
  BY RequestResetOrder, GoodRecord
<1>4. GoodRequest(Request("reset", {}, Reset))
  BY ResetOrder, GoodRecord
<1>5. GoodRequest(Request("edit", {}, Edit))
  BY EditOrder, GoodRecord
<1>6. GoodRequest(Request("unassign", {}, Unassign))
  BY UnassignOrder, GoodRecord
<1>7. ASSUME NEW s \in Session PROVE GoodRequest(Request("verify", {}, Verify(s)))
  BY VerifyOrder, GoodRecord
<1>8. ASSUME NEW s \in Session PROVE GoodRequest(Request("resend", {}, Resend(s)))
  BY ResendOrder, GoodRecord
<1>9. ASSUME NEW s \in Session PROVE GoodRequest(Request("cancel", {}, Cancel(s)))
  BY CancelOrder, GoodRecord
<1>10. ASSUME NEW s \in Session PROVE GoodRequest(Request("visit", {}, Visit(s)))
  BY VisitOrder, GoodRecord
<1>11. ASSUME NEW s \in Session PROVE GoodRequest(Request("expire", {}, Expire(s)))
  BY InvertedTypes, GoodRecord
<1>12. ASSUME NEW s \in Session PROVE GoodRequest(Request("logout", {}, Logout(s)))
  BY LogoutOrder, GoodRecord
<1>13. ASSUME NEW s \in Session PROVE GoodRequest(Request("introspect", {}, Introspect(s)))
  BY IntrospectOrder, GoodRecord
<1>14. ASSUME NEW s \in Session PROVE GoodRequest(Request("revoke", {}, Revoke(s)))
  BY RevokeOrder, GoodRecord
<1>15. ASSUME NEW s \in Session PROVE GoodRequest(Request("complete reset", {}, CompleteReset(s)))
  BY CompleteResetOrder, GoodRecord
<1>16. ASSUME NEW s \in Session, NEW old \in SUBSET Session
      PROVE  GoodRequest(Request("authorize", old, Authorize(s, old)))
  BY InvertedTypes, GoodRecord
<1>17. ASSUME NEW s \in Session, NEW old \in SUBSET Session
      PROVE  GoodRequest(Request("exchange", old, Exchange(s, old)))
  <2>1. old = {} => InOrder("exchange", Todo(Exchange(s, old)))
    BY ExchangeOrder
  <2> QED
    BY <2>1, InvertedTypes, GoodRecord
<1>18. ASSUME NEW s \in Session, NEW old \in SUBSET Session
      PROVE  GoodRequest(Request("cleanup", old, Cleanup(old)))
  <2>1. old = {} => InOrder("cleanup", Todo(Cleanup(old)))
    BY CleanupOrder
  <2> QED
    BY <2>1, InvertedTypes, GoodRecord
<1>19. ASSUME NEW s \in Session, NEW old \in SUBSET Session
      PROVE  GoodRequest(Request("delete", old, Delete(old)))
  <2>1. old = {} => InOrder("delete", Todo(Delete(old)))
    BY DeleteOrder
  <2> QED
    BY <2>1, InvertedTypes, GoodRecord
<1> HIDE DEF Kind, Request
<1> SUFFICES ASSUME NEW r \in Requests PROVE GoodRequest(r)
  OBVIOUS
<1>20. CASE r \in OfTheUser
  BY <1>1, <1>2, <1>3, <1>4, <1>5, <1>6, <1>20 DEF OfTheUser
<1>21. ASSUME NEW s \in Session, r \in OfSession(s) PROVE GoodRequest(r)
  BY <1>7, <1>8, <1>9, <1>10, <1>11, <1>12, <1>13, <1>14, <1>15, <1>21 DEF OfSession
<1>22. ASSUME NEW s \in Session, NEW old \in SUBSET Session, r \in WithOld(s, old)
       PROVE  GoodRequest(r)
  BY <1>16, <1>17, <1>18, <1>19, <1>22 DEF WithOld
<1>23. CASE r \in UNION {OfSession(s) : s \in Session}
  BY <1>21, <1>23
<1>24. CASE r \in UNION {WithOld(s, old) : s \in Session, old \in SUBSET Session}
  <2>1. PICK s \in Session, old \in SUBSET Session : r \in WithOld(s, old)
    BY <1>24
  <2> QED
    BY <1>22, <2>1
<1> QED
  BY <1>20, <1>23, <1>24 DEF Requests

-----------------------------------------------------------------------------
LEMMA OrderInit == Init => OrderInv
<1> SUFFICES ASSUME Init PROVE OrderInv
  OBVIOUS
<1>1. NoRequest \in RequestRow
  BY DEF NoRequest, RequestRow, Kind
<1>2. LockTypes
  BY <1>1 DEF Init, LockTypes
<1>3. ASSUME NEW w \in Worker
      PROVE  req[w].todo = {} /\ want[w] = NoLock /\ held[w] = {}
  BY DEF Init, NoRequest
<1>4. \A w \in Worker : Orderly(w)
  BY <1>3 DEF Orderly, InOrder
<1> QED
  BY <1>2, <1>3, <1>4 DEF OrderInv

(* Each worker's part of the invariant is its own. *)
WorkerInv(w) ==
    /\ req[w].kind = "idle" => req[w].todo = {} /\ want[w] = NoLock /\ held[w] = {}
    /\ ~Inverted(w) => Orderly(w)

LEMMA OthersStay ==
    ASSUME NEW w \in Worker, NEW v \in Worker, WorkerInv(v),
           req'[v] = req[v], want'[v] = want[v], held'[v] = held[v]
    PROVE  WorkerInv(v)'
  BY DEF WorkerInv, Inverted, Orderly

LEMMA BeginStep == ASSUME OrderInv, NEW w \in Worker, Begin(w) PROVE OrderInv'
<1>1. PICK r \in Requests : req' = [req EXCEPT ![w] = r]
  BY DEF Begin
<1>2. GoodRequest(r)
  BY RequestsInOrder
<1>3. LockTypes'
  BY <1>1, <1>2 DEF OrderInv, LockTypes, Begin, GoodRequest
<1>4. WorkerInv(w)'
  <2>1. req'[w] = r /\ want'[w] = NoLock /\ held'[w] = {}
    BY <1>1 DEF OrderInv, LockTypes, Begin
  <2> QED
    BY <1>2, <2>1 DEF WorkerInv, Inverted, Orderly, GoodRequest
<1>5. ASSUME NEW v \in Worker, v # w PROVE WorkerInv(v)'
  BY <1>1, <1>5, OthersStay DEF OrderInv, LockTypes, Begin, WorkerInv
<1> QED
  BY <1>3, <1>4, <1>5 DEF OrderInv, WorkerInv

(* What is asked for is the first of what was to come. *)
LEMMA AskStep == ASSUME OrderInv, NEW w \in Worker, Ask(w) PROVE OrderInv'
<1>1. PICK x \in req[w].todo :
        /\ \A y \in req[w].todo : x[1] <= y[1]
        /\ want' = [want EXCEPT ![w] = x[2]]
        /\ req' = [req EXCEPT ![w].todo = @ \ {x}]
  BY DEF Ask
<1>2. x \in Place /\ x[2] \in Lock
  BY DEF OrderInv, LockTypes, RequestRow, Place
<1>3. LockTypes'
  BY <1>1, <1>2 DEF OrderInv, LockTypes, RequestRow, Ask
<1>4. WorkerInv(w)'
  <2>0. req[w] \in RequestRow /\ req[w].todo # {}
    BY DEF OrderInv, LockTypes
  <2>1. /\ req'[w].todo = req[w].todo \ {x} /\ req'[w].kind = req[w].kind
        /\ req'[w].old = req[w].old
        /\ want'[w] = x[2] /\ held'[w] = held[w] /\ req[w].kind # "idle"
    <3>1. req'[w] = [req[w] EXCEPT !.todo = @ \ {x}]
      BY <1>1 DEF OrderInv, LockTypes
    <3>2. want'[w] = x[2] /\ held'[w] = held[w] /\ req[w].kind # "idle"
      BY <1>1, <2>0 DEF OrderInv, LockTypes, Ask
    <3> QED
      BY <2>0, <3>1, <3>2 DEF RequestRow
  <2>2. ASSUME ~Inverted(w) PROVE Orderly(w)'
    <3>1. Orderly(w)
      BY <2>2 DEF OrderInv
    <3>2. \A l \in held[w] : Before(req[w].kind, l, x[2])
      BY <3>1 DEF Orderly
    <3>3. \A y \in req[w].todo \ {x} : Before(req[w].kind, x[2], y[2])
      BY <1>1, <3>1 DEF Orderly, InOrder
    <3>4. InOrder(req[w].kind, req[w].todo \ {x})
      BY <3>1 DEF Orderly, InOrder
    <3>5. Fitting(req[w].kind, x[2]) /\ \A l \in held[w] : Fitting(req[w].kind, l)
      BY <3>1 DEF Orderly, InOrder
    <3>6. \A l \in held[w], y \in req[w].todo \ {x} : Before(req[w].kind, l, y[2])
      BY <3>1 DEF Orderly
    <3> QED
      BY <2>1, <3>2, <3>3, <3>4, <3>5, <3>6 DEF Orderly
  <2> QED
    BY <2>1, <2>2 DEF WorkerInv, Inverted
<1>5. ASSUME NEW v \in Worker, v # w PROVE WorkerInv(v)'
  BY <1>1, <1>5, OthersStay DEF OrderInv, LockTypes, Ask, WorkerInv
<1> QED
  BY <1>3, <1>4, <1>5 DEF OrderInv, WorkerInv

LEMMA GrantStep == ASSUME OrderInv, NEW w \in Worker, Grant(w) PROVE OrderInv'
<1>1. /\ held'[w] = held[w] \cup {want[w]} /\ want'[w] = NoLock /\ req' = req
      /\ want[w] \in Lock /\ want[w] # NoLock
  BY DEF Grant, OrderInv, LockTypes
<1>2. LockTypes'
  BY <1>1 DEF OrderInv, LockTypes, Grant
<1>3. WorkerInv(w)'
  <2>1. req[w].kind # "idle"
    BY <1>1 DEF OrderInv
  <2>2. ASSUME ~Inverted(w) PROVE Orderly(w)'
    <3>1. Orderly(w)
      BY <2>2 DEF OrderInv
    <3>2. /\ \A l \in held'[w] : Fitting(req[w].kind, l)
          /\ \A l \in held'[w], x \in req[w].todo : Before(req[w].kind, l, x[2])
      BY <1>1, <3>1 DEF Orderly
    <3> QED
      BY <1>1, <3>1, <3>2 DEF Orderly
  <2> QED
    BY <1>1, <2>1, <2>2 DEF WorkerInv, Inverted
<1>4. ASSUME NEW v \in Worker, v # w PROVE WorkerInv(v)'
  BY <1>4, OthersStay DEF OrderInv, LockTypes, Grant, WorkerInv
<1> QED
  BY <1>2, <1>3, <1>4 DEF OrderInv, WorkerInv

LEMMA CloseStep == ASSUME OrderInv, NEW w \in Worker, Close(w) PROVE OrderInv'
<1>1. req'[w] = NoRequest /\ want'[w] = NoLock /\ held'[w] = {}
  BY DEF Close, OrderInv, LockTypes
<1>2. NoRequest \in RequestRow
  BY DEF NoRequest, RequestRow, Kind
<1>3. LockTypes'
  BY <1>2 DEF OrderInv, LockTypes, Close
<1>4. WorkerInv(w)'
  BY <1>1 DEF WorkerInv, NoRequest, Orderly, InOrder
<1>5. ASSUME NEW v \in Worker, v # w PROVE WorkerInv(v)'
  BY <1>5, OthersStay DEF OrderInv, LockTypes, Close, WorkerInv
<1> QED
  BY <1>3, <1>4, <1>5 DEF OrderInv, WorkerInv

LEMMA OrderStep == OrderInv /\ [Next]_vars => OrderInv'
<1> SUFFICES ASSUME OrderInv, [Next]_vars PROVE OrderInv'
  OBVIOUS
<1>1. CASE UNCHANGED vars
  BY <1>1 DEF vars, OrderInv, LockTypes, Inverted, Orderly
<1>2. ASSUME NEW w \in Worker, Begin(w) PROVE OrderInv'
  BY <1>2, BeginStep
<1>3. ASSUME NEW w \in Worker, Step(w) PROVE OrderInv'
  BY <1>3, AskStep, GrantStep, CloseStep DEF Step, End
<1>4. ASSUME NEW w \in Worker, Fail(w) \/ Victim(w) PROVE OrderInv'
  BY <1>4, CloseStep DEF Fail, Victim
<1> QED
  BY <1>1, <1>2, <1>3, <1>4 DEF Next

-----------------------------------------------------------------------------
(* How far a request that waits has come; one that runs is ahead of all.   *)
(* One that locks several rows may wait for a row of a table it has rows   *)
(* of, and so is half a table ahead of the others.                         *)
Progress(w) ==
    IF want[w] = NoLock THEN 40
    ELSE 2 * Level(want[w]) + IF Several(w) THEN 1 ELSE 0

(* A request waits only for one that has come further. *)
LEMMA WaitsForAhead ==
    ASSUME OrderInv, NEW w \in Worker, NEW v \in Worker, ~Inverted(w), ~Inverted(v),
           WaitsFor(w, v), ~(Several(w) /\ Several(v))
    PROVE  Progress(w) < Progress(v)
<1>1. PICK l \in held[v] : l[1] = want[w][1]
  BY DEF WaitsFor
<1>2. l \in Lock
  BY DEF OrderInv, LockTypes
<1>3. want[w] # NoLock
  BY <1>1, <1>2 DEF NoLock, Lock, Table
<1>4. Level(want[w]) = Level(l)
  BY <1>1 DEF Level
<1>5. Level(want[w]) \in 3..10 /\ Level(want[v]) \in 3..10
  BY Levels
<1>6. Level(l) < 10
  <2>1. Fitting(req[v].kind, l) /\ Fitting(req[w].kind, want[w])
    BY <1>3 DEF OrderInv, Orderly
  <2> QED
    BY <1>4, <2>1 DEF Fitting, Several, SeveralKinds
<1>7. CASE want[v] = NoLock
  BY <1>3, <1>5, <1>7 DEF Progress
<1>8. CASE want[v] # NoLock
  <2>1. Before(req[v].kind, l, want[v])
    BY <1>8 DEF OrderInv, Orderly
  <2>2. \/ Level(want[w]) < Level(want[v])
        \/ Several(v) /\ Level(want[w]) = Level(want[v])
    <3>1. Level(l) \in 3..10 /\ Level(l) # 10
      BY <1>4, <1>5, <1>6
    <3>2. Follows(req[v].kind, Level(l), Level(want[v]))
      BY <2>1 DEF Before
    <3>3. req[v].kind \in SeveralKinds => Several(v)
      BY DEF Several, SeveralKinds
    <3> QED
      BY <1>4, <3>1, <3>2, <3>3 DEF Follows
  <2> QED
    BY <1>3, <1>5, <1>8, <2>2 DEF Progress
<1> QED
  BY <1>7, <1>8

LEMMA ProgressIsNumber == \A w : Progress(w) \in Nat
  BY Levels DEF Progress

LEMMA OrderedNeverCircle == OrderInv => OrderedRequestsNeverDeadlock
<1> SUFFICES ASSUME OrderInv,
                    NEW ws \in SUBSET {w \in Worker : ~Inverted(w)},
                    \A v, w \in ws : Several(v) /\ Several(w) => v = w
             PROVE  Circle(ws) = {}
  BY DEF OrderedRequestsNeverDeadlock
<1> SUFFICES ASSUME NEW w \in ws, \A S \in SUBSET ws : Ahead(S, w, ws) => w \in S
             PROVE  FALSE
  BY DEF Circle
<1> DEFINE S == {v \in ws : Progress(w) < Progress(v)}
<1>1. ASSUME NEW u \in S \cup {w}, NEW v \in ws, WaitsFor(u, v) PROVE v \in S
  <2>1. u \in ws /\ Progress(w) <= Progress(u)
    BY ProgressIsNumber
  <2>2. u # v
    BY <1>1 DEF WaitsFor
  <2>3. Progress(u) < Progress(v)
    BY <1>1, <2>1, <2>2, WaitsForAhead
  <2> QED
    BY <2>1, <2>3, ProgressIsNumber
<1>2. Ahead(S, w, ws)
  BY <1>1 DEF Ahead
<1>3. w \in S
  BY <1>2
<1> QED
  BY <1>3, ProgressIsNumber

(* OrderInv always holds: requests that are not Inverted ask in order.     *)
THEOREM OrderInvariance == Spec => []OrderInv
<1>1. Spec => Init /\ [][Next]_vars
  BY DEF Spec
<1> QED
  BY <1>1, OrderInit, OrderStep, PTL

(* Requests that lock a session before its code, its application session,  *)
(* a sign-in, its mailed code, the user and the application never wait in  *)
(* a circle, whatever their number; one that locks several rows of a table *)
(* may be among them (exchange_authorization_code,                         *)
(* introspect_application_session, revoke_session, get_pre_auth_session,   *)
(* revoke_user_auth_state).                                                *)
THEOREM NoDeadlock == Spec => []OrderedRequestsNeverDeadlock
  BY OrderInvariance, OrderedNeverCircle, PTL

=============================================================================
