---------------------------- MODULE RolePermissions ----------------------------
(***************************************************************************)
(* The grants of the two roles, replaced by administrators while others do *)
(* the same.  A replacement is a DELETE of the rows of the role, and at    *)
(* the commit an INSERT for each key submitted.  The DELETE sees the rows  *)
(* there are when it starts (rows), waits until nobody holds one of them,  *)
(* and passes over those that were deleted meanwhile; a row another        *)
(* transaction has inserted since it does not see, whatever its key.       *)
(***************************************************************************)
EXTENDS FiniteSets

CONSTANTS
    Key,            \* PERMISSION_KEYS
    Critical,       \* CRITICAL_ADMIN_PERMISSIONS
    UserDefaults,   \* DEFAULT_ROLE_PERMISSIONS of USER
    RolesEdit,      \* the key roles.edit
    Thread          \* threads of the server

ASSUME KeysAreKnown == Critical \subseteq Key /\ UserDefaults \subseteq Key
ASSUME EditIsCritical == RolesEdit \in Critical

VARIABLES
    grants,     \* table role_permissions, by role
    replacing,  \* the replacement each thread serves
    last        \* history: what the last replacement to commit had submitted

rolesVars == <<grants, replacing, last>>

Role == {"ADMINISTRATOR", "USER"}

Defaults(r) == IF r = "ADMINISTRATOR" THEN Key ELSE UserDefaults

(* get_user_permission_keys: no grants at all means the defaults. *)
Effective(r) == IF grants[r] = {} THEN Defaults(r) ELSE grants[r]

NoReplacement == [step |-> "idle", role |-> "USER", keys |-> {}, rows |-> {}]

EndReplacement(w) == replacing' = [replacing EXCEPT ![w] = NoReplacement]

Nobody(w) == {}                                                     \* mutant

(* The other replacements of the same role. *)
Rivals(w) == {v \in Thread \ {w} : replacing[v].role = replacing[w].role}

Holds(v) == IF replacing[v].step = "commit" THEN replacing[v].rows ELSE {}

RolesInit ==
    /\ grants = [r \in Role |-> Defaults(r)]
    /\ replacing = [w \in Thread |-> NoReplacement]
    /\ last = grants

SubmitAny(w, actor, r, keys) ==                                     \* mutant
    /\ replacing[w].step = "idle"
    /\ RolesEdit \in Effective(actor)
    /\ replacing' = [replacing EXCEPT ![w] =
            [step |-> "find", role |-> r, keys |-> keys, rows |-> {}]]
    /\ UNCHANGED <<grants, last>>

(* The permission check and what is refused at once. *)
Submit(w, actor, r, keys) ==
    /\ replacing[w].step = "idle"
    /\ RolesEdit \in Effective(actor)
    /\ r = "ADMINISTRATOR" => Critical \subseteq keys
    /\ replacing' = [replacing EXCEPT ![w] =
            [step |-> "find", role |-> r, keys |-> keys, rows |-> {}]]
    /\ UNCHANGED <<grants, last>>

(* The DELETE begins, *)
Find(w) ==
    /\ replacing[w].step = "find"
    /\ replacing' = [replacing EXCEPT ![w].step = "delete",
                                      ![w].rows = grants[replacing[w].role]]
    /\ UNCHANGED <<grants, last>>

(* and gets the rows. *)
Delete(w) ==
    /\ replacing[w].step = "delete"
    /\ \A v \in Rivals(w) : Holds(v) \cap replacing[w].rows = {}
    /\ replacing' = [replacing EXCEPT ![w].step = "commit"]
    /\ UNCHANGED <<grants, last>>

Ignored(w) == {}                                                    \* mutant

(* What an INSERT meets: the rows this request has not deleted itself. *)
Conflicts(w) == replacing[w].keys \cap (grants[replacing[w].role] \ replacing[w].rows)

(* An INSERT waits for a transaction that has deleted a row with its key;  *)
(* one that finds such a row ends the request with an error                *)
(* (RolesRollback).                                                        *)
Commit(w) ==
    LET r == replacing[w].role
        gone == replacing[w].rows
    IN  /\ replacing[w].step = "commit"
        /\ \A v \in Rivals(w) : Holds(v) \cap Conflicts(w) = {}
        /\ Conflicts(w) = {}
        /\ grants' = [grants EXCEPT ![r] = (@ \ gone) \cup replacing[w].keys]
        /\ last' = [last EXCEPT ![r] = replacing[w].keys]
        /\ replacing' = [v \in Thread |->
                CASE v = w -> NoReplacement
                  [] v \in Rivals(w) -> [replacing[v] EXCEPT !.rows = @ \ gone]
                  [] OTHER -> replacing[v]]

RolesRollback(w) == replacing[w].step # "idle" /\ EndReplacement(w) /\ UNCHANGED <<grants, last>>

RolesNext == \E w \in Thread :
    \/ \E actor, r \in Role, keys \in SUBSET Key : Submit(w, actor, r, keys)
    \/ Find(w) \/ Delete(w) \/ Commit(w) \/ RolesRollback(w)

RolesSpec == RolesInit /\ [][RolesNext]_rolesVars

-----------------------------------------------------------------------------
(* Types; a replacement holds no row that is not there                     *)
(* (replace_role_permissions).                                             *)
RolesTypeOK ==
    /\ grants \in [Role -> SUBSET Key] /\ last \in [Role -> SUBSET Key]
    /\ replacing \in [Thread -> [step : {"idle", "find", "delete", "commit"}, role : Role,
                                 keys : SUBSET Key, rows : SUBSET Key]]
    /\ \A w \in Thread : replacing[w].rows \subseteq grants[replacing[w].role]

(* However replacements overlap, administrators keep what they need to     *)
(* repair any mistake (update_role_permissions).                           *)
AdministratorsKeepCritical == Critical \subseteq Effective("ADMINISTRATOR")

(* Two overlapping replacements of the administrators' grants never mix:   *)
(* both contain the critical keys, so the later one meets a row of the     *)
(* earlier and fails as a whole (replace_role_permissions).                *)
AdministratorGrantsAreSubmitted == grants["ADMINISTRATOR"] = last["ADMINISTRATOR"]

=============================================================================
