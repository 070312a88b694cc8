--------------------------- MODULE AccessControl ---------------------------
(***************************************************************************)
(* The role book the governor and the oracle share                         *)
(* (contracts/common/src/rbac.rs), as operators on its stored entries.     *)
(*                                                                         *)
(* An assignment is absent, permanent or expires at a time.  Next to the   *)
(* assignments the code keeps two figures it derives from them: the number *)
(* of Admins, which the guard of the last Admin relies on, and an index of *)
(* the members of each role, here how often an account is listed, since    *)
(* its order is of no consequence.  Repeated accounts of a batch change    *)
(* nothing, so the accounts of a call are a set.  Entries that hold a      *)
(* Boolean, as an older build wrote them, are left out: the host aborts    *)
(* every call that reads one as a RoleAssignment.                          *)
(***************************************************************************)
EXTENDS Integers, FiniteSets

CONSTANTS
    Accounts,   \* accounts that may hold a role
    Roles,      \* the contract's role enum
    Absent,     \* no RoleAssignment is stored
    Never       \* RoleAssignment { expires_at: None }

ASSUME AccountsAssumption == IsFiniteSet(Accounts)
ASSUME RolesAssumption == "Admin" \in Roles
ASSUME AssignmentAssumption == Absent \notin Int /\ Never \notin Int /\ Absent # Never

Assignment == Nat \cup {Absent, Never}

RoleBook == [entries : [Roles -> [Accounts -> Assignment]],
             admin_count : Int,
             listed : [Roles -> [Accounts -> Nat]]]

has_role(book, role, account, now) ==
    /\ book.entries[role][account] # Absent
    /\ book.entries[role][account] # Never => now < book.entries[role][account]

(* The accounts among these that have an assignment, expired or not *)
Assigned(book, role, accounts) == {a \in accounts : book.entries[role][a] # Absent}

(***************************************************************************)
(* grant_with_expiration for each account: an assignment that exists is    *)
(* renewed in place, also when it has expired                              *)
(***************************************************************************)
Granted_Relisted(book, role, accounts, expires_at, now) ==  \* mutant: what expired is added anew
    LET new == {a \in accounts : ~has_role(book, role, a, now)} IN
    [entries     |-> [r \in Roles |-> [a \in Accounts |->
                        IF r = role /\ a \in accounts THEN expires_at ELSE book.entries[r][a]]],
     admin_count |-> IF role = "Admin" THEN book.admin_count + Cardinality(new)
                     ELSE book.admin_count,
     listed      |-> [r \in Roles |-> [a \in Accounts |->
                        IF r = role /\ a \in new THEN book.listed[r][a] + 1
                        ELSE book.listed[r][a]]]]
Granted(book, role, accounts, expires_at, now) ==
    LET new == accounts \ Assigned(book, role, accounts) IN
    [entries     |-> [r \in Roles |-> [a \in Accounts |->
                        IF r = role /\ a \in accounts THEN expires_at ELSE book.entries[r][a]]],
     admin_count |-> IF role = "Admin" THEN book.admin_count + Cardinality(new)
                     ELSE book.admin_count,
     listed      |-> [r \in Roles |-> [a \in Accounts |->
                        IF r = role /\ a \in new THEN book.listed[r][a] + 1
                        ELSE book.listed[r][a]]]]

(***************************************************************************)
(* LastAdmin: revoking one Admin after the other never leaves the count    *)
(* below one.  An Admin's assignment that expired does not ask.            *)
(***************************************************************************)
MayRevoke_OneAtATime(book, role, accounts, now) ==  \* mutant: a batch is checked once, before it
    role = "Admin" /\ (\E a \in accounts : has_role(book, role, a, now)) =>
        book.admin_count > 1
MayRevoke(book, role, accounts, now) ==
    LET active == {a \in accounts : has_role(book, role, a, now)} IN
    role = "Admin" /\ active # {} => book.admin_count > Cardinality(active)

(* revoke_with_event for each account; an account without an assignment is passed over *)
Revoked(book, role, accounts) ==
    LET gone == Assigned(book, role, accounts)
        left == book.admin_count - Cardinality(gone) IN
    [entries     |-> [r \in Roles |-> [a \in Accounts |->
                        IF r = role /\ a \in gone THEN Absent ELSE book.entries[r][a]]],
     admin_count |-> IF role # "Admin" THEN book.admin_count ELSE IF left < 0 THEN 0 ELSE left,
     listed      |-> [r \in Roles |-> [a \in Accounts |->
                        IF r = role /\ a \in gone THEN 0 ELSE book.listed[r][a]]]]
=============================================================================
