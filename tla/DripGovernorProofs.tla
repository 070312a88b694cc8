------------------------- MODULE DripGovernorProofs -------------------------
(***************************************************************************)
(* Proofs about the governor: its role book is exact, it always has an     *)
(* Admin, and its parameters stay consistent, for any set of accounts and  *)
(* any values of the inputs.                                               *)
(***************************************************************************)
EXTENDS DripGovernor, FoldLemmas, FiniteSetTheorems, TLAPS

-----------------------------------------------------------------------------
(* Role books *)

Exact(b) ==
    /\ b.admin_count = Cardinality(Assigned(b, "Admin", Accounts))
    /\ \A r \in Roles, a \in Accounts :
          b.listed[r][a] = IF b.entries[r][a] = Absent THEN 0 ELSE 1

(* The guard of the last Admin counts assignments, so it needs those of Admins not to expire *)
Permanent(b) == \A a \in Accounts : b.entries["Admin"][a] \in {Absent, Never}

BookOK(b) == b \in RoleBook /\ Exact(b) /\ Permanent(b)

Admins(b) == Assigned(b, "Admin", Accounts)

LEMMA AdminsFinite == ASSUME NEW b PROVE Admins(b) \in SUBSET Accounts /\ IsFiniteSet(Admins(b))
<1>1. Admins(b) \subseteq Accounts
  BY DEF Admins, Assigned
<1>. QED
  BY <1>1, FS_Subset, AccountsAssumption

LEMMA GrantedEntries ==
    ASSUME NEW b, b \in RoleBook, NEW role \in Roles, NEW S \in SUBSET Accounts,
           NEW e \in Assignment, NEW t
    PROVE  \A r \in Roles, a \in Accounts :
              Granted(b, role, S, e, t).entries[r][a] =
                IF r = role /\ a \in S THEN e ELSE b.entries[r][a]
BY DEF Granted, RoleBook

LEMMA GrantedListed ==
    ASSUME NEW b, b \in RoleBook, NEW role \in Roles, NEW S \in SUBSET Accounts,
           NEW e \in Assignment, NEW t
    PROVE  \A r \in Roles, a \in Accounts :
              Granted(b, role, S, e, t).listed[r][a] =
                IF r = role /\ a \in S /\ b.entries[r][a] = Absent THEN b.listed[r][a] + 1
                ELSE b.listed[r][a]
BY DEF Granted, RoleBook, Assigned

LEMMA GrantedAdmins ==
    ASSUME NEW b, BookOK(b), NEW role \in Roles, NEW S \in SUBSET Accounts,
           NEW e \in Assignment \ {Absent}, NEW t
    PROVE  Admins(Granted(b, role, S, e, t)) =
              IF role = "Admin" THEN Admins(b) \cup S ELSE Admins(b)
<1>1. \A a \in Accounts : Granted(b, role, S, e, t).entries["Admin"][a] =
          IF "Admin" = role /\ a \in S THEN e ELSE b.entries["Admin"][a]
  BY GrantedEntries, RolesAssumption DEF BookOK
<1>. QED
  BY <1>1 DEF Admins, Assigned

LEMMA GrantedCount ==
    ASSUME NEW b, BookOK(b), NEW role \in Roles, NEW S \in SUBSET Accounts,
           NEW e \in Assignment \ {Absent}, NEW t
    PROVE  Granted(b, role, S, e, t).admin_count = Cardinality(Admins(Granted(b, role, S, e, t)))
<1>0. b.admin_count = Cardinality(Admins(b)) /\ Cardinality(Admins(b)) \in Nat
  BY AdminsFinite, FS_CardinalityType DEF BookOK, Exact, Admins
<1>1. CASE role # "Admin"
  <2>1. Granted(b, role, S, e, t).admin_count = b.admin_count
    BY <1>1 DEF Granted
  <2>. QED
    BY <1>0, <1>1, <2>1, GrantedAdmins
<1>2. CASE role = "Admin"
  <2> DEFINE new == S \ Assigned(b, role, S)
  <2>1. Granted(b, role, S, e, t).admin_count = b.admin_count + Cardinality(new)
    BY <1>2 DEF Granted
  <2>2. IsFiniteSet(new) /\ IsFiniteSet(Admins(b))
    BY AdminsFinite, FS_Subset, AccountsAssumption
  <2>3. Admins(b) \cap new = {} /\ Admins(b) \cup new = Admins(b) \cup S
    BY <1>2 DEF Admins, Assigned
  <2>4. Cardinality(Admins(b) \cup new) =
          Cardinality(Admins(b)) + Cardinality(new) - Cardinality(Admins(b) \cap new)
    BY <2>2, FS_Union
  <2>5. Cardinality(Admins(b) \cap new) = 0
    BY <2>3, FS_EmptySet
  <2>6. Cardinality(new) \in Nat
    BY <2>2, FS_CardinalityType
  <2>. HIDE DEF new
  <2>7. Cardinality(Admins(b) \cup S) = Cardinality(Admins(b)) + Cardinality(new)
    <3>1. Cardinality(Admins(b) \cup S) = Cardinality(Admins(b) \cup new)
      BY <2>3
    <3>. QED
      BY <3>1, <2>4, <2>5, <2>6, <1>0
  <2>8. Admins(Granted(b, role, S, e, t)) = Admins(b) \cup S
    BY <1>2, GrantedAdmins
  <2>. QED
    BY <1>0, <2>1, <2>7, <2>8
<1>. QED
  BY <1>1, <1>2

(* A grant keeps a book in order, as long as no Admin is given an expiry *)
LEMMA GrantKeepsBook ==
    ASSUME NEW b, BookOK(b), NEW role \in Roles, NEW S \in SUBSET Accounts,
           NEW e \in Assignment \ {Absent}, NEW t, role = "Admin" => e = Never
    PROVE  BookOK(Granted(b, role, S, e, t))
<1> DEFINE g == Granted(b, role, S, e, t)
<1>0. b \in RoleBook
  BY DEF BookOK
<1>1. g.admin_count = Cardinality(Admins(g))
  BY GrantedCount
<1>2. Cardinality(Admins(g)) \in Nat
  BY AdminsFinite, FS_CardinalityType
<1>3. g.entries \in [Roles -> [Accounts -> Assignment]]
  BY <1>0 DEF Granted, RoleBook
<1>4. g.listed \in [Roles -> [Accounts -> Nat]]
  BY <1>0 DEF Granted, RoleBook
<1>5. g \in RoleBook
  <2>1. g = [entries |-> g.entries, admin_count |-> g.admin_count, listed |-> g.listed]
    BY DEF Granted
  <2>2. g.admin_count \in Int
    BY <1>1, <1>2
  <2>. QED
    BY <2>1, <2>2, <1>3, <1>4 DEF RoleBook
<1>6. Permanent(g)
  <2>1. \A a \in Accounts : g.entries["Admin"][a] =
            IF "Admin" = role /\ a \in S THEN e ELSE b.entries["Admin"][a]
    BY <1>0, GrantedEntries, RolesAssumption
  <2>. QED
    BY <2>1 DEF Permanent, BookOK
<1>7. \A r \in Roles, a \in Accounts :
          g.listed[r][a] = IF g.entries[r][a] = Absent THEN 0 ELSE 1
  <2> SUFFICES ASSUME NEW r \in Roles, NEW a \in Accounts
      PROVE g.listed[r][a] = IF g.entries[r][a] = Absent THEN 0 ELSE 1
    OBVIOUS
  <2>1. b.listed[r][a] = IF b.entries[r][a] = Absent THEN 0 ELSE 1
    BY DEF BookOK, Exact
  <2>2. g.entries[r][a] = IF r = role /\ a \in S THEN e ELSE b.entries[r][a]
    BY <1>0, GrantedEntries
  <2>3. g.listed[r][a] = IF r = role /\ a \in S /\ b.entries[r][a] = Absent
                         THEN b.listed[r][a] + 1 ELSE b.listed[r][a]
    BY <1>0, GrantedListed
  <2>. QED
    BY <2>1, <2>2, <2>3
<1>. QED
  BY <1>1, <1>5, <1>6, <1>7 DEF BookOK, Exact, Admins

-----------------------------------------------------------------------------

LEMMA RevokedEntries ==
    ASSUME NEW b, b \in RoleBook, NEW role \in Roles, NEW S \in SUBSET Accounts
    PROVE  \A r \in Roles, a \in Accounts :
              /\ Revoked(b, role, S).entries[r][a] =
                    IF r = role /\ a \in S THEN Absent ELSE b.entries[r][a]
              /\ Revoked(b, role, S).listed[r][a] =
                    IF r = role /\ a \in S /\ b.entries[r][a] # Absent THEN 0 ELSE b.listed[r][a]
BY DEF Revoked, RoleBook, Assigned

LEMMA RevokedAdmins ==
    ASSUME NEW b, BookOK(b), NEW role \in Roles, NEW S \in SUBSET Accounts
    PROVE  Admins(Revoked(b, role, S)) = IF role = "Admin" THEN Admins(b) \ S ELSE Admins(b)
<1>1. \A a \in Accounts : Revoked(b, role, S).entries["Admin"][a] =
          IF "Admin" = role /\ a \in S THEN Absent ELSE b.entries["Admin"][a]
  BY RevokedEntries, RolesAssumption DEF BookOK
<1>. QED
  BY <1>1 DEF Admins, Assigned

(* What is left of the Admins is what was there less what is revoked *)
LEMMA AdminsLeft ==
    ASSUME NEW b, BookOK(b), NEW S \in SUBSET Accounts
    PROVE  /\ Cardinality(Assigned(b, "Admin", S)) \in Nat
           /\ Cardinality(Admins(b) \ S) \in Nat
           /\ Cardinality(Admins(b) \ S) = b.admin_count - Cardinality(Assigned(b, "Admin", S))
<1> DEFINE gone == Assigned(b, "Admin", S)
<1>1. gone = Admins(b) \cap S
  BY DEF Admins, Assigned
<1>2. IsFiniteSet(Admins(b)) /\ IsFiniteSet(gone) /\ IsFiniteSet(Admins(b) \ S)
  BY <1>1, AdminsFinite, FS_Subset
<1>3. Cardinality(Admins(b)) \in Nat /\ Cardinality(gone) \in Nat
      /\ Cardinality(Admins(b) \ S) \in Nat
  BY <1>2, FS_CardinalityType
<1>4. Cardinality(Admins(b) \ S) = Cardinality(Admins(b)) - Cardinality(Admins(b) \cap S)
  BY <1>2, FS_Difference
<1>5. b.admin_count = Cardinality(Admins(b))
  BY DEF BookOK, Exact, Admins
<1>. QED
  BY <1>1, <1>3, <1>4, <1>5

LEMMA RevokeKeepsBook ==
    ASSUME NEW b, BookOK(b), NEW role \in Roles, NEW S \in SUBSET Accounts
    PROVE  BookOK(Revoked(b, role, S))
<1> DEFINE g == Revoked(b, role, S)
<1>0. b \in RoleBook /\ b.admin_count = Cardinality(Admins(b))
  BY DEF BookOK, Exact, Admins
<1>1. g.admin_count = Cardinality(Admins(g))
  <2>1. CASE role # "Admin"
    <3>1. g.admin_count = b.admin_count
      BY <2>1 DEF Revoked
    <3>2. Admins(g) = Admins(b)
      BY <2>1, RevokedAdmins
    <3>. QED
      BY <1>0, <3>1, <3>2
  <2>2. CASE role = "Admin"
    <3>1. g.admin_count = IF b.admin_count - Cardinality(Assigned(b, "Admin", S)) < 0 THEN 0
                          ELSE b.admin_count - Cardinality(Assigned(b, "Admin", S))
      BY <2>2 DEF Revoked
    <3>2. Cardinality(Admins(b) \ S) \in Nat
          /\ Cardinality(Admins(b) \ S) = b.admin_count - Cardinality(Assigned(b, "Admin", S))
      BY AdminsLeft
    <3>3. Admins(g) = Admins(b) \ S
      BY <2>2, RevokedAdmins
    <3>. QED
      BY <3>1, <3>2, <3>3
  <2>. QED
    BY <2>1, <2>2
<1>2. Cardinality(Admins(g)) \in Nat
  BY AdminsFinite, FS_CardinalityType
<1>3. g.entries \in [Roles -> [Accounts -> Assignment]]
  BY <1>0 DEF Revoked, RoleBook, Assignment
<1>4. g.listed \in [Roles -> [Accounts -> Nat]]
  BY <1>0 DEF Revoked, RoleBook
<1>5. g \in RoleBook
  <2>1. g = [entries |-> g.entries, admin_count |-> g.admin_count, listed |-> g.listed]
    BY DEF Revoked
  <2>2. g.admin_count \in Int
    BY <1>1, <1>2
  <2>. QED
    BY <2>1, <2>2, <1>3, <1>4 DEF RoleBook
<1>6. Permanent(g)
  <2>1. \A a \in Accounts : g.entries["Admin"][a] =
            IF "Admin" = role /\ a \in S THEN Absent ELSE b.entries["Admin"][a]
    BY <1>0, RevokedEntries, RolesAssumption
  <2>. QED
    BY <2>1 DEF Permanent, BookOK
<1>7. \A r \in Roles, a \in Accounts :
          g.listed[r][a] = IF g.entries[r][a] = Absent THEN 0 ELSE 1
  <2> SUFFICES ASSUME NEW r \in Roles, NEW a \in Accounts
      PROVE g.listed[r][a] = IF g.entries[r][a] = Absent THEN 0 ELSE 1
    OBVIOUS
  <2>1. b.listed[r][a] = IF b.entries[r][a] = Absent THEN 0 ELSE 1
    BY DEF BookOK, Exact
  <2>2. g.entries[r][a] = IF r = role /\ a \in S THEN Absent ELSE b.entries[r][a]
    BY <1>0, RevokedEntries
  <2>3. g.listed[r][a] = IF r = role /\ a \in S /\ b.entries[r][a] # Absent
                         THEN 0 ELSE b.listed[r][a]
    BY <1>0, RevokedEntries
  <2>. QED
    BY <2>1, <2>2, <2>3
<1>. QED
  BY <1>1, <1>5, <1>6, <1>7 DEF BookOK, Exact, Admins

(***************************************************************************)
(* The guard of the last Admin: an Admin never expires, so the active ones *)
(* are all that are counted, and one is left                               *)
(***************************************************************************)
LEMMA GuardLeavesAdmin ==
    ASSUME NEW b, BookOK(b), NEW role \in Roles, NEW S \in SUBSET Accounts, NEW t,
           MayRevoke(b, role, S, t), Admins(b) # {}
    PROVE  Admins(Revoked(b, role, S)) # {}
<1>1. CASE role # "Admin"
  BY <1>1, RevokedAdmins
<1>2. CASE role = "Admin"
  <2> DEFINE active == {a \in S : has_role(b, role, a, t)}
  <2>1. active = Assigned(b, "Admin", S)
    BY <1>2, AssignmentAssumption DEF has_role, Assigned, BookOK, Permanent
  <2>2. Admins(Revoked(b, role, S)) = Admins(b) \ S
    BY <1>2, RevokedAdmins
  <2>3. CASE active = {}
    BY <2>1, <2>2, <2>3 DEF Admins, Assigned
  <2>4. CASE active # {}
    <3>1. b.admin_count > Cardinality(Assigned(b, "Admin", S))
      BY <1>2, <2>1, <2>4 DEF MayRevoke
    <3>2. Cardinality(Admins(b) \ S) = b.admin_count - Cardinality(Assigned(b, "Admin", S))
          /\ Cardinality(Assigned(b, "Admin", S)) \in Nat
      BY AdminsLeft
    <3>3. b.admin_count \in Int
      BY DEF BookOK, RoleBook
    <3>4. Cardinality(Admins(b) \ S) # 0
      BY <3>1, <3>2, <3>3
    <3>. QED
      BY <2>2, <3>4, FS_EmptySet
  <2>. QED
    BY <2>3, <2>4
<1>. QED
  BY <1>1, <1>2

-----------------------------------------------------------------------------
(* The governor's role book *)

RolesInv ==
    /\ BookOK(book)
    /\ Admins(book) # {}
    /\ pending # None => pending.to \in Accounts \cup {ZeroAddr} /\ pending.proposer \in Accounts

LEMMA HandOverKeeps ==
    ASSUME RolesInv, NEW from \in Accounts, NEW to \in Accounts, HandOver(from, to)
    PROVE  BookOK(book') /\ Admins(book') # {}
<1> DEFINE granted == Granted(book, "Admin", {to}, Never, now)
<1>0. Never \in Assignment \ {Absent} /\ {to} \in SUBSET Accounts /\ {from} \in SUBSET Accounts
  BY AssignmentAssumption DEF Assignment
<1>1. BookOK(granted)
  BY <1>0, GrantKeepsBook, RolesAssumption DEF RolesInv
<1>2. Admins(granted) # {}
  <2>1. Admins(granted) = Admins(book) \cup {to}
    BY <1>0, GrantedAdmins, RolesAssumption DEF RolesInv
  <2>. QED
    BY <2>1
<1>3. MayRevoke(granted, "Admin", {from}, now) /\ book' = Revoked(granted, "Admin", {from})
  BY DEF HandOver
<1>. HIDE DEF granted
<1>4. BookOK(book')
  BY <1>0, <1>1, <1>3, RevokeKeepsBook, RolesAssumption
<1>5. Admins(book') # {}
  BY <1>0, <1>1, <1>2, <1>3, GuardLeavesAdmin, RolesAssumption
<1>. QED
  BY <1>4, <1>5

LEMMA RolesInit == Init => RolesInv
<1> SUFFICES ASSUME Init PROVE RolesInv
  OBVIOUS
<1>1. PICK a \in Authorities :
        book = [entries     |-> [r \in Roles |-> [b \in Accounts |->
                                  IF b = a /\ r # "Executor" THEN Never ELSE Absent]],
                admin_count |-> 1,
                listed      |-> [r \in Roles |-> [b \in Accounts |->
                                  IF b = a /\ r # "Executor" THEN 1 ELSE 0]]]
  BY DEF Init
<1>2. a \in Accounts
  BY GovernorAddrAssumption
<1>3. Admins(book) = {a}
  BY <1>1, <1>2, RolesAssumption, AssignmentAssumption DEF Admins, Assigned
<1>4. Cardinality(Admins(book)) = 1
  BY <1>3, FS_Singleton
<1>5. book.entries \in [Roles -> [Accounts -> Assignment]]
      /\ book.listed \in [Roles -> [Accounts -> Nat]] /\ book.admin_count = 1
  BY <1>1 DEF Assignment
<1>6. book \in RoleBook
  BY <1>1, <1>5 DEF RoleBook
<1>7. Permanent(book)
  BY <1>1, RolesAssumption DEF Permanent
<1>8. \A r \in Roles, b \in Accounts :
          book.listed[r][b] = IF book.entries[r][b] = Absent THEN 0 ELSE 1
  BY <1>1, AssignmentAssumption
<1>9. pending = None
  BY DEF Init
<1>. QED
  BY <1>3, <1>4, <1>5, <1>6, <1>7, <1>8, <1>9 DEF RolesInv, BookOK, Exact, Admins

(* The calls that set a parameter leave the roles alone *)
LEMMA ConfigCallFrame == ASSUME NEW c, ConfigCall(c) PROVE UNCHANGED <<book, pending>>
<1>1. CASE \E n \in Fees : set_fee_bps(c, n)
  BY <1>1 DEF set_fee_bps, SetConfig
<1>2. CASE \E a \in Recipients \cup {ZeroAddr} : set_fee_recipient(c, a)
  BY <1>2 DEF set_fee_recipient, SetConfig
<1>3. CASE \E n \in Durations : set_min_duration(c, n)
  BY <1>3 DEF set_min_duration, SetConfig
<1>4. CASE \E n \in Durations : set_max_duration(c, n)
  BY <1>4 DEF set_max_duration, SetConfig
<1>5. CASE \E n \in Durations : set_force_cancel_pause_threshold(c, n)
  BY <1>5 DEF set_force_cancel_pause_threshold, SetConfig
<1>6. CASE \E n \in Rates : set_max_rate(c, n)
  BY <1>6 DEF set_max_rate, SetConfig
<1>7. CASE \E n \in Quorums : set_min_quorum_bps(c, n)
  BY <1>7 DEF set_min_quorum_bps, SetConfig
<1>8. CASE \E n \in Supplies : set_governance_supply(c, n)
  BY <1>8 DEF set_governance_supply
<1>9. CASE \E t \in StakeTokens \cup {ZeroAddr}, n \in Stakes : set_proposal_stake_config(c, t, n)
  BY <1>9 DEF set_proposal_stake_config, SetConfig
<1>. QED
  BY <1>1, <1>2, <1>3, <1>4, <1>5, <1>6, <1>7, <1>8, <1>9 DEF ConfigCall

LEMMA RolesStep == RolesInv /\ [Next]_vars => RolesInv'
<1> SUFFICES ASSUME RolesInv, [Next]_vars PROVE RolesInv'
  OBVIOUS
<1> USE DEF RolesInv
<1>0. Never \in Assignment \ {Absent} /\ \A n \in Nat : n \in Assignment \ {Absent}
  BY AssignmentAssumption DEF Assignment
<1>1. CASE \E c \in Accounts, r \in GrantRoles, a \in Accounts, t \in Expiries :
              grant_role_with_expiration(c, r, a, t)
  <2>1. PICK c \in Accounts, r \in GrantRoles, a \in Accounts, t \in Expiries :
              grant_role_with_expiration(c, r, a, t)
    BY <1>1
  <2>2. book' = Granted(book, r, {a}, t, now) /\ r # "Admin" /\ pending' = pending
    BY <2>1 DEF grant_role_with_expiration
  <2>3. r \in Roles /\ {a} \in SUBSET Accounts /\ t \in Assignment \ {Absent}
    BY <1>0, GovernorRoleAssumption, GovernorInputAssumption
  <2>4. BookOK(book')
    BY <2>2, <2>3, GrantKeepsBook
  <2>5. Admins(book') = Admins(book)
    BY <2>2, <2>3, GrantedAdmins
  <2>. QED
    BY <2>2, <2>4, <2>5
<1>2. CASE \E c \in Accounts, r \in GrantRoles, s \in Batches : grant_role_batch(c, r, s)
  <2>1. PICK c \in Accounts, r \in GrantRoles, s \in Batches : grant_role_batch(c, r, s)
    BY <1>2
  <2>2. book' = Granted(book, r, s, Never, now) /\ pending' = pending
    BY <2>1 DEF grant_role_batch
  <2>3. r \in Roles /\ s \in SUBSET Accounts
    BY GovernorRoleAssumption DEF Batches
  <2>4. BookOK(book')
    BY <1>0, <2>2, <2>3, GrantKeepsBook
  <2>5. Admins(book') = IF r = "Admin" THEN Admins(book) \cup s ELSE Admins(book)
    BY <1>0, <2>2, <2>3, GrantedAdmins
  <2>6. Admins(book') # {}
    BY <2>5
  <2>. QED
    BY <2>2, <2>4, <2>6
<1>3. CASE \E c \in Accounts, r \in GrantRoles, s \in Batches : revoke_role_batch(c, r, s)
  <2>1. PICK c \in Accounts, r \in GrantRoles, s \in Batches : revoke_role_batch(c, r, s)
    BY <1>3
  <2>2. MayRevoke(book, r, s, now) /\ book' = Revoked(book, r, s) /\ pending' = pending
    BY <2>1 DEF revoke_role_batch
  <2>3. r \in Roles /\ s \in SUBSET Accounts
    BY GovernorRoleAssumption DEF Batches
  <2>4. BookOK(book')
    BY <2>2, <2>3, RevokeKeepsBook
  <2>5. Admins(book') # {}
    BY <2>2, <2>3, GuardLeavesAdmin
  <2>. QED
    BY <2>2, <2>4, <2>5
<1>4. CASE \E c \in Accounts, a \in Candidates : transfer_authority(c, a)
  <2>1. PICK c \in Accounts, a \in Candidates : transfer_authority(c, a)
    BY <1>4
  <2>2. HandOver(c, a) /\ a \in Accounts /\ pending' = pending
    BY <2>1, GovernorAddrAssumption DEF transfer_authority
  <2>. QED
    BY <2>2, HandOverKeeps
<1>5. CASE \E c \in Accounts : accept_authority(c)
  <2>1. PICK c \in Accounts : accept_authority(c)
    BY <1>5
  <2>2. HandOver(pending.proposer, c) /\ pending # None /\ pending' = None
    BY <2>1 DEF accept_authority
  <2>. QED
    BY <2>2, HandOverKeeps
<1>6. CASE \E c \in Accounts, a \in Candidates : propose_admin(c, a)
  <2>1. PICK c \in Accounts, a \in Candidates : propose_admin(c, a)
    BY <1>6
  <2>2. book' = book /\ pending' = [to |-> a, proposer |-> c]
    BY <2>1 DEF propose_admin
  <2>. QED
    BY <2>2, GovernorAddrAssumption
<1>7. CASE \E c \in Accounts : revoke_propose_authority(c)
  BY <1>7 DEF revoke_propose_authority
<1>8. CASE UNCHANGED <<book, pending>>
  BY <1>8
<1>9. \/ \E c \in Accounts, r \in GrantRoles, a \in Accounts, t \in Expiries :
              grant_role_with_expiration(c, r, a, t)
      \/ \E c \in Accounts, r \in GrantRoles, s \in Batches : grant_role_batch(c, r, s)
      \/ \E c \in Accounts, r \in GrantRoles, s \in Batches : revoke_role_batch(c, r, s)
      \/ \E c \in Accounts, a \in Candidates : transfer_authority(c, a)
      \/ \E c \in Accounts : accept_authority(c)
      \/ \E c \in Accounts, a \in Candidates : propose_admin(c, a)
      \/ \E c \in Accounts : revoke_propose_authority(c)
      \/ UNCHANGED <<book, pending>>
  <2>1. CASE \E c \in Accounts : RoleCall(c)
    BY <2>1 DEF RoleCall, propose_authority, governor_pause, governor_unpause
  <2>2. CASE \E c \in Accounts : ConfigCall(c)
    <3>1. PICK c \in Accounts : ConfigCall(c)
      BY <2>2
    <3>2. UNCHANGED <<book, pending>>
      BY <3>1, ConfigCallFrame
    <3>. QED
      BY <3>2
  <2>3. CASE \E c \in Accounts : ProposalCall(c)
    BY <2>3 DEF ProposalCall, propose, execute_proposal, cancel_proposal_by_admin, Cancel
  <2>4. CASE \E id \in DOMAIN proposals : cancel_proposal(id)
    BY <2>4 DEF cancel_proposal, Cancel
  <2>5. CASE \E id \in DOMAIN proposals, w \in Weights : cast_ballot(id, w)
    BY <2>5 DEF cast_ballot
  <2>6. CASE Tick \/ UNCHANGED vars
    BY <2>6 DEF Tick, vars
  <2>. QED
    BY <2>1, <2>2, <2>3, <2>4, <2>5, <2>6 DEF Next
<1>. QED
  BY <1>1, <1>2, <1>3, <1>4, <1>5, <1>6, <1>7, <1>8, <1>9

(* The role book is in order in every reachable state, with an Admin that  *)
(* never expires: the invariant the two theorems below rest on.            *)
THEOREM RolesInvariance == Spec => []RolesInv
BY RolesInit, RolesStep, PTL DEF Spec

(***************************************************************************)
(* The governor's count of Admins and its index of members agree with the  *)
(* assignments, for any set of accounts and any batches (grant_role,       *)
(* revoke_role, their batches and the transfers of the Admin role)         *)
(***************************************************************************)
THEOREM RoleBookHolds == Spec => []RoleBookExact
<1>1. RolesInv => RoleBookExact
  BY DEF RolesInv, BookOK, Exact, RoleBookExact
<1>. QED
  BY <1>1, RolesInvariance, PTL

(***************************************************************************)
(* The governor never loses its last Admin, through any revocation, batch  *)
(* or transfer (the LastAdmin guard of rbac.rs)                            *)
(***************************************************************************)
THEOREM AdminHolds == Spec => []AlwaysAnAdmin
<1>1. RolesInv => AlwaysAnAdmin
  BY DEF RolesInv, BookOK, Permanent, Admins, Assigned, AlwaysAnAdmin
<1>. QED
  BY <1>1, RolesInvariance, PTL

-----------------------------------------------------------------------------
(* The parameters *)

ConfigInv == config \in ConfigType /\ ConfigConsistent

LEMMA ConfigStep == ConfigInv /\ [Next]_vars => ConfigInv'
<1> SUFFICES ASSUME ConfigInv, [Next]_vars PROVE ConfigInv'
  OBVIOUS
<1>1. CASE \E c \in Accounts : ConfigCall(c)
  <2>0. PICK c \in Accounts : ConfigCall(c)
    BY <1>1
  <2> USE DEF ConfigInv, ConfigType, ConfigConsistent, SetConfig
  <2>1. CASE \E n \in Fees : set_fee_bps(c, n)
    BY <2>1, GovernorInputAssumption DEF set_fee_bps
  <2>2. CASE \E a \in Recipients \cup {ZeroAddr} : set_fee_recipient(c, a)
    BY <2>2 DEF set_fee_recipient
  <2>3. CASE \E n \in Durations : set_min_duration(c, n)
    BY <2>3, GovernorInputAssumption DEF set_min_duration
  <2>4. CASE \E n \in Durations : set_max_duration(c, n)
    BY <2>4, GovernorInputAssumption DEF set_max_duration
  <2>5. CASE \E n \in Durations : set_force_cancel_pause_threshold(c, n)
    BY <2>5, GovernorInputAssumption DEF set_force_cancel_pause_threshold
  <2>6. CASE \E n \in Rates : set_max_rate(c, n)
    BY <2>6, GovernorInputAssumption DEF set_max_rate
  <2>7. CASE \E n \in Quorums : set_min_quorum_bps(c, n)
    BY <2>7, GovernorInputAssumption DEF set_min_quorum_bps
  <2>8. CASE \E n \in Supplies : set_governance_supply(c, n)
    BY <2>8 DEF set_governance_supply
  <2>9. CASE \E t \in StakeTokens \cup {ZeroAddr}, n \in Stakes : set_proposal_stake_config(c, t, n)
    <3>1. PICK t \in StakeTokens \cup {ZeroAddr}, n \in Stakes :
              set_proposal_stake_config(c, t, n)
      BY <2>9
    <3>2. t \in StakeTokens \cup {None} /\ n \in Nat
      BY <3>1, GovernorInputAssumption DEF set_proposal_stake_config
    <3>3. config' = [config EXCEPT !.proposal_stake_token = t, !.min_proposal_stake = n]
      BY <3>1 DEF set_proposal_stake_config
    <3>4. config' \in ConfigType
      BY <3>2, <3>3
    <3>5. /\ config'.min_duration_seconds = config.min_duration_seconds
          /\ config'.max_duration_seconds = config.max_duration_seconds
          /\ config'.max_rate_per_second = config.max_rate_per_second
      BY <3>3
    <3>. QED
      BY <3>4, <3>5
  <2>. HIDE DEF ConfigInv, ConfigType, ConfigConsistent, SetConfig
  <2>. QED
    BY <2>0, <2>1, <2>2, <2>3, <2>4, <2>5, <2>6, <2>7, <2>8, <2>9 DEF ConfigCall
<1>2. CASE config' = config
  BY <1>2 DEF ConfigInv, ConfigConsistent
<1>3. (\E c \in Accounts : ConfigCall(c)) \/ config' = config
  <2>1. CASE \E c \in Accounts : RoleCall(c)
    BY <2>1 DEF RoleCall, grant_role_with_expiration, grant_role_batch, revoke_role_batch,
        transfer_authority, propose_authority, propose_admin, revoke_propose_authority,
        accept_authority, governor_pause, governor_unpause
  <2>2. CASE \E c \in Accounts : ProposalCall(c)
    BY <2>2 DEF ProposalCall, propose, execute_proposal, cancel_proposal_by_admin, Cancel
  <2>3. CASE \E id \in DOMAIN proposals : cancel_proposal(id)
    BY <2>3 DEF cancel_proposal, Cancel
  <2>4. CASE \E id \in DOMAIN proposals, w \in Weights : cast_ballot(id, w)
    BY <2>4 DEF cast_ballot
  <2>5. CASE Tick \/ UNCHANGED vars
    BY <2>5 DEF Tick, vars
  <2>. QED
    BY <2>1, <2>2, <2>3, <2>4, <2>5 DEF Next
<1>. QED
  BY <1>1, <1>2, <1>3

(***************************************************************************)
(* The parameters the factory reads stay consistent with each other,       *)
(* whichever setter ran last and whatever values it was given              *)
(***************************************************************************)
THEOREM ConfigHolds == Spec => []ConfigConsistent
<1>1. Init => ConfigInv
  BY InitialConfigAssumption DEF Init, ConfigInv, ConfigConsistent
<1>2. ConfigInv => ConfigConsistent
  BY DEF ConfigInv
<1>. QED
  BY <1>1, <1>2, ConfigStep, PTL DEF Spec

-----------------------------------------------------------------------------
(***************************************************************************)
(* The index of proposals by status                                        *)
(***************************************************************************)

(* A list holds each member of S once. *)
ListedOnce(ids, S) == ids \in Seq(Nat) /\ IsInjective(ids) /\ ToSet(ids) = S

LEMMA AppendListed ==
    ASSUME NEW ids, NEW S, ListedOnce(ids, S), NEW id \in Nat, id \notin S
    PROVE  ListedOnce(Append(ids, id), S \cup {id})
<1> DEFINE n == Len(ids)
           new == Append(ids, id)
<1>1. ids \in Seq(Nat) /\ n \in Nat /\ DOMAIN ids = 1 .. n
  BY DEF ListedOnce
<1>2. /\ new \in Seq(Nat) /\ DOMAIN new = 1 .. (n + 1)
      /\ \A i \in 1 .. n : new[i] = ids[i]
      /\ new[n + 1] = id
  BY <1>1
<1> HIDE DEF n, new
<1>3. \A i, j \in 1 .. n : ids[i] = ids[j] => i = j
  BY <1>1 DEF ListedOnce, IsInjective
<1>4. S = {ids[i] : i \in 1 .. n}
  BY <1>1 DEF ListedOnce, ToSet
<1>5. \A i \in 1 .. n : ids[i] # id
  BY <1>4
<1>6. IsInjective(new)
  BY <1>1, <1>2, <1>3, <1>5 DEF IsInjective
<1>7. ToSet(new) = S \cup {id}
  BY <1>1, <1>2, <1>4 DEF ToSet
<1> QED
  BY <1>2, <1>6, <1>7 DEF ListedOnce, new

LEMMA AddListed ==
    ASSUME NEW ids, NEW S, ListedOnce(ids, S), NEW id \in Nat
    PROVE  ListedOnce(add_proposal_to_status_index(ids, id), S \cup {id})
<1>1. S = {ids[i] : i \in DOMAIN ids}
  BY DEF ListedOnce, ToSet
<1>2. CASE \E i \in DOMAIN ids : ids[i] = id
  <2>1. S \cup {id} = S
    BY <1>1, <1>2
  <2> QED
    BY <1>2, <2>1 DEF add_proposal_to_status_index
<1>3. CASE ~\E i \in DOMAIN ids : ids[i] = id
  <2>1. id \notin S
    BY <1>1, <1>3
  <2> QED
    BY <1>3, <2>1, AppendListed DEF add_proposal_to_status_index
<1> QED
  BY <1>2, <1>3

(* u[k] holds the first k ids of a list but id. *)
UpdateChain(ids, id, n, u) ==
    /\ u = [k \in 0 .. n |-> u[k]] /\ u[0] = <<>>
    /\ \A k \in 1 .. n : u[k] = IF ids[k] # id THEN Append(u[k - 1], ids[k]) ELSE u[k - 1]

LEMMA UpdateChainExists ==
    ASSUME NEW ids, NEW id, NEW n \in Nat
    PROVE  \E u : UpdateChain(ids, id, n, u)
<1> DEFINE A == {k \in Nat : \E u : UpdateChain(ids, id, k, u)}
<1>1. 0 \in A
  <2>1. UpdateChain(ids, id, 0, [k \in 0 .. 0 |-> <<>>])
    BY DEF UpdateChain
  <2> QED
    BY <2>1
<1>2. ASSUME NEW k \in 0 .. (n - 1), k \in A
      PROVE  k + 1 \in A
  <2>1. PICK u : UpdateChain(ids, id, k, u)
    BY <1>2
  <2> DEFINE last == IF ids[k + 1] # id THEN Append(u[k], ids[k + 1]) ELSE u[k]
             v == [j \in 0 .. (k + 1) |-> IF j <= k THEN u[j] ELSE last]
  <2> HIDE DEF last
  <2>2. ASSUME NEW j \in 1 .. (k + 1)
        PROVE  v[j] = IF ids[j] # id THEN Append(v[j - 1], ids[j]) ELSE v[j - 1]
    <3>1. CASE j <= k
      <4>1. j \in 1 .. k /\ v[j] = u[j] /\ v[j - 1] = u[j - 1]
        BY <3>1
      <4> QED
        BY <2>1, <4>1 DEF UpdateChain
    <3>2. CASE j = k + 1
      <4>1. v[j] = last /\ v[j - 1] = u[k]
        BY <3>2
      <4> QED
        BY <3>2, <4>1 DEF last
    <3> QED
      BY <3>1, <3>2
  <2>3. v = [j \in 0 .. (k + 1) |-> v[j]] /\ v[0] = <<>>
    BY <2>1 DEF UpdateChain
  <2>4. k + 1 \in Nat
    OBVIOUS
  <2> HIDE DEF v
  <2>5. UpdateChain(ids, id, k + 1, v)
    BY <2>2, <2>3 DEF UpdateChain
  <2> QED
    BY <2>4, <2>5
<1> HIDE DEF A
<1>3. 0 .. n \subseteq A
  BY <1>1, <1>2, RangeInduction
<1> QED
  BY <1>3 DEF A

LEMMA RemovedChain ==
    ASSUME NEW ids, NEW id, Len(ids) \in Nat
    PROVE  \E u : /\ UpdateChain(ids, id, Len(ids), u)
                  /\ remove_proposal_from_status_index(ids, id) = u[Len(ids)]
<1> DEFINE n == Len(ids)
           Body(u) == [i \in 0 .. n |->
                         IF i = 0 THEN <<>>
                         ELSE IF ids[i] # id THEN Append(u[i - 1], ids[i])
                         ELSE u[i - 1]]
           updated == CHOOSE u : u = Body(u)
<1>1. remove_proposal_from_status_index(ids, id) = updated[n]
  BY DEF remove_proposal_from_status_index
<1>2. PICK u : UpdateChain(ids, id, n, u)
  BY UpdateChainExists
<1>3. u = Body(u)
  <2>1. \A k \in 0 .. n : u[k] = IF k = 0 THEN <<>>
                                 ELSE IF ids[k] # id THEN Append(u[k - 1], ids[k])
                                 ELSE u[k - 1]
    <3>1. n \in Nat
      OBVIOUS
    <3> HIDE DEF n
    <3>2. ASSUME NEW k \in 0 .. n, k # 0
          PROVE  u[k] = IF ids[k] # id THEN Append(u[k - 1], ids[k]) ELSE u[k - 1]
      <4>1. k \in 1 .. n
        BY <3>1, <3>2
      <4> QED
        BY <1>2, <4>1 DEF UpdateChain
    <3>3. u[0] = <<>>
      BY <1>2 DEF UpdateChain
    <3> QED
      BY <3>2, <3>3
  <2>2. u = [k \in 0 .. n |-> u[k]]
    BY <1>2 DEF UpdateChain
  <2> QED
    BY <2>1, <2>2
<1>4. updated = Body(updated)
  <2> HIDE DEF Body
  <2> QED
    BY <1>3, Zenon
<1>5. UpdateChain(ids, id, n, updated)
  <2> HIDE DEF updated
  <2>1. n \in Nat
    OBVIOUS
  <2> HIDE DEF n
  <2>2. updated = [k \in 0 .. n |-> updated[k]] /\ updated[0] = <<>>
    <3>1. 0 \in 0 .. n
      BY <2>1
    <3> QED
      BY <1>4, <3>1
  <2>3. ASSUME NEW k \in 1 .. n
        PROVE  updated[k] = IF ids[k] # id THEN Append(updated[k - 1], ids[k]) ELSE updated[k - 1]
    <3>1. k \in 0 .. n /\ k # 0
      BY <2>1
    <3> QED
      BY <1>4, <3>1
  <2> QED
    BY <2>2, <2>3 DEF UpdateChain
<1> HIDE DEF updated
<1> QED
  BY <1>1, <1>5

LEMMA RemoveListed ==
    ASSUME NEW ids, NEW S, ListedOnce(ids, S), NEW id
    PROVE  ListedOnce(remove_proposal_from_status_index(ids, id), S \ {id})
<1> DEFINE n == Len(ids)
<1>1. ids \in Seq(Nat) /\ n \in Nat /\ DOMAIN ids = 1 .. n
  BY DEF ListedOnce
<1>2. PICK u : /\ UpdateChain(ids, id, n, u)
               /\ remove_proposal_from_status_index(ids, id) = u[n]
  BY <1>1, RemovedChain
<1>3. \A i \in 1 .. n : ids[i] \in Nat
  BY <1>1
<1> HIDE DEF n
<1>4. \A i, j \in 1 .. n : ids[i] = ids[j] => i = j
  BY <1>1 DEF ListedOnce, IsInjective
<1>5. S = {ids[i] : i \in 1 .. n}
  BY <1>1 DEF ListedOnce, ToSet
<1> DEFINE Kept(k) == {ids[i] : i \in 1 .. k} \ {id}
           A == {k \in Nat : ListedOnce(u[k], Kept(k))}
<1>6. 0 \in A
  <2>1. u[0] = <<>> /\ Kept(0) = {}
    BY <1>2 DEF UpdateChain
  <2>2. ListedOnce(<<>>, {})
    BY DEF ListedOnce, IsInjective, ToSet
  <2> QED
    BY <2>1, <2>2
<1>7. ASSUME NEW k \in 0 .. (n - 1), k \in A
      PROVE  k + 1 \in A
  <2> DEFINE j == k + 1
  <2>1. j \in 1 .. n /\ j - 1 = k /\ j \in Nat /\ j \notin 1 .. k /\ 1 .. j = 1 .. k \cup {j}
        /\ 1 .. k \subseteq 1 .. n
    <3>1. k \in Nat /\ n \in Nat /\ k + 1 <= n
      BY <1>1
    <3>2. j \in 1 .. n /\ j - 1 = k /\ j \in Nat /\ j \notin 1 .. k /\ 1 .. k \subseteq 1 .. n
      BY <3>1
    <3>3. \A i : i \in 1 .. j <=> i \in 1 .. k \/ i = j
      BY <3>1
    <3> QED
      BY <3>2, <3>3
  <2>2. ListedOnce(u[k], Kept(k))
    BY <1>7
  <2> HIDE DEF j
  <2>3. u[j] = IF ids[j] # id THEN Append(u[k], ids[j]) ELSE u[k]
    BY <1>2, <2>1 DEF UpdateChain
  <2>4. \A i \in 1 .. k : ids[i] # ids[j]
    BY <1>4, <2>1
  <2>5. ListedOnce(u[j], Kept(j))
    <3>1. CASE ids[j] # id
      <4>1. ids[j] \notin Kept(k) /\ Kept(j) = Kept(k) \cup {ids[j]}
        BY <2>1, <2>4, <3>1
      <4>2. ids[j] \in Nat
        BY <1>3, <2>1
      <4> HIDE DEF Kept
      <4> QED
        BY <2>2, <2>3, <3>1, <4>1, <4>2, AppendListed
    <3>2. CASE ids[j] = id
      <4>1. Kept(j) = Kept(k)
        BY <2>1, <3>2
      <4> HIDE DEF Kept
      <4> QED
        BY <2>2, <2>3, <3>2, <4>1
    <3> QED
      BY <3>1, <3>2
  <2> QED
    BY <2>1, <2>5 DEF j
<1>8. Kept(n) = S \ {id}
  BY <1>5
<1> HIDE DEF A, Kept
<1>9. 0 .. n \subseteq A
  BY <1>1, <1>6, <1>7, RangeInduction
<1>10. n \in A
  BY <1>1, <1>9
<1> QED
  BY <1>2, <1>8, <1>10 DEF A

-----------------------------------------------------------------------------
(***************************************************************************)
(* The stakes                                                              *)
(***************************************************************************)

StakeOf(p, t) == IF p.stake_token = t THEN p.stake ELSE 0

LEMMA StakesOfList ==
    ASSUME NEW list \in Seq(ProposalType), NEW t
    PROVE  /\ Staked(list, t) = SumOf(StakeIn(list, t), DOMAIN list)
           /\ IsFiniteSet(DOMAIN list) /\ Len(list) \in Nat /\ DOMAIN list = 1 .. Len(list)
           /\ \A id \in DOMAIN list : /\ list[id] \in ProposalType
                                      /\ StakeIn(list, t)[id] = StakeOf(list[id], t)
                                      /\ StakeOf(list[id], t) \in Nat
<1>1. Len(list) \in Nat /\ DOMAIN list = 1 .. Len(list)
  OBVIOUS
<1>2. IsFiniteSet(DOMAIN list)
  BY <1>1, FS_Interval
<1>3. Staked(list, t) = SumOf(StakeIn(list, t), DOMAIN list)
  BY DEF Staked, SumOf
<1>4. ASSUME NEW id \in DOMAIN list
      PROVE  /\ list[id] \in ProposalType
             /\ StakeIn(list, t)[id] = StakeOf(list[id], t)
             /\ StakeOf(list[id], t) \in Nat
  <2>1. list[id] \in ProposalType
    BY <1>1
  <2>2. list[id].stake \in Nat
    BY <2>1 DEF ProposalType
  <2> QED
    BY <2>1, <2>2 DEF StakeIn, StakeOf
<1> QED
  BY <1>1, <1>2, <1>3, <1>4

(* Writing a proposal changes the stakes recorded in a token by what it changes itself. *)
LEMMA StakedWrite ==
    ASSUME NEW list \in Seq(ProposalType), NEW id \in DOMAIN list, NEW p \in ProposalType, NEW t
    PROVE  /\ Staked(list, t) \in Int
           /\ Staked([list EXCEPT ![id] = p], t) =
                Staked(list, t) + (StakeOf(p, t) - StakeOf(list[id], t))
<1> DEFINE new == [list EXCEPT ![id] = p]
           S == DOMAIN list
           v == StakeOf(p, t) - StakeOf(list[id], t)
           f == StakeIn(list, t)
           g == StakeIn(new, t)
<1>1. new \in Seq(ProposalType) /\ DOMAIN new = S /\ new[id] = p
      /\ \A x \in S : x # id => new[x] = list[x]
  OBVIOUS
<1> HIDE DEF new
<1>2. /\ Staked(list, t) = SumOf(f, S) /\ Staked(new, t) = SumOf(g, S)
      /\ IsFiniteSet(S)
      /\ \A x \in S : f[x] = StakeOf(list[x], t) /\ f[x] \in Nat
      /\ \A x \in S : g[x] = StakeOf(new[x], t) /\ g[x] \in Nat
  BY <1>1, StakesOfList
<1> HIDE DEF f, g, S
<1>3. StakeOf(list[id], t) \in Nat /\ StakeOf(p, t) \in Nat
  BY <1>1, <1>2 DEF S
<1>4. Raised(f, g, S, id, v)
  <2>1. \A x \in S : g[x] = f[x] + (IF x = id THEN v ELSE 0)
    <3> SUFFICES ASSUME NEW x \in S PROVE g[x] = f[x] + (IF x = id THEN v ELSE 0)
      OBVIOUS
    <3>1. CASE x = id
      BY <1>1, <1>2, <1>3, <3>1
    <3>2. CASE x # id
      BY <1>1, <1>2, <3>2
    <3> QED
      BY <3>1, <3>2
  <2>2. v \in Int /\ \A x \in S : f[x] \in Int
    BY <1>2, <1>3
  <2>3. id \in S
    BY DEF S
  <2> QED
    BY <1>2, <2>1, <2>2, <2>3 DEF Raised
<1> HIDE DEF v
<1>5. SumRaised(f, g, S, v)
  BY <1>4, SumUpdate
<1>6. Staked(list, t) \in Int /\ Staked(new, t) = Staked(list, t) + v
  BY <1>2, <1>5 DEF SumRaised
<1> QED
  BY <1>6 DEF new, v

(* A new proposal adds its stake. *)
LEMMA StakedAppend ==
    ASSUME NEW list \in Seq(ProposalType), NEW p \in ProposalType, NEW t
    PROVE  Staked(list, t) \in Int /\ Staked(Append(list, p), t) = Staked(list, t) + StakeOf(p, t)
<1> DEFINE new == Append(list, p)
           S == DOMAIN list
           x == Len(list) + 1
           f == StakeIn(list, t)
           g == StakeIn(new, t)
<1>1. new \in Seq(ProposalType) /\ new[x] = p /\ \A y \in S : new[y] = list[y]
  OBVIOUS
<1>2. DOMAIN new = S \cup {x} /\ x \notin S
  <2>1. Len(list) \in Nat /\ DOMAIN list = 1 .. Len(list) /\ DOMAIN new = 1 .. (Len(list) + 1)
    OBVIOUS
  <2> QED
    BY <2>1
<1> HIDE DEF new, x
<1>3. /\ Staked(list, t) = SumOf(f, S) /\ Staked(new, t) = SumOf(g, S \cup {x})
      /\ IsFiniteSet(S)
      /\ \A y \in S : f[y] = StakeOf(list[y], t) /\ f[y] \in Nat
      /\ \A y \in S \cup {x} : g[y] = StakeOf(new[y], t) /\ g[y] \in Nat
  <2>1. /\ Staked(new, t) = SumOf(g, DOMAIN new)
        /\ \A y \in DOMAIN new : g[y] = StakeOf(new[y], t) /\ g[y] \in Nat
    BY <1>1, StakesOfList
  <2>2. /\ Staked(list, t) = SumOf(f, S) /\ IsFiniteSet(S)
        /\ \A y \in S : f[y] = StakeOf(list[y], t) /\ f[y] \in Nat
    BY StakesOfList
  <2> HIDE DEF f, g, S
  <2> QED
    BY <1>2, <2>1, <2>2
<1> HIDE DEF f, g, S
<1>4. Extended(f, g, S, x)
  BY <1>1, <1>2, <1>3 DEF Extended
<1>5. SumExtended(f, g, S, x)
  BY <1>4, SumExtend
<1>6. g[x] = StakeOf(p, t)
  BY <1>1, <1>3
<1> QED
  BY <1>3, <1>5, <1>6 DEF SumExtended, new

-----------------------------------------------------------------------------
(***************************************************************************)
(* The books of the proposals                                              *)
(***************************************************************************)

IdsWith(list, s) == {id \in DOMAIN list : list[id].status = s}

(* A stake is in a token the governor holds a balance of, the balances are *)
(* the stakes, and each proposal is listed once, under its status.         *)
BooksInv ==
    /\ proposals \in Seq(ProposalType)
    /\ stakeHeld \in [StakeTokens -> Nat]
    /\ \A id \in DOMAIN proposals :
          proposals[id].stake > 0 => proposals[id].stake_token \in StakeTokens
    /\ \A t \in StakeTokens : stakeHeld[t] = Staked(proposals, t)
    /\ byStatus \in [Status -> Seq(Nat)]
    /\ \A s \in Status : ListedOnce(byStatus[s], IdsWith(proposals, s))

(* The stake of a proposal stays where it is, or is refunded. *)
Settled(id, p) ==
    \/ /\ p.stake = proposals[id].stake /\ p.stake_token = proposals[id].stake_token
       /\ stakeHeld' = stakeHeld
    \/ p.stake = 0 /\ Refundable(id) /\ stakeHeld' = AfterRefund(id)

LEMMA SettledStakes ==
    ASSUME BooksInv, NEW id \in DOMAIN proposals, NEW p \in ProposalType, Settled(id, p),
           proposals' = [proposals EXCEPT ![id] = p]
    PROVE  /\ stakeHeld' \in [StakeTokens -> Nat]
           /\ \A t \in StakeTokens : stakeHeld'[t] = Staked(proposals', t)
           /\ \A i \in DOMAIN proposals' :
                 proposals'[i].stake > 0 => proposals'[i].stake_token \in StakeTokens
<1> DEFINE old == proposals[id]
<1>0. /\ proposals \in Seq(ProposalType) /\ old \in ProposalType
      /\ stakeHeld \in [StakeTokens -> Nat]
      /\ \A t \in StakeTokens : stakeHeld[t] = Staked(proposals, t)
      /\ \A i \in DOMAIN proposals :
            proposals[i].stake > 0 => proposals[i].stake_token \in StakeTokens
  BY DEF BooksInv
<1>1. old.stake \in Nat /\ p.stake \in Nat
  BY <1>0 DEF ProposalType
<1>2. \A t : /\ Staked(proposals, t) \in Int
             /\ Staked(proposals', t) = Staked(proposals, t) + (StakeOf(p, t) - StakeOf(old, t))
  BY <1>0, StakedWrite
<1>3. old.stake > 0 => old.stake_token \in StakeTokens
  BY <1>0
<1>4. DOMAIN proposals' = DOMAIN proposals
      /\ \A i \in DOMAIN proposals : proposals'[i] = IF i = id THEN p ELSE proposals[i]
  BY <1>0
<1>5. CASE /\ p.stake = old.stake /\ p.stake_token = old.stake_token
           /\ stakeHeld' = stakeHeld
  <2>1. \A t : StakeOf(p, t) = StakeOf(old, t) /\ StakeOf(old, t) \in Nat
    BY <1>1, <1>5 DEF StakeOf
  <2>2. \A t : Staked(proposals', t) = Staked(proposals, t)
    <3> SUFFICES ASSUME NEW t PROVE Staked(proposals', t) = Staked(proposals, t)
      OBVIOUS
    <3> DEFINE a == Staked(proposals, t)
               b == Staked(proposals', t)
               c == StakeOf(old, t)
               d == StakeOf(p, t)
    <3>1. a \in Int /\ b = a + (d - c) /\ d = c /\ c \in Nat
      BY <1>2, <2>1
    <3> HIDE DEF a, b, c, d
    <3>2. b = a
      BY <3>1
    <3> QED
      BY <3>2 DEF a, b, c
  <2>3. \A i \in DOMAIN proposals' :
            proposals'[i].stake > 0 => proposals'[i].stake_token \in StakeTokens
    BY <1>0, <1>4, <1>5
  <2> QED
    BY <1>0, <1>5, <2>2, <2>3
<1>6. CASE p.stake = 0 /\ Refundable(id) /\ stakeHeld' = AfterRefund(id)
  <2>1. \A t : StakeOf(p, t) = 0 /\ StakeOf(old, t) \in Nat
    BY <1>1, <1>6 DEF StakeOf
  <2>2. \A t : Staked(proposals', t) = Staked(proposals, t) - StakeOf(old, t)
    <3> SUFFICES ASSUME NEW t PROVE Staked(proposals', t) = Staked(proposals, t) - StakeOf(old, t)
      OBVIOUS
    <3> DEFINE a == Staked(proposals, t)
               b == Staked(proposals', t)
               c == StakeOf(old, t)
               d == StakeOf(p, t)
    <3>1. a \in Int /\ b = a + (d - c) /\ d = 0 /\ c \in Nat
      BY <1>2, <2>1
    <3> HIDE DEF a, b, c, d
    <3>2. b = a - c
      BY <3>1
    <3> QED
      BY <3>2 DEF a, b, c
  <2>3. \A i \in DOMAIN proposals' :
            proposals'[i].stake > 0 => proposals'[i].stake_token \in StakeTokens
    BY <1>0, <1>4, <1>6
  <2>4. CASE old.stake = 0
    <3>1. stakeHeld' = stakeHeld
      BY <1>6, <2>4 DEF AfterRefund
    <3>2. \A t : StakeOf(old, t) = 0
      BY <2>4 DEF StakeOf
    <3> HIDE DEF old
    <3>3. \A t : Staked(proposals', t) = Staked(proposals, t)
      <4> SUFFICES ASSUME NEW t PROVE Staked(proposals', t) = Staked(proposals, t)
        OBVIOUS
      <4> DEFINE a == Staked(proposals, t)
                 b == Staked(proposals', t)
                 c == StakeOf(old, t)
      <4>1. a \in Int
        BY <1>2
      <4>2. b = a - c
        BY <2>2
      <4>3. c = 0
        BY <3>2
      <4> HIDE DEF a, b, c
      <4>4. b = a
        BY <4>1, <4>2, <4>3
      <4> QED
        BY <4>4 DEF a, b
    <3> QED
      BY <1>0, <2>3, <3>1, <3>3
  <2>5. CASE old.stake # 0
    <3> DEFINE tok == old.stake_token
    <3>1. stakeHeld' = [stakeHeld EXCEPT ![tok] = stakeHeld[tok] - old.stake]
      BY <1>6, <2>5 DEF AfterRefund
    <3>2. old.stake > 0 /\ tok \in StakeTokens /\ stakeHeld[tok] >= old.stake
      BY <1>1, <1>3, <1>6, <2>5 DEF Refundable
    <3>3. \A t : StakeOf(old, t) = IF tok = t THEN old.stake ELSE 0
      BY DEF StakeOf
    <3> HIDE DEF old, tok
    <3>4. stakeHeld[tok] - old.stake \in Nat
      BY <1>0, <1>1, <3>2
    <3>5. stakeHeld' \in [StakeTokens -> Nat]
      BY <1>0, <3>1, <3>2, <3>4
    <3>6. \A t \in StakeTokens : stakeHeld'[t] = stakeHeld[t] - StakeOf(old, t)
      BY <1>0, <3>1, <3>2, <3>3
    <3> QED
      BY <1>0, <2>2, <2>3, <3>5, <3>6
  <2> QED
    BY <2>4, <2>5
<1> QED
  BY <1>5, <1>6 DEF Settled

LEMMA ReindexedLists ==
    ASSUME BooksInv, NEW id \in DOMAIN proposals, NEW p \in ProposalType,
           proposals' = [proposals EXCEPT ![id] = p], byStatus' = Reindexed(id, p.status)
    PROVE  /\ byStatus' \in [Status -> Seq(Nat)]
           /\ \A s \in Status : ListedOnce(byStatus'[s], IdsWith(proposals', s))
<1> DEFINE old == proposals[id].status
           to  == p.status
<1>0. /\ proposals \in Seq(ProposalType) /\ byStatus \in [Status -> Seq(Nat)]
      /\ \A s \in Status : ListedOnce(byStatus[s], IdsWith(proposals, s))
  BY DEF BooksInv
<1>1. id \in Nat /\ old \in Status /\ to \in Status
  <2>1. id \in Nat /\ proposals[id] \in ProposalType
    BY <1>0
  <2> QED
    BY <2>1 DEF ProposalType
<1>2. DOMAIN proposals' = DOMAIN proposals
      /\ \A i \in DOMAIN proposals : proposals'[i] = IF i = id THEN p ELSE proposals[i]
  BY <1>0
<1>3. CASE old = to
  <2>1. byStatus' = byStatus
    BY <1>3 DEF Reindexed
  <2>2. \A s : IdsWith(proposals', s) = IdsWith(proposals, s)
    BY <1>2, <1>3 DEF IdsWith
  <2> QED
    BY <1>0, <2>1, <2>2
<1>4. CASE old # to
  <2> DEFINE removed == [byStatus EXCEPT ![old] = remove_proposal_from_status_index(@, id)]
  <2>1. byStatus' = [removed EXCEPT ![to] = add_proposal_to_status_index(@, id)]
    BY <1>4 DEF Reindexed
  <2>2. \A s : IdsWith(proposals', s) = IF s = to THEN IdsWith(proposals, s) \cup {id}
                                        ELSE IdsWith(proposals, s) \ {id}
    BY <1>2, <1>4 DEF IdsWith
  <2>3. \A s : s # old => IdsWith(proposals, s) \ {id} = IdsWith(proposals, s)
    BY DEF IdsWith
  <2>4. DOMAIN removed = Status
        /\ removed[old] = remove_proposal_from_status_index(byStatus[old], id)
        /\ \A s \in Status : s # old => removed[s] = byStatus[s]
    BY <1>0, <1>1
  <2> HIDE DEF removed, old, to
  <2>5. DOMAIN byStatus' = Status /\ byStatus' = [s \in Status |-> byStatus'[s]]
        /\ byStatus'[to] = add_proposal_to_status_index(byStatus[to], id)
        /\ \A s \in Status : s # to => byStatus'[s] = removed[s]
    BY <1>1, <1>4, <2>1, <2>4 DEF removed
  <2>6. ListedOnce(byStatus'[to], IdsWith(proposals', to))
    <3>1. IdsWith(proposals', to) = IdsWith(proposals, to) \cup {id}
      BY <2>2
    <3>2. ListedOnce(byStatus[to], IdsWith(proposals, to))
      BY <1>0, <1>1
    <3>3. ListedOnce(add_proposal_to_status_index(byStatus[to], id),
                     IdsWith(proposals, to) \cup {id})
      BY <1>1, <3>2, AddListed
    <3> QED
      BY <2>5, <3>1, <3>3
  <2>7. ListedOnce(byStatus'[old], IdsWith(proposals', old))
    <3>1. IdsWith(proposals', old) = IdsWith(proposals, old) \ {id}
      BY <1>4, <2>2
    <3>2. ListedOnce(byStatus[old], IdsWith(proposals, old))
      BY <1>0, <1>1
    <3>3. ListedOnce(remove_proposal_from_status_index(byStatus[old], id),
                     IdsWith(proposals, old) \ {id})
      BY <3>2, RemoveListed
    <3>4. byStatus'[old] = remove_proposal_from_status_index(byStatus[old], id)
      BY <1>1, <1>4, <2>4, <2>5
    <3> QED
      BY <3>1, <3>3, <3>4
  <2>8. ASSUME NEW s \in Status, s # old, s # to
        PROVE  ListedOnce(byStatus'[s], IdsWith(proposals', s))
    BY <1>0, <2>2, <2>3, <2>4, <2>5, <2>8
  <2>9. \A s \in Status : ListedOnce(byStatus'[s], IdsWith(proposals', s))
    BY <2>6, <2>7, <2>8
  <2>10. \A s \in Status : byStatus'[s] \in Seq(Nat)
    BY <2>9 DEF ListedOnce
  <2> QED
    BY <2>5, <2>9, <2>10
<1> QED
  BY <1>3, <1>4

LEMMA WriteKeeps ==
    ASSUME BooksInv, NEW id \in DOMAIN proposals, NEW p \in ProposalType, Settled(id, p),
           proposals' = [proposals EXCEPT ![id] = p], byStatus' = Reindexed(id, p.status)
    PROVE  BooksInv'
<1>1. /\ stakeHeld' \in [StakeTokens -> Nat]
      /\ \A t \in StakeTokens : stakeHeld'[t] = Staked(proposals', t)
      /\ \A i \in DOMAIN proposals' :
            proposals'[i].stake > 0 => proposals'[i].stake_token \in StakeTokens
  BY SettledStakes
<1>2. /\ byStatus' \in [Status -> Seq(Nat)]
      /\ \A s \in Status : ListedOnce(byStatus'[s], IdsWith(proposals', s))
  BY ReindexedLists
<1>3. proposals' \in Seq(ProposalType)
  BY DEF BooksInv
<1> QED
  BY <1>1, <1>2, <1>3 DEF BooksInv

(* The rest of the state, as far as the proposals depend on it *)
EntriesOK ==
    /\ now \in Nat /\ calls \in Nat
    /\ pending \in [to : Accounts \cup {ZeroAddr}, proposer : Accounts] \cup {None}
    /\ pauseEntry \in PauseType
    /\ supply \in Nat \cup {None}

GovernorInv == RolesInv /\ ConfigInv /\ EntriesOK /\ BooksInv

LEMMA ProposeKeeps ==
    ASSUME GovernorInv, NEW c \in Accounts, NEW w \in Windows, propose(c, w)
    PROVE  BooksInv'
<1> DEFINE tok == config.proposal_stake_token
           amount == config.min_proposal_stake
           id == Len(proposals) + 1
           p == [author |-> c, created_at |-> now, execution_window_secs |-> w,
                 status |-> "Pending", votes |-> 0, total_supply |-> governance_supply,
                 stake |-> amount, stake_token |-> tok, record |-> None]
<1>0. /\ proposals \in Seq(ProposalType) /\ stakeHeld \in [StakeTokens -> Nat]
      /\ \A t \in StakeTokens : stakeHeld[t] = Staked(proposals, t)
      /\ \A i \in DOMAIN proposals :
            proposals[i].stake > 0 => proposals[i].stake_token \in StakeTokens
      /\ byStatus \in [Status -> Seq(Nat)]
      /\ \A s \in Status : ListedOnce(byStatus[s], IdsWith(proposals, s))
  BY DEF GovernorInv, BooksInv
<1>1. tok \in StakeTokens /\ amount \in Nat /\ amount > 0
  BY DEF propose, GovernorInv, ConfigInv, ConfigType
<1>2. governance_supply \in Int
  <2>1. book.admin_count \in Int
    BY DEF GovernorInv, RolesInv, BookOK, RoleBook
  <2> QED
    BY <2>1 DEF GovernorInv, EntriesOK, governance_supply
<1>3. p \in ProposalType
  <2>1. now \in Nat /\ w \in Nat /\ "Pending" \in Status
    BY GovernorInputAssumption DEF GovernorInv, EntriesOK, Status
  <2> HIDE DEF tok, amount
  <2> QED
    BY <1>1, <1>2, <2>1 DEF ProposalType
<1>4. /\ stakeHeld' = [stakeHeld EXCEPT ![tok] = stakeHeld[tok] + amount]
      /\ proposals' = Append(proposals, p)
      /\ byStatus' = [byStatus EXCEPT
                        !["Pending"] = add_proposal_to_status_index(byStatus["Pending"], id)]
  BY DEF propose
<1>5. p.stake = amount /\ p.stake_token = tok /\ p.status = "Pending"
  OBVIOUS
<1>6. id \in Nat /\ id \notin DOMAIN proposals /\ DOMAIN proposals' = DOMAIN proposals \cup {id}
      /\ proposals' \in Seq(ProposalType) /\ proposals'[id] = p
      /\ \A i \in DOMAIN proposals : proposals'[i] = proposals[i]
  <2>1. Len(proposals) \in Nat /\ DOMAIN proposals = 1 .. Len(proposals)
    BY <1>0
  <2> HIDE DEF p
  <2>2. DOMAIN proposals' = 1 .. (Len(proposals) + 1) /\ proposals' \in Seq(ProposalType)
        /\ proposals'[Len(proposals) + 1] = p
        /\ \A i \in 1 .. Len(proposals) : proposals'[i] = proposals[i]
    BY <1>0, <1>3, <1>4
  <2>3. \A i : i \in 1 .. (Len(proposals) + 1) <=> i \in 1 .. Len(proposals) \/ i = id
    BY <2>1
  <2>4. id \in Nat /\ id \notin DOMAIN proposals
    BY <2>1
  <2>5. DOMAIN proposals' = DOMAIN proposals \cup {id}
    BY <2>1, <2>2, <2>3
  <2> QED
    BY <2>1, <2>2, <2>4, <2>5
<1> HIDE DEF p, id, tok, amount
<1>7. \A t \in StakeTokens : stakeHeld'[t] = Staked(proposals', t)
  <2> SUFFICES ASSUME NEW t \in StakeTokens PROVE stakeHeld'[t] = Staked(proposals', t)
    OBVIOUS
  <2>1. Staked(proposals, t) \in Int
        /\ Staked(proposals', t) = Staked(proposals, t) + StakeOf(p, t)
    BY <1>0, <1>3, <1>4, StakedAppend
  <2>2. StakeOf(p, t) = IF tok = t THEN amount ELSE 0
    BY <1>5 DEF StakeOf
  <2>3. stakeHeld'[t] = stakeHeld[t] + (IF tok = t THEN amount ELSE 0)
    BY <1>0, <1>1, <1>4
  <2> QED
    BY <1>0, <2>1, <2>2, <2>3
<1>8. stakeHeld' \in [StakeTokens -> Nat]
  BY <1>0, <1>1, <1>4
<1>9. \A i \in DOMAIN proposals' :
          proposals'[i].stake > 0 => proposals'[i].stake_token \in StakeTokens
  BY <1>0, <1>1, <1>5, <1>6
<1>10. ASSUME NEW s \in Status
       PROVE  ListedOnce(byStatus'[s], IdsWith(proposals', s))
  <2>0. ListedOnce(byStatus[s], IdsWith(proposals, s))
    BY <1>0
  <2>1. CASE s = "Pending"
    <3>1. IdsWith(proposals', s) = IdsWith(proposals, s) \cup {id}
      BY <1>5, <1>6, <2>1 DEF IdsWith
    <3>2. ListedOnce(add_proposal_to_status_index(byStatus[s], id), IdsWith(proposals, s) \cup {id})
      BY <1>6, <2>0, AddListed
    <3>3. byStatus'[s] = add_proposal_to_status_index(byStatus[s], id)
      BY <1>0, <1>4, <2>1
    <3> QED
      BY <3>1, <3>2, <3>3
  <2>2. CASE s # "Pending"
    <3>1. IdsWith(proposals', s) = IdsWith(proposals, s)
      BY <1>5, <1>6, <2>2 DEF IdsWith
    <3>2. byStatus'[s] = byStatus[s]
      BY <1>0, <1>4, <2>2
    <3> QED
      BY <2>0, <3>1, <3>2
  <2> QED
    BY <2>1, <2>2
<1>11. byStatus' \in [Status -> Seq(Nat)]
  <2>1. \A s \in Status : byStatus'[s] \in Seq(Nat)
    BY <1>10 DEF ListedOnce
  <2>2. byStatus' = [s \in Status |-> byStatus'[s]]
    BY <1>0, <1>4
  <2> QED
    BY <2>1, <2>2
<1> QED
  BY <1>6, <1>7, <1>8, <1>9, <1>10, <1>11 DEF BooksInv

(* The fields of a proposal whose stake was refunded *)
LEMMA Unstaked ==
    ASSUME NEW p \in ProposalType
    PROVE  /\ WithoutStake(p) \in ProposalType
           /\ WithoutStake(p).stake = 0 /\ WithoutStake(p).status = p.status
BY DEF WithoutStake, ProposalType

LEMMA WithStatus ==
    ASSUME NEW p \in ProposalType, NEW s \in Status
    PROVE  /\ [p EXCEPT !.status = s] \in ProposalType
           /\ [p EXCEPT !.status = s].status = s
           /\ [p EXCEPT !.status = s].stake = p.stake
           /\ [p EXCEPT !.status = s].stake_token = p.stake_token
BY DEF ProposalType

LEMMA ExecuteKeeps ==
    ASSUME GovernorInv, NEW c \in Accounts, NEW id \in DOMAIN proposals, execute_proposal(c, id)
    PROVE  BooksInv'
<1> DEFINE q == WithoutStake(proposals[id])
           p == [q EXCEPT !.status = "Executed"]
<1>1. proposals' = [proposals EXCEPT ![id] = p] /\ byStatus' = Reindexed(id, "Executed")
      /\ Refundable(id) /\ stakeHeld' = AfterRefund(id)
  BY DEF execute_proposal
<1>2. proposals[id] \in ProposalType /\ BooksInv
  BY DEF GovernorInv, BooksInv
<1>3. q \in ProposalType /\ q.stake = 0
  BY <1>2, Unstaked
<1> HIDE DEF q
<1>4. p \in ProposalType /\ p.stake = 0 /\ p.status = "Executed"
  BY <1>3, WithStatus DEF Status
<1> HIDE DEF p
<1>5. Settled(id, p)
  BY <1>1, <1>4 DEF Settled
<1> QED
  BY <1>1, <1>2, <1>4, <1>5, WriteKeeps

LEMMA CancelKeeps ==
    ASSUME GovernorInv, NEW id \in DOMAIN proposals, Cancel(id)
    PROVE  BooksInv'
<1> DEFINE old == proposals[id]
           p == [old EXCEPT !.status = "Cancelled", !.record = old.votes]
<1>1. proposals' = [proposals EXCEPT ![id] = p] /\ byStatus' = Reindexed(id, "Cancelled")
      /\ stakeHeld' = stakeHeld
  BY DEF Cancel
<1>2. old \in ProposalType /\ BooksInv
  BY DEF GovernorInv, BooksInv
<1>3. /\ p \in ProposalType /\ p.status = "Cancelled"
      /\ p.stake = old.stake /\ p.stake_token = old.stake_token
  <2> HIDE DEF old
  <2> QED
    BY <1>2 DEF ProposalType, Status
<1> HIDE DEF p
<1>4. Settled(id, p)
  BY <1>1, <1>3 DEF Settled
<1> QED
  BY <1>1, <1>2, <1>3, <1>4, WriteKeeps

LEMMA BallotKeeps ==
    ASSUME GovernorInv, NEW id \in DOMAIN proposals, NEW w \in Weights, cast_ballot(id, w)
    PROVE  BooksInv'
<1> DEFINE old == proposals[id]
           votes == old.votes + w
           reached == votes >= QuorumThreshold(id)
           voted == [old EXCEPT !.votes = votes, !.status = "Active"]
           p == IF reached THEN WithoutStake(voted) ELSE voted
<1>1. /\ proposals' = [proposals EXCEPT ![id] = p] /\ byStatus' = Reindexed(id, "Active")
      /\ reached => Refundable(id)
      /\ stakeHeld' = IF reached THEN AfterRefund(id) ELSE stakeHeld
  BY DEF cast_ballot
<1>2. old \in ProposalType /\ BooksInv
  BY DEF GovernorInv, BooksInv
<1>3. votes \in Nat
  BY <1>2, GovernorInputAssumption DEF ProposalType
<1> HIDE DEF reached, votes
<1>4. /\ voted \in ProposalType /\ voted.status = "Active"
      /\ voted.stake = old.stake /\ voted.stake_token = old.stake_token
  <2> HIDE DEF old
  <2> QED
    BY <1>2, <1>3 DEF ProposalType, Status
<1> HIDE DEF voted
<1>5. p \in ProposalType /\ p.status = "Active" /\ (reached => p.stake = 0)
      /\ (~reached => p.stake = old.stake /\ p.stake_token = old.stake_token)
  BY <1>4, Unstaked
<1> HIDE DEF p
<1>6. Settled(id, p)
  BY <1>1, <1>5 DEF Settled
<1> QED
  BY <1>1, <1>2, <1>5, <1>6, WriteKeeps

-----------------------------------------------------------------------------

LEMMA PauseTyped ==
    ASSUME EntriesOK
    PROVE  /\ AfterIsPaused(pauseEntry, now) \in PauseType
           /\ set_paused(TRUE, now) \in PauseType /\ set_paused(FALSE, now) \in PauseType
<1>1. pauseEntry \in PauseType /\ now \in Nat
  BY DEF EntriesOK
<1> QED
  BY <1>1 DEF AfterIsPaused, set_paused, PauseType

(* What a call that sets a parameter leaves alone, and what it leaves of the other entries *)
LEMMA ConfigCallEntries ==
    ASSUME NEW c, ConfigCall(c)
    PROVE  /\ UNCHANGED <<now, pending, proposalVars>> /\ calls' = calls + 1
           /\ pauseEntry' = AfterIsPaused(pauseEntry, now)
           /\ supply' = supply \/ supply' \in Supplies
<1> USE DEF SetConfig, OneCall, Running
<1>1. CASE \E n \in Fees : set_fee_bps(c, n)
  BY <1>1 DEF set_fee_bps
<1>2. CASE \E a \in Recipients \cup {ZeroAddr} : set_fee_recipient(c, a)
  BY <1>2 DEF set_fee_recipient
<1>3. CASE \E n \in Durations : set_min_duration(c, n)
  BY <1>3 DEF set_min_duration
<1>4. CASE \E n \in Durations : set_max_duration(c, n)
  BY <1>4 DEF set_max_duration
<1>5. CASE \E n \in Durations : set_force_cancel_pause_threshold(c, n)
  BY <1>5 DEF set_force_cancel_pause_threshold
<1>6. CASE \E n \in Rates : set_max_rate(c, n)
  BY <1>6 DEF set_max_rate
<1>7. CASE \E n \in Quorums : set_min_quorum_bps(c, n)
  BY <1>7 DEF set_min_quorum_bps
<1>8. CASE \E n \in Supplies : set_governance_supply(c, n)
  BY <1>8 DEF set_governance_supply
<1>9. CASE \E t \in StakeTokens \cup {ZeroAddr}, n \in Stakes : set_proposal_stake_config(c, t, n)
  BY <1>9 DEF set_proposal_stake_config
<1> QED
  BY <1>1, <1>2, <1>3, <1>4, <1>5, <1>6, <1>7, <1>8, <1>9 DEF ConfigCall

(* What a call about roles or the halt leaves alone, and what it writes *)
LEMMA RoleCallEntries ==
    ASSUME NEW c \in Accounts, RoleCall(c)
    PROVE  /\ UNCHANGED <<now, supply, proposalVars>> /\ calls' = calls + 1
           /\ \/ pending' = pending \/ pending' = None
              \/ \E a \in Candidates : pending' = [to |-> a, proposer |-> c]
           /\ \/ pauseEntry' = pauseEntry
              \/ \E b \in BOOLEAN : pauseEntry' = set_paused(b, now)
<1> USE DEF OneCall
<1>1. CASE \E r \in GrantRoles, a \in Accounts, t \in Expiries :
              grant_role_with_expiration(c, r, a, t)
  BY <1>1 DEF grant_role_with_expiration
<1>2. CASE \E r \in GrantRoles, s \in Batches : grant_role_batch(c, r, s)
  BY <1>2 DEF grant_role_batch
<1>3. CASE \E r \in GrantRoles, s \in Batches : revoke_role_batch(c, r, s)
  BY <1>3 DEF revoke_role_batch
<1>4. CASE \E a \in Candidates : transfer_authority(c, a)
  BY <1>4 DEF transfer_authority
<1>5. CASE \E a \in Candidates : propose_admin(c, a)
  BY <1>5 DEF propose_admin
<1>6. CASE revoke_propose_authority(c)
  BY <1>6 DEF revoke_propose_authority
<1>7. CASE accept_authority(c)
  BY <1>7 DEF accept_authority
<1>8. CASE governor_pause(c)
  BY <1>8 DEF governor_pause
<1>9. CASE governor_unpause(c)
  BY <1>9 DEF governor_unpause
<1> QED
  BY <1>1, <1>2, <1>3, <1>4, <1>5, <1>6, <1>7, <1>8, <1>9 DEF RoleCall, propose_authority

LEMMA EntriesStep == EntriesOK /\ [Next]_vars => EntriesOK'
<1> SUFFICES ASSUME EntriesOK, [Next]_vars PROVE EntriesOK'
  OBVIOUS
<1>0. /\ now \in Nat /\ calls \in Nat /\ calls + 1 \in Nat
      /\ pending \in [to : Accounts \cup {ZeroAddr}, proposer : Accounts] \cup {None}
      /\ pauseEntry \in PauseType /\ supply \in Nat \cup {None}
  BY DEF EntriesOK
<1>1. CASE \E c \in Accounts : RoleCall(c)
  <2>1. PICK c \in Accounts : RoleCall(c)
    BY <1>1
  <2>2. /\ now' = now /\ supply' = supply /\ calls' = calls + 1
        /\ \/ pending' = pending \/ pending' = None
           \/ \E a \in Candidates : pending' = [to |-> a, proposer |-> c]
        /\ pauseEntry' = pauseEntry \/ \E b \in BOOLEAN : pauseEntry' = set_paused(b, now)
    BY <2>1, RoleCallEntries
  <2>3. pauseEntry' \in PauseType
    BY <1>0, <2>2, PauseTyped
  <2>4. pending' \in [to : Accounts \cup {ZeroAddr}, proposer : Accounts] \cup {None}
    BY <1>0, <2>2, GovernorAddrAssumption
  <2> QED
    BY <1>0, <2>2, <2>3, <2>4 DEF EntriesOK
<1>2. CASE \E c \in Accounts : ConfigCall(c)
  <2>1. PICK c \in Accounts : ConfigCall(c)
    BY <1>2
  <2>2. /\ now' = now /\ pending' = pending /\ calls' = calls + 1
        /\ pauseEntry' = AfterIsPaused(pauseEntry, now)
        /\ supply' = supply \/ supply' \in Supplies
    BY <2>1, ConfigCallEntries
  <2>3. pauseEntry' \in PauseType
    BY <2>2, PauseTyped
  <2> QED
    BY <1>0, <2>2, <2>3, GovernorInputAssumption DEF EntriesOK
<1>3. CASE \/ \E c \in Accounts : ProposalCall(c)
           \/ \E id \in DOMAIN proposals : cancel_proposal(id)
           \/ \E id \in DOMAIN proposals, w \in Weights : cast_ballot(id, w)
  <2>1. UNCHANGED <<now, pending, pauseEntry, supply>> /\ calls' = calls + 1
    <3> USE DEF OneCall
    <3>1. CASE \E c \in Accounts : ProposalCall(c)
      <4>1. PICK c \in Accounts : ProposalCall(c)
        BY <3>1
      <4>2. CASE \E w \in Windows : propose(c, w)
        BY <4>2 DEF propose
      <4>3. CASE \E id \in DOMAIN proposals : execute_proposal(c, id)
        BY <4>3 DEF execute_proposal
      <4>4. CASE \E id \in DOMAIN proposals : cancel_proposal_by_admin(c, id)
        BY <4>4 DEF cancel_proposal_by_admin, Cancel
      <4> QED
        BY <4>1, <4>2, <4>3, <4>4 DEF ProposalCall
    <3>2. CASE \E id \in DOMAIN proposals : cancel_proposal(id)
      BY <3>2 DEF cancel_proposal, Cancel
    <3>3. CASE \E id \in DOMAIN proposals, w \in Weights : cast_ballot(id, w)
      BY <3>3 DEF cast_ballot
    <3> QED
      BY <1>3, <3>1, <3>2, <3>3
  <2> QED
    BY <1>0, <2>1 DEF EntriesOK
<1>4. CASE Tick
  BY <1>0, <1>4 DEF Tick, EntriesOK
<1>5. CASE UNCHANGED vars
  BY <1>0, <1>5 DEF vars, EntriesOK
<1> QED
  BY <1>1, <1>2, <1>3, <1>4, <1>5 DEF Next

LEMMA BooksStep == GovernorInv /\ [Next]_vars => BooksInv'
<1> SUFFICES ASSUME GovernorInv, [Next]_vars PROVE BooksInv'
  OBVIOUS
<1>1. CASE \E c \in Accounts : ProposalCall(c)
  <2>1. PICK c \in Accounts : ProposalCall(c)
    BY <1>1
  <2>2. CASE \E w \in Windows : propose(c, w)
    BY <2>2, ProposeKeeps
  <2>3. CASE \E id \in DOMAIN proposals : execute_proposal(c, id)
    BY <2>3, ExecuteKeeps
  <2>4. CASE \E id \in DOMAIN proposals : cancel_proposal_by_admin(c, id)
    BY <2>4, CancelKeeps DEF cancel_proposal_by_admin
  <2> QED
    BY <2>1, <2>2, <2>3, <2>4 DEF ProposalCall
<1>2. CASE \E id \in DOMAIN proposals : cancel_proposal(id)
  BY <1>2, CancelKeeps DEF cancel_proposal
<1>3. CASE \E id \in DOMAIN proposals, w \in Weights : cast_ballot(id, w)
  BY <1>3, BallotKeeps
<1>4. CASE UNCHANGED proposalVars
  <2>1. proposals' = proposals /\ byStatus' = byStatus /\ stakeHeld' = stakeHeld
    BY <1>4 DEF proposalVars
  <2>2. BooksInv
    BY DEF GovernorInv
  <2> QED
    BY <2>1, <2>2 DEF BooksInv
<1>5. (\E c \in Accounts : RoleCall(c)) => UNCHANGED proposalVars
  BY RoleCallEntries
<1>6. (\E c \in Accounts : ConfigCall(c)) => UNCHANGED proposalVars
  BY ConfigCallEntries
<1>7. Tick \/ UNCHANGED vars => UNCHANGED proposalVars
  BY DEF Tick, vars
<1> QED
  BY <1>1, <1>2, <1>3, <1>4, <1>5, <1>6, <1>7 DEF Next

LEMMA GovernorInit == Init => GovernorInv
<1> SUFFICES ASSUME Init PROVE GovernorInv
  OBVIOUS
<1>1. RolesInv
  BY RolesInit
<1>2. ConfigInv
  BY InitialConfigAssumption DEF Init, ConfigInv, ConfigConsistent
<1>3. EntriesOK
  BY DEF Init, EntriesOK, NeverPaused, PauseType
<1>4. BooksInv
  <2>1. proposals = <<>> /\ byStatus = [s \in Status |-> <<>>]
        /\ stakeHeld = [t \in StakeTokens |-> 0]
    BY DEF Init
  <2>2. proposals \in Seq(ProposalType) /\ DOMAIN proposals = {}
    BY <2>1
  <2>3. \A s \in Status : ListedOnce(byStatus[s], IdsWith(proposals, s))
    BY <2>1, <2>2 DEF ListedOnce, IdsWith, IsInjective, ToSet
  <2>4. ASSUME NEW t \in StakeTokens
        PROVE  stakeHeld[t] = Staked(proposals, t)
    <3>1. Staked(proposals, t) = SumOf(StakeIn(proposals, t), {}) /\ IsFiniteSet({})
      BY <2>2, StakesOfList
    <3>2. SumOf(StakeIn(proposals, t), {}) = 0
      BY <3>1, SumZero
    <3> QED
      BY <2>1, <3>1, <3>2
  <2> QED
    BY <2>1, <2>2, <2>3, <2>4 DEF BooksInv
<1> QED
  BY <1>1, <1>2, <1>3, <1>4 DEF GovernorInv

(* The governor's whole inductive invariant holds in every reachable state. *)
THEOREM GovernorInvariance == Spec => []GovernorInv
<1>1. GovernorInv /\ [Next]_vars => GovernorInv'
  BY RolesStep, ConfigStep, EntriesStep, BooksStep DEF GovernorInv
<1> QED
  BY <1>1, GovernorInit, PTL DEF Spec

(***************************************************************************)
(* The records about proposals agree with them, for any number of          *)
(* proposals, stake tokens, amounts and weights: the governor's balances   *)
(* are the stakes not yet refunded by a vote or by the execution, and each *)
(* proposal is listed once, under its status, through set_proposal_status  *)
(***************************************************************************)
THEOREM ProposalBooksHold == Spec => []ProposalBooksExact
<1>1. GovernorInv => ProposalBooksExact
  <2> SUFFICES ASSUME GovernorInv PROVE ProposalBooksExact
    OBVIOUS
  <2>1. GovernorTypeOK
    BY DEF GovernorInv, RolesInv, BookOK, ConfigInv, EntriesOK, BooksInv, GovernorTypeOK
  <2>2. /\ \A s \in Status : ListedOnce(byStatus[s], IdsWith(proposals, s))
        /\ \A t \in StakeTokens : stakeHeld[t] = Staked(proposals, t)
    BY DEF GovernorInv, BooksInv
  <2> QED
    BY <2>1, <2>2 DEF ProposalBooksExact, ListedOnce, IdsWith
<1> QED
  BY <1>1, GovernorInvariance, PTL
=============================================================================
