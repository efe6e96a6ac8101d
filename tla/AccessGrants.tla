---------------------------- MODULE AccessGrants ----------------------------
(* The access grants of one document: DocumentsService.grantAccess and      *)
(* revokeAccess, and what DocumentAuthorizationService.authorize, its       *)
(* capabilities and the scope of lists and searches make of the rows.       *)
(* grantAccess looks for an active grant, marks it EXPIRED by id when its   *)
(* time is over, and inserts a new one in a transaction later; revokeAccess *)
(* claims the row by the revision that the client sent.                     *)
EXTENDS Naturals, Sequences

CONSTANTS Users, Departments,
          DepartmentOf,    \* [Users -> Departments \cup {NoDepartment}]
          NoDepartment,
          RoleOf,          \* [Users -> Roles]
          Creator,         \* who created the document
          Classification,  \* the document's
          Requests,        \* request slots, each serving one call at a time
          Grantable,       \* bound: principals with permissions explored
          Windows,         \* bound: validity times (until 0: open) explored
          MaxGrants,       \* bound: rows explored
          MaxClock         \* bound: time explored

-----------------------------------------------------------------------------
(* Roles and permissions. *)

Roles == {"ADMIN", "INVESTIGATOR", "SENIOR_OFFICER", "DEPARTMENT_HEAD",
          "AUDITOR"}

Classifications == {"INTERNAL", "RESTRICTED", "CONFIDENTIAL",
                    "HIGHLY_RESTRICTED"}

Permissions == {"VIEW", "DOWNLOAD", "EDIT", "SHARE", "APPROVE"}

Principals == Users \cup Departments

ASSUME UsersAssumption ==
    /\ Creator \in Users
    /\ Users \cap Departments = {}
    /\ NoDepartment \notin Principals
    /\ DepartmentOf \in [Users -> Departments \cup {NoDepartment}]
    /\ RoleOf \in [Users -> Roles]
    /\ Classification \in Classifications

ASSUME BoundsAssumption ==
    /\ Grantable \subseteq Principals \X Permissions
    /\ Windows \subseteq Nat \X Nat
    /\ MaxGrants \in Nat /\ MaxClock \in Nat

classificationRank ==
    [INTERNAL |-> 0, RESTRICTED |-> 1, CONFIDENTIAL |-> 2,
     HIGHLY_RESTRICTED |-> 3]

roleClearance ==
    [ADMIN |-> "INTERNAL", INVESTIGATOR |-> "RESTRICTED",
     SENIOR_OFFICER |-> "CONFIDENTIAL", DEPARTMENT_HEAD |-> "HIGHLY_RESTRICTED",
     AUDITOR |-> "CONFIDENTIAL"]

canAccessClassification(u, c) ==
    classificationRank[roleClearance[RoleOf[u]]] >= classificationRank[c]

\* Mutant of allowedClassifications: the maximum itself is left out.
allowedClassificationsBelow(u) ==
    {c \in Classifications :
        classificationRank[c] < classificationRank[roleClearance[RoleOf[u]]]}

allowedClassifications(u) ==
    {c \in Classifications :
        classificationRank[c] <= classificationRank[roleClearance[RoleOf[u]]]}

\* The permissions whose grant satisfies a required one.
permissionImplications ==
    [p \in Permissions |-> IF p = "VIEW" THEN Permissions ELSE {p}]

-----------------------------------------------------------------------------

VARIABLES grants,       \* rows of document_permissions, in commit order
          clock,        \* the time
          revocations,  \* ACCESS_REVOKED custody events per row (history)
          work          \* what each slot is doing

vars == <<grants, clock, revocations, work>>

\* until 0 is null, an open grant; grantor is grantedById.
Grant == [principal : Principals, permission : Permissions,
          from : Nat, until : Nat, grantor : Users,
          status : {"ACTIVE", "REVOKED", "EXPIRED"}, revision : Nat]

Phases == {"idle", "find", "expire", "insert", "claim"}

\* new is the row a grant is going to insert; target the row a grant found
\* expired, or a revocation names, with the revision the client expects.
Request == [phase : Phases, new : Grant, target : Nat, expected : Nat]

NoGrant == [principal |-> Creator, permission |-> "VIEW", from |-> 0,
            until |-> 0, grantor |-> Creator, status |-> "ACTIVE",
            revision |-> 0]

Idle == [phase |-> "idle", new |-> NoGrant, target |-> 0, expected |-> 0]

Rows == DOMAIN grants

Answer(r) == work' = [work EXCEPT ![r] = Idle]

-----------------------------------------------------------------------------
(* Authorization: every request reads the rows as they are. *)

Covers(g, u) == g.principal = u \/ g.principal = DepartmentOf[u]

\* A grant of the user that has started and has not ended.
InForce(g, u) ==
    /\ g.status = "ACTIVE" /\ Covers(g, u)
    /\ g.from <= clock
    /\ g.until = 0 \/ clock < g.until

Permitting(u, permission) ==
    {i \in Rows : /\ InForce(grants[i], u)
                  /\ grants[i].permission \in permissionImplications[permission]}

Authorized(u, permission) ==
    /\ canAccessClassification(u, Classification)
    /\ \/ u = Creator
       \/ RoleOf[u] = "AUDITOR" /\ permission = "VIEW"
       \/ Permitting(u, permission) # {}

\* What get tells the client it may do, from the rows authorize(VIEW) loaded.
Capability(u, permission) ==
    LET granted == {grants[i].permission : i \in Permitting(u, "VIEW")}
    IN  /\ canAccessClassification(u, Classification)
        /\ \/ u = Creator
           \/ permission = "VIEW" /\ (RoleOf[u] = "AUDITOR" \/ granted # {})
           \/ permission # "VIEW" /\ permission \in granted

\* The condition of list, search and securityStats for the document's row.
InScope(u) ==
    /\ Classification \in allowedClassifications(u)
    /\ \/ RoleOf[u] = "AUDITOR"
       \/ u = Creator
       \/ \E i \in Rows : InForce(grants[i], u)

-----------------------------------------------------------------------------
(* grantAccess. *)

\* The request, by u, to give the permission a[2] to a[1] from w[1] until w[2].
\* Without a time of its own it starts now.
Wanted(u, a, w) ==
    [NoGrant EXCEPT !.principal = a[1], !.permission = a[2], !.grantor = u,
                    !.from = w[1], !.until = w[2]]

\* It ends after its start or never; both may be over already.
ValidWindow(w) == w[2] = 0 \/ w[1] < w[2]

\* Mutant of AuthorizeGrant: who may view may share.
AuthorizeGrantViewer(r) ==
    /\ work[r].phase = "idle"
    /\ \E u \in Users, a \in Grantable, w \in Windows :
           /\ Authorized(u, "VIEW") /\ ValidWindow(w)
           /\ work' = [work EXCEPT ![r] = [Idle EXCEPT
                  !.phase = "find", !.new = Wanted(u, a, w)]]
    /\ UNCHANGED <<grants, clock, revocations>>

\* authorize(SHARE) and the checks of the request.
AuthorizeGrant(r) ==
    /\ work[r].phase = "idle"
    /\ \E u \in Users, a \in Grantable, w \in Windows :
           /\ Authorized(u, "SHARE") /\ ValidWindow(w)
           /\ work' = [work EXCEPT ![r] = [Idle EXCEPT
                  !.phase = "find", !.new = Wanted(u, a, w)]]
    /\ UNCHANGED <<grants, clock, revocations>>

SameAccess(g, h) == g.principal = h.principal /\ g.permission = h.permission

Existing(r) ==
    {i \in Rows : grants[i].status = "ACTIVE" /\ SameAccess(grants[i], work[r].new)}

Over(g) == g.until # 0 /\ g.until <= clock

\* Mutant of FindExisting: any grant with an end is taken for expired.
FindExistingBounded(r) ==
    /\ work[r].phase = "find"
    /\ \/ /\ Existing(r) = {}
          /\ work' = [work EXCEPT ![r].phase = "insert"]
       \/ \E i \in Existing(r) :
              \/ /\ grants[i].until # 0
                 /\ work' = [work EXCEPT ![r] = [@ EXCEPT
                                !.phase = "expire", !.target = i]]
              \/ /\ grants[i].until = 0
                 /\ Answer(r)
    /\ UNCHANGED <<grants, clock, revocations>>

\* No active grant, one whose time is over, or one that stands (409).
FindExisting(r) ==
    /\ work[r].phase = "find"
    /\ \/ /\ Existing(r) = {}
          /\ work' = [work EXCEPT ![r].phase = "insert"]
       \/ \E i \in Existing(r) :
              \/ /\ Over(grants[i])
                 /\ work' = [work EXCEPT ![r] = [@ EXCEPT
                                !.phase = "expire", !.target = i]]
              \/ /\ ~Over(grants[i])
                 /\ Answer(r)
    /\ UNCHANGED <<grants, clock, revocations>>

\* An update by id, outside of the transaction: whatever the row is by now.
Expire(r) ==
    /\ work[r].phase = "expire"
    /\ grants' = [grants EXCEPT ![work[r].target].status = "EXPIRED"]
    /\ work' = [work EXCEPT ![r] = [@ EXCEPT !.phase = "insert", !.target = 0]]
    /\ UNCHANGED <<clock, revocations>>

\* Mutant of IndexAllows: without the partial unique indexes.
IndexAllowsAll(r) == grants \in Seq(Grant)

\* One active row per principal and permission.
IndexAllows(r) == Existing(r) = {}

Insert(r) ==
    /\ work[r].phase = "insert"
    /\ IndexAllows(r)
    /\ Len(grants) < MaxGrants
    /\ grants' = Append(grants, work[r].new)
    /\ revocations' = Append(revocations, 0)
    /\ Answer(r)
    /\ UNCHANGED clock

\* P2002: 409.
Conflict(r) ==
    /\ work[r].phase = "insert"
    /\ ~IndexAllows(r)
    /\ Answer(r)
    /\ UNCHANGED <<grants, clock, revocations>>

-----------------------------------------------------------------------------
(* revokeAccess. *)

\* authorize(SHARE); the client names a row and a revision it was given.
AuthorizeRevoke(r) ==
    /\ work[r].phase = "idle"
    /\ \E u \in Users, i \in Rows :
           /\ Authorized(u, "SHARE")
           /\ \E e \in 0 .. grants[i].revision :
                  work' = [work EXCEPT ![r] = [Idle EXCEPT
                      !.phase = "claim", !.target = i, !.expected = e]]
    /\ UNCHANGED <<grants, clock, revocations>>

\* Mutant of MayClaim: the row is claimed whatever became of it.
MayClaimAny(m) == m.target \in Rows

MayClaim(m) ==
    grants[m.target].status = "ACTIVE" /\ grants[m.target].revision = m.expected

Revoked(g) == [g EXCEPT !.status = "REVOKED", !.revision = @ + 1]

\* The claim, and with it both histories.
Revoke(r) ==
    /\ work[r].phase = "claim"
    /\ MayClaim(work[r])
    /\ grants' = [grants EXCEPT ![work[r].target] = Revoked(@)]
    /\ revocations' = [revocations EXCEPT ![work[r].target] = @ + 1]
    /\ Answer(r)
    /\ UNCHANGED clock

\* 409: nothing was claimed.
RevokeConflict(r) ==
    /\ work[r].phase = "claim"
    /\ ~MayClaim(work[r])
    /\ Answer(r)
    /\ UNCHANGED <<grants, clock, revocations>>

-----------------------------------------------------------------------------

\* The process dies, or the database refuses.
Crash(r) ==
    /\ work[r].phase # "idle"
    /\ Answer(r)
    /\ UNCHANGED <<grants, clock, revocations>>

Tick ==
    /\ clock < MaxClock
    /\ clock' = clock + 1
    /\ UNCHANGED <<grants, revocations, work>>

Init ==
    /\ grants = <<>> /\ revocations = <<>> /\ clock = 0
    /\ work = [r \in Requests |-> Idle]

Step(r) ==
    \/ AuthorizeGrant(r) \/ FindExisting(r) \/ Expire(r) \/ Insert(r)
    \/ Conflict(r) \/ AuthorizeRevoke(r) \/ Revoke(r) \/ RevokeConflict(r)
    \/ Crash(r)

Next == Tick \/ \E r \in Requests : Step(r)

Spec == Init /\ [][Next]_vars

-----------------------------------------------------------------------------
(* Properties. *)

\* Rows and slots have their types; the count of events runs with the rows.
TypeOK ==
    /\ grants \in Seq(Grant) /\ clock \in Nat
    /\ revocations \in Seq(Nat) /\ Len(revocations) = Len(grants)
    /\ work \in [Requests -> Request]
    /\ \A r \in Requests :
           work[r].phase \in {"expire", "claim"} => work[r].target \in Rows

\* A principal never has two active grants of one permission, although the
\* look-up and the insert of concurrent grants interleave.
OneActiveGrant ==
    \A i, j \in Rows :
        /\ grants[i].status = "ACTIVE" /\ grants[j].status = "ACTIVE"
        /\ SameAccess(grants[i], grants[j])
        => i = j

\* A grant is revoked at most once, its revision counts it, custody tells of
\* it once, and it is never in force again, whatever later writes do.
RevokedOnce ==
    \A i \in Rows :
        /\ revocations[i] = grants[i].revision
        /\ grants[i].revision <= 1
        /\ grants[i].revision = 1 => grants[i].status # "ACTIVE"

\* Only grants whose time is over are marked EXPIRED, although the mark is
\* written an await after the time was compared.
ExpiredIsOver == \A i \in Rows : grants[i].status = "EXPIRED" => Over(grants[i])

\* All authority comes from the creator: who made a grant is the creator, or
\* was given SHARE by an older grant, and is cleared for the document.
AuthorityDerivesFromCreator ==
    \A i \in Rows :
        LET u == grants[i].grantor
        IN  /\ canAccessClassification(u, Classification)
            /\ \/ u = Creator
               \/ \E j \in 1 .. (i - 1) : /\ grants[j].permission = "SHARE"
                                          /\ Covers(grants[j], u)

\* Three copies of the policy agree: lists and searches show the document to
\* exactly those whom authorize lets view it, and the capabilities shown to
\* them are exactly what authorize would allow.
PoliciesAgree ==
    \A u \in Users :
        /\ InScope(u) <=> Authorized(u, "VIEW")
        /\ Authorized(u, "VIEW") =>
               \A p \in Permissions : Capability(u, p) <=> Authorized(u, p)

=============================================================================
