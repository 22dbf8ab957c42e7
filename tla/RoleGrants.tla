----------------------------- MODULE RoleGrants -----------------------------
(***************************************************************************)
(* The role of a user and the grants that give it a reach                  *)
(* (features/access/roleGrants.ts, features/audit/auth).  An editor has    *)
(* grants and nobody else does.  Grants are made and deleted in            *)
(* transactions that lock the user and change its role with them.  The     *)
(* auth library writes a role on its own: a hook before it remembers the   *)
(* user, and a hook after it brings the grants in line, in a transaction   *)
(* that may fail and is not tried again.                                   *)
(***************************************************************************)
EXTENDS Naturals, FiniteSets

CONSTANTS
  Requests,     \* requests that set the role
  Kinds,        \* countries, each with the role of an editor or a maintainer in it
  Legacy,       \* the editor of LEGACY_COUNTRY_CODE
  MaxGrants, MaxFailures

GrantsAssumption == Legacy \in Kinds /\ MaxGrants \in Nat /\ MaxFailures \in Nat

Roles == {"user", "editor", "admin"}

VARIABLES
  role, grants,   \* of the user; a grant has its id and kind
  nextId,
  req,            \* what a request has remembered of the user
  failures,
  given           \* the grants that were made and not taken away since

vars == <<role, grants, nextId, req, failures, given>>

Idle == [at |-> "idle", role |-> "user", ids |-> {}]
Ids == 1 .. MaxGrants

\* A kind is granted once (role_grants has a unique key on it).
TypeOK ==
  /\ role \in Roles
  /\ grants \subseteq [id : Ids, kind : Kinds]
  /\ \A g, h \in grants : g.kind = h.kind => g = h
  /\ nextId \in 1 .. MaxGrants + 1
  /\ req \in [Requests -> [at : {"idle", "remembered", "written"}, role : Roles, ids : SUBSET Ids]]
  /\ failures \in 0 .. MaxFailures
  /\ given \subseteq Ids

Init ==
  /\ role = "user" /\ grants = {} /\ nextId = 1
  /\ req = [r \in Requests |-> Idle]
  /\ failures = 0 /\ given = {}

IdsOf(gs) == {g.id : g \in gs}

-----------------------------------------------------------------------------
(* The routes of grants.                                                   *)

\* Whoever becomes an editor starts without what was left from before.
KeptByCreate == IF role = "editor" THEN grants ELSE {}

\* Whether the grant is refused as one that the user has.
IsNew(k) == \A g \in KeptByCreate : g.kind # k

createRoleGrant(k) ==
  /\ role # "admin" /\ nextId <= MaxGrants
  /\ IsNew(k)
  /\ grants' = KeptByCreate \union {[id |-> nextId, kind |-> k]}
  /\ role' = "editor"
  /\ nextId' = nextId + 1
  /\ given' = (given \intersect IdsOf(grants')) \union {nextId}
  /\ UNCHANGED <<req, failures>>

RoleAfterDelete(left) == IF left = {} /\ role = "editor" THEN "user" ELSE role

deleteRoleGrant(g) ==
  /\ g \in grants
  /\ grants' = grants \ {g}
  /\ role' = RoleAfterDelete(grants \ {g})
  /\ given' = given \ {g.id}
  /\ UNCHANGED <<nextId, req, failures>>

-----------------------------------------------------------------------------
(* A request of the auth library.                                          *)

rememberAdministeredUser(r) ==
  /\ req[r].at = "idle"
  /\ req' = [req EXCEPT ![r] = [at |-> "remembered", role |-> role, ids |-> IdsOf(grants)]]
  /\ UNCHANGED <<role, grants, nextId, failures, given>>

\* The library writes the role, in a statement of its own.
SetRole(r, to) ==
  /\ req[r].at = "remembered"
  /\ role' = to
  /\ req' = [req EXCEPT ![r].at = "written"]
  /\ given' = IF to = "editor" THEN given ELSE {}
  /\ UNCHANGED <<grants, nextId, failures>>

\* Mutant: a promotion removes every grant that it finds.
StaleAll(r) == IF req[r].role = "editor" THEN {} ELSE grants

\* The grants that a request which made somebody an editor found before.
StaleOf(r) == IF req[r].role = "editor" THEN {} ELSE {g \in grants : g.id \in req[r].ids}

Ends(r) ==
  /\ req' = [req EXCEPT ![r] = Idle]

syncGrantsWithRole(r) ==
  /\ req[r].at = "written"
  /\ IF role # "editor"
     THEN /\ grants' = {}
          /\ UNCHANGED nextId
     ELSE LET left == grants \ StaleOf(r)
          IN IF left # {}
             THEN grants' = left /\ UNCHANGED nextId
             ELSE /\ nextId <= MaxGrants
                  /\ grants' = {[id |-> nextId, kind |-> Legacy]}
                  /\ nextId' = nextId + 1
  /\ Ends(r)
  /\ UNCHANGED <<role, failures, given>>

\* The transaction fails, or the process ends before it: the error is logged.
SyncFails(r) ==
  /\ req[r].at = "written" /\ failures < MaxFailures
  /\ failures' = failures + 1
  /\ Ends(r)
  /\ UNCHANGED <<role, grants, nextId, given>>

\* The request is refused before it writes.
Refused(r) ==
  /\ req[r].at = "remembered"
  /\ req' = [req EXCEPT ![r] = Idle]
  /\ UNCHANGED <<role, grants, nextId, failures, given>>

Next ==
  \/ \E k \in Kinds : createRoleGrant(k)
  \/ \E g \in grants : deleteRoleGrant(g)
  \/ \E r \in Requests :
       \/ rememberAdministeredUser(r)
       \/ \E to \in Roles : SetRole(r, to)
       \/ syncGrantsWithRole(r)
       \/ SyncFails(r)
       \/ Refused(r)

Spec == Init /\ [][Next]_vars

-----------------------------------------------------------------------------

AtRest == \A r \in Requests : req[r].at # "written"

\* Between requests the grants fit the role, if every request has brought them
\* in line: an editor has a grant, and nobody else does, in whatever order roles
\* and grants were changed.  No request takes a grant away that was made for
\* somebody who has been an editor since: only a deletion and another role do.
GrantsFitRole ==
  /\ TypeOK
  /\ AtRest /\ failures = 0 => (role = "editor" <=> grants # {})
  /\ role = "editor" => given \subseteq IdsOf(grants)

=============================================================================
