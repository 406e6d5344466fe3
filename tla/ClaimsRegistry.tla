--------------------------- MODULE ClaimsRegistry ---------------------------
(***************************************************************************)
(* The ClaimsRegistry contract: roles, insurer scopes, claim permits and   *)
(* claim anchors. A transaction is one action; a transaction that reverts  *)
(* is no action. The caller of an action is what _msgSender() returns, for *)
(* a direct call and for a call through the trusted forwarder alike.       *)
(*                                                                         *)
(* Permit signatures are modelled by their signer: a permit names insurer  *)
(* and id, and ECDSA.recover yields the account that signed. The submitter *)
(* a permit is bound to, claimant, commitment, hash and pointer travel     *)
(* with the claim unchanged and are left out.                              *)
(***************************************************************************)
EXTENDS Integers, Sequences, FiniteSets

CONSTANTS
  Accounts,
  NoAccount,   \* address(0)
  PermitIds,
  NoPermit,
  Scores,
  MaxClaims,   \* claims ever anchored
  MaxScopes,   \* insurer scopes configured at any time, for each scoped role
  MaxProposals \* admin transfers ever begun

ASSUME RegistryAssumption ==
  /\ NoAccount \notin Accounts
  /\ NoPermit \notin PermitIds
  /\ Scores \subseteq 0..10000
  /\ MaxClaims \in Nat
  /\ MaxScopes \in Nat
  /\ MaxProposals \in Nat

VARIABLES
  admin,       \* defaultAdmin()
  pending,     \* pendingDefaultAdmin() and whether its schedule has passed
  proposals,   \* admin transfers begun so far
  members,     \* the accounts of each role
  scopes,      \* _permitIssuerScopes and _assessorScopes
  scopeCount,  \* _permitIssuerScopeCount and _assessorScopeCount
  claims,
  usedPermits, \* _usedClaimPermits
  expired      \* permits whose deadline lies before block.timestamp

handover  == <<admin, pending, proposals>>
roleVars  == <<handover, members, scopes, scopeCount>>
claimVars == <<claims, usedPermits>>
vars      == <<roleVars, claimVars, expired>>

ScopedRoles == {"issuer", "assessor"}

Roles == ScopedRoles \cup {"submitter"}

Anchors == INSTANCE ClaimAnchors

NotPending == [set |-> FALSE, admin |-> NoAccount, passed |-> FALSE]

TypeOK ==
  /\ admin \in Accounts \cup {NoAccount}
  /\ pending \in [set : BOOLEAN, admin : Accounts \cup {NoAccount},
                  passed : BOOLEAN]
  /\ proposals \in 0..MaxProposals
  /\ members \in [Roles -> SUBSET Accounts]
  /\ scopes \in [ScopedRoles -> SUBSET (Accounts \X Accounts)]
  /\ scopeCount \in [ScopedRoles -> [Accounts -> Nat]]
  /\ claims \in Seq(Anchors!Claim)
  /\ usedPermits \subseteq PermitIds
  /\ expired \subseteq PermitIds

\* The constructor's arguments must be four distinct accounts.
Deployed(initialAdmin, submitter, issuer, assessor) ==
  LET holder == [issuer |-> issuer, assessor |-> assessor]
  IN  /\ initialAdmin \notin {submitter, issuer, assessor}
      /\ submitter \notin {issuer, assessor}
      /\ issuer # assessor
      /\ admin = initialAdmin
      /\ pending = NotPending
      /\ proposals = 0
      /\ members = [submitter |-> {submitter}, issuer |-> {issuer},
                    assessor |-> {assessor}]
      /\ scopes = [role \in ScopedRoles |-> {<<holder[role], submitter>>}]
      /\ scopeCount = [role \in ScopedRoles |->
                         [a \in Accounts |-> IF a = holder[role] THEN 1 ELSE 0]]
      /\ claims = <<>>
      /\ usedPermits = {}
      /\ expired = {}

Init == \E a, s, p, r \in Accounts : Deployed(a, s, p, r)

-----------------------------------------------------------------------------
(* Roles and scopes *)

ScopesOf(role, a) == {i \in Accounts : <<a, i>> \in scopes[role]}

\* No role other than the one being granted, and not the administrator.
Separate(a, role) ==
  /\ a # admin
  /\ \A other \in Roles \ {role} : a \notin members[other]

GrantRole(role, a) == members' = [members EXCEPT ![role] = @ \cup {a}]

RevokeRole(role, a) == members' = [members EXCEPT ![role] = @ \ {a}]

\* setSubmitter. Scopes of a revoked insurer stay configured.
SetSubmitter(s, authorized) ==
  /\ admin # NoAccount
  /\ IF authorized
     THEN Separate(s, "submitter") /\ GrantRole("submitter", s)
     ELSE RevokeRole("submitter", s)
  /\ UNCHANGED <<handover, scopes, scopeCount, claimVars, expired>>

\* Fault: a scope that is already configured is counted again.
AddScopeTwice(role, a, insurer) ==
  /\ admin # NoAccount
  /\ insurer \in members["submitter"]
  /\ Separate(a, role)
  /\ Cardinality(scopes[role]) < MaxScopes
  /\ scopes' = [scopes EXCEPT ![role] = @ \cup {<<a, insurer>>}]
  /\ scopeCount' = [scopeCount EXCEPT ![role][a] = @ + 1]
  /\ GrantRole(role, a)
  /\ UNCHANGED <<handover, claimVars, expired>>

\* setPermitIssuer and setAssessor with authorized = true. An already
\* configured scope changes nothing, the role included.
AddScope(role, a, insurer) ==
  /\ admin # NoAccount
  /\ insurer \in members["submitter"]
  /\ Separate(a, role)
  /\ <<a, insurer>> \notin scopes[role]
  /\ Cardinality(scopes[role]) < MaxScopes
  /\ scopes' = [scopes EXCEPT ![role] = @ \cup {<<a, insurer>>}]
  /\ scopeCount' = [scopeCount EXCEPT ![role][a] = @ + 1]
  /\ GrantRole(role, a)
  /\ UNCHANGED <<handover, claimVars, expired>>

\* Fault: a scope that is not configured can be removed.
RemoveScopeUnchecked(role, a, insurer) ==
  /\ admin # NoAccount
  /\ scopes' = [scopes EXCEPT ![role] = @ \ {<<a, insurer>>}]
  /\ scopeCount' = [scopeCount EXCEPT ![role][a] = @ - 1]
  /\ IF scopeCount[role][a] = 1
     THEN RevokeRole(role, a) ELSE UNCHANGED members
  /\ UNCHANGED <<handover, claimVars, expired>>

\* The same with authorized = false: the last scope takes the role with it.
RemoveScope(role, a, insurer) ==
  /\ admin # NoAccount
  /\ <<a, insurer>> \in scopes[role]
  /\ scopes' = [scopes EXCEPT ![role] = @ \ {<<a, insurer>>}]
  /\ scopeCount' = [scopeCount EXCEPT ![role][a] = @ - 1]
  /\ IF scopeCount[role][a] = 1
     THEN RevokeRole(role, a) ELSE UNCHANGED members
  /\ UNCHANGED <<handover, claimVars, expired>>

\* AccessControl.renounceRole for a business role, which is not overridden.
RenounceRole(role, a) ==
  /\ a \in members[role]
  /\ RevokeRole(role, a)
  /\ UNCHANGED <<handover, scopes, scopeCount, claimVars, expired>>

HasBusinessRole(a) == \E role \in Roles : a \in members[role]

\* Proposing address(0) is the first step of renouncing the admin role.
BeginDefaultAdminTransfer(a) ==
  /\ admin # NoAccount
  /\ ~HasBusinessRole(a)
  /\ proposals < MaxProposals
  /\ proposals' = proposals + 1
  /\ pending' = [set |-> TRUE, admin |-> a, passed |-> FALSE]
  /\ UNCHANGED <<admin, members, scopes, scopeCount, claimVars, expired>>

CancelDefaultAdminTransfer ==
  /\ admin # NoAccount
  /\ pending' = NotPending
  /\ UNCHANGED <<admin, proposals, members, scopes, scopeCount, claimVars, expired>>

\* The admin delay may be changed on the way, so a schedule passes at any time.
SchedulePasses ==
  /\ pending.set
  /\ pending' = [pending EXCEPT !.passed = TRUE]
  /\ UNCHANGED <<admin, proposals, members, scopes, scopeCount, claimVars, expired>>

\* Fault: role separation is checked at the proposal only.
AcceptWithoutRecheck(a) ==
  /\ pending.set /\ pending.passed
  /\ a = pending.admin
  /\ admin' = a
  /\ pending' = NotPending
  /\ UNCHANGED <<proposals, members, scopes, scopeCount, claimVars, expired>>

\* The proposed account may have gained a role while the delay ran.
AcceptDefaultAdminTransfer(a) ==
  /\ pending.set /\ pending.passed
  /\ a = pending.admin
  /\ ~HasBusinessRole(a)
  /\ admin' = a
  /\ pending' = NotPending
  /\ UNCHANGED <<proposals, members, scopes, scopeCount, claimVars, expired>>

\* renounceRole(DEFAULT_ADMIN_ROLE): two steps, like a transfer to zero.
RenounceAdmin ==
  /\ admin # NoAccount
  /\ pending.set /\ pending.passed
  /\ pending.admin = NoAccount
  /\ admin' = NoAccount
  /\ pending' = NotPending
  /\ UNCHANGED <<proposals, members, scopes, scopeCount, claimVars, expired>>

Governance ==
  \/ \E s \in Accounts, b \in BOOLEAN : SetSubmitter(s, b)
  \/ \E role \in ScopedRoles, a, insurer \in Accounts :
       AddScope(role, a, insurer) \/ RemoveScope(role, a, insurer)
  \/ \E role \in Roles, a \in Accounts : RenounceRole(role, a)
  \/ \E a \in Accounts \cup {NoAccount} : BeginDefaultAdminTransfer(a)
  \/ CancelDefaultAdminTransfer
  \/ SchedulePasses
  \/ \E a \in Accounts : AcceptDefaultAdminTransfer(a)
  \/ RenounceAdmin

-----------------------------------------------------------------------------
(* Claims *)

RecordClaim(insurer, permit) ==
  /\ Len(claims) < MaxClaims
  /\ claims' = Append(claims, Anchors!Fresh(insurer, permit))

\* submitClaim: the insurer is claimant and submitter.
SubmitClaim(s) ==
  /\ s \in members["submitter"]
  /\ RecordClaim(s, NoPermit)
  /\ UNCHANGED <<roleVars, usedPermits, expired>>

\* Fault: the insurer's own authorization is not consulted.
IssuerWithoutInsurer(a, insurer) ==
  /\ a \in members["issuer"]
  /\ <<a, insurer>> \in scopes["issuer"]

IsPermitIssuerFor(a, insurer) ==
  /\ insurer \in members["submitter"]
  /\ a \in members["issuer"]
  /\ <<a, insurer>> \in scopes["issuer"]

\* Fault: the permit is not marked as used.
SubmitKeepingPermit(insurer, permit, signer) ==
  /\ permit \notin expired
  /\ permit \notin usedPermits
  /\ IsPermitIssuerFor(signer, insurer)
  /\ RecordClaim(insurer, permit)
  /\ UNCHANGED <<roleVars, usedPermits, expired>>

SubmitClaimWithPermit(insurer, permit, signer) ==
  /\ permit \notin expired
  /\ permit \notin usedPermits
  /\ IsPermitIssuerFor(signer, insurer)
  /\ usedPermits' = usedPermits \cup {permit}
  /\ RecordClaim(insurer, permit)
  /\ UNCHANGED <<roleVars, expired>>

AssessClaim(assessor, c, status, score) ==
  /\ assessor \in members["assessor"]
  /\ <<assessor, claims[c].insurer>> \in scopes["assessor"]
  /\ <<claims[c].status, status>> \in Anchors!Lifecycle
  /\ claims[c].status # "Submitted" => score = claims[c].score
  /\ claims' = [claims EXCEPT ![c].status = status, ![c].score = score]
  /\ UNCHANGED <<roleVars, usedPermits, expired>>

\* The deadline of an unused permit passes; for a used one it is moot.
PermitExpires(permit) ==
  /\ permit \notin expired \cup usedPermits
  /\ expired' = expired \cup {permit}
  /\ UNCHANGED <<roleVars, claimVars>>

Claims ==
  \/ \E s \in Accounts : SubmitClaim(s)
  \/ \E insurer, signer \in Accounts, permit \in PermitIds :
       SubmitClaimWithPermit(insurer, permit, signer)
  \/ \E assessor \in Accounts, c \in DOMAIN claims,
        status \in Anchors!Statuses, score \in Scores :
       AssessClaim(assessor, c, status, score)
  \/ \E permit \in PermitIds : PermitExpires(permit)

Next == Governance \/ Claims

Spec == Init /\ [][Next]_vars

-----------------------------------------------------------------------------
(* Safety *)

\* Whatever the order of grants, renouncements and a delayed admin handover,
\* nobody ever holds two duties: administrator, submitter, permit issuer and
\* assessor stay four disjoint groups.
RoleSeparation ==
  /\ \A role \in Roles : admin \notin members[role]
  /\ \A p, q \in Roles : p # q => members[p] \cap members[q] = {}

\* The scope counters agree with the scope mappings, so removing a scope
\* withdraws the role exactly when it was the last one; an account without a
\* scope never holds a scoped role, and renouncing may leave scopes without it.
ScopesCounted ==
  \A role \in ScopedRoles, a \in Accounts :
    /\ scopeCount[role][a] = Cardinality(ScopesOf(role, a))
    /\ a \in members[role] => ScopesOf(role, a) # {}

\* Transactions of submitters, issuers and assessors in any order leave an
\* append-only list of anchors: permits are used once, insurers and first
\* scores never change, final states are final.
ImplementsAnchors == Anchors!Spec

\* Revoking an insurer stops its intake at once: a claim is only ever
\* anchored for an insurer that is a submitter in that very block, permits
\* signed before the revocation included.
RevocationStopsIntake ==
  [][\A c \in DOMAIN claims' \ DOMAIN claims :
       claims'[c].insurer \in members["submitter"]]_vars

=============================================================================
