------------------------ MODULE ClaimsRegistry_proofs ------------------------
(***************************************************************************)
(* What holds of the registry contract for every set of accounts, permits  *)
(* and scores and whatever the bounds of the model.                        *)
(***************************************************************************)
EXTENDS ClaimsRegistry, FiniteSetTheorems, SequenceTheorems, TLAPS

\* Every action of the contract, under its own name: the case split that the
\* step lemmas share.
LEMMA NextCases ==
  ASSUME Next, NEW P,
         \A s \in Accounts, b \in BOOLEAN : SetSubmitter(s, b) => P,
         \A role \in ScopedRoles, a, insurer \in Accounts :
           AddScope(role, a, insurer) => P,
         \A role \in ScopedRoles, a, insurer \in Accounts :
           RemoveScope(role, a, insurer) => P,
         \A role \in Roles, a \in Accounts : RenounceRole(role, a) => P,
         \A a \in Accounts \cup {NoAccount} : BeginDefaultAdminTransfer(a) => P,
         CancelDefaultAdminTransfer => P,
         SchedulePasses => P,
         \A a \in Accounts : AcceptDefaultAdminTransfer(a) => P,
         RenounceAdmin => P,
         \A s \in Accounts : SubmitClaim(s) => P,
         \A insurer, signer \in Accounts, permit \in PermitIds :
           SubmitClaimWithPermit(insurer, permit, signer) => P,
         \A assessor \in Accounts, c \in DOMAIN claims,
            status \in Anchors!Statuses, score \in Scores :
           AssessClaim(assessor, c, status, score) => P,
         \A permit \in PermitIds : PermitExpires(permit) => P
  PROVE  P
BY DEF Next, Governance, Claims

-----------------------------------------------------------------------------
(* Types *)

LEMMA TypeInit == Init => TypeOK
<1> SUFFICES ASSUME Init PROVE TypeOK
  OBVIOUS
<1> PICK a, s, p, r \in Accounts : Deployed(a, s, p, r)
  BY DEF Init
<1>1. members \in [Roles -> SUBSET Accounts]
  BY DEF Deployed, Roles, ScopedRoles
<1>2. scopes \in [ScopedRoles -> SUBSET (Accounts \X Accounts)]
  BY DEF Deployed, ScopedRoles
<1>3. scopeCount \in [ScopedRoles -> [Accounts -> Nat]]
  BY DEF Deployed, ScopedRoles
<1>4. claims \in Seq(Anchors!Claim)
  BY DEF Deployed
<1> QED
  BY <1>1, <1>2, <1>3, <1>4, RegistryAssumption
  DEF TypeOK, NotPending, Deployed

\* A grant or a revocation of a role keeps the role sets well typed.
LEMMA RolesTyped ==
  ASSUME TypeOK, NEW role \in Roles, NEW a \in Accounts,
         \/ GrantRole(role, a)
         \/ RevokeRole(role, a)
         \/ UNCHANGED members
  PROVE  members' \in [Roles -> SUBSET Accounts]
<1>1. members \in [Roles -> SUBSET Accounts]
  BY DEF TypeOK
<1>2. CASE GrantRole(role, a)
  BY <1>1, <1>2 DEF GrantRole
<1>3. CASE RevokeRole(role, a)
  BY <1>1, <1>3 DEF RevokeRole
<1>4. CASE UNCHANGED members
  BY <1>1, <1>4
<1> QED
  BY <1>2, <1>3, <1>4

\* A new claim is appended well typed.
LEMMA RecordTyped ==
  ASSUME TypeOK, NEW insurer \in Accounts,
         NEW permit \in PermitIds \cup {NoPermit},
         RecordClaim(insurer, permit)
  PROVE  claims' \in Seq(Anchors!Claim)
<1>1. Anchors!Fresh(insurer, permit) \in Anchors!Claim
  BY DEF Anchors!Fresh, Anchors!Claim, Anchors!Statuses
<1> QED
  BY <1>1 DEF RecordClaim, TypeOK

\* The scopes of one account as a set, after a scope is added or removed.
ScopesFinite ==
  \A role \in ScopedRoles, a \in Accounts : IsFiniteSet(ScopesOf(role, a))

\* ScopesCounted is what keeps the counters from underflowing.
Inv == TypeOK /\ ScopesFinite /\ ScopesCounted

LEMMA TypeStep == Inv /\ [Next]_vars => TypeOK'
<1> SUFFICES ASSUME Inv, [Next]_vars PROVE TypeOK'
  OBVIOUS
<1>0. TypeOK
  BY DEF Inv
<1>1. CASE UNCHANGED vars
  BY <1>0, <1>1 DEF TypeOK, vars, roleVars, handover, claimVars
<1>2. CASE Next
  <2>1. ASSUME NEW s \in Accounts, NEW b \in BOOLEAN, SetSubmitter(s, b)
        PROVE  TypeOK'
    <3>1. members' \in [Roles -> SUBSET Accounts]
      BY <1>0, <2>1, RolesTyped DEF SetSubmitter, Roles
    <3> QED
      BY <1>0, <2>1, <3>1 DEF TypeOK, SetSubmitter, handover, claimVars
  <2>2. ASSUME NEW role \in ScopedRoles, NEW a \in Accounts,
               NEW insurer \in Accounts, AddScope(role, a, insurer)
        PROVE  TypeOK'
    <3>1. members' \in [Roles -> SUBSET Accounts]
      BY <1>0, <2>2, RolesTyped DEF AddScope, Roles
    <3>2. scopeCount' \in [ScopedRoles -> [Accounts -> Nat]]
      BY <1>0, <2>2 DEF TypeOK, AddScope
    <3>3. scopes' \in [ScopedRoles -> SUBSET (Accounts \X Accounts)]
      BY <1>0, <2>2 DEF TypeOK, AddScope
    <3> QED
      BY <1>0, <2>2, <3>1, <3>2, <3>3 DEF TypeOK, AddScope, handover, claimVars
  <2>3. ASSUME NEW role \in ScopedRoles, NEW a \in Accounts,
               NEW insurer \in Accounts, RemoveScope(role, a, insurer)
        PROVE  TypeOK'
    <3>1. members' \in [Roles -> SUBSET Accounts]
      BY <1>0, <2>3, RolesTyped DEF RemoveScope, Roles
    <3>2. insurer \in ScopesOf(role, a)
      BY <2>3 DEF RemoveScope, ScopesOf
    <3>3. scopeCount[role][a] \in Nat \ {0}
      BY <3>2, FS_EmptySet, FS_CardinalityType
      DEF Inv, TypeOK, ScopesFinite, ScopesCounted
    <3>4. scopeCount' \in [ScopedRoles -> [Accounts -> Nat]]
      BY <1>0, <2>3, <3>3 DEF TypeOK, RemoveScope
    <3>5. scopes' \in [ScopedRoles -> SUBSET (Accounts \X Accounts)]
      BY <1>0, <2>3 DEF TypeOK, RemoveScope
    <3> QED
      BY <1>0, <2>3, <3>1, <3>4, <3>5
      DEF TypeOK, RemoveScope, handover, claimVars
  <2>4. ASSUME NEW role \in Roles, NEW a \in Accounts, RenounceRole(role, a)
        PROVE  TypeOK'
    <3>1. members' \in [Roles -> SUBSET Accounts]
      BY <1>0, <2>4, RolesTyped DEF RenounceRole
    <3> QED
      BY <1>0, <2>4, <3>1 DEF TypeOK, RenounceRole, handover, claimVars
  <2>5. ASSUME NEW a \in Accounts \cup {NoAccount},
               BeginDefaultAdminTransfer(a)
        PROVE  TypeOK'
    BY <1>0, <2>5, RegistryAssumption
    DEF TypeOK, BeginDefaultAdminTransfer, claimVars
  <2>6. CancelDefaultAdminTransfer => TypeOK'
    BY <1>0 DEF TypeOK, CancelDefaultAdminTransfer, NotPending, claimVars
  <2>7. SchedulePasses => TypeOK'
    BY <1>0 DEF TypeOK, SchedulePasses, claimVars
  <2>8. ASSUME NEW a \in Accounts, AcceptDefaultAdminTransfer(a)
        PROVE  TypeOK'
    BY <1>0, <2>8 DEF TypeOK, AcceptDefaultAdminTransfer, NotPending, claimVars
  <2>9. RenounceAdmin => TypeOK'
    BY <1>0 DEF TypeOK, RenounceAdmin, NotPending, claimVars
  <2>10. ASSUME NEW s \in Accounts, SubmitClaim(s)
         PROVE  TypeOK'
    <3>1. claims' \in Seq(Anchors!Claim)
      BY <1>0, <2>10, RecordTyped DEF SubmitClaim
    <3> QED
      BY <1>0, <2>10, <3>1 DEF TypeOK, SubmitClaim, roleVars, handover
  <2>11. ASSUME NEW insurer \in Accounts, NEW signer \in Accounts,
                NEW permit \in PermitIds,
                SubmitClaimWithPermit(insurer, permit, signer)
         PROVE  TypeOK'
    <3>1. claims' \in Seq(Anchors!Claim)
      BY <1>0, <2>11, RecordTyped DEF SubmitClaimWithPermit
    <3> QED
      BY <1>0, <2>11, <3>1 DEF TypeOK, SubmitClaimWithPermit, roleVars, handover
  <2>12. ASSUME NEW assessor \in Accounts, NEW c \in DOMAIN claims,
                NEW status \in Anchors!Statuses, NEW score \in Scores,
                AssessClaim(assessor, c, status, score)
         PROVE  TypeOK'
    <3> DEFINE assessed == [claims[c] EXCEPT !.status = status, !.score = score]
    <3>1. c \in 1..Len(claims) /\ claims[c] \in Anchors!Claim
      BY <1>0 DEF TypeOK
    <3>2. assessed \in Anchors!Claim
      BY <3>1 DEF Anchors!Claim
    <3>3. claims' = [claims EXCEPT ![c] = assessed]
      BY <2>12 DEF AssessClaim
    <3>4. claims' \in Seq(Anchors!Claim)
      BY <1>0, <3>1, <3>2, <3>3, ExceptSeq DEF TypeOK
    <3> QED
      BY <1>0, <2>12, <3>4 DEF TypeOK, AssessClaim, roleVars, handover
  <2>13. ASSUME NEW permit \in PermitIds, PermitExpires(permit)
         PROVE  TypeOK'
    BY <1>0, <2>13 DEF TypeOK, PermitExpires, roleVars, handover, claimVars
  <2> QED
    BY <1>2, <2>1, <2>2, <2>3, <2>4, <2>5, <2>6, <2>7, <2>8, <2>9, <2>10,
       <2>11, <2>12, <2>13, NextCases
<1> QED
  BY <1>1, <1>2

-----------------------------------------------------------------------------
(* Scope counters *)

LEMMA CountsInit == Init => ScopesFinite /\ ScopesCounted
<1> SUFFICES ASSUME NEW a \in Accounts, NEW s \in Accounts, NEW p \in Accounts,
                    NEW r \in Accounts, Deployed(a, s, p, r),
                    NEW role \in ScopedRoles, NEW b \in Accounts
             PROVE  /\ IsFiniteSet(ScopesOf(role, b))
                    /\ scopeCount[role][b] = Cardinality(ScopesOf(role, b))
                    /\ b \in members[role] => ScopesOf(role, b) # {}
  BY DEF Init, ScopesFinite, ScopesCounted
<1> DEFINE holder == IF role = "issuer" THEN p ELSE r
<1>1. /\ scopes[role] = {<<holder, s>>}
      /\ scopeCount[role][b] = IF b = holder THEN 1 ELSE 0
      /\ members[role] = {holder}
  BY DEF Deployed, ScopedRoles
<1>2. ScopesOf(role, b) = IF b = holder THEN {s} ELSE {}
  <2> HIDE DEF holder
  <2> QED
    BY <1>1 DEF ScopesOf
<1>3. IsFiniteSet({}) /\ Cardinality({}) = 0
  BY FS_EmptySet
<1>4. IsFiniteSet({s}) /\ Cardinality({s}) = 1
  BY FS_Singleton
<1> HIDE DEF holder
<1>5. CASE b = holder
  <2>1. ScopesOf(role, b) = {s} /\ scopeCount[role][b] = 1
    BY <1>1, <1>2, <1>5
  <2> QED
    BY <2>1, <1>4
<1>6. CASE b # holder
  <2>1. ScopesOf(role, b) = {} /\ scopeCount[role][b] = 0 /\ b \notin members[role]
    BY <1>1, <1>2, <1>6
  <2> QED
    BY <2>1, <1>3
<1> QED
  BY <1>5, <1>6

\* Counters and roles survive whatever leaves scopes alone and grants no
\* scoped role.
LEMMA CountsFrame ==
  ASSUME ScopesFinite, ScopesCounted, UNCHANGED <<scopes, scopeCount>>,
         \A role \in ScopedRoles : members'[role] \subseteq members[role]
  PROVE  ScopesFinite' /\ ScopesCounted'
BY DEF ScopesFinite, ScopesCounted, ScopesOf

LEMMA CountsStep == Inv /\ [Next]_vars => ScopesFinite' /\ ScopesCounted'
<1> SUFFICES ASSUME Inv, [Next]_vars PROVE ScopesFinite' /\ ScopesCounted'
  OBVIOUS
<1> USE DEF Inv
<1>1. CASE UNCHANGED vars
  BY <1>1, CountsFrame DEF vars, roleVars
<1>2. CASE Next
  <2>1. ASSUME NEW s \in Accounts, NEW b \in BOOLEAN, SetSubmitter(s, b)
        PROVE  ScopesFinite' /\ ScopesCounted'
    <3>1. \A role \in ScopedRoles : members'[role] = members[role]
      BY <2>1 DEF SetSubmitter, GrantRole, RevokeRole, TypeOK, ScopedRoles, Roles
    <3> QED
      BY <2>1, <3>1, CountsFrame DEF SetSubmitter
  <2>2. ASSUME NEW role \in ScopedRoles, NEW a \in Accounts,
               NEW insurer \in Accounts, AddScope(role, a, insurer)
        PROVE  ScopesFinite' /\ ScopesCounted'
    <3>1. /\ insurer \notin ScopesOf(role, a)
          /\ ScopesOf(role, a)' = ScopesOf(role, a) \cup {insurer}
      BY <2>2 DEF AddScope, ScopesOf, TypeOK
    <3>2. ASSUME NEW q \in ScopedRoles, NEW b \in Accounts, q # role \/ b # a
          PROVE  /\ ScopesOf(q, b)' = ScopesOf(q, b)
                 /\ scopeCount'[q][b] = scopeCount[q][b]
                 /\ b \in members'[q] => b \in members[q]
      BY <2>2, <3>2 DEF AddScope, GrantRole, ScopesOf, TypeOK, Roles
    <3>3. scopeCount'[role][a] = scopeCount[role][a] + 1
      BY <2>2 DEF AddScope, TypeOK
    <3>4. /\ IsFiniteSet(ScopesOf(role, a)')
          /\ scopeCount'[role][a] = Cardinality(ScopesOf(role, a)')
          /\ ScopesOf(role, a)' # {}
      BY <3>1, <3>3, FS_AddElement DEF ScopesFinite, ScopesCounted
    <3> QED
      BY <3>2, <3>4 DEF ScopesFinite, ScopesCounted
  <2>3. ASSUME NEW role \in ScopedRoles, NEW a \in Accounts,
               NEW insurer \in Accounts, RemoveScope(role, a, insurer)
        PROVE  ScopesFinite' /\ ScopesCounted'
    <3>1. /\ insurer \in ScopesOf(role, a)
          /\ ScopesOf(role, a)' = ScopesOf(role, a) \ {insurer}
      BY <2>3 DEF RemoveScope, ScopesOf, TypeOK
    <3>2. ASSUME NEW q \in ScopedRoles, NEW b \in Accounts, q # role \/ b # a
          PROVE  /\ ScopesOf(q, b)' = ScopesOf(q, b)
                 /\ scopeCount'[q][b] = scopeCount[q][b]
                 /\ b \in members'[q] => b \in members[q]
      BY <2>3, <3>2 DEF RemoveScope, RevokeRole, ScopesOf, TypeOK, Roles
    <3>3. /\ scopeCount'[role][a] = scopeCount[role][a] - 1
          /\ scopeCount[role][a] = 1 => a \notin members'[role]
      BY <2>3 DEF RemoveScope, RevokeRole, TypeOK, Roles
    <3>4. /\ IsFiniteSet(ScopesOf(role, a)')
          /\ scopeCount'[role][a] = Cardinality(ScopesOf(role, a)')
      BY <3>1, <3>3, FS_RemoveElement DEF ScopesFinite, ScopesCounted
    <3>5. a \in members'[role] => ScopesOf(role, a)' # {}
      <4> SUFFICES ASSUME ScopesOf(role, a)' = {}
                   PROVE  a \notin members'[role]
        OBVIOUS
      <4>1. scopeCount'[role][a] = 0
        BY <3>4, FS_EmptySet
      <4>2. scopeCount[role][a] \in Nat
        BY DEF TypeOK
      <4> QED
        BY <3>3, <4>1, <4>2
    <3> QED
      BY <3>2, <3>4, <3>5 DEF ScopesFinite, ScopesCounted
  <2>4. ASSUME NEW role \in Roles, NEW a \in Accounts, RenounceRole(role, a)
        PROVE  ScopesFinite' /\ ScopesCounted'
    <3>1. \A q \in ScopedRoles : members'[q] \subseteq members[q]
      BY <2>4 DEF RenounceRole, RevokeRole, TypeOK, Roles
    <3> QED
      BY <2>4, <3>1, CountsFrame DEF RenounceRole
  <2>5. ASSUME UNCHANGED <<members, scopes, scopeCount>>
        PROVE  ScopesFinite' /\ ScopesCounted'
    BY <2>5, CountsFrame
  <2> QED
    BY <1>2, <2>1, <2>2, <2>3, <2>4, <2>5, NextCases
    DEF BeginDefaultAdminTransfer, CancelDefaultAdminTransfer, SchedulePasses,
        AcceptDefaultAdminTransfer, RenounceAdmin, SubmitClaim,
        SubmitClaimWithPermit, AssessClaim, PermitExpires, roleVars
<1> QED
  BY <1>1, <1>2

LEMMA InvInductive == Spec => []Inv
<1>1. Init => Inv
  BY TypeInit, CountsInit DEF Inv
<1>2. Inv /\ [Next]_vars => Inv'
  BY TypeStep, CountsStep DEF Inv
<1> QED
  BY <1>1, <1>2, PTL DEF Spec

\* Type correctness of the contract's storage.
THEOREM TypeCorrect == Spec => []TypeOK
BY InvInductive, PTL DEF Inv

\* The scope counters of setPermitIssuer and setAssessor never drift from the
\* scope mappings, so their decrement never underflows and the last removal
\* withdraws the role.
THEOREM CountersAgree == Spec => []ScopesCounted
BY InvInductive, PTL DEF Inv

-----------------------------------------------------------------------------
(* Separation of duties *)

LEMMA SeparationInit == Init => RoleSeparation
<1> SUFFICES ASSUME NEW a \in Accounts, NEW s \in Accounts, NEW p \in Accounts,
                    NEW r \in Accounts, Deployed(a, s, p, r)
             PROVE  RoleSeparation
  BY DEF Init
<1> QED
  BY DEF Deployed, RoleSeparation, Roles, ScopedRoles

LEMMA SeparationStep ==
  TypeOK /\ RoleSeparation /\ [Next]_vars => RoleSeparation'
<1> SUFFICES ASSUME TypeOK, RoleSeparation, [Next]_vars PROVE RoleSeparation'
  OBVIOUS
\* Withdrawing roles and leaving the administrator alone is harmless.
<1>0. ASSUME admin' = admin,
             \A role \in Roles : members'[role] \subseteq members[role]
      PROVE  RoleSeparation'
  BY <1>0 DEF RoleSeparation
\* So is granting one role to an account that has no other duty.
<1>1. ASSUME NEW role \in Roles, NEW a \in Accounts, admin' = admin,
             Separate(a, role), GrantRole(role, a)
      PROVE  RoleSeparation'
  <2>1. \A q \in Roles :
          members'[q] = IF q = role THEN members[q] \cup {a} ELSE members[q]
    BY <1>1 DEF GrantRole, TypeOK
  <2>2. \A q \in Roles : admin' \notin members'[q]
    BY <1>1, <2>1 DEF RoleSeparation, Separate
  <2>3. ASSUME NEW q \in Roles, NEW t \in Roles, q # t
        PROVE  members'[q] \cap members'[t] = {}
    <3>1. members[q] \cap members[t] = {}
      BY <2>3 DEF RoleSeparation
    <3>2. CASE q = role
      BY <1>1, <2>1, <2>3, <3>1, <3>2 DEF Separate
    <3>3. CASE t = role
      BY <1>1, <2>1, <2>3, <3>1, <3>3 DEF Separate
    <3>4. CASE q # role /\ t # role
      BY <2>1, <3>1, <3>4
    <3> QED
      BY <3>2, <3>3, <3>4
  <2> QED
    BY <2>2, <2>3 DEF RoleSeparation
<1>2. CASE UNCHANGED vars
  BY <1>0, <1>2 DEF vars, roleVars, handover
<1>3. CASE Next
  <2>1. ASSUME NEW s \in Accounts, NEW b \in BOOLEAN, SetSubmitter(s, b)
        PROVE  RoleSeparation'
    <3>1. CASE b
      <4>1. /\ admin' = admin
            /\ Separate(s, "submitter")
            /\ GrantRole("submitter", s)
        BY <2>1, <3>1 DEF SetSubmitter, handover
      <4>2. "submitter" \in Roles
        BY DEF Roles
      <4> QED
        BY <1>1, <4>1, <4>2
    <3>2. CASE ~b
      <4>1. \A q \in Roles : members'[q] \subseteq members[q]
        BY <2>1, <3>2 DEF SetSubmitter, RevokeRole, TypeOK
      <4> QED
        BY <1>0, <2>1, <4>1 DEF SetSubmitter, handover
    <3> QED
      BY <3>1, <3>2
  <2>2. ASSUME NEW role \in ScopedRoles, NEW a \in Accounts,
               NEW insurer \in Accounts, AddScope(role, a, insurer)
        PROVE  RoleSeparation'
    <3>1. /\ admin' = admin
          /\ Separate(a, role)
          /\ GrantRole(role, a)
      BY <2>2 DEF AddScope, handover
    <3>2. role \in Roles
      BY DEF Roles
    <3> QED
      BY <1>1, <3>1, <3>2
  <2>3. ASSUME NEW role \in ScopedRoles, NEW a \in Accounts,
               NEW insurer \in Accounts, RemoveScope(role, a, insurer)
        PROVE  RoleSeparation'
    <3>1. \A q \in Roles : members'[q] \subseteq members[q]
      BY <2>3 DEF RemoveScope, RevokeRole, TypeOK
    <3> QED
      BY <1>0, <2>3, <3>1 DEF RemoveScope, handover
  <2>4. ASSUME NEW role \in Roles, NEW a \in Accounts, RenounceRole(role, a)
        PROVE  RoleSeparation'
    <3>1. \A q \in Roles : members'[q] \subseteq members[q]
      BY <2>4 DEF RenounceRole, RevokeRole, TypeOK
    <3> QED
      BY <1>0, <2>4, <3>1 DEF RenounceRole, handover
  <2>5. ASSUME NEW a \in Accounts, AcceptDefaultAdminTransfer(a)
        PROVE  RoleSeparation'
    BY <2>5 DEF AcceptDefaultAdminTransfer, HasBusinessRole, RoleSeparation
  <2>6. RenounceAdmin => RoleSeparation'
    BY RegistryAssumption DEF RenounceAdmin, RoleSeparation, TypeOK
  <2>7. ASSUME UNCHANGED <<admin, members>>
        PROVE  RoleSeparation'
    BY <1>0, <2>7
  <2> QED
    BY <1>3, <2>1, <2>2, <2>3, <2>4, <2>5, <2>6, <2>7, NextCases
    DEF BeginDefaultAdminTransfer, CancelDefaultAdminTransfer, SchedulePasses,
        SubmitClaim, SubmitClaimWithPermit, AssessClaim, PermitExpires,
        roleVars, handover
<1> QED
  BY <1>2, <1>3

\* Nobody ever holds two of the four duties, whatever the number of accounts
\* and of admin handovers.
THEOREM DutiesSeparate == Spec => []RoleSeparation
<1>1. Init => RoleSeparation
  BY SeparationInit
<1>2. TypeOK /\ RoleSeparation /\ [Next]_vars => RoleSeparation'
  BY SeparationStep
<1> QED
  BY <1>1, <1>2, TypeCorrect, PTL DEF Spec

-----------------------------------------------------------------------------
(* The anchors *)

\* The permits of recorded claims have all been marked as used.
PermitsSpent ==
  \A c \in DOMAIN claims :
    claims[c].permit = NoPermit \/ claims[c].permit \in usedPermits

LEMMA SpentInit == Init => PermitsSpent
BY DEF Init, Deployed, PermitsSpent

\* The claim list after one more claim.
LEMMA Appended ==
  ASSUME TypeOK, NEW insurer \in Accounts,
         NEW permit \in PermitIds \cup {NoPermit},
         RecordClaim(insurer, permit)
  PROVE  /\ claims' = Append(claims, Anchors!Fresh(insurer, permit))
         /\ DOMAIN claims' = DOMAIN claims \cup {Len(claims) + 1}
         /\ Len(claims) + 1 \notin DOMAIN claims
         /\ \A c \in DOMAIN claims : claims'[c] = claims[c]
         /\ claims'[Len(claims) + 1].insurer = insurer
         /\ claims'[Len(claims) + 1].permit = permit
<1>1. claims \in Seq(Anchors!Claim) /\ Len(claims) \in Nat
  BY DEF TypeOK
<1>2. Anchors!Fresh(insurer, permit) \in Anchors!Claim
  BY DEF Anchors!Fresh, Anchors!Claim, Anchors!Statuses
<1>3. claims' = Append(claims, Anchors!Fresh(insurer, permit))
  BY DEF RecordClaim
<1>4. /\ DOMAIN claims = 1..Len(claims)
      /\ DOMAIN claims' = 1..(Len(claims) + 1)
      /\ \A c \in DOMAIN claims : claims'[c] = claims[c]
      /\ claims'[Len(claims) + 1] = Anchors!Fresh(insurer, permit)
  BY <1>1, <1>2, <1>3, AppendProperties
<1> QED
  BY <1>1, <1>3, <1>4 DEF Anchors!Fresh

\* The claim list after an assessment.
LEMMA Assessed ==
  ASSUME TypeOK, NEW assessor, NEW c \in DOMAIN claims,
         NEW status \in Anchors!Statuses, NEW score \in Scores,
         AssessClaim(assessor, c, status, score)
  PROVE  /\ DOMAIN claims' = DOMAIN claims
         /\ \A d \in DOMAIN claims : claims'[d].permit = claims[d].permit
<1>1. claims \in Seq(Anchors!Claim)
  BY DEF TypeOK
<1>2. \A d \in DOMAIN claims : claims[d] \in Anchors!Claim
  BY <1>1
<1> QED
  BY <1>1, <1>2 DEF AssessClaim, Anchors!Claim

LEMMA SpentStep == TypeOK /\ PermitsSpent /\ [Next]_vars => PermitsSpent'
<1> SUFFICES ASSUME TypeOK, PermitsSpent, [Next]_vars PROVE PermitsSpent'
  OBVIOUS
<1>1. ASSUME UNCHANGED claimVars
      PROVE  PermitsSpent'
  BY <1>1 DEF PermitsSpent, claimVars
<1>2. ASSUME NEW s \in Accounts, SubmitClaim(s)
      PROVE  PermitsSpent'
  <2>1. RecordClaim(s, NoPermit) /\ usedPermits' = usedPermits
    BY <1>2 DEF SubmitClaim
  <2>2. /\ DOMAIN claims' = DOMAIN claims \cup {Len(claims) + 1}
        /\ \A c \in DOMAIN claims : claims'[c] = claims[c]
        /\ claims'[Len(claims) + 1].permit = NoPermit
    BY <2>1, Appended
  <2> QED
    BY <2>1, <2>2 DEF PermitsSpent
<1>3. ASSUME NEW insurer \in Accounts, NEW signer \in Accounts,
             NEW permit \in PermitIds,
             SubmitClaimWithPermit(insurer, permit, signer)
      PROVE  PermitsSpent'
  <2>1. /\ RecordClaim(insurer, permit)
        /\ usedPermits' = usedPermits \cup {permit}
    BY <1>3 DEF SubmitClaimWithPermit
  <2>2. /\ DOMAIN claims' = DOMAIN claims \cup {Len(claims) + 1}
        /\ \A c \in DOMAIN claims : claims'[c] = claims[c]
        /\ claims'[Len(claims) + 1].permit = permit
    BY <2>1, Appended
  <2> QED
    BY <2>1, <2>2 DEF PermitsSpent
<1>4. ASSUME NEW assessor \in Accounts, NEW c \in DOMAIN claims,
             NEW status \in Anchors!Statuses, NEW score \in Scores,
             AssessClaim(assessor, c, status, score)
      PROVE  PermitsSpent'
  <2>1. /\ DOMAIN claims' = DOMAIN claims
        /\ \A d \in DOMAIN claims : claims'[d].permit = claims[d].permit
    BY <1>4, Assessed
  <2> QED
    BY <1>4, <2>1 DEF AssessClaim, PermitsSpent
<1>5. CASE UNCHANGED vars
  BY <1>1, <1>5 DEF vars
<1>6. CASE Next
  BY <1>1, <1>2, <1>3, <1>4, <1>6, NextCases
  DEF SetSubmitter, AddScope, RemoveScope, RenounceRole,
      BeginDefaultAdminTransfer, CancelDefaultAdminTransfer, SchedulePasses,
      AcceptDefaultAdminTransfer, RenounceAdmin, PermitExpires
<1> QED
  BY <1>5, <1>6

LEMMA AnchorsStep ==
  TypeOK /\ PermitsSpent /\ [Next]_vars => [Anchors!Next]_claims
<1> SUFFICES ASSUME TypeOK, PermitsSpent, [Next]_vars
             PROVE  Anchors!Next \/ UNCHANGED claims
  OBVIOUS
<1>1. ASSUME NEW s \in Accounts, SubmitClaim(s)
      PROVE  Anchors!Next
  <2>1. Anchors!Anchor(s, NoPermit)
    BY <1>1, Appended DEF SubmitClaim, Anchors!Anchor
  <2> QED
    BY <2>1 DEF Anchors!Next
<1>2. ASSUME NEW insurer \in Accounts, NEW signer \in Accounts,
             NEW permit \in PermitIds,
             SubmitClaimWithPermit(insurer, permit, signer)
      PROVE  Anchors!Next
  <2>1. \A c \in DOMAIN claims : claims[c].permit # permit
    BY <1>2, RegistryAssumption DEF SubmitClaimWithPermit, PermitsSpent
  <2>2. Anchors!Anchor(insurer, permit)
    BY <1>2, <2>1, Appended DEF SubmitClaimWithPermit, Anchors!Anchor
  <2> QED
    BY <2>2 DEF Anchors!Next
<1>3. ASSUME NEW assessor \in Accounts, NEW c \in DOMAIN claims,
             NEW status \in Anchors!Statuses, NEW score \in Scores,
             AssessClaim(assessor, c, status, score)
      PROVE  Anchors!Next
  <2>1. Anchors!Assess(c, status, score)
    BY <1>3 DEF AssessClaim, Anchors!Assess
  <2> QED
    BY <2>1 DEF Anchors!Next
<1>4. CASE UNCHANGED vars
  BY <1>4 DEF vars, claimVars
<1>5. CASE Next
  BY <1>1, <1>2, <1>3, <1>5, NextCases
  DEF SetSubmitter, AddScope, RemoveScope, RenounceRole,
      BeginDefaultAdminTransfer, CancelDefaultAdminTransfer, SchedulePasses,
      AcceptDefaultAdminTransfer, RenounceAdmin, PermitExpires, claimVars
<1> QED
  BY <1>4, <1>5

\* The contract implements the append-only list of anchors its readers rely
\* on: single-use permits, immutable insurers and scores, a forward lifecycle.
THEOREM AnchorsImplemented == Spec => ImplementsAnchors
<1>1. Init => Anchors!Init
  BY DEF Init, Deployed, Anchors!Init
<1>2. Init => PermitsSpent
  BY SpentInit
<1>3. TypeOK /\ PermitsSpent /\ [Next]_vars => PermitsSpent'
  BY SpentStep
<1>4. TypeOK /\ PermitsSpent /\ [Next]_vars => [Anchors!Next]_claims
  BY AnchorsStep
<1> QED
  BY <1>1, <1>2, <1>3, <1>4, TypeCorrect, PTL
  DEF Spec, ImplementsAnchors, Anchors!Spec

\* Claims are anchored only for insurers that are submitters at that moment.
THEOREM IntakeRevoked == Spec => RevocationStopsIntake
<1> DEFINE Stops == \A c \in DOMAIN claims' \ DOMAIN claims :
                      claims'[c].insurer \in members["submitter"]
<1>1. TypeOK /\ [Next]_vars => [Stops]_vars
  <2> SUFFICES ASSUME TypeOK, [Next]_vars PROVE Stops \/ UNCHANGED vars
    OBVIOUS
  <2>1. ASSUME UNCHANGED claims PROVE Stops
    BY <2>1
  <2>2. ASSUME NEW s \in Accounts, SubmitClaim(s)
        PROVE  Stops
    <3>1. s \in members["submitter"] /\ RecordClaim(s, NoPermit)
      BY <2>2 DEF SubmitClaim
    <3>2. /\ DOMAIN claims' = DOMAIN claims \cup {Len(claims) + 1}
          /\ claims'[Len(claims) + 1].insurer = s
      BY <3>1, Appended
    <3> QED
      BY <3>1, <3>2
  <2>3. ASSUME NEW insurer \in Accounts, NEW signer \in Accounts,
               NEW permit \in PermitIds,
               SubmitClaimWithPermit(insurer, permit, signer)
        PROVE  Stops
    <3>1. insurer \in members["submitter"] /\ RecordClaim(insurer, permit)
      BY <2>3 DEF SubmitClaimWithPermit, IsPermitIssuerFor
    <3>2. /\ DOMAIN claims' = DOMAIN claims \cup {Len(claims) + 1}
          /\ claims'[Len(claims) + 1].insurer = insurer
      BY <3>1, Appended
    <3> QED
      BY <3>1, <3>2
  <2>4. ASSUME NEW assessor \in Accounts, NEW c \in DOMAIN claims,
               NEW status \in Anchors!Statuses, NEW score \in Scores,
               AssessClaim(assessor, c, status, score)
        PROVE  Stops
    BY <2>4, Assessed
  <2> HIDE DEF Stops
  <2>5. CASE Next
    BY <2>1, <2>2, <2>3, <2>4, <2>5, NextCases
    DEF SetSubmitter, AddScope, RemoveScope, RenounceRole,
        BeginDefaultAdminTransfer, CancelDefaultAdminTransfer, SchedulePasses,
        AcceptDefaultAdminTransfer, RenounceAdmin, PermitExpires, claimVars
  <2> QED
    BY <2>5
<1> QED
  BY <1>1, TypeCorrect, PTL DEF Spec, RevocationStopsIntake

=============================================================================
