------------------------------- MODULE Access -------------------------------
(***************************************************************************)
(* The decision on one person's access to one record, while grants come    *)
(* and go and delegations start and end (app/foundation/access.py and      *)
(* role_has_permission of permissions.py).  What the table of roles lists  *)
(* is data: `permitted` says whether the role has the permission asked     *)
(* for.  No router asks for the decision yet, so who changes the grants is *)
(* not in the code: any attribute may change at any moment.                *)
(***************************************************************************)
EXTENDS Integers

CONSTANT Times      \* the instants there are

ASSUME AccessAssumption == Times \subseteq Int

VARIABLES
    context,    \* an AccessContext and record_scope_required
    now

accessVars == <<context, now>>

Roles == {"SUPER_ADMIN", "PARTNER", "OTHER"}

Levels == {"INTERNAL", "RESTRICTED", "PARTNER_ONLY"}

\* An optional instant, as the set of it.
Optional == {{}} \cup {{t} : t \in Times}

Context ==
    [role : Roles, permitted : BOOLEAN, active : BOOLEAN, member : BOOLEAN, scoped : BOOLEAN,
     portfolio : BOOLEAN, engagement : BOOLEAN, confidential : BOOLEAN, level : Levels,
     delegated : BOOLEAN, listed : BOOLEAN, starts : Optional, ends : Optional]

\* Mutant: a delegation is effective at the very instant it ends.
DelegationOutlives(c, t) ==
    c.delegated /\ c.listed /\ (\A s \in c.starts : s <= t) /\ (\A e \in c.ends : t <= e)

\* _delegation_is_effective.
DelegationIsEffective(c, t) ==
    c.delegated /\ c.listed /\ (\A s \in c.starts : s <= t) /\ (\A e \in c.ends : t < e)

\* The reason of a refusal, or the source of the access.
Decision(c, t) ==
    IF ~c.active THEN "USER_INACTIVE"
    ELSE IF ~c.member THEN "FIRM_MEMBERSHIP_REQUIRED"
    ELSE IF ~c.permitted /\ ~DelegationIsEffective(c, t) THEN "ROLE_PERMISSION_DENIED"
    ELSE IF c.level = "PARTNER_ONLY" /\ c.role \notin {"SUPER_ADMIN", "PARTNER"} THEN "PARTNER_ONLY_RECORD"
    ELSE IF c.level = "RESTRICTED" /\ c.role # "SUPER_ADMIN" /\ ~c.confidential THEN "CONFIDENTIALITY_DENIED"
    ELSE IF c.role = "SUPER_ADMIN" \/ ~c.scoped THEN "ROLE"
    ELSE IF c.portfolio THEN "PORTFOLIO"
    ELSE IF c.engagement THEN "ENGAGEMENT"
    ELSE IF c.confidential THEN "CONFIDENTIALITY_GRANT"
    ELSE IF DelegationIsEffective(c, t) THEN "DELEGATION"
    ELSE "RECORD_SCOPE_DENIED"

Granting == {"ROLE", "PORTFOLIO", "ENGAGEMENT", "CONFIDENTIALITY_GRANT", "DELEGATION"}

MayAccess(c, t) == Decision(c, t) \in Granting

-----------------------------------------------------------------------------
\* The table of roles gives a super admin every permission.
AccessInit ==
    /\ context \in {c \in Context : c.role = "SUPER_ADMIN" => c.permitted}
    /\ now \in Times

Change == \E attribute \in {"active", "member", "portfolio", "engagement", "confidential", "delegated"} :
    /\ context' = [context EXCEPT ![attribute] = ~@]
    /\ now' = now

TimePasses == /\ now' \in {t \in Times : t > now}
              /\ context' = context

AccessNext == Change \/ TimePasses

AccessSpec == AccessInit /\ [][AccessNext]_accessVars
-----------------------------------------------------------------------------
(* Properties.                                                             *)

AccessTypeOK == context \in Context /\ now \in Times

\* "A delegation can grant only an explicitly listed permission and never
\* bypasses active-user, firm-membership or confidentiality checks": whoever
\* would be refused without the delegation holds one that lists the permission
\* and is in force, and passes the three checks on his own.
DelegationIsBounded ==
    MayAccess(context, now) /\ ~MayAccess([context EXCEPT !.delegated = FALSE], now) =>
        /\ context.listed
        /\ \A s \in context.starts : now >= s
        /\ \A e \in context.ends : now < e
        /\ context.active /\ context.member
        /\ CASE context.level = "INTERNAL" -> TRUE
             [] context.level = "RESTRICTED" -> context.role = "SUPER_ADMIN" \/ context.confidential
             [] context.level = "PARTNER_ONLY" -> context.role \in {"SUPER_ADMIN", "PARTNER"}

\* Access moves one way: a grant that is added never takes access away, one
\* that is withdrawn never gives it, and with the passing of time nobody loses
\* access but by the end of a delegation, or gains it but by the start of one.
AccessIsMonotone ==
    [][/\ (\A g \in {"active", "member", "portfolio", "engagement", "confidential", "delegated"} :
              context[g] => context'[g]) /\ now' = now
             => (MayAccess(context, now) => MayAccess(context, now)')
       /\ now' > now /\ MayAccess(context, now) /\ ~MayAccess(context, now)'
             => \E e \in context.ends : now < e /\ e <= now'
       /\ now' > now /\ ~MayAccess(context, now) /\ MayAccess(context, now)'
             => \E s \in context.starts : now < s /\ s <= now']_accessVars
=============================================================================
