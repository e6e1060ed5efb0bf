------------------------------ MODULE MC_Screens ------------------------------
(***************************************************************************)
(* The pages of the platform, of a tenant and of the portal.  Each change  *)
(* is made on its page and looked for wherever its tables show.            *)
(***************************************************************************)
EXTENDS Screens

ChangesOf(p) == {<<p, c>> : c \in DOMAIN Pages[p].controls}
What(e) == Pages[e[1]].changes[e[2]]

\* Keys no page renews for another's sake: the audit trail, the figures, and
\* the lists other pages choose from.
UnrenewedKeys ==
    {Append(<<"platform-audit-logs">>, "filters"), TenantActivity, PlansMinimal, <<"platform-billing-stats">>,
     <<"platform-tenants-summary">>, <<"platform-billing-stats-summary">>, <<"platform-tenants-minimal">>,
     <<"analytics">>, <<"failed-delivery-stops">>, <<"received-purchase-orders">>}

\* Keys that one page does not renew: a detail and its list, a list and what
\* its rows are made of, and two keys for one table.  A form's new row is none
\* of which a detail is open.
UnrenewedPairs ==
    ({"plans", "subscriptions", "tenant"} \X {Append(Tenants, "filters")})
    \cup ({"tenants", "plans", "tenant"} \X {Append(Subscribers, "filters")})
    \cup ({"tenants", "plans", "subscriptions"} \X {Tenant})
    \cup {<<"tenants", Append(Accounts, "filters")>>, <<"currencies", ConfigOfSettings>>, <<"settings", Config>>,
          <<"trip", TripList>>, <<"new-trip", TripList>>, <<"quote", <<"quotes">>>>,
          <<"return", <<"purchase-returns">>>>, <<"picklist", <<"picklists">>>>, <<"receipts", <<"sales", "filters">>>>,
          <<"new-trip", Trip>>, <<"new-quote", Quote>>, <<"new-return", Return>>}

\* Where a change should show, once its page was left: under a cached key.
Client(p) == CHOOSE c \in {DOMAIN PlatformPages, DOMAIN TenantPages, DOMAIN PortalPages} : p \in c
Shown(e, p) ==
    {k \in DOMAIN Pages[p].shows :
        /\ Pages[p].shows[k] \cap What(e).writes # {} /\ (Pages[p].cached \/ p = e[1])
        /\ k \notin UnrenewedKeys /\ <<e[1], k>> \notin UnrenewedPairs}

\* Each change with another of its page, of which the user may make either
\* twice: the page it is made on, the list its form opens, and a page of the
\* same client that should show it.
TripsOf(d, e) ==
    LET own == {e[1], What(e).leaves} \ {Nowhere} IN
    UNION {{[pages |-> own \cup {p}, key |-> k, errand |-> {d, e}] : k \in Shown(e, p)} : p \in Client(e[1])}
AllTrips ==
    UNION {TripsOf(CHOOSE d \in ChangesOf(e[1]) : TRUE, e) : e \in UNION {ChangesOf(q) : q \in DOMAIN Pages}}

MCTrips == AllTrips
MCForgets == UnrenewedPairs
MCIgnored == UnrenewedKeys
=============================================================================
