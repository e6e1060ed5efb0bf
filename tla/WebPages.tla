------------------------------- MODULE WebPages -------------------------------
(***************************************************************************)
(* The pages of the web client: for each what it loads, what it changes,   *)
(* which keys of the client's cache the handler of a success invalidates   *)
(* or reloads, and which calls in progress disable a control.  A key is a  *)
(* sequence of strings, as in the source; its page, filter and search      *)
(* parameters are one string "filters", and an identifier is "id".  The    *)
(* tables a query reads are those whose columns its page can show.         *)
(***************************************************************************)
EXTENDS Sequences, TLC

Nowhere == "nowhere"

\* A call that writes tables; after its success the keys are renewed ...
Change(writes, renews) == [writes |-> writes, renews |-> renews, patches |-> {}, leaves |-> Nowhere]

\* ... and the page is left, or what was loaded is changed where it is.
ThenTo(change, page) == [change EXCEPT !.leaves = page]
Patch(change, keys) == [change EXCEPT !.patches = keys]

\* The controls of a page: those that a pending call of their own disables,
\* those that one of the group disables, and those nothing disables.
Apart(changes) == [c \in changes |-> {c}]
Together(changes) == [c \in changes |-> changes]
Always(changes) == [c \in changes |-> {}]

\* A page on the cache of react-query, and one that keeps what it loaded in
\* its own state while it is open.
Cached(shows, changes, controls) ==
    [cached |-> TRUE, shows |-> shows, changes |-> changes, controls |-> controls]
Plain(shows, changes, controls) ==
    [cached |-> FALSE, shows |-> shows, changes |-> changes, controls |-> controls]

\* A page without a change of its own.
NoChange == [c \in {} |-> Change({}, {})]
NoControl == [c \in {} |-> {}]

-----------------------------------------------------------------------------
(* The pages of the platform's administrators.                             *)

\* The keys that more than one page names.
Tenants == <<"platform-tenants">>
Plans == <<"platform-plans">>
Currencies == <<"platform-currencies">>
Rates == <<"platform-exchange-rates">>
Subscribers == <<"platform-subscriptions">>
Billed == {"tenants", "plans", "subscriptions"}

-----------------------------------------------------------------------------
(* Tenants.                                                                *)

TenantChanges ==
    [c \in {"suspend", "reactivate", "language", "update", "delete"} |-> Change({"tenants", "trail"}, {Tenants})]
    @@ "create" :> Change({"tenants", "subscriptions", "users", "trail"}, {Tenants})
    @@ "changePlan" :> Change({"tenants", "subscriptions", "trail"}, {Tenants})

\* The dialogs; "language" and "changePlan" have a menu entry and no dialog.
TenantControls == Apart({"create", "suspend", "reactivate", "update", "delete"})

TenantsPage ==
    Cached(Append(Tenants, "filters") :> Billed @@ Plans :> {"plans"} @@ Currencies :> {"currencies"},
           TenantChanges, TenantControls)

Tenant == <<"platform-tenant", "id">>
TenantActivity == <<"tenant-activity", "id">>

\* The two buttons of the head; the switch is one button.
TenantDetailControls == Apart({"intervene"}) @@ Together({"suspend", "reactivate"})

TenantDetailPage ==
    Cached(Tenant :> Billed @@ <<"tenant-invoices", "id">> :> {"invoices"} @@ TenantActivity :> {"trail"},
           [c \in {"suspend", "reactivate"} |-> Change({"tenants", "trail"}, {Tenant})]
           @@ "intervene" :> Change({"trail"}, {}),
           TenantDetailControls)

-----------------------------------------------------------------------------
(* Plans, subscriptions and money.                                         *)

PlanControls == Together({"create", "update"}) @@ Apart({"delete"})

PlansPage ==
    Cached(Plans :> {"plans"},
           [c \in {"create", "update", "delete"} |-> Change({"plans", "trail"}, {Plans})], PlanControls)

PlansMinimal == <<"platform-plans-minimal">>

\* The kill switch asks with confirm() and is disabled for what is canceled
\* already, not while its call runs.
SubscriptionControls == Apart({"forceRenewal", "override", "changePlan"}) @@ Always({"killSwitch"})

SubscriptionsPage ==
    Cached(PlansMinimal :> {"plans"} @@ Append(Subscribers, "filters") :> Billed,
           [c \in {"killSwitch", "forceRenewal", "override"} |-> Change({"subscriptions", "trail"}, {Subscribers})]
           @@ "changePlan" :> Change({"tenants", "subscriptions", "trail"}, {Subscribers}),
           SubscriptionControls)

Config == <<"platform-config">>
ConfigOfSettings == <<"platform-system-configs">>

\* A deletion has a menu entry and no dialog.
CurrencyControls == Together({"create", "update"}) @@ Apart({"rate"}) @@ Always({"setBase"})

CurrenciesPage ==
    Cached(Config :> {"config"} @@ Append(Currencies, "filters") :> {"currencies"}
           @@ Append(Rates, "filters") :> {"rates"},
           [c \in {"create", "update", "delete"} |-> Change({"currencies", "trail"}, {Currencies})]
           @@ "rate" :> Change({"rates", "trail"}, {Rates}) @@ "setBase" :> Change({"config"}, {Config}),
           CurrencyControls)

\* Invoices and activity are asked for under paths that the routes
\* ":id/invoices" and ":id/activity" of a tenant take first.
RevenuePage ==
    Cached(<<"platform-billing-stats">> :> Billed @@ <<"platform-global-invoices", "filters">> :> {}
           @@ <<"platform-billing-activity">> :> {} @@ <<"platform-revenue-trends">> :> {"invoices"},
           NoChange, NoControl)

PlatformPage ==
    Cached(<<"platform-tenants-summary">> :> Billed @@ <<"platform-billing-stats-summary">> :> Billed
           @@ <<"platform-revenue-trends-summary">> :> {"invoices"}, NoChange, NoControl)

-----------------------------------------------------------------------------
(* Operations.                                                             *)

Flags == <<"platform-feature-flags">>
FeatureControls == Apart({"create"}) @@ Always({"update", "delete"})
FeaturesPage ==
    Cached(Flags :> {"flags"}, [c \in {"create", "update", "delete"} |-> Change({"flags"}, {Flags})], FeatureControls)

SettingControls == Apart({"set"}) @@ Always({"delete"})
SettingsPage ==
    Cached(ConfigOfSettings :> {"config"}, [c \in {"set", "delete"} |-> Change({"config"}, {ConfigOfSettings})],
           SettingControls)

Keys == <<"platform-api-keys">>
KeyMetrics == <<"api-key-metrics", "id">>
KeyControls == Apart({"create"}) @@ Always({"delete"})
ApiKeysPage ==
    Cached(Keys :> {"keys"} @@ KeyMetrics :> {}, [c \in {"create", "delete"} |-> Change({"keys"}, {Keys})], KeyControls)

Tickets == <<"platform-tickets">>
SupportControls == Apart({"create"}) @@ Always({"updateStatus"})
SupportPage ==
    Cached(Append(Tickets, "filters") :> {"tickets"} @@ <<"platform-tenants-minimal">> :> {"tenants"},
           [c \in {"create", "updateStatus"} |-> Change({"tickets", "trail"}, {Tickets})], SupportControls)

Accounts == <<"platform-users">>
AccountControls == Apart({"create", "suspend", "reset"})
PlatformUsersPage ==
    Cached(Append(Accounts, "filters") :> {"users"},
           [c \in {"create", "suspend"} |-> Change({"users", "trail"}, {Accounts})]
           @@ "reset" :> Change({"trail"}, {Accounts}), AccountControls)

AuditLogsPage == Cached(<<"platform-audit-logs", "filters">> :> {"trail"}, NoChange, NoControl)
HealthPage == Cached(<<"platform-health">> :> {}, NoChange, NoControl)

PlatformPages ==
    "tenants" :> TenantsPage @@ "tenant" :> TenantDetailPage @@ "plans" :> PlansPage
    @@ "subscriptions" :> SubscriptionsPage @@ "currencies" :> CurrenciesPage @@ "revenue" :> RevenuePage
    @@ "platform" :> PlatformPage @@ "features" :> FeaturesPage @@ "settings" :> SettingsPage
    @@ "api-keys" :> ApiKeysPage @@ "support" :> SupportPage @@ "platform-users" :> PlatformUsersPage
    @@ "audit-logs" :> AuditLogsPage @@ "health" :> HealthPage

-----------------------------------------------------------------------------
(* The pages of a tenant's staff, and of a business client in the portal.  *)

PlanStatus == <<"plan-status">>

-----------------------------------------------------------------------------
(* Pages on the cache.                                                     *)

\* The checkout and the billing portal are other sites.
BillingPage ==
    Cached(PlanStatus :> {"plan", "branches", "staff"} @@ <<"billing-history">> :> {"billing"}, NoChange, NoControl)

\* What the cached plan status says of the limit only closes the dialog's
\* button; the server asks again.
BranchControls == Apart({"create"})
BranchesPage ==
    Cached(<<"branches">> :> {"branches"} @@ PlanStatus :> {"plan", "branches", "staff"},
           "create" :> Change({"branches"}, {<<"branches">>, PlanStatus}), BranchControls)

StaffControls == Apart({"create"})
StaffPage ==
    Cached(<<"users">> :> {"staff"} @@ PlanStatus :> {"plan", "branches", "staff"},
           "create" :> Change({"staff"}, {<<"users">>, PlanStatus}), StaffControls)

\* Stock of what is voided or refunded comes back as well.
SalesControls == Together({"void", "refund"})
SalesPage ==
    Cached(<<"sales", "filters">> :> {"sales"},
           [c \in {"void", "refund"} |-> Change({"sales", "stock"}, {<<"sales">>})], SalesControls)

Trip == <<"trip", "id">>
TripList == <<"logistics-trips">>
TripsPage == Cached(TripList :> {"trips"}, NoChange, NoControl)
TripControls == Together({"start", "complete", "fail"})
TripPage ==
    Cached(Trip :> {"trips", "stops"},
           [c \in {"start", "complete", "fail"} |-> Change({"trips", "stops"}, {Trip})], TripControls)
NewTripControls == Apart({"create"})
NewTripPage ==
    Cached([k \in {} |-> {}], "create" :> ThenTo(Change({"trips"}, {<<"trips">>}), "trips"), NewTripControls)
\* Flagging a stop for return changes nothing but this page.
FailedStopsPage == Cached(<<"failed-delivery-stops">> :> {"stops"}, NoChange, NoControl)

Quote == <<"quote", "id">>
QuotesPage == Cached(<<"quotes">> :> {"quotes"}, NoChange, NoControl)
QuoteControls == Together({"send", "accept", "convert"}) @@ Always({"reject"})
QuotePage ==
    Cached(Quote :> {"quotes"},
           [c \in {"send", "accept", "reject", "convert"} |-> Change({"quotes"}, {Quote})], QuoteControls)
NewQuoteControls == Apart({"create"})
NewQuotePage ==
    Cached([k \in {} |-> {}], "create" :> ThenTo(Change({"quotes"}, {<<"quotes">>}), "quotes"), NewQuoteControls)

Return == <<"purchase-return", "id">>
ReturnsPage == Cached(<<"purchase-returns">> :> {"returns"}, NoChange, NoControl)
ReturnControls == Together({"approve", "reject", "ship", "complete"})
ReturnPage ==
    Cached(Return :> {"returns"},
           [c \in {"approve", "reject", "ship", "complete"} |-> Change({"returns", "stock"}, {Return})], ReturnControls)
NewReturnControls == Apart({"create"})
NewReturnPage ==
    Cached(<<"received-purchase-orders">> :> {"orders"},
           "create" :> ThenTo(Change({"returns"}, {<<"purchase-returns">>}), "returns"), NewReturnControls)

PickList == <<"picklist", "id">>
WarehousePage == Cached(<<"picklists">> :> {"picklists"}, NoChange, NoControl)
PickListControls == "pick" :> {"start", "pick"} @@ Always({"start"})
PickListPage ==
    Cached(PickList :> {"picklists"}, [c \in {"start", "pick"} |-> Change({"picklists"}, {PickList})],
           PickListControls)

AnalyticsPage == Cached(<<"analytics">> :> {"sales", "stock"}, NoChange, NoControl)

-----------------------------------------------------------------------------
(* Pages with a state of their own: what was loaded when the page opened,  *)
(* and reloaded after each success.                                        *)

State(page) == <<"state", page>>

CustomerControls == Apart({"save"}) @@ Always({"delete"})
CustomersPage ==
    Plain(State("customers") :> {"customers"},
          [c \in {"save", "delete"} |-> Change({"customers"}, {State("customers")})],
          CustomerControls)
SupplierControls == Apart({"save"}) @@ Always({"delete"})
SuppliersPage ==
    Plain(State("suppliers") :> {"suppliers"},
          [c \in {"save", "delete"} |-> Change({"suppliers"}, {State("suppliers")})],
          SupplierControls)
TaxControls == Always({"save", "delete"})
TaxesPage ==
    Plain(State("taxes") :> {"taxes"}, [c \in {"save", "delete"} |-> Change({"taxes"}, {State("taxes")})],
          TaxControls)
InventoryControls == Apart({"adjust"})
InventoryPage ==
    Plain(State("inventory") :> {"stock"}, "adjust" :> Change({"stock"}, {State("inventory")}), InventoryControls)
ReceiptControls == Together({"void", "refund"})
ReceiptsPage ==
    Plain(State("receipts") :> {"sales"},
          [c \in {"void", "refund"} |-> Change({"sales", "stock"}, {State("receipts")})], ReceiptControls)
PurchaseOrdersPage == Plain(State("purchase-orders") :> {"orders"}, NoChange, NoControl)
PurchaseOrderPage ==
    Plain(State("purchase-order") :> {"orders"},
          "receive" :> Change({"orders", "stock"}, {State("purchase-order")}), Apart({"receive"}))
NewPurchaseOrderControls == Apart({"create"})
NewPurchaseOrderPage ==
    Plain([k \in {} |-> {}], "create" :> ThenTo(Change({"orders"}, {}), "purchase-orders"), NewPurchaseOrderControls)
InvoicesPage == Plain(State("invoices") :> {"invoices"}, NoChange, NoControl)
ReportsPage == Plain(State("reports") :> {"ledger"}, NoChange, NoControl)
DashboardPage == Plain(State("dashboard") :> {"sales", "stock"}, NoChange, NoControl)

\* The portal of the business client.
PortalPage == Plain(State("portal") :> {"orders", "invoices", "swaps"}, NoChange, NoControl)
PortalOrdersPage == Plain(State("portal-orders") :> {"orders"}, NoChange, NoControl)
PortalInventoryPage == Plain(State("portal-inventory") :> {"stock"}, NoChange, NoControl)
PortalFinancialsPage == Plain(State("portal-financials") :> {"invoices"}, NoChange, NoControl)
PortalSwapsPage ==
    Plain(State("portal-swaps") :> {"swaps"},
          [c \in {"approve", "reject"} |-> Patch(Change({"swaps"}, {}), {State("portal-swaps")})],
          Together({"approve", "reject"}))

TenantPages ==
    "billing" :> BillingPage @@ "branches" :> BranchesPage @@ "staff" :> StaffPage @@ "sales" :> SalesPage
    @@ "trips" :> TripsPage @@ "trip" :> TripPage @@ "new-trip" :> NewTripPage
    @@ "failed-stops" :> FailedStopsPage @@ "quotes" :> QuotesPage @@ "quote" :> QuotePage
    @@ "new-quote" :> NewQuotePage @@ "returns" :> ReturnsPage @@ "return" :> ReturnPage
    @@ "new-return" :> NewReturnPage @@ "warehouse" :> WarehousePage @@ "picklist" :> PickListPage
    @@ "analytics" :> AnalyticsPage @@ "customers" :> CustomersPage @@ "suppliers" :> SuppliersPage
    @@ "taxes" :> TaxesPage @@ "inventory" :> InventoryPage @@ "receipts" :> ReceiptsPage
    @@ "purchase-orders" :> PurchaseOrdersPage @@ "purchase-order" :> PurchaseOrderPage
    @@ "new-purchase-order" :> NewPurchaseOrderPage @@ "invoices" :> InvoicesPage @@ "reports" :> ReportsPage
    @@ "dashboard" :> DashboardPage
PortalPages ==
    "portal" :> PortalPage @@ "portal-orders" :> PortalOrdersPage @@ "portal-inventory" :> PortalInventoryPage
    @@ "portal-financials" :> PortalFinancialsPage @@ "portal-swaps" :> PortalSwapsPage
=============================================================================
