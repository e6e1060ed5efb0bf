------------------------------ MODULE FrontOffice ------------------------------
(***************************************************************************)
(* The components that face customers and administrators: carts and        *)
(* orders, what is done about goods that come back, the catalog of parts,  *)
(* the platform's settings, signups and the reports on the books.  They    *)
(* share the process and no row.                                           *)
(***************************************************************************)
EXTENDS Ordering, Aftercare, CatalogImport, Administration, Onboarding, AccountingReports

office == <<administration, onboarding, reporting>>
front == <<ordering, aftercare, catalog, office>>

FrontOfficeTypeOK ==
    /\ RequestsTypeOK /\ OrderingTypeOK /\ AftercareTypeOK /\ ImportTypeOK
    /\ AdministrationTypeOK /\ OnboardingTypeOK /\ ReportsTypeOK

FrontOfficeInit ==
    /\ RequestsInit /\ OrderingInit /\ AftercareInit /\ ImportInit
    /\ AdministrationInit /\ OnboardingInit /\ ReportsInit

ServeCustomer(w) ==
    /\ \/ OrderingStep(w) /\ UNCHANGED aftercare
       \/ AftercareStep(w) /\ UNCHANGED ordering
    /\ UNCHANGED <<catalog, office>>

ServePlatform(w) ==
    /\ \/ ImportStep(w) /\ UNCHANGED office
       \/ AdministrationStep(w) /\ UNCHANGED <<catalog, onboarding, reporting>>
       \/ OnboardingStep(w) /\ UNCHANGED <<catalog, administration, reporting>>
       \/ ReportsStep(w) /\ UNCHANGED <<catalog, administration, onboarding>>
    /\ UNCHANGED <<ordering, aftercare>>

FrontOfficeNext ==
    \/ \E w \in Worker : ServeCustomer(w) \/ ServePlatform(w)
    \/ \E w \in Worker, r \in todo : Send(w, r) /\ UNCHANGED front
    \/ Quiet /\ UNCHANGED <<requests, front>>

FrontOfficeSpec == FrontOfficeInit /\ [][FrontOfficeNext]_<<requests, front>>

-----------------------------------------------------------------------------
\* What the office keeps on itself, on its tenants and shows of their books is
\* whole: the audit trail tells what was done, a signup leaves all or nothing,
\* and a report's totals agree (see Administration, Onboarding and
\* AccountingReports).
OfficeIsOnRecord == AdministrationIsOnRecord /\ SignupsAreWhole /\ ReportsAgree
=============================================================================
