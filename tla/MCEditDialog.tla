---------------------------- MODULE MCEditDialog ----------------------------
(* EditDialog with all dialogs of the client, and which of them are the     *)
(* exceptions of its properties.                                            *)
EXTENDS EditDialog, DialogTable

Named(P(_)) == {d.name : d \in {x \in AllDialogs : P(x)}}

ASSUME Named(LAMBDA d : ~d.guardsSave) =
    {"OrganizationTypeModal", "ProjectRelationshipTypeModal", "ClassificationModal",
     "ProjectTypeModal", "BulkAssignForestersModal", "EditCrosswalkValuesModal",
     "TagSelectedProjectsModal", "ProjectClassificationEditor"}

ASSUME Named(LAMBDA d : d.partial = "reports") =
    {"FundSourceEditModal", "FundSourceAllocationEditModal", "InvoiceModal"}

ASSUME Named(LAMBDA d : d.data \in {"lenient", "eager"}) =
    {"EditFeaturedProjectsModal", "ProjectOrganizationEditor", "ProjectMapExtentEditor",
     "ProjectGeographicAreaEditor",
     "EditPersonModal", "DNRUplandRegionContactModal", "ProjectClassificationEditor",
     "ProjectFundingEditor", "ProjectLocationDetailedEditor"}

ASSUME Named(LAMBDA d : \E p \in d.create \cup d.edit : \E s \in 1..Len(p) : p[s] = "several") =
    {"FundSourceEditModal", "FundSourceAllocationEditModal", "ProgramModal",
     "FundSourceFileModal", "FundSourceAllocationFileModal",
     "PriorityLandscapeFileModal", "InteractionEventFileModal"}

ASSUME Named(LAMBDA d : d.creates) = {"ProjectTagEditor"}
=============================================================================
