---------------------------- MODULE DialogTable ----------------------------
(***************************************************************************)
(* The dialogs of the web client that save something, one row each, named  *)
(* after their components.  A row says what Save sends, with what data the *)
(* dialog opens, which buttons wait for an answer, and what a failed       *)
(* request does; EditDialog gives the rows their meaning.                  *)
(***************************************************************************)
EXTENDS Sequences

\* What Save sends: one request that stores a new record, or one that
\* writes over the record ...
Creating == {<<"create">>}
Updating == {<<"update">>}

\* ... possibly after the files the user chose, or before them.
MaybeFirst(stage, plans) == plans \cup {<<stage>> \o p : p \in plans}
ThenMaybe(plans, stage)  == plans \cup {p \o <<stage>> : p \in plans}

\* A dialog that opens with its data, disables both its buttons while it
\* saves, and stays open with an alert when a request fails.
Row(name, create, edit) ==
    [name |-> name, create |-> create, edit |-> edit,
     data |-> "given",
     guardsSave |-> TRUE, guardsCancel |-> TRUE, creates |-> FALSE,
     refused |-> "stays", partial |-> "stays"]

\* Administration.

SelectSourceOrgModal ==
    [Row("SelectSourceOrgModal", Creating, {}) EXCEPT !.guardsCancel = FALSE]
LoaUploadModal == Row("LoaUploadModal", Creating, {})
ServiceForestryUploadModal == Row("ServiceForestryUploadModal", Creating, {})
CustomPageModal == Row("CustomPageModal", Creating, Updating)
CustomPageContentModal == Row("CustomPageContentModal", {}, Updating)
PageContentModal ==
    [Row("PageContentModal", {}, Updating) EXCEPT !.data = "strict"]
FieldDefinitionEdit ==
    [Row("FieldDefinitionEdit", {}, Updating) EXCEPT !.data = "strict"]
MapLayerModal == Row("MapLayerModal", Creating, Updating)
OrganizationTypeModal ==
    [Row("OrganizationTypeModal", Creating, Updating) EXCEPT !.guardsSave = FALSE]
ProjectRelationshipTypeModal ==
    [Row("ProjectRelationshipTypeModal", Creating, Updating) EXCEPT !.guardsSave = FALSE]
HomepageImageModal == Row("HomepageImageModal", Creating, Updating)
EditFeaturedProjectsModal ==
    [Row("EditFeaturedProjectsModal", {}, Updating) EXCEPT !.data = "lenient"]
ReportTemplateModal == Row("ReportTemplateModal", Creating, Updating)
BulkAssignForestersModal ==
    [Row("BulkAssignForestersModal", {}, Updating)
        EXCEPT !.guardsSave = FALSE, !.guardsCancel = FALSE]
EditProjectUpdateConfigurationModal ==
    Row("EditProjectUpdateConfigurationModal", {}, Updating)
CustomNotificationModal == Row("CustomNotificationModal", Creating, {})
FeedbackModal == Row("FeedbackModal", Creating, {})

\* Classifications, project types, tags.

ClassificationModal ==
    [Row("ClassificationModal", MaybeFirst("file", Creating), MaybeFirst("file", Updating))
        EXCEPT !.guardsSave = FALSE]
ProjectTypeModal ==
    [Row("ProjectTypeModal", Creating, Updating) EXCEPT !.guardsSave = FALSE]
TagModal == Row("TagModal", Creating, Updating)
TagSelectedProjectsModal ==
    [Row("TagSelectedProjectsModal", {}, Updating)
        EXCEPT !.guardsSave = FALSE, !.guardsCancel = FALSE]

\* People and organizations.

AddPersonModal == Row("AddPersonModal", Creating, {})
EditPersonModal ==
    [Row("EditPersonModal", {}, Updating) EXCEPT !.data = "eager"]
PersonEditRolesModal == Row("PersonEditRolesModal", {}, Updating)
PersonEditStewardshipAreasModal == Row("PersonEditStewardshipAreasModal", {}, Updating)
PersonPrimaryContactOrgsModal == Row("PersonPrimaryContactOrgsModal", {}, Updating)
OrganizationModal ==
    [Row("OrganizationModal", ThenMaybe(Creating, "file"), ThenMaybe(Updating, "file"))
        EXCEPT !.data = "strict"]
DNRUplandRegionContactModal ==
    [Row("DNRUplandRegionContactModal", {}, Updating) EXCEPT !.data = "eager"]

\* Fund sources.

FundSourceEditModal ==
    [Row("FundSourceEditModal", ThenMaybe(Creating, "several"), Updating)
        EXCEPT !.guardsCancel = FALSE, !.partial = "reports"]
FundSourceImageModal ==
    [Row("FundSourceImageModal", Creating, Updating) EXCEPT !.guardsCancel = FALSE]
FundSourceNoteModal ==
    [Row("FundSourceNoteModal", Creating, Updating) EXCEPT !.guardsCancel = FALSE]
FundSourceFileModal ==
    [Row("FundSourceFileModal", {<<"several">>}, {}) EXCEPT !.guardsCancel = FALSE]
FundSourceFileEditModal ==
    [Row("FundSourceFileEditModal", {}, Updating) EXCEPT !.guardsCancel = FALSE]
FundSourceExternalLinkEditorModal == Row("FundSourceExternalLinkEditorModal", {}, Updating)
FundSourceAllocationEditModal ==
    [Row("FundSourceAllocationEditModal",
         Creating \cup {<<"create", "update">>, <<"create", "several">>},
         {<<"update", "update">>})
        EXCEPT !.guardsCancel = FALSE, !.partial = "reports"]
FundSourceAllocationBudgetLineItemsModal ==
    [Row("FundSourceAllocationBudgetLineItemsModal", {}, Updating)
        EXCEPT !.guardsCancel = FALSE]
FundSourceAllocationNoteModal ==
    [Row("FundSourceAllocationNoteModal", Creating, Updating) EXCEPT !.guardsCancel = FALSE]
FundSourceAllocationFileModal ==
    [Row("FundSourceAllocationFileModal", {<<"several">>}, {}) EXCEPT !.guardsCancel = FALSE]
FundSourceAllocationFileEditModal ==
    [Row("FundSourceAllocationFileEditModal", {}, Updating) EXCEPT !.guardsCancel = FALSE]
EditProgramIndexProjectCodesModal == Row("EditProgramIndexProjectCodesModal", {}, Updating)

\* Landscapes, events, invoices.

PriorityLandscapeEditModal == Row("PriorityLandscapeEditModal", {}, Updating)
PriorityLandscapeMapTextModal == Row("PriorityLandscapeMapTextModal", {}, Updating)
PriorityLandscapeFileModal ==
    [Row("PriorityLandscapeFileModal", {<<"several">>}, {}) EXCEPT !.guardsCancel = FALSE]
PriorityLandscapeFileEditModal ==
    [Row("PriorityLandscapeFileEditModal", {}, Updating) EXCEPT !.guardsCancel = FALSE]
InteractionEventModal ==
    Row("InteractionEventModal", ThenMaybe(Creating, "series"), Updating)
InteractionEventFileModal ==
    [Row("InteractionEventFileModal", {<<"several">>}, {}) EXCEPT !.guardsCancel = FALSE]
InteractionEventFileEditModal ==
    [Row("InteractionEventFileEditModal", {}, Updating) EXCEPT !.guardsCancel = FALSE]
InteractionEventLocationModal == Row("InteractionEventLocationModal", {}, Updating)
InvoiceEditModal ==
    [Row("InvoiceEditModal", {<<"create", "create">>}, Updating)
        EXCEPT !.guardsCancel = FALSE, !.data = "strict"]
InvoiceModal ==
    [Row("InvoiceModal", ThenMaybe(Creating, "file"), ThenMaybe(Updating, "file"))
        EXCEPT !.data = "strict", !.partial = "reports"]
InvoicePaymentRequestModal == Row("InvoicePaymentRequestModal", Creating, {})

\* Programs.

ProgramModal ==
    [Row("ProgramModal", MaybeFirst("several", Creating), MaybeFirst("several", Updating))
        EXCEPT !.data = "strict"]
EditProgramEditorsModal == Row("EditProgramEditorsModal", {}, Updating)
EditImportBasicsModal ==
    [Row("EditImportBasicsModal", {}, Updating) EXCEPT !.guardsCancel = FALSE]
EditDefaultMappingsModal ==
    [Row("EditDefaultMappingsModal", {}, Updating) EXCEPT !.guardsCancel = FALSE]
EditCrosswalkValuesModal ==
    [Row("EditCrosswalkValuesModal", {}, Updating)
        EXCEPT !.guardsSave = FALSE, !.guardsCancel = FALSE]
ProgramNotificationModal == Row("ProgramNotificationModal", Creating, Updating)
AddToBlockListModal == Row("AddToBlockListModal", Creating, {})
CreateBlockListEntryModal == Row("CreateBlockListEntryModal", Creating, {})

\* Projects.

ProjectBasicsEditor == Row("ProjectBasicsEditor", {}, Updating)
ProjectClassificationEditor ==
    [Row("ProjectClassificationEditor", {}, Updating)
        EXCEPT !.guardsSave = FALSE, !.data = "eager"]
ProjectContactEditor == Row("ProjectContactEditor", {}, Updating)
ProjectOrganizationEditor ==
    [Row("ProjectOrganizationEditor", {}, Updating) EXCEPT !.data = "lenient"]
ProjectFundingEditor ==
    [Row("ProjectFundingEditor", {}, Updating) EXCEPT !.data = "eager"]
ProjectTagEditor ==
    [Row("ProjectTagEditor", {}, Updating) EXCEPT !.creates = TRUE]
ProjectExternalLinkEditor == Row("ProjectExternalLinkEditor", {}, Updating)
ProjectMapExtentEditor ==
    [Row("ProjectMapExtentEditor", {}, Updating) EXCEPT !.data = "lenient"]
ProjectLocationSimpleEditor ==
    [Row("ProjectLocationSimpleEditor", {}, Updating) EXCEPT !.data = "strict"]
ProjectLocationDetailedEditor ==
    [Row("ProjectLocationDetailedEditor", {}, Updating) EXCEPT !.data = "eager"]
ProjectGeographicAreaEditor ==
    [Row("ProjectGeographicAreaEditor", {}, Updating) EXCEPT !.data = "lenient"]
ProjectDocumentModal == Row("ProjectDocumentModal", Creating, Updating)
ProjectImageModal == Row("ProjectImageModal", Creating, Updating)
ProjectNoteModal == Row("ProjectNoteModal", Creating, Updating)
TreatmentModal == Row("TreatmentModal", Creating, Updating)
UpdateTreatmentModal == Row("UpdateTreatmentModal", Creating, Updating)
BlockListModal == Row("BlockListModal", Creating, {})
AsyncConfirmModal ==
    [Row("AsyncConfirmModal", Creating, Updating) EXCEPT !.refused = "closes"]
AllDialogs ==
    {SelectSourceOrgModal, LoaUploadModal, ServiceForestryUploadModal,
     CustomPageModal, CustomPageContentModal, PageContentModal,
     FieldDefinitionEdit, MapLayerModal, OrganizationTypeModal,
     ProjectRelationshipTypeModal, HomepageImageModal,
     EditFeaturedProjectsModal, ReportTemplateModal,
     BulkAssignForestersModal, EditProjectUpdateConfigurationModal,
     CustomNotificationModal, FeedbackModal, ClassificationModal,
     ProjectTypeModal, TagModal, TagSelectedProjectsModal, AddPersonModal,
     EditPersonModal, PersonEditRolesModal, PersonEditStewardshipAreasModal,
     PersonPrimaryContactOrgsModal, OrganizationModal,
     DNRUplandRegionContactModal, FundSourceEditModal, FundSourceImageModal,
     FundSourceNoteModal, FundSourceFileModal, FundSourceFileEditModal,
     FundSourceExternalLinkEditorModal, FundSourceAllocationEditModal,
     FundSourceAllocationBudgetLineItemsModal,
     FundSourceAllocationNoteModal, FundSourceAllocationFileModal,
     FundSourceAllocationFileEditModal, EditProgramIndexProjectCodesModal,
     PriorityLandscapeEditModal, PriorityLandscapeMapTextModal,
     PriorityLandscapeFileModal, PriorityLandscapeFileEditModal,
     InteractionEventModal, InteractionEventFileModal,
     InteractionEventFileEditModal, InteractionEventLocationModal,
     InvoiceEditModal, InvoiceModal, InvoicePaymentRequestModal,
     ProgramModal, EditProgramEditorsModal, EditImportBasicsModal,
     EditDefaultMappingsModal, EditCrosswalkValuesModal,
     ProgramNotificationModal, AddToBlockListModal,
     CreateBlockListEntryModal, ProjectBasicsEditor,
     ProjectClassificationEditor, ProjectContactEditor,
     ProjectOrganizationEditor, ProjectFundingEditor, ProjectTagEditor,
     ProjectExternalLinkEditor, ProjectMapExtentEditor,
     ProjectLocationSimpleEditor, ProjectLocationDetailedEditor,
     ProjectGeographicAreaEditor, ProjectDocumentModal, ProjectImageModal,
     ProjectNoteModal, TreatmentModal, UpdateTreatmentModal, BlockListModal,
     AsyncConfirmModal}
=============================================================================
