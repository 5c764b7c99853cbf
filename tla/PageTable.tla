----------------------------- MODULE PageTable -----------------------------
(***************************************************************************)
(* The pages of the web client whose sections are fetched again after a    *)
(* write: what the observables of each page read and which subjects they   *)
(* hear, and what its handlers write and which subjects they fire;         *)
(* PageRefresh gives the rows their meaning.  Named after the components,  *)
(* their observables, methods and subjects.                                *)
(***************************************************************************)

Page(name, sections, handlers) ==
    [name |-> name, sections |-> sections, handlers |-> handlers]

\* An observable that is fetched once, or again when a subject fires.  Its
\* error is not caught, but where a row says so.
Once(name) ==
    [name |-> name, reads |-> {name}, hears |-> {}, ends |-> TRUE, gaps |-> {}]
Section(name, subject) == [Once(name) EXCEPT !.hears = {subject}]

\* What a section does not show of its page's own handlers.
Misses(section, names) == [section EXCEPT !.gaps = names]

\* Handlers that write through a dialog, and fire when it closes with a
\* result; and handlers that send a request after a confirmation.
Dialogs(names, writes, fires) ==
    {[name |-> n, modal |-> TRUE, writes |-> writes, fires |-> fires] : n \in names}
Requests(names, writes, fires) ==
    {[name |-> n, modal |-> FALSE, writes |-> writes, fires |-> fires] : n \in names}

\* A page with one subject, which all its handlers fire.
Together(name, sections, dialogs, requests) ==
    Page(name, {Section(s, "refresh") : s \in sections},
         Dialogs(dialogs, sections, {"refresh"})
             \cup Requests(requests, sections, {"refresh"}))
Grid(name, dialogs, requests) == Together(name, {"rows"}, dialogs, requests)

-----------------------------------------------------------------------------
\* Administration.

\* The menu of the header lists the custom pages; its requests catch errors.
NavigationMenus ==
    [Section("navigationMenus", "menu") EXCEPT !.reads = {"customPages"}, !.ends = FALSE]

ManageCustomPages ==
    LET rows == {"refreshPages", "menu"}
    IN  Page("ManageCustomPages",
             {Section("customPages", "refreshPages"), Section("previewContent", "selectedPageID"),
              NavigationMenus},
             Dialogs({"openCreate"}, {"customPages"}, rows)
                 \cup Dialogs({"openEdit", "openEditContent"},
                              {"customPages", "previewContent"}, rows \cup {"selectedPageID"})
                 \cup Requests({"confirmDelete"},
                               {"customPages", "previewContent"}, rows \cup {"selectedPageID"}))

ManagePageContent ==
    Page("ManagePageContent",
         {Section("firmaPages", "refreshPages"), Section("previewContent", "selectedPageTypeID")},
         Dialogs({"editContent"}, {"firmaPages", "previewContent"},
                 {"refreshPages", "selectedPageTypeID"}))

MapLayers == Grid("MapLayers", {"openCreate", "openEdit"}, {"confirmDelete"})

\* The columns of the relationship types, one per organization type, and
\* the organization types the rows name, are fetched once.
OrganizationAndRelationshipTypes ==
    LET changed == {"openEditOrgType", "confirmDeleteOrgType"}
    IN  Page("OrganizationAndRelationshipTypes",
             {Section("orgTypes", "refreshOrgTypes"),
              Misses(Section("relTypes", "refreshRelTypes"), changed),
              Misses(Once("allOrgTypes"), changed \cup {"openCreateOrgType"})},
             Dialogs({"openCreateOrgType"}, {"orgTypes", "allOrgTypes"}, {"refreshOrgTypes"})
                 \cup Dialogs({"openEditOrgType"}, {"orgTypes", "relTypes", "allOrgTypes"},
                              {"refreshOrgTypes"})
                 \cup Requests({"confirmDeleteOrgType"}, {"orgTypes", "relTypes", "allOrgTypes"},
                               {"refreshOrgTypes"})
                 \cup Dialogs({"openCreateRelType", "openEditRelType"}, {"relTypes"},
                              {"refreshRelTypes"})
                 \cup Requests({"confirmDeleteRelType"}, {"relTypes"}, {"refreshRelTypes"}))

LoaUpload == Grid("LoaUpload", {"openUploadModal"}, {"publish"})
ServiceForestryUpload == Grid("ServiceForestryUpload", {"openUploadModal"}, {"publish"})
HomepageConfiguration ==
    Grid("HomepageConfiguration", {"openAddImageModal", "openEditImageModal"}, {"deleteImage"})
FieldDefinitionList == Grid("FieldDefinitionList", {"openEdit"}, {})
FeaturedProjects == Grid("FeaturedProjects", {"onTagged", "openEditFeaturedProjects"}, {})
ManageFindYourForester == Grid("ManageFindYourForester", {"openBulkAssignModal"}, {})
Reports == Grid("Reports", {"openCreateModal", "openEditModal"}, {"confirmDelete"})
ProjectThemes == Grid("ProjectThemes", {"openCreateTheme"}, {"openEditSortOrder", "confirmDelete"})
ProjectTypes ==
    Grid("ProjectTypes", {"openCreateProjectType"}, {"openEditSortOrder", "confirmDelete"})
Tags == Grid("Tags", {"openCreateTag"}, {"confirmDelete"})
Jobs == Grid("Jobs", {}, {"clearOutdatedImports"})
JsonApis == Grid("JsonApis", {}, {"generateApiKey"})

\* refreshProjects is never fired.
ProjectUpdates ==
    Page("ProjectUpdates",
         {Section("configuration", "refreshConfig"),
          Section("peopleReceivingReminders", "refreshPeople"),
          Section("projectUpdateStatus", "refreshProjects")},
         Dialogs({"openEditConfiguration"}, {"configuration"}, {"refreshConfig"})
             \cup Dialogs({"openCustomNotificationModal"}, {"peopleReceivingReminders"},
                          {"refreshPeople"}))

-----------------------------------------------------------------------------
\* Lists.

People == Grid("People", {"openAddPersonModal"}, {})
PendingProjects == Grid("PendingProjects", {}, {"confirmDelete"})
Projects == Grid("Projects", {"onTagged"}, {})

\* A fund source shows the balance of its allocations.
FundSources ==
    Page("FundSources",
         {Section("allocations", "refreshAllocations"),
          [Misses(Section("fundSources", "fundSources"), {"confirmDeleteAllocation"})
              EXCEPT !.ends = FALSE]},
         Requests({"confirmDeleteAllocation"}, {"allocations", "fundSources"},
                  {"refreshAllocations"})
             \cup Requests({"confirmDeleteFundSource"}, {"allocations", "fundSources"},
                           {"refreshAllocations", "fundSources"}))

\* These two make a new observable instead, so an error does not last.
Renewing(page) ==
    [page EXCEPT !.sections = {[s EXCEPT !.ends = FALSE] : s \in page.sections}]
Programs == Renewing(Grid("Programs", {"openCreateModal", "openEditModal"}, {}))
InteractionsEvents ==
    Renewing(Grid("InteractionsEvents", {"openEditModal"}, {"confirmDeleteInteractionEvent"}))

-----------------------------------------------------------------------------
\* Detail pages.

ClassificationDetail == Together("ClassificationDetail", {"pageData"}, {"openEditModal"}, {})
DNRUplandRegionDetail == Together("DNRUplandRegionDetail", {"region"}, {"openEditContactModal"}, {})
InvoiceDetail == Together("InvoiceDetail", {"invoice"}, {"openEditModal"}, {})
ProjectTypeDetail ==
    Together("ProjectTypeDetail", {"projectType", "projects"}, {"onTagged", "openEditModal"}, {})
TagDetail == Together("TagDetail", {"tag", "projects"}, {"onTagged", "openEditTag"}, {})
InteractionEventDetail ==
    Together("InteractionEventDetail",
             {"interactionEvent", "projects", "contacts", "fileResources", "simpleLocation"},
             {"openEditModal", "openLocationModal", "openFileModal", "openEditFileModal"},
             {"deleteFile"})
OrganizationDetail ==
    Together("OrganizationDetail", {"organization", "programs", "boundaryFeatures"},
             {"openEditModal", "openCreateProgramModal", "openUploadBoundaryModal"},
             {"confirmDeleteProgram", "confirmDeleteBoundary"})
PriorityLandscapeDetail ==
    Together("PriorityLandscapeDetail", {"pageData"},
             {"openEditBasicsModal", "openEditMapTextModal", "openFileModal", "openEditFileModal"},
             {"deleteFile"})

\* Its budget saves itself, see BudgetAutosave.
FundSourceAllocationDetail ==
    Together("FundSourceAllocationDetail",
             {"fundSourceAllocation", "budgetLineItems", "changeLogs", "notes",
              "internalNotes", "files"},
             {"openEditModal", "openNoteModal", "openFileModal", "openEditFileModal"},
             {"deleteNote", "deleteFile"})

PersonSections == {Section("person", "refreshData"), Section("apiKey", "refreshApiKey")}
PersonDetail ==
    Page("PersonDetail", PersonSections,
         Dialogs({"openEditPrimaryContactOrgs", "openEditPerson", "openEditRoles",
                  "openEditStewardshipAreas", "toggleActive"}, {"person"}, {"refreshData"})
             \cup Requests({"generateApiKey"}, {"apiKey"}, {"refreshApiKey"}))

ProgramEdits ==
    Dialogs({"openEditModal", "openEditEditorsModal", "openEditImportBasicsModal",
             "openEditDefaultMappingsModal", "openEditCrosswalkValuesModal"},
            {"program"}, {"refreshData"})
ProgramLists ==
    Dialogs({"confirmDeleteProject"}, {"projects"}, {"refreshData"})
        \cup Dialogs({"openCreateNotificationModal", "openEditNotificationModal"},
                     {"notifications"}, {"refreshNotifications"})
        \cup Dialogs({"openAddToBlockListModal", "openCreateBlockListEntryModal"},
                     {"blockListEntries"}, {"refreshBlockList"})
        \cup Requests({"confirmDeleteBlockListEntry"}, {"blockListEntries"}, {"refreshBlockList"})
ProgramDetail ==
    Page("ProgramDetail",
         {Section("program", "refreshData"), Section("projects", "refreshData"),
          Section("notifications", "refreshNotifications"),
          Section("blockListEntries", "refreshBlockList")},
         ProgramEdits \cup ProgramLists)

FundSourceSections ==
    {Section(s, "refreshData") :
        s \in {"fundSource", "allocations", "files", "photos", "notes", "internalNotes"}}
        \cup {Section("externalLinks", "refreshExternalLinks")}
FundSourcePhotos ==
    Dialogs({"openAddPhotoModal", "onGalleryEdit"}, {"photos"}, {"refreshData"})
        \cup Requests({"onGalleryDelete", "onGallerySetKeyPhoto"}, {"photos"}, {"refreshData"})
FundSourceEdits ==
    Dialogs({"openEditModal"}, {"fundSource", "files"}, {"refreshData"})
        \cup Dialogs({"openCreateAllocationModal"}, {"fundSource", "allocations"}, {"refreshData"})
        \cup Dialogs({"openFileModal", "openEditFileModal"}, {"files"}, {"refreshData"})
        \cup Requests({"deleteFile"}, {"files"}, {"refreshData"})
        \cup Dialogs({"openNoteModal"}, {"notes", "internalNotes"}, {"refreshData"})
        \cup Requests({"deleteNote"}, {"notes", "internalNotes"}, {"refreshData"})
        \cup Dialogs({"openEditExternalLinksModal"}, {"externalLinks"}, {"refreshExternalLinks"})
FundSourceDetail ==
    Page("FundSourceDetail", FundSourceSections, FundSourcePhotos \cup FundSourceEdits)

-----------------------------------------------------------------------------
\* The detail page of a project.

ProjectTreatments ==
    Dialogs({"openAddTreatmentModal", "openEditTreatmentModal"}, {"treatments"},
            {"refreshTreatments"})
        \cup Requests({"deleteTreatment"}, {"treatments"}, {"refreshTreatments"})

ProjectEvents ==
    Dialogs({"openAddInteractionEventModal", "openEditInteractionEventModal"}, {"interactionEvents"},
            {"refreshInteractionEvents"})
        \cup Requests({"deleteInteractionEvent"}, {"interactionEvents"},
                      {"refreshInteractionEvents"})

ProjectDocuments ==
    Dialogs({"openAddDocumentModal", "openEditDocumentModal"}, {"documents"}, {"refreshDocuments"})
        \cup Requests({"deleteDocument"}, {"documents"}, {"refreshDocuments"})

ProjectNotes ==
    Dialogs({"openAddNoteModal", "openEditNoteModal"}, {"notes"}, {"refreshNotes"})
        \cup Requests({"deleteNote"}, {"notes"}, {"refreshNotes"})
        \cup Dialogs({"openAddInternalNoteModal", "openEditInternalNoteModal"},
                     {"internalNotes"}, {"refreshInternalNotes"})
        \cup Requests({"deleteInternalNote"}, {"internalNotes"}, {"refreshInternalNotes"})

ProjectImages ==
    Dialogs({"openAddImageModal", "openEditImageModal"}, {"images"}, {"refreshImages"})
        \cup Requests({"deleteImage", "setKeyPhoto"}, {"images"}, {"refreshImages"})

\* The proposer is notified of an approval and of a return.
ProjectReview ==
    Requests({"approveProject", "returnProject"}, {"project", "notifications"}, {"refreshProject"})
        \cup Requests({"rejectProject"}, {"project"}, {"refreshProject"})

\* The ID they push again is stopped by distinctUntilChanged.
BlockListed == {"addToBlockList", "removeFromBlockList"}
ProjectBlockList ==
    Dialogs({"addToBlockList"}, {"project"}, {})
        \cup Requests({"removeFromBlockList"}, {"project"}, {})

ProjectInvoices ==
    Dialogs({"openAddPaymentRequestModal"}, {"paymentRequests"}, {"refreshPaymentRequests"})
        \cup Dialogs({"openAddInvoiceModal", "openEditInvoiceModal"},
                     {"invoices", "paymentRequests"}, {"refreshInvoices", "refreshPaymentRequests"})

ProjectEditors ==
    Dialogs({"openEditExternalLinksModal"}, {"externalLinks"}, {"refreshExternalLinks"})
        \cup Dialogs({"openEditOrganizationsModal", "openEditContactsModal", "openEditBasicsModal",
                      "openEditTagsModal", "openEditFundingModal"}, {"project"}, {"refreshProject"})
        \cup Dialogs({"openEditClassificationsModal"}, {"project", "classifications"},
                     {"refreshProject", "refreshClassifications"})

\* Saving the detailed locations can delete treatments with their location.
ProjectPlaces ==
    Dialogs({"openEditLocationSimpleModal"}, {"project", "locationLayers"},
            {"refreshProject", "refreshLocationLayers"})
        \cup Dialogs({"openEditLocationDetailedModal"}, {"project", "locationLayers", "treatments"},
                     {"refreshProject", "refreshLocationLayers"})
        \cup Dialogs({"openEditPriorityLandscapesModal", "openEditDnrUplandRegionsModal",
                      "openEditCountiesModal", "openEditMapExtentModal"},
                     {"project"}, {"refreshProject"})

ProjectHandlers ==
    ProjectTreatments \cup ProjectEvents \cup ProjectDocuments \cup ProjectNotes
        \cup ProjectImages \cup ProjectReview \cup ProjectBlockList
        \cup ProjectInvoices \cup ProjectEditors \cup ProjectPlaces

\* The audit log reads what every handler writes, and hears every subject.
ProjectSections ==
    {Misses(Section("project", "refreshProject"), BlockListed),
     Misses(Section("treatments", "refreshTreatments"), {"openEditLocationDetailedModal"}),
     Section("interactionEvents", "refreshInteractionEvents"),
     Section("classifications", "refreshClassifications"),
     Section("images", "refreshImages"),
     Section("documents", "refreshDocuments"),
     Section("notes", "refreshNotes"),
     [Section("internalNotes", "refreshInternalNotes")
         EXCEPT !.hears = {"refreshInternalNotes", "refreshProject"}],
     Section("invoices", "refreshInvoices"),
     Section("paymentRequests", "refreshPaymentRequests"),
     Section("externalLinks", "refreshExternalLinks"),
     Section("locationLayers", "refreshLocationLayers"),
     Misses(Once("notifications"), {"approveProject", "returnProject"}),
     [Misses(Once("auditLogs"), BlockListed)
         EXCEPT !.reads = UNION {h.writes : h \in ProjectHandlers},
                !.hears = UNION {h.fires : h \in ProjectHandlers}]}

ProjectDetail == Page("ProjectDetail", ProjectSections, ProjectHandlers)

-----------------------------------------------------------------------------
AllPages ==
    {ManageCustomPages, ManagePageContent, MapLayers,
     OrganizationAndRelationshipTypes, LoaUpload, ServiceForestryUpload,
     HomepageConfiguration, FieldDefinitionList, FeaturedProjects,
     ManageFindYourForester, Reports, ProjectThemes, ProjectTypes, Tags,
     Jobs, JsonApis, ProjectUpdates, People, PendingProjects, Projects,
     FundSources, Programs, InteractionsEvents, ClassificationDetail,
     DNRUplandRegionDetail, InvoiceDetail, ProjectTypeDetail, TagDetail,
     InteractionEventDetail, OrganizationDetail, PriorityLandscapeDetail,
     PersonDetail, FundSourceAllocationDetail, ProgramDetail,
     FundSourceDetail, ProjectDetail}
=============================================================================
