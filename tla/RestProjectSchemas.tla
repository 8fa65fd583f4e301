------------------------- MODULE RestProjectSchemas -------------------------
(*****************************************************************************)
(* The generated model classes of the endpoints of projects, reports,        *)
(* dashboards, agents, integrations and agile boards.                        *)
(* Each definition says what to_dict and from_dict of the class do; the      *)
(* patterns are those of RestCodec.                                          *)
(*****************************************************************************)
EXTENDS RestCodec, TLC

ApiAgentBase ==
  Closed(
    PlainNeeded({"Id", "Name", "ProjectId", "Code", "AgentType"})
    @@ EnumNeeded({"Status"})
    @@ ItemListNeeded({"SupportedTechnologies"}))

ApiAgentCreateOperation == Closed(PlainNeeded({"CreateOperation"}))

ApiAgentPatchOperation == Closed(PlainNeeded({"PatchOperation"}))

ApiAgileBacklog ==
  Closed(
    ModelList("ApiAgileBacklogStatus", {"RequirementStatuses", "DefectStatuses",
                                         "TestCaseStatuses"}))

ApiAgileBacklogStatus == Closed(Plain({"Id", "Name", "IsHidden"}))

ApiAgileReorderItemsRequest == Closed(Plain({"Ids", "TargetId", "BeforeTarget"}))

ApiAgileReorderItemsResponse ==
  Closed(
    Model("ApiAgileReorderItemsResponseReorderedPriority", {"ReorderedPriority"}))

ApiAgileReorderItemsResponseReorderedPriority == Open(NoFields)

ApiAgileSettings == Closed(Model("ApiAgileBacklog", {"Backlog"}))

ApiBaseObjectReportAllowedOptions ==
  Closed(
    Enum({"IncludeDescription", "IncludePictures", "IncludeHistory", "IncludeAttachments",
           "ShowRelatedDefects", "ShowRelatedRequirements", "ShowRelatedTestCases",
           "ShowRelatedTestScenarios", "IncludeJiraItems", "ItemType", "DataAllowed"})
    @@ Plain({"AllowToShowHideDetails"})
    @@ ItemList({"Path"})
    @@ Model("ApiFilter", {"Filter"}))

ApiBaseObjectReportAllowedOptionsUpdate ==
  Closed(
    PlainNeeded({"ItemType"})
    @@ Enum({"IncludeDescription", "IncludePictures", "IncludeHistory", "IncludeAttachments",
              "ShowRelatedDefects", "ShowRelatedRequirements", "ShowRelatedTestCases",
              "ShowRelatedTestScenarios", "IncludeJiraItems"})
    @@ Plain({"AllowToShowHideDetails"})
    @@ ItemList({"Path"})
    @@ Model("ApiFilterUpdate", {"Filter"}))

ApiBaseObjectReportOptions ==
  Closed(
    PlainNeeded({"ItemType"})
    @@ ItemList({"Path"})
    @@ Model("ApiFilterUpdate", {"Filter"})
    @@ Plain({"IncludeDescription", "IncludePictures", "ShowDetails", "IncludeHistory",
               "IncludeAttachments", "IncludeJiraItems", "ShowRelatedDefects",
               "ShowRelatedRequirements", "ShowRelatedTestCases", "ShowRelatedTestScenarios"}))

ApiCurrentlyExecutedStepInfo ==
  Closed(
    Plain({"ProjectId", "TestStepExecutionId", "TestJobExecutionId", "TestCaseId",
            "TestScenarioId"})
    @@ EnumOrNull({"CanViewTestScenario"})
    @@ Enum({"CanViewTestCase", "CanViewTestJobExecution"}))

ApiDashboardNG ==
  Closed(
    Plain({"Id", "Title", "IsFavourite"})
    @@ Enum({"Size"})
    @@ ModelList("ApiDashboardNGWidget", {"Widgets"})
    @@ ModelList("ApiDashboardNGShareProject", {"ProjectShares"})
    @@ Model("ApiUserInfo", {"Owner"}))

ApiDashboardNGReorderWidgets == Closed(Plain({"WidgetId", "NewPosition"}))

ApiDashboardNGShareProject ==
  Closed(
    Model("ApiProjectIdName", {"Project"})
    @@ Model("ApiRoleIdName", {"Role"}))

ApiDashboardNGWidget ==
  Closed(
    Plain({"Id", "Title", "Type"})
    @@ Model("ApiDashboardNGWidgetBinding", {"Binding"})
    @@ Model("ApiWidgetModel", {"Model"})
    @@ Model("ApiWidgetData", {"Data"}))

ApiDashboardNGWidgetBinding ==
  Closed(
    Plain({"ProjectId", "FolderId", "Recursive", "ProjectName", "Text"})
    @@ ModelList("ApiProjectFolder", {"Path"}))

ApiDeleteProjectFolderRole == Closed(Plain({"FolderId", "UserId"}))

ApiEnvironmentInfo == Closed(Plain({"IsMultiTenant"}))

ApiErrorInformation ==
  Closed(
    Enum({"ArgumentErrorType"})
    @@ Plain({"Message"}))

ApiFieldMeta ==
  Closed(
    PlainNeeded({"FieldType"})
    @@ Plain({"Id", "Title", "IsCustom", "IsGroupableInCharts", "SupportsFieldRules",
               "SupportedFilterOperations", "IsFilterable", "IsSortable", "IsAffectable",
               "IsGroupable", "IsActive", "SupportsBatchUpdate"})
    @@ Model("ApiFieldEditMeta", {"EditMeta"}))

ApiFieldPatchOperation ==
  Closed(
    PlainNeeded({"FieldId", "PatchOperation"})
    @@ Enum({"ItemType"}))

ApiFieldRuleUpdate == Closed(PlainNeeded({"FieldId", "RuleType"}))

ApiFieldRules ==
  Closed(
    EnumNeeded({"ItemType"})
    @@ ModelListNeeded("ApiFieldRule", {"Rules"}))

ApiFieldRulesUpdate == Closed(ModelListNeeded("ApiFieldRuleUpdate", {"Rules"}))

ApiFieldRulesUpdateWithItemType ==
  Open(
    ModelListNeeded("ApiFieldRuleUpdate", {"Rules"})
    @@ EnumNeeded({"ItemType"}))

ApiFieldRulesWithOwnership ==
  Open(
    EnumNeeded({"ItemType"})
    @@ ModelListNeeded("ApiFieldRule", {"Rules"})
    @@ ModelNeeded("ApiProjectIdName", {"Project"})
    @@ PlainNeeded({"IsShared", "IsOwned"})
    @@ Model("ApiProjectIdName", {"OwningProject"}))

ApiFolderNotificationRuleReplacementWithType ==
  Open(
    Enum({"FilterType", "ItemType"})
    @@ Model("ApiNotificationRuleFilterOptions", {"CustomFilterOptions"})
    @@ Plain({"IgnoreIfOwnerAction"}))

ApiGetUserAssignmentResponse == Closed(ModelList("ApiUserRole", {"Assignements"}))

ApiImportProjectTemplatePreviewEntry ==
  Closed(
    EnumOrNull({"ItemType"})
    @@ Plain({"Description", "ReadyToImport", "Cause"})
    @@ Enum({"Category"}))

ApiImportProjectTemplatePreviewResponse ==
  Closed(
    ModelList("ApiImportProjectTemplatePreviewEntry", {"ListOfChanges"}))

ApiIntegrationConfigBase ==
  Closed(
    PlainNeeded({"IntegrationType"})
    @@ Plain({"SupportsLookup", "IsEnabled", "CustomerId", "ProjectId"}))

ApiIntegrationConfigUpdateBase ==
  Closed(
    PlainNeeded({"IntegrationType"})
    @@ Plain({"SupportsLookup", "IsEnabled"}))

ApiIntegrationConfigVerifyBase == Closed(PlainNeeded({"IntegrationType"}))

ApiIntegrationConfigurations ==
  Closed(
    ModelList("ApiIntegrationConfigBase", {"Configurations"})
    @@ Enum({"CanEdit"}))

ApiIntegrationConfigurationsUpdate ==
  Closed(
    ModelList("ApiIntegrationConfigUpdateBase", {"Configurations"}))

ApiIntegrationEnable == Closed(Plain({"CustomerId", "ProjectId", "IsEnabled"}))

ApiIntegrationVerifyResponse == Closed(Plain({"IsSuccess"}))

ApiItemListRequest ==
  Closed(
    Plain({"ProjectId", "FolderId", "ItemTypes", "Search", "SprintId", "OrderBy",
            "IncludeSubfolders", "IncludeArchived", "StartAt", "MaxResults",
            "IsFilteredByStatus", "IncludeEditLayout"}))

ApiItemSearchResult ==
  Closed(
    Plain({"SearchTerm", "Count"})
    @@ ModelList("ApiItemInfo", {"Items"}))

ApiItemTypeIsWebLayoutInfo ==
  Closed(
    Enum({"ItemType"})
    @@ Plain({"IsWebLayout"}))

ApiLongOperation == Closed(Plain({"LongRunningTaskGuid"}))

ApiLongOperationOfInteger == Closed(Plain({"LongRunningTaskGuid", "Result"}))

ApiPaginatedResultOfApiItemInfo ==
  Closed(
    Plain({"StartAt", "MaxResults", "Count"})
    @@ ModelList("ApiItemInfo", {"Items"}))

ApiProjectConfigInfo ==
  Closed(
    Plain({"IsOwned", "IsShared"})
    @@ Model("ApiProjectIdName", {"OwningProject"}))

ApiProjectCreate ==
  Closed(
    Plain({"Name"})
    @@ Model("ApiProjectCreateSource", {"SourceProject"})
    @@ Model("ApiFileUploadInfo", {"UploadedConfiguration"}))

ApiProjectCreateSource == Closed(Plain({"ProjectId", "CopyItems", "ShareConfiguration"}))

ApiProjectFieldRules ==
  Closed(
    ModelNeeded("ApiProjectIdName", {"Project"})
    @@ PlainNeeded({"IsShared", "IsOwned"})
    @@ ModelListNeeded("ApiFieldRules", {"Rules"})
    @@ Model("ApiProjectIdName", {"OwningProject"}))

ApiProjectFieldRulesUpdate ==
  Closed(
    ModelListNeeded("ApiFieldRulesUpdateWithItemType", {"Rules"}))

ApiProjectFolderCreate ==
  Closed(
    Plain({"Name"})
    @@ Model("ApiProjectFolderCreateSourceFolder", {"SourceFolder"}))

ApiProjectFolderCreateSourceFolder == Closed(Plain({"FolderId"}))

ApiProjectFolderPatchOperation == Closed(PlainNeeded({"OperationType"}))

ApiProjectInfo ==
  Open(
    Plain({"Id", "Name", "IsArchived", "IsFavourite", "HasSubfolders", "ShortDescription"})
    @@ Model("ApiProjectPermissions", {"ProjectPermissions"})
    @@ Model("ApiSystemPermissions", {"SystemPermissions"})
    @@ Model("ApiProjectFolderPermissions", {"FolderPermissions"})
    @@ Model("ApiProjectConfigInfo", {"ProjectConfig"}))

ApiProjectNewResponse ==
  Closed(
    Plain({"ProjectId"})
    @@ Model("ApiLongOperation", {"CopyItemsLongOperation"}))

ApiProjectNotificationRule ==
  Closed(
    Enum({"ItemType", "FilterType"})
    @@ Model("ApiProjectIdName", {"ProjectInfo"})
    @@ Model("ApiUserInfo", {"CreatedByUser"})
    @@ Plain({"Id", "IgnoreIfOwnerAction"})
    @@ Model("ApiNotificationRuleFilterOptions", {"CustomFilterOptions"}))

ApiProjectNotificationTemplate ==
  Closed(
    Plain({"Subject", "Body", "CultureName", "Id", "MaxNameLength"})
    @@ Enum({"Type"}))

ApiProjectNotificationTemplates ==
  Closed(
    Model("ApiProjectIdName", {"Project", "OwningProject"})
    @@ Plain({"IsShared", "IsOwned"})
    @@ ModelList("ApiProjectNotificationTemplate", {"Templates"}))

ApiProjectOptions == Closed(Plain({"RequireExpectedResults", "RequireActualResults"}))

ApiProjectOptionsWithOwnership ==
  Open(
    Plain({"RequireExpectedResults", "RequireActualResults", "IsShared", "IsOwned"})
    @@ Model("ApiProjectIdName", {"Project", "OwningProject"})
    @@ Enum({"CanEdit"}))

ApiProjectPatchOperation == Closed(PlainNeeded({"PatchOperation"}))

ApiProjectPermissions ==
  Closed(
    Enum({"CanConfigureProject", "CanUseNotifications", "CanEditPublicUserView",
           "CanPublishUserView", "CanViewReportDefinitions", "CanCreateReportDefinition",
           "CanImportReportDefinition", "CanConfigureProjectTemplate",
           "CanConfigureProjectWorkflows", "CanManageProjectUsers",
           "CanConfigureDefaultNotificationRules", "CanConfigureNotificationTemplates",
           "CanViewAgents", "CanManageAgents", "CanAddDependencyAnySubfolder",
           "CanViewAgileBoard", "CanCreateEditSprints", "CanDeleteSprints", "CanPlanSprints"}))

ApiProjectSubFolder ==
  Open(
    Plain({"Id", "Name", "ParentFolderId", "HasSubfolders"})
    @@ Model("ApiProjectFolderPermissions", {"FolderPermissions"}))

ApiProjectSubfoldersPatchOperation == Closed(PlainNeeded({"OperationType"}))

ApiProjectTemplateDictionary ==
  Closed(
    ModelList("ApiProjectTemplateDictionaryEntry", {"Entries"})
    @@ Plain({"Id", "Name", "ConsistencyKey"}))

ApiProjectTemplateDictionaryEntry == Open(Plain({"Name", "IsDefault", "Id"}))

ApiProjectTemplateDictionaryEntryNew == Closed(Plain({"Name", "IsDefault"}))

ApiProjectTemplateDictionaryNew ==
  Closed(
    ModelList("ApiProjectTemplateDictionaryEntryNew", {"Entries"})
    @@ Plain({"Name"}))

ApiProjectTemplateDictionaryUpdate ==
  Closed(
    ModelList("ApiProjectTemplateDictionaryEntry", {"Entries"})
    @@ Plain({"Id", "Name", "ConsistencyKey"}))

ApiProjectTemplateDictionaryUsage ==
  Closed(
    Enum({"ItemType"})
    @@ Plain({"FieldId", "FieldTitle"}))

ApiProjectTemplateDictionaryWithUsage ==
  Open(
    ModelList("ApiProjectTemplateDictionaryEntry", {"Entries"})
    @@ Plain({"Id", "Name", "ConsistencyKey"})
    @@ ModelList("ApiProjectTemplateDictionaryUsage", {"Usage"}))

ApiProjectTemplateInformation ==
  Closed(
    ModelList("ApiProjectIdName", {"AffectedProjects"})
    @@ ModelList("ApiItemTypeIsWebLayoutInfo", {"ApiItemTypeIsWebLayout"})
    @@ Model("ApiProjectIdName", {"Project", "OwningProject"})
    @@ Plain({"IsShared", "IsOwned"}))

ApiProjectUpdateProjectFolderRolesRequest ==
  Closed(
    ModelList("ApiUpdateProjectFolderRole", {"AddRoles"})
    @@ ModelList("ApiDeleteProjectFolderRole", {"DeleteRoles"}))

ApiProjectUpdateProjectFolderRolesResponse ==
  Closed(
    Plain({"ErrorOccurred"})
    @@ ModelList("ApiErrorInformation", {"ErrorList"}))

ApiReportCreateRequest ==
  Closed(
    PlainNeeded({"ProjectId"})
    @@ ModelNeeded("ApiReportOptionsNew", {"Options"}))

ApiReportDefinitionInfo ==
  Closed(
    Plain({"Id", "Name", "Color", "IsPublic"})
    @@ Model("ApiUserInfo", {"Owner"})
    @@ Model("ApiProjectIdName", {"ProjectInfo"})
    @@ ItemList({"ItemTypes"})
    @@ Model("ApiReportPermissions", {"Permissions"}))

ApiReportDefinitionPatchCollectionOperation == Closed(PlainNeeded({"PatchOperation"}))

ApiReportDefinitionPatchCollectionResponse == Closed(NoFields)

ApiReportDefinitionPatchRequest == Closed(PlainNeeded({"PatchType"}))

ApiReportOptions ==
  Closed(
    Plain({"Name", "Color", "PluginCode"})
    @@ ModelList("ApiBaseObjectReportAllowedOptions", {"AllowedOptions"})
    @@ ModelList("ApiReportParameter", {"Parameters"}))

ApiReportOptionsNew ==
  Closed(
    PlainNeeded({"Name", "Color"})
    @@ ModelListNeeded("ApiBaseObjectReportAllowedOptionsUpdate", {"AllowedOptions"})
    @@ Plain({"PluginCode"}))

ApiReportOptionsUpdate ==
  Closed(
    Plain({"Name", "Color", "PluginCode"})
    @@ ModelList("ApiBaseObjectReportAllowedOptionsUpdate", {"AllowedOptions"}))

ApiReportParameter ==
  Open(
    Plain({"Name", "Value", "Description", "Visible", "MultiValue"})
    @@ Enum({"Type"}))

ApiReportParameterValue == Closed(Plain({"Name", "Value"}))

ApiReportPatchOperation == Closed(PlainNeeded({"PatchType"}))

ApiReportPermissions ==
  Closed(
    Enum({"CanGenerate", "CanEditProperties", "CanEditLayout", "CanDelete", "CanExport",
           "CanPublish", "CanMakePrivate"}))

ApiReportPlugin == Closed(Plain({"UniqueCode", "Name", "Description"}))

ApiReportPrintoutRequestFile ==
  Open(
    EnumNeeded({"FileType"})
    @@ Plain({"ReportId", "ProjectId", "FolderId", "Recursive", "IncludeArchived",
               "RelatedProjects"})
    @@ ModelListStrict("ApiBaseObjectReportOptions", {"ReportOptions"})
    @@ ModelList("ApiReportParameterValue", {"ParameterValues"}))

ApiSprint ==
  Closed(
    Plain({"Id", "Name", "ProjectId", "AvailableStoryPoints", "Active", "Tags",
            "Description"})
    @@ DateOrNull({"Start", "End"})
    @@ Model("ApiSprintStatistic", {"Statistics"}))

ApiSprintNew ==
  Closed(
    Plain({"Name", "ProjectId", "AvailableStoryPoints", "Active", "Tags", "Description"})
    @@ DateOrNull({"Start", "End"}))

ApiSprintNewResponse == Closed(Plain({"SprintId"}))

ApiSprintStatistic ==
  Closed(
    Plain({"CountDefects", "CountRequirements", "CountTestCases", "CountTestScenarios",
            "CountScripts"}))

ApiSprintUpdate ==
  Closed(
    Plain({"Name", "AvailableStoryPoints", "Active", "Tags", "Description"})
    @@ DateOrNull({"Start", "End"}))

ApiUpdateProjectFolderRole == Open(Plain({"FolderId", "UserId", "RoleId"}))

ApiUserProjectFolderAssignment == Closed(Plain({"UserId", "FolderId", "RoleId"}))

ApiUserProjectFolderAssignmentPatchOperation == Closed(PlainNeeded({"OperationType"}))

ApiUserRole ==
  Closed(
    Model("ApiRoleIdName", {"Role"})
    @@ Model("ApiUserInfo", {"User"})
    @@ Plain({"FolderId"}))

ApiUserViewInfo ==
  Closed(
    Plain({"Id", "Name", "Description", "Color", "IsPublic", "IsFavorite"})
    @@ Model("ApiUserInfo", {"Owner"})
    @@ Model("ApiUserViewPermissions", {"Permissions"})
    @@ ItemList({"ApplicableItemTypes"}))

ApiWidgetData == Closed(PlainNeeded({"DataType"}))

ApiWidgetModel == Closed(PlainNeeded({"WidgetType"}))

ApiWorkflow ==
  Closed(
    ModelList("ApiWorkflowNodeModel", {"Nodes"})
    @@ ModelList("ApiWorkflowTransitionModel", {"Actions"})
    @@ Model("ApiWorkflowGraphModel", {"Graph"}))

ApiWorkflowGraphModel ==
  Closed(
    ModelList("ApiWorkflowGraphNodeModel", {"Nodes"})
    @@ ModelList("ApiWorkflowGraphTransitionModel", {"Transitions"}))

ApiWorkflowGraphNodeModel == Closed(Plain({"Name", "X", "Y"}))

ApiWorkflowGraphTransitionModel == Closed(Plain({"NodeFrom", "NodeTo"}))

ApiWorkflowNodeModel == Closed(Plain({"Name", "IsInitialNode"}))

ApiWorkflowTransitionModel == Closed(Model("ApiWorkflowNodeModel", {"NodeFrom", "NodeTo"}))

ProjectImportSingleReportDefinitionMultipartData == Open(ItemListStrict({"file"}))

ProjectMetaImportFromFileMultipartData == Open(ItemListStrict({"file"}))

ProjectNotificationImportProjectNotificationTemplatesMultipartData ==
  Open(
    ItemListStrict({"file"}))

ProjectSchemas ==
  [ApiAgentBase |-> ApiAgentBase, ApiAgentCreateOperation |-> ApiAgentCreateOperation,
   ApiAgentPatchOperation |-> ApiAgentPatchOperation, ApiAgileBacklog |-> ApiAgileBacklog,
   ApiAgileBacklogStatus |-> ApiAgileBacklogStatus,
   ApiAgileReorderItemsRequest |-> ApiAgileReorderItemsRequest,
   ApiAgileReorderItemsResponse |-> ApiAgileReorderItemsResponse,
   ApiAgileReorderItemsResponseReorderedPriority |-> ApiAgileReorderItemsResponseReorderedPriority,
   ApiAgileSettings |-> ApiAgileSettings,
   ApiBaseObjectReportAllowedOptions |-> ApiBaseObjectReportAllowedOptions,
   ApiBaseObjectReportAllowedOptionsUpdate |-> ApiBaseObjectReportAllowedOptionsUpdate,
   ApiBaseObjectReportOptions |-> ApiBaseObjectReportOptions,
   ApiCurrentlyExecutedStepInfo |-> ApiCurrentlyExecutedStepInfo,
   ApiDashboardNG |-> ApiDashboardNG,
   ApiDashboardNGReorderWidgets |-> ApiDashboardNGReorderWidgets,
   ApiDashboardNGShareProject |-> ApiDashboardNGShareProject,
   ApiDashboardNGWidget |-> ApiDashboardNGWidget,
   ApiDashboardNGWidgetBinding |-> ApiDashboardNGWidgetBinding,
   ApiDeleteProjectFolderRole |-> ApiDeleteProjectFolderRole,
   ApiEnvironmentInfo |-> ApiEnvironmentInfo, ApiErrorInformation |-> ApiErrorInformation,
   ApiFieldMeta |-> ApiFieldMeta, ApiFieldPatchOperation |-> ApiFieldPatchOperation,
   ApiFieldRuleUpdate |-> ApiFieldRuleUpdate, ApiFieldRules |-> ApiFieldRules,
   ApiFieldRulesUpdate |-> ApiFieldRulesUpdate,
   ApiFieldRulesUpdateWithItemType |-> ApiFieldRulesUpdateWithItemType,
   ApiFieldRulesWithOwnership |-> ApiFieldRulesWithOwnership,
   ApiFolderNotificationRuleReplacementWithType |-> ApiFolderNotificationRuleReplacementWithType,
   ApiGetUserAssignmentResponse |-> ApiGetUserAssignmentResponse,
   ApiImportProjectTemplatePreviewEntry |-> ApiImportProjectTemplatePreviewEntry,
   ApiImportProjectTemplatePreviewResponse |-> ApiImportProjectTemplatePreviewResponse,
   ApiIntegrationConfigBase |-> ApiIntegrationConfigBase,
   ApiIntegrationConfigUpdateBase |-> ApiIntegrationConfigUpdateBase,
   ApiIntegrationConfigVerifyBase |-> ApiIntegrationConfigVerifyBase,
   ApiIntegrationConfigurations |-> ApiIntegrationConfigurations,
   ApiIntegrationConfigurationsUpdate |-> ApiIntegrationConfigurationsUpdate,
   ApiIntegrationEnable |-> ApiIntegrationEnable,
   ApiIntegrationVerifyResponse |-> ApiIntegrationVerifyResponse,
   ApiItemListRequest |-> ApiItemListRequest, ApiItemSearchResult |-> ApiItemSearchResult,
   ApiItemTypeIsWebLayoutInfo |-> ApiItemTypeIsWebLayoutInfo,
   ApiLongOperation |-> ApiLongOperation,
   ApiLongOperationOfInteger |-> ApiLongOperationOfInteger,
   ApiPaginatedResultOfApiItemInfo |-> ApiPaginatedResultOfApiItemInfo,
   ApiProjectConfigInfo |-> ApiProjectConfigInfo, ApiProjectCreate |-> ApiProjectCreate,
   ApiProjectCreateSource |-> ApiProjectCreateSource,
   ApiProjectFieldRules |-> ApiProjectFieldRules,
   ApiProjectFieldRulesUpdate |-> ApiProjectFieldRulesUpdate,
   ApiProjectFolderCreate |-> ApiProjectFolderCreate,
   ApiProjectFolderCreateSourceFolder |-> ApiProjectFolderCreateSourceFolder,
   ApiProjectFolderPatchOperation |-> ApiProjectFolderPatchOperation,
   ApiProjectInfo |-> ApiProjectInfo, ApiProjectNewResponse |-> ApiProjectNewResponse,
   ApiProjectNotificationRule |-> ApiProjectNotificationRule,
   ApiProjectNotificationTemplate |-> ApiProjectNotificationTemplate,
   ApiProjectNotificationTemplates |-> ApiProjectNotificationTemplates,
   ApiProjectOptions |-> ApiProjectOptions,
   ApiProjectOptionsWithOwnership |-> ApiProjectOptionsWithOwnership,
   ApiProjectPatchOperation |-> ApiProjectPatchOperation,
   ApiProjectPermissions |-> ApiProjectPermissions,
   ApiProjectSubFolder |-> ApiProjectSubFolder,
   ApiProjectSubfoldersPatchOperation |-> ApiProjectSubfoldersPatchOperation,
   ApiProjectTemplateDictionary |-> ApiProjectTemplateDictionary,
   ApiProjectTemplateDictionaryEntry |-> ApiProjectTemplateDictionaryEntry,
   ApiProjectTemplateDictionaryEntryNew |-> ApiProjectTemplateDictionaryEntryNew,
   ApiProjectTemplateDictionaryNew |-> ApiProjectTemplateDictionaryNew,
   ApiProjectTemplateDictionaryUpdate |-> ApiProjectTemplateDictionaryUpdate,
   ApiProjectTemplateDictionaryUsage |-> ApiProjectTemplateDictionaryUsage,
   ApiProjectTemplateDictionaryWithUsage |-> ApiProjectTemplateDictionaryWithUsage,
   ApiProjectTemplateInformation |-> ApiProjectTemplateInformation,
   ApiProjectUpdateProjectFolderRolesRequest |-> ApiProjectUpdateProjectFolderRolesRequest,
   ApiProjectUpdateProjectFolderRolesResponse |-> ApiProjectUpdateProjectFolderRolesResponse,
   ApiReportCreateRequest |-> ApiReportCreateRequest,
   ApiReportDefinitionInfo |-> ApiReportDefinitionInfo,
   ApiReportDefinitionPatchCollectionOperation |-> ApiReportDefinitionPatchCollectionOperation,
   ApiReportDefinitionPatchCollectionResponse |-> ApiReportDefinitionPatchCollectionResponse,
   ApiReportDefinitionPatchRequest |-> ApiReportDefinitionPatchRequest,
   ApiReportOptions |-> ApiReportOptions, ApiReportOptionsNew |-> ApiReportOptionsNew,
   ApiReportOptionsUpdate |-> ApiReportOptionsUpdate,
   ApiReportParameter |-> ApiReportParameter,
   ApiReportParameterValue |-> ApiReportParameterValue,
   ApiReportPatchOperation |-> ApiReportPatchOperation,
   ApiReportPermissions |-> ApiReportPermissions, ApiReportPlugin |-> ApiReportPlugin,
   ApiReportPrintoutRequestFile |-> ApiReportPrintoutRequestFile, ApiSprint |-> ApiSprint,
   ApiSprintNew |-> ApiSprintNew, ApiSprintNewResponse |-> ApiSprintNewResponse,
   ApiSprintStatistic |-> ApiSprintStatistic, ApiSprintUpdate |-> ApiSprintUpdate,
   ApiUpdateProjectFolderRole |-> ApiUpdateProjectFolderRole,
   ApiUserProjectFolderAssignment |-> ApiUserProjectFolderAssignment,
   ApiUserProjectFolderAssignmentPatchOperation |-> ApiUserProjectFolderAssignmentPatchOperation,
   ApiUserRole |-> ApiUserRole, ApiUserViewInfo |-> ApiUserViewInfo,
   ApiWidgetData |-> ApiWidgetData, ApiWidgetModel |-> ApiWidgetModel,
   ApiWorkflow |-> ApiWorkflow, ApiWorkflowGraphModel |-> ApiWorkflowGraphModel,
   ApiWorkflowGraphNodeModel |-> ApiWorkflowGraphNodeModel,
   ApiWorkflowGraphTransitionModel |-> ApiWorkflowGraphTransitionModel,
   ApiWorkflowNodeModel |-> ApiWorkflowNodeModel,
   ApiWorkflowTransitionModel |-> ApiWorkflowTransitionModel,
   ProjectImportSingleReportDefinitionMultipartData |-> ProjectImportSingleReportDefinitionMultipartData,
   ProjectMetaImportFromFileMultipartData |-> ProjectMetaImportFromFileMultipartData,
   ProjectNotificationImportProjectNotificationTemplatesMultipartData |-> ProjectNotificationImportProjectNotificationTemplatesMultipartData]
=============================================================================
