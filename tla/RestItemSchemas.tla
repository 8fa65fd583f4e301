-------------------------- MODULE RestItemSchemas --------------------------
(*****************************************************************************)
(* The generated model classes of the endpoints of test cases, scenarios and *)
(* executions, requirements, defects, scripts and what goes with them.       *)
(* Each definition says what to_dict and from_dict of the class do; the      *)
(* patterns are those of RestCodec.                                          *)
(*****************************************************************************)
EXTENDS RestCodec, TLC

ApiAddSingleTestJobResponse == Closed(PlainNeeded({"TestJobId"}))

ApiAddSingleTestStepResponse == Closed(Plain({"TestStepId"}))

ApiAgentIdAndName ==
  Closed(
    PlainNeeded({"Name"})
    @@ Plain({"Id"}))

ApiAttachmentInfo ==
  Closed(
    Plain({"Id", "Filename", "FileExtension", "Size", "ViewUrl", "DownloadUrl"})
    @@ Date({"FileDate"}))

ApiAttachmentNew == Closed(Plain({"Guid"}))

ApiAttachments ==
  Closed(
    ModelList("ApiAttachmentNew", {"Added"})
    @@ Plain({"Removed"}))

ApiAutomatedTestCaseExecution ==
  Closed(
    Plain({"ValueSetKey", "TestedVersion", "AgentId"})
    @@ ModelList("ApiLabelAttached", {"Labels"})
    @@ ModelList("ApiFieldUpdate", {"CustomFields"}))

ApiAutomatedTestScenarioExecutionRequest ==
  Closed(
    PlainNeeded({"ExecutionType"})
    @@ Plain({"AgentId", "Sequential"}))

ApiAutomatedTestScenarioExecutionResponse ==
  Closed(
    Plain({"TestScenarioExecutionId", "LongRunningTaskGuid"}))

ApiAutomation ==
  Closed(
    Plain({"ScriptId"})
    @@ Model("ApiAutomationScript", {"Script"}))

ApiAutomationSave ==
  Closed(
    Plain({"ScriptId"})
    @@ Model("ApiAutomationScriptSave", {"Script"}))

ApiAutomationScript == Closed(PlainNeeded({"Technology"}))

ApiAutomationScriptSave ==
  Closed(
    PlainNeeded({"Technology"})
    @@ Plain({"IsNew"}))

ApiBatchAllowedValuesRequest == Closed(Plain({"ItemIds", "FieldIds", "Limit"}))

ApiBatchAllowedValuesResponse ==
  Closed(
    ModelList("ApiItemIdentifier", {"Items"})
    @@ ModelList("ApiBatchAllowedValuesResponseEntry", {"Entries"}))

ApiBatchAllowedValuesResponseEntry ==
  Closed(
    Model("ApiField", {"Field"})
    @@ ModelList("ApiFieldValue", {"AllowedValues"})
    @@ Plain({"AllowedValuesTotalCount", "AllowOtherValues"}))

ApiBatchOperation ==
  Closed(
    Enum({"Type"})
    @@ Plain({"Ids"}))

ApiBulkExecutionsRequest ==
  Closed(
    Plain({"ProjectId", "FolderId", "TestCaseIds", "Finalize", "Version"})
    @@ ModelList("ValueTupleOfIntegerAndString", {"ValueSetGuids"})
    @@ ModelList("ApiLabelInfo", {"Labels"})
    @@ Enum({"Status"})
    @@ Model("ApiRichText", {"ActualResult"}))

ApiDefect ==
  Open(
    Plain({"Id", "FormattedId", "Name", "Archived", "HasDependency", "HasFiles"})
    @@ Enum({"Type"})
    @@ Model("ApiItemVersion", {"Version"})
    @@ Model("ApiItemLocation", {"Location"})
    @@ Model("ApiFieldValueDateTime", {"LastModified"})
    @@ Model("ApiEditableInfo", {"EditableInfo"})
    @@ Model("ApiItemPermissions", {"Permissions"})
    @@ EnumOrNull({"SyncStatus"})
    @@ ModelList("ApiFieldWithValue", {"Details"})
    @@ Model("ApiEditLayout", {"EditLayout"})
    @@ ModelList("ApiEnclosure", {"Enclosures"}))

ApiEnclosure ==
  Closed(
    Plain({"Id"})
    @@ Enum({"Type"})
    @@ Date({"CreationDate"})
    @@ Model("ApiRichText", {"Content"})
    @@ Model("ApiUserInfo", {"Owner"})
    @@ Model("ApiEnclosurePermissions", {"Permissions"}))

ApiEnclosurePermissions == Closed(Enum({"CanDelete", "CanEdit"}))

ApiEnclosureUpdate ==
  Closed(
    Enum({"Type"})
    @@ Model("ApiRichText", {"Content"}))

ApiEnclosureUpdateWithId ==
  Open(
    Enum({"Type"})
    @@ Model("ApiRichText", {"Content"})
    @@ Plain({"Id"}))

ApiEnclosuresUpdate ==
  Closed(
    ModelList("ApiEnclosureUpdate", {"Added"})
    @@ ModelList("ApiEnclosureUpdateWithId", {"Modified"})
    @@ Plain({"Removed"}))

ApiExternalInfo ==
  Closed(
    Plain({"Id", "ProjectId", "FolderId", "Name"})
    @@ Model("ApiFieldValueDateTime", {"DateCreated", "LastModified", "LastExecutionDate"}))

ApiField ==
  Closed(
    Plain({"Id", "Title"})
    @@ Enum({"FieldType"})
    @@ Model("ApiFieldEditMeta", {"EditMeta"}))

ApiFieldPlaceholder ==
  Closed(
    Plain({"Placeholder", "Title", "FieldId"})
    @@ Enum({"FieldType"}))

ApiFieldPlaceholders == Closed(ModelList("ApiFieldPlaceholder", {"Fields"}))

ApiFieldUpdate == Closed(Plain({"FieldId", "Value"}))

ApiFieldValueTimeSpan ==
  Open(
    PlainNeeded({"FieldValueType"})
    @@ Plain({"Text", "Value"})
    @@ Enum({"Unit"}))

ApiFieldValueUser ==
  Open(
    PlainNeeded({"FieldValueType"})
    @@ Plain({"Text", "Id"})
    @@ Model("ApiUserInfo", {"UserInfo"}))

ApiGlobalSearchItem ==
  Closed(
    Plain({"Id", "Name", "ProjectName"})
    @@ Enum({"ItemType"}))

ApiGlobalSearchRequest ==
  Closed(
    Enum({"SearchArea"})
    @@ Plain({"SearchText", "IncludeArchived", "StartAt", "MaxResults", "ProjectId",
               "FolderId", "IncludeSubfolders"}))

ApiGlobalSearchResult ==
  Closed(
    Plain({"StartAt", "MaxResults", "Count"})
    @@ ModelList("ApiGlobalSearchItem", {"Items"}))

ApiHistoryAttachments == Closed(Plain({"Added", "Removed"}))

ApiHistoryAutomation ==
  Closed(
    EnumOrNull({"Added", "Removed"})
    @@ Model("ApiHistoryAutomationModified", {"Modified"}))

ApiHistoryAutomationModified ==
  Closed(
    Plain({"ScriptFilesAdded", "ScriptFilesRemoved", "DataFilesAdded", "DataFilesRemoved"})
    @@ ModelList("ApiHistoryScriptFileModified", {"ScriptFilesModified"}))

ApiHistoryDependencyChanged ==
  Closed(
    Enum({"ChangeType"})
    @@ Plain({"ItemName", "OtherItemName"})
    @@ EnumOrNull({"DependencyType", "OldDependencyType"}))

ApiHistoryEnclosureChanged ==
  Closed(
    Plain({"Id"})
    @@ EnumOrNull({"EnclosureType"})
    @@ Enum({"ChangeType"})
    @@ Model("ApiRichText", {"OldContent", "NewContent"}))

ApiHistoryEntry ==
  Closed(
    Plain({"Id"})
    @@ Date({"TimeStamp"})
    @@ Model("ApiUserInfo", {"Editor"})
    @@ ModelList("ApiHistoryFieldChanged", {"Fields"})
    @@ Model("ApiHistoryItemCreated", {"Created"})
    @@ Model("ApiHistoryItemMoved", {"Moved"})
    @@ Model("ApiHistoryAttachments", {"Attachments"})
    @@ Model("ApiHistoryUserCCs", {"UserCCs"})
    @@ Model("ApiHistoryDependencyChanged", {"DependencyChanged"})
    @@ Model("ApiHistoryPostChanged", {"PostChanged"})
    @@ Model("ApiHistorySyncEvent", {"SyncEvent"})
    @@ Model("ApiHistoryItemMigrated", {"Migrated"}))

ApiHistoryEntryDefect ==
  Open(
    Plain({"Id"})
    @@ Date({"TimeStamp"})
    @@ Model("ApiUserInfo", {"Editor"})
    @@ ModelList("ApiHistoryFieldChanged", {"Fields"})
    @@ Model("ApiHistoryItemCreated", {"Created"})
    @@ Model("ApiHistoryItemMoved", {"Moved"})
    @@ Model("ApiHistoryAttachments", {"Attachments"})
    @@ Model("ApiHistoryUserCCs", {"UserCCs"})
    @@ Model("ApiHistoryDependencyChanged", {"DependencyChanged"})
    @@ Model("ApiHistoryPostChanged", {"PostChanged"})
    @@ Model("ApiHistorySyncEvent", {"SyncEvent"})
    @@ Model("ApiHistoryItemMigrated", {"Migrated"})
    @@ ModelList("ApiHistoryEnclosureChanged", {"Enclosures"}))

ApiHistoryEntryRequirement ==
  Open(
    Plain({"Id"})
    @@ Date({"TimeStamp"})
    @@ Model("ApiUserInfo", {"Editor"})
    @@ ModelList("ApiHistoryFieldChanged", {"Fields"})
    @@ Model("ApiHistoryItemCreated", {"Created"})
    @@ Model("ApiHistoryItemMoved", {"Moved"})
    @@ Model("ApiHistoryAttachments", {"Attachments"})
    @@ Model("ApiHistoryUserCCs", {"UserCCs"})
    @@ Model("ApiHistoryDependencyChanged", {"DependencyChanged"})
    @@ Model("ApiHistoryPostChanged", {"PostChanged"})
    @@ Model("ApiHistorySyncEvent", {"SyncEvent"})
    @@ Model("ApiHistoryItemMigrated", {"Migrated"})
    @@ Model("ApiHistorySubrequirements", {"Subrequirements"}))

ApiHistoryEntryTestCase ==
  Open(
    Plain({"Id"})
    @@ Date({"TimeStamp"})
    @@ Model("ApiUserInfo", {"Editor"})
    @@ ModelList("ApiHistoryFieldChanged", {"Fields"})
    @@ Model("ApiHistoryItemCreated", {"Created"})
    @@ Model("ApiHistoryItemMoved", {"Moved"})
    @@ Model("ApiHistoryAttachments", {"Attachments"})
    @@ Model("ApiHistoryUserCCs", {"UserCCs"})
    @@ Model("ApiHistoryDependencyChanged", {"DependencyChanged"})
    @@ Model("ApiHistoryPostChanged", {"PostChanged"})
    @@ Model("ApiHistorySyncEvent", {"SyncEvent"})
    @@ Model("ApiHistoryItemMigrated", {"Migrated"})
    @@ Model("ApiHistoryTestSteps", {"TestSteps"})
    @@ Model("ApiHistoryTestData", {"TestData"}))

ApiHistoryEntryTestScenario ==
  Open(
    Plain({"Id"})
    @@ Date({"TimeStamp"})
    @@ Model("ApiUserInfo", {"Editor"})
    @@ ModelList("ApiHistoryFieldChanged", {"Fields"})
    @@ Model("ApiHistoryItemCreated", {"Created"})
    @@ Model("ApiHistoryItemMoved", {"Moved"})
    @@ Model("ApiHistoryAttachments", {"Attachments"})
    @@ Model("ApiHistoryUserCCs", {"UserCCs"})
    @@ Model("ApiHistoryDependencyChanged", {"DependencyChanged"})
    @@ Model("ApiHistoryPostChanged", {"PostChanged"})
    @@ Model("ApiHistorySyncEvent", {"SyncEvent"})
    @@ Model("ApiHistoryItemMigrated", {"Migrated"})
    @@ Model("ApiHistoryTestJobs", {"TestJobs"}))

ApiHistoryFieldChanged ==
  Closed(
    Plain({"FieldId", "FieldTitle", "OldValue", "NewValue", "IsRichText"})
    @@ Enum({"ChangeType"}))

ApiHistoryItemCreated ==
  Closed(
    Enum({"CreationMode"})
    @@ Model("ApiItemInfo", {"Source"}))

ApiHistoryItemMigrated == Closed(Plain({"Info", "HistoryDownloadUrl"}))

ApiHistoryItemMoved == Closed(Plain({"OldPath", "NewPath"}))

ApiHistoryPostChanged ==
  Closed(
    Enum({"ChangeType"})
    @@ Plain({"Number", "MentionedUsers", "ContentTruncated"}))

ApiHistoryScriptFileModified == Closed(Plain({"FileName", "ValueBefore", "ValueAfter"}))

ApiHistorySubrequirements == Closed(Plain({"Added", "Removed", "Rearranged"}))

ApiHistorySyncEvent ==
  Closed(
    Enum({"EventType"})
    @@ Plain({"SyncModuleId", "SyncModuleType", "SyncName", "IsPushError", "IsAutoMergeError",
               "ErrorMessage"}))

ApiHistoryTestData == Closed(NoFields)

ApiHistoryTestJobModified ==
  Closed(
    Plain({"Id", "TestCaseId"})
    @@ ModelList("ApiHistoryFieldChanged", {"Fields"}))

ApiHistoryTestJobs ==
  Closed(
    Plain({"Added", "Removed", "Rearranged"})
    @@ ModelList("ApiHistoryTestJobModified", {"Modified"}))

ApiHistoryTestStepModified ==
  Closed(
    Plain({"Id", "CurrentName"})
    @@ ModelList("ApiHistoryFieldChanged", {"Fields"})
    @@ Model("ApiHistoryAutomation", {"Automation"}))

ApiHistoryTestSteps ==
  Closed(
    Plain({"Rearranged", "Added", "Removed"})
    @@ ModelList("ApiHistoryTestStepModified", {"Modified"}))

ApiHistoryUserCCs == Closed(Plain({"Added", "Removed"}))

ApiItemArrangement == Closed(Plain({"Filter", "Sorting", "Search", "TimeZoneOffset"}))

ApiItemArrangementGrouping ==
  Open(
    Plain({"Filter", "Sorting", "Search", "TimeZoneOffset", "Groups"}))

ApiItemCreateMeta ==
  Closed(
    Model("ApiItemLocation", {"Location"})
    @@ ModelList("ApiField", {"Fields"})
    @@ Model("ApiEditLayout", {"EditLayout"})
    @@ Model("ApiItemPermissions", {"Permissions"}))

ApiItemEditMeta ==
  Closed(
    ModelList("ApiField", {"Fields"})
    @@ Model("ApiEditLayout", {"EditLayout"}))

ApiItemEditStatus ==
  Closed(
    Model("ApiItemVersion", {"ItemVersion"})
    @@ Model("ApiEditableInfo", {"EditableInfo"}))

ApiItemExportRequest ==
  Closed(
    ItemList({"objectTypes"})
    @@ Plain({"RequirementIds", "DefectIds", "TestCaseIds", "TestScenarioIds", "recursive",
               "includeInvisibleFields", "includeAttachments", "includeRtfFiles"}))

ApiItemGroup ==
  Closed(
    Plain({"FieldId", "Caption", "Count", "Filter"})
    @@ ModelList("ApiItemGroup", {"SubGroups"}))

ApiItemGroupsResult ==
  Closed(
    Plain({"Total"})
    @@ ModelList("ApiItemGroup", {"Groups"}))

ApiItemIdentifier ==
  Closed(
    Plain({"Id", "FormattedId"})
    @@ Enum({"Type"}))

ApiItemImportRequest ==
  Closed(
    Model("ApiFileUploadInfo", {"fileMeta"})
    @@ Plain({"ignoreIncorrectRow"}))

ApiItemLocationUpdate == Closed(Plain({"ProjectId", "FolderId"}))

ApiItemNewWithDescription ==
  Open(
    Model("ApiItemLocationUpdate", {"Location"})
    @@ ModelList("ApiFieldUpdate", {"Details"})
    @@ ModelList("ApiAttachmentNew", {"Attachments"})
    @@ Model("ApiRichText", {"Description"}))

ApiItemNewWithEnclosures ==
  Open(
    Model("ApiItemLocationUpdate", {"Location"})
    @@ ModelList("ApiFieldUpdate", {"Details"})
    @@ ModelList("ApiAttachmentNew", {"Attachments"})
    @@ ModelList("ApiEnclosureUpdate", {"Enclosures"}))

ApiItemNewWithTestDataAndTestSteps ==
  Open(
    Model("ApiItemLocationUpdate", {"Location"})
    @@ ModelList("ApiFieldUpdate", {"Details"})
    @@ ModelList("ApiAttachmentNew", {"Attachments"})
    @@ Model("ApiRichText", {"Description"})
    @@ Model("ApiTestDataNew", {"TestData"})
    @@ ModelList("ApiTestStepNew", {"TestSteps"}))

ApiItemNewWithTestJobs ==
  Open(
    Model("ApiItemLocationUpdate", {"Location"})
    @@ ModelList("ApiFieldUpdate", {"Details"})
    @@ ModelList("ApiAttachmentNew", {"Attachments"})
    @@ Model("ApiRichText", {"Description"})
    @@ ModelList("ApiTestJobNew", {"TestJobs"}))

ApiItemUpdateWithDescription ==
  Open(
    ModelList("ApiFieldUpdate", {"Details"})
    @@ Model("ApiAttachments", {"Attachments"})
    @@ Model("ApiRichText", {"Description"}))

ApiItemUpdateWithEnclosures ==
  Open(
    ModelList("ApiFieldUpdate", {"Details"})
    @@ Model("ApiAttachments", {"Attachments"})
    @@ Model("ApiEnclosuresUpdate", {"Enclosures"}))

ApiItemUpdateWithTestDataAndTestSteps ==
  Open(
    ModelList("ApiFieldUpdate", {"Details"})
    @@ Model("ApiAttachments", {"Attachments"})
    @@ Model("ApiRichText", {"Description"})
    @@ Model("ApiTestDataUpdate", {"TestData"})
    @@ Model("ApiTestStepsUpdate", {"TestSteps"}))

ApiItemUpdateWithTestJobs ==
  Open(
    ModelList("ApiFieldUpdate", {"Details"})
    @@ Model("ApiAttachments", {"Attachments"})
    @@ Model("ApiRichText", {"Description"})
    @@ Model("ApiTestJobsUpdate", {"TestJobs"}))

ApiItemsPatchRequest == Closed(PlainNeeded({"OperationType"}))

ApiLabel ==
  Open(
    Plain({"Id", "Version", "Name", "Description"})
    @@ ModelList("ApiLabelInfo", {"SubLabels"}))

ApiLabelAttached == Closed(Plain({"Id", "Name", "Description", "ParentId"}))

ApiLabelInfo == Closed(Plain({"Id", "Version"}))

ApiLabelListResult == Closed(ModelList("ApiLabel", {"Items"}))

ApiLabelNew ==
  Closed(
    Plain({"Name", "ProjectId", "Description"})
    @@ ModelList("ApiLabelInfo", {"SubLabels"}))

ApiLabelNewResponse == Closed(Plain({"Id"}))

ApiLabelReference == Closed(Plain({"Id", "Name", "IsSuperLabel"}))

ApiLabelUpdate ==
  Closed(
    Plain({"Id", "Name", "Description", "Version"})
    @@ ModelList("ApiLabelInfo", {"SubLabels"}))

ApiLastExecutionInfo ==
  Closed(
    Plain({"LastExecutionId"})
    @@ Enum({"LastExecutionStatus"})
    @@ DateOrNull({"LastExecutionDate"}))

ApiLockNew == Closed(Plain({"Version"}))

ApiNavigationDependencyResponse == Closed(Plain({"DependentItemIds"}))

ApiNestedTestCaseInfo ==
  Closed(
    Enum({"NestedTestCaseAccessibility", "NestedTestCaseVariablesInheritance"})
    @@ Plain({"HasVariables", "Id", "Name"})
    @@ Model("ApiTestDataReferencedValueSetInfo", {"NestedTestCaseValueSet"}))

ApiNestedTestCaseInfoNew ==
  Closed(
    Plain({"Id", "NestedTestCaseValueSetGuid"})
    @@ Enum({"NestedTestCaseVariablesInheritance"}))

ApiNestedTestCaseInfoUpdate ==
  Closed(
    Plain({"NestedTestCaseValueSetGuid"})
    @@ Enum({"NestedTestCaseVariablesInheritance"}))

ApiPaginatedResultOfApiTestExecutionInfo ==
  Closed(
    Plain({"StartAt", "MaxResults", "Count"})
    @@ ModelList("ApiTestExecutionInfo", {"Items"}))

ApiPost ==
  Open(
    Plain({"Id", "Number", "Deleted"})
    @@ Model("ApiUserInfo", {"Creator", "LastEditor"})
    @@ Date({"DateCreated", "DateModified"})
    @@ Model("ApiRichText", {"Content"})
    @@ ModelList("ApiUserInfo", {"MentionedUsers"}))

ApiPostInfo ==
  Closed(
    Plain({"Id", "Number", "Deleted"})
    @@ Model("ApiUserInfo", {"Creator", "LastEditor"})
    @@ Date({"DateCreated", "DateModified"}))

ApiPostPaginated ==
  Closed(
    ModelList("ApiPost", {"Posts"})
    @@ Plain({"PostsTotalCount"}))

ApiProjectTreePathResponse ==
  Closed(
    Model("ApiProjectTreeProject", {"Project"})
    @@ ModelList("ApiProjectTreeFolder", {"FoldersPath"}))

ApiRedirectResult == Closed(PlainNeeded({"Message", "Url"}))

ApiRelation ==
  Closed(
    Plain({"Id"})
    @@ Enum({"Type", "OtherItemCanView"})
    @@ Model("ApiItemIdentifier", {"Item", "OtherItem"})
    @@ Model("IApiRelationItemExtra", {"ItemExtra", "OtherItemExtra"}))

ApiRelationCreateMeta == Closed(Model("ApiRelationCreateMetaAllowedTypes", {"AllowedTypes"}))

ApiRelationCreateMetaAllowedTypes == MapOfEnumLists

ApiRelationNew ==
  Closed(
    Plain({"ItemExtra", "OtherItemId", "OtherItemExtra"})
    @@ Enum({"OtherItemType", "Type"}))

ApiRelations ==
  Closed(
    Model("ApiItemIdentifier", {"Item"})
    @@ Plain({"Depth"})
    @@ ModelList("ApiRelation", {"Relations"}))

ApiRequirement ==
  Open(
    Plain({"Id", "FormattedId", "Name", "Archived", "HasDependency", "HasFiles",
            "HasSubRequirements"})
    @@ Enum({"Type"})
    @@ Model("ApiItemVersion", {"Version"})
    @@ Model("ApiItemLocation", {"Location"})
    @@ Model("ApiFieldValueDateTime", {"LastModified"})
    @@ Model("ApiEditableInfo", {"EditableInfo"})
    @@ Model("ApiItemPermissions", {"Permissions"})
    @@ EnumOrNull({"SyncStatus"})
    @@ ModelList("ApiFieldWithValue", {"Details"})
    @@ Model("ApiEditLayout", {"EditLayout"})
    @@ Model("ApiRichText", {"Description"}))

ApiRichText == Closed(Plain({"Html", "IncompatibleRichTextFeatures", "PlainText"}))

ApiRunDependencyEntry == Closed(PlainNeeded({"RunIndex", "OnSuccessOnly"}))

ApiScript ==
  Open(
    Plain({"Id", "FormattedId", "Name", "Archived", "HasDependency", "HasFiles"})
    @@ Enum({"Type"})
    @@ Model("ApiItemVersion", {"Version"})
    @@ Model("ApiItemLocation", {"Location"})
    @@ Model("ApiFieldValueDateTime", {"LastModified"})
    @@ Model("ApiEditableInfo", {"EditableInfo"})
    @@ Model("ApiItemPermissions", {"Permissions"})
    @@ EnumOrNull({"SyncStatus"})
    @@ ModelList("ApiFieldWithValue", {"Details"})
    @@ Model("ApiEditLayout", {"EditLayout"}))

ApiSubrequirement ==
  Closed(
    Plain({"Id", "ParentId", "ChildIndex", "Position", "FurtherSubrequirementsCount"})
    @@ Model("ApiItemInfo", {"Item"})
    @@ EnumOrNull({"EditableStatus"}))

ApiSubrequirementNew == Closed(Plain({"Id"}))

ApiSubrequirementUpdate == Closed(Plain({"ChildIndex"}))

ApiSubrequirementsNew == Closed(ModelList("ApiSubrequirementNew", {"Subrequirements"}))

ApiSubrequirementsUpdate == Closed(ModelList("ApiSubrequirement", {"Subrequirements"}))

ApiTestCase ==
  Open(
    Plain({"Id", "FormattedId", "Name", "Archived", "HasDependency", "HasFiles",
            "HasSteps", "HasData", "HasExecutions", "LastExecutionId"})
    @@ Enum({"Type", "LastExecutionStatus", "SupportsAutomaticExecution"})
    @@ Model("ApiItemVersion", {"Version"})
    @@ Model("ApiItemLocation", {"Location"})
    @@ Model("ApiFieldValueDateTime", {"LastModified"})
    @@ Model("ApiEditableInfo", {"EditableInfo"})
    @@ Model("ApiItemPermissions", {"Permissions"})
    @@ EnumOrNull({"SyncStatus"})
    @@ ModelList("ApiFieldWithValue", {"Details"})
    @@ Model("ApiEditLayout", {"EditLayout"})
    @@ Model("ApiRichText", {"Description"})
    @@ Model("ApiTestCaseExecutionDefaults", {"TestCaseExecutionDefaults"})
    @@ ItemList({"RequiredAgentTechnologies"}))

ApiTestCaseCreateMeta ==
  Open(
    Model("ApiItemLocation", {"Location"})
    @@ ModelList("ApiField", {"Fields"})
    @@ Model("ApiEditLayout", {"EditLayout"})
    @@ Model("ApiItemPermissions", {"Permissions"})
    @@ Plain({"RequireExpectedResults"}))

ApiTestCaseEditMeta ==
  Open(
    ModelList("ApiField", {"Fields"})
    @@ Model("ApiEditLayout", {"EditLayout"})
    @@ Plain({"RequireExpectedResults"}))

ApiTestCaseExecutionDefaults ==
  Open(
    Plain({"ValueSetGuid", "TestedVersion", "Id", "TestCaseId"})
    @@ ModelList("ApiLabelInfo", {"Labels"})
    @@ Model("ApiAgentIdAndName", {"Agent"})
    @@ ModelList("ApiFieldWithValue", {"CustomFields"})
    @@ Model("ApiEditLayout", {"EditLayout"}))

ApiTestCaseExecutionDefaultsUpdate ==
  Open(
    Plain({"ValueSetGuid", "TestedVersion", "AgentId"})
    @@ ModelList("ApiLabelInfo", {"Labels"})
    @@ ModelList("ApiFieldUpdate", {"CustomFields"}))

ApiTestCaseExecutionHistory ==
  Closed(
    Plain({"MaxNumberOfEntries"})
    @@ ModelList("ApiTestCaseExecutionHistoryEntry", {"Entries"}))

ApiTestCaseExecutionHistoryEntry ==
  Closed(
    Enum({"ExecutionStatus"})
    @@ Model("ApiFieldValueDateTime", {"ExecutionDate"})
    @@ Plain({"TestScenarioId"}))

ApiTestCaseExecutionPreviewRequest ==
  Closed(
    Plain({"TestedVersion", "ValueSetGuid"})
    @@ ModelList("ApiLabelInfo", {"Labels"})
    @@ ModelList("ApiFieldUpdate", {"CustomFields"}))

ApiTestCaseExecutionPreviewResponse ==
  Closed(
    ModelNeeded("ApiTestExecutionNew", {"NewTestExecution"})
    @@ ModelNeeded("ApiTestExecutionCreateMeta", {"CreateMeta"})
    @@ Plain({"RequireActualResult"})
    @@ Enum({"CanFinalizeTestExecution"}))

ApiTestCaseJobInfo ==
  Closed(
    PlainNeeded({"Id", "Name"})
    @@ Enum({"TestCaseAccessibility", "SupportsAutomaticExecution"})
    @@ Model("ApiFieldValueDateTime", {"LastModified"})
    @@ Plain({"HasVariables"})
    @@ ItemList({"RequiredAgentTechnologies"}))

ApiTestCasesHaveStepsResponse ==
  Closed(
    Model("ApiTestCasesHaveStepsResponseTestCases", {"TestCases"}))

ApiTestCasesHaveStepsResponseTestCases == Open(NoFields)

ApiTestData ==
  Closed(
    PlainNeeded({"Variant"})
    @@ ModelList("ApiTestDataValueSetInfo", {"ValueSets"})
    @@ ModelList("ApiTestDataVariable", {"Variables"})
    @@ ItemList({"Values"})
    @@ ModelList("ApiFieldPlaceholder", {"Fields"}))

ApiTestDataNew == Closed(PlainNeeded({"Variant"}))

ApiTestDataPreview == Closed(ItemList({"Values"}))

ApiTestDataReferencedValueSetInfo == Closed(Plain({"Guid", "Name", "Deleted"}))

ApiTestDataUpdate == Closed(PlainNeeded({"Variant"}))

ApiTestDataValueSet ==
  Open(
    Plain({"Guid", "Name"})
    @@ ModelList("ApiTestDataVariableWithValue", {"Variables"}))

ApiTestDataValueSetInfo == Closed(Plain({"Guid", "Name"}))

ApiTestDataValueSetNew ==
  Closed(
    Plain({"ValueSetName"})
    @@ ModelList("ApiTestDataVariableWithValue", {"Variables"}))

ApiTestDataValueSetUpdate ==
  Closed(
    Plain({"ValueSetName"})
    @@ ModelList("ApiTestDataVariableWithValue", {"Variables"}))

ApiTestDataVariable == Closed(Plain({"Name"}))

ApiTestDataVariableWithValue == Open(Plain({"Name", "Value"}))

ApiTestExecution ==
  Open(
    Plain({"Id", "FormattedId", "Guid", "TestCaseId", "TestCaseName",
            "TestCaseFormattedId", "ValueSetName", "Version", "TestedVersion",
            "IrrelevantReason", "Irrelevant", "AgentToUse", "IsFinalized", "HasAttachment",
            "HasDefect", "RequireActualResult"})
    @@ Enum({"TestExecutionType", "Status"})
    @@ Model("ApiFieldValueUser", {"LastEditor", "Tester", "IrrelevantFlaggedBy"})
    @@ Model("ApiFieldValueDateTime", {"ExecutionDate", "LastModified", "IrrelevantFlaggedAt"})
    @@ Model("ApiFieldValueTimeSpan", {"ExecutionDuration"})
    @@ Model("ApiTestExecutionTestScenarioInfo", {"TestScenarioInfo"})
    @@ ModelList("ApiLabelAttached", {"AttachedLabels"})
    @@ ModelList("ApiFieldWithValue", {"CustomFields"})
    @@ Model("ApiItem", {"HistoryTestCase"})
    @@ ModelList("ApiTestStepExecution", {"Steps"})
    @@ ModelList("ApiAttachmentInfo", {"AttachedFiles"})
    @@ Model("ApiEditLayout", {"EditLayout"})
    @@ Model("ApiItemLocation", {"Location"})
    @@ ModelList("ApiTestExecutionLog", {"ExecutionLogs"})
    @@ ModelList("ApiTestExecutionDataAttribute", {"ExecutionDataAttributes"})
    @@ Model("ApiTestExecutionPermission", {"Permissions"})
    @@ Model("ApiEditableInfo", {"EditStatus"}))

ApiTestExecutionContinueResponse ==
  Closed(
    ModelListNeeded("ApiTestExecutionExtendedInfo", {"TestExecutions"})
    @@ Plain({"RequireActualResult"})
    @@ Enum({"CanFinalizeTestExecution"})
    @@ Model("ApiItemLocation", {"Location"}))

ApiTestExecutionCreateLock ==
  Closed(
    Plain({"TestExecutionId"})
    @@ Model("ApiLockNew", {"LockInfo"}))

ApiTestExecutionCreateMeta ==
  Closed(
    ModelListNeeded("ApiField", {"Fields"})
    @@ ModelNeeded("ApiEditLayout", {"EditLayout"}))

ApiTestExecutionDataAttribute ==
  Closed(
    Plain({"Id", "AttrName", "AttrValue", "ProcessElementExecutionId",
            "TestStepExecutionId", "TestJobExecutionId", "StepName", "StepIndex"})
    @@ Enum({"AttrType"})
    @@ Model("ApiFieldValueDateTime", {"DateModified"}))

ApiTestExecutionExtendedInfo ==
  Open(
    Plain({"Id", "FormattedId", "Guid", "TestCaseId", "TestCaseName",
            "TestCaseFormattedId", "ValueSetName", "Version", "TestedVersion",
            "IrrelevantReason", "Irrelevant", "AgentToUse", "IsFinalized", "HasAttachment",
            "HasDefect"})
    @@ Enum({"TestExecutionType", "Status"})
    @@ Model("ApiFieldValueUser", {"LastEditor", "Tester", "IrrelevantFlaggedBy"})
    @@ Model("ApiFieldValueDateTime", {"ExecutionDate", "LastModified", "IrrelevantFlaggedAt"})
    @@ Model("ApiFieldValueTimeSpan", {"ExecutionDuration"})
    @@ Model("ApiTestExecutionTestScenarioInfo", {"TestScenarioInfo"})
    @@ ModelList("ApiLabelAttached", {"AttachedLabels"})
    @@ ModelList("ApiFieldWithValue", {"CustomFields"})
    @@ Model("ApiItem", {"HistoryTestCase"})
    @@ ModelList("ApiTestStepExecution", {"Steps"})
    @@ ModelList("ApiAttachmentInfo", {"AttachedFiles"})
    @@ Model("ApiEditLayout", {"EditLayout"}))

ApiTestExecutionInfo ==
  Closed(
    Plain({"Id", "FormattedId", "Guid", "TestCaseId", "TestCaseName",
            "TestCaseFormattedId", "ValueSetName", "Version", "TestedVersion",
            "IrrelevantReason", "Irrelevant", "AgentToUse", "IsFinalized", "HasAttachment",
            "HasDefect"})
    @@ Enum({"TestExecutionType", "Status"})
    @@ Model("ApiFieldValueUser", {"LastEditor", "Tester", "IrrelevantFlaggedBy"})
    @@ Model("ApiFieldValueDateTime", {"ExecutionDate", "LastModified", "IrrelevantFlaggedAt"})
    @@ Model("ApiFieldValueTimeSpan", {"ExecutionDuration"})
    @@ Model("ApiTestExecutionTestScenarioInfo", {"TestScenarioInfo"})
    @@ ModelList("ApiLabelAttached", {"AttachedLabels"})
    @@ ModelList("ApiFieldWithValue", {"CustomFields"})
    @@ Model("ApiItem", {"HistoryTestCase"}))

ApiTestExecutionLog ==
  Closed(
    Plain({"Id", "StepName", "StepIndex", "Message", "DetailedMessage",
            "ScreenShotCheckSum", "Category"})
    @@ Model("ApiFieldValueDateTime", {"OccurrenceTime"})
    @@ Enum({"Type"}))

ApiTestExecutionLogUserEntryNew ==
  Closed(
    PlainNeeded({"Category", "Message"})
    @@ EnumNeeded({"Type"})
    @@ Plain({"DetailedMessage"})
    @@ DateOrNull({"OccurrenceTime"}))

ApiTestExecutionNew ==
  Closed(
    Plain({"Guid", "TestCaseId", "TestCaseName", "Finalize", "ValueSetName",
            "TestedVersion"})
    @@ Model("ApiTestExecutionNewTestScenarioInfo", {"TestScenarioInfo"})
    @@ ModelList("ApiTestStepExecutionNew", {"Steps"})
    @@ Model("ApiFieldValueTimeSpan", {"ExecutionDuration"})
    @@ ModelList("ApiLabelAttached", {"AttachedLabels"})
    @@ ModelList("ApiFieldUpdate", {"CustomFields"})
    @@ ModelList("ApiAttachmentNew", {"Attachments"}))

ApiTestExecutionNewResponse == Closed(PlainNeeded({"Context"}))

ApiTestExecutionNewTestScenarioInfo ==
  Closed(
    Plain({"Index", "TestScenarioId", "TestJobId"})
    @@ ModelList("ApiRunDependencyEntry", {"RunDependency"}))

ApiTestExecutionPatchRequest ==
  Closed(
    PlainNeeded({"PatchType"})
    @@ Plain({"TestExecutionsIds"}))

ApiTestExecutionPatchResponse ==
  Closed(
    Plain({"Guid"})
    @@ Enum({"ModifyingStatus"}))

ApiTestExecutionPermission ==
  Closed(
    Enum({"CanCreate", "CanCreateDependency", "CanCreateExecutionLog"}))

ApiTestExecutionTestScenarioInfo ==
  Closed(
    Plain({"Index", "TestScenarioId", "TestScenarioExecutionId", "TestJobId"})
    @@ ModelList("ApiRunDependencyEntry", {"RunDependency"})
    @@ Model("ApiTestScenarioExecutionStatistics", {"ExecutionStatistics"}))

ApiTestExecutionUpdate ==
  Open(
    Model("ApiAttachments", {"Attachments"})
    @@ ModelList("ApiTestStepExecutionUpdate", {"Steps"})
    @@ Plain({"TestedVersion", "Id", "Finalize", "IsContinuation"})
    @@ ModelList("ApiLabelAttached", {"AttachedLabels"})
    @@ Model("ApiFieldValueTimeSpan", {"ExecutionDuration"})
    @@ ModelList("ApiFieldUpdate", {"CustomFields"}))

ApiTestJob ==
  Closed(
    PlainNeeded({"Id", "Index"})
    @@ Plain({"TestedVersion"})
    @@ ModelList("ApiRunDependencyEntry", {"RunDependency"})
    @@ Model("ApiTestCaseJobInfo", {"TestCaseInfo"})
    @@ Model("ApiAgentIdAndName", {"AgentToUse"})
    @@ Model("ApiTestDataReferencedValueSetInfo", {"SelectedValueSet"})
    @@ ModelList("ApiLabelReference", {"Labels"})
    @@ Model("ApiLastExecutionInfo", {"LastExecutionInfo"})
    @@ Model("ApiTestCaseExecutionHistory", {"ExecutionHistory"})
    @@ Model("ApiFieldValueUser", {"Tester"})
    @@ ModelList("ApiFieldWithValue", {"CustomFields"}))

ApiTestJobDetailsUpdate ==
  Closed(
    Plain({"AgentToUse", "ValueSetGuid", "TestedVersion", "TesterId"})
    @@ ModelList("ApiLabelInfo", {"Labels"})
    @@ ModelList("ApiFieldUpdate", {"CustomFields"}))

ApiTestJobNew ==
  Open(
    PlainNeeded({"IndexInTestScenario", "TestCaseId"})
    @@ ModelList("ApiRunDependencyEntry", {"RunDependency"})
    @@ Model("ApiTestJobDetailsUpdate", {"Details"}))

ApiTestJobPreview ==
  Closed(
    PlainNeeded({"ProjectId", "FolderId", "TestCaseId", "TestCaseName"})
    @@ Enum({"SupportsAutomaticExecution"})
    @@ Plain({"HasVariables"})
    @@ ItemList({"RequiredAgentTechnologies"})
    @@ Model("ApiTestDataValueSetInfo", {"DefaultValueSet"}))

ApiTestJobPreviewResponse ==
  Closed(
    Plain({"NotAccessibleTestCases"})
    @@ ModelList("ApiTestJobPreview", {"TestJobPreview"}))

ApiTestJobUpdate ==
  Closed(
    PlainNeeded({"IndexInTestScenario"})
    @@ ModelList("ApiRunDependencyEntry", {"RunDependency"})
    @@ Model("ApiTestJobDetailsUpdate", {"Details"}))

ApiTestJobUpdateWithId ==
  Open(
    PlainNeeded({"IndexInTestScenario", "Id"})
    @@ ModelList("ApiRunDependencyEntry", {"RunDependency"})
    @@ Model("ApiTestJobDetailsUpdate", {"Details"}))

ApiTestJobsUpdate ==
  Closed(
    ModelList("ApiTestJobNew", {"Added"})
    @@ ModelList("ApiTestJobUpdateWithId", {"Modified"})
    @@ Plain({"Removed"}))

ApiTestScenario ==
  Open(
    Plain({"Id", "FormattedId", "Name", "Archived", "HasDependency", "HasFiles",
            "HasTestCases", "HasExecutions"})
    @@ Enum({"Type", "LastExecutionStatus"})
    @@ Model("ApiItemVersion", {"Version"})
    @@ Model("ApiItemLocation", {"Location"})
    @@ Model("ApiFieldValueDateTime", {"LastModified"})
    @@ Model("ApiEditableInfo", {"EditableInfo"})
    @@ Model("ApiItemPermissions", {"Permissions"})
    @@ EnumOrNull({"SyncStatus"})
    @@ ModelList("ApiFieldWithValue", {"Details"})
    @@ Model("ApiEditLayout", {"EditLayout"})
    @@ Model("ApiRichText", {"Description"}))

ApiTestScenarioExecutionPreviewRequest == Closed(Plain({"TestedVersion", "TestJobIds"}))

ApiTestScenarioExecutionPreviewResponse ==
  Closed(
    ModelListNeeded("ApiTestExecutionNew", {"NewTestExecutions"})
    @@ ModelNeeded("ApiTestExecutionCreateMeta", {"CreateMeta"})
    @@ Plain({"RequireActualResult"})
    @@ Enum({"CanFinalizeTestExecution"}))

ApiTestScenarioExecutionStatistics ==
  Closed(
    Plain({"NotRun", "Incomplete", "Failed", "Pass", "Queued", "InProgress", "Aborted",
            "Blocked", "Waiting", "NotApplicable"}))

ApiTestStep ==
  Open(
    Plain({"Name", "Index", "Id"})
    @@ Model("ApiRichText", {"Description", "ExpectedResult", "ActualResultTemplate"})
    @@ Enum({"StepType"})
    @@ Model("ApiAutomation", {"Automation"})
    @@ Model("ApiNestedTestCaseInfo", {"NestedTestCase"}))

ApiTestStepExecution ==
  Closed(
    Plain({"Id", "Name", "Index", "AgentsUsed", "HasDefect"})
    @@ Enum({"Status", "StepType", "AutomationTechnology"})
    @@ Model("ApiRichText", {"Description", "ExpectedResults", "ActualResults"})
    @@ Model("ApiUserInfo", {"ActualResultsLastUpdatedBy"})
    @@ Date({"ActualResultsLastUpdated"})
    @@ Model("ApiFieldValueUser", {"LastEditor"}))

ApiTestStepExecutionNew ==
  Closed(
    Plain({"Index", "Name"})
    @@ Enum({"StepType", "Status"})
    @@ Model("ApiRichText", {"Description", "ExpectedResults", "ActualResults"})
    @@ Model("ApiUserInfo", {"ActualResultsLastUpdatedBy"})
    @@ Date({"ActualResultsLastUpdated"}))

ApiTestStepExecutionUpdate ==
  Open(
    EnumOrNull({"Status"})
    @@ Model("ApiRichText", {"ActualResults"})
    @@ Plain({"Id"})
    @@ Model("ApiUserInfo", {"ActualResultsLastUpdatedBy"})
    @@ Date({"ActualResultsLastUpdated"}))

ApiTestStepExecutionUpdateSingleStep ==
  Closed(
    EnumOrNull({"Status"})
    @@ Model("ApiRichText", {"ActualResults"}))

ApiTestStepNew ==
  Open(
    Plain({"Name", "Index"})
    @@ Model("ApiRichText", {"Description", "ExpectedResult", "ActualResultTemplate"})
    @@ Enum({"StepType"})
    @@ Model("ApiAutomationSave", {"Automation"})
    @@ Model("ApiNestedTestCaseInfoNew", {"NestedTestCase"}))

ApiTestStepUpdate ==
  Closed(
    Plain({"Name", "Index"})
    @@ Model("ApiRichText", {"Description", "ExpectedResult", "ActualResultTemplate"})
    @@ Model("ApiNestedTestCaseInfoUpdate", {"NestedTestCase"})
    @@ Model("ApiAutomationSave", {"Automation"}))

ApiTestStepUpdateWithId ==
  Open(
    Plain({"Name", "Index", "Id"})
    @@ Model("ApiRichText", {"Description", "ExpectedResult", "ActualResultTemplate"})
    @@ Model("ApiNestedTestCaseInfoUpdate", {"NestedTestCase"})
    @@ Model("ApiAutomationSave", {"Automation"}))

ApiTestStepsUpdate ==
  Closed(
    ModelList("ApiTestStepNew", {"Added"})
    @@ ModelList("ApiTestStepUpdateWithId", {"Modified"})
    @@ Plain({"Removed"}))

ApiUserView ==
  Open(
    Plain({"Id", "Name", "Description", "Color", "IsPublic", "IsFavorite"})
    @@ Model("ApiUserInfo", {"Owner"})
    @@ Model("ApiUserViewPermissions", {"Permissions"})
    @@ ItemList({"ApplicableItemTypes"})
    @@ Model("ApiFilter", {"Filter"})
    @@ ModelList("ApiUserViewColumnSortGroupInfo", {"SortingGrouping"})
    @@ ModelList("ApiUserViewColumnInfo", {"Columns"}))

ApiUserViewColumnInfo == Closed(Plain({"FieldId", "Title", "Width"}))

ApiUserViewColumnSortGroupInfo ==
  Closed(
    Plain({"FieldId", "Title", "IsGrouped"})
    @@ Enum({"SortOrder"}))

ApiUserViewColumnSortGroupUpdate ==
  Closed(
    Plain({"FieldId", "IsGrouped"})
    @@ Enum({"SortOrder"}))

ApiUserViewColumnUpdate == Closed(Plain({"FieldId", "Width"}))

ApiUserViewNew ==
  Open(
    Plain({"Name", "Description", "Color", "IsPublic", "ProjectId"})
    @@ Model("ApiUserViewUpdateFieldsData", {"FieldsData"})
    @@ ItemList({"ApplicableItemTypes"}))

ApiUserViewNewResponse == Closed(Plain({"UserViewId"}))

ApiUserViewPatchCollectionOperation == Closed(PlainNeeded({"PatchOperation"}))

ApiUserViewPatchCollectionResponse == Closed(NoFields)

ApiUserViewUpdate ==
  Closed(
    Plain({"Name", "Description", "Color", "IsPublic"})
    @@ Model("ApiUserViewUpdateFieldsData", {"FieldsData"})
    @@ ItemList({"ApplicableItemTypes"}))

ApiUserViewUpdateFieldsData ==
  Closed(
    EnumNeeded({"ItemType"})
    @@ Model("ApiFilterUpdate", {"Filter"})
    @@ ModelList("ApiUserViewColumnUpdate", {"Columns"})
    @@ ModelList("ApiUserViewColumnSortGroupUpdate", {"SortingGrouping"}))

ApiWatcherNew == Closed(Plain({"UserId"}))

ApiWatchersUpdate == Closed(Plain({"UserIdsAdded", "UserIdsRemoved"}))

DefectAddAttachmentMultipartData == Open(ItemListStrict({"file"}))

IApiRelationItemExtra == Closed(NoFields)

RequirementAddAttachmentMultipartData == Open(ItemListStrict({"file"}))

ScriptAddAttachmentMultipartData == Open(ItemListStrict({"file"}))

TestCaseAddAttachmentMultipartData == Open(ItemListStrict({"file"}))

TestCaseImportTestDataMultipartData == Open(ItemListStrict({"file"}))

TestCaseImportTestDataWithoutSaveMultipartData == Open(ItemListStrict({"file"}))

TestExecutionAddAttachmentMultipartData == Open(ItemListStrict({"file"}))

TestScenarioAddAttachmentMultipartData == Open(ItemListStrict({"file"}))

ValueTupleOfIntegerAndString == Closed(Plain({"Item1", "Item2"}))

ItemSchemas ==
  [ApiAddSingleTestJobResponse |-> ApiAddSingleTestJobResponse,
   ApiAddSingleTestStepResponse |-> ApiAddSingleTestStepResponse,
   ApiAgentIdAndName |-> ApiAgentIdAndName, ApiAttachmentInfo |-> ApiAttachmentInfo,
   ApiAttachmentNew |-> ApiAttachmentNew, ApiAttachments |-> ApiAttachments,
   ApiAutomatedTestCaseExecution |-> ApiAutomatedTestCaseExecution,
   ApiAutomatedTestScenarioExecutionRequest |-> ApiAutomatedTestScenarioExecutionRequest,
   ApiAutomatedTestScenarioExecutionResponse |-> ApiAutomatedTestScenarioExecutionResponse,
   ApiAutomation |-> ApiAutomation, ApiAutomationSave |-> ApiAutomationSave,
   ApiAutomationScript |-> ApiAutomationScript,
   ApiAutomationScriptSave |-> ApiAutomationScriptSave,
   ApiBatchAllowedValuesRequest |-> ApiBatchAllowedValuesRequest,
   ApiBatchAllowedValuesResponse |-> ApiBatchAllowedValuesResponse,
   ApiBatchAllowedValuesResponseEntry |-> ApiBatchAllowedValuesResponseEntry,
   ApiBatchOperation |-> ApiBatchOperation,
   ApiBulkExecutionsRequest |-> ApiBulkExecutionsRequest, ApiDefect |-> ApiDefect,
   ApiEnclosure |-> ApiEnclosure, ApiEnclosurePermissions |-> ApiEnclosurePermissions,
   ApiEnclosureUpdate |-> ApiEnclosureUpdate,
   ApiEnclosureUpdateWithId |-> ApiEnclosureUpdateWithId,
   ApiEnclosuresUpdate |-> ApiEnclosuresUpdate, ApiExternalInfo |-> ApiExternalInfo,
   ApiField |-> ApiField, ApiFieldPlaceholder |-> ApiFieldPlaceholder,
   ApiFieldPlaceholders |-> ApiFieldPlaceholders, ApiFieldUpdate |-> ApiFieldUpdate,
   ApiFieldValueTimeSpan |-> ApiFieldValueTimeSpan, ApiFieldValueUser |-> ApiFieldValueUser,
   ApiGlobalSearchItem |-> ApiGlobalSearchItem,
   ApiGlobalSearchRequest |-> ApiGlobalSearchRequest,
   ApiGlobalSearchResult |-> ApiGlobalSearchResult,
   ApiHistoryAttachments |-> ApiHistoryAttachments,
   ApiHistoryAutomation |-> ApiHistoryAutomation,
   ApiHistoryAutomationModified |-> ApiHistoryAutomationModified,
   ApiHistoryDependencyChanged |-> ApiHistoryDependencyChanged,
   ApiHistoryEnclosureChanged |-> ApiHistoryEnclosureChanged,
   ApiHistoryEntry |-> ApiHistoryEntry, ApiHistoryEntryDefect |-> ApiHistoryEntryDefect,
   ApiHistoryEntryRequirement |-> ApiHistoryEntryRequirement,
   ApiHistoryEntryTestCase |-> ApiHistoryEntryTestCase,
   ApiHistoryEntryTestScenario |-> ApiHistoryEntryTestScenario,
   ApiHistoryFieldChanged |-> ApiHistoryFieldChanged,
   ApiHistoryItemCreated |-> ApiHistoryItemCreated,
   ApiHistoryItemMigrated |-> ApiHistoryItemMigrated,
   ApiHistoryItemMoved |-> ApiHistoryItemMoved,
   ApiHistoryPostChanged |-> ApiHistoryPostChanged,
   ApiHistoryScriptFileModified |-> ApiHistoryScriptFileModified,
   ApiHistorySubrequirements |-> ApiHistorySubrequirements,
   ApiHistorySyncEvent |-> ApiHistorySyncEvent, ApiHistoryTestData |-> ApiHistoryTestData,
   ApiHistoryTestJobModified |-> ApiHistoryTestJobModified,
   ApiHistoryTestJobs |-> ApiHistoryTestJobs,
   ApiHistoryTestStepModified |-> ApiHistoryTestStepModified,
   ApiHistoryTestSteps |-> ApiHistoryTestSteps, ApiHistoryUserCCs |-> ApiHistoryUserCCs,
   ApiItemArrangement |-> ApiItemArrangement,
   ApiItemArrangementGrouping |-> ApiItemArrangementGrouping,
   ApiItemCreateMeta |-> ApiItemCreateMeta, ApiItemEditMeta |-> ApiItemEditMeta,
   ApiItemEditStatus |-> ApiItemEditStatus, ApiItemExportRequest |-> ApiItemExportRequest,
   ApiItemGroup |-> ApiItemGroup, ApiItemGroupsResult |-> ApiItemGroupsResult,
   ApiItemIdentifier |-> ApiItemIdentifier, ApiItemImportRequest |-> ApiItemImportRequest,
   ApiItemLocationUpdate |-> ApiItemLocationUpdate,
   ApiItemNewWithDescription |-> ApiItemNewWithDescription,
   ApiItemNewWithEnclosures |-> ApiItemNewWithEnclosures,
   ApiItemNewWithTestDataAndTestSteps |-> ApiItemNewWithTestDataAndTestSteps,
   ApiItemNewWithTestJobs |-> ApiItemNewWithTestJobs,
   ApiItemUpdateWithDescription |-> ApiItemUpdateWithDescription,
   ApiItemUpdateWithEnclosures |-> ApiItemUpdateWithEnclosures,
   ApiItemUpdateWithTestDataAndTestSteps |-> ApiItemUpdateWithTestDataAndTestSteps,
   ApiItemUpdateWithTestJobs |-> ApiItemUpdateWithTestJobs,
   ApiItemsPatchRequest |-> ApiItemsPatchRequest, ApiLabel |-> ApiLabel,
   ApiLabelAttached |-> ApiLabelAttached, ApiLabelInfo |-> ApiLabelInfo,
   ApiLabelListResult |-> ApiLabelListResult, ApiLabelNew |-> ApiLabelNew,
   ApiLabelNewResponse |-> ApiLabelNewResponse, ApiLabelReference |-> ApiLabelReference,
   ApiLabelUpdate |-> ApiLabelUpdate, ApiLastExecutionInfo |-> ApiLastExecutionInfo,
   ApiLockNew |-> ApiLockNew,
   ApiNavigationDependencyResponse |-> ApiNavigationDependencyResponse,
   ApiNestedTestCaseInfo |-> ApiNestedTestCaseInfo,
   ApiNestedTestCaseInfoNew |-> ApiNestedTestCaseInfoNew,
   ApiNestedTestCaseInfoUpdate |-> ApiNestedTestCaseInfoUpdate,
   ApiPaginatedResultOfApiTestExecutionInfo |-> ApiPaginatedResultOfApiTestExecutionInfo,
   ApiPost |-> ApiPost, ApiPostInfo |-> ApiPostInfo, ApiPostPaginated |-> ApiPostPaginated,
   ApiProjectTreePathResponse |-> ApiProjectTreePathResponse,
   ApiRedirectResult |-> ApiRedirectResult, ApiRelation |-> ApiRelation,
   ApiRelationCreateMeta |-> ApiRelationCreateMeta,
   ApiRelationCreateMetaAllowedTypes |-> ApiRelationCreateMetaAllowedTypes,
   ApiRelationNew |-> ApiRelationNew, ApiRelations |-> ApiRelations,
   ApiRequirement |-> ApiRequirement, ApiRichText |-> ApiRichText,
   ApiRunDependencyEntry |-> ApiRunDependencyEntry, ApiScript |-> ApiScript,
   ApiSubrequirement |-> ApiSubrequirement, ApiSubrequirementNew |-> ApiSubrequirementNew,
   ApiSubrequirementUpdate |-> ApiSubrequirementUpdate,
   ApiSubrequirementsNew |-> ApiSubrequirementsNew,
   ApiSubrequirementsUpdate |-> ApiSubrequirementsUpdate, ApiTestCase |-> ApiTestCase,
   ApiTestCaseCreateMeta |-> ApiTestCaseCreateMeta,
   ApiTestCaseEditMeta |-> ApiTestCaseEditMeta,
   ApiTestCaseExecutionDefaults |-> ApiTestCaseExecutionDefaults,
   ApiTestCaseExecutionDefaultsUpdate |-> ApiTestCaseExecutionDefaultsUpdate,
   ApiTestCaseExecutionHistory |-> ApiTestCaseExecutionHistory,
   ApiTestCaseExecutionHistoryEntry |-> ApiTestCaseExecutionHistoryEntry,
   ApiTestCaseExecutionPreviewRequest |-> ApiTestCaseExecutionPreviewRequest,
   ApiTestCaseExecutionPreviewResponse |-> ApiTestCaseExecutionPreviewResponse,
   ApiTestCaseJobInfo |-> ApiTestCaseJobInfo,
   ApiTestCasesHaveStepsResponse |-> ApiTestCasesHaveStepsResponse,
   ApiTestCasesHaveStepsResponseTestCases |-> ApiTestCasesHaveStepsResponseTestCases,
   ApiTestData |-> ApiTestData, ApiTestDataNew |-> ApiTestDataNew,
   ApiTestDataPreview |-> ApiTestDataPreview,
   ApiTestDataReferencedValueSetInfo |-> ApiTestDataReferencedValueSetInfo,
   ApiTestDataUpdate |-> ApiTestDataUpdate, ApiTestDataValueSet |-> ApiTestDataValueSet,
   ApiTestDataValueSetInfo |-> ApiTestDataValueSetInfo,
   ApiTestDataValueSetNew |-> ApiTestDataValueSetNew,
   ApiTestDataValueSetUpdate |-> ApiTestDataValueSetUpdate,
   ApiTestDataVariable |-> ApiTestDataVariable,
   ApiTestDataVariableWithValue |-> ApiTestDataVariableWithValue,
   ApiTestExecution |-> ApiTestExecution,
   ApiTestExecutionContinueResponse |-> ApiTestExecutionContinueResponse,
   ApiTestExecutionCreateLock |-> ApiTestExecutionCreateLock,
   ApiTestExecutionCreateMeta |-> ApiTestExecutionCreateMeta,
   ApiTestExecutionDataAttribute |-> ApiTestExecutionDataAttribute,
   ApiTestExecutionExtendedInfo |-> ApiTestExecutionExtendedInfo,
   ApiTestExecutionInfo |-> ApiTestExecutionInfo,
   ApiTestExecutionLog |-> ApiTestExecutionLog,
   ApiTestExecutionLogUserEntryNew |-> ApiTestExecutionLogUserEntryNew,
   ApiTestExecutionNew |-> ApiTestExecutionNew,
   ApiTestExecutionNewResponse |-> ApiTestExecutionNewResponse,
   ApiTestExecutionNewTestScenarioInfo |-> ApiTestExecutionNewTestScenarioInfo,
   ApiTestExecutionPatchRequest |-> ApiTestExecutionPatchRequest,
   ApiTestExecutionPatchResponse |-> ApiTestExecutionPatchResponse,
   ApiTestExecutionPermission |-> ApiTestExecutionPermission,
   ApiTestExecutionTestScenarioInfo |-> ApiTestExecutionTestScenarioInfo,
   ApiTestExecutionUpdate |-> ApiTestExecutionUpdate, ApiTestJob |-> ApiTestJob,
   ApiTestJobDetailsUpdate |-> ApiTestJobDetailsUpdate, ApiTestJobNew |-> ApiTestJobNew,
   ApiTestJobPreview |-> ApiTestJobPreview,
   ApiTestJobPreviewResponse |-> ApiTestJobPreviewResponse,
   ApiTestJobUpdate |-> ApiTestJobUpdate, ApiTestJobUpdateWithId |-> ApiTestJobUpdateWithId,
   ApiTestJobsUpdate |-> ApiTestJobsUpdate, ApiTestScenario |-> ApiTestScenario,
   ApiTestScenarioExecutionPreviewRequest |-> ApiTestScenarioExecutionPreviewRequest,
   ApiTestScenarioExecutionPreviewResponse |-> ApiTestScenarioExecutionPreviewResponse,
   ApiTestScenarioExecutionStatistics |-> ApiTestScenarioExecutionStatistics,
   ApiTestStep |-> ApiTestStep, ApiTestStepExecution |-> ApiTestStepExecution,
   ApiTestStepExecutionNew |-> ApiTestStepExecutionNew,
   ApiTestStepExecutionUpdate |-> ApiTestStepExecutionUpdate,
   ApiTestStepExecutionUpdateSingleStep |-> ApiTestStepExecutionUpdateSingleStep,
   ApiTestStepNew |-> ApiTestStepNew, ApiTestStepUpdate |-> ApiTestStepUpdate,
   ApiTestStepUpdateWithId |-> ApiTestStepUpdateWithId,
   ApiTestStepsUpdate |-> ApiTestStepsUpdate, ApiUserView |-> ApiUserView,
   ApiUserViewColumnInfo |-> ApiUserViewColumnInfo,
   ApiUserViewColumnSortGroupInfo |-> ApiUserViewColumnSortGroupInfo,
   ApiUserViewColumnSortGroupUpdate |-> ApiUserViewColumnSortGroupUpdate,
   ApiUserViewColumnUpdate |-> ApiUserViewColumnUpdate, ApiUserViewNew |-> ApiUserViewNew,
   ApiUserViewNewResponse |-> ApiUserViewNewResponse,
   ApiUserViewPatchCollectionOperation |-> ApiUserViewPatchCollectionOperation,
   ApiUserViewPatchCollectionResponse |-> ApiUserViewPatchCollectionResponse,
   ApiUserViewUpdate |-> ApiUserViewUpdate,
   ApiUserViewUpdateFieldsData |-> ApiUserViewUpdateFieldsData,
   ApiWatcherNew |-> ApiWatcherNew, ApiWatchersUpdate |-> ApiWatchersUpdate,
   DefectAddAttachmentMultipartData |-> DefectAddAttachmentMultipartData,
   IApiRelationItemExtra |-> IApiRelationItemExtra,
   RequirementAddAttachmentMultipartData |-> RequirementAddAttachmentMultipartData,
   ScriptAddAttachmentMultipartData |-> ScriptAddAttachmentMultipartData,
   TestCaseAddAttachmentMultipartData |-> TestCaseAddAttachmentMultipartData,
   TestCaseImportTestDataMultipartData |-> TestCaseImportTestDataMultipartData,
   TestCaseImportTestDataWithoutSaveMultipartData |-> TestCaseImportTestDataWithoutSaveMultipartData,
   TestExecutionAddAttachmentMultipartData |-> TestExecutionAddAttachmentMultipartData,
   TestScenarioAddAttachmentMultipartData |-> TestScenarioAddAttachmentMultipartData,
   ValueTupleOfIntegerAndString |-> ValueTupleOfIntegerAndString]
============================================================================
