-------------------------- MODULE RestFieldSchemas --------------------------
(*****************************************************************************)
(* The generated model classes of fields, items and batches that no endpoint *)
(* refers to: the variants of a field, a field value, a batch operation.     *)
(* Each definition says what to_dict and from_dict of the class do; the      *)
(* patterns are those of RestCodec.                                          *)
(*****************************************************************************)
EXTENDS RestCodec, TLC

ApiBatchFieldUpdate ==
  Closed(
    PlainNeeded({"UpdateType"})
    @@ Plain({"Value", "UpdateOnlyIfEmpty"}))

ApiBatchFieldUpdateMultiChoiceFieldDifferential ==
  Open(
    PlainNeeded({"UpdateType"})
    @@ Plain({"Value", "UpdateOnlyIfEmpty", "FieldId", "Add"}))

ApiBatchFieldUpdateNewEnclosure ==
  Open(
    PlainNeeded({"UpdateType"})
    @@ Plain({"Value", "UpdateOnlyIfEmpty"})
    @@ Enum({"EnclosureType"}))

ApiBatchFieldUpdateRegularField ==
  Open(
    PlainNeeded({"UpdateType"})
    @@ Plain({"Value", "UpdateOnlyIfEmpty", "FieldId"}))

ApiBatchItemOperationIssue ==
  Closed(
    Model("ApiItemIdentifier", {"Item"})
    @@ Model("ApiBatchItemUpdateIssueDetailsBase", {"Reason"})
    @@ Enum({"IssueType"}))

ApiBatchItemUpdateFieldIssueDetails ==
  Open(
    PlainNeeded({"DetailsType"})
    @@ Enum({"Type"})
    @@ Plain({"SourceFieldName", "TargetFieldName"}))

ApiBatchItemUpdateIssueDetails ==
  Open(
    PlainNeeded({"DetailsType"})
    @@ Enum({"Type"}))

ApiBatchItemUpdateIssueDetailsBase ==
  Closed(
    PlainNeeded({"DetailsType"})
    @@ Enum({"Type"}))

ApiEditLayoutEntryField ==
  Open(
    PlainNeeded({"EntryType"})
    @@ Plain({"FieldId", "ColSpan", "StartsNewLine"}))

ApiEditLayoutEntryGroup ==
  Open(
    PlainNeeded({"EntryType"})
    @@ Plain({"Caption", "Expanded"})
    @@ ModelList("ApiEditLayoutEntry", {"GroupMembers"}))

ApiFieldMetaDateTime ==
  Open(
    PlainNeeded({"FieldType"})
    @@ Plain({"Id", "Title", "IsCustom", "IsGroupableInCharts", "SupportsFieldRules",
               "SupportedFilterOperations", "IsFilterable", "IsSortable", "IsAffectable",
               "IsGroupable", "IsActive", "SupportsBatchUpdate", "FieldMask"})
    @@ Model("ApiFieldEditMeta", {"EditMeta"}))

ApiFieldMetaDecimal ==
  Open(
    PlainNeeded({"FieldType"})
    @@ Plain({"Id", "Title", "IsCustom", "IsGroupableInCharts", "SupportsFieldRules",
               "SupportedFilterOperations", "IsFilterable", "IsSortable", "IsAffectable",
               "IsGroupable", "IsActive", "SupportsBatchUpdate", "FieldMask", "Min", "Max"})
    @@ Model("ApiFieldEditMeta", {"EditMeta"}))

ApiFieldMetaDictionary ==
  Open(
    PlainNeeded({"FieldType"})
    @@ Plain({"Id", "Title", "IsCustom", "IsGroupableInCharts", "SupportsFieldRules",
               "SupportedFilterOperations", "IsFilterable", "IsSortable", "IsAffectable",
               "IsGroupable", "IsActive", "SupportsBatchUpdate", "IsShared"})
    @@ Model("ApiFieldEditMeta", {"EditMeta"})
    @@ ModelList("ApiFieldMetaDictionaryEntry", {"Entries"}))

ApiFieldMetaDictionaryEntry == Closed(Plain({"Id", "Name", "IsDefault", "IsDeleted"}))

ApiFieldMetaDictionaryMultiChoice ==
  Open(
    PlainNeeded({"FieldType"})
    @@ Plain({"Id", "Title", "IsCustom", "IsGroupableInCharts", "SupportsFieldRules",
               "SupportedFilterOperations", "IsFilterable", "IsSortable", "IsAffectable",
               "IsGroupable", "IsActive", "SupportsBatchUpdate", "IsShared"})
    @@ Model("ApiFieldEditMeta", {"EditMeta"})
    @@ ModelList("ApiFieldMetaDictionaryEntry", {"Entries"}))

ApiFieldMetaExecutionHistory ==
  Open(
    PlainNeeded({"FieldType"})
    @@ Plain({"Id", "Title", "IsCustom", "IsGroupableInCharts", "SupportsFieldRules",
               "SupportedFilterOperations", "IsFilterable", "IsSortable", "IsAffectable",
               "IsGroupable", "IsActive", "SupportsBatchUpdate"})
    @@ Model("ApiFieldEditMeta", {"EditMeta"}))

ApiFieldMetaFlag ==
  Open(
    PlainNeeded({"FieldType"})
    @@ Plain({"Id", "Title", "IsCustom", "IsGroupableInCharts", "SupportsFieldRules",
               "SupportedFilterOperations", "IsFilterable", "IsSortable", "IsAffectable",
               "IsGroupable", "IsActive", "SupportsBatchUpdate"})
    @@ Model("ApiFieldEditMeta", {"EditMeta"}))

ApiFieldMetaId ==
  Open(
    PlainNeeded({"FieldType"})
    @@ Plain({"Id", "Title", "IsCustom", "IsGroupableInCharts", "SupportsFieldRules",
               "SupportedFilterOperations", "IsFilterable", "IsSortable", "IsAffectable",
               "IsGroupable", "IsActive", "SupportsBatchUpdate"})
    @@ Model("ApiFieldEditMeta", {"EditMeta"}))

ApiFieldMetaSprint ==
  Open(
    PlainNeeded({"FieldType"})
    @@ Plain({"Id", "Title", "IsCustom", "IsGroupableInCharts", "SupportsFieldRules",
               "SupportedFilterOperations", "IsFilterable", "IsSortable", "IsAffectable",
               "IsGroupable", "IsActive", "SupportsBatchUpdate"})
    @@ Model("ApiFieldEditMeta", {"EditMeta"}))

ApiFieldMetaString ==
  Open(
    PlainNeeded({"FieldType"})
    @@ Plain({"Id", "Title", "IsCustom", "IsGroupableInCharts", "SupportsFieldRules",
               "SupportedFilterOperations", "IsFilterable", "IsSortable", "IsAffectable",
               "IsGroupable", "IsActive", "SupportsBatchUpdate", "FieldMask", "Length"})
    @@ Model("ApiFieldEditMeta", {"EditMeta"}))

ApiFieldMetaStringAutoComplete ==
  Open(
    PlainNeeded({"FieldType"})
    @@ Plain({"Id", "Title", "IsCustom", "IsGroupableInCharts", "SupportsFieldRules",
               "SupportedFilterOperations", "IsFilterable", "IsSortable", "IsAffectable",
               "IsGroupable", "IsActive", "SupportsBatchUpdate", "FieldMask", "Length"})
    @@ Model("ApiFieldEditMeta", {"EditMeta"}))

ApiFieldMetaStringList ==
  Open(
    PlainNeeded({"FieldType"})
    @@ Plain({"Id", "Title", "IsCustom", "IsGroupableInCharts", "SupportsFieldRules",
               "SupportedFilterOperations", "IsFilterable", "IsSortable", "IsAffectable",
               "IsGroupable", "IsActive", "SupportsBatchUpdate"})
    @@ Model("ApiFieldEditMeta", {"EditMeta"}))

ApiFieldMetaTestJobStatistics ==
  Open(
    PlainNeeded({"FieldType"})
    @@ Plain({"Id", "Title", "IsCustom", "IsGroupableInCharts", "SupportsFieldRules",
               "SupportedFilterOperations", "IsFilterable", "IsSortable", "IsAffectable",
               "IsGroupable", "IsActive", "SupportsBatchUpdate"})
    @@ Model("ApiFieldEditMeta", {"EditMeta"}))

ApiFieldMetaTestScenarios ==
  Open(
    PlainNeeded({"FieldType"})
    @@ Plain({"Id", "Title", "IsCustom", "IsGroupableInCharts", "SupportsFieldRules",
               "SupportedFilterOperations", "IsFilterable", "IsSortable", "IsAffectable",
               "IsGroupable", "IsActive", "SupportsBatchUpdate"})
    @@ Model("ApiFieldEditMeta", {"EditMeta"}))

ApiFieldMetaTimeSpan ==
  Open(
    PlainNeeded({"FieldType"})
    @@ Plain({"Id", "Title", "IsCustom", "IsGroupableInCharts", "SupportsFieldRules",
               "SupportedFilterOperations", "IsFilterable", "IsSortable", "IsAffectable",
               "IsGroupable", "IsActive", "SupportsBatchUpdate"})
    @@ Model("ApiFieldEditMeta", {"EditMeta"}))

ApiFieldMetaUser ==
  Open(
    PlainNeeded({"FieldType"})
    @@ Plain({"Id", "Title", "IsCustom", "IsGroupableInCharts", "SupportsFieldRules",
               "SupportedFilterOperations", "IsFilterable", "IsSortable", "IsAffectable",
               "IsGroupable", "IsActive", "SupportsBatchUpdate"})
    @@ Model("ApiFieldEditMeta", {"EditMeta"}))

ApiFieldMetaUserMultiChoice ==
  Open(
    PlainNeeded({"FieldType"})
    @@ Plain({"Id", "Title", "IsCustom", "IsGroupableInCharts", "SupportsFieldRules",
               "SupportedFilterOperations", "IsFilterable", "IsSortable", "IsAffectable",
               "IsGroupable", "IsActive", "SupportsBatchUpdate"})
    @@ Model("ApiFieldEditMeta", {"EditMeta"}))

ApiFieldPatchOperationActivateField ==
  Open(
    PlainNeeded({"FieldId", "PatchOperation"})
    @@ Enum({"ItemType"}))

ApiFieldPatchOperationDeactivateField ==
  Open(
    PlainNeeded({"FieldId", "PatchOperation"})
    @@ Enum({"ItemType"}))

ApiFieldRuleDependentValues ==
  Open(
    PlainNeeded({"Guid", "FieldId", "RuleType", "OtherFieldId"})
    @@ ModelListNeeded("ApiFieldValueRestriction", {"Restrictions"}))

ApiFieldRuleDependentValuesUpdate ==
  Open(
    PlainNeeded({"FieldId", "RuleType", "OtherFieldId"})
    @@ ModelListNeeded("ApiFieldValueRestrictionUpdate", {"Restrictions"}))

ApiFieldRuleWorkflow ==
  Open(
    PlainNeeded({"Guid", "FieldId", "RuleType"})
    @@ ModelListNeeded("ApiFieldRuleWorkflowTransition", {"Transitions"}))

ApiFieldRuleWorkflowActions ==
  Closed(
    PlainNeeded({"FieldId", "Readonly", "Required", "Visible", "Highlight", "ChangeValue"})
    @@ Model("ApiFieldValue", {"Value"}))

ApiFieldRuleWorkflowActionsUpdate ==
  Closed(
    PlainNeeded({"FieldId", "Readonly", "Required", "Visible", "Highlight", "ChangeValue"})
    @@ Model("ApiFieldValue", {"Value"}))

ApiFieldRuleWorkflowTransition ==
  Closed(
    ModelNeeded("ApiFieldValue", {"Value"})
    @@ ModelListNeeded("ApiFieldRuleWorkflowActions", {"Actions"}))

ApiFieldRuleWorkflowTransitionUpdate ==
  Closed(
    ModelNeeded("ApiFieldValue", {"Value"})
    @@ ModelListNeeded("ApiFieldRuleWorkflowActionsUpdate", {"Actions"}))

ApiFieldRuleWorkflowUpdate ==
  Open(
    PlainNeeded({"FieldId", "RuleType"})
    @@ ModelListNeeded("ApiFieldRuleWorkflowTransitionUpdate", {"Transitions"}))

ApiFieldValueDecimal ==
  Open(
    PlainNeeded({"FieldValueType"})
    @@ Plain({"Text", "Value"}))

ApiFieldValueDictionary ==
  Open(
    PlainNeeded({"FieldValueType"})
    @@ Plain({"Text", "Id"}))

ApiFieldValueDictionaryMultiChoice ==
  Open(
    PlainNeeded({"FieldValueType"})
    @@ Plain({"Text", "Ids", "Values"}))

ApiFieldValueExecutionHistory ==
  Open(
    PlainNeeded({"FieldValueType"})
    @@ Plain({"Text"})
    @@ Model("ApiTestCaseExecutionHistory", {"Value"}))

ApiFieldValueFlag ==
  Open(
    PlainNeeded({"FieldValueType"})
    @@ Plain({"Text", "Value"}))

ApiFieldValueId ==
  Open(
    PlainNeeded({"FieldValueType"})
    @@ Plain({"Text", "Value"}))

ApiFieldValueJson ==
  Open(
    PlainNeeded({"FieldValueType"})
    @@ Plain({"Text", "Value"}))

ApiFieldValueRestriction ==
  Closed(
    ModelNeeded("ApiFieldValue", {"Value"})
    @@ ModelListNeeded("ApiFieldValue", {"AllowedFor"}))

ApiFieldValueRestrictionUpdate == Closed(PlainNeeded({"Value", "AllowedFor"}))

ApiFieldValueRichText ==
  Open(
    PlainNeeded({"FieldValueType"})
    @@ Plain({"Text", "Html"}))

ApiFieldValueSprint ==
  Open(
    PlainNeeded({"FieldValueType"})
    @@ Plain({"Text", "Id"}))

ApiFieldValueString ==
  Open(
    PlainNeeded({"FieldValueType"})
    @@ Plain({"Text"}))

ApiFieldValueStringList ==
  Open(
    PlainNeeded({"FieldValueType"})
    @@ Plain({"Text", "Values"}))

ApiFieldValueTestJobStatistics ==
  Open(
    PlainNeeded({"FieldValueType"})
    @@ Plain({"Text"})
    @@ ModelList("ApiTestJobStatisticsEntry", {"Value"}))

ApiFieldValueTestScenarios ==
  Open(
    PlainNeeded({"FieldValueType"})
    @@ Plain({"Text", "Value"}))

ApiFieldValueUserMultiChoice ==
  Open(
    PlainNeeded({"FieldValueType"})
    @@ Plain({"Text", "Ids"})
    @@ ModelList("ApiUserInfo", {"Values"}))

ApiItemListWidgetData ==
  Open(
    PlainNeeded({"DataType"})
    @@ Plain({"Count"})
    @@ ModelList("ApiItemInfo", {"Items"}))

ApiItemListWidgetDataSpecification ==
  Closed(
    Enum({"ItemType"})
    @@ Plain({"FilterExpression", "FirstResults", "MaxResults", "Culture"})
    @@ ModelList("ApiItemListWidgetSorting", {"SortColumns"}))

ApiItemListWidgetModel ==
  Open(
    PlainNeeded({"WidgetType"})
    @@ Plain({"Columns", "FilterDisplay"})
    @@ Model("ApiItemListWidgetDataSpecification", {"ItemListWidgetDataSpecification"}))

ApiItemListWidgetSorting == Closed(Plain({"FieldTitle", "Ascending"}))

ApiItemLongOperationArchive ==
  Closed(
    Model("ApiItemLongOperationDomain", {"Criteria"})
    @@ Plain({"Archive"}))

ApiItemLongOperationCopyInProject ==
  Closed(
    Model("ApiItemLongOperationDomain", {"Criteria"})
    @@ Plain({"TargetFolderId"}))

ApiItemLongOperationCopyToProject ==
  Closed(
    Model("ApiItemLongOperationDomain", {"Criteria"})
    @@ Plain({"TargetProjectId", "TargetFolderId"}))

ApiItemLongOperationDelete == Closed(Model("ApiItemLongOperationDomain", {"Criteria"}))

ApiItemLongOperationDomain ==
  Closed(
    PlainNeeded({"Type"})
    @@ Plain({"ProjectId"}))

ApiItemLongOperationDomainFilterBased ==
  Open(
    PlainNeeded({"Type"})
    @@ Plain({"ProjectId", "FolderId", "Recursive", "IncludeArchived"})
    @@ Model("ApiFilterUpdate", {"Filter"}))

ApiItemLongOperationDomainListBased ==
  Open(
    PlainNeeded({"Type"})
    @@ Plain({"ProjectId", "Items"}))

ApiItemLongOperationInfo ==
  Open(
    PlainNeeded({"InfoType"})
    @@ Enum({"Status"})
    @@ Plain({"Done", "Total", "Failed"})
    @@ ModelList("ApiBatchItemOperationIssue", {"Issues"}))

ApiItemLongOperationMoveInProject ==
  Closed(
    Model("ApiItemLongOperationDomain", {"Criteria"})
    @@ Plain({"TargetFolderId"}))

ApiItemLongOperationUpdateProperties ==
  Closed(
    Model("ApiItemLongOperationDomain", {"Criteria"})
    @@ ModelList("ApiBatchFieldUpdate", {"Updates"}))

ApiItemNew ==
  Closed(
    Model("ApiItemLocationUpdate", {"Location"})
    @@ ModelList("ApiFieldUpdate", {"Details"})
    @@ ModelList("ApiAttachmentNew", {"Attachments"}))

ApiItemUpdate ==
  Closed(
    ModelList("ApiFieldUpdate", {"Details"})
    @@ Model("ApiAttachments", {"Attachments"}))

ApiItemWithDescription ==
  Open(
    Plain({"Id", "FormattedId", "Name", "Archived", "HasDependency", "HasFiles"})
    @@ Enum({"Type"})
    @@ Model("ApiItemVersion", {"Version"})
    @@ Model("ApiItemLocation", {"Location"})
    @@ Model("ApiFieldValueDateTime", {"LastModified"})
    @@ Model("ApiEditableInfo", {"EditableInfo"})
    @@ Model("ApiItemPermissions", {"Permissions"})
    @@ EnumOrNull({"SyncStatus"})
    @@ ModelList("ApiFieldWithValue", {"Details"})
    @@ Model("ApiEditLayout", {"EditLayout"})
    @@ Model("ApiRichText", {"Description"}))

ApiItemsPatchRequestArchive ==
  Open(
    PlainNeeded({"OperationType"})
    @@ Model("ApiItemLongOperationArchive", {"ArchiveOperation"}))

ApiItemsPatchRequestCopyInProject ==
  Open(
    PlainNeeded({"OperationType"})
    @@ Model("ApiItemLongOperationCopyInProject", {"CopyOperation"}))

ApiItemsPatchRequestCopyToProject ==
  Open(
    PlainNeeded({"OperationType"})
    @@ Model("ApiItemLongOperationCopyToProject", {"CopyOperation"}))

ApiItemsPatchRequestDelete ==
  Open(
    PlainNeeded({"OperationType"})
    @@ Model("ApiItemLongOperationDelete", {"DeleteOperation"}))

ApiItemsPatchRequestMoveInProject ==
  Open(
    PlainNeeded({"OperationType"})
    @@ Model("ApiItemLongOperationMoveInProject", {"MoveOperation"}))

ApiItemsPatchRequestUpdateProperties ==
  Open(
    PlainNeeded({"OperationType"})
    @@ Model("ApiItemLongOperationUpdateProperties", {"UpdatePropertiesOperation"}))

FieldSchemas ==
  [ApiBatchFieldUpdate |-> ApiBatchFieldUpdate,
   ApiBatchFieldUpdateMultiChoiceFieldDifferential |-> ApiBatchFieldUpdateMultiChoiceFieldDifferential,
   ApiBatchFieldUpdateNewEnclosure |-> ApiBatchFieldUpdateNewEnclosure,
   ApiBatchFieldUpdateRegularField |-> ApiBatchFieldUpdateRegularField,
   ApiBatchItemOperationIssue |-> ApiBatchItemOperationIssue,
   ApiBatchItemUpdateFieldIssueDetails |-> ApiBatchItemUpdateFieldIssueDetails,
   ApiBatchItemUpdateIssueDetails |-> ApiBatchItemUpdateIssueDetails,
   ApiBatchItemUpdateIssueDetailsBase |-> ApiBatchItemUpdateIssueDetailsBase,
   ApiEditLayoutEntryField |-> ApiEditLayoutEntryField,
   ApiEditLayoutEntryGroup |-> ApiEditLayoutEntryGroup,
   ApiFieldMetaDateTime |-> ApiFieldMetaDateTime,
   ApiFieldMetaDecimal |-> ApiFieldMetaDecimal,
   ApiFieldMetaDictionary |-> ApiFieldMetaDictionary,
   ApiFieldMetaDictionaryEntry |-> ApiFieldMetaDictionaryEntry,
   ApiFieldMetaDictionaryMultiChoice |-> ApiFieldMetaDictionaryMultiChoice,
   ApiFieldMetaExecutionHistory |-> ApiFieldMetaExecutionHistory,
   ApiFieldMetaFlag |-> ApiFieldMetaFlag, ApiFieldMetaId |-> ApiFieldMetaId,
   ApiFieldMetaSprint |-> ApiFieldMetaSprint, ApiFieldMetaString |-> ApiFieldMetaString,
   ApiFieldMetaStringAutoComplete |-> ApiFieldMetaStringAutoComplete,
   ApiFieldMetaStringList |-> ApiFieldMetaStringList,
   ApiFieldMetaTestJobStatistics |-> ApiFieldMetaTestJobStatistics,
   ApiFieldMetaTestScenarios |-> ApiFieldMetaTestScenarios,
   ApiFieldMetaTimeSpan |-> ApiFieldMetaTimeSpan, ApiFieldMetaUser |-> ApiFieldMetaUser,
   ApiFieldMetaUserMultiChoice |-> ApiFieldMetaUserMultiChoice,
   ApiFieldPatchOperationActivateField |-> ApiFieldPatchOperationActivateField,
   ApiFieldPatchOperationDeactivateField |-> ApiFieldPatchOperationDeactivateField,
   ApiFieldRuleDependentValues |-> ApiFieldRuleDependentValues,
   ApiFieldRuleDependentValuesUpdate |-> ApiFieldRuleDependentValuesUpdate,
   ApiFieldRuleWorkflow |-> ApiFieldRuleWorkflow,
   ApiFieldRuleWorkflowActions |-> ApiFieldRuleWorkflowActions,
   ApiFieldRuleWorkflowActionsUpdate |-> ApiFieldRuleWorkflowActionsUpdate,
   ApiFieldRuleWorkflowTransition |-> ApiFieldRuleWorkflowTransition,
   ApiFieldRuleWorkflowTransitionUpdate |-> ApiFieldRuleWorkflowTransitionUpdate,
   ApiFieldRuleWorkflowUpdate |-> ApiFieldRuleWorkflowUpdate,
   ApiFieldValueDecimal |-> ApiFieldValueDecimal,
   ApiFieldValueDictionary |-> ApiFieldValueDictionary,
   ApiFieldValueDictionaryMultiChoice |-> ApiFieldValueDictionaryMultiChoice,
   ApiFieldValueExecutionHistory |-> ApiFieldValueExecutionHistory,
   ApiFieldValueFlag |-> ApiFieldValueFlag, ApiFieldValueId |-> ApiFieldValueId,
   ApiFieldValueJson |-> ApiFieldValueJson,
   ApiFieldValueRestriction |-> ApiFieldValueRestriction,
   ApiFieldValueRestrictionUpdate |-> ApiFieldValueRestrictionUpdate,
   ApiFieldValueRichText |-> ApiFieldValueRichText,
   ApiFieldValueSprint |-> ApiFieldValueSprint, ApiFieldValueString |-> ApiFieldValueString,
   ApiFieldValueStringList |-> ApiFieldValueStringList,
   ApiFieldValueTestJobStatistics |-> ApiFieldValueTestJobStatistics,
   ApiFieldValueTestScenarios |-> ApiFieldValueTestScenarios,
   ApiFieldValueUserMultiChoice |-> ApiFieldValueUserMultiChoice,
   ApiItemListWidgetData |-> ApiItemListWidgetData,
   ApiItemListWidgetDataSpecification |-> ApiItemListWidgetDataSpecification,
   ApiItemListWidgetModel |-> ApiItemListWidgetModel,
   ApiItemListWidgetSorting |-> ApiItemListWidgetSorting,
   ApiItemLongOperationArchive |-> ApiItemLongOperationArchive,
   ApiItemLongOperationCopyInProject |-> ApiItemLongOperationCopyInProject,
   ApiItemLongOperationCopyToProject |-> ApiItemLongOperationCopyToProject,
   ApiItemLongOperationDelete |-> ApiItemLongOperationDelete,
   ApiItemLongOperationDomain |-> ApiItemLongOperationDomain,
   ApiItemLongOperationDomainFilterBased |-> ApiItemLongOperationDomainFilterBased,
   ApiItemLongOperationDomainListBased |-> ApiItemLongOperationDomainListBased,
   ApiItemLongOperationInfo |-> ApiItemLongOperationInfo,
   ApiItemLongOperationMoveInProject |-> ApiItemLongOperationMoveInProject,
   ApiItemLongOperationUpdateProperties |-> ApiItemLongOperationUpdateProperties,
   ApiItemNew |-> ApiItemNew, ApiItemUpdate |-> ApiItemUpdate,
   ApiItemWithDescription |-> ApiItemWithDescription,
   ApiItemsPatchRequestArchive |-> ApiItemsPatchRequestArchive,
   ApiItemsPatchRequestCopyInProject |-> ApiItemsPatchRequestCopyInProject,
   ApiItemsPatchRequestCopyToProject |-> ApiItemsPatchRequestCopyToProject,
   ApiItemsPatchRequestDelete |-> ApiItemsPatchRequestDelete,
   ApiItemsPatchRequestMoveInProject |-> ApiItemsPatchRequestMoveInProject,
   ApiItemsPatchRequestUpdateProperties |-> ApiItemsPatchRequestUpdateProperties]
=============================================================================
