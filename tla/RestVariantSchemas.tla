------------------------- MODULE RestVariantSchemas -------------------------
(*****************************************************************************)
(* The generated model classes no endpoint refers to, directly or through    *)
(* another class: mostly the variants of a class that endpoints do refer to. *)
(* Those of fields, items and batches are in RestFieldSchemas.               *)
(* Each definition says what to_dict and from_dict of the class do; the      *)
(* patterns are those of RestCodec.                                          *)
(*****************************************************************************)
EXTENDS RestCodec, TLC

ApiAgentCreateCopySingleAgent ==
  Open(
    PlainNeeded({"CreateOperation", "ProjectId", "AgentIdToCopy"})
    @@ Plain({"Name"}))

ApiAgentCreatePool ==
  Open(
    PlainNeeded({"CreateOperation", "ProjectId", "Name"})
    @@ Plain({"Agents"}))

ApiAgentCreateSingleAgent == Open(PlainNeeded({"CreateOperation", "ProjectId", "Name"}))

ApiAgentPatchUpdatePool ==
  Open(
    PlainNeeded({"PatchOperation"})
    @@ Plain({"NewName", "Agents"}))

ApiAgentPatchUpdateSingleAgent == Open(PlainNeeded({"PatchOperation", "NewName"}))

ApiAutomatedTestScenarioExecutionRequestAll ==
  Open(
    PlainNeeded({"ExecutionType"})
    @@ Plain({"AgentId", "Sequential"}))

ApiAutomatedTestScenarioExecutionRequestPartial ==
  Open(
    PlainNeeded({"ExecutionType", "TestJobIds"})
    @@ Plain({"AgentId", "Sequential"}))

ApiAutomationAttachedScriptFileInfo ==
  Closed(
    Plain({"Id", "Filename", "FileExtension", "Size", "ViewUrl", "DownloadUrl"}))

ApiAutomationAttachedScriptFileNew == Closed(Plain({"Guid", "InsertAt"}))

ApiAutomationScriptDatabase == Open(PlainNeeded({"Technology"}))

ApiAutomationScriptDatabaseSave ==
  Open(
    PlainNeeded({"Technology"})
    @@ Plain({"IsNew"}))

ApiAutomationScriptJMeter == Open(PlainNeeded({"Technology"}))

ApiAutomationScriptJMeterSave ==
  Open(
    PlainNeeded({"Technology"})
    @@ Plain({"IsNew"}))

ApiAutomationScriptJenkins ==
  Open(
    PlainNeeded({"Technology"})
    @@ ModelList("ApiAutomationAttachedScriptFileInfo", {"AttachedFiles"})
    @@ Plain({"ScriptContent", "Profile"}))

ApiAutomationScriptJenkinsSave ==
  Open(
    PlainNeeded({"Technology"})
    @@ Plain({"IsNew", "DeletedFiles", "ScriptContent", "Profile"})
    @@ ModelList("ApiAutomationAttachedScriptFileNew", {"NewFiles"}))

ApiAutomationScriptNone == Open(PlainNeeded({"Technology"}))

ApiAutomationScriptNoneSave ==
  Open(
    PlainNeeded({"Technology"})
    @@ Plain({"IsNew"}))

ApiAutomationScriptNotSupported == Open(PlainNeeded({"Technology"}))

ApiAutomationScriptNotSupportedSave ==
  Open(
    PlainNeeded({"Technology"})
    @@ Plain({"IsNew"}))

ApiAutomationScriptPowerShell ==
  Open(
    PlainNeeded({"Technology"})
    @@ ModelList("ApiAutomationAttachedScriptFileInfo", {"AttachedFiles"})
    @@ Plain({"ScriptContent", "Profile"}))

ApiAutomationScriptPowerShellSave ==
  Open(
    PlainNeeded({"Technology"})
    @@ Plain({"IsNew", "DeletedFiles", "ScriptContent", "Profile"})
    @@ ModelList("ApiAutomationAttachedScriptFileNew", {"NewFiles"}))

ApiAutomationScriptQTP == Open(PlainNeeded({"Technology"}))

ApiAutomationScriptQTPSave ==
  Open(
    PlainNeeded({"Technology"})
    @@ Plain({"IsNew"}))

ApiAutomationScriptRanorex == Open(PlainNeeded({"Technology"}))

ApiAutomationScriptRanorexSave ==
  Open(
    PlainNeeded({"Technology"})
    @@ Plain({"IsNew"}))

ApiAutomationScriptShell ==
  Open(
    PlainNeeded({"Technology"})
    @@ ModelList("ApiAutomationAttachedScriptFileInfo", {"AttachedFiles"})
    @@ Plain({"ScriptContent", "Profile"}))

ApiAutomationScriptShellSave ==
  Open(
    PlainNeeded({"Technology"})
    @@ Plain({"IsNew", "DeletedFiles", "ScriptContent", "Profile"})
    @@ ModelList("ApiAutomationAttachedScriptFileNew", {"NewFiles"}))

ApiAutomationScriptSoapUI == Open(PlainNeeded({"Technology"}))

ApiAutomationScriptSoapUISave ==
  Open(
    PlainNeeded({"Technology"})
    @@ Plain({"IsNew"}))

ApiAutomationScriptUFT == Open(PlainNeeded({"Technology"}))

ApiAutomationScriptUFTSave ==
  Open(
    PlainNeeded({"Technology"})
    @@ Plain({"IsNew"}))

ApiAutomationScriptUnixShell ==
  Open(
    PlainNeeded({"Technology"})
    @@ ModelList("ApiAutomationAttachedScriptFileInfo", {"AttachedFiles"})
    @@ Plain({"ScriptContent", "Profile"}))

ApiAutomationScriptUnixShellSave ==
  Open(
    PlainNeeded({"Technology"})
    @@ Plain({"IsNew", "DeletedFiles", "ScriptContent", "Profile"})
    @@ ModelList("ApiAutomationAttachedScriptFileNew", {"NewFiles"}))

ApiAutomationScriptWithAttachedFiles ==
  Open(
    PlainNeeded({"Technology"})
    @@ ModelList("ApiAutomationAttachedScriptFileInfo", {"AttachedFiles"}))

ApiAutomationScriptWithAttachedFilesSave ==
  Open(
    PlainNeeded({"Technology"})
    @@ Plain({"IsNew", "DeletedFiles"})
    @@ ModelList("ApiAutomationAttachedScriptFileNew", {"NewFiles"}))

ApiChartWidgetData ==
  Open(
    PlainNeeded({"DataType"})
    @@ Enum({"Status"})
    @@ ModelList("ApiChartWidgetDataOneDimensionalElement", {"OneDimensionalData"})
    @@ ModelList("ApiChartWidgetDataTwoDimensionalElement", {"TwoDimensionalData"})
    @@ Model("ApiFieldMeta", {"GroupByFieldMeta", "XAxisFieldMeta"}))

ApiChartWidgetDataOneDimensionalElement ==
  Closed(
    Model("ApiFieldValue", {"GroupedValue"})
    @@ Plain({"NumberOfElements"}))

ApiChartWidgetDataSpecification ==
  Closed(
    Plain({"Dimensions", "XAxisPropertyTitle", "XAxisSeparateMultiList",
            "GroupByPropertyTitle", "GroupBySeparateMultiList", "FilterExpression",
            "ReverseSortXAxis", "ReverseSortGroupBy"})
    @@ Enum({"ItemType", "XAxisDateTimeScale", "GroupByDateTimeScale"}))

ApiChartWidgetDataTwoDimensionalElement ==
  Closed(
    Model("ApiFieldValue", {"GroupedValue", "XAxisValue"})
    @@ Plain({"NumberOfElements"}))

ApiChartWidgetKPIEntry ==
  Closed(
    Enum({"ConditionType"})
    @@ Plain({"Selector", "Threshold", "Color"}))

ApiChartWidgetModel ==
  Open(
    PlainNeeded({"WidgetType"})
    @@ Enum({"ChartType"})
    @@ Plain({"FilterDisplay", "ShowLegend", "ShowTotals", "ShowPercentages"})
    @@ ModelList("ApiChartWidgetKPIEntry", {"KPI"})
    @@ Model("ApiChartWidgetDataSpecification", {"ChartWidgetDataSpecification"}))

ApiConfigElementBase == Closed(Plain({"DataPath", "Locked", "ProjectId", "UserId"}))

ApiConfigElementPatchOperationDelete ==
  Open(
    PlainNeeded({"OperationType"})
    @@ Plain({"DataPath", "ProjectId", "UserId"}))

ApiCreateLoginLinkResponse == Closed(Plain({"Url"}))

ApiDefectReportAllowedOptionsUpdate ==
  Open(
    PlainNeeded({"ItemType"})
    @@ Enum({"IncludeDescription", "IncludePictures", "IncludeHistory", "IncludeAttachments",
              "ShowRelatedDefects", "ShowRelatedRequirements", "ShowRelatedTestCases",
              "ShowRelatedTestScenarios", "IncludeJiraItems", "IncludeRelatedExecutions"})
    @@ Plain({"AllowToShowHideDetails"})
    @@ ItemList({"Path"})
    @@ Model("ApiFilterUpdate", {"Filter"}))

ApiDefectReportOptions ==
  Open(
    PlainNeeded({"ItemType"})
    @@ ItemList({"Path"})
    @@ Model("ApiFilterUpdate", {"Filter"})
    @@ Plain({"IncludeDescription", "IncludePictures", "ShowDetails", "IncludeHistory",
               "IncludeAttachments", "IncludeJiraItems", "ShowRelatedDefects",
               "ShowRelatedRequirements", "ShowRelatedTestCases", "ShowRelatedTestScenarios",
               "IncludeRelatedExecutions"}))

ApiDependenciesAddPermissionPatchResponse ==
  Open(
    PlainNeeded({"OperationType"})
    @@ ItemList({"PermissionsToAdd"}))

ApiDependenciesAddSinglePermissionPatchRequest ==
  Open(
    PlainNeeded({"OperationType"})
    @@ ItemList({"AllPermissions"})
    @@ Enum({"AddedPermission"}))

ApiDependenciesPermissionSetPatchRequest ==
  Open(
    PlainNeeded({"OperationType"})
    @@ ItemList({"AllPermissions"}))

ApiDependenciesPermissionSetPatchResponse ==
  Open(
    PlainNeeded({"OperationType"})
    @@ ItemList({"PermissionsToAdd"}))

ApiDependenciesRemovePermissionPatchResponse ==
  Open(
    PlainNeeded({"OperationType"})
    @@ ItemList({"PermissionsToRemove"}))

ApiDependenciesRemoveSinglePermissionPatchRequest ==
  Open(
    PlainNeeded({"OperationType"})
    @@ ItemList({"AllPermissions"})
    @@ Enum({"RemovedPermission"}))

ApiError ==
  Closed(
    PlainNeeded({"Message", "Code", "Type"})
    @@ Plain({"FurtherInfo", "ErrorData"}))

ApiExportLongRunningTaskInfo ==
  Open(
    PlainNeeded({"InfoType"})
    @@ Enum({"Status"})
    @@ Plain({"Done", "Total", "Failed", "ExportFileGuid"}))

ApiFeatureInfo == Closed(Plain({"IsEnabled"}))

ApiHtmlContentWidgetData == Open(PlainNeeded({"DataType"}))

ApiHtmlContentWidgetDataSpecification == Closed(Plain({"Url"}))

ApiHtmlContentWidgetModel ==
  Open(
    PlainNeeded({"WidgetType"})
    @@ Model("ApiHtmlContentWidgetDataSpecification", {"HtmlContentWidgetDataSpecification"}))

ApiImportErrorReportItem ==
  Closed(
    Enum({"ErrorType"})
    @@ Plain({"ImportKey", "Row", "PropertyName", "IncorrectValue", "ErrorMessage", "Column",
               "WorkSheetName"}))

ApiImportLongRunningTaskInfo ==
  Open(
    PlainNeeded({"InfoType"})
    @@ Enum({"Status", "CurrentPhase"})
    @@ Plain({"Done", "Total", "Failed"})
    @@ ModelList("ApiImportErrorReportItem", {"FailedItems"})
    @@ ItemList({"ExpectedPhases"}))

ApiIntegrationConfigJira ==
  Open(
    PlainNeeded({"IntegrationType"})
    @@ Plain({"SupportsLookup", "IsEnabled", "CustomerId", "ProjectId", "ItemViewURLPattern",
               "ItemCreateURLPattern", "APIBaseURL", "APIUser", "APIPassword"}))

ApiIntegrationConfigOtrs ==
  Open(
    PlainNeeded({"IntegrationType"})
    @@ Plain({"SupportsLookup", "IsEnabled", "CustomerId", "ProjectId", "ItemViewURLPattern"}))

ApiIntegrationConfigUpdateJira ==
  Open(
    PlainNeeded({"IntegrationType"})
    @@ Plain({"SupportsLookup", "IsEnabled", "ItemViewURLPattern", "ItemCreateURLPattern",
               "APIBaseURL", "APIUser", "APIPassword"}))

ApiIntegrationConfigUpdateOtrs ==
  Open(
    PlainNeeded({"IntegrationType"})
    @@ Plain({"SupportsLookup", "IsEnabled", "ItemViewURLPattern"}))

ApiIntegrationConfigVerifyJira ==
  Open(
    PlainNeeded({"IntegrationType"})
    @@ Plain({"APIBaseURL", "APIUser", "APIPassword"}))

ApiIntegrationConfigVerifyOtrs == Open(PlainNeeded({"IntegrationType"}))

ApiLicenseInfo == Closed(Plain({"Name"}))

ApiLongOperationInfo ==
  Open(
    PlainNeeded({"InfoType"})
    @@ Enum({"Status"})
    @@ Plain({"Done", "Total", "Failed"}))

ApiLongOperationPatchAbort == Open(PlainNeeded({"Operation"}))

ApiMediaTypeNotSupportedError ==
  Open(
    PlainNeeded({"Message", "Code", "Type"})
    @@ Plain({"FurtherInfo", "ErrorData"}))

ApiMethodNotAllowedError ==
  Open(
    PlainNeeded({"Message", "Code", "Type"})
    @@ Plain({"FurtherInfo", "ErrorData"}))

ApiPdfPasswordSecurityOptions ==
  Closed(
    PlainPreset({"OpenPassword", "PermissionsPassword"})
    @@ EnumPreset({"EncryptionLevel"})
    @@ Model("ApiPdfPermissionsOptions", {"PermissionsOptions"}))

ApiPdfPermissionsOptions ==
  Closed(
    EnumPreset({"ChangingPermissions", "PrintingPermissions"})
    @@ PlainPreset({"EnableScreenReaders", "EnableCopying"}))

ApiPool ==
  Open(
    PlainNeeded({"Id", "Name", "ProjectId", "Code", "AgentType"})
    @@ EnumNeeded({"Status"})
    @@ ItemListNeeded({"SupportedTechnologies"})
    @@ ModelListNeeded("ApiAgentIdAndName", {"Agents"}))

ApiProjectFolderFavouritePatchRename ==
  Open(
    PlainNeeded({"PatchOperation"})
    @@ Plain({"Label"}))

ApiProjectFolderPatchMove ==
  Open(
    PlainNeeded({"OperationType"})
    @@ Plain({"TargetParentFolderId"}))

ApiProjectFolderPatchRename ==
  Open(
    PlainNeeded({"OperationType"})
    @@ Plain({"NewName"}))

ApiProjectPatchArchive ==
  Open(
    PlainNeeded({"PatchOperation"})
    @@ Plain({"Archived"}))

ApiProjectPatchRename ==
  Open(
    PlainNeeded({"PatchOperation"})
    @@ Plain({"NewName"}))

ApiProjectSubfoldersBatchCreate ==
  Open(
    PlainNeeded({"OperationType"})
    @@ Plain({"PathSeparator", "Subfolders"}))

ApiReportCsvPrintoutOptions ==
  Open(
    PlainPreset({"Encoding", "QuoteStrings", "Seperator", "SkipEmptyRows",
                  "SkipEmptyColumns"})
    @@ EnumPreset({"TextExportMode"}))

ApiReportDefinitionPatchCopyCollectionOperation ==
  Open(
    PlainNeeded({"PatchOperation"})
    @@ Plain({"ReportDefinitionId", "TargetProjectId", "NewName"}))

ApiReportDefinitionPatchPublish == Open(PlainNeeded({"PatchType"}))

ApiReportDefinitionPatchUnpublish == Open(PlainNeeded({"PatchType"}))

ApiReportDocxPrintoutDocumentOptions ==
  Closed(
    PlainPreset({"Author", "Title", "Subject", "Keywords", "Category", "Comments"}))

ApiReportDocxPrintoutOptions ==
  Open(
    EnumPreset({"ExportMode"})
    @@ PlainPreset({"PageRange", "RasterizationResolution", "ExportPageBreaks",
                     "ExportWatermarks", "TableLayout", "RasterizeImages", "KeepRowHeight"})
    @@ Model("ApiReportDocxPrintoutDocumentOptions", {"DocumentOptions"}))

ApiReportHtmlPrintoutOptions ==
  Closed(
    EnumPreset({"ExportMode"})
    @@ PlainPreset({"PageRange", "RasterizationResolution", "PageBorderWidth", "Title",
                     "TableLayout", "UseHRefHyperlinks", "AllowJSURLs",
                     "RemoveSecondarySymbols", "ExportWatermarks", "CharacterSet"})
    @@ Plain({"PageBorderColor"}))

ApiReportImagePrintoutOptions ==
  Closed(
    EnumPreset({"ExportMode", "Format"})
    @@ PlainPreset({"PageRange", "Resolution", "PageBorderWidth"})
    @@ Plain({"PageBorderColor"}))

ApiReportMhtPrintoutOptions ==
  Open(
    EnumPreset({"ExportMode"})
    @@ PlainPreset({"PageRange", "RasterizationResolution", "PageBorderWidth", "Title",
                     "TableLayout", "UseHRefHyperlinks", "AllowJSURLs",
                     "RemoveSecondarySymbols", "ExportWatermarks", "CharacterSet"})
    @@ Plain({"PageBorderColor"}))

ApiReportPatchImport ==
  Open(
    PlainNeeded({"PatchType"})
    @@ ModelList("ApiFileUploadInfo", {"filesMeta"}))

ApiReportPdfPrintoutDocumentOptions ==
  Closed(
    PlainPreset({"Author", "Application", "Title", "Subject", "Keywords"}))

ApiReportPdfPrintoutOptions ==
  Closed(
    PlainPreset({"PageRange", "RasterizationResolution", "ConvertImagesToJpeg",
                  "ShowPrintDialogOnOpen", "NeverEmbeddedFonts",
                  "ExportEditingFieldsToAcroForms"})
    @@ EnumPreset({"ImageQuality", "PdfACompatibility"})
    @@ Model("ApiPdfPasswordSecurityOptions", {"PasswordSecurityOptions"})
    @@ Model("ApiReportPdfPrintoutDocumentOptions", {"DocumentOptions"}))

ApiReportPrintoutRequest ==
  Closed(
    Plain({"ReportId", "ProjectId", "FolderId", "Recursive", "IncludeArchived",
            "RelatedProjects"})
    @@ ModelListStrict("ApiBaseObjectReportOptions", {"ReportOptions"})
    @@ ModelList("ApiReportParameterValue", {"ParameterValues"}))

ApiReportPrintoutRequestCsv ==
  Open(
    EnumNeeded({"FileType"})
    @@ Plain({"ReportId", "ProjectId", "FolderId", "Recursive", "IncludeArchived",
               "RelatedProjects"})
    @@ ModelListStrict("ApiBaseObjectReportOptions", {"ReportOptions"})
    @@ ModelList("ApiReportParameterValue", {"ParameterValues"})
    @@ Model("ApiReportCsvPrintoutOptions", {"CsvOptions"}))

ApiReportPrintoutRequestDocx ==
  Open(
    EnumNeeded({"FileType"})
    @@ Plain({"ReportId", "ProjectId", "FolderId", "Recursive", "IncludeArchived",
               "RelatedProjects"})
    @@ ModelListStrict("ApiBaseObjectReportOptions", {"ReportOptions"})
    @@ ModelList("ApiReportParameterValue", {"ParameterValues"})
    @@ Model("ApiReportDocxPrintoutOptions", {"DocxOptions"}))

ApiReportPrintoutRequestHtml ==
  Open(
    EnumNeeded({"FileType"})
    @@ Plain({"ReportId", "ProjectId", "FolderId", "Recursive", "IncludeArchived",
               "RelatedProjects"})
    @@ ModelListStrict("ApiBaseObjectReportOptions", {"ReportOptions"})
    @@ ModelList("ApiReportParameterValue", {"ParameterValues"})
    @@ Model("ApiReportHtmlPrintoutOptions", {"HtmlOptions"}))

ApiReportPrintoutRequestImage ==
  Open(
    EnumNeeded({"FileType"})
    @@ Plain({"ReportId", "ProjectId", "FolderId", "Recursive", "IncludeArchived",
               "RelatedProjects"})
    @@ ModelListStrict("ApiBaseObjectReportOptions", {"ReportOptions"})
    @@ ModelList("ApiReportParameterValue", {"ParameterValues"})
    @@ Model("ApiReportImagePrintoutOptions", {"ImageOptions"}))

ApiReportPrintoutRequestMht ==
  Open(
    EnumNeeded({"FileType"})
    @@ Plain({"ReportId", "ProjectId", "FolderId", "Recursive", "IncludeArchived",
               "RelatedProjects"})
    @@ ModelListStrict("ApiBaseObjectReportOptions", {"ReportOptions"})
    @@ ModelList("ApiReportParameterValue", {"ParameterValues"})
    @@ Model("ApiReportMhtPrintoutOptions", {"MhtOptions"}))

ApiReportPrintoutRequestPdf ==
  Open(
    EnumNeeded({"FileType"})
    @@ Plain({"ReportId", "ProjectId", "FolderId", "Recursive", "IncludeArchived",
               "RelatedProjects"})
    @@ ModelListStrict("ApiBaseObjectReportOptions", {"ReportOptions"})
    @@ ModelList("ApiReportParameterValue", {"ParameterValues"})
    @@ Model("ApiReportPdfPrintoutOptions", {"PdfOptions"}))

ApiReportPrintoutRequestRtf ==
  Open(
    EnumNeeded({"FileType"})
    @@ Plain({"ReportId", "ProjectId", "FolderId", "Recursive", "IncludeArchived",
               "RelatedProjects"})
    @@ ModelListStrict("ApiBaseObjectReportOptions", {"ReportOptions"})
    @@ ModelList("ApiReportParameterValue", {"ParameterValues"})
    @@ Model("ApiReportRtfPrintoutOptions", {"RtfOptions"}))

ApiReportPrintoutRequestText ==
  Open(
    EnumNeeded({"FileType"})
    @@ Plain({"ReportId", "ProjectId", "FolderId", "Recursive", "IncludeArchived",
               "RelatedProjects"})
    @@ ModelListStrict("ApiBaseObjectReportOptions", {"ReportOptions"})
    @@ ModelList("ApiReportParameterValue", {"ParameterValues"})
    @@ Model("ApiReportTextPrintoutOptions", {"TextOptions"}))

ApiReportPrintoutRequestXls ==
  Open(
    EnumNeeded({"FileType"})
    @@ Plain({"ReportId", "ProjectId", "FolderId", "Recursive", "IncludeArchived",
               "RelatedProjects"})
    @@ ModelListStrict("ApiBaseObjectReportOptions", {"ReportOptions"})
    @@ ModelList("ApiReportParameterValue", {"ParameterValues"})
    @@ Model("ApiReportXlsPrintoutOptions", {"XlsOptions"}))

ApiReportPrintoutRequestXlsx ==
  Open(
    EnumNeeded({"FileType"})
    @@ Plain({"ReportId", "ProjectId", "FolderId", "Recursive", "IncludeArchived",
               "RelatedProjects"})
    @@ ModelListStrict("ApiBaseObjectReportOptions", {"ReportOptions"})
    @@ ModelList("ApiReportParameterValue", {"ParameterValues"})
    @@ Model("ApiReportXlsxPrintoutOptions", {"XlsxOptions"}))

ApiReportRtfPrintoutOptions ==
  Closed(
    EnumPreset({"ExportMode"})
    @@ PlainPreset({"PageRange", "RasterizationResolution", "ExportPageBreaks",
                     "ExportWatermarks"}))

ApiReportTextPrintoutOptions ==
  Closed(
    PlainPreset({"Encoding", "QuoteStrings", "Seperator"})
    @@ EnumPreset({"TextExportMode"}))

ApiReportXlPrintoutDocumentOptions ==
  Closed(
    PlainPreset({"Author", "Application", "Title", "Subject", "Tags", "Category",
                  "Comments", "Company"}))

ApiReportXlPrintoutEncryptionOptions ==
  Closed(
    PlainPreset({"Password"})
    @@ EnumPreset({"Type"}))

ApiReportXlsPrintoutOptions ==
  Open(
    EnumPreset({"ExportMode", "TextExportMode", "IgnoreErrors", "RightToLeftDocument",
                 "WorkbookColorPaletteCompliance"})
    @@ PlainPreset({"PageRange", "RasterizationResolution", "ExportHyperlinks", "RawDataMode",
                     "SheetName", "ShowGridLines", "RasterizeImages", "FitToPrintedPageWidth",
                     "FitToPrintedPageHeight", "Suppress256ColumnsWarning",
                     "Suppress65536RowsWarning"})
    @@ Model("ApiReportXlPrintoutEncryptionOptions", {"EncryptionOptions"})
    @@ Model("ApiReportXlPrintoutDocumentOptions", {"DocumentOptions"}))

ApiReportXlsxPrintoutOptions ==
  Closed(
    EnumPreset({"ExportMode", "TextExportMode", "IgnoreErrors", "RightToLeftDocument"})
    @@ PlainPreset({"PageRange", "RasterizationResolution", "ExportHyperlinks", "RawDataMode",
                     "SheetName", "ShowGridLines", "RasterizeImages", "FitToPrintedPageWidth",
                     "FitToPrintedPageHeight"})
    @@ Model("ApiReportXlPrintoutEncryptionOptions", {"EncryptionOptions"})
    @@ Model("ApiReportXlPrintoutDocumentOptions", {"DocumentOptions"}))

ApiRequirementReportAllowedOptionsUpdate ==
  Open(
    PlainNeeded({"ItemType"})
    @@ Enum({"IncludeDescription", "IncludePictures", "IncludeHistory", "IncludeAttachments",
              "ShowRelatedDefects", "ShowRelatedRequirements", "ShowRelatedTestCases",
              "ShowRelatedTestScenarios", "IncludeJiraItems"})
    @@ Plain({"AllowToShowHideDetails"})
    @@ ItemList({"Path"})
    @@ Model("ApiFilterUpdate", {"Filter"}))

ApiRequirementReportOptions ==
  Open(
    PlainNeeded({"ItemType"})
    @@ ItemList({"Path"})
    @@ Model("ApiFilterUpdate", {"Filter"})
    @@ Plain({"IncludeDescription", "IncludePictures", "ShowDetails", "IncludeHistory",
               "IncludeAttachments", "IncludeJiraItems", "ShowRelatedDefects",
               "ShowRelatedRequirements", "ShowRelatedTestCases", "ShowRelatedTestScenarios"}))

ApiRolePatchRequestReplaceRole ==
  Open(
    PlainNeeded({"OperationType"})
    @@ Plain({"RoleIdToReplaceWith"}))

ApiSingleAgent ==
  Open(
    PlainNeeded({"Id", "Name", "ProjectId", "Code", "AgentType"})
    @@ EnumNeeded({"Status", "ExecutionStatus"})
    @@ ItemListNeeded({"SupportedTechnologies"}))

ApiTestCaseExecutionDefaultsBase ==
  Closed(
    Plain({"ValueSetGuid", "TestedVersion"})
    @@ ModelList("ApiLabelInfo", {"Labels"}))

ApiTestCaseReportAllowedOptionsUpdate ==
  Open(
    PlainNeeded({"ItemType"})
    @@ Enum({"IncludeDescription", "IncludePictures", "IncludeHistory", "IncludeAttachments",
              "ShowRelatedDefects", "ShowRelatedRequirements", "ShowRelatedTestCases",
              "ShowRelatedTestScenarios", "IncludeJiraItems", "IncludeTestSteps",
              "IncludeExecutions", "IncludeTestData"})
    @@ Plain({"AllowToShowHideDetails"})
    @@ ItemList({"Path"})
    @@ Model("ApiFilterUpdate", {"Filter"}))

ApiTestCaseReportOptions ==
  Open(
    PlainNeeded({"ItemType"})
    @@ ItemList({"Path"})
    @@ Model("ApiFilterUpdate", {"Filter"})
    @@ Plain({"IncludeDescription", "IncludePictures", "ShowDetails", "IncludeHistory",
               "IncludeAttachments", "IncludeJiraItems", "ShowRelatedDefects",
               "ShowRelatedRequirements", "ShowRelatedTestCases", "ShowRelatedTestScenarios",
               "IncludeTestSteps", "IncludeExecutions", "IncludeTestData"}))

ApiTestDataLocal ==
  Open(
    PlainNeeded({"Variant"})
    @@ ModelList("ApiTestDataValueSetInfo", {"ValueSets"})
    @@ ModelList("ApiTestDataVariable", {"Variables"})
    @@ ItemList({"Values"})
    @@ ModelList("ApiFieldPlaceholder", {"Fields"})
    @@ Plain({"IsReferenced"}))

ApiTestDataNewLocal ==
  Open(
    PlainNeeded({"Variant"})
    @@ ModelListNeeded("ApiTestDataNewValueSet", {"ValueSets"})
    @@ ModelListNeeded("ApiTestDataNewVariable", {"Variables"})
    @@ ItemListNeeded({"Values"}))

ApiTestDataNewReferencedTestCase ==
  Open(
    PlainNeeded({"Variant"})
    @@ Plain({"ReferencedTestCaseId"}))

ApiTestDataNewValueSet == Closed(PlainNeeded({"Name"}))

ApiTestDataNewVariable == Closed(PlainNeeded({"Name"}))

ApiTestDataReferencedTestCase ==
  Open(
    PlainNeeded({"Variant"})
    @@ ModelList("ApiTestDataValueSetInfo", {"ValueSets"})
    @@ ModelList("ApiTestDataVariable", {"Variables"})
    @@ ItemList({"Values"})
    @@ ModelList("ApiFieldPlaceholder", {"Fields"})
    @@ Plain({"ReferencedTestCaseId"})
    @@ Enum({"TestCaseAccessibility"}))

ApiTestDataUpdateLocal ==
  Open(
    PlainNeeded({"Variant"})
    @@ ModelListNeeded("ApiTestDataUpdateValueSet", {"ValueSets"})
    @@ ModelListNeeded("ApiTestDataUpdateVariable", {"Variables"})
    @@ ItemListNeeded({"Values"}))

ApiTestDataUpdateReferencedTestCase ==
  Open(
    PlainNeeded({"Variant"})
    @@ Plain({"ReferencedTestCaseId"}))

ApiTestDataUpdateValueSet ==
  Closed(
    PlainNeeded({"Name"})
    @@ Plain({"Guid"}))

ApiTestDataUpdateVariable == Closed(PlainNeeded({"Name"}))

ApiTestExecutionIdentifier ==
  Open(
    Plain({"Id", "FormattedId"})
    @@ Enum({"Type"}))

ApiTestExecutionNewResponseTestCaseContext ==
  Open(
    PlainNeeded({"Context"})
    @@ Model("ApiTestExecutionIdentifier", {"TestExecutionIdentifier"}))

ApiTestExecutionNewResponseTestScenarioContext ==
  Open(
    PlainNeeded({"Context"})
    @@ Plain({"TestScenarioExecutionId"})
    @@ ModelList("ApiTestExecutionIdentifier", {"TestExecutionIdentifiers"}))

ApiTestExecutionPatchCancel ==
  Open(
    PlainNeeded({"PatchType"})
    @@ Plain({"TestExecutionsIds"}))

ApiTestExecutionPatchFinalize ==
  Open(
    PlainNeeded({"PatchType"})
    @@ Plain({"TestExecutionsIds", "FinalizeIncomplete"}))

ApiTestExecutionPatchMarkIrrelevant ==
  Open(
    PlainNeeded({"PatchType"})
    @@ Plain({"TestExecutionsIds", "IrrelevantReason"}))

ApiTestExecutionPatchMarkRelevant ==
  Open(
    PlainNeeded({"PatchType"})
    @@ Plain({"TestExecutionsIds"}))

ApiTestExecutionUpdateSingle ==
  Closed(
    Model("ApiAttachments", {"Attachments"})
    @@ ModelList("ApiTestStepExecutionUpdate", {"Steps"})
    @@ Plain({"TestedVersion"})
    @@ ModelList("ApiLabelAttached", {"AttachedLabels"})
    @@ Model("ApiFieldValueTimeSpan", {"ExecutionDuration"})
    @@ ModelList("ApiFieldUpdate", {"CustomFields"}))

ApiTestJobStatisticsEntry ==
  Closed(
    Enum({"Status"})
    @@ Plain({"Title", "Count", "Percentage"}))

ApiTestScenarioReportAllowedOptionsUpdate ==
  Open(
    PlainNeeded({"ItemType"})
    @@ Enum({"IncludeDescription", "IncludePictures", "IncludeHistory", "IncludeAttachments",
              "ShowRelatedDefects", "ShowRelatedRequirements", "ShowRelatedTestCases",
              "ShowRelatedTestScenarios", "IncludeJiraItems", "IncludeTestJobs",
              "IncludeExecutions"})
    @@ Plain({"AllowToShowHideDetails"})
    @@ ItemList({"Path"})
    @@ Model("ApiFilterUpdate", {"Filter"}))

ApiTestScenarioReportOptions ==
  Open(
    PlainNeeded({"ItemType"})
    @@ ItemList({"Path"})
    @@ Model("ApiFilterUpdate", {"Filter"})
    @@ Plain({"IncludeDescription", "IncludePictures", "ShowDetails", "IncludeHistory",
               "IncludeAttachments", "IncludeJiraItems", "ShowRelatedDefects",
               "ShowRelatedRequirements", "ShowRelatedTestCases", "ShowRelatedTestScenarios",
               "IncludeTestJobs", "IncludeExecutions"}))

ApiTestStepBase ==
  Closed(
    Plain({"Name", "Index"})
    @@ Model("ApiRichText", {"Description", "ExpectedResult", "ActualResultTemplate"})
    @@ Enum({"StepType"}))

ApiUploadedFile == Closed(Plain({"Content", "Name"}))

ApiUserLicenseAssignmentChangeLicenseTypePatchRequest ==
  Open(
    PlainNeeded({"OperationType"})
    @@ Enum({"NewLicenseType"}))

ApiUserPatchOperation == Closed(PlainNeeded({"PatchOperation"}))

ApiUserPatchPosition ==
  Open(
    PlainNeeded({"PatchOperation"})
    @@ Plain({"Position"}))

ApiUserPatchRequestActivateUser == Open(PlainNeeded({"OperationType"}))

ApiUserPatchRequestDeactivateUser == Open(PlainNeeded({"OperationType"}))

ApiUserPatchRequestPasswordReset == Open(PlainNeeded({"OperationType"}))

ApiUserPatchRequestSetServerAdministrator ==
  Open(
    PlainNeeded({"OperationType"})
    @@ Plain({"ServerAdministrator"}))

ApiUserPatchRequestSetUserPassword ==
  Open(
    PlainNeeded({"OperationType"})
    @@ Plain({"NewPassword"}))

ApiUserProjectFolderAssignmentPatchReplace ==
  Open(
    PlainNeeded({"OperationType"})
    @@ Plain({"NewRoleId"}))

ApiUserViewPatchCopyCollectionOperation ==
  Open(
    PlainNeeded({"PatchOperation"})
    @@ Plain({"UserViewId", "TargetProjectId", "NewName"}))

AuthenticationHeaderValue == Closed(Plain({"Scheme", "Parameter"}))

CacheControlHeaderValue ==
  Closed(
    Plain({"NoCache", "NoCacheHeaders", "NoStore", "MaxAge", "SharedMaxAge", "MaxStale",
            "MaxStaleLimit", "MinFresh", "NoTransform", "OnlyIfCached", "Public", "Private",
            "PrivateHeaders", "MustRevalidate", "ProxyRevalidate"})
    @@ ModelList("NameValueHeaderValue", {"Extensions"}))

ContentDispositionHeaderValue ==
  Closed(
    Plain({"DispositionType", "Name", "FileName", "FileNameStar", "Size"})
    @@ ModelList("NameValueHeaderValue", {"Parameters"})
    @@ DateOrNull({"CreationDate", "ModificationDate", "ReadDate"}))

ContentRangeHeaderValue ==
  Closed(
    Plain({"Unit", "From", "To", "Length", "HasLength", "HasRange"}))

EntityTagHeaderValue == Closed(Plain({"Tag", "IsWeak"}))

HttpContent == Closed(Model("HttpContentHeaders", {"Headers"}))

HttpContentHeaders ==
  Open(
    Plain({"Allow", "ContentEncoding", "ContentLanguage", "ContentLength",
            "ContentLocation", "ContentMD5"})
    @@ Model("ContentDispositionHeaderValue", {"ContentDisposition"})
    @@ Model("ContentRangeHeaderValue", {"ContentRange"})
    @@ Model("MediaTypeHeaderValue", {"ContentType"})
    @@ DateOrNull({"Expires", "LastModified"}))

HttpMethod == Closed(Plain({"Method"}))

HttpRequestHeaders ==
  Open(
    ModelList("MediaTypeWithQualityHeaderValue", {"Accept"})
    @@ ModelList("StringWithQualityHeaderValue", {"AcceptCharset", "AcceptEncoding",
                                                   "AcceptLanguage"})
    @@ Model("AuthenticationHeaderValue", {"Authorization", "ProxyAuthorization"})
    @@ ModelList("NameValueWithParametersHeaderValue", {"Expect"})
    @@ Plain({"ExpectContinue", "From", "Host", "MaxForwards", "Referrer", "Connection",
               "ConnectionClose", "Trailer", "TransferEncodingChunked"})
    @@ ModelList("EntityTagHeaderValue", {"IfMatch", "IfNoneMatch"})
    @@ DateOrNull({"IfModifiedSince", "IfUnmodifiedSince", "Date"})
    @@ Model("RangeConditionHeaderValue", {"IfRange"})
    @@ Model("RangeHeaderValue", {"Range"})
    @@ ModelList("TransferCodingWithQualityHeaderValue", {"TE"})
    @@ ModelList("ProductInfoHeaderValue", {"UserAgent"})
    @@ Model("CacheControlHeaderValue", {"CacheControl"})
    @@ ModelList("NameValueHeaderValue", {"Pragma"})
    @@ ModelList("TransferCodingHeaderValue", {"TransferEncoding"})
    @@ ModelList("ProductHeaderValue", {"Upgrade"})
    @@ ModelList("ViaHeaderValue", {"Via"})
    @@ ModelList("WarningHeaderValue", {"Warning"}))

HttpRequestMessage ==
  Closed(
    Model("Version", {"Version"})
    @@ Model("HttpContent", {"Content"})
    @@ Model("HttpMethod", {"Method"})
    @@ Plain({"RequestUri"})
    @@ Model("HttpRequestHeaders", {"Headers"})
    @@ Model("HttpRequestMessageProperties", {"Properties"}))

HttpRequestMessageProperties == Open(NoFields)

KeyValuePairOfStringAndIEnumerableOfString == Closed(Plain({"Key", "Value"}))

MediaTypeHeaderValue ==
  Closed(
    Plain({"CharSet", "MediaType"})
    @@ ModelList("NameValueHeaderValue", {"Parameters"}))

MediaTypeWithQualityHeaderValue ==
  Open(
    Plain({"CharSet", "MediaType", "Quality"})
    @@ ModelList("NameValueHeaderValue", {"Parameters"}))

NameValueHeaderValue == Closed(Plain({"Name", "Value"}))

NameValueWithParametersHeaderValue ==
  Open(
    Plain({"Name", "Value"})
    @@ ModelList("NameValueHeaderValue", {"Parameters"}))

ProductHeaderValue == Closed(Plain({"Name", "Version"}))

ProductInfoHeaderValue ==
  Closed(
    Model("ProductHeaderValue", {"Product"})
    @@ Plain({"Comment"}))

RangeConditionHeaderValue ==
  Closed(
    DateOrNull({"Date"})
    @@ Model("EntityTagHeaderValue", {"EntityTag"}))

RangeHeaderValue ==
  Closed(
    Plain({"Unit"})
    @@ ModelList("RangeItemHeaderValue", {"Ranges"}))

RangeItemHeaderValue == Closed(Plain({"From", "To"}))

StringWithQualityHeaderValue == Closed(Plain({"Value", "Quality"}))

TransferCodingHeaderValue ==
  Closed(
    Plain({"Value"})
    @@ ModelList("NameValueHeaderValue", {"Parameters"}))

TransferCodingWithQualityHeaderValue ==
  Open(
    Plain({"Value", "Quality"})
    @@ ModelList("NameValueHeaderValue", {"Parameters"}))

Version ==
  Closed(
    Plain({"Major", "Minor", "Build", "Revision", "MajorRevision", "MinorRevision"}))

ViaHeaderValue == Closed(Plain({"ProtocolName", "ProtocolVersion", "ReceivedBy", "Comment"}))

WarningHeaderValue ==
  Closed(
    Plain({"Code", "Agent", "Text"})
    @@ DateOrNull({"Date"}))

VariantSchemas ==
  [ApiAgentCreateCopySingleAgent |-> ApiAgentCreateCopySingleAgent,
   ApiAgentCreatePool |-> ApiAgentCreatePool,
   ApiAgentCreateSingleAgent |-> ApiAgentCreateSingleAgent,
   ApiAgentPatchUpdatePool |-> ApiAgentPatchUpdatePool,
   ApiAgentPatchUpdateSingleAgent |-> ApiAgentPatchUpdateSingleAgent,
   ApiAutomatedTestScenarioExecutionRequestAll |-> ApiAutomatedTestScenarioExecutionRequestAll,
   ApiAutomatedTestScenarioExecutionRequestPartial |-> ApiAutomatedTestScenarioExecutionRequestPartial,
   ApiAutomationAttachedScriptFileInfo |-> ApiAutomationAttachedScriptFileInfo,
   ApiAutomationAttachedScriptFileNew |-> ApiAutomationAttachedScriptFileNew,
   ApiAutomationScriptDatabase |-> ApiAutomationScriptDatabase,
   ApiAutomationScriptDatabaseSave |-> ApiAutomationScriptDatabaseSave,
   ApiAutomationScriptJMeter |-> ApiAutomationScriptJMeter,
   ApiAutomationScriptJMeterSave |-> ApiAutomationScriptJMeterSave,
   ApiAutomationScriptJenkins |-> ApiAutomationScriptJenkins,
   ApiAutomationScriptJenkinsSave |-> ApiAutomationScriptJenkinsSave,
   ApiAutomationScriptNone |-> ApiAutomationScriptNone,
   ApiAutomationScriptNoneSave |-> ApiAutomationScriptNoneSave,
   ApiAutomationScriptNotSupported |-> ApiAutomationScriptNotSupported,
   ApiAutomationScriptNotSupportedSave |-> ApiAutomationScriptNotSupportedSave,
   ApiAutomationScriptPowerShell |-> ApiAutomationScriptPowerShell,
   ApiAutomationScriptPowerShellSave |-> ApiAutomationScriptPowerShellSave,
   ApiAutomationScriptQTP |-> ApiAutomationScriptQTP,
   ApiAutomationScriptQTPSave |-> ApiAutomationScriptQTPSave,
   ApiAutomationScriptRanorex |-> ApiAutomationScriptRanorex,
   ApiAutomationScriptRanorexSave |-> ApiAutomationScriptRanorexSave,
   ApiAutomationScriptShell |-> ApiAutomationScriptShell,
   ApiAutomationScriptShellSave |-> ApiAutomationScriptShellSave,
   ApiAutomationScriptSoapUI |-> ApiAutomationScriptSoapUI,
   ApiAutomationScriptSoapUISave |-> ApiAutomationScriptSoapUISave,
   ApiAutomationScriptUFT |-> ApiAutomationScriptUFT,
   ApiAutomationScriptUFTSave |-> ApiAutomationScriptUFTSave,
   ApiAutomationScriptUnixShell |-> ApiAutomationScriptUnixShell,
   ApiAutomationScriptUnixShellSave |-> ApiAutomationScriptUnixShellSave,
   ApiAutomationScriptWithAttachedFiles |-> ApiAutomationScriptWithAttachedFiles,
   ApiAutomationScriptWithAttachedFilesSave |-> ApiAutomationScriptWithAttachedFilesSave,
   ApiChartWidgetData |-> ApiChartWidgetData,
   ApiChartWidgetDataOneDimensionalElement |-> ApiChartWidgetDataOneDimensionalElement,
   ApiChartWidgetDataSpecification |-> ApiChartWidgetDataSpecification,
   ApiChartWidgetDataTwoDimensionalElement |-> ApiChartWidgetDataTwoDimensionalElement,
   ApiChartWidgetKPIEntry |-> ApiChartWidgetKPIEntry,
   ApiChartWidgetModel |-> ApiChartWidgetModel,
   ApiConfigElementBase |-> ApiConfigElementBase,
   ApiConfigElementPatchOperationDelete |-> ApiConfigElementPatchOperationDelete,
   ApiCreateLoginLinkResponse |-> ApiCreateLoginLinkResponse,
   ApiDefectReportAllowedOptionsUpdate |-> ApiDefectReportAllowedOptionsUpdate,
   ApiDefectReportOptions |-> ApiDefectReportOptions,
   ApiDependenciesAddPermissionPatchResponse |-> ApiDependenciesAddPermissionPatchResponse,
   ApiDependenciesAddSinglePermissionPatchRequest |-> ApiDependenciesAddSinglePermissionPatchRequest,
   ApiDependenciesPermissionSetPatchRequest |-> ApiDependenciesPermissionSetPatchRequest,
   ApiDependenciesPermissionSetPatchResponse |-> ApiDependenciesPermissionSetPatchResponse,
   ApiDependenciesRemovePermissionPatchResponse |-> ApiDependenciesRemovePermissionPatchResponse,
   ApiDependenciesRemoveSinglePermissionPatchRequest |-> ApiDependenciesRemoveSinglePermissionPatchRequest,
   ApiError |-> ApiError, ApiExportLongRunningTaskInfo |-> ApiExportLongRunningTaskInfo,
   ApiFeatureInfo |-> ApiFeatureInfo, ApiHtmlContentWidgetData |-> ApiHtmlContentWidgetData,
   ApiHtmlContentWidgetDataSpecification |-> ApiHtmlContentWidgetDataSpecification,
   ApiHtmlContentWidgetModel |-> ApiHtmlContentWidgetModel,
   ApiImportErrorReportItem |-> ApiImportErrorReportItem,
   ApiImportLongRunningTaskInfo |-> ApiImportLongRunningTaskInfo,
   ApiIntegrationConfigJira |-> ApiIntegrationConfigJira,
   ApiIntegrationConfigOtrs |-> ApiIntegrationConfigOtrs,
   ApiIntegrationConfigUpdateJira |-> ApiIntegrationConfigUpdateJira,
   ApiIntegrationConfigUpdateOtrs |-> ApiIntegrationConfigUpdateOtrs,
   ApiIntegrationConfigVerifyJira |-> ApiIntegrationConfigVerifyJira,
   ApiIntegrationConfigVerifyOtrs |-> ApiIntegrationConfigVerifyOtrs,
   ApiLicenseInfo |-> ApiLicenseInfo, ApiLongOperationInfo |-> ApiLongOperationInfo,
   ApiLongOperationPatchAbort |-> ApiLongOperationPatchAbort,
   ApiMediaTypeNotSupportedError |-> ApiMediaTypeNotSupportedError,
   ApiMethodNotAllowedError |-> ApiMethodNotAllowedError,
   ApiPdfPasswordSecurityOptions |-> ApiPdfPasswordSecurityOptions,
   ApiPdfPermissionsOptions |-> ApiPdfPermissionsOptions, ApiPool |-> ApiPool,
   ApiProjectFolderFavouritePatchRename |-> ApiProjectFolderFavouritePatchRename,
   ApiProjectFolderPatchMove |-> ApiProjectFolderPatchMove,
   ApiProjectFolderPatchRename |-> ApiProjectFolderPatchRename,
   ApiProjectPatchArchive |-> ApiProjectPatchArchive,
   ApiProjectPatchRename |-> ApiProjectPatchRename,
   ApiProjectSubfoldersBatchCreate |-> ApiProjectSubfoldersBatchCreate,
   ApiReportCsvPrintoutOptions |-> ApiReportCsvPrintoutOptions,
   ApiReportDefinitionPatchCopyCollectionOperation |-> ApiReportDefinitionPatchCopyCollectionOperation,
   ApiReportDefinitionPatchPublish |-> ApiReportDefinitionPatchPublish,
   ApiReportDefinitionPatchUnpublish |-> ApiReportDefinitionPatchUnpublish,
   ApiReportDocxPrintoutDocumentOptions |-> ApiReportDocxPrintoutDocumentOptions,
   ApiReportDocxPrintoutOptions |-> ApiReportDocxPrintoutOptions,
   ApiReportHtmlPrintoutOptions |-> ApiReportHtmlPrintoutOptions,
   ApiReportImagePrintoutOptions |-> ApiReportImagePrintoutOptions,
   ApiReportMhtPrintoutOptions |-> ApiReportMhtPrintoutOptions,
   ApiReportPatchImport |-> ApiReportPatchImport,
   ApiReportPdfPrintoutDocumentOptions |-> ApiReportPdfPrintoutDocumentOptions,
   ApiReportPdfPrintoutOptions |-> ApiReportPdfPrintoutOptions,
   ApiReportPrintoutRequest |-> ApiReportPrintoutRequest,
   ApiReportPrintoutRequestCsv |-> ApiReportPrintoutRequestCsv,
   ApiReportPrintoutRequestDocx |-> ApiReportPrintoutRequestDocx,
   ApiReportPrintoutRequestHtml |-> ApiReportPrintoutRequestHtml,
   ApiReportPrintoutRequestImage |-> ApiReportPrintoutRequestImage,
   ApiReportPrintoutRequestMht |-> ApiReportPrintoutRequestMht,
   ApiReportPrintoutRequestPdf |-> ApiReportPrintoutRequestPdf,
   ApiReportPrintoutRequestRtf |-> ApiReportPrintoutRequestRtf,
   ApiReportPrintoutRequestText |-> ApiReportPrintoutRequestText,
   ApiReportPrintoutRequestXls |-> ApiReportPrintoutRequestXls,
   ApiReportPrintoutRequestXlsx |-> ApiReportPrintoutRequestXlsx,
   ApiReportRtfPrintoutOptions |-> ApiReportRtfPrintoutOptions,
   ApiReportTextPrintoutOptions |-> ApiReportTextPrintoutOptions,
   ApiReportXlPrintoutDocumentOptions |-> ApiReportXlPrintoutDocumentOptions,
   ApiReportXlPrintoutEncryptionOptions |-> ApiReportXlPrintoutEncryptionOptions,
   ApiReportXlsPrintoutOptions |-> ApiReportXlsPrintoutOptions,
   ApiReportXlsxPrintoutOptions |-> ApiReportXlsxPrintoutOptions,
   ApiRequirementReportAllowedOptionsUpdate |-> ApiRequirementReportAllowedOptionsUpdate,
   ApiRequirementReportOptions |-> ApiRequirementReportOptions,
   ApiRolePatchRequestReplaceRole |-> ApiRolePatchRequestReplaceRole,
   ApiSingleAgent |-> ApiSingleAgent,
   ApiTestCaseExecutionDefaultsBase |-> ApiTestCaseExecutionDefaultsBase,
   ApiTestCaseReportAllowedOptionsUpdate |-> ApiTestCaseReportAllowedOptionsUpdate,
   ApiTestCaseReportOptions |-> ApiTestCaseReportOptions,
   ApiTestDataLocal |-> ApiTestDataLocal, ApiTestDataNewLocal |-> ApiTestDataNewLocal,
   ApiTestDataNewReferencedTestCase |-> ApiTestDataNewReferencedTestCase,
   ApiTestDataNewValueSet |-> ApiTestDataNewValueSet,
   ApiTestDataNewVariable |-> ApiTestDataNewVariable,
   ApiTestDataReferencedTestCase |-> ApiTestDataReferencedTestCase,
   ApiTestDataUpdateLocal |-> ApiTestDataUpdateLocal,
   ApiTestDataUpdateReferencedTestCase |-> ApiTestDataUpdateReferencedTestCase,
   ApiTestDataUpdateValueSet |-> ApiTestDataUpdateValueSet,
   ApiTestDataUpdateVariable |-> ApiTestDataUpdateVariable,
   ApiTestExecutionIdentifier |-> ApiTestExecutionIdentifier,
   ApiTestExecutionNewResponseTestCaseContext |-> ApiTestExecutionNewResponseTestCaseContext,
   ApiTestExecutionNewResponseTestScenarioContext |-> ApiTestExecutionNewResponseTestScenarioContext,
   ApiTestExecutionPatchCancel |-> ApiTestExecutionPatchCancel,
   ApiTestExecutionPatchFinalize |-> ApiTestExecutionPatchFinalize,
   ApiTestExecutionPatchMarkIrrelevant |-> ApiTestExecutionPatchMarkIrrelevant,
   ApiTestExecutionPatchMarkRelevant |-> ApiTestExecutionPatchMarkRelevant,
   ApiTestExecutionUpdateSingle |-> ApiTestExecutionUpdateSingle,
   ApiTestJobStatisticsEntry |-> ApiTestJobStatisticsEntry,
   ApiTestScenarioReportAllowedOptionsUpdate |-> ApiTestScenarioReportAllowedOptionsUpdate,
   ApiTestScenarioReportOptions |-> ApiTestScenarioReportOptions,
   ApiTestStepBase |-> ApiTestStepBase, ApiUploadedFile |-> ApiUploadedFile,
   ApiUserLicenseAssignmentChangeLicenseTypePatchRequest |-> ApiUserLicenseAssignmentChangeLicenseTypePatchRequest,
   ApiUserPatchOperation |-> ApiUserPatchOperation,
   ApiUserPatchPosition |-> ApiUserPatchPosition,
   ApiUserPatchRequestActivateUser |-> ApiUserPatchRequestActivateUser,
   ApiUserPatchRequestDeactivateUser |-> ApiUserPatchRequestDeactivateUser,
   ApiUserPatchRequestPasswordReset |-> ApiUserPatchRequestPasswordReset,
   ApiUserPatchRequestSetServerAdministrator |-> ApiUserPatchRequestSetServerAdministrator,
   ApiUserPatchRequestSetUserPassword |-> ApiUserPatchRequestSetUserPassword,
   ApiUserProjectFolderAssignmentPatchReplace |-> ApiUserProjectFolderAssignmentPatchReplace,
   ApiUserViewPatchCopyCollectionOperation |-> ApiUserViewPatchCopyCollectionOperation,
   AuthenticationHeaderValue |-> AuthenticationHeaderValue,
   CacheControlHeaderValue |-> CacheControlHeaderValue,
   ContentDispositionHeaderValue |-> ContentDispositionHeaderValue,
   ContentRangeHeaderValue |-> ContentRangeHeaderValue,
   EntityTagHeaderValue |-> EntityTagHeaderValue, HttpContent |-> HttpContent,
   HttpContentHeaders |-> HttpContentHeaders, HttpMethod |-> HttpMethod,
   HttpRequestHeaders |-> HttpRequestHeaders, HttpRequestMessage |-> HttpRequestMessage,
   HttpRequestMessageProperties |-> HttpRequestMessageProperties,
   KeyValuePairOfStringAndIEnumerableOfString |-> KeyValuePairOfStringAndIEnumerableOfString,
   MediaTypeHeaderValue |-> MediaTypeHeaderValue,
   MediaTypeWithQualityHeaderValue |-> MediaTypeWithQualityHeaderValue,
   NameValueHeaderValue |-> NameValueHeaderValue,
   NameValueWithParametersHeaderValue |-> NameValueWithParametersHeaderValue,
   ProductHeaderValue |-> ProductHeaderValue,
   ProductInfoHeaderValue |-> ProductInfoHeaderValue,
   RangeConditionHeaderValue |-> RangeConditionHeaderValue,
   RangeHeaderValue |-> RangeHeaderValue, RangeItemHeaderValue |-> RangeItemHeaderValue,
   StringWithQualityHeaderValue |-> StringWithQualityHeaderValue,
   TransferCodingHeaderValue |-> TransferCodingHeaderValue,
   TransferCodingWithQualityHeaderValue |-> TransferCodingWithQualityHeaderValue,
   Version |-> Version, ViaHeaderValue |-> ViaHeaderValue,
   WarningHeaderValue |-> WarningHeaderValue]
=============================================================================
