------------------------- MODULE RestSharedSchemas -------------------------
(*****************************************************************************)
(* The generated model classes used by endpoints of several kinds.           *)
(* Each definition says what to_dict and from_dict of the class do; the      *)
(* patterns are those of RestCodec.                                          *)
(*****************************************************************************)
EXTENDS RestCodec, TLC

ApiArgumentError ==
  Open(
    PlainNeeded({"Message", "Code", "Type"})
    @@ Plain({"FurtherInfo", "ErrorData"})
    @@ Enum({"ArgumentErrorType"}))

ApiBackendNotAvailableError ==
  Open(
    PlainNeeded({"Message", "Code", "Type"})
    @@ Plain({"FurtherInfo", "ErrorData"}))

ApiEditLayout == Closed(ModelList("ApiEditLayoutEntry", {"Entries"}))

ApiEditLayoutEntry == Closed(PlainNeeded({"EntryType"}))

ApiEditStatus ==
  Closed(
    Plain({"Version"})
    @@ Model("ApiEditableInfo", {"EditableInfo"}))

ApiEditableInfo ==
  Closed(
    Enum({"Status"})
    @@ Model("ApiUserInfo", {"LockingUser"})
    @@ Model("ApiFieldValueDateTime", {"LockingDate"}))

ApiFieldDefaultValue ==
  Closed(
    Model("ApiFieldValue", {"Value"})
    @@ Plain({"Mandatory"}))

ApiFieldEditMeta ==
  Closed(
    Plain({"PossibleValues", "AllowOtherValues", "Required", "Readonly", "FieldMask",
            "Visible", "Highlight"})
    @@ Model("ApiFieldDefaultValue", {"DefaultValue"})
    @@ ModelList("ApiFieldRule", {"Rules"})
    @@ Model("ApiFieldRange", {"Range"}))

ApiFieldRange == Closed(Plain({"Min", "Max"}))

ApiFieldRule == Closed(PlainNeeded({"Guid", "FieldId", "RuleType"}))

ApiFieldValue ==
  Closed(
    PlainNeeded({"FieldValueType"})
    @@ Plain({"Text"}))

ApiFieldValueDateTime ==
  Open(
    PlainNeeded({"FieldValueType"})
    @@ Plain({"Text"})
    @@ DateOrNull({"Value"}))

ApiFieldWithValue ==
  Open(
    Plain({"Id", "Title"})
    @@ Enum({"FieldType"})
    @@ Model("ApiFieldEditMeta", {"EditMeta"})
    @@ Model("ApiFieldValue", {"Value"}))

ApiFileUploadInfo == Closed(Plain({"Guid", "Url"}))

ApiFilter == Closed(Plain({"Expression", "DisplayText"}))

ApiFilterUpdate == Closed(Plain({"Expression"}))

ApiForbiddenError ==
  Open(
    PlainNeeded({"Message", "Code", "Type"})
    @@ Plain({"FurtherInfo", "ErrorData"})
    @@ Enum({"ForbiddenErrorType"}))

ApiInternalError ==
  Open(
    PlainNeeded({"Message", "Code", "Type"})
    @@ Plain({"FurtherInfo", "ErrorData"}))

ApiItem ==
  Open(
    Plain({"Id", "FormattedId", "Name", "Archived", "HasDependency", "HasFiles"})
    @@ Enum({"Type"})
    @@ Model("ApiItemVersion", {"Version"})
    @@ Model("ApiItemLocation", {"Location"})
    @@ Model("ApiFieldValueDateTime", {"LastModified"})
    @@ Model("ApiEditableInfo", {"EditableInfo"})
    @@ Model("ApiItemPermissions", {"Permissions"})
    @@ EnumOrNull({"SyncStatus"})
    @@ ModelList("ApiFieldWithValue", {"Details"})
    @@ Model("ApiEditLayout", {"EditLayout"}))

ApiItemInfo ==
  Open(
    Plain({"Id", "FormattedId", "Name", "Archived", "HasDependency", "HasFiles"})
    @@ Enum({"Type"})
    @@ Model("ApiItemVersion", {"Version"})
    @@ Model("ApiItemLocation", {"Location"})
    @@ Model("ApiFieldValueDateTime", {"LastModified"})
    @@ Model("ApiEditableInfo", {"EditableInfo"})
    @@ Model("ApiItemPermissions", {"Permissions"})
    @@ EnumOrNull({"SyncStatus"}))

ApiItemListResult ==
  Closed(
    ModelList("ApiItem", {"Items"})
    @@ Plain({"StartAt", "MaxResults", "Count"}))

ApiItemLocation ==
  Closed(
    Plain({"ProjectId", "ProjectName", "FolderId", "Text", "IsProjectArchived"})
    @@ ModelList("ApiProjectFolder", {"Path"}))

ApiItemPermissions ==
  Closed(
    Enum({"CanCreateDependency", "CanDeleteDependency", "CanEditFields", "CanEditStatus",
           "CanDelete", "CanViewAttachments", "CanAddAttachments", "CanDeleteAttachments",
           "CanCreateEditMindMap", "CanManageProjectCustomDefaults"})
    @@ Model("ApiItemPermissionsCanCreateDependentItem", {"CanCreateDependentItem"}))

ApiItemPermissionsCanCreateDependentItem == MapOfEnums

ApiItemVersion == Closed(Plain({"Version", "OperationNumber", "SubOperationNumber"}))

ApiLongOperationOfBoolean == Closed(Plain({"LongRunningTaskGuid", "Result"}))

ApiNotFoundError ==
  Open(
    PlainNeeded({"Message", "Code", "Type"})
    @@ Plain({"FurtherInfo", "ErrorData"}))

ApiNotificationRuleFilterOptions ==
  Closed(
    Plain({"BaseObjectChangedProperties", "BaseObjectChangedStatus",
            "BaseObjectAcceptedStatuses", "BaseObjectCreated", "BaseObjectMoved",
            "BaseObjectDeleted", "BaseObjectChangeUnderAssignment",
            "BaseObjectChangeUnderOwnership", "BaseObjectAssigned"}))

ApiProjectFolder ==
  Closed(
    Plain({"Id", "Name", "ParentFolderId"})
    @@ Model("ApiProjectFolderPermissions", {"FolderPermissions"}))

ApiProjectFolderItemTypePermissions ==
  Closed(
    Enum({"CanViewItem", "CanCreateItem", "CanViewItemAnySubfolder",
           "CanEditItemAnySubfolder", "CanCutItemAnySubfolder",
           "CanBatchEditItemAnySubfolder", "CanCreateItemAnySubfolder",
           "CanDeleteItemAnySubfolder", "CanExecuteTestCaseAutomated",
           "CanExecuteTestCaseManual", "CanFinalizeTestExecution"}))

ApiProjectFolderPermissions ==
  Closed(
    Model("ApiProjectFolderItemTypePermissions", {"Requirement", "Defect", "TestCase",
                                                   "TestScenario", "Script"})
    @@ Enum({"CanManageTree", "CanImportItems", "CanExportItems"}))

ApiProjectIdName == Closed(Plain({"Id", "Name"}))

ApiProjectTreeFolder ==
  Closed(
    Plain({"Id", "ProjectId", "Name", "ParentFolderId", "HasSubfolders"}))

ApiProjectTreeProject == Closed(Plain({"Id", "Name", "HasSubfolders", "Archived"}))

ApiProjectTreeResponse ==
  Closed(
    ModelList("ApiProjectTreeProject", {"Projects"})
    @@ ModelList("ApiProjectTreeFolder", {"Subfolders"}))

ApiRoleIdName == Closed(Plain({"Id", "Name"}))

ApiSystemPermissions ==
  Closed(
    Enum({"CanCreateProject", "CanManageRoles", "CanManageAnyUsers", "CanViewSystemLog",
           "CanManageAnyIntegrations", "CanViewAnyAgileBoard"}))

ApiUnauthorizedError ==
  Open(
    PlainNeeded({"Message", "Code", "Type"})
    @@ Plain({"FurtherInfo", "ErrorData"}))

ApiUserInfo ==
  Closed(
    Plain({"Id", "UserName", "FirstName", "Surname", "Fullname", "Email", "Phone",
            "Position", "PictureUrl"}))

ApiUserViewPermissions == Closed(Enum({"CanEdit", "CanDelete", "CanPublish", "CanMakePrivate"}))

SharedSchemas ==
  [ApiArgumentError |-> ApiArgumentError,
   ApiBackendNotAvailableError |-> ApiBackendNotAvailableError,
   ApiEditLayout |-> ApiEditLayout, ApiEditLayoutEntry |-> ApiEditLayoutEntry,
   ApiEditStatus |-> ApiEditStatus, ApiEditableInfo |-> ApiEditableInfo,
   ApiFieldDefaultValue |-> ApiFieldDefaultValue, ApiFieldEditMeta |-> ApiFieldEditMeta,
   ApiFieldRange |-> ApiFieldRange, ApiFieldRule |-> ApiFieldRule,
   ApiFieldValue |-> ApiFieldValue, ApiFieldValueDateTime |-> ApiFieldValueDateTime,
   ApiFieldWithValue |-> ApiFieldWithValue, ApiFileUploadInfo |-> ApiFileUploadInfo,
   ApiFilter |-> ApiFilter, ApiFilterUpdate |-> ApiFilterUpdate,
   ApiForbiddenError |-> ApiForbiddenError, ApiInternalError |-> ApiInternalError,
   ApiItem |-> ApiItem, ApiItemInfo |-> ApiItemInfo,
   ApiItemListResult |-> ApiItemListResult, ApiItemLocation |-> ApiItemLocation,
   ApiItemPermissions |-> ApiItemPermissions,
   ApiItemPermissionsCanCreateDependentItem |-> ApiItemPermissionsCanCreateDependentItem,
   ApiItemVersion |-> ApiItemVersion,
   ApiLongOperationOfBoolean |-> ApiLongOperationOfBoolean,
   ApiNotFoundError |-> ApiNotFoundError,
   ApiNotificationRuleFilterOptions |-> ApiNotificationRuleFilterOptions,
   ApiProjectFolder |-> ApiProjectFolder,
   ApiProjectFolderItemTypePermissions |-> ApiProjectFolderItemTypePermissions,
   ApiProjectFolderPermissions |-> ApiProjectFolderPermissions,
   ApiProjectIdName |-> ApiProjectIdName, ApiProjectTreeFolder |-> ApiProjectTreeFolder,
   ApiProjectTreeProject |-> ApiProjectTreeProject,
   ApiProjectTreeResponse |-> ApiProjectTreeResponse, ApiRoleIdName |-> ApiRoleIdName,
   ApiSystemPermissions |-> ApiSystemPermissions,
   ApiUnauthorizedError |-> ApiUnauthorizedError, ApiUserInfo |-> ApiUserInfo,
   ApiUserViewPermissions |-> ApiUserViewPermissions]
============================================================================
