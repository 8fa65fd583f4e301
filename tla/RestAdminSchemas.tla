-------------------------- MODULE RestAdminSchemas --------------------------
(*****************************************************************************)
(* The generated model classes of the endpoints of configuration, users,     *)
(* sessions, files and the system.                                           *)
(* Each definition says what to_dict and from_dict of the class do; the      *)
(* patterns are those of RestCodec.                                          *)
(*****************************************************************************)
EXTENDS RestCodec, TLC

ApiConfigElement ==
  Open(
    Plain({"DataPath", "Locked", "ProjectId", "UserId"})
    @@ ModelList("ApiConfigElementEntry", {"Entries"}))

ApiConfigElementEntry == Open(Plain({"Label", "Content", "Id"}))

ApiConfigElementEntrySave == Closed(Plain({"Label", "Content"}))

ApiConfigElementPatchOperation == Closed(PlainNeeded({"OperationType"}))

ApiConfigElementSave ==
  Open(
    Plain({"DataPath", "Locked", "ProjectId", "UserId"})
    @@ ModelList("ApiConfigElementEntrySave", {"Entries"}))

ApiCustomNotificationNew == Closed(Plain({"Recipients", "Subject", "Body"}))

ApiCustomizedStrings ==
  Closed(
    Model("ApiCustomizedStringsGerman", {"German"})
    @@ Model("ApiCustomizedStringsEnglish", {"English"}))

ApiCustomizedStringsEnglish == Open(NoFields)

ApiCustomizedStringsGerman == Open(NoFields)

ApiDependenciesPermissionPatchRequest ==
  Closed(
    PlainNeeded({"OperationType"})
    @@ ItemList({"AllPermissions"}))

ApiFileUploadUrlRequest == Closed(PlainNeeded({"FileName", "FileSize"}))

ApiFileUploadUrlResponse ==
  Closed(
    Plain({"Guid", "UploadUrl", "DownloadUrl"})
    @@ Enum({"UrlType"}))

ApiFolderNotificationRule ==
  Closed(
    Model("ApiItemLocation", {"NotificationLocation"})
    @@ Model("ApiUserInfo", {"CreatedByUser", "Owner"})
    @@ Plain({"Id", "IgnoreIfOwnerAction", "Recursive", "Inherited",
               "InheritedFromProjectDefault"})
    @@ Enum({"FilterType"})
    @@ Model("ApiNotificationRuleFilterOptions", {"CustomFilterOptions"}))

ApiFolderNotificationRulePatchRequest ==
  Closed(
    Enum({"ItemType", "Operation"})
    @@ Plain({"FolderId", "Recursive"})
    @@ Model("ApiFolderNotificationRuleReplacement", {"Rule"}))

ApiFolderNotificationRuleReplacement ==
  Closed(
    Enum({"FilterType"})
    @@ Model("ApiNotificationRuleFilterOptions", {"CustomFilterOptions"})
    @@ Plain({"IgnoreIfOwnerAction"}))

ApiFolderNotificationRuleResponse ==
  Closed(
    Enum({"ItemType"})
    @@ Model("ApiFolderNotificationRule", {"ActiveFolderRule", "NextInheritableRule"}))

ApiGetLicensePermissionsResponse == Closed(ItemList({"Permissions"}))

ApiGetLicenseResponse == Closed(ModelList("ApiLicense", {"Licenses"}))

ApiGridConfig ==
  Closed(
    Plain({"ActiveUserViewId", "IncludeSubfolders", "IncludeArchivedItems",
            "ShowFilterRow", "FilterExpression", "IsFilterActive"})
    @@ ModelList("ApiGridConfigColumn", {"Columns"})
    @@ ModelList("ApiGridConfigColumnSortGroup", {"SortGroup"}))

ApiGridConfigColumn ==
  Closed(
    Plain({"FieldId", "Width"})
    @@ EnumZero({"FixedPosition"}))

ApiGridConfigColumnSortGroup ==
  Closed(
    Plain({"FieldId", "IsGrouped"})
    @@ EnumZero({"SortOrder"}))

ApiImageInfo == Closed(Plain({"Id", "Checksum", "FileExtension"}))

ApiImageUploadInfo == Closed(Plain({"Checksum", "Url"}))

ApiLicense ==
  Closed(
    Plain({"Code", "Name", "MaxNamedLicensesAvailable", "MaxFloatingLicensesAvailable"})
    @@ Date({"StartTime", "ExpiryTime"}))

ApiLicenseProfile ==
  Closed(
    Plain({"ProfileCode", "ProfileName", "NamedTotal", "FloatingTotal", "NamedUsed",
            "FloatingUsed"}))

ApiLicenseProfileUtilizationInfo ==
  Closed(
    Enum({"Utilization"})
    @@ Plain({"ProfileCode", "AsFloating"}))

ApiLoginIncident ==
  Closed(
    Plain({"CustomerId", "LoginSuccessfull", "ReasonData", "ClientId", "Relogin"})
    @@ Date({"OccurrenceDate"})
    @@ Enum({"ReasonCode", "ClientType"})
    @@ Model("ApiUserInfo", {"User"}))

ApiLongOperationInfoBase ==
  Closed(
    PlainNeeded({"InfoType"})
    @@ Enum({"Status"}))

ApiLongOperationPatchOperation == Closed(PlainNeeded({"Operation"}))

ApiMyUserInfo ==
  Open(
    Plain({"Id", "UserName", "FirstName", "Surname", "Fullname", "Email", "Phone",
            "Position", "PictureUrl", "CustomerId", "IsFirstLogin", "ServerAdministrator",
            "TenantName", "SecureModeHash"}))

ApiNewsSettings == Closed(Plain({"Url"}))

ApiOperationLog ==
  Closed(
    Plain({"Id", "ProjectId", "ProjectName", "FolderId", "FolderPath", "Category",
            "EntityType", "EntityId", "FurtherInfo"})
    @@ Model("ApiUserInfo", {"OperationUser", "EntityUser"})
    @@ Model("ApiFieldValueDateTime", {"OperationDateUTC"}))

ApiOperationLogCategory ==
  Closed(
    Plain({"Name"})
    @@ Enum({"Scope"}))

ApiPaginatedResultOfApiLoginIncident ==
  Closed(
    Plain({"StartAt", "MaxResults", "Count"})
    @@ ModelList("ApiLoginIncident", {"Items"}))

ApiPaginatedResultOfApiUserLastActivityInfo ==
  Closed(
    Plain({"StartAt", "MaxResults", "Count"})
    @@ ModelList("ApiUserLastActivityInfo", {"Items"}))

ApiPermissionDependenciesPatchResponse == Closed(PlainNeeded({"OperationType"}))

ApiProjectFolderFavourite ==
  Closed(
    Plain({"Id", "Label"})
    @@ Model("ApiItemLocation", {"Location"}))

ApiProjectFolderFavouriteNew == Closed(Plain({"ProjectId", "FolderId", "Label"}))

ApiProjectFolderFavouritePatch == Closed(PlainNeeded({"PatchOperation"}))

ApiProjectIdNameHasSubfolders == Open(Plain({"Id", "Name", "HasSubfolders"}))

ApiRegisteredFileEditor ==
  Closed(
    Plain({"FileExtension", "Key", "JSControllerName", "Icon16", "Icon32"}))

ApiRegisteredFileEditorsRepository ==
  Closed(
    ModelList("ApiRegisteredFileEditor", {"Meta"})
    @@ Plain({"Scripts"}))

ApiResetPasswordResult == Closed(Plain({"IsSuccess", "Message"}))

ApiResetPasswordUser == Closed(Plain({"Email", "Tenant"}))

ApiRole ==
  Open(
    Plain({"Id", "Name", "IsDefault"})
    @@ ItemList({"Permissions"}))

ApiRoleNew ==
  Closed(
    Plain({"Name"})
    @@ ItemList({"Permissions"}))

ApiRoleNewResponse == Closed(Plain({"RoleId"}))

ApiRolePatchRequest == Closed(PlainNeeded({"OperationType"}))

ApiSearchOperationLogResult ==
  Closed(
    Plain({"Count", "FirstResults", "MaxResults"})
    @@ ModelList("ApiOperationLog", {"Items"}))

ApiSystemGetColorsResponse == Closed(Plain({"Colors"}))

ApiSystemSettings ==
  Closed(
    Model("ApiCustomizedStrings", {"CustomizedStrings"})
    @@ Model("ApiWikiLinksSettings", {"WikiLinksSettings"})
    @@ Model("ApiNewsSettings", {"NewsSettings"})
    @@ Plain({"ServerIdentity", "SoftwareVersion", "AttachmentMaxFileSize",
               "AttachmentMaxFileSizeForUploadUrl", "TestJobsInTestScenarioMaxCount",
               "IsEnterpriseModeOn", "OceanModeOn", "ScreenShotMaxFileSize", "EnableNewUI",
               "AllowedAttachmentFileExtensions", "EnableStopWatchForManualExecutions", "WL",
               "MaximumNumberOfAttachedLabels", "AllowInternalUserAuthentication"}))

ApiUpdateRole ==
  Closed(
    Plain({"NewName"})
    @@ ItemList({"NewPermissions"}))

ApiUpdateUser ==
  Closed(
    Plain({"UserName", "FirstName", "Surname", "Email", "Phone", "Position"}))

ApiUser ==
  Open(
    Plain({"Id", "UserName", "FirstName", "Surname", "Fullname", "Email", "Phone",
            "Position", "PictureUrl", "ServerAdministrator"})
    @@ Enum({"Status"})
    @@ ModelList("ApiUserProjectAssignment", {"Projects"})
    @@ ModelList("ApiUserLicenseAssignment", {"Licenses"})
    @@ ModelList("ApiLicenseProfile", {"LicenseProfiles"}))

ApiUserLastActivityInfo ==
  Closed(
    DateOrNull({"LastActivity"})
    @@ ModelList("ApiLicenseProfileUtilizationInfo", {"LicenseUsage"})
    @@ Plain({"ClientId"})
    @@ Model("ApiUserInfo", {"User"})
    @@ Enum({"State", "ClientType"}))

ApiUserLicenseAssignment ==
  Closed(
    Plain({"Code"})
    @@ Enum({"Type"}))

ApiUserLicenseAssignmentPatchRequest == Closed(PlainNeeded({"OperationType"}))

ApiUserMinimalInfo ==
  Closed(
    Plain({"Id", "UserName", "FirstName", "Surname", "AnyActiveLicense"})
    @@ Enum({"Status"}))

ApiUserNew == Closed(Plain({"UserName", "FirstName", "Surname", "Email", "Phone", "Position"}))

ApiUserNewReponse == Closed(Plain({"UserId"}))

ApiUserPatchRequest == Closed(PlainNeeded({"OperationType"}))

ApiUserProjectAssignment ==
  Closed(
    Model("ApiProjectIdNameHasSubfolders", {"Project"})
    @@ Model("ApiRoleIdName", {"Role"}))

ApiWikiLinksSettings == Closed(Model("ApiWikiLinksSettingsBaseUrls", {"BaseUrls"}))

ApiWikiLinksSettingsBaseUrls == Open(NoFields)

FileUploadFileMultipartData == Open(ItemListStrict({"file"}))

GenericPermissionInfo ==
  Closed(
    Plain({"Title", "GenericPermissionName", "Group", "AllowedFolderLevel", "RequiredAll",
            "RequiredAny", "LicenseOnly"})
    @@ Enum({"PermissionAll"})
    @@ EnumOrNull({"PermissionAssigned", "PermissionOwned"})
    @@ EnumZero({"Scope"})
    @@ EnumZeroOrNull({"LoginClientType"})
    @@ ItemList({"PermisionVariants"}))

ImageUploadImageMultipartData == Open(ItemListStrict({"file"}))

SystemChangeUserPhotoMultipartData == Open(ItemListStrict({"file"}))

UserChangeUserPhotoMultipartData == Open(ItemListStrict({"file"}))

AdminSchemas ==
  [ApiConfigElement |-> ApiConfigElement, ApiConfigElementEntry |-> ApiConfigElementEntry,
   ApiConfigElementEntrySave |-> ApiConfigElementEntrySave,
   ApiConfigElementPatchOperation |-> ApiConfigElementPatchOperation,
   ApiConfigElementSave |-> ApiConfigElementSave,
   ApiCustomNotificationNew |-> ApiCustomNotificationNew,
   ApiCustomizedStrings |-> ApiCustomizedStrings,
   ApiCustomizedStringsEnglish |-> ApiCustomizedStringsEnglish,
   ApiCustomizedStringsGerman |-> ApiCustomizedStringsGerman,
   ApiDependenciesPermissionPatchRequest |-> ApiDependenciesPermissionPatchRequest,
   ApiFileUploadUrlRequest |-> ApiFileUploadUrlRequest,
   ApiFileUploadUrlResponse |-> ApiFileUploadUrlResponse,
   ApiFolderNotificationRule |-> ApiFolderNotificationRule,
   ApiFolderNotificationRulePatchRequest |-> ApiFolderNotificationRulePatchRequest,
   ApiFolderNotificationRuleReplacement |-> ApiFolderNotificationRuleReplacement,
   ApiFolderNotificationRuleResponse |-> ApiFolderNotificationRuleResponse,
   ApiGetLicensePermissionsResponse |-> ApiGetLicensePermissionsResponse,
   ApiGetLicenseResponse |-> ApiGetLicenseResponse, ApiGridConfig |-> ApiGridConfig,
   ApiGridConfigColumn |-> ApiGridConfigColumn,
   ApiGridConfigColumnSortGroup |-> ApiGridConfigColumnSortGroup,
   ApiImageInfo |-> ApiImageInfo, ApiImageUploadInfo |-> ApiImageUploadInfo,
   ApiLicense |-> ApiLicense, ApiLicenseProfile |-> ApiLicenseProfile,
   ApiLicenseProfileUtilizationInfo |-> ApiLicenseProfileUtilizationInfo,
   ApiLoginIncident |-> ApiLoginIncident,
   ApiLongOperationInfoBase |-> ApiLongOperationInfoBase,
   ApiLongOperationPatchOperation |-> ApiLongOperationPatchOperation,
   ApiMyUserInfo |-> ApiMyUserInfo, ApiNewsSettings |-> ApiNewsSettings,
   ApiOperationLog |-> ApiOperationLog, ApiOperationLogCategory |-> ApiOperationLogCategory,
   ApiPaginatedResultOfApiLoginIncident |-> ApiPaginatedResultOfApiLoginIncident,
   ApiPaginatedResultOfApiUserLastActivityInfo |-> ApiPaginatedResultOfApiUserLastActivityInfo,
   ApiPermissionDependenciesPatchResponse |-> ApiPermissionDependenciesPatchResponse,
   ApiProjectFolderFavourite |-> ApiProjectFolderFavourite,
   ApiProjectFolderFavouriteNew |-> ApiProjectFolderFavouriteNew,
   ApiProjectFolderFavouritePatch |-> ApiProjectFolderFavouritePatch,
   ApiProjectIdNameHasSubfolders |-> ApiProjectIdNameHasSubfolders,
   ApiRegisteredFileEditor |-> ApiRegisteredFileEditor,
   ApiRegisteredFileEditorsRepository |-> ApiRegisteredFileEditorsRepository,
   ApiResetPasswordResult |-> ApiResetPasswordResult,
   ApiResetPasswordUser |-> ApiResetPasswordUser, ApiRole |-> ApiRole,
   ApiRoleNew |-> ApiRoleNew, ApiRoleNewResponse |-> ApiRoleNewResponse,
   ApiRolePatchRequest |-> ApiRolePatchRequest,
   ApiSearchOperationLogResult |-> ApiSearchOperationLogResult,
   ApiSystemGetColorsResponse |-> ApiSystemGetColorsResponse,
   ApiSystemSettings |-> ApiSystemSettings, ApiUpdateRole |-> ApiUpdateRole,
   ApiUpdateUser |-> ApiUpdateUser, ApiUser |-> ApiUser,
   ApiUserLastActivityInfo |-> ApiUserLastActivityInfo,
   ApiUserLicenseAssignment |-> ApiUserLicenseAssignment,
   ApiUserLicenseAssignmentPatchRequest |-> ApiUserLicenseAssignmentPatchRequest,
   ApiUserMinimalInfo |-> ApiUserMinimalInfo, ApiUserNew |-> ApiUserNew,
   ApiUserNewReponse |-> ApiUserNewReponse, ApiUserPatchRequest |-> ApiUserPatchRequest,
   ApiUserProjectAssignment |-> ApiUserProjectAssignment,
   ApiWikiLinksSettings |-> ApiWikiLinksSettings,
   ApiWikiLinksSettingsBaseUrls |-> ApiWikiLinksSettingsBaseUrls,
   FileUploadFileMultipartData |-> FileUploadFileMultipartData,
   GenericPermissionInfo |-> GenericPermissionInfo,
   ImageUploadImageMultipartData |-> ImageUploadImageMultipartData,
   SystemChangeUserPhotoMultipartData |-> SystemChangeUserPhotoMultipartData,
   UserChangeUserPhotoMultipartData |-> UserChangeUserPhotoMultipartData]
=============================================================================
