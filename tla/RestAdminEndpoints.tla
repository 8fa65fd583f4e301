------------------------- MODULE RestAdminEndpoints -------------------------
(*****************************************************************************)
(* The endpoints of configuration, users, sessions, files and the system.    *)
(* Each definition says which request _get_kwargs builds and what            *)
(* _parse_response makes of the answer; the patterns are those of            *)
(* RestEndpoint.                                                             *)
(*****************************************************************************)
EXTENDS RestEndpoint

config_delete_config_user ==
  Endpoint("delete", "/api/ConfigData/Entry/{id}", {}, NoBody,
    NoContent(204) \cup Problems({401, 403, 500, 503}))

config_lookup_config_default ==
  Endpoint("get", "/api/ConfigData/Default",
    Optional({"dataPath", "projectId"}) \cup Preset({"includeData"}), NoBody,
    Object(200, "ApiConfigElement") \cup Problems({401, 500, 503}))

config_lookup_config_unified ==
  Endpoint("get", "/api/ConfigData/Unified",
    Optional({"dataPath", "projectId"}) \cup Preset({"includeData"}), NoBody,
    ObjectList(200, "ApiConfigElement") \cup Problems({400, 401, 404, 500, 503}))

config_lookup_config_user ==
  Endpoint("get", "/api/ConfigData/User",
    Optional({"dataPath", "projectId"}) \cup Preset({"includeData"}), NoBody,
    Object(200, "ApiConfigElement") \cup Problems({400, 401, 404, 500, 503}))

config_modify_config_default ==
  Endpoint("patch", "/api/ConfigData/Default", {}, Json("ApiConfigElementPatchOperation"),
    NoContent(204) \cup Problems({400, 401, 403, 404, 500, 503}))

config_modify_config_user ==
  Endpoint("patch", "/api/ConfigData/User", {}, Json("ApiConfigElementPatchOperation"),
    NoContent(204) \cup Problems({400, 401, 403, 404, 500, 503}))

config_save_or_update_config_default ==
  Endpoint("put", "/api/ConfigData/Default", {}, Json("ApiConfigElementSave"),
    Object(200, "ApiConfigElement") \cup Problems({400, 401, 403, 404, 500, 503}))

config_save_or_update_config_user ==
  Endpoint("put", "/api/ConfigData/User", {}, Json("ApiConfigElementSave"),
    Object(200, "ApiConfigElement") \cup Problems({400, 401, 403, 404, 500, 503}))

server_administrator_get_project_tree_data ==
  Endpoint("get", "/api/ServerAdministrator/Tree",
    Optional({"parentFolders"}) \cup Preset({"includeProjects", "includeArchived"}), NoBody,
    Object(200, "ApiProjectTreeResponse") \cup Problems({400, 401, 500, 503}))

session_delete ==
  Endpoint("delete", "/api/Session", {}, NoBody, Scalar(200) \cup Problems({401, 500, 503}))

session_get ==
  Endpoint("get", "/api/Session", {}, NoBody,
    Object(200, "ApiMyUserInfo") \cup Problems({401, 500, 503}))

system_assigne_license ==
  Endpoint("post", "/api/System/User/{userId}/License", {},
    Json("ApiUserLicenseAssignment"),
    NoContent(204) \cup Problems({400, 401, 404, 500, 503}))

system_change_user_photo ==
  Endpoint("put", "/api/System/User/{userId}/Photo", {},
    Multipart("SystemChangeUserPhotoMultipartData"),
    NoContent(204) \cup Problems({400, 401, 404, 500, 503}))

system_create_role ==
  Endpoint("post", "/api/System/Role", {}, Json("ApiRoleNew"),
    Object(200, "ApiRoleNewResponse") \cup Problems({401, 500, 503}))

system_create_user ==
  Endpoint("post", "/api/System/User", Preset({"sendNotification"}), Json("ApiUserNew"),
    Object(200, "ApiUserNewReponse") \cup Problems({400, 401, 500, 503}))

system_delete_license ==
  Endpoint("delete", "/api/System/User/{userId}/License/{licenseCode}", {}, NoBody,
    NoContent(204) \cup Problems({401, 404, 500, 503}))

system_delete_role ==
  Endpoint("delete", "/api/System/Role/{roleId}", {}, NoBody,
    NoContent(204) \cup Problems({401, 404, 500, 503}))

system_delete_user ==
  Endpoint("delete", "/api/System/User/{userId}", {}, NoBody,
    NoContent(204) \cup Problems({401, 404, 500, 503}))

system_get_all_permissions ==
  Endpoint("get", "/api/System/Permissions/All", {}, NoBody,
    ObjectList(200, "GenericPermissionInfo") \cup Problems({401, 500, 503}))

system_get_colors ==
  Endpoint("get", "/api/System/Colors", {}, NoBody,
    Object(200, "ApiSystemGetColorsResponse") \cup Problems({401, 500, 503}))

system_get_last_user_activity ==
  Endpoint("get", "/api/System/License/LastUserActivity",
    Preset({"startAt", "maxResults"}) \cup Optional({"filter", "orderBy"}), NoBody,
    Object(200, "ApiPaginatedResultOfApiUserLastActivityInfo") \cup Problems({401, 500, 503}))

system_get_license_permissions ==
  Endpoint("get", "/api/System/License/Permissions", Optional({"licenseProfileCode"}),
    NoBody, Object(200, "ApiGetLicensePermissionsResponse") \cup Problems({401, 500, 503}))

system_get_licenses ==
  Endpoint("get", "/api/System/License", {}, NoBody,
    Object(200, "ApiGetLicenseResponse") \cup Problems({401, 500, 503}))

system_get_login_incidents ==
  Endpoint("get", "/api/System/License/Incidents",
    Preset({"startAt", "maxResults"}) \cup Optional({"filter", "orderBy"}), NoBody,
    Object(200, "ApiPaginatedResultOfApiLoginIncident") \cup Problems({401, 500, 503}))

system_get_long_operation_info ==
  Endpoint("get", "/api/System/LongOperation/{guid}", {}, NoBody,
    Object(200, "ApiLongOperationInfoBase") \cup Problems({401, 404, 500, 503}))

system_get_long_operation_status ==
  Endpoint("get", "/api/System/LongOperation/{guid}/Status", {}, NoBody,
    Constant(200) \cup Problems({401, 404, 500, 503}))

system_get_permissions ==
  Endpoint("get", "/api/System/Permissions", Preset({"reload"}), NoBody,
    Object(200, "ApiSystemPermissions") \cup Problems({401, 500, 503}))

system_get_projects ==
  Endpoint("get", "/api/System/Project", Preset({"excludeArchived"}), NoBody,
    ObjectList(200, "ApiProjectIdName") \cup Problems({401, 500, 503}))

system_get_registered_editors ==
  Endpoint("get", "/api/System/RegisteredEditor", {}, NoBody,
    Object(200, "ApiRegisteredFileEditorsRepository") \cup Problems({401, 500, 503}))

system_get_role ==
  Endpoint("get", "/api/System/Role/{roleId}", {}, NoBody,
    Object(200, "ApiRole") \cup Problems({401, 404, 500, 503}))

system_get_roles ==
  Endpoint("get", "/api/System/Role", {}, NoBody,
    ObjectList(200, "ApiRoleIdName") \cup Problems({401, 500, 503}))

system_get_settings ==
  Endpoint("get", "/api/System/Settings", {}, NoBody,
    Object(200, "ApiSystemSettings") \cup Problems({401, 500, 503}))

system_get_shell_automation_profiles ==
  Endpoint("get", "/api/System/ShellAutomationProfile", {}, NoBody,
    Scalar(200) \cup Problems({401, 500, 503}))

system_get_user_information ==
  Endpoint("get", "/api/System/User/{userId}",
    Preset({"includeProjects", "includeLicenses"}), NoBody,
    Object(200, "ApiUser") \cup Problems({401, 404, 500, 503}))

system_get_users ==
  Endpoint("get", "/api/System/User", {}, NoBody,
    ObjectList(200, "ApiUserMinimalInfo") \cup Problems({401, 500, 503}))

system_modify_license ==
  Endpoint("patch", "/api/System/User/{userId}/License/{licenseCode}", {},
    Json("ApiUserLicenseAssignmentPatchRequest"),
    NoContent(204) \cup Problems({400, 401, 404, 500, 503}))

system_modify_long_operation ==
  Endpoint("patch", "/api/System/LongOperation/{guid}", {},
    Json("ApiLongOperationPatchOperation"),
    NoContent(204) \cup Problems({400, 401, 404, 500, 503}))

system_modify_role ==
  Endpoint("patch", "/api/System/Role/{roleId}", {}, Json("ApiRolePatchRequest"),
    NoContent(204) \cup Problems({400, 401, 404, 500, 503}))

system_modify_user ==
  Endpoint("patch", "/api/System/User/{userId}", {}, Json("ApiUserPatchRequest"),
    NoContent(204) \cup Problems({400, 401, 404, 500, 503}))

system_send_notification ==
  Endpoint("post", "/api/System/NotifyUsers", {}, Json("ApiCustomNotificationNew"),
    NoContent(204) \cup Problems({400, 401, 403, 500, 503}))

system_update_role ==
  Endpoint("put", "/api/System/Role/{roleId}", {}, Json("ApiUpdateRole"),
    NoContent(204) \cup Problems({400, 401, 404, 500, 503}))

system_update_user ==
  Endpoint("put", "/api/System/User/{userId}", {}, Json("ApiUpdateUser"),
    NoContent(204) \cup Problems({400, 401, 404, 500, 503}))

system_validate_permission_dependencies ==
  Endpoint("patch", "/api/System/Permissions/Dependencies", {},
    Json("ApiDependenciesPermissionPatchRequest"),
    Object(200, "ApiPermissionDependenciesPatchResponse") \cup Problems({401, 500, 503}))

user_add_project_favourite ==
  Endpoint("put", "/api/User/ProjectFavourite/{projectId}", {}, NoBody,
    NoContent(204) \cup Problems({401, 500, 503}))

user_change_user_photo ==
  Endpoint("put", "/api/User/Photo", {}, Multipart("UserChangeUserPhotoMultipartData"),
    NoContent(204) \cup Problems({400, 401, 500, 503}))

user_create_project_folder_favourite ==
  Endpoint("post", "/api/User/FolderFavourite", {}, Json("ApiProjectFolderFavouriteNew"),
    Object(200, "ApiProjectFolderFavourite") \cup Problems({400, 401, 403, 404, 500, 503}))

user_delete_grid_config ==
  Endpoint("delete", "/api/User/GridConfig/Project/{projectId}/{itemType}", {}, NoBody,
    NoContent(204) \cup Problems({400, 401, 403, 404, 500, 503}))

user_delete_project_folder_favourite ==
  Endpoint("delete", "/api/User/FolderFavourite/{id}", {}, NoBody,
    NoContent(204) \cup Problems({401, 403, 404, 500, 503}))

user_get_folder_notification_rule ==
  Endpoint("get", "/api/User/FolderNotificationRule/Project/{projectId}/Folder/{folderId}",
    {}, NoBody,
    ObjectList(200, "ApiFolderNotificationRuleResponse") \cup Problems({401, 403, 404, 500, 503}))

user_get_grid_config ==
  Endpoint("get", "/api/User/GridConfig/Project/{projectId}/{itemType}", {}, NoBody,
    Object(200, "ApiGridConfig") \cup Problems({400, 401, 403, 404, 500, 503}))

user_get_project_folder_favourites ==
  Endpoint("get", "/api/User/FolderFavourite", {}, NoBody,
    ObjectList(200, "ApiProjectFolderFavourite") \cup Problems({401, 500, 503}))

user_patch_project_folder_favourite ==
  Endpoint("patch", "/api/User/FolderFavourite/{id}", {},
    Json("ApiProjectFolderFavouritePatch"),
    NoContent(204) \cup Problems({400, 401, 403, 404, 500, 503}))

user_remove_project_favourite ==
  Endpoint("delete", "/api/User/ProjectFavourite/{projectId}", {}, NoBody,
    NoContent(204) \cup Problems({401, 500, 503}))

user_update_folder_notification_rule ==
  Endpoint("patch", "/api/User/FolderNotificationRule/Project/{projectId}", {},
    JsonList("ApiFolderNotificationRulePatchRequest"),
    NoContent(204) \cup Problems({400, 401, 403, 404, 500, 503}))

user_update_grid_config ==
  Endpoint("put", "/api/User/GridConfig/Project/{projectId}/{itemType}", {},
    Json("ApiGridConfig"), NoContent(204) \cup Problems({400, 401, 403, 404, 500, 503}))

user_image_get_image_data ==
  Endpoint("get", "/api/UserImage/Data", Optional({"initialLetters"}), NoBody,
    Content(200) \cup Texts({400, 401, 500, 503}))

user_image_get_profil_picture ==
  Endpoint("get", "/api/UserImage/{userId}/picture", PresetEnum({"initials"}), NoBody,
    Content(200) \cup Texts({401, 404, 500, 503}))

image_get_image ==
  Endpoint("get", "/api/Image/Temp/{imageName}", {}, NoBody,
    Content(200) \cup Texts({401, 404, 500, 503}))

image_get_image_data ==
  Endpoint("get", "/api/Image/{id}/{checksum}/data", Preset({"resize"}), NoBody,
    Content(200) \cup Texts({401, 404, 500, 503}))

image_get_image_data_2 ==
  Endpoint("get", "/api/Image/{checksum}/data", Preset({"resize"}), NoBody,
    Content(200) \cup Texts({401, 404, 500, 503}))

image_get_image_info ==
  Endpoint("get", "/api/Image/{id}/{checksum}", {}, NoBody,
    Object(200, "ApiImageInfo") \cup Problems({401, 404, 500, 503}))

image_get_image_info_2 ==
  Endpoint("get", "/api/Image/{checksum}", {}, NoBody,
    Object(200, "ApiImageInfo") \cup Problems({401, 404, 500, 503}))

image_upload_image ==
  Endpoint("post", "/api/Image", {}, Multipart("ImageUploadImageMultipartData"),
    Object(200, "ApiImageUploadInfo") \cup Problems({400, 401, 500, 503}))

file_create_file_upload_ur_l ==
  Endpoint("post", "/api/File/UploadUrl", {}, Json("ApiFileUploadUrlRequest"),
    Object(200, "ApiFileUploadUrlResponse") \cup Problems({400, 401, 500, 503}))

file_get_file ==
  Endpoint("get", "/api/File/{guid}", {}, NoBody,
    Content(200) \cup Texts({400, 401, 404, 500, 503}))

file_upload_file ==
  Endpoint("post", "/api/File", Optional({"fileName"}),
    Multipart("FileUploadFileMultipartData"),
    Object(200, "ApiFileUploadInfo") \cup Problems({400, 401, 500, 503}))

file_upload_file_with_guid ==
  Endpoint("put", "/api/File/{guid}", {}, NoBody,
    NoContent(204) \cup Problems({400, 401, 500, 503}))

reset_password_reset ==
  Endpoint("post", "/api/ResetPassword", {}, Json("ApiResetPasswordUser"),
    Object(200, "ApiResetPasswordResult") \cup Problems({400, 500, 503}))

operation_log_get_categories ==
  Endpoint("get", "/api/OperationLog/Category", {}, NoBody,
    ObjectList(200, "ApiOperationLogCategory") \cup Problems({401, 500, 503}))

operation_log_search_operation_logs ==
  Endpoint("get", "/api/OperationLog/Search",
    Optional({"firstResults", "maxResults", "projectId", "folderId", "folderPath",
       "operationUserId", "category"}) \cup OptionalDate({"dateFromUTC", "dateToUTC"}),
    NoBody,
    Object(200, "ApiSearchOperationLogResult") \cup Problems({401, 403, 404, 500, 503}))

AdminEndpoints ==
  [config_delete_config_user |-> config_delete_config_user,
   config_lookup_config_default |-> config_lookup_config_default,
   config_lookup_config_unified |-> config_lookup_config_unified,
   config_lookup_config_user |-> config_lookup_config_user,
   config_modify_config_default |-> config_modify_config_default,
   config_modify_config_user |-> config_modify_config_user,
   config_save_or_update_config_default |-> config_save_or_update_config_default,
   config_save_or_update_config_user |-> config_save_or_update_config_user,
   server_administrator_get_project_tree_data |-> server_administrator_get_project_tree_data,
   session_delete |-> session_delete, session_get |-> session_get,
   system_assigne_license |-> system_assigne_license,
   system_change_user_photo |-> system_change_user_photo,
   system_create_role |-> system_create_role, system_create_user |-> system_create_user,
   system_delete_license |-> system_delete_license,
   system_delete_role |-> system_delete_role, system_delete_user |-> system_delete_user,
   system_get_all_permissions |-> system_get_all_permissions,
   system_get_colors |-> system_get_colors,
   system_get_last_user_activity |-> system_get_last_user_activity,
   system_get_license_permissions |-> system_get_license_permissions,
   system_get_licenses |-> system_get_licenses,
   system_get_login_incidents |-> system_get_login_incidents,
   system_get_long_operation_info |-> system_get_long_operation_info,
   system_get_long_operation_status |-> system_get_long_operation_status,
   system_get_permissions |-> system_get_permissions,
   system_get_projects |-> system_get_projects,
   system_get_registered_editors |-> system_get_registered_editors,
   system_get_role |-> system_get_role, system_get_roles |-> system_get_roles,
   system_get_settings |-> system_get_settings,
   system_get_shell_automation_profiles |-> system_get_shell_automation_profiles,
   system_get_user_information |-> system_get_user_information,
   system_get_users |-> system_get_users, system_modify_license |-> system_modify_license,
   system_modify_long_operation |-> system_modify_long_operation,
   system_modify_role |-> system_modify_role, system_modify_user |-> system_modify_user,
   system_send_notification |-> system_send_notification,
   system_update_role |-> system_update_role, system_update_user |-> system_update_user,
   system_validate_permission_dependencies |-> system_validate_permission_dependencies,
   user_add_project_favourite |-> user_add_project_favourite,
   user_change_user_photo |-> user_change_user_photo,
   user_create_project_folder_favourite |-> user_create_project_folder_favourite,
   user_delete_grid_config |-> user_delete_grid_config,
   user_delete_project_folder_favourite |-> user_delete_project_folder_favourite,
   user_get_folder_notification_rule |-> user_get_folder_notification_rule,
   user_get_grid_config |-> user_get_grid_config,
   user_get_project_folder_favourites |-> user_get_project_folder_favourites,
   user_patch_project_folder_favourite |-> user_patch_project_folder_favourite,
   user_remove_project_favourite |-> user_remove_project_favourite,
   user_update_folder_notification_rule |-> user_update_folder_notification_rule,
   user_update_grid_config |-> user_update_grid_config,
   user_image_get_image_data |-> user_image_get_image_data,
   user_image_get_profil_picture |-> user_image_get_profil_picture,
   image_get_image |-> image_get_image, image_get_image_data |-> image_get_image_data,
   image_get_image_data_2 |-> image_get_image_data_2,
   image_get_image_info |-> image_get_image_info,
   image_get_image_info_2 |-> image_get_image_info_2,
   image_upload_image |-> image_upload_image,
   file_create_file_upload_ur_l |-> file_create_file_upload_ur_l,
   file_get_file |-> file_get_file, file_upload_file |-> file_upload_file,
   file_upload_file_with_guid |-> file_upload_file_with_guid,
   reset_password_reset |-> reset_password_reset,
   operation_log_get_categories |-> operation_log_get_categories,
   operation_log_search_operation_logs |-> operation_log_search_operation_logs]
=============================================================================
