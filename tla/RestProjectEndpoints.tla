------------------------ MODULE RestProjectEndpoints ------------------------
(*****************************************************************************)
(* The endpoints of projects, reports, dashboards, agents, integrations and  *)
(* agile boards.                                                             *)
(* Each definition says which request _get_kwargs builds and what            *)
(* _parse_response makes of the answer; the patterns are those of            *)
(* RestEndpoint.                                                             *)
(*****************************************************************************)
EXTENDS RestEndpoint

project_create_folder ==
  Endpoint("post", "/api/Project/{projectId}/Folder/{folderId}/Subfolder", {},
    Json("ApiProjectFolderCreate"),
    Object(200, "ApiLongOperationOfInteger") \cup Problems({400, 401, 403, 404, 500, 503}))

project_create_folder_user_roles ==
  Endpoint("put", "/api/Project/{projectId}/UserRoles", Preset({"cascadeDelete"}),
    Json("ApiProjectUpdateProjectFolderRolesRequest"),
    Object(200, "ApiProjectUpdateProjectFolderRolesResponse") \cup Problems({401, 403, 404, 500, 503}))

project_create_project ==
  Endpoint("post", "/api/Project", {}, Json("ApiProjectCreate"),
    Object(200, "ApiProjectNewResponse") \cup Problems({400, 401, 403, 500, 503}))

project_create_user_assignment ==
  Endpoint("post", "/api/Project/{projectId}/UserAssignment", {},
    Json("ApiUserProjectFolderAssignment"),
    NoContent(204) \cup Problems({400, 401, 403, 404, 500, 503}))

project_delete_folder ==
  Endpoint("delete", "/api/Project/{projectId}/Folder/{folderId}",
    Preset({"deleteContent"}), NoBody,
    Object(200, "ApiLongOperation") \cup Problems({400, 401, 403, 404, 500, 503}))

project_delete_user_assignment ==
  Endpoint("delete", "/api/Project/{projectId}/UserAssignment",
    Needed({"userId"}) \cup Preset({"folderId", "cascadeDelete"}), NoBody,
    NoContent(204) \cup Problems({401, 403, 404, 500, 503}))

project_get ==
  Endpoint("get", "/api/Project/{id}", Preset({"includePermissions"}), NoBody,
    Object(200, "ApiProjectInfo") \cup Problems({401, 403, 404, 500, 503}))

project_get_agents ==
  Endpoint("get", "/api/Project/{projectId}/Agent", {}, NoBody,
    ObjectList(200, "ApiAgentBase") \cup Problems({401, 403, 404, 500, 503}))

project_get_all ==
  Endpoint("get", "/api/Project",
    Optional({"onlySharedWithProject"}) \cup Preset({"includePermissions",
       "includeArchived"}), NoBody,
    ObjectList(200, "ApiProjectInfo") \cup Problems({400, 401, 500, 503}))

project_get_folder ==
  Endpoint("get", "/api/Project/{projectId}/Folder/{folderId}",
    Preset({"includePermissions"}), NoBody,
    Object(200, "ApiProjectFolder") \cup Problems({401, 403, 404, 500, 503}))

project_get_folders ==
  Endpoint("get", "/api/Project/{projectId}/Folder", Preset({"includePermissions"}), NoBody,
    ObjectList(200, "ApiProjectFolder") \cup Problems({401, 403, 404, 500, 503}))

project_get_report_definitions ==
  Endpoint("get", "/api/Project/{projectId}/ReportDefinition",
    Preset({"includePermissions"}), NoBody,
    ObjectList(200, "ApiReportDefinitionInfo") \cup Problems({401, 403, 404, 500, 503}))

project_get_report_plugins ==
  Endpoint("get", "/api/Project/{projectId}/ReportPlugin", {}, NoBody,
    ObjectList(200, "ApiReportPlugin") \cup Problems({401, 403, 404, 500, 503}))

project_get_requirements ==
  Endpoint("get", "/api/Project/{projectId}/Requirement",
    Optional({"startAt", "maxResults"}), NoBody,
    Object(200, "ApiPaginatedResultOfApiItemInfo") \cup Problems({400, 401, 403, 404, 500, 503}))

project_get_sprints ==
  Endpoint("get", "/api/Project/{id}/Sprint", PresetEnum({"includeSprints"}), NoBody,
    ObjectList(200, "ApiSprint") \cup Problems({401, 403, 404, 500, 503}))

project_get_sub_folders ==
  Endpoint("get", "/api/Project/{projectId}/Folder/{folderId}/Subfolder",
    Preset({"includePermissions", "recursive"}), NoBody,
    ObjectList(200, "ApiProjectSubFolder") \cup Problems({401, 403, 404, 500, 503}))

project_get_sub_folders_path ==
  Endpoint("get", "/api/Project/{projectId}/Folder/{folderId}/SubfolderPath",
    Preset({"includePermissions"}), NoBody,
    ObjectList(200, "ApiProjectSubFolder") \cup Problems({401, 403, 404, 500, 503}))

project_get_user_assignments ==
  Endpoint("get", "/api/Project/{projectId}/UserAssignment",
    Preset({"folderId", "recursive"}), NoBody,
    Object(200, "ApiGetUserAssignmentResponse") \cup Problems({401, 403, 404, 500, 503}))

project_get_user_views ==
  Endpoint("get", "/api/Project/{projectId}/UserView",
    Preset({"includePermissions"}) \cup OptionalEnum({"restrictToType"}), NoBody,
    ObjectList(200, "ApiUserViewInfo") \cup Problems({401, 403, 404, 500, 503}))

project_get_users ==
  Endpoint("get", "/api/Project/{projectId}/User",
    Optional({"filter"}) \cup Preset({"startAt", "maxResults"}), NoBody,
    ObjectList(200, "ApiUserInfo") \cup Problems({401, 403, 404, 500, 503}))

project_import_report_definition ==
  Endpoint("patch", "/api/Project/{projectId}/ReportDefinition", {},
    Json("ApiReportPatchOperation"),
    NoContent(204) \cup Problems({400, 401, 403, 404, 500, 503}))

project_import_single_report_definition ==
  Endpoint("post", "/api/Project/{projectId}/ReportDefinition/Transfer",
    Optional({"fileName"}), Multipart("ProjectImportSingleReportDefinitionMultipartData"),
    NoContent(204) \cup Problems({400, 401, 403, 404, 500, 503}))

project_modify_folder ==
  Endpoint("patch", "/api/Project/{projectId}/Folder/{folderId}", {},
    Json("ApiProjectFolderPatchOperation"),
    Object(200, "ApiLongOperationOfBoolean") \cup Problems({400, 401, 403, 404, 500, 503}))

project_modify_subfolders ==
  Endpoint("patch", "/api/Project/{projectId}/Folder/{folderId}/Subfolder", {},
    Json("ApiProjectSubfoldersPatchOperation"),
    NoContent(204) \cup Problems({400, 401, 403, 404, 500, 503}))

project_modify_user_assignment ==
  Endpoint("patch", "/api/Project/{projectId}/UserAssignment",
    Needed({"userId"}) \cup Preset({"folderId"}),
    Json("ApiUserProjectFolderAssignmentPatchOperation"),
    NoContent(204) \cup Problems({400, 401, 403, 404, 500, 503}))

project_search_items ==
  Endpoint("get", "/api/Project/{projectId}/Item",
    Preset({"folderId", "searchTerm", "includeArchived", "firstResults", "maxResults",
       "includePermissions"}) \cup OptionalEnum({"itemType"}), NoBody,
    Object(200, "ApiItemSearchResult") \cup Problems({400, 401, 403, 404, 500, 503}))

project_update ==
  Endpoint("patch", "/api/Project/{id}", {}, Json("ApiProjectPatchOperation"),
    NoContent(204) \cup Problems({400, 401, 403, 404, 500, 503}))

project_meta_add_project_field_dictionary_entry ==
  Endpoint("post", "/api/Project/{projectId}/Meta/{itemType}/Fields/{fieldId}/Entries", {},
    Json("ApiProjectTemplateDictionaryEntryNew"),
    Object(200, "ApiProjectTemplateDictionaryEntry") \cup Problems({400, 401, 403, 404, 500, 503}))

project_meta_create_shared_dictionary ==
  Endpoint("post", "/api/Project/{projectId}/Meta/SharedDictionary", {},
    Json("ApiProjectTemplateDictionaryNew"),
    Object(200, "ApiProjectTemplateDictionary") \cup Problems({400, 401, 403, 404, 500, 503}))

project_meta_delete_shared_dictionary ==
  Endpoint("delete", "/api/Project/{projectId}/Meta/SharedDictionary/{dictionaryId}", {},
    NoBody, NoContent(204) \cup Problems({400, 401, 403, 404, 500, 503}))

project_meta_export ==
  Endpoint("get", "/api/Project/{projectId}/Meta/Transfer", {}, NoBody,
    Content(200) \cup Texts({401, 403, 404, 500, 503}))

project_meta_get_field_rules ==
  Endpoint("get", "/api/Project/{projectId}/Meta/FieldRules", {}, NoBody,
    Object(200, "ApiProjectFieldRules") \cup Problems({401, 403, 404, 500, 503}))

project_meta_get_field_rules_2 ==
  Endpoint("get", "/api/Project/{projectId}/Meta/{itemType}/FieldRules", {}, NoBody,
    Object(200, "ApiFieldRulesWithOwnership") \cup Problems({400, 401, 403, 404, 500, 503}))

project_meta_get_project_default_notification_rule ==
  Endpoint("get", "/api/Project/{projectId}/Meta/NotificationRule", {}, NoBody,
    ObjectList(200, "ApiProjectNotificationRule") \cup Problems({401, 403, 404, 500, 503}))

project_meta_get_project_field_dictionary_entries ==
  Endpoint("get", "/api/Project/{projectId}/Meta/{itemType}/Fields/{fieldId}/Entries", {},
    NoBody,
    Object(200, "ApiProjectTemplateDictionary") \cup Problems({400, 401, 403, 404, 500, 503}))

project_meta_get_project_field_meta ==
  Endpoint("get", "/api/Project/{projectId}/Meta/{itemType}/Fields/{fieldId}",
    Preset({"includeDeactivated"}), NoBody,
    Object(200, "ApiFieldMeta") \cup Problems({400, 401, 403, 404, 500, 503}))

project_meta_get_project_fields_meta ==
  Endpoint("get", "/api/Project/{projectId}/Meta/{itemType}/Fields",
    Preset({"includeRichTextFields", "includeDeactivated"}) \cup PresetEnum({"sortMode"}),
    NoBody, ObjectList(200, "ApiFieldMeta") \cup Problems({400, 401, 403, 404, 500, 503}))

project_meta_get_project_options ==
  Endpoint("get", "/api/Project/{projectId}/Meta/Options", {}, NoBody,
    Object(200, "ApiProjectOptionsWithOwnership") \cup Problems({401, 403, 404, 500, 503}))

project_meta_get_project_template_infos ==
  Endpoint("get", "/api/Project/{projectId}/Meta/ProjectTemplateInfo", {}, NoBody,
    Object(200, "ApiProjectTemplateInformation") \cup Problems({401, 403, 404, 500, 503}))

project_meta_get_shared_dictionaries ==
  Endpoint("get", "/api/Project/{projectId}/Meta/SharedDictionary",
    Preset({"includeEntries"}), NoBody,
    ObjectList(200, "ApiProjectTemplateDictionaryWithUsage") \cup Problems({401, 403, 404, 500, 503}))

project_meta_get_shared_dictionary ==
  Endpoint("get", "/api/Project/{projectId}/Meta/SharedDictionary/{dictionaryId}", {},
    NoBody,
    Object(200, "ApiProjectTemplateDictionaryWithUsage") \cup Problems({401, 403, 404, 500, 503}))

project_meta_import ==
  Endpoint("patch", "/api/Project/{projectId}/Meta/Transfer",
    Optional({"itemTypes"}) \cup Preset({"importSubtemplates", "importWorkflows"}),
    Json("ApiFileUploadInfo"), NoContent(204) \cup Problems({400, 401, 403, 404, 500, 503}))

project_meta_import_from_file ==
  Endpoint("post", "/api/Project/{projectId}/Meta/Transfer",
    Optional({"itemTypes"}) \cup Preset({"importSubtemplates", "importWorkflows"}),
    Multipart("ProjectMetaImportFromFileMultipartData"),
    NoContent(204) \cup Problems({400, 401, 403, 404, 500, 503}))

project_meta_import_preview ==
  Endpoint("post", "/api/Project/{projectId}/Meta/Transfer/Preview",
    Optional({"itemTypes"}) \cup Preset({"importSubtemplates", "importWorkflows"}),
    Json("ApiFileUploadInfo"),
    Object(200, "ApiImportProjectTemplatePreviewResponse") \cup Problems({400, 401, 403, 404, 500, 503}))

project_meta_modify_field_rules ==
  Endpoint("patch", "/api/Project/{projectId}/Meta/FieldRules", {},
    Json("ApiProjectFieldRulesUpdate"),
    NoContent(204) \cup Problems({400, 401, 403, 404, 500, 503}))

project_meta_modify_fields ==
  Endpoint("patch", "/api/Project/{projectId}/Meta/Fields", Preset({"forceLayoutChange"}),
    JsonList("ApiFieldPatchOperation"),
    NoContent(204) \cup Problems({400, 401, 403, 404, 500, 503}))

project_meta_replace_field_rules ==
  Endpoint("put", "/api/Project/{projectId}/Meta/{itemType}/FieldRules", {},
    Json("ApiFieldRulesUpdate"),
    NoContent(204) \cup Problems({400, 401, 403, 404, 500, 503}))

project_meta_save_project_options ==
  Endpoint("put", "/api/Project/{projectId}/Meta/Options", {}, Json("ApiProjectOptions"),
    NoContent(204) \cup Problems({400, 401, 403, 404, 500, 503}))

project_meta_update_project_default_notification_rule ==
  Endpoint("put", "/api/Project/{projectId}/Meta/NotificationRule", {},
    JsonList("ApiFolderNotificationRuleReplacementWithType"),
    NoContent(204) \cup Problems({400, 401, 403, 404, 500, 503}))

project_meta_update_project_field_dictionary_entries ==
  Endpoint("put", "/api/Project/{projectId}/Meta/{itemType}/Fields/{fieldId}/Entries", {},
    Json("ApiProjectTemplateDictionaryUpdate"),
    NoContent(204) \cup Problems({400, 401, 403, 404, 500, 503}))

project_meta_update_shared_dictionary ==
  Endpoint("put", "/api/Project/{projectId}/Meta/SharedDictionary/{dictionaryId}", {},
    Json("ApiProjectTemplateDictionaryUpdate"),
    NoContent(204) \cup Problems({400, 401, 403, 404, 500, 503}))

project_notification_export_project_notification_templates ==
  Endpoint("get", "/api/Project/{projectId}/Notification/Templates/Transfer", {}, NoBody,
    Content(200) \cup Texts({401, 403, 404, 500, 503}))

project_notification_get_project_notification_templates ==
  Endpoint("get", "/api/Project/{projectId}/Notification/Templates", {}, NoBody,
    Object(200, "ApiProjectNotificationTemplates") \cup Problems({401, 403, 404, 500, 503}))

project_notification_import_project_notification_templates ==
  Endpoint("post", "/api/Project/{projectId}/Notification/Templates/Transfer", {},
    Multipart("ProjectNotificationImportProjectNotificationTemplatesMultipartData"),
    Object(200, "ApiProjectNotificationTemplates") \cup Problems({400, 401, 403, 404, 500, 503}))

project_notification_save_project_notification_templates ==
  Endpoint("put", "/api/Project/{projectId}/Notification/Templates", {},
    JsonList("ApiProjectNotificationTemplate"),
    NoContent(204) \cup Problems({400, 401, 403, 404, 500, 503}))

workflow_get_workflow ==
  Endpoint("get", "/api/Workflow/{itemType}/{projectId}", {}, NoBody,
    Object(200, "ApiWorkflow") \cup Problems({400, 401, 403, 404, 500, 503}))

agile_create_sprint ==
  Endpoint("post", "/api/Agile/Sprint", {}, Json("ApiSprintNew"),
    Object(200, "ApiSprintNewResponse") \cup Problems({400, 401, 403, 404, 500, 503}))

agile_delete_sprint ==
  Endpoint("delete", "/api/Agile/Sprint/{id}", {}, NoBody,
    NoContent(204) \cup Problems({400, 401, 403, 404, 500, 503}))

agile_get_settings ==
  Endpoint("get", "/api/Agile/Settings/{projectId}", {}, NoBody,
    Object(200, "ApiAgileSettings") \cup Problems({400, 401, 403, 404, 500, 503}))

agile_get_sprint ==
  Endpoint("get", "/api/Agile/Sprint/{id}", Preset({"includeStatistics"}), NoBody,
    Object(200, "ApiSprint") \cup Problems({400, 401, 403, 404, 500, 503}))

agile_item_list_multiple_types ==
  Endpoint("post", "/api/Agile/ItemList", {}, Json("ApiItemListRequest"),
    Object(200, "ApiItemListResult") \cup Problems({400, 401, 403, 404, 500, 503}))

agile_reorder_items ==
  Endpoint("patch", "/api/Agile/ReorderItems", {}, Json("ApiAgileReorderItemsRequest"),
    Object(200, "ApiAgileReorderItemsResponse") \cup Problems({400, 401, 403, 404, 500, 503}))

agile_update_settings ==
  Endpoint("put", "/api/Agile/Settings/{projectId}", {}, Json("ApiAgileSettings"),
    NoContent(204) \cup Problems({400, 401, 403, 404, 500, 503}))

agile_update_sprint ==
  Endpoint("patch", "/api/Agile/Sprint/{id}", {}, Json("ApiSprintUpdate"),
    NoContent(204) \cup Problems({400, 401, 403, 404, 500, 503}))

integrations_enable ==
  Endpoint("post", "/api/Integration/Enable", {}, Json("ApiIntegrationEnable"),
    NoContent(204) \cup Problems({400, 401, 403, 500, 503}))

integrations_get_effective_integrations ==
  Endpoint("get", "/api/Integration/Effective/{projectId}", {}, NoBody,
    Object(200, "ApiIntegrationConfigurations") \cup Problems({400, 401, 403, 500, 503}))

integrations_get_integration_configurations ==
  Endpoint("get", "/api/Integration/Configuration", Preset({"onlyProjectLevel"}), NoBody,
    Object(200, "ApiIntegrationConfigurations") \cup Problems({401, 500, 503}))

integrations_get_project_integration_configurations ==
  Endpoint("get", "/api/Integration/Configuration/Project/{projectId}", {}, NoBody,
    Object(200, "ApiIntegrationConfigurations") \cup Problems({401, 403, 500, 503}))

integrations_save_global_integration_configurations ==
  Endpoint("put", "/api/Integration/Configuration", {},
    Json("ApiIntegrationConfigurationsUpdate"),
    NoContent(204) \cup Problems({400, 401, 403, 500, 503}))

integrations_save_project_integration_configurations ==
  Endpoint("put", "/api/Integration/Configuration/Project/{projectId}", {},
    Json("ApiIntegrationConfigurationsUpdate"),
    NoContent(204) \cup Problems({400, 401, 403, 500, 503}))

integrations_verify ==
  Endpoint("post", "/api/Integration/Verify", {}, Json("ApiIntegrationConfigVerifyBase"),
    Object(200, "ApiIntegrationVerifyResponse") \cup Problems({400, 401, 403, 500, 503}))

environment_get_environment_info ==
  Endpoint("get", "/api/Environment", {}, NoBody,
    Object(200, "ApiEnvironmentInfo") \cup Problems({500, 503}))

agent_create_agent ==
  Endpoint("post", "/api/Agent", {}, Json("ApiAgentCreateOperation"),
    Object(200, "ApiAgentBase") \cup Problems({400, 401, 403, 500, 503}))

agent_delete_agent ==
  Endpoint("delete", "/api/Agent/{agentId}", {}, NoBody,
    NoContent(204) \cup Problems({401, 403, 404, 500, 503}))

agent_get_currently_executing_task ==
  Endpoint("get", "/api/Agent/{agentId}/CurrentlyExecuting", {}, NoBody,
    Object(200, "ApiCurrentlyExecutedStepInfo") \cup Problems({401, 500, 503}))

agent_update ==
  Endpoint("patch", "/api/Agent/{agentId}", {}, Json("ApiAgentPatchOperation"),
    NoContent(204) \cup Problems({400, 401, 403, 404, 500, 503}))

report_create_lock ==
  Endpoint("post", "/api/Report/{reportId}/Lock", {}, NoBody,
    NoContent(204) \cup Problems({400, 401, 403, 404, 500, 503}))

report_create_report_definition ==
  Endpoint("post", "/api/Report/Definition", {}, Json("ApiReportCreateRequest"),
    Scalar(200) \cup Problems({400, 401, 403, 404, 500, 503}))

report_create_report_file ==
  Endpoint("post", "/api/Report/FilePrintout", {}, Json("ApiReportPrintoutRequestFile"),
    Content(200) \cup Problems({400, 401, 403, 404, 500, 503}))

report_delete_lock ==
  Endpoint("delete", "/api/Report/{reportId}/Lock", {}, NoBody,
    NoContent(204) \cup Problems({401, 403, 404, 500, 503}))

report_delete_report_definition ==
  Endpoint("delete", "/api/Report/Definition/{reportId}", {}, NoBody,
    NoContent(204) \cup Problems({400, 401, 403, 404, 500, 503}))

report_export_report_definition ==
  Endpoint("get", "/api/Report/Definition/{reportId}/Transfer", {}, NoBody,
    Content(200) \cup Texts({401, 403, 404, 500, 503}))

report_get_edit_status ==
  Endpoint("get", "/api/Report/Definition/{reportId}/EditStatus", {}, NoBody,
    Object(200, "ApiEditStatus") \cup Problems({401, 403, 404, 500, 503}))

report_get_report_options ==
  Endpoint("get", "/api/Report/{reportId}/Options", Preset({"includeParameter"}), NoBody,
    Object(200, "ApiReportOptions") \cup Problems({401, 403, 404, 500, 503}))

report_publish_report_definition ==
  Endpoint("patch", "/api/Report/Definition/{reportId}", {},
    Json("ApiReportDefinitionPatchRequest"),
    NoContent(204) \cup Problems({400, 401, 403, 404, 500, 503}))

report_update_report_definition_collection ==
  Endpoint("patch", "/api/Report/Definition", {},
    Json("ApiReportDefinitionPatchCollectionOperation"),
    Object(200, "ApiReportDefinitionPatchCollectionResponse") \cup Problems({400, 401, 403, 404, 500, 503}))

report_update_report_definition_options ==
  Endpoint("put", "/api/Report/{reportId}/Options", Preset({"explicitLock"}),
    Json("ApiReportOptionsUpdate"),
    NoContent(204) \cup Problems({400, 401, 403, 404, 500, 503}))

dashboard_ng_add_widget_in_dashboard ==
  Endpoint("post", "/api/DashboardNG/{dashboardId}/Widget", {},
    Json("ApiDashboardNGWidget"),
    Object(200, "ApiDashboardNGWidget") \cup Problems({400, 401, 403, 404, 500, 503}))

dashboard_ng_create_dashboard ==
  Endpoint("post", "/api/DashboardNG", {}, Json("ApiDashboardNG"),
    Object(200, "ApiDashboardNG") \cup Problems({400, 401, 403, 500, 503}))

dashboard_ng_delete_dashboard ==
  Endpoint("delete", "/api/DashboardNG/{dashboardId}", {}, NoBody,
    NoContent(204) \cup Problems({400, 401, 403, 404, 500, 503}))

dashboard_ng_delete_widget ==
  Endpoint("delete", "/api/DashboardNG/{dashboardId}/Widget/{widgetId}", {}, NoBody,
    NoContent(204) \cup Problems({400, 401, 403, 404, 500, 503}))

dashboard_ng_get_dashboard ==
  Endpoint("get", "/api/DashboardNG/{dashboardId}",
    Preset({"includeWidgets", "includeShares", "includeData"}), NoBody,
    Object(200, "ApiDashboardNG") \cup Problems({401, 403, 404, 500, 503}))

dashboard_ng_get_dashboards_for_user ==
  Endpoint("get", "/api/DashboardNG", {}, NoBody,
    ObjectList(200, "ApiDashboardNG") \cup Problems({401, 403, 500, 503}))

dashboard_ng_get_widget_data ==
  Endpoint("get", "/api/DashboardNG/{dashboardId}/Widget/{widgetId}/Data", {}, NoBody,
    Object(200, "ApiWidgetData") \cup Problems({400, 401, 403, 404, 500, 503}))

dashboard_ng_get_widget_preview ==
  Endpoint("post", "/api/DashboardNG/{dashboardId}/Widget/{widgetId}/Preview", {},
    Json("ApiDashboardNGWidget"),
    Object(200, "ApiWidgetData") \cup Problems({400, 401, 403, 404, 500, 503}))

dashboard_ng_mark_dashboard_favourite ==
  Endpoint("post", "/api/DashboardNG/{dashboardId}/Favourite", {}, NoBody,
    NoContent(204) \cup Problems({400, 401, 403, 404, 500, 503}))

dashboard_ng_reorder_widgets ==
  Endpoint("patch", "/api/DashboardNG/{dashboardId}/Widget", {},
    JsonList("ApiDashboardNGReorderWidgets"),
    NoContent(204) \cup Problems({400, 401, 403, 404, 500, 503}))

dashboard_ng_un_mark_dashboard_favourite ==
  Endpoint("delete", "/api/DashboardNG/{dashboardId}/Favourite", {}, NoBody,
    NoContent(204) \cup Problems({400, 401, 403, 404, 500, 503}))

dashboard_ng_update_dashboard ==
  Endpoint("put", "/api/DashboardNG/{dashboardId}", {}, Json("ApiDashboardNG"),
    Object(200, "ApiDashboardNG") \cup Problems({400, 401, 403, 404, 500, 503}))

dashboard_ng_update_widget ==
  Endpoint("patch", "/api/DashboardNG/{dashboardId}/Widget/{widgetId}", {},
    Json("ApiDashboardNGWidget"),
    Object(200, "ApiDashboardNGWidget") \cup Problems({400, 401, 403, 404, 500, 503}))

ProjectEndpoints ==
  [project_create_folder |-> project_create_folder,
   project_create_folder_user_roles |-> project_create_folder_user_roles,
   project_create_project |-> project_create_project,
   project_create_user_assignment |-> project_create_user_assignment,
   project_delete_folder |-> project_delete_folder,
   project_delete_user_assignment |-> project_delete_user_assignment,
   project_get |-> project_get, project_get_agents |-> project_get_agents,
   project_get_all |-> project_get_all, project_get_folder |-> project_get_folder,
   project_get_folders |-> project_get_folders,
   project_get_report_definitions |-> project_get_report_definitions,
   project_get_report_plugins |-> project_get_report_plugins,
   project_get_requirements |-> project_get_requirements,
   project_get_sprints |-> project_get_sprints,
   project_get_sub_folders |-> project_get_sub_folders,
   project_get_sub_folders_path |-> project_get_sub_folders_path,
   project_get_user_assignments |-> project_get_user_assignments,
   project_get_user_views |-> project_get_user_views,
   project_get_users |-> project_get_users,
   project_import_report_definition |-> project_import_report_definition,
   project_import_single_report_definition |-> project_import_single_report_definition,
   project_modify_folder |-> project_modify_folder,
   project_modify_subfolders |-> project_modify_subfolders,
   project_modify_user_assignment |-> project_modify_user_assignment,
   project_search_items |-> project_search_items, project_update |-> project_update,
   project_meta_add_project_field_dictionary_entry |-> project_meta_add_project_field_dictionary_entry,
   project_meta_create_shared_dictionary |-> project_meta_create_shared_dictionary,
   project_meta_delete_shared_dictionary |-> project_meta_delete_shared_dictionary,
   project_meta_export |-> project_meta_export,
   project_meta_get_field_rules |-> project_meta_get_field_rules,
   project_meta_get_field_rules_2 |-> project_meta_get_field_rules_2,
   project_meta_get_project_default_notification_rule |-> project_meta_get_project_default_notification_rule,
   project_meta_get_project_field_dictionary_entries |-> project_meta_get_project_field_dictionary_entries,
   project_meta_get_project_field_meta |-> project_meta_get_project_field_meta,
   project_meta_get_project_fields_meta |-> project_meta_get_project_fields_meta,
   project_meta_get_project_options |-> project_meta_get_project_options,
   project_meta_get_project_template_infos |-> project_meta_get_project_template_infos,
   project_meta_get_shared_dictionaries |-> project_meta_get_shared_dictionaries,
   project_meta_get_shared_dictionary |-> project_meta_get_shared_dictionary,
   project_meta_import |-> project_meta_import,
   project_meta_import_from_file |-> project_meta_import_from_file,
   project_meta_import_preview |-> project_meta_import_preview,
   project_meta_modify_field_rules |-> project_meta_modify_field_rules,
   project_meta_modify_fields |-> project_meta_modify_fields,
   project_meta_replace_field_rules |-> project_meta_replace_field_rules,
   project_meta_save_project_options |-> project_meta_save_project_options,
   project_meta_update_project_default_notification_rule |-> project_meta_update_project_default_notification_rule,
   project_meta_update_project_field_dictionary_entries |-> project_meta_update_project_field_dictionary_entries,
   project_meta_update_shared_dictionary |-> project_meta_update_shared_dictionary,
   project_notification_export_project_notification_templates |-> project_notification_export_project_notification_templates,
   project_notification_get_project_notification_templates |-> project_notification_get_project_notification_templates,
   project_notification_import_project_notification_templates |-> project_notification_import_project_notification_templates,
   project_notification_save_project_notification_templates |-> project_notification_save_project_notification_templates,
   workflow_get_workflow |-> workflow_get_workflow,
   agile_create_sprint |-> agile_create_sprint, agile_delete_sprint |-> agile_delete_sprint,
   agile_get_settings |-> agile_get_settings, agile_get_sprint |-> agile_get_sprint,
   agile_item_list_multiple_types |-> agile_item_list_multiple_types,
   agile_reorder_items |-> agile_reorder_items,
   agile_update_settings |-> agile_update_settings,
   agile_update_sprint |-> agile_update_sprint, integrations_enable |-> integrations_enable,
   integrations_get_effective_integrations |-> integrations_get_effective_integrations,
   integrations_get_integration_configurations |-> integrations_get_integration_configurations,
   integrations_get_project_integration_configurations |-> integrations_get_project_integration_configurations,
   integrations_save_global_integration_configurations |-> integrations_save_global_integration_configurations,
   integrations_save_project_integration_configurations |-> integrations_save_project_integration_configurations,
   integrations_verify |-> integrations_verify,
   environment_get_environment_info |-> environment_get_environment_info,
   agent_create_agent |-> agent_create_agent, agent_delete_agent |-> agent_delete_agent,
   agent_get_currently_executing_task |-> agent_get_currently_executing_task,
   agent_update |-> agent_update, report_create_lock |-> report_create_lock,
   report_create_report_definition |-> report_create_report_definition,
   report_create_report_file |-> report_create_report_file,
   report_delete_lock |-> report_delete_lock,
   report_delete_report_definition |-> report_delete_report_definition,
   report_export_report_definition |-> report_export_report_definition,
   report_get_edit_status |-> report_get_edit_status,
   report_get_report_options |-> report_get_report_options,
   report_publish_report_definition |-> report_publish_report_definition,
   report_update_report_definition_collection |-> report_update_report_definition_collection,
   report_update_report_definition_options |-> report_update_report_definition_options,
   dashboard_ng_add_widget_in_dashboard |-> dashboard_ng_add_widget_in_dashboard,
   dashboard_ng_create_dashboard |-> dashboard_ng_create_dashboard,
   dashboard_ng_delete_dashboard |-> dashboard_ng_delete_dashboard,
   dashboard_ng_delete_widget |-> dashboard_ng_delete_widget,
   dashboard_ng_get_dashboard |-> dashboard_ng_get_dashboard,
   dashboard_ng_get_dashboards_for_user |-> dashboard_ng_get_dashboards_for_user,
   dashboard_ng_get_widget_data |-> dashboard_ng_get_widget_data,
   dashboard_ng_get_widget_preview |-> dashboard_ng_get_widget_preview,
   dashboard_ng_mark_dashboard_favourite |-> dashboard_ng_mark_dashboard_favourite,
   dashboard_ng_reorder_widgets |-> dashboard_ng_reorder_widgets,
   dashboard_ng_un_mark_dashboard_favourite |-> dashboard_ng_un_mark_dashboard_favourite,
   dashboard_ng_update_dashboard |-> dashboard_ng_update_dashboard,
   dashboard_ng_update_widget |-> dashboard_ng_update_widget]
=============================================================================
