------------------------- MODULE RestItemEndpoints -------------------------
(*****************************************************************************)
(* The endpoints of requirements, defects, labels, scripts, navigation,      *)
(* search, views, import and export.                                         *)
(* Each definition says which request _get_kwargs builds and what            *)
(* _parse_response makes of the answer; the patterns are those of            *)
(* RestEndpoint.                                                             *)
(*****************************************************************************)
EXTENDS RestEndpoint

defect_add_attachment ==
  Endpoint("post", "/api/Defect/{id}/Attachment", Optional({"filename"}),
    Multipart("DefectAddAttachmentMultipartData"),
    Object(200, "ApiAttachmentInfo") \cup Problems({400, 401, 403, 404, 500, 503}))

defect_add_watcher ==
  Endpoint("post", "/api/Defect/{id}/Watchers", {}, Json("ApiWatcherNew"),
    NoContent(204) \cup Problems({401, 403, 404, 500, 503}))

defect_create ==
  Endpoint("post", "/api/Defect", Preset({"applyDefaultValues"}),
    Json("ApiItemNewWithEnclosures"),
    Object(200, "ApiItemInfo") \cup Problems({400, 401, 403, 500, 503}))

defect_create_enclosure ==
  Endpoint("post", "/api/Defect/{id}/Enclosure", {}, Json("ApiEnclosureUpdate"),
    Object(200, "ApiEnclosure") \cup Problems({400, 401, 403, 404, 500, 503}))

defect_create_lock ==
  Endpoint("post", "/api/Defect/{id}/Lock", {}, Json("ApiLockNew"),
    NoContent(204) \cup Problems({400, 401, 403, 404, 500, 503}))

defect_create_meta ==
  Endpoint("get", "/api/Defect/CreateMeta",
    Needed({"projectId", "folderId"}) \cup Optional({"statusTo"}), NoBody,
    Object(200, "ApiItemCreateMeta") \cup Problems({400, 401, 403, 500, 503}))

defect_create_post ==
  Endpoint("post", "/api/Defect/{id}/Post", {}, Json("ApiRichText"),
    Object(200, "ApiPostInfo") \cup Problems({400, 401, 403, 404, 500, 503}))

defect_create_relation ==
  Endpoint("post", "/api/Defect/{id}/Relation", {}, Json("ApiRelationNew"),
    Object(200, "ApiRelation") \cup Problems({400, 401, 403, 404, 500, 503}))

defect_delete ==
  Endpoint("delete", "/api/Defect/{id}", {}, NoBody,
    NoContent(204) \cup Problems({400, 401, 403, 404, 500, 503}))

defect_delete_attachment ==
  Endpoint("delete", "/api/Defect/{id}/Attachment/{attachmentId}", {}, NoBody,
    NoContent(204) \cup Problems({400, 401, 403, 404, 500, 503}))

defect_delete_enclosure ==
  Endpoint("delete", "/api/Defect/{id}/Enclosure/{enclosureId}", {}, NoBody,
    NoContent(204) \cup Problems({400, 401, 403, 404, 500, 503}))

defect_delete_lock ==
  Endpoint("delete", "/api/Defect/{id}/Lock", {}, NoBody,
    NoContent(204) \cup Problems({400, 401, 403, 404, 500, 503}))

defect_delete_post ==
  Endpoint("delete", "/api/Defect/{id}/Post/{postId}", {}, NoBody,
    Object(200, "ApiPostInfo") \cup Problems({401, 403, 404, 500, 503}))

defect_delete_relations ==
  Endpoint("delete", "/api/Defect/{id}/Relation/{relationId}", {}, NoBody,
    NoContent(204) \cup Problems({400, 401, 403, 404, 500, 503}))

defect_edit_meta ==
  Endpoint("get", "/api/Defect/{id}/EditMeta", Needed({"statusTo"}), NoBody,
    Object(200, "ApiItemEditMeta") \cup Problems({401, 403, 404, 500, 503}))

defect_get ==
  Endpoint("get", "/api/Defect/{id}",
    Preset({"withEditableInfo", "withEnclosure", "withEditLayout", "withViewLayout"}),
    NoBody, Object(200, "ApiDefect") \cup Problems({401, 403, 404, 500, 503}))

defect_get_attachment ==
  Endpoint("get", "/api/Defect/{id}/Attachment/{attachmentId}", {}, NoBody,
    Object(200, "ApiAttachmentInfo") \cup Problems({401, 403, 404, 500, 503}))

defect_get_attachment_data ==
  Endpoint("get", "/api/Defect/{id}/Attachment/{attachmentId}/data",
    Preset({"download"}) \cup Optional({"access_token", "tenantId"}), NoBody,
    Content(200) \cup Object(307, "ApiRedirectResult") \cup Texts({401, 403, 404, 500, 503}))

defect_get_attachments ==
  Endpoint("get", "/api/Defect/{id}/Attachment", {}, NoBody,
    ObjectList(200, "ApiAttachmentInfo") \cup Problems({401, 403, 404, 500, 503}))

defect_get_edit_status ==
  Endpoint("get", "/api/Defect/{id}/EditStatus", {}, NoBody,
    Object(200, "ApiItemEditStatus") \cup Problems({401, 403, 404, 500, 503}))

defect_get_enclosure ==
  Endpoint("get", "/api/Defect/{id}/Enclosure/{enclosureId}", {}, NoBody,
    Object(200, "ApiEnclosure") \cup Problems({401, 403, 404, 500, 503}))

defect_get_enclosures ==
  Endpoint("get", "/api/Defect/{id}/Enclosure", {}, NoBody,
    ObjectList(200, "ApiEnclosure") \cup Problems({401, 403, 404, 500, 503}))

defect_get_history ==
  Endpoint("get", "/api/Defect/{id}/History", {}, NoBody,
    ObjectList(200, "ApiHistoryEntryDefect") \cup Problems({401, 403, 404, 500, 503}))

defect_get_item_list ==
  Endpoint("get", "/api/Defect/ItemList",
    Needed({"projectId"}) \cup Preset({"folderId", "includeSubfolders",
       "includeArchived", "startAt", "maxResults"}) \cup Optional({"filter", "sorting",
       "search"}), NoBody,
    Object(200, "ApiItemListResult") \cup Problems({400, 401, 403, 404, 500, 503}))

defect_get_post ==
  Endpoint("get", "/api/Defect/{id}/Post/{postId}", {}, NoBody,
    Object(200, "ApiPost") \cup Problems({401, 403, 404, 500, 503}))

defect_get_posts ==
  Endpoint("get", "/api/Defect/{id}/Post",
    Preset({"firstResult", "maxResults", "ascending"}), NoBody,
    Object(200, "ApiPostPaginated") \cup Problems({401, 403, 404, 500, 503}))

defect_get_relation_create_meta ==
  Endpoint("get", "/api/Defect/{id}/Relation/CreateMeta", {}, NoBody,
    Object(200, "ApiRelationCreateMeta") \cup Problems({401, 403, 404, 500, 503}))

defect_get_relations ==
  Endpoint("get", "/api/Defect/{id}/Relation",
    Preset({"depth"}) \cup Optional({"maxItemsPerType", "include", "fields"}), NoBody,
    Object(200, "ApiRelations") \cup Problems({401, 403, 404, 500, 503}))

defect_get_watchers ==
  Endpoint("get", "/api/Defect/{id}/Watchers", {}, NoBody,
    ObjectList(200, "ApiUserInfo") \cup Problems({401, 403, 404, 500, 503}))

defect_modify_items ==
  Endpoint("patch", "/api/Defect", {}, Json("ApiItemsPatchRequest"),
    Object(200, "ApiLongOperationOfBoolean") \cup Problems({400, 401, 403, 404, 500, 503}))

defect_remove_watcher ==
  Endpoint("delete", "/api/Defect/{id}/Watchers/{userId}", {}, NoBody,
    NoContent(204) \cup Problems({401, 403, 404, 500, 503}))

defect_update ==
  Endpoint("put", "/api/Defect/{id}", Preset({"explicitLock", "applyDefaultValues"}),
    Json("ApiItemUpdateWithEnclosures"),
    NoContent(204) \cup Problems({400, 401, 403, 404, 500, 503}))

defect_update_enclosure ==
  Endpoint("put", "/api/Defect/{id}/Enclosure/{enclosureId}", {},
    Json("ApiEnclosureUpdate"),
    Object(200, "ApiEnclosure") \cup Problems({400, 401, 403, 404, 500, 503}))

defect_update_post ==
  Endpoint("put", "/api/Defect/{id}/Post/{postId}", {}, Json("ApiRichText"),
    Object(200, "ApiPostInfo") \cup Problems({400, 401, 403, 404, 500, 503}))

defect_update_watchers ==
  Endpoint("put", "/api/Defect/{id}/Watchers", {}, Json("ApiWatchersUpdate"),
    NoContent(204) \cup Problems({401, 403, 404, 500, 503}))

requirement_add_attachment ==
  Endpoint("post", "/api/Requirement/{id}/Attachment", Optional({"filename"}),
    Multipart("RequirementAddAttachmentMultipartData"),
    Object(200, "ApiAttachmentInfo") \cup Problems({400, 401, 403, 404, 500, 503}))

requirement_add_subrequirements ==
  Endpoint("post", "/api/Requirement/{id}/SubrequirementTree", {},
    Json("ApiSubrequirementsNew"),
    NoContent(204) \cup Problems({400, 401, 403, 404, 500, 503}))

requirement_add_watcher ==
  Endpoint("post", "/api/Requirement/{id}/Watchers", {}, Json("ApiWatcherNew"),
    NoContent(204) \cup Problems({401, 403, 404, 500, 503}))

requirement_create ==
  Endpoint("post", "/api/Requirement", Preset({"applyDefaultValues"}),
    Json("ApiItemNewWithDescription"),
    Object(200, "ApiItemInfo") \cup Problems({400, 401, 403, 500, 503}))

requirement_create_lock ==
  Endpoint("post", "/api/Requirement/{id}/Lock", {}, Json("ApiLockNew"),
    NoContent(204) \cup Problems({400, 401, 403, 404, 500, 503}))

requirement_create_meta ==
  Endpoint("get", "/api/Requirement/CreateMeta",
    Needed({"projectId", "folderId"}) \cup Optional({"statusTo"}), NoBody,
    Object(200, "ApiItemCreateMeta") \cup Problems({400, 401, 403, 500, 503}))

requirement_create_post ==
  Endpoint("post", "/api/Requirement/{id}/Post", {}, Json("ApiRichText"),
    Object(200, "ApiPostInfo") \cup Problems({400, 401, 403, 404, 500, 503}))

requirement_create_relation ==
  Endpoint("post", "/api/Requirement/{id}/Relation", {}, Json("ApiRelationNew"),
    Object(200, "ApiRelation") \cup Problems({400, 401, 403, 404, 500, 503}))

requirement_create_subrequirement ==
  Endpoint("post", "/api/Requirement/{id}/Subrequirement", {}, Json("ApiSubrequirementNew"),
    Object(200, "ApiSubrequirement") \cup Problems({400, 401, 403, 404, 500, 503}))

requirement_delete ==
  Endpoint("delete", "/api/Requirement/{id}", {}, NoBody,
    NoContent(204) \cup Problems({400, 401, 403, 404, 500, 503}))

requirement_delete_attachment ==
  Endpoint("delete", "/api/Requirement/{id}/Attachment/{attachmentId}", {}, NoBody,
    NoContent(204) \cup Problems({401, 403, 404, 500, 503}))

requirement_delete_lock ==
  Endpoint("delete", "/api/Requirement/{id}/Lock", {}, NoBody,
    NoContent(204) \cup Problems({400, 401, 403, 404, 500, 503}))

requirement_delete_post ==
  Endpoint("delete", "/api/Requirement/{id}/Post/{postId}", {}, NoBody,
    Object(200, "ApiPostInfo") \cup Problems({401, 403, 404, 500, 503}))

requirement_delete_relations ==
  Endpoint("delete", "/api/Requirement/{id}/Relation/{relationId}", {}, NoBody,
    NoContent(204) \cup Problems({400, 401, 403, 404, 500, 503}))

requirement_delete_subrequirement ==
  Endpoint("delete", "/api/Requirement/{id}/Subrequirement/{subrequirementId}", {}, NoBody,
    NoContent(204) \cup Problems({400, 401, 403, 404, 500, 503}))

requirement_edit_meta ==
  Endpoint("get", "/api/Requirement/{id}/EditMeta", Needed({"statusTo"}), NoBody,
    Object(200, "ApiItemEditMeta") \cup Problems({401, 403, 404, 500, 503}))

requirement_get ==
  Endpoint("get", "/api/Requirement/{id}",
    Preset({"withEditableInfo", "withEditLayout", "withViewLayout"}), NoBody,
    Object(200, "ApiRequirement") \cup Problems({401, 403, 404, 500, 503}))

requirement_get_attachment ==
  Endpoint("get", "/api/Requirement/{id}/Attachment/{attachmentId}", {}, NoBody,
    Object(200, "ApiAttachmentInfo") \cup Problems({401, 403, 404, 500, 503}))

requirement_get_attachment_data ==
  Endpoint("get", "/api/Requirement/{id}/Attachment/{attachmentId}/data",
    Preset({"download"}) \cup Optional({"access_token", "tenantId"}), NoBody,
    Content(200) \cup Object(307, "ApiRedirectResult") \cup Texts({401, 403, 404, 500, 503}))

requirement_get_attachments ==
  Endpoint("get", "/api/Requirement/{id}/Attachment", {}, NoBody,
    ObjectList(200, "ApiAttachmentInfo") \cup Problems({401, 403, 404, 500, 503}))

requirement_get_edit_status ==
  Endpoint("get", "/api/Requirement/{id}/EditStatus", {}, NoBody,
    Object(200, "ApiItemEditStatus") \cup Problems({401, 403, 404, 500, 503}))

requirement_get_history ==
  Endpoint("get", "/api/Requirement/{id}/History", {}, NoBody,
    ObjectList(200, "ApiHistoryEntryRequirement") \cup Problems({400, 401, 403, 404, 500, 503}))

requirement_get_item_list ==
  Endpoint("get", "/api/Requirement/ItemList",
    Needed({"projectId"}) \cup Preset({"folderId", "includeSubfolders",
       "includeArchived", "startAt", "maxResults"}) \cup Optional({"filter", "sorting",
       "search"}), NoBody,
    Object(200, "ApiItemListResult") \cup Problems({400, 401, 403, 404, 500, 503}))

requirement_get_post ==
  Endpoint("get", "/api/Requirement/{id}/Post/{postId}", {}, NoBody,
    Object(200, "ApiPost") \cup Problems({401, 403, 404, 500, 503}))

requirement_get_posts ==
  Endpoint("get", "/api/Requirement/{id}/Post",
    Preset({"firstResult", "maxResults", "ascending"}), NoBody,
    Object(200, "ApiPostPaginated") \cup Problems({401, 403, 404, 500, 503}))

requirement_get_relation_create_meta ==
  Endpoint("get", "/api/Requirement/{id}/Relation/CreateMeta", {}, NoBody,
    Object(200, "ApiRelationCreateMeta") \cup Problems({401, 403, 404, 500, 503}))

requirement_get_relations ==
  Endpoint("get", "/api/Requirement/{id}/Relation",
    Preset({"depth"}) \cup Optional({"maxItemsPerType", "include", "fields"}), NoBody,
    Object(200, "ApiRelations") \cup Problems({401, 403, 404, 500, 503}))

requirement_get_subrequirement_tree ==
  Endpoint("get", "/api/Requirement/{id}/SubrequirementTree", Preset({"withEditableInfo"}),
    NoBody, ObjectList(200, "ApiSubrequirement") \cup Problems({401, 403, 404, 500, 503}))

requirement_get_subrequirements ==
  Endpoint("get", "/api/Requirement/{id}/Subrequirement", Preset({"depth"}), NoBody,
    ObjectList(200, "ApiSubrequirement") \cup Problems({401, 403, 404, 500, 503}))

requirement_get_watchers ==
  Endpoint("get", "/api/Requirement/{id}/Watchers", {}, NoBody,
    ObjectList(200, "ApiUserInfo") \cup Problems({401, 403, 404, 500, 503}))

requirement_lock_subrequirement_tree ==
  Endpoint("post", "/api/Requirement/{id}/SubrequirementTree/Lock", {}, NoBody,
    ObjectList(200, "ApiSubrequirement") \cup Problems({401, 403, 404, 500, 503}))

requirement_modify_items ==
  Endpoint("patch", "/api/Requirement", {}, Json("ApiItemsPatchRequest"),
    Object(200, "ApiLongOperationOfBoolean") \cup Problems({400, 401, 403, 404, 500, 503}))

requirement_perform_batch_operation ==
  Endpoint("put", "/api/Requirement", {}, Json("ApiBatchOperation"),
    NoContent(204) \cup Problems({401, 403, 404, 500, 503}))

requirement_remove_watcher ==
  Endpoint("delete", "/api/Requirement/{id}/Watchers/{userId}", {}, NoBody,
    NoContent(204) \cup Problems({401, 403, 404, 500, 503}))

requirement_update ==
  Endpoint("put", "/api/Requirement/{id}", Preset({"explicitLock", "applyDefaultValues"}),
    Json("ApiItemUpdateWithDescription"),
    NoContent(204) \cup Problems({400, 401, 403, 404, 500, 503}))

requirement_update_post ==
  Endpoint("put", "/api/Requirement/{id}/Post/{postId}", {}, Json("ApiRichText"),
    Object(200, "ApiPostInfo") \cup Problems({400, 401, 403, 404, 500, 503}))

requirement_update_subrequirement ==
  Endpoint("put", "/api/Requirement/{id}/Subrequirement/{subrequirementId}", {},
    Json("ApiSubrequirementUpdate"),
    Object(200, "ApiSubrequirement") \cup Problems({400, 401, 403, 404, 500, 503}))

requirement_update_subrequirement_tree ==
  Endpoint("put", "/api/Requirement/{id}/SubrequirementTree", {},
    Json("ApiSubrequirementsUpdate"),
    NoContent(204) \cup Problems({400, 401, 403, 404, 500, 503}))

requirement_update_watchers ==
  Endpoint("put", "/api/Requirement/{id}/Watchers", {}, Json("ApiWatchersUpdate"),
    NoContent(204) \cup Problems({401, 403, 404, 500, 503}))

label_create_label ==
  Endpoint("post", "/api/Label", Optional({"itemTypes"}), Json("ApiLabelNew"),
    Object(200, "ApiLabelNewResponse") \cup Problems({400, 401, 403, 500, 503}))

label_delete_label ==
  Endpoint("delete", "/api/Label/{id}", {}, NoBody,
    NoContent(204) \cup Problems({400, 401, 403, 404, 500, 503}))

label_list_labels ==
  Endpoint("get", "/api/Label",
    Needed({"projectId"}) \cup Optional({"itemType", "folderId"}), NoBody,
    Object(200, "ApiLabelListResult") \cup Problems({400, 401, 403, 500, 503}))

label_update_label ==
  Endpoint("patch", "/api/Label/{id}", {}, Json("ApiLabelUpdate"),
    NoContent(204) \cup Problems({400, 401, 403, 404, 500, 503}))

script_add_attachment ==
  Endpoint("post", "/api/Script/{id}/Attachment", Optional({"filename"}),
    Multipart("ScriptAddAttachmentMultipartData"),
    Object(200, "ApiAttachmentInfo") \cup Problems({400, 401, 403, 404, 500, 503}))

script_add_watcher ==
  Endpoint("post", "/api/Script/{id}/Watchers", {}, Json("ApiWatcherNew"),
    NoContent(204) \cup Problems({401, 403, 404, 500, 503}))

script_create_lock ==
  Endpoint("post", "/api/Script/{id}/Lock", {}, Json("ApiLockNew"),
    NoContent(204) \cup Problems({400, 401, 403, 404, 500, 503}))

script_create_relation ==
  Endpoint("post", "/api/Script/{id}/Relation", {}, Json("ApiRelationNew"),
    Object(200, "ApiRelation") \cup Problems({400, 401, 403, 404, 500, 503}))

script_delete_attachment ==
  Endpoint("delete", "/api/Script/{id}/Attachment/{attachmentId}", {}, NoBody,
    NoContent(204) \cup Problems({400, 401, 403, 404, 500, 503}))

script_delete_lock ==
  Endpoint("delete", "/api/Script/{id}/Lock", {}, NoBody,
    NoContent(204) \cup Problems({400, 401, 403, 404, 500, 503}))

script_delete_relations ==
  Endpoint("delete", "/api/Script/{id}/Relation/{relationId}", {}, NoBody,
    NoContent(204) \cup Problems({400, 401, 403, 404, 500, 503}))

script_get ==
  Endpoint("get", "/api/Script/{id}",
    Preset({"withEditableInfo", "withEditLayout", "withViewLayout"}), NoBody,
    Object(200, "ApiScript") \cup Problems({401, 403, 404, 500, 503}))

script_get_attachment ==
  Endpoint("get", "/api/Script/{id}/Attachment/{attachmentId}", {}, NoBody,
    Object(200, "ApiAttachmentInfo") \cup Problems({401, 403, 404, 500, 503}))

script_get_attachment_data ==
  Endpoint("get", "/api/Script/{id}/Attachment/{attachmentId}/data",
    Preset({"download"}) \cup Optional({"access_token", "tenantId"}), NoBody,
    Content(200) \cup Object(307, "ApiRedirectResult") \cup Texts({401, 403, 404, 500, 503}))

script_get_attachments ==
  Endpoint("get", "/api/Script/{id}/Attachment", {}, NoBody,
    ObjectList(200, "ApiAttachmentInfo") \cup Problems({401, 403, 404, 500, 503}))

script_get_edit_status ==
  Endpoint("get", "/api/Script/{id}/EditStatus", {}, NoBody,
    Object(200, "ApiItemEditStatus") \cup Problems({401, 403, 404, 500, 503}))

script_get_history ==
  Endpoint("get", "/api/Script/{id}/History", {}, NoBody,
    ObjectList(200, "ApiHistoryEntry") \cup Problems({401, 403, 404, 500, 503}))

script_get_relation_create_meta ==
  Endpoint("get", "/api/Script/{id}/Relation/CreateMeta", {}, NoBody,
    Object(200, "ApiRelationCreateMeta") \cup Problems({401, 403, 404, 500, 503}))

script_get_relations ==
  Endpoint("get", "/api/Script/{id}/Relation",
    Preset({"depth"}) \cup Optional({"maxItemsPerType", "include", "fields"}), NoBody,
    Object(200, "ApiRelations") \cup Problems({401, 403, 404, 500, 503}))

script_get_watchers ==
  Endpoint("get", "/api/Script/{id}/Watchers", {}, NoBody,
    ObjectList(200, "ApiUserInfo") \cup Problems({401, 403, 404, 500, 503}))

script_item_list ==
  Endpoint("get", "/api/Script/ItemList",
    Needed({"projectId"}) \cup Preset({"folderId", "includeSubfolders",
       "includeArchived", "startAt", "maxResults"}) \cup Optional({"filter", "sorting",
       "search"}), NoBody,
    Object(200, "ApiItemListResult") \cup Problems({400, 401, 403, 404, 500, 503}))

script_modify_items ==
  Endpoint("patch", "/api/Script", {}, Json("ApiItemsPatchRequest"),
    Object(200, "ApiLongOperationOfBoolean") \cup Problems({400, 401, 403, 404, 500, 503}))

script_remove_watcher ==
  Endpoint("delete", "/api/Script/{id}/Watchers/{userId}", {}, NoBody,
    NoContent(204) \cup Problems({401, 403, 404, 500, 503}))

script_update_watchers ==
  Endpoint("put", "/api/Script/{id}/Watchers", {}, Json("ApiWatchersUpdate"),
    NoContent(204) \cup Problems({401, 403, 404, 500, 503}))

navigation_get_dependency ==
  Endpoint("get", "/api/Navigation/DependencyList",
    Optional({"ids"}) \cup NeededEnum({"itemType"}) \cup Needed({"projectId"}), NoBody,
    Object(200, "ApiNavigationDependencyResponse") \cup Problems({400, 401, 403, 404, 500, 503}))

navigation_get_groups_get ==
  Endpoint("get", "/api/Navigation/GroupList",
    NeededEnum({"itemType"}) \cup Needed({"projectId", "folderId"})
       \cup Preset({"includeSubfolders", "includeArchived"}) \cup Optional({"filter",
       "sorting", "search", "groups"}), NoBody,
    Object(200, "ApiItemGroupsResult") \cup Problems({400, 401, 403, 404, 500, 503}))

navigation_get_groups_post ==
  Endpoint("post", "/api/Navigation/GroupList",
    NeededEnum({"itemType"}) \cup Needed({"projectId", "folderId"})
       \cup Preset({"includeSubfolders", "includeArchived"}),
    Json("ApiItemArrangementGrouping"),
    Object(200, "ApiItemGroupsResult") \cup Problems({400, 401, 403, 404, 500, 503}))

navigation_get_project_tree_data ==
  Endpoint("get", "/api/Navigation/Tree",
    Optional({"parentFolders"}) \cup Preset({"includeProjects", "includeArchived"}), NoBody,
    Object(200, "ApiProjectTreeResponse") \cup Problems({400, 401, 500, 503}))

navigation_get_project_tree_path ==
  Endpoint("get", "/api/Navigation/TreePath/{projectId}/{folderId}", {}, NoBody,
    Object(200, "ApiProjectTreePathResponse") \cup Problems({401, 403, 404, 500, 503}))

navigation_item_list_get ==
  Endpoint("get", "/api/Navigation/ItemList",
    NeededEnum({"itemType"}) \cup Needed({"projectId"}) \cup Preset({"folderId",
       "includeSubfolders", "includeArchived", "includePermissions", "startAt",
       "maxResults"}) \cup Optional({"filter", "sorting", "search"}), NoBody,
    Object(200, "ApiItemListResult") \cup Problems({400, 401, 403, 404, 500, 503}))

navigation_item_list_post ==
  Endpoint("post", "/api/Navigation/ItemList",
    NeededEnum({"itemType"}) \cup Needed({"projectId"}) \cup Preset({"folderId",
       "includeSubfolders", "includeArchived", "includePermissions", "startAt",
       "maxResults"}), Json("ApiItemArrangement"),
    Object(200, "ApiItemListResult") \cup Problems({400, 401, 403, 404, 500, 503}))

batch_operation_get_possible_values ==
  Endpoint("post", "/api/Batch/AllowedValues", {}, Json("ApiBatchAllowedValuesRequest"),
    Object(200, "ApiBatchAllowedValuesResponse") \cup Problems({400, 401, 403, 404, 500, 503}))

batch_operation_modify_items ==
  Endpoint("patch", "/api/Batch", {}, Json("ApiItemsPatchRequest"),
    Object(200, "ApiLongOperationOfBoolean") \cup Problems({400, 401, 403, 404, 500, 503}))

global_search_get ==
  Endpoint("post", "/api/GlobalSearch", {}, Json("ApiGlobalSearchRequest"),
    Object(200, "ApiGlobalSearchResult") \cup Problems({400, 401, 403, 500, 503}))

user_view_create ==
  Endpoint("post", "/api/UserView", {}, Json("ApiUserViewNew"),
    Object(200, "ApiUserViewNewResponse") \cup Problems({400, 401, 403, 404, 500, 503}))

user_view_delete_view ==
  Endpoint("delete", "/api/UserView/{userViewId}", {}, NoBody,
    NoContent(204) \cup Problems({401, 403, 404, 500, 503}))

user_view_get_view ==
  Endpoint("get", "/api/UserView/{userViewId}",
    OptionalEnum({"itemType"}) \cup Preset({"includePermissions"}), NoBody,
    Object(200, "ApiUserView") \cup Problems({400, 401, 403, 404, 500, 503}))

user_view_mark_user_view_as_favourite ==
  Endpoint("post", "/api/UserView/{userViewId}/Favourite", {}, NoBody,
    NoContent(204) \cup Problems({401, 403, 404, 500, 503}))

user_view_un_mark_user_view_favourite ==
  Endpoint("delete", "/api/UserView/{userViewId}/Favourite", {}, NoBody,
    NoContent(204) \cup Problems({401, 403, 404, 500, 503}))

user_view_update ==
  Endpoint("patch", "/api/UserView/{userViewId}", {}, Json("ApiUserViewUpdate"),
    NoContent(204) \cup Problems({400, 401, 403, 404, 500, 503}))

user_view_update_collection ==
  Endpoint("patch", "/api/UserView", {}, Json("ApiUserViewPatchCollectionOperation"),
    Object(200, "ApiUserViewPatchCollectionResponse") \cup Problems({400, 401, 403, 404, 500, 503}))

export_export_to_excel ==
  Endpoint("patch", "/api/ExportItems/{projectId}/{folderId}", {},
    Json("ApiItemExportRequest"),
    Object(200, "ApiLongOperationOfBoolean") \cup Problems({400, 401, 403, 404, 500, 503}))

export_get_export_data ==
  Endpoint("get", "/api/ExportItems/{exportFileGuid}", {}, NoBody,
    Content(200) \cup Problems({400, 401, 404, 500, 503}))

import_get_field_info ==
  Endpoint("get", "/api/ImportItems/{projectId}/{folderId}", OptionalEnums({"objectTypes"}),
    NoBody, Content(200) \cup Texts({400, 401, 403, 404, 500, 503}))

import_import_from_excel ==
  Endpoint("patch", "/api/ImportItems/{projectId}/{folderId}", {},
    Json("ApiItemImportRequest"),
    Object(200, "ApiLongOperationOfBoolean") \cup Problems({400, 401, 403, 404, 500, 503}))

ItemEndpoints ==
  [defect_add_attachment |-> defect_add_attachment,
   defect_add_watcher |-> defect_add_watcher, defect_create |-> defect_create,
   defect_create_enclosure |-> defect_create_enclosure,
   defect_create_lock |-> defect_create_lock, defect_create_meta |-> defect_create_meta,
   defect_create_post |-> defect_create_post,
   defect_create_relation |-> defect_create_relation, defect_delete |-> defect_delete,
   defect_delete_attachment |-> defect_delete_attachment,
   defect_delete_enclosure |-> defect_delete_enclosure,
   defect_delete_lock |-> defect_delete_lock, defect_delete_post |-> defect_delete_post,
   defect_delete_relations |-> defect_delete_relations,
   defect_edit_meta |-> defect_edit_meta, defect_get |-> defect_get,
   defect_get_attachment |-> defect_get_attachment,
   defect_get_attachment_data |-> defect_get_attachment_data,
   defect_get_attachments |-> defect_get_attachments,
   defect_get_edit_status |-> defect_get_edit_status,
   defect_get_enclosure |-> defect_get_enclosure,
   defect_get_enclosures |-> defect_get_enclosures,
   defect_get_history |-> defect_get_history, defect_get_item_list |-> defect_get_item_list,
   defect_get_post |-> defect_get_post, defect_get_posts |-> defect_get_posts,
   defect_get_relation_create_meta |-> defect_get_relation_create_meta,
   defect_get_relations |-> defect_get_relations,
   defect_get_watchers |-> defect_get_watchers, defect_modify_items |-> defect_modify_items,
   defect_remove_watcher |-> defect_remove_watcher, defect_update |-> defect_update,
   defect_update_enclosure |-> defect_update_enclosure,
   defect_update_post |-> defect_update_post,
   defect_update_watchers |-> defect_update_watchers,
   requirement_add_attachment |-> requirement_add_attachment,
   requirement_add_subrequirements |-> requirement_add_subrequirements,
   requirement_add_watcher |-> requirement_add_watcher,
   requirement_create |-> requirement_create,
   requirement_create_lock |-> requirement_create_lock,
   requirement_create_meta |-> requirement_create_meta,
   requirement_create_post |-> requirement_create_post,
   requirement_create_relation |-> requirement_create_relation,
   requirement_create_subrequirement |-> requirement_create_subrequirement,
   requirement_delete |-> requirement_delete,
   requirement_delete_attachment |-> requirement_delete_attachment,
   requirement_delete_lock |-> requirement_delete_lock,
   requirement_delete_post |-> requirement_delete_post,
   requirement_delete_relations |-> requirement_delete_relations,
   requirement_delete_subrequirement |-> requirement_delete_subrequirement,
   requirement_edit_meta |-> requirement_edit_meta, requirement_get |-> requirement_get,
   requirement_get_attachment |-> requirement_get_attachment,
   requirement_get_attachment_data |-> requirement_get_attachment_data,
   requirement_get_attachments |-> requirement_get_attachments,
   requirement_get_edit_status |-> requirement_get_edit_status,
   requirement_get_history |-> requirement_get_history,
   requirement_get_item_list |-> requirement_get_item_list,
   requirement_get_post |-> requirement_get_post,
   requirement_get_posts |-> requirement_get_posts,
   requirement_get_relation_create_meta |-> requirement_get_relation_create_meta,
   requirement_get_relations |-> requirement_get_relations,
   requirement_get_subrequirement_tree |-> requirement_get_subrequirement_tree,
   requirement_get_subrequirements |-> requirement_get_subrequirements,
   requirement_get_watchers |-> requirement_get_watchers,
   requirement_lock_subrequirement_tree |-> requirement_lock_subrequirement_tree,
   requirement_modify_items |-> requirement_modify_items,
   requirement_perform_batch_operation |-> requirement_perform_batch_operation,
   requirement_remove_watcher |-> requirement_remove_watcher,
   requirement_update |-> requirement_update,
   requirement_update_post |-> requirement_update_post,
   requirement_update_subrequirement |-> requirement_update_subrequirement,
   requirement_update_subrequirement_tree |-> requirement_update_subrequirement_tree,
   requirement_update_watchers |-> requirement_update_watchers,
   label_create_label |-> label_create_label, label_delete_label |-> label_delete_label,
   label_list_labels |-> label_list_labels, label_update_label |-> label_update_label,
   script_add_attachment |-> script_add_attachment,
   script_add_watcher |-> script_add_watcher, script_create_lock |-> script_create_lock,
   script_create_relation |-> script_create_relation,
   script_delete_attachment |-> script_delete_attachment,
   script_delete_lock |-> script_delete_lock,
   script_delete_relations |-> script_delete_relations, script_get |-> script_get,
   script_get_attachment |-> script_get_attachment,
   script_get_attachment_data |-> script_get_attachment_data,
   script_get_attachments |-> script_get_attachments,
   script_get_edit_status |-> script_get_edit_status,
   script_get_history |-> script_get_history,
   script_get_relation_create_meta |-> script_get_relation_create_meta,
   script_get_relations |-> script_get_relations,
   script_get_watchers |-> script_get_watchers, script_item_list |-> script_item_list,
   script_modify_items |-> script_modify_items,
   script_remove_watcher |-> script_remove_watcher,
   script_update_watchers |-> script_update_watchers,
   navigation_get_dependency |-> navigation_get_dependency,
   navigation_get_groups_get |-> navigation_get_groups_get,
   navigation_get_groups_post |-> navigation_get_groups_post,
   navigation_get_project_tree_data |-> navigation_get_project_tree_data,
   navigation_get_project_tree_path |-> navigation_get_project_tree_path,
   navigation_item_list_get |-> navigation_item_list_get,
   navigation_item_list_post |-> navigation_item_list_post,
   batch_operation_get_possible_values |-> batch_operation_get_possible_values,
   batch_operation_modify_items |-> batch_operation_modify_items,
   global_search_get |-> global_search_get, user_view_create |-> user_view_create,
   user_view_delete_view |-> user_view_delete_view,
   user_view_get_view |-> user_view_get_view,
   user_view_mark_user_view_as_favourite |-> user_view_mark_user_view_as_favourite,
   user_view_un_mark_user_view_favourite |-> user_view_un_mark_user_view_favourite,
   user_view_update |-> user_view_update,
   user_view_update_collection |-> user_view_update_collection,
   export_export_to_excel |-> export_export_to_excel,
   export_get_export_data |-> export_get_export_data,
   import_get_field_info |-> import_get_field_info,
   import_import_from_excel |-> import_import_from_excel]
============================================================================
