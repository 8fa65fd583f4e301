------------------------- MODULE RestTestEndpoints -------------------------
(*****************************************************************************)
(* The endpoints of test cases, test scenarios and test executions.          *)
(* Each definition says which request _get_kwargs builds and what            *)
(* _parse_response makes of the answer; the patterns are those of            *)
(* RestEndpoint.                                                             *)
(*****************************************************************************)
EXTENDS RestEndpoint

test_case_add_attachment ==
  Endpoint("post", "/api/TestCase/{id}/Attachment", Optional({"filename"}),
    Multipart("TestCaseAddAttachmentMultipartData"),
    Object(200, "ApiAttachmentInfo") \cup Problems({400, 401, 403, 404, 500, 503}))

test_case_add_test_data_value_set ==
  Endpoint("post", "/api/TestCase/{id}/TestData", {}, Json("ApiTestDataValueSetNew"),
    Scalar(200) \cup Problems({400, 401, 403, 404, 500, 503}))

test_case_add_watcher ==
  Endpoint("post", "/api/TestCase/{id}/Watchers", {}, Json("ApiWatcherNew"),
    NoContent(204) \cup Problems({401, 403, 404, 500, 503}))

test_case_connect_by_external_id ==
  Endpoint("put", "/api/TestCase/{testCaseId}/ExternalRef", {}, JsonRaw,
    NoContent(204) \cup Problems({400, 401, 403, 500, 503}))

test_case_create ==
  Endpoint("post", "/api/TestCase", Preset({"applyDefaultValues"}),
    Json("ApiItemNewWithTestDataAndTestSteps"),
    Object(200, "ApiItemInfo") \cup Problems({400, 401, 403, 500, 503}))

test_case_create_lock ==
  Endpoint("post", "/api/TestCase/{id}/Lock", {}, Json("ApiLockNew"),
    NoContent(204) \cup Problems({400, 401, 403, 404, 500, 503}))

test_case_create_meta ==
  Endpoint("get", "/api/TestCase/CreateMeta",
    Needed({"projectId", "folderId"}) \cup Optional({"statusTo"}), NoBody,
    Object(200, "ApiTestCaseCreateMeta") \cup Problems({400, 401, 403, 404, 500, 503}))

test_case_create_post ==
  Endpoint("post", "/api/TestCase/{id}/Post", {}, Json("ApiRichText"),
    Object(200, "ApiPostInfo") \cup Problems({400, 401, 403, 404, 500, 503}))

test_case_create_relation ==
  Endpoint("post", "/api/TestCase/{id}/Relation", {}, Json("ApiRelationNew"),
    Object(200, "ApiRelation") \cup Problems({400, 401, 403, 404, 500, 503}))

test_case_create_test_step ==
  Endpoint("post", "/api/TestCase/{id}/TestStep", {}, Json("ApiTestStepNew"),
    Object(200, "ApiAddSingleTestStepResponse") \cup Problems({400, 401, 403, 404, 500, 503}))

test_case_delete ==
  Endpoint("delete", "/api/TestCase/{id}", {}, NoBody,
    NoContent(204) \cup Problems({400, 401, 403, 404, 500, 503}))

test_case_delete_attachment ==
  Endpoint("delete", "/api/TestCase/{id}/Attachment/{attachmentId}", {}, NoBody,
    NoContent(204) \cup Problems({400, 401, 403, 404, 500, 503}))

test_case_delete_lock ==
  Endpoint("delete", "/api/TestCase/{id}/Lock", {}, NoBody,
    NoContent(204) \cup Problems({400, 401, 403, 404, 500, 503}))

test_case_delete_post ==
  Endpoint("delete", "/api/TestCase/{id}/Post/{postId}", {}, NoBody,
    Object(200, "ApiPostInfo") \cup Problems({401, 403, 404, 500, 503}))

test_case_delete_relations ==
  Endpoint("delete", "/api/TestCase/{id}/Relation/{relationId}", {}, NoBody,
    NoContent(204) \cup Problems({400, 401, 403, 404, 500, 503}))

test_case_delete_test_data_value_set ==
  Endpoint("delete", "/api/TestCase/{id}/TestData/{valueSetGuid}", {}, NoBody,
    NoContent(204) \cup Problems({400, 401, 403, 404, 500, 503}))

test_case_delete_test_step ==
  Endpoint("delete", "/api/TestCase/{id}/TestStep/{stepId}", {}, NoBody,
    NoContent(204) \cup Problems({400, 401, 403, 404, 500, 503}))

test_case_edit_meta ==
  Endpoint("get", "/api/TestCase/{id}/EditMeta", Needed({"statusTo"}), NoBody,
    Object(200, "ApiTestCaseEditMeta") \cup Problems({401, 403, 404, 500, 503}))

test_case_execute_automated ==
  Endpoint("post", "/api/TestCase/{id}/AutomatedExecution", {},
    Json("ApiAutomatedTestCaseExecution"),
    Scalar(200) \cup Problems({400, 401, 403, 404, 500, 503}))

test_case_export_test_data ==
  Endpoint("get", "/api/TestCase/{id}/TestData/Transfer", OptionalEnum({"fileFormat"}),
    NoBody, Content(200) \cup Texts({401, 403, 404, 500, 503}))

test_case_fetch_by_external_id ==
  Endpoint("get", "/api/TestCase/ExternalRef/{integrationTypeStr}/{externalId}", {}, NoBody,
    ObjectList(200, "ApiExternalInfo") \cup Problems({400, 401, 403, 500, 503}))

test_case_get ==
  Endpoint("get", "/api/TestCase/{id}",
    Preset({"withEditableInfo", "withEditLayout", "withViewLayout"}), NoBody,
    Object(200, "ApiTestCase") \cup Problems({401, 403, 404, 500, 503}))

test_case_get_attachment ==
  Endpoint("get", "/api/TestCase/{id}/Attachment/{attachmentId}", {}, NoBody,
    Object(200, "ApiAttachmentInfo") \cup Problems({401, 403, 404, 500, 503}))

test_case_get_attachment_data ==
  Endpoint("get", "/api/TestCase/{id}/Attachment/{attachmentId}/data",
    Preset({"download"}) \cup Optional({"access_token", "tenantId"}), NoBody,
    Content(200) \cup Object(307, "ApiRedirectResult") \cup Texts({401, 403, 404, 500, 503}))

test_case_get_attachments ==
  Endpoint("get", "/api/TestCase/{id}/Attachment", {}, NoBody,
    ObjectList(200, "ApiAttachmentInfo") \cup Problems({401, 403, 404, 500, 503}))

test_case_get_edit_status ==
  Endpoint("get", "/api/TestCase/{id}/EditStatus", {}, NoBody,
    Object(200, "ApiItemEditStatus") \cup Problems({401, 403, 404, 500, 503}))

test_case_get_history ==
  Endpoint("get", "/api/TestCase/{id}/History", {}, NoBody,
    ObjectList(200, "ApiHistoryEntryTestCase") \cup Problems({401, 403, 404, 500, 503}))

test_case_get_item_list ==
  Endpoint("get", "/api/TestCase/ItemList",
    Needed({"projectId"}) \cup Preset({"folderId", "includeSubfolders",
       "includeArchived", "startAt", "maxResults"}) \cup Optional({"filter", "sorting",
       "search"}), NoBody,
    Object(200, "ApiItemListResult") \cup Problems({400, 401, 403, 404, 500, 503}))

test_case_get_post ==
  Endpoint("get", "/api/TestCase/{id}/Post/{postId}", {}, NoBody,
    Object(200, "ApiPost") \cup Problems({401, 403, 404, 500, 503}))

test_case_get_posts ==
  Endpoint("get", "/api/TestCase/{id}/Post",
    Preset({"firstResult", "maxResults", "ascending"}), NoBody,
    Object(200, "ApiPostPaginated") \cup Problems({401, 403, 404, 500, 503}))

test_case_get_relation_create_meta ==
  Endpoint("get", "/api/TestCase/{id}/Relation/CreateMeta", {}, NoBody,
    Object(200, "ApiRelationCreateMeta") \cup Problems({401, 403, 404, 500, 503}))

test_case_get_relations ==
  Endpoint("get", "/api/TestCase/{id}/Relation",
    Preset({"depth"}) \cup Optional({"maxItemsPerType", "include", "fields"}), NoBody,
    Object(200, "ApiRelations") \cup Problems({401, 403, 404, 500, 503}))

test_case_get_test_case_attached_script_file_data ==
  Endpoint("get", "/api/TestCase/{id}/TestStep/{stepId}/AttachedScriptFile/{attachmentScriptFileId}/data",
    Preset({"download"}) \cup Optional({"token"}), NoBody,
    Content(200) \cup Problems({400, 401, 403, 404, 500, 503}))

test_case_get_test_data ==
  Endpoint("get", "/api/TestCase/{id}/TestData", Preset({"include", "resolveFormulas"}),
    NoBody, Object(200, "ApiTestData") \cup Problems({401, 403, 404, 500, 503}))

test_case_get_test_data_placeholders ==
  Endpoint("get", "/api/TestCase/TestData/Placeholder", Needed({"projectId"}), NoBody,
    Object(200, "ApiFieldPlaceholders") \cup Problems({401, 403, 404, 500, 503}))

test_case_get_test_executions ==
  Endpoint("get", "/api/TestCase/{id}/Execution",
    Optional({"filter", "orderBy"}) \cup Preset({"startAt", "maxResults"}), NoBody,
    Object(200, "ApiPaginatedResultOfApiTestExecutionInfo") \cup Problems({400, 401, 403, 404, 500, 503}))

test_case_get_test_job_executions ==
  Endpoint("get", "/api/TestCase/{id}/Executions/{max}",
    Preset({"excludeIrrelevantExecutions"}), NoBody,
    ObjectList(200, "ApiTestExecutionInfo") \cup Problems({401, 403, 404, 500, 503}))

test_case_get_test_step ==
  Endpoint("get", "/api/TestCase/{id}/TestStep/{stepId}", Preset({"includeAutomation"}),
    NoBody, ObjectList(200, "ApiTestStep") \cup Problems({401, 403, 404, 500, 503}))

test_case_get_test_step_automation ==
  Endpoint("get", "/api/TestCase/{id}/TestStep/{stepId}/Automation", {}, NoBody,
    ObjectList(200, "ApiTestStep") \cup Problems({401, 403, 404, 500, 503}))

test_case_get_test_steps ==
  Endpoint("get", "/api/TestCase/{id}/TestStep", Preset({"includeAutomation"}), NoBody,
    ObjectList(200, "ApiTestStep") \cup Problems({401, 403, 404, 500, 503}))

test_case_get_value_set ==
  Endpoint("get", "/api/TestCase/{id}/TestData/{valueSetGuid}", Preset({"resolveFormulas"}),
    NoBody, Object(200, "ApiTestDataValueSet") \cup Problems({401, 403, 404, 500, 503}))

test_case_get_watchers ==
  Endpoint("get", "/api/TestCase/{id}/Watchers", {}, NoBody,
    ObjectList(200, "ApiUserInfo") \cup Problems({401, 403, 404, 500, 503}))

test_case_import_test_data ==
  Endpoint("post", "/api/TestCase/{id}/TestData/Transfer",
    Optional({"fileName"}) \cup Preset({"convertDateTime"}),
    Multipart("TestCaseImportTestDataMultipartData"),
    NoContent(204) \cup Problems({400, 401, 403, 404, 500, 503}))

test_case_import_test_data_without_save ==
  Endpoint("post", "/api/TestCase/{id}/TestData/Transfer/NoSave",
    Optional({"fileName"}) \cup Preset({"convertDateTime"}),
    Multipart("TestCaseImportTestDataWithoutSaveMultipartData"),
    Object(200, "ApiTestData") \cup Problems({400, 401, 403, 404, 500, 503}))

test_case_modify_items ==
  Endpoint("patch", "/api/TestCase", {}, Json("ApiItemsPatchRequest"),
    Object(200, "ApiLongOperationOfBoolean") \cup Problems({400, 401, 403, 404, 500, 503}))

test_case_preview_test_data ==
  Endpoint("post", "/api/TestCase/TestData/Preview", {}, Json("ApiTestDataPreview"),
    Object(200, "ApiTestDataPreview") \cup Problems({400, 401, 500, 503}))

test_case_preview_test_execution ==
  Endpoint("post", "/api/TestCase/{id}/Execution/Preview",
    PresetEnum({"richTextFormatToInclude"}), Json("ApiTestCaseExecutionPreviewRequest"),
    Object(200, "ApiTestCaseExecutionPreviewResponse") \cup Problems({400, 401, 403, 404, 500, 503}))

test_case_remove_watcher ==
  Endpoint("delete", "/api/TestCase/{id}/Watchers/{userId}", {}, NoBody,
    NoContent(204) \cup Problems({401, 403, 404, 500, 503}))

test_case_test_cases_have_steps ==
  Endpoint("post", "/api/TestCase/HaveSteps", {}, JsonRaw,
    Object(200, "ApiTestCasesHaveStepsResponse") \cup Problems({400, 401, 403, 500, 503}))

test_case_update ==
  Endpoint("put", "/api/TestCase/{id}", Preset({"explicitLock", "applyDefaultValues"}),
    Json("ApiItemUpdateWithTestDataAndTestSteps"),
    NoContent(204) \cup Problems({400, 401, 403, 404, 500, 503}))

test_case_update_execution_defaults ==
  Endpoint("put", "/api/TestCase/{id}/ExecutionDefaults", {},
    Json("ApiTestCaseExecutionDefaultsUpdate"),
    NoContent(204) \cup Problems({400, 401, 403, 404, 500, 503}))

test_case_update_post ==
  Endpoint("put", "/api/TestCase/{id}/Post/{postId}", {}, Json("ApiRichText"),
    Object(200, "ApiPostInfo") \cup Problems({400, 401, 403, 404, 500, 503}))

test_case_update_test_data ==
  Endpoint("put", "/api/TestCase/{id}/TestData", {}, Json("ApiTestDataUpdate"),
    NoContent(204) \cup Problems({400, 401, 403, 404, 500, 503}))

test_case_update_test_data_value_set ==
  Endpoint("put", "/api/TestCase/{id}/TestData/{valueSetGuid}", {},
    Json("ApiTestDataValueSetUpdate"),
    NoContent(204) \cup Problems({400, 401, 403, 404, 500, 503}))

test_case_update_test_step ==
  Endpoint("put", "/api/TestCase/{id}/TestStep/{stepId}", {}, Json("ApiTestStepUpdate"),
    NoContent(204) \cup Problems({400, 401, 403, 404, 500, 503}))

test_case_update_watchers ==
  Endpoint("put", "/api/TestCase/{id}/Watchers", {}, Json("ApiWatchersUpdate"),
    NoContent(204) \cup Problems({401, 403, 404, 500, 503}))

test_scenario_add_attachment ==
  Endpoint("post", "/api/TestScenario/{id}/Attachment", Optional({"filename"}),
    Multipart("TestScenarioAddAttachmentMultipartData"),
    Object(200, "ApiAttachmentInfo") \cup Problems({400, 401, 403, 404, 500, 503}))

test_scenario_add_test_job ==
  Endpoint("post", "/api/TestScenario/{id}/TestJob", {}, Json("ApiTestJobNew"),
    Object(200, "ApiAddSingleTestJobResponse") \cup Problems({400, 401, 403, 404, 500, 503}))

test_scenario_add_watcher ==
  Endpoint("post", "/api/TestScenario/{id}/Watchers", {}, Json("ApiWatcherNew"),
    NoContent(204) \cup Problems({401, 403, 404, 500, 503}))

test_scenario_connect_by_external_id ==
  Endpoint("put", "/api/TestScenario/{testScenarioId}/ExternalRef", {}, JsonRaw,
    NoContent(204) \cup Problems({400, 401, 403, 500, 503}))

test_scenario_create ==
  Endpoint("post", "/api/TestScenario", Preset({"applyDefaultValues"}),
    Json("ApiItemNewWithTestJobs"),
    Object(200, "ApiItemInfo") \cup Problems({400, 401, 403, 500, 503}))

test_scenario_create_lock ==
  Endpoint("post", "/api/TestScenario/{id}/Lock", {}, Json("ApiLockNew"),
    NoContent(204) \cup Problems({400, 401, 403, 404, 500, 503}))

test_scenario_create_meta ==
  Endpoint("get", "/api/TestScenario/CreateMeta",
    Needed({"projectId", "folderId"}) \cup Optional({"statusTo"}), NoBody,
    Object(200, "ApiItemCreateMeta") \cup Problems({400, 401, 403, 500, 503}))

test_scenario_create_post ==
  Endpoint("post", "/api/TestScenario/{id}/Post", {}, Json("ApiRichText"),
    Object(200, "ApiPostInfo") \cup Problems({400, 401, 403, 404, 500, 503}))

test_scenario_create_relation ==
  Endpoint("post", "/api/TestScenario/{id}/Relation", {}, Json("ApiRelationNew"),
    Object(200, "ApiRelation") \cup Problems({400, 401, 403, 404, 500, 503}))

test_scenario_delete ==
  Endpoint("delete", "/api/TestScenario/{id}", {}, NoBody,
    NoContent(204) \cup Problems({400, 401, 403, 404, 500, 503}))

test_scenario_delete_attachment ==
  Endpoint("delete", "/api/TestScenario/{id}/Attachment/{attachmentId}", {}, NoBody,
    NoContent(204) \cup Problems({400, 401, 403, 404, 500, 503}))

test_scenario_delete_lock ==
  Endpoint("delete", "/api/TestScenario/{id}/Lock", {}, NoBody,
    NoContent(204) \cup Problems({400, 401, 403, 404, 500, 503}))

test_scenario_delete_post ==
  Endpoint("delete", "/api/TestScenario/{id}/Post/{postId}", {}, NoBody,
    Object(200, "ApiPostInfo") \cup Problems({401, 403, 404, 500, 503}))

test_scenario_delete_relations ==
  Endpoint("delete", "/api/TestScenario/{id}/Relation/{relationId}", {}, NoBody,
    NoContent(204) \cup Problems({400, 401, 403, 404, 500, 503}))

test_scenario_delete_test_job ==
  Endpoint("delete", "/api/TestScenario/{id}/TestJob/{testJobId}", {}, NoBody,
    NoContent(204) \cup Problems({400, 401, 403, 404, 500, 503}))

test_scenario_edit_meta ==
  Endpoint("get", "/api/TestScenario/{id}/EditMeta", Needed({"statusTo"}), NoBody,
    Object(200, "ApiItemEditMeta") \cup Problems({401, 403, 404, 500, 503}))

test_scenario_execute_automated ==
  Endpoint("post", "/api/TestScenario/{id}/AutomatedExecution", {},
    Json("ApiAutomatedTestScenarioExecutionRequest"),
    Object(200, "ApiAutomatedTestScenarioExecutionResponse") \cup Problems({400, 401, 403, 404, 500, 503}))

test_scenario_fetch_by_external_id ==
  Endpoint("get", "/api/TestScenario/ExternalRef/{integrationTypeStr}/{externalId}", {},
    NoBody, ObjectList(200, "ApiExternalInfo") \cup Problems({400, 401, 403, 500, 503}))

test_scenario_get ==
  Endpoint("get", "/api/TestScenario/{id}",
    Preset({"withEditableInfo", "withEditLayout", "withViewLayout"}), NoBody,
    Object(200, "ApiTestScenario") \cup Problems({401, 403, 404, 500, 503}))

test_scenario_get_attachment ==
  Endpoint("get", "/api/TestScenario/{id}/Attachment/{attachmentId}", {}, NoBody,
    Object(200, "ApiAttachmentInfo") \cup Problems({401, 403, 404, 500, 503}))

test_scenario_get_attachment_data ==
  Endpoint("get", "/api/TestScenario/{id}/Attachment/{attachmentId}/data",
    Preset({"download"}) \cup Optional({"access_token", "tenantId"}), NoBody,
    Content(200) \cup Object(307, "ApiRedirectResult") \cup Texts({401, 403, 404, 500, 503}))

test_scenario_get_attachments ==
  Endpoint("get", "/api/TestScenario/{id}/Attachment", {}, NoBody,
    ObjectList(200, "ApiAttachmentInfo") \cup Problems({401, 403, 404, 500, 503}))

test_scenario_get_edit_status ==
  Endpoint("get", "/api/TestScenario/{id}/EditStatus", {}, NoBody,
    Object(200, "ApiItemEditStatus") \cup Problems({401, 403, 404, 500, 503}))

test_scenario_get_history ==
  Endpoint("get", "/api/TestScenario/{id}/History", {}, NoBody,
    ObjectList(200, "ApiHistoryEntryTestScenario") \cup Problems({401, 403, 404, 500, 503}))

test_scenario_get_item_list ==
  Endpoint("get", "/api/TestScenario/ItemList",
    Needed({"projectId"}) \cup Preset({"folderId", "includeSubfolders",
       "includeArchived", "startAt", "maxResults"}) \cup Optional({"filter", "sorting",
       "search"}), NoBody,
    Object(200, "ApiItemListResult") \cup Problems({400, 401, 403, 404, 500, 503}))

test_scenario_get_post ==
  Endpoint("get", "/api/TestScenario/{id}/Post/{postId}", {}, NoBody,
    Object(200, "ApiPost") \cup Problems({401, 403, 404, 500, 503}))

test_scenario_get_posts ==
  Endpoint("get", "/api/TestScenario/{id}/Post",
    Preset({"firstResult", "maxResults", "ascending"}), NoBody,
    Object(200, "ApiPostPaginated") \cup Problems({401, 403, 404, 500, 503}))

test_scenario_get_relation_create_meta ==
  Endpoint("get", "/api/TestScenario/{id}/Relation/CreateMeta", {}, NoBody,
    Object(200, "ApiRelationCreateMeta") \cup Problems({401, 403, 404, 500, 503}))

test_scenario_get_relations ==
  Endpoint("get", "/api/TestScenario/{id}/Relation",
    Preset({"depth"}) \cup Optional({"maxItemsPerType", "include", "fields"}), NoBody,
    Object(200, "ApiRelations") \cup Problems({401, 403, 404, 500, 503}))

test_scenario_get_test_executions ==
  Endpoint("get", "/api/TestScenario/{id}/Execution",
    Optional({"filter", "orderBy"}) \cup Preset({"startAt", "maxResults",
       "includeStatistics"}), NoBody,
    Object(200, "ApiPaginatedResultOfApiTestExecutionInfo") \cup Problems({400, 401, 403, 404, 500, 503}))

test_scenario_get_test_job ==
  Endpoint("get", "/api/TestScenario/{id}/TestJob/{testJobId}", {}, NoBody,
    Object(200, "ApiTestJob") \cup Problems({401, 403, 404, 500, 503}))

test_scenario_get_test_job_preview ==
  Endpoint("post", "/api/TestScenario/TestJobPreview", {}, JsonRaw,
    Object(200, "ApiTestJobPreviewResponse") \cup Problems({400, 401, 403, 500, 503}))

test_scenario_get_test_jobs ==
  Endpoint("get", "/api/TestScenario/{id}/TestJob", {}, NoBody,
    ObjectList(200, "ApiTestJob") \cup Problems({401, 403, 404, 500, 503}))

test_scenario_get_watchers ==
  Endpoint("get", "/api/TestScenario/{id}/Watchers", {}, NoBody,
    ObjectList(200, "ApiUserInfo") \cup Problems({401, 403, 404, 500, 503}))

test_scenario_modify_items ==
  Endpoint("patch", "/api/TestScenario", {}, Json("ApiItemsPatchRequest"),
    Object(200, "ApiLongOperationOfBoolean") \cup Problems({400, 401, 403, 404, 500, 503}))

test_scenario_preview_test_execution ==
  Endpoint("post", "/api/TestScenario/{id}/Execution/Preview",
    PresetEnum({"richTextFormatToInclude"}), Json("ApiTestScenarioExecutionPreviewRequest"),
    Object(200, "ApiTestScenarioExecutionPreviewResponse") \cup Problems({400, 401, 403, 404, 500, 503}))

test_scenario_remove_watcher ==
  Endpoint("delete", "/api/TestScenario/{id}/Watchers/{userId}", {}, NoBody,
    NoContent(204) \cup Problems({401, 403, 404, 500, 503}))

test_scenario_update ==
  Endpoint("put", "/api/TestScenario/{id}", Preset({"explicitLock", "applyDefaultValues"}),
    Json("ApiItemUpdateWithTestJobs"),
    NoContent(204) \cup Problems({400, 401, 403, 404, 500, 503}))

test_scenario_update_post ==
  Endpoint("put", "/api/TestScenario/{id}/Post/{postId}", {}, Json("ApiRichText"),
    Object(200, "ApiPostInfo") \cup Problems({400, 401, 403, 404, 500, 503}))

test_scenario_update_test_job ==
  Endpoint("put", "/api/TestScenario/{id}/TestJob/{testJobId}", {},
    Json("ApiTestJobUpdate"), NoContent(204) \cup Problems({400, 401, 403, 404, 500, 503}))

test_scenario_update_watchers ==
  Endpoint("put", "/api/TestScenario/{id}/Watchers", {}, Json("ApiWatchersUpdate"),
    NoContent(204) \cup Problems({401, 403, 404, 500, 503}))

test_execution_add_attachment ==
  Endpoint("post", "/api/TestExecution/{id}/Attachment", Optional({"fileName"}),
    Multipart("TestExecutionAddAttachmentMultipartData"),
    Object(200, "ApiAttachmentInfo") \cup Problems({400, 401, 403, 404, 500, 503}))

test_execution_bulk_executions ==
  Endpoint("post", "/api/TestExecution/BulkExecutions", {},
    Json("ApiBulkExecutionsRequest"),
    Object(200, "ApiLongOperationOfBoolean") \cup Problems({400, 401, 403, 404, 500, 503}))

test_execution_continue_test_execution ==
  Endpoint("get", "/api/TestExecution/{testExecutionId}/Continue",
    PresetEnum({"richTextFormatToInclude"}), NoBody,
    Object(200, "ApiTestExecutionContinueResponse") \cup Problems({401, 403, 404, 500, 503}))

test_execution_create ==
  Endpoint("post", "/api/TestExecution", {}, JsonList("ApiTestExecutionNew"),
    Object(200, "ApiTestExecutionNewResponse") \cup Problems({400, 401, 403, 500, 503}))

test_execution_create_execution_log ==
  Endpoint("post", "/api/TestExecution/Log/{testJobExecutionId}/{testStepExecutionId}", {},
    Json("ApiTestExecutionLogUserEntryNew"),
    NoContent(204) \cup Problems({400, 401, 403, 404, 500, 503}))

test_execution_create_lock ==
  Endpoint("post", "/api/TestExecution/{id}/Lock", {}, Json("ApiLockNew"),
    NoContent(204) \cup Problems({400, 401, 403, 404, 500, 503}))

test_execution_create_locks ==
  Endpoint("patch", "/api/TestExecution/Lock", {}, JsonList("ApiTestExecutionCreateLock"),
    NoContent(204) \cup Problems({400, 401, 403, 404, 500, 503}))

test_execution_create_relation ==
  Endpoint("post", "/api/TestExecution/{id}/Relation", {}, Json("ApiRelationNew"),
    Object(200, "ApiRelation") \cup Problems({400, 401, 403, 404, 500, 503}))

test_execution_delete_attachment ==
  Endpoint("delete", "/api/TestExecution/{id}/Attachment/{attachmentId}", {}, NoBody,
    NoContent(204) \cup Problems({400, 401, 403, 404, 500, 503}))

test_execution_delete_lock ==
  Endpoint("delete", "/api/TestExecution/{id}/Lock", {}, NoBody,
    NoContent(204) \cup Problems({400, 401, 403, 404, 500, 503}))

test_execution_delete_locks ==
  Endpoint("patch", "/api/TestExecution/Unlock", {}, JsonRaw,
    NoContent(204) \cup Problems({400, 401, 403, 404, 500, 503}))

test_execution_get_attachment_data ==
  Endpoint("get", "/api/TestExecution/{id}/Attachment/{attachmentId}/data",
    Preset({"download"}) \cup Optional({"access_token", "tenantId"}), NoBody,
    Content(200) \cup Object(307, "ApiRedirectResult") \cup Texts({401, 403, 404, 500, 503}))

test_execution_get_create_meta ==
  Endpoint("get", "/api/TestExecution/CreateMeta", Needed({"projectId"}), NoBody,
    Object(200, "ApiTestExecutionCreateMeta") \cup Problems({401, 403, 404, 500, 503}))

test_execution_get_relation_create_meta ==
  Endpoint("get", "/api/TestExecution/{id}/Relation/CreateMeta", {}, NoBody,
    Object(200, "ApiRelationCreateMeta") \cup Problems({401, 403, 404, 500, 503}))

test_execution_get_relations ==
  Endpoint("get", "/api/TestExecution/{id}/Relation",
    Preset({"depth"}) \cup Optional({"maxItemsPerType", "include", "fields"}), NoBody,
    Object(200, "ApiRelations") \cup Problems({401, 403, 404, 500, 503}))

test_execution_get_test_execution ==
  Endpoint("get", "/api/TestExecution/{id}", PresetEnum({"richTextFormatToInclude"}),
    NoBody, Object(200, "ApiTestExecution") \cup Problems({401, 403, 404, 500, 503}))

test_execution_get_test_execution_all ==
  Endpoint("post", "/api/TestExecution/ItemList", PresetEnum({"richTextFormatToInclude"}),
    JsonRaw,
    ObjectList(200, "ApiTestExecutionExtendedInfo") \cup Problems({401, 403, 404, 500, 503}))

test_execution_get_test_execution_edit_status ==
  Endpoint("get", "/api/TestExecution/{id}/EditStatus", {}, NoBody,
    Object(200, "ApiEditStatus") \cup Problems({401, 403, 404, 500, 503}))

test_execution_modify_executions_relevance ==
  Endpoint("patch", "/api/TestExecution", {}, Json("ApiTestExecutionPatchRequest"),
    Object(200, "ApiTestExecutionPatchResponse") \cup Problems({400, 401, 403, 404, 500, 503}))

test_execution_update ==
  Endpoint("put", "/api/TestExecution/{id}", Preset({"explicitLock"}),
    Json("ApiTestExecutionUpdate"),
    NoContent(204) \cup Problems({400, 401, 403, 404, 500, 503}))

test_execution_update_2 ==
  Endpoint("put", "/api/TestExecution", Preset({"explicitLock"}),
    JsonList("ApiTestExecutionUpdate"),
    NoContent(204) \cup Problems({400, 401, 403, 404, 500, 503}))

test_execution_update_step ==
  Endpoint("put", "/api/TestExecution/{id}/testStep/{testStepId}", {},
    Json("ApiTestStepExecutionUpdateSingleStep"),
    NoContent(204) \cup Problems({400, 401, 403, 404, 500, 503}))

TestEndpoints ==
  [test_case_add_attachment |-> test_case_add_attachment,
   test_case_add_test_data_value_set |-> test_case_add_test_data_value_set,
   test_case_add_watcher |-> test_case_add_watcher,
   test_case_connect_by_external_id |-> test_case_connect_by_external_id,
   test_case_create |-> test_case_create, test_case_create_lock |-> test_case_create_lock,
   test_case_create_meta |-> test_case_create_meta,
   test_case_create_post |-> test_case_create_post,
   test_case_create_relation |-> test_case_create_relation,
   test_case_create_test_step |-> test_case_create_test_step,
   test_case_delete |-> test_case_delete,
   test_case_delete_attachment |-> test_case_delete_attachment,
   test_case_delete_lock |-> test_case_delete_lock,
   test_case_delete_post |-> test_case_delete_post,
   test_case_delete_relations |-> test_case_delete_relations,
   test_case_delete_test_data_value_set |-> test_case_delete_test_data_value_set,
   test_case_delete_test_step |-> test_case_delete_test_step,
   test_case_edit_meta |-> test_case_edit_meta,
   test_case_execute_automated |-> test_case_execute_automated,
   test_case_export_test_data |-> test_case_export_test_data,
   test_case_fetch_by_external_id |-> test_case_fetch_by_external_id,
   test_case_get |-> test_case_get, test_case_get_attachment |-> test_case_get_attachment,
   test_case_get_attachment_data |-> test_case_get_attachment_data,
   test_case_get_attachments |-> test_case_get_attachments,
   test_case_get_edit_status |-> test_case_get_edit_status,
   test_case_get_history |-> test_case_get_history,
   test_case_get_item_list |-> test_case_get_item_list,
   test_case_get_post |-> test_case_get_post, test_case_get_posts |-> test_case_get_posts,
   test_case_get_relation_create_meta |-> test_case_get_relation_create_meta,
   test_case_get_relations |-> test_case_get_relations,
   test_case_get_test_case_attached_script_file_data |-> test_case_get_test_case_attached_script_file_data,
   test_case_get_test_data |-> test_case_get_test_data,
   test_case_get_test_data_placeholders |-> test_case_get_test_data_placeholders,
   test_case_get_test_executions |-> test_case_get_test_executions,
   test_case_get_test_job_executions |-> test_case_get_test_job_executions,
   test_case_get_test_step |-> test_case_get_test_step,
   test_case_get_test_step_automation |-> test_case_get_test_step_automation,
   test_case_get_test_steps |-> test_case_get_test_steps,
   test_case_get_value_set |-> test_case_get_value_set,
   test_case_get_watchers |-> test_case_get_watchers,
   test_case_import_test_data |-> test_case_import_test_data,
   test_case_import_test_data_without_save |-> test_case_import_test_data_without_save,
   test_case_modify_items |-> test_case_modify_items,
   test_case_preview_test_data |-> test_case_preview_test_data,
   test_case_preview_test_execution |-> test_case_preview_test_execution,
   test_case_remove_watcher |-> test_case_remove_watcher,
   test_case_test_cases_have_steps |-> test_case_test_cases_have_steps,
   test_case_update |-> test_case_update,
   test_case_update_execution_defaults |-> test_case_update_execution_defaults,
   test_case_update_post |-> test_case_update_post,
   test_case_update_test_data |-> test_case_update_test_data,
   test_case_update_test_data_value_set |-> test_case_update_test_data_value_set,
   test_case_update_test_step |-> test_case_update_test_step,
   test_case_update_watchers |-> test_case_update_watchers,
   test_scenario_add_attachment |-> test_scenario_add_attachment,
   test_scenario_add_test_job |-> test_scenario_add_test_job,
   test_scenario_add_watcher |-> test_scenario_add_watcher,
   test_scenario_connect_by_external_id |-> test_scenario_connect_by_external_id,
   test_scenario_create |-> test_scenario_create,
   test_scenario_create_lock |-> test_scenario_create_lock,
   test_scenario_create_meta |-> test_scenario_create_meta,
   test_scenario_create_post |-> test_scenario_create_post,
   test_scenario_create_relation |-> test_scenario_create_relation,
   test_scenario_delete |-> test_scenario_delete,
   test_scenario_delete_attachment |-> test_scenario_delete_attachment,
   test_scenario_delete_lock |-> test_scenario_delete_lock,
   test_scenario_delete_post |-> test_scenario_delete_post,
   test_scenario_delete_relations |-> test_scenario_delete_relations,
   test_scenario_delete_test_job |-> test_scenario_delete_test_job,
   test_scenario_edit_meta |-> test_scenario_edit_meta,
   test_scenario_execute_automated |-> test_scenario_execute_automated,
   test_scenario_fetch_by_external_id |-> test_scenario_fetch_by_external_id,
   test_scenario_get |-> test_scenario_get,
   test_scenario_get_attachment |-> test_scenario_get_attachment,
   test_scenario_get_attachment_data |-> test_scenario_get_attachment_data,
   test_scenario_get_attachments |-> test_scenario_get_attachments,
   test_scenario_get_edit_status |-> test_scenario_get_edit_status,
   test_scenario_get_history |-> test_scenario_get_history,
   test_scenario_get_item_list |-> test_scenario_get_item_list,
   test_scenario_get_post |-> test_scenario_get_post,
   test_scenario_get_posts |-> test_scenario_get_posts,
   test_scenario_get_relation_create_meta |-> test_scenario_get_relation_create_meta,
   test_scenario_get_relations |-> test_scenario_get_relations,
   test_scenario_get_test_executions |-> test_scenario_get_test_executions,
   test_scenario_get_test_job |-> test_scenario_get_test_job,
   test_scenario_get_test_job_preview |-> test_scenario_get_test_job_preview,
   test_scenario_get_test_jobs |-> test_scenario_get_test_jobs,
   test_scenario_get_watchers |-> test_scenario_get_watchers,
   test_scenario_modify_items |-> test_scenario_modify_items,
   test_scenario_preview_test_execution |-> test_scenario_preview_test_execution,
   test_scenario_remove_watcher |-> test_scenario_remove_watcher,
   test_scenario_update |-> test_scenario_update,
   test_scenario_update_post |-> test_scenario_update_post,
   test_scenario_update_test_job |-> test_scenario_update_test_job,
   test_scenario_update_watchers |-> test_scenario_update_watchers,
   test_execution_add_attachment |-> test_execution_add_attachment,
   test_execution_bulk_executions |-> test_execution_bulk_executions,
   test_execution_continue_test_execution |-> test_execution_continue_test_execution,
   test_execution_create |-> test_execution_create,
   test_execution_create_execution_log |-> test_execution_create_execution_log,
   test_execution_create_lock |-> test_execution_create_lock,
   test_execution_create_locks |-> test_execution_create_locks,
   test_execution_create_relation |-> test_execution_create_relation,
   test_execution_delete_attachment |-> test_execution_delete_attachment,
   test_execution_delete_lock |-> test_execution_delete_lock,
   test_execution_delete_locks |-> test_execution_delete_locks,
   test_execution_get_attachment_data |-> test_execution_get_attachment_data,
   test_execution_get_create_meta |-> test_execution_get_create_meta,
   test_execution_get_relation_create_meta |-> test_execution_get_relation_create_meta,
   test_execution_get_relations |-> test_execution_get_relations,
   test_execution_get_test_execution |-> test_execution_get_test_execution,
   test_execution_get_test_execution_all |-> test_execution_get_test_execution_all,
   test_execution_get_test_execution_edit_status |-> test_execution_get_test_execution_edit_status,
   test_execution_modify_executions_relevance |-> test_execution_modify_executions_relevance,
   test_execution_update |-> test_execution_update,
   test_execution_update_2 |-> test_execution_update_2,
   test_execution_update_step |-> test_execution_update_step]
============================================================================
