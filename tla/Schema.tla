------------------------------- MODULE Schema -------------------------------
(***************************************************************************)
(* The database schema: what the revisions of migrations/versions make, in *)
(* the order of the chain, and what the ORM classes of the application     *)
(* declare.                                                                *)
(*                                                                         *)
(* An item is a table, or a column that a revision adds to a table of an   *)
(* earlier one.  Kept of a table are the other tables its foreign keys     *)
(* refer to and its unique keys, the constraints the handlers rely on.     *)
(***************************************************************************)
EXTENDS Sequences

Table(name, parents, keys) ==
    [id |-> <<name>>, needs |-> {<<p>> : p \in parents}, keys |-> keys]

AddedColumn(table, name, parents) ==
    [id |-> <<table, name>>, needs |-> {<<p>> : p \in {table} \cup parents}, keys |-> {}]

\* The statements of a revision: the item one makes, and what the rows get
\* that do not give an added column a value.
CreateTable(name, parents, keys) == [makes |-> Table(name, parents, keys), fill |-> "NEW_TABLE"]

AddColumn(table, name, parents, fill) == [makes |-> AddedColumn(table, name, parents), fill |-> fill]
-----------------------------------------------------------------------------
(* migrations/versions.                                                    *)

Rev0001 == <<
    CreateTable("auth_users", {}, {{"email"}, {"login_id"}}),
    CreateTable("auth_audit_logs", {"auth_users"}, {})>>

Rev0002 == <<
    AddColumn("auth_users", "token_version", {}, "SERVER_DEFAULT")>>

Rev0003 == <<
    CreateTable("audit_events", {"auth_users"}, {}),
    CreateTable("activity_events", {"auth_users"}, {})>>

Rev0004 == <<
    CreateTable("firm_memberships", {"auth_users"}, {{"user_id", "firm_code"}}),
    CreateTable("portfolio_access_grants", {"auth_users"}, {{"user_id", "portfolio_key"}}),
    CreateTable("engagement_access_grants", {"auth_users"}, {{"user_id", "engagement_key"}}),
    CreateTable("confidentiality_grants", {"auth_users"},
                {{"user_id", "resource_type", "resource_id"}}),
    CreateTable("delegated_access", {"auth_users"}, {})>>

Rev0005 == <<
    CreateTable("workflow_definitions", {"auth_users"}, {{"code", "version"}}),
    CreateTable("workflow_states", {"workflow_definitions"},
                {{"workflow_definition_id", "code"}}),
    CreateTable("workflow_transitions", {"workflow_definitions"},
                {{"workflow_definition_id", "code"}}),
    CreateTable("workflow_instances", {"workflow_definitions"},
                {{"resource_type", "resource_id"}}),
    CreateTable("workflow_actions", {"workflow_instances", "auth_users"}, {}),
    CreateTable("record_locks", {"auth_users"}, {{"resource_type", "resource_id"}})>>

Rev0006 == <<
    CreateTable("clients", {"auth_users"}, {{"client_code"}}),
    CreateTable("client_contacts", {"clients"}, {}),
    CreateTable("client_addresses", {"clients"}, {}),
    CreateTable("client_identifiers", {"clients"},
                {{"identifier_type", "normalized_value"}, {"client_id", "identifier_type"}}),
    CreateTable("client_directors", {"clients"}, {}),
    CreateTable("client_shareholders", {"clients"}, {}),
    CreateTable("client_relationships", {"clients"},
                {{"source_client_id", "target_client_id", "relationship_type"}}),
    CreateTable("client_status_history", {"clients", "auth_users"}, {})>>

Rev0007 == <<
    CreateTable("client_conflict_checks", {"clients", "auth_users"}, {}),
    CreateTable("client_risk_profiles", {"clients", "auth_users"}, {{"client_id"}}),
    CreateTable("client_services", {"clients", "auth_users"}, {{"client_id", "service_code"}}),
    CreateTable("client_portfolio_ownership", {"clients", "auth_users"}, {{"client_id"}}),
    CreateTable("client_archive_events", {"clients", "auth_users"}, {})>>

Rev0008 == <<
    CreateTable("departments", {}, {{"code"}, {"name"}}),
    CreateTable("designations", {"departments"}, {{"code"}, {"department_id", "name"}}),
    CreateTable("staff_profiles", {"auth_users", "departments", "designations"},
                {{"staff_code"}, {"auth_user_id"}}),
    CreateTable("staff_skills", {"staff_profiles"}, {{"staff_id", "skill_code"}})>>

Rev0009 == <<
    CreateTable("attendance_records", {"staff_profiles", "auth_users"},
                {{"staff_id", "work_date"}}),
    CreateTable("leave_records", {"staff_profiles", "auth_users"},
                {{"staff_id", "leave_date", "leave_type"}}),
    CreateTable("capacity_assignments", {"staff_profiles", "auth_users"},
                {{"staff_id", "work_date", "source_type", "source_id"}}),
    CreateTable("staff_worklogs", {"staff_profiles", "auth_users"}, {})>>

Rev0010 == <<
    CreateTable("engagement_number_sequences", {}, {{"year"}}),
    CreateTable("engagements", {"clients", "auth_users"}, {{"engagement_code"}}),
    CreateTable("engagement_team_members", {"engagements", "staff_profiles", "auth_users"},
                {{"engagement_id", "staff_id"}})>>

Rev0011 == <<
    CreateTable("engagement_templates", {"auth_users"}, {{"code"}}),
    CreateTable("engagement_template_tasks", {"engagement_templates"},
                {{"template_id", "task_code"}}),
    CreateTable("engagement_template_documents", {"engagement_templates"},
                {{"template_id", "document_code"}}),
    CreateTable("engagement_generated_tasks", {"engagements", "engagement_template_tasks"},
                {{"engagement_id", "template_task_id"}}),
    CreateTable("engagement_required_documents", {"engagements", "engagement_template_documents"},
                {{"engagement_id", "template_document_id"}})>>

Rev0012 == <<
    AddColumn("engagement_generated_tasks", "parent_task_id", {"engagement_generated_tasks"},
              "NULL"),
    AddColumn("engagement_generated_tasks", "assignee_staff_id", {"staff_profiles"}, "NULL"),
    AddColumn("engagement_generated_tasks", "reviewer_staff_id", {"staff_profiles"}, "NULL"),
    AddColumn("engagement_generated_tasks", "weight_points", {}, "SERVER_DEFAULT"),
    AddColumn("engagement_generated_tasks", "progress_percent", {}, "SERVER_DEFAULT"),
    AddColumn("engagement_generated_tasks", "escalation_state", {}, "SERVER_DEFAULT"),
    AddColumn("engagement_generated_tasks", "version", {}, "SERVER_DEFAULT"),
    AddColumn("engagement_generated_tasks", "started_at", {}, "NULL"),
    AddColumn("engagement_generated_tasks", "completed_at", {}, "NULL"),
    AddColumn("engagement_generated_tasks", "escalated_at", {}, "NULL"),
    AddColumn("engagement_generated_tasks", "updated_at", {}, "SERVER_DEFAULT"),
    CreateTable("engagement_task_dependencies", {"engagements", "engagement_generated_tasks", "auth_users"},
                {{"task_id", "depends_on_task_id"}}),
    CreateTable("engagement_task_status_history", {"engagement_generated_tasks",
                "auth_users"}, {})>>

Rev0013 == <<
    CreateTable("engagement_review_actions", {"engagements", "auth_users"}, {})>>

Rev0014 == <<
    CreateTable("documents", {"auth_users"}, {{"document_code"}}),
    CreateTable("document_versions", {"documents", "auth_users"},
                {{"document_id", "version_number"}}),
    CreateTable("document_access_logs", {"documents", "document_versions", "auth_users"}, {})>>

Rev0015 == <<
    CreateTable("working_papers", {"engagements", "auth_users"},
                {{"engagement_id", "paper_code"}}),
    CreateTable("working_paper_evidence", {"working_papers", "documents", "document_versions", "auth_users"},
                {{"working_paper_id", "document_version_id"}}),
    CreateTable("working_paper_review_notes", {"working_papers", "auth_users"}, {}),
    CreateTable("working_paper_signoffs", {"working_papers", "auth_users"}, {})>>

Rev0016 == <<
    CreateTable("audit_acceptance", {"engagements", "auth_users"}, {{"engagement_id"}}),
    CreateTable("audit_independence_declarations", {"engagements", "staff_profiles", "auth_users"},
                {{"engagement_id", "staff_id"}}),
    CreateTable("audit_materiality", {"engagements", "auth_users"}, {{"engagement_id"}}),
    CreateTable("audit_risks", {"engagements", "auth_users"}, {}),
    CreateTable("audit_risk_procedures", {"audit_risks", "working_papers"},
                {{"risk_id", "working_paper_id"}})>>

Rev0017 == <<
    CreateTable("audit_requisitions", {"engagements", "auth_users"},
                {{"engagement_id", "requisition_code"}}),
    CreateTable("audit_tests", {"engagements", "audit_risks", "working_papers", "auth_users"},
                {{"engagement_id", "test_code"}}),
    CreateTable("audit_issues", {"engagements", "audit_risks", "auth_users"},
                {{"engagement_id", "issue_code"}}),
    CreateTable("audit_completion", {"engagements", "auth_users"}, {{"engagement_id"}}),
    CreateTable("audit_completion_actions", {"engagements", "auth_users"}, {})>>

Rev0018 == <<
    CreateTable("finance_invoices", {"engagements", "auth_users"}, {{"invoice_number"}}),
    CreateTable("finance_receipts", {"finance_invoices", "auth_users"}, {{"receipt_number"}}),
    CreateTable("engagement_expenses", {"engagements", "auth_users"}, {}),
    CreateTable("finance_actions", {"engagements", "auth_users"}, {})>>

\* Mutant: two backups may be registered under one reference.
Rev0019Unkeyed == <<
    CreateTable("notification_events", {"auth_users"}, {}),
    CreateTable("backup_verifications", {"auth_users"}, {}),
    CreateTable("production_readiness_checks", {"auth_users"}, {{"check_key"}})>>

Rev0019 == <<
    CreateTable("notification_events", {"auth_users"}, {}),
    CreateTable("backup_verifications", {"auth_users"}, {{"backup_reference"}}),
    CreateTable("production_readiness_checks", {"auth_users"}, {{"check_key"}})>>

Chain == <<Rev0001, Rev0002, Rev0003, Rev0004, Rev0005, Rev0006, Rev0007, Rev0008,
           Rev0009, Rev0010, Rev0011, Rev0012, Rev0013, Rev0014, Rev0015, Rev0016,
           Rev0017, Rev0018, Rev0019>>
-----------------------------------------------------------------------------
(* The ORM classes.                                                        *)

AuditExecutionModels == {
    Table("audit_requisitions", {"engagements", "auth_users"},
          {{"engagement_id", "requisition_code"}}),
    Table("audit_tests", {"engagements", "audit_risks", "working_papers", "auth_users"},
          {{"engagement_id", "test_code"}}),
    Table("audit_issues", {"engagements", "audit_risks", "auth_users"},
          {{"engagement_id", "issue_code"}}),
    Table("audit_completion", {"engagements", "auth_users"}, {{"engagement_id"}}),
    Table("audit_completion_actions", {"engagements", "auth_users"}, {})}

AuditModels == {
    Table("audit_acceptance", {"engagements", "auth_users"}, {{"engagement_id"}}),
    Table("audit_independence_declarations", {"engagements", "staff_profiles", "auth_users"},
          {{"engagement_id", "staff_id"}}),
    Table("audit_materiality", {"engagements", "auth_users"}, {{"engagement_id"}}),
    Table("audit_risks", {"engagements", "auth_users"}, {}),
    Table("audit_risk_procedures", {"audit_risks", "working_papers"},
          {{"risk_id", "working_paper_id"}})}

ClientLifecycleModels == {
    Table("client_conflict_checks", {"clients", "auth_users"}, {}),
    Table("client_risk_profiles", {"clients", "auth_users"}, {{"client_id"}}),
    Table("client_services", {"clients", "auth_users"}, {{"client_id", "service_code"}}),
    Table("client_portfolio_ownership", {"clients", "auth_users"}, {{"client_id"}}),
    Table("client_archive_events", {"clients", "auth_users"}, {})}

ClientModels == {
    Table("clients", {"auth_users"}, {{"client_code"}}),
    Table("client_contacts", {"clients"}, {}),
    Table("client_addresses", {"clients"}, {}),
    Table("client_identifiers", {"clients"},
          {{"identifier_type", "normalized_value"}, {"client_id", "identifier_type"}}),
    Table("client_directors", {"clients"}, {}),
    Table("client_shareholders", {"clients"}, {}),
    Table("client_relationships", {"clients"},
          {{"source_client_id", "target_client_id", "relationship_type"}}),
    Table("client_status_history", {"clients", "auth_users"}, {})}

DocumentModels == {
    Table("documents", {"auth_users"}, {{"document_code"}}),
    Table("document_versions", {"documents", "auth_users"}, {{"document_id", "version_number"}}),
    Table("document_access_logs", {"documents", "document_versions", "auth_users"}, {})}

EngagementClosureModels == {
    Table("engagement_review_actions", {"engagements", "auth_users"}, {})}

EngagementModels == {
    Table("engagement_number_sequences", {}, {{"year"}}),
    Table("engagements", {"clients", "auth_users"}, {{"engagement_code"}}),
    Table("engagement_team_members", {"engagements", "staff_profiles", "auth_users"},
          {{"engagement_id", "staff_id"}})}

EngagementTemplateModels == {
    Table("engagement_templates", {"auth_users"}, {{"code"}}),
    Table("engagement_template_tasks", {"engagement_templates"}, {{"template_id", "task_code"}}),
    Table("engagement_template_documents", {"engagement_templates"},
          {{"template_id", "document_code"}}),
    Table("engagement_generated_tasks", {"engagements", "engagement_template_tasks"},
          {{"engagement_id", "template_task_id"}}),
    AddedColumn("engagement_generated_tasks", "parent_task_id", {"engagement_generated_tasks"}),
    AddedColumn("engagement_generated_tasks", "assignee_staff_id", {"staff_profiles"}),
    AddedColumn("engagement_generated_tasks", "reviewer_staff_id", {"staff_profiles"}),
    AddedColumn("engagement_generated_tasks", "weight_points", {}),
    AddedColumn("engagement_generated_tasks", "progress_percent", {}),
    AddedColumn("engagement_generated_tasks", "escalation_state", {}),
    AddedColumn("engagement_generated_tasks", "version", {}),
    AddedColumn("engagement_generated_tasks", "started_at", {}),
    AddedColumn("engagement_generated_tasks", "completed_at", {}),
    AddedColumn("engagement_generated_tasks", "escalated_at", {}),
    AddedColumn("engagement_generated_tasks", "updated_at", {}),
    Table("engagement_task_dependencies", {"engagements", "engagement_generated_tasks", "auth_users"},
          {{"task_id", "depends_on_task_id"}}),
    Table("engagement_task_status_history", {"engagement_generated_tasks", "auth_users"}, {}),
    Table("engagement_required_documents", {"engagements", "engagement_template_documents"},
          {{"engagement_id", "template_document_id"}})}

FinanceModels == {
    Table("finance_invoices", {"engagements", "auth_users"}, {{"invoice_number"}}),
    Table("finance_receipts", {"finance_invoices", "auth_users"}, {{"receipt_number"}}),
    Table("engagement_expenses", {"engagements", "auth_users"}, {}),
    Table("finance_actions", {"engagements", "auth_users"}, {})}

AuthModels == {
    Table("auth_users", {}, {{"login_id"}, {"email"}}),
    AddedColumn("auth_users", "token_version", {}),
    Table("auth_audit_logs", {"auth_users"}, {}),
    Table("audit_events", {"auth_users"}, {}),
    Table("activity_events", {"auth_users"}, {}),
    Table("firm_memberships", {"auth_users"}, {{"user_id", "firm_code"}}),
    Table("portfolio_access_grants", {"auth_users"}, {{"user_id", "portfolio_key"}}),
    Table("engagement_access_grants", {"auth_users"}, {{"user_id", "engagement_key"}}),
    Table("confidentiality_grants", {"auth_users"},
          {{"user_id", "resource_type", "resource_id"}}),
    Table("delegated_access", {"auth_users"}, {})}

OperationsModels == {
    Table("notification_events", {"auth_users"}, {}),
    Table("backup_verifications", {"auth_users"}, {{"backup_reference"}}),
    Table("production_readiness_checks", {"auth_users"}, {{"check_key"}})}

StaffModels == {
    Table("departments", {}, {{"code"}, {"name"}}),
    Table("designations", {"departments"}, {{"department_id", "name"}, {"code"}}),
    Table("staff_profiles", {"auth_users", "departments", "designations"},
          {{"staff_code"}, {"auth_user_id"}}),
    Table("staff_skills", {"staff_profiles"}, {{"staff_id", "skill_code"}})}

WorkflowModels == {
    Table("workflow_definitions", {"auth_users"}, {{"code", "version"}}),
    Table("workflow_states", {"workflow_definitions"}, {{"workflow_definition_id", "code"}}),
    Table("workflow_transitions", {"workflow_definitions"}, {{"workflow_definition_id", "code"}}),
    Table("workflow_instances", {"workflow_definitions"}, {{"resource_type", "resource_id"}}),
    Table("workflow_actions", {"workflow_instances", "auth_users"}, {}),
    Table("record_locks", {"auth_users"}, {{"resource_type", "resource_id"}})}

WorkforceModels == {
    Table("attendance_records", {"staff_profiles", "auth_users"}, {{"staff_id", "work_date"}}),
    Table("leave_records", {"staff_profiles", "auth_users"},
          {{"staff_id", "leave_date", "leave_type"}}),
    Table("capacity_assignments", {"staff_profiles", "auth_users"},
          {{"staff_id", "work_date", "source_type", "source_id"}}),
    Table("staff_worklogs", {"staff_profiles", "auth_users"}, {})}

WorkingPaperModels == {
    Table("working_papers", {"engagements", "auth_users"}, {{"engagement_id", "paper_code"}}),
    Table("working_paper_evidence", {"working_papers", "documents", "document_versions", "auth_users"},
          {{"working_paper_id", "document_version_id"}}),
    Table("working_paper_review_notes", {"working_papers", "auth_users"}, {}),
    Table("working_paper_signoffs", {"working_papers", "auth_users"}, {})}

\* What the image of this commit imports before it serves.
DeclaredItems ==
    AuditExecutionModels \cup AuditModels \cup ClientLifecycleModels \cup
    ClientModels \cup DocumentModels \cup EngagementClosureModels \cup
    EngagementModels \cup EngagementTemplateModels \cup FinanceModels \cup
    AuthModels \cup OperationsModels \cup StaffModels \cup
    WorkflowModels \cup WorkforceModels \cup WorkingPaperModels
=============================================================================
