------------------------------- MODULE Routes -------------------------------
(***************************************************************************)
(* The server's routes and whom each of them asks for: nobody ("open"),    *)
(* an account of any role ("read"), an ADMIN or EDITOR ("write"), an ADMIN *)
(* ("admin"), or a server that is not in production ("dev").  The server   *)
(* always gives its APIs a database runtime, so every one of them checks   *)
(* sessions.                                                               *)
(***************************************************************************)
EXTENDS TLC

\* build_api, where get_product has no dependency at all.
ProductAccess ==
    [database_readiness |-> "open", create_product |-> "write", list_products |-> "read",
     get_product |-> "open", update_product |-> "write"]

\* build_stage2_api: every route asks for a session; four that write ask for no more.
Stage2Access ==
    [create_customer |-> "write", list_customers |-> "read", get_customer |-> "read",
     update_customer |-> "write", create_po |-> "write", list_pos |-> "read",
     get_po |-> "read", update_po |-> "write", add_line |-> "read", list_lines |-> "read",
     add_delivery |-> "read", list_deliveries |-> "read", update_delivery |-> "read",
     create_run |-> "write", list_runs |-> "read", update_run |-> "read"]

\* build_tracking_api declares the methods ...
TrackingMethod ==
    [mobile |-> "GET", mobile_lan |-> "GET", mobile_vps |-> "GET",
     create_tracking |-> "POST", list_tracking |-> "GET", get_tracking |-> "GET",
     issue_qr |-> "POST", get_qr |-> "GET", reissue_qr |-> "POST", change_date |-> "PATCH",
     new_order |-> "POST", scan |-> "GET", operator |-> "POST", operators |-> "GET",
     machining_type |-> "POST", machining_types |-> "GET", get_pref |-> "GET",
     set_pref |-> "PUT", attempt_display |-> "GET", expand |-> "POST", report |-> "POST",
     history |-> "GET", revise |-> "POST", qc_event |-> "POST", packing_event |-> "POST",
     delivery_event |-> "POST", general_report |-> "POST", workflow_summary |-> "GET",
     combined_history |-> "GET", revise_workflow |-> "POST"]

\* ... and require_tracking_access goes by them; the pages carry the login form.
TrackingAccess ==
    [route \in DOMAIN TrackingMethod |->
        CASE route \in {"mobile", "mobile_lan", "mobile_vps"} -> "open"
          [] TrackingMethod[route] # "GET" -> "write"
          [] OTHER -> "read"]

\* build_files_api: the routes of users ...
FileAccess ==
    [file_readiness |-> "open", upload_image |-> "write", list_images |-> "read",
     upload_attachment |-> "write", list_attachments |-> "read", download_file |-> "read",
     transfer_status |-> "read", set_primary |-> "write", update_relation |-> "write",
     archive_relation |-> "write"]

\* ... and the ones of the transfer queue,
StorageRoutes == {"retry_transfer", "run_once", "purge_local", "get_configuration",
                  "set_configuration", "storage_health"}

\* which all depend on storage_admin.
StorageAccess == [route \in StorageRoutes |-> "admin"]

\* build_admin_api
AdminAccess ==
    [login |-> "open", accounts |-> "admin", create_account |-> "admin",
     update_account |-> "admin", settings |-> "admin", update_settings |-> "admin",
     diagnostics |-> "admin"]

\* The pages and the Excel routes of the application itself.
PortalAccess ==
    [route \in {"index_portal", "server_admin", "redirect_mobile", "live_feed",
                "tunnel_status", "excel_files", "excel_preview", "excel_paste_preview",
                "pwa_manifest", "pwa_sw", "scan_image", "ws_live"} |-> "open"]

\* require_sqlite_legacy_endpoint
LegacyAccess ==
    [route \in {"excel_import", "excel_paste_import", "qr_catalog", "export_excel"} |-> "dev"]

Access ==
    ProductAccess @@ Stage2Access @@ TrackingAccess @@ FileAccess @@ StorageAccess @@
    AdminAccess @@ PortalAccess @@ LegacyAccess

=============================================================================
