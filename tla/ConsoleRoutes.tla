----------------------------- MODULE ConsoleRoutes -----------------------------
(***************************************************************************)
(* What the console's proxy lets through and what the console asks for: a  *)
(* path without its prefix /api, its parameters written as names, and a    *)
(* method.                                                                 *)
(***************************************************************************)

ADMIN_ROUTES == UNION {
    {"/dashboard", "/upstream/stability", "/upstream/openai-status", "/users/options",
     "/admin/users", "/users/:id/credit-logs", "/admin/users/consumption-ranking",
     "/api-providers/:id/models", "/recharge/orders", "/invites", "/admin/api-access/keys",
     "/admin/api-access/logs", "/admin/api-access/operations",
     "/admin/api-access/operations/live", "/admin/api-access/operations/ranking",
     "/admin/api-access/operations/trend", "/admin/mail-logs", "/admin/data-export",
     "/admin/image-cleanup/status", "/system-logs", "/system-logs/detail"} \X {"GET"},
    {"/users", "/admin/user-model-prices", "/api-providers", "/models", "/subscriptions/plans",
     "/admin/system-update", "/announcements"} \X {"GET", "POST"},
    {"/users/:id", "/api-providers/:id", "/models/:id", "/subscriptions/plans/:id",
     "/admin/api-access/keys/:id", "/announcements/:id"} \X {"PATCH", "DELETE"},
    {"/admin/upstream-maintenance", "/settings"} \X {"GET", "PATCH"},
    {"/users/:id/balance", "/users/:id/subscription-quota", "/invites/:id/review"} \X {"PATCH"},
    {"/users/:id/verify-email", "/api-providers/:id/test", "/admin/mail-broadcast",
     "/admin/mail-preview", "/tasks/:id/cancel", "/settings/test-bark"} \X {"POST"},
    {"/users/:id/subscription"} \X {"POST", "DELETE"},
    {"/admin/user-model-prices/:id", "/system-logs/:name"} \X {"DELETE"} }

\* isAllowed: a rule with the pattern of the path that lists the method.
AllowedUnlessDeleting(call) == call \in ADMIN_ROUTES /\ call[2] # "DELETE"
Allowed(call) == call \in ADMIN_ROUTES

\* The functions of portalApi.
ConsoleReads ==
    {"/dashboard", "/upstream/stability", "/upstream/openai-status",
     "/admin/upstream-maintenance", "/users", "/users/options", "/admin/users",
     "/users/:id/credit-logs", "/admin/users/consumption-ranking", "/admin/user-model-prices",
     "/api-providers", "/api-providers/:id/models", "/models", "/subscriptions/plans",
     "/recharge/orders", "/admin/api-access/keys", "/admin/api-access/logs",
     "/admin/api-access/operations", "/admin/api-access/operations/live",
     "/admin/api-access/operations/ranking", "/admin/api-access/operations/trend",
     "/admin/mail-logs", "/announcements", "/invites", "/settings", "/admin/system-update",
     "/admin/data-export", "/system-logs", "/system-logs/detail",
     "/admin/image-cleanup/status"} \X {"GET"}
ConsoleWrites == UNION {
    {"/users", "/admin/user-model-prices", "/users/:id/verify-email",
     "/users/:id/subscription", "/api-providers", "/api-providers/:id/test", "/models",
     "/subscriptions/plans", "/admin/mail-broadcast", "/admin/mail-preview",
     "/announcements", "/tasks/:id/cancel", "/settings/test-bark",
     "/admin/system-update"} \X {"POST"},
    {"/admin/upstream-maintenance", "/users/:id", "/users/:id/balance",
     "/users/:id/subscription-quota", "/api-providers/:id", "/models/:id",
     "/subscriptions/plans/:id", "/admin/api-access/keys/:id", "/announcements/:id",
     "/invites/:id/review", "/settings"} \X {"PATCH"},
    {"/users/:id", "/admin/users", "/admin/user-model-prices/:id", "/users/:id/subscription",
     "/api-providers/:id", "/models/:id", "/subscriptions/plans/:id",
     "/admin/api-access/keys/:id", "/announcements/:id", "/system-logs/:name"} \X {"DELETE"} }
ConsoleCalls == ConsoleReads \union ConsoleWrites
=============================================================================
