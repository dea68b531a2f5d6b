-------------------------- MODULE MCRequestLifecycle --------------------------
(* Small instances of RequestLifecycle. *)
EXTENDS RequestLifecycle, TLC

CONSTANTS u1, u2, health, missing

MCPaths == {u1, u2, health, missing}
MCPattern == u1 :> "/users/{id}" @@ u2 :> "/users/{id}" @@ health :> "/health"

MCPlainPaths == {health}
MCAsked == {"GET"} \X MCPaths \cup {<<"POST", u1>>}

MetricsInLog == <<"logging", "metrics">>

MCErrors == {NoError, APIError(404), Canceled, DeadlineExceeded}
MCHandlerCodes == {404}
MCReplyError == APIError(500)
===============================================================================
