------------------------- MODULE MCOAuthTokenRefresh -------------------------
(* A request and a service on one instance, and a service on another. *)
EXTENDS OAuthTokenRefresh, TLC

CONSTANTS here, there, request, service, other

OnHosts == request :> here @@ service :> here @@ other :> there
===============================================================================
