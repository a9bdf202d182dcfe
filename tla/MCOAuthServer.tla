--------------------------- MODULE MCOAuthServer ---------------------------
(* OAuthServer with the constants its configuration gives.                 *)
EXTENDS OAuthServer
=============================================================================
