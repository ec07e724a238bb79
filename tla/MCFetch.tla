-------------------------------- MODULE MCFetch --------------------------------
(* Two fetches over two hosts that can be locked, one of them with two      *)
(* origins, and a denied one: redirects lead from either lock to the other. *)
EXTENDS Fetch

MCFetches == {"f1", "f2"}
MCOrigins == {"http", "https", "mirror", "local"}
MCHost(o) == CASE o = "local" -> "localhost" [] o = "mirror" -> "mirror" [] OTHER -> "example"
MCDenied == {"localhost"}
=============================================================================
