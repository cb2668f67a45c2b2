------------------------------ MODULE MCAccess ------------------------------
(***************************************************************************)
(* Access for TLC: the provider rotates its key from k1 to k2; a token of  *)
(* the newer key, one without a kid that no key signed, and a refresh      *)
(* token.                                                                  *)
(***************************************************************************)
EXTENDS Access

MCPublished == <<{"k1"}, {"k2"}>>

MCSignedBy == [t \in Tokens |-> CASE t = "a2" -> "k2" [] t = "f" -> "s" [] OTHER -> NoKid]
MCNamedKid == MCSignedBy

MCPolicy ==
    [scopes |-> {"user"}, roles |-> {}, adminScope |-> "admin", adminRole |-> "admin",
     tenantClaim |-> FALSE, tenantMatch |-> TRUE, routesParsed |-> TRUE, claims |-> {},
     routes |-> {[paths |-> {"/blog"}, allScopes |-> {}, anyScopes |-> {"user", "admin"},
                  allRoles |-> {}, anyRoles |-> {}, subjects |-> {}, tenantMatch |-> FALSE]},
     issuer |-> "krab.auth", audience |-> "krab.services", providerClaims |-> {}]
MCClaims ==
    [t \in Tokens |->
        [scopes |-> {"user"}, roles |-> {"user"}, tenant |-> "t1", sub |-> "alice",
         iss |-> "krab.auth", aud |-> {"krab.services"}, claims |-> {},
         path |-> "/blog", pathTenant |-> NoTenant, adminPath |-> FALSE]]
=============================================================================
