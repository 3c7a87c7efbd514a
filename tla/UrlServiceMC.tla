---------------------------- MODULE UrlServiceMC ----------------------------
(***************************************************************************)
(* Small instances of UrlService: one for the cache, one for the quota.    *)
(***************************************************************************)
EXTENDS UrlService, TLC

CONSTANTS c1, c2, p1, p2, p3, v1, v2, u1, u2, ann, bob, ip

\* Two anonymous requests for the same alias c1; two visitors.
CacheKey == p1 :> ip @@ p2 :> ip
CacheAlias == p1 :> c1 @@ p2 :> c1
CacheLimit == ip :> 2

\* ann shortens twice, once with an alias that bob's claim races; an anonymous
\* request makes a link for both to claim.
QuotaKey == p1 :> ann @@ p2 :> ann @@ p3 :> ip @@ u1 :> ann @@ u2 :> bob
QuotaAlias == p1 :> NoCode @@ p2 :> c1 @@ p3 :> NoCode
QuotaLimit == ann :> 1 @@ bob :> 1 @@ ip :> 1
=============================================================================
