------------------------------- MODULE WebEnv -------------------------------
(***************************************************************************)
(* What the web server makes of its environment (core-env.js), and what    *)
(* the production check says of the same environment before it is deployed *)
(* (check-production-env-lib.mjs).  The two share no code.                 *)
(*                                                                         *)
(* A variable's value is one of the cases that either program tells apart; *)
(* Unset is a variable that is missing or empty.  Numbers of chain and     *)
(* network and the network's name are one variable, "network".             *)
(***************************************************************************)
EXTENDS Integers

Unset == ""

(* White space at the end, as a value piped into a deployment tool often has. *)
Trim(v) == CASE v = "public "      -> "public"
             [] v = "public-mint " -> "public-mint"
             [] v = "proxy "       -> "proxy"
             [] OTHER              -> v

Or(a, b) == IF a = Unset THEN b ELSE a

---------------------------------------------------------------------------
(* URLs and addresses *)

Https       == {"official", "zeta", "site", "browse", "backend", "placeholder", "brokenHttps", "httpsLoopback"}
Official    == {"official", "zeta"}
IsHttps(u)  == u \in Https
Loopback(u) == u \in {"loopback", "httpsLoopback"}
Parses(u)   == u \notin {Unset, "brokenHttps", "garbage"}
IsPlaceholder(v) == v = "placeholder"

(* getSiteBaseUrlConfigError *)
SiteUrlIsWrong(u) == \/ u = Unset \/ IsPlaceholder(u) \/ ~Parses(u)
                     \/ ~Loopback(u) /\ ~IsHttps(u)

(* Mutant of AddressKeys: an address is compared as it is written. *)
AddressesAsWritten == [devin |-> "rehearsal", devin0x |-> "rehearsal0x", real |-> "mainnet"]

(* normalizeCoreAddressKey: the forms it takes, and the account they name. *)
AddressKeys == [devin |-> "rehearsal", devin0x |-> "rehearsal", real |-> "mainnet"]
IsCoreAddress(a) == a \in DOMAIN AddressKeys

---------------------------------------------------------------------------
(* core-env.js *)

LaunchState(v) == IF v \in {"closed", "canary", "public"} THEN v ELSE "closed"

(* Mutant of SiteSurface: a value nobody knows is kept as it is. *)
SurfaceAsGiven(v, launchState) == IF v = Unset THEN "public-teaser" ELSE v

SiteSurface(v, launchState) ==
    IF v \in {"public-teaser", "private-canary", "public-mint"} THEN v
    ELSE CASE launchState = "public" -> "public-mint"
           [] launchState = "closed" -> "public-teaser"
           [] OTHER                  -> "private-canary"

BackendMode(v) == IF v \in {"proxy", "local"} THEN v ELSE "local"

(* getCoreServerEnv.  On an official mint host most of the environment is overruled. *)
ServerEnv(env) ==
    LET launch   == LaunchState(Or(env.launch, Or(env.launchFallback, "closed")))
        surface  == SiteSurface(Or(env.surface, Or(env.surfaceFallback, "public-teaser")), launch)
        official == env.site \in Official
    IN  [launchState  |-> IF official /\ launch = "canary" THEN "public" ELSE launch,
         siteSurface  |-> IF official THEN "public-mint" ELSE surface,
         siteBaseUrl  |-> env.site,
         browseBaseUrl |-> IF official THEN "browse" ELSE env.browse,
         mintOnlyHost |-> official \/ env.mintOnly,
         network      |-> IF official THEN "mainnet" ELSE Or(env.network, "devin"),
         backendMode  |-> BackendMode(Or(env.mode, "local")),
         backendBaseUrl |-> env.backend,
         internalBackendBaseUrl |-> env.internal,
         backendSharedSecret    |-> env.secret,
         coreCatsAddress |-> IF official THEN "real" ELSE Or(env.address, "devin")]

(* parseCanaryAllowedCoreIds throws, and with it every request that asks for the environment. *)
EnvIsReadable(env) == env.allowed # "malformed"

(* isMintSurfaceEnabled *)
MintSurfaceEnabled(s) == s.launchState # "closed" /\ s.siteSurface \in {"private-canary", "public-mint"}

SoldOutHost(launchState, siteSurface) == launchState = "public" /\ siteSurface = "public-mint"

(* getMintRuntimeConfigErrors finds nothing. *)
MintRuntimeReady(s) ==
    LET proxy    == s.backendMode = "proxy"
        secretRequired == proxy /\ ~SoldOutHost(s.launchState, s.siteSurface)
    IN  MintSurfaceEnabled(s) =>
            /\ ~SiteUrlIsWrong(s.siteBaseUrl)
            /\ s.mintOnlyHost => ~SiteUrlIsWrong(s.browseBaseUrl) /\ s.siteBaseUrl # s.browseBaseUrl
            /\ IsCoreAddress(s.coreCatsAddress) /\ AddressKeys[s.coreCatsAddress] # AddressKeys["devin"]
            /\ Loopback(s.siteBaseUrl) \/ proxy
            /\ proxy => IF s.backendBaseUrl = Unset THEN s.internalBackendBaseUrl # Unset
                        ELSE ~IsPlaceholder(s.backendBaseUrl) /\ IsHttps(s.backendBaseUrl)
            /\ proxy /\ s.internalBackendBaseUrl # Unset => Loopback(s.internalBackendBaseUrl)
            /\ secretRequired => s.backendSharedSecret \notin {Unset, "placeholder", "dev-only-secret"}

---------------------------------------------------------------------------
(* check-production-env-lib.mjs: what it refuses. *)

(* Mutant of CheckedSurfaceEnabled: every surface that is not the teaser has the mint. *)
AnythingButTheTeaser(env) == Trim(env.launch) # "closed" /\ Trim(env.surface) # "public-teaser"

CheckedSurfaceEnabled(env) == Trim(env.launch) # "closed" /\ Trim(env.surface) \in {"private-canary", "public-mint"}

BackendRefused(env) ==
    \/ env.backend = Unset /\ (env.internal = Unset \/ Trim(env.surface) = "public-mint")
    \/ env.backend # Unset /\ (IsPlaceholder(env.backend) \/ ~IsHttps(env.backend))
    \/ env.internal # Unset /\ ~Loopback(env.internal)

(* Mutant of SecretRefused: only a missing secret is noticed. *)
OnlyMissingRefused(env) ==
    Trim(env.mode) = "proxy" /\ ~SoldOutHost(Trim(env.launch), Trim(env.surface)) /\ env.secret = Unset

SecretRefused(env) ==
    /\ Trim(env.mode) = "proxy" /\ ~SoldOutHost(Trim(env.launch), Trim(env.surface))
    /\ env.secret \in {Unset, "placeholder", "dev-only-secret"}

MintSurfaceRefused(env) ==
    \/ env.site = Unset \/ ~IsHttps(env.site)
    \/ Trim(env.mode) # "proxy"
    \/ BackendRefused(env) \/ SecretRefused(env)

BrowseSurfaceRefused(env) ==
    \/ env.site # Unset /\ ~IsHttps(env.site)
    \/ env.backend # Unset /\ ~IsHttps(env.backend)
    \/ env.internal # Unset /\ ~Loopback(env.internal)

MintOnlyRefused(env) ==
    env.mintOnly /\ (env.browse = Unset \/ ~IsHttps(env.browse) \/ (env.site # Unset /\ env.browse = env.site))

AddressRefused(env) ==
    \/ env.address \in {Unset, "devin"}
    \/ Trim(env.launch) # "closed" /\ IsPlaceholder(env.address)

(* validateProductionEnv *)
PassesCheck(env) ==
    /\ Trim(env.launch) \in {"closed", "canary", "public"}
    /\ Trim(env.surface) \in {Unset, "public-teaser", "private-canary", "public-mint"}
    /\ env.network = "mainnet"
    /\ ~(IF CheckedSurfaceEnabled(env) THEN MintSurfaceRefused(env) ELSE BrowseSurfaceRefused(env))
    /\ ~MintOnlyRefused(env) /\ ~AddressRefused(env)
    /\ env.expectedCore => Trim(env.launch) = "closed"
    /\ Trim(env.launch) = "public" => Trim(env.surface) \in {Unset, "public-mint"}
    /\ ~env.keys

=============================================================================
