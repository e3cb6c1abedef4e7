--------------------------- MODULE MCMintService ----------------------------
(* The example environments of the repository with real values filled in, and *)
(* the values an edit may give each variable.                                 *)
EXTENDS MintService, TLC

CONSTANTS r1, r2
MCRequests == {r1, r2}
MCSymmetry == Permutations(MCRequests)

(* web/.env.private-canary.example *)
Canary == [launch |-> "canary", launchFallback |-> "", surface |-> "private-canary", surfaceFallback |-> "",
           site |-> "site", browse |-> "browse", mintOnly |-> TRUE, network |-> "mainnet", mode |-> "proxy",
           backend |-> "", internal |-> "loopback", secret |-> "real", address |-> "real", allowed |-> "",
           expectedCore |-> FALSE, keys |-> FALSE]

(* web/.env.production.example, before and after the secret is removed for the sold-out host *)
PublicMint == [Canary EXCEPT !.launch = "public", !.surface = "public-mint", !.site = "official",
                             !.backend = "backend", !.internal = ""]
SoldOut    == [PublicMint EXCEPT !.secret = ""]

(* the canary after its secret was changed; web-public-teaser's environment *)
Rotated == [Canary EXCEPT !.secret = "rotated"]
Teaser  == [Canary EXCEPT !.launch = "closed", !.surface = "public-teaser", !.mintOnly = FALSE, !.mode = "",
                          !.internal = "", !.secret = ""]

(* a canary whose surface and mode were left to their defaults, under the older name of the first *)
Defaults == [Canary EXCEPT !.surface = "", !.surfaceFallback = "private-canary", !.mode = "", !.secret = ""]

MCTemplates == {Canary, PublicMint, SoldOut, Rotated, Teaser, Defaults}

Urls == {"", "official", "site", "browse", "backend", "placeholder", "brokenHttps", "http", "loopback", "httpsLoopback"}
MCEnvValues ==
    [launch |-> {"", "closed", "canary", "public", "public ", "other"}, launchFallback |-> {"canary", "public"},
     surface |-> {"", "public-teaser", "private-canary", "public-mint", "public-mint ", "other"},
     surfaceFallback |-> {"private-canary", "public-mint"},
     site |-> Urls \cup {"zeta"}, browse |-> Urls, mintOnly |-> BOOLEAN, network |-> {"", "devin", "mainnet"},
     mode |-> {"", "proxy", "proxy ", "local"}, backend |-> {"", "backend", "http", "placeholder"},
     internal |-> {"", "loopback", "httpsLoopback", "site"}, secret |-> {"", "real", "placeholder", "dev-only-secret"},
     address |-> {"", "devin", "devin0x", "real", "malformed", "placeholder"},
     allowed |-> {"", "wellFormed", "malformed"}, expectedCore |-> BOOLEAN, keys |-> BOOLEAN]

---------------------------------------------------------------------------
(* mint-backend/systemd/corecats-mint-backend.env.example: read-only; and mint-active with *)
(* a key, with a keystore, and with the secret changed.                                    *)
ReadOnly == [production |-> TRUE, mode |-> "read-only", secret |-> "", network |-> "mainnet", address |-> "real",
             mintSigner |-> "", deployerKey |-> "", finalizerKey |-> "", keystore |-> "keystore", password |-> "file",
             finalizerAddress |-> "address", sparkInstalled |-> TRUE]
WithKeystore == [ReadOnly EXCEPT !.mode = "mint-active", !.secret = "real"]
WithKey == [WithKeystore EXCEPT !.keystore = "", !.password = "", !.mintSigner = "signer",
                                  !.deployerKey = "deployer", !.finalizerKey = "finalizer"]
WithNewSecret == [WithKeystore EXCEPT !.secret = "rotated"]

BackendValues ==
    [production |-> BOOLEAN, secret |-> {"", "placeholder"}, network |-> {"devin"},
     address |-> {"devin", "placeholder"}, deployerKey |-> {"", "deployer"}, finalizerKey |-> {"", "finalizer"},
     keystore |-> {"", "missing"}, password |-> {"", "missing"}, finalizerAddress |-> {"", "short"},
     sparkInstalled |-> {FALSE}]

MCBackendEnvs ==
    LET edited(env) == {env} \cup UNION {{[env EXCEPT ![f] = v] : v \in BackendValues[f]} : f \in DOMAIN BackendValues}
    IN  {ReadOnly} \cup edited(WithKeystore) \cup edited(WithKey) \cup {WithNewSecret}

=============================================================================
