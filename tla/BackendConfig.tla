--------------------------- MODULE BackendConfig ----------------------------
(***************************************************************************)
(* What the mint backend makes of its environment when it starts           *)
(* (config.py), and whose key its finalize transactions then carry         *)
(* (spark.py with foxar/script/CoreCatsFinalizeMint.s.sol).                *)
(*                                                                         *)
(* The chain's and the network's number, the network's name, the RPC and   *)
(* the explorer are one variable, "network".  Numbers that only have to be *)
(* positive are left out.                                                  *)
(***************************************************************************)
EXTENDS Integers

Empty == ""

IsSet(v) == v # Empty

(* load_config: the deployer's key is the finalizer's only when nothing else is given. *)
FinalizerKey(env) == IF env.finalizerKey # Empty THEN env.finalizerKey
                     ELSE IF env.keystore = Empty THEN env.deployerKey
                     ELSE Empty

(* Mutant of ProductionErrors: the key that load_config ends up with is taken for an explicit one. *)
AnyKeyWillDo(env) ==
    \/ env.network # "mainnet" \/ env.address \in {"devin", "placeholder", Empty}
    \/ /\ env.mode = "mint-active"
       /\ \/ FinalizerKey(env) = Empty /\ (env.keystore = Empty \/ env.password = Empty)
          \/ env.keystore # Empty /\ env.password # Empty /\ env.finalizerAddress = Empty

ProductionErrors(env) ==
    \/ env.network # "mainnet"
    \/ env.address \in {"devin", "placeholder", Empty}
    \/ /\ env.mode = "mint-active"
       /\ \/ env.finalizerKey = Empty /\ (env.keystore = Empty \/ env.password = Empty)
          \/ env.keystore # Empty /\ env.password # Empty /\ env.finalizerAddress = Empty

(* validate_config *)
IsValid(env) ==
    /\ env.mode = "mint-active" =>
          /\ env.secret # Empty
          /\ env.production => env.secret \notin {"placeholder", "dev-only-secret"}
          /\ env.sparkInstalled
    /\ env.keystore # "missing" /\ env.password # "missing"
    /\ IsSet(env.keystore) <=> IsSet(env.password)
    /\ env.finalizerAddress # "short"
    /\ env.production => ~ProductionErrors(env)

(* relay_finalize_mint, run_spark_script and the script's choice between the key  *)
(* and the address it finds in its environment; "" when there is no relay at all. *)
FinalizeSigner(env) ==
    LET exportedKey == IF FinalizerKey(env) # Empty THEN FinalizerKey(env) ELSE env.deployerKey
    IN  IF FinalizerKey(env) = Empty /\ env.keystore = Empty THEN Empty
        ELSE IF exportedKey # Empty THEN exportedKey
        ELSE env.keystore

(* The account a finalize must come from: the operator named it. *)
NamedFinalizers(env) == {env.finalizerKey, env.keystore} \ {Empty}

(* The backend as it then runs.  shadowed says whether a deployer's key lies beside a  *)
(* keystore: run_spark_script exports it and the script prefers it.                    *)
Config(env) == [mode       |-> env.mode,
                production |-> env.production,
                secret     |-> env.secret,
                issuer     |-> IsSet(env.mintSigner),
                signer     |-> FinalizeSigner(env),
                named      |-> NamedFinalizers(env),
                shadowed   |-> /\ env.keystore # Empty /\ env.finalizerKey = Empty
                               /\ env.deployerKey # Empty]

=============================================================================
