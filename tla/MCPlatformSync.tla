--------------------------- MODULE MCPlatformSync ---------------------------
(***************************************************************************)
(* One representative for each kind of consumer file.  Only the Helm values *)
(* files (and manifests/gokapi.yaml, keycloak.yaml) are the target of two  *)
(* passes: helm patches their image tags, domain their host names.         *)
(***************************************************************************)
EXTENDS PlatformSync

CONSTANTS
    compose, dockerfile, values, k3dconfig, envexample, defaults, caddyfile,
    onboarding, devcaddy, manifest

MCFile == {compose, dockerfile, values, k3dconfig, envexample, defaults,
           caddyfile, onboarding, devcaddy, manifest}

MCTargets ==
    [compose |-> {compose}, dockerfile |-> {dockerfile}, helm |-> {values},
     k3d |-> {k3dconfig}, env |-> {envexample}, test_defaults |-> {defaults},
     domain |-> {values, caddyfile}, onboarding |-> {onboarding},
     dev_caddy |-> {devcaddy}, portal |-> {manifest}]

\* The tags helm writes are the only slots a later pass writes back.
ASSUME RepositoryHasNoChains == NoChains

\* A smaller instance: the file two passes share, the production Caddyfile,
\* the one derived from it, and a connector manifest.
SmallFile == {values, caddyfile, devcaddy, manifest}
SmallTargets == [p \in Pass |-> MCTargets[p] \cap SmallFile]
=============================================================================
