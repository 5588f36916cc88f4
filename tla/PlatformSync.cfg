SPECIFICATION FairSpec
CONSTANTS
    compose = compose
    dockerfile = dockerfile
    values = values
    k3dconfig = k3dconfig
    envexample = envexample
    defaults = defaults
    caddyfile = caddyfile
    onboarding = onboarding
    devcaddy = devcaddy
    manifest = manifest
    File <- MCFile
    Targets <- MCTargets
    Value = {v1, v2}
    Anchored = {v1, v2}
    Caddy = caddyfile
    InitialValue = v1
    MaxDisturbances = 2
INVARIANTS
    TypeOK
    AppliedSyncsUnshadowed
    SecondRunConverges
    CleanMeansInSync
PROPERTIES
    OnlyShadowedRegress
    EventuallyInSync
