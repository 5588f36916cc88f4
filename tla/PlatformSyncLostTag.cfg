SPECIFICATION Spec
CONSTANTS
    compose = compose
    dockerfile = dockerfile
    values = values
    k3dconfig = k3dconfig
    envexample = envexample
    defaults = defaults
    caddyfile = caddyfile
    onboarding = onboarding
    devcaddy = devcaddy
    manifest = manifest
    File <- SmallFile
    Targets <- SmallTargets
    Value = {v1, v2}
    Anchored = {v1, v2}
    Caddy = caddyfile
    InitialValue = v1
    MaxDisturbances = 1
INVARIANT AppliedMeansInSync
