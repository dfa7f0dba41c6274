SPECIFICATION Spec
CONSTANTS
    ansible = ansible
    ldap = ldap
    extra = extra
    c1 = c1
    c2 = c2
    v1 = v1
    v2 = v2
    None = None
    Any = Any
    Galaxy = ansible
    Packages = {ansible, ldap}
    Seed = {ansible, ldap}
    Unbuildable = {ldap}
    Collections = {c1}
    Versions = {v1, v2}
    Scopes = {"python", "collections", "all"}
INVARIANT Reproduces
INVARIANT OnlyManagedMove
INVARIANT LockReproduced
INVARIANT FilesDescribe
INVARIANT RecreateStartsOver
