SPECIFICATION Spec
CONSTANTS
    super = super
    sub = sub
    foo = foo
    dnu = dnu
    old = old
    live = live
    NestedSites = TRUE
    Class = {super, sub}
    NoClass = NoClass
    Chain <- MCChain
    Selector = {foo, dnu}
    Dnu = dnu
    Method = {old, live}
    NoMethod = NoMethod
    Loaded = {old}
    Sealed <- MCSealed
    Site <- MCSite
    Address = {a1, a2, a3, a4}
    Bucket = {1, 2}
    Hash <- MCHash
    NoEntry = NoEntry
PROPERTIES
    CachingInvisible
