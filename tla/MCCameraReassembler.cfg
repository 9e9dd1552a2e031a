SPECIFICATION Spec
CONSTANTS
    big = big
    small = small
    Threads = {t1, t2}
    Images <- BothImages
    Count <- CountOf
    Jpeg = {big, small}
    Corrupt <- OfSmall
    SeqMod = 3
    MaxCached = 2
    Timeout = 1
    MaxLag = 0
SYMMETRY Symmetry
INVARIANTS TypeOK NoMixing DeliveredOnce
PROPERTIES CacheDiscipline
