SPECIFICATION Spec
CONSTANTS
    u1 = u1
    u2 = u2
    u3 = u3
    get1 = get1
    get2 = get2
    read1 = read1
    upd = upd
    sav = sav
    str = str
    cpy = cpy
    dl = dl
    dls = dls
    del1 = del1
    add2 = add2
    unc = unc
    mov = mov
    cln = cln
    Uuid = {u1, u2, u3}
    Job = {get1, get2, read1, upd, sav, str, cpy, dl, dls, del1, add2, unc, mov, cln}
    Mixes <- Threes
    Kind <- MCKind
    Of <- MCOf
    Target <- MCTarget
    Size <- MCSize
    Stored = {u1}
    Cached = {u2}
    StorageLimit = 3
    CacheLimit = 1
    Ages = TRUE
    Faulty = {str}
    Word = 16
    Garbage = Garbage
INVARIANTS AnswersMatch RegularGet
PROPERTY EveryRequestAnswered
CHECK_DEADLOCK FALSE
