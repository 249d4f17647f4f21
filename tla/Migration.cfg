CONSTANTS
    f1 = f1
    env = env
    link = link
    big = big
    m1 = m1
    m2 = m2
    Requests = {m1, m2}
    Files = {f1, env, link, big}
    Place <- Lexical
    Shared = env
    Links = {link}
    Huge = {big}
    MaxFaults = 1
SPECIFICATION Spec
INVARIANTS TypeOK MigratedIsWhole MigratedIsOwned
SYMMETRY Symmetry
