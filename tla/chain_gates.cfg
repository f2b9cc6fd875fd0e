CONSTANTS
    home = home
    share = share
    ann = ann
    bob = bob
    ops = ops
    tail = tail
    odd = odd
    Nil = Nil
    Pending = Pending
    Sources = {s1, s2}
    Names <- MCNames
    Unsafe <- MCUnsafe
    Answers <- MCAnswers
    Mounts <- MCMounts
    Canon <- MCCanon
    Configs <- MCConfigs
    Requests <- MCRequests
SPECIFICATION Spec
INVARIANTS ClosedGateHolds
