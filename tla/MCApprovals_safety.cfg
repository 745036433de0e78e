SPECIFICATION Spec
CONSTANTS
    payee = payee  shop = shop  l1 = l1  l2 = l2  a1 = a1  a2 = a2  w1 = w1  w2 = w2  t1 = t1
    None = None
    Leads = {l1}  Names = {payee, shop}  OwnNames = {}  Listed = {}
    Alike <- MCAlike
    Docs <- MCDocs
    Workers = {w1, w2}  Standalone = {w2}
    Admins = {a1, a2}  Tools = {t1}
    MaxRuns = 2  MaxAsks = 2  MaxFaults = 1
SYMMETRY Symmetry
CHECK_DEADLOCK FALSE
INVARIANTS FileSound ApprovalCovers VerdictsAgree VerifiedIsJustified
