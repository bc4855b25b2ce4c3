CONSTANTS
    e1 = e1
    e2 = e2
    e3 = e3
    x1 = x1
    x2 = x2
    b1 = b1
    b2 = b2
    m1 = m1
    m2 = m2
    pol1 = pol1
    pol2 = pol2
    review = review
    ignore = ignore
    None = None
    Classes = {review, ignore}
    Candidate = {review}
    Evaluators = {e1, e2, e3}
    Extractors = {x1, x2}
    Metas = {m1, m2}
    Policies = {pol1, pol2}
    PolicyOf <- MCPolicyOf
    ClassOf <- MCClassOf
    Limits = {1}
    Bodies = {b1, b2}
    Times = {1, 2}
    MaxVersion = 3
    MaxFaults = 0
    Messages <- Mails
    Configured <- MCConfigured
    Fold <- Folds
    Width <- Widths
    Categories = {"C"}
    MaxLabels = 1
    MaxDomains = 2
    MaxTerms = 2
    MaxTermBytes = 3
    MaxFoldedTerm = 3
    MaxFoldedSubject = 4
    MaxSearches = 4
SPECIFICATION MCSpec
CHECK_DEADLOCK FALSE
PROPERTIES
    WinnerReturned
