CONSTANTS
    a = a
    b = b
    function = function
    closure = closure
    Name = {a, b}
    Label = {function, closure}
    Kind <- KindOf
    MaxLine = 2
    MaxDecls = 3
    Texts <- FewTexts
    MaxSummaries = 1
    Orders <- OneOrder
SPECIFICATION Spec
INVARIANTS TypeOK CarriedOnce RejectedOnlyForReuse RepetitionSettles
PROPERTY MovedKeepsIdentity
