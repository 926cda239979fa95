-------------------------- MODULE MCSymbolIdentity --------------------------
(* Small instances of SymbolIdentity for TLC. *)
EXTENDS SymbolIdentity

CONSTANTS a, b, function, closure

\* One kind, two structures.
KindOf == [l \in {function, closure} |-> "function"]

\* Two declarations, of which b may be a function or a closure, or three
\* functions of one name.
FewTexts ==
    {t \in Text :
        \/ Len(t) <= 2 /\ \A i \in DOMAIN t : t[i].name = a => t[i].label = function
        \/ \A i \in DOMAIN t : t[i].name = a /\ t[i].label = function}

\* The ids of a sort against the lines, those of b along them.
Mixed == [x \in Id |->
            LET along == x.line * (MaxDecls + 1) + x.occurrence IN
            IF x.name = a THEN (MaxLine + 1) * (MaxDecls + 1) - along
            ELSE (MaxLine + 1) * (MaxDecls + 1) + along]
OneOrder == {Mixed}
=============================================================================
