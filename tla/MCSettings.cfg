CONSTANTS
    Fields <- MCFields
    Blank = 0
    Values = {0, 1}
    Unset = Unset
    Slash <- MCSlash
    Nothing = Nothing
    Admins = {a1}
    s1 = s1
    s2 = s2
    Slots = {s1, s2}

SPECIFICATION SettingsSpec
SYMMETRY MCSymmetry
INVARIANTS SettingsTypeOK PageCanBeCompleted
PROPERTIES SecretsOnlyTyped UntypedKept
