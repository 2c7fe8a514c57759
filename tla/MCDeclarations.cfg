SPECIFICATION DeclSpec
CONSTANTS
    Type = {"T", "L", "B", "S"}
    Inline = {"S"}
    FieldName = {"mu", "other", "b", "s", "x", "y", "m", "inner", "nowhere"}
    Global = {"gmu", "y"}
    Packages <- AllPackages
INVARIANTS DeclTypeOK FieldsAreGuarded DirectSectionsCanBeEntered
