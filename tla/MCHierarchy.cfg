SPECIFICATION HierSpec
CONSTANTS
    None = None
    Shape <- Shapes
    q = q
    up = up
    got = got
    Param = {q}
    Local <- Locals
    Result <- Results
    Field = {"parent", "next"}
    Parent = "parent"
    Struct <- Structs
    Instr <- Instrs
    MaxCalls = 3
    Room = 2
    MaxParentHops = 1
    Object = {1, 2, 3, 4}
    Heaps <- AllHeaps
    Bindings <- AllBindings
INVARIANTS ClimbIsReported ReportIsAClimb
