\* Two cells, two URCs on the line, one caller of set_registration().
SPECIFICATION Spec
CONSTANTS
    Cells = {cell1, cell2}
    NoCell = NoCell
    Callers = {machine}
    MaxUrcs = 2
SYMMETRY CellSymmetry
INVARIANTS  ModeAsSet
 
